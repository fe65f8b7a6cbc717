----------------------------- MODULE MCMailbox -----------------------------
(***************************************************************************)
(* An instance of Mailbox for TLC.                                         *)
(***************************************************************************)
EXTENDS Mailbox

CONSTANT s1     \* a sender's device

\* Three messages of a sender for one target, of which the last is larger, names
\* no identity and is accepted whatever its signature.
Messages ==
  {[target |-> 1, id |-> i, sender |-> s1, size |-> IF i < 3 THEN 1 ELSE 2,
    keyed |-> i < 3, signature |-> IF i < 3 THEN "good" ELSE "bad"] : i \in 1..3}

=============================================================================
