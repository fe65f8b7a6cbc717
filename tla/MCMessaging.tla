---------------------------- MODULE MCMessaging ----------------------------
(* Instances of Messaging for TLC. *)
EXTENDS Messaging, TLC

CONSTANTS a, b, c, d, x, y

Drawn == a :> 1 @@ b :> 2 @@ c :> 3 @@ d :> 4 @@ x :> 5 @@ y :> 6

\* One draw of distinct nonces: our messages are sent in every order, so every
\* order of the nonces against the order of sending happens.
OneDraw == {[m \in Message |-> Drawn[m]]}
=============================================================================
