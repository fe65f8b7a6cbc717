---------------------------- MODULE PublicGroups ----------------------------
(***************************************************************************)
(* groups.PublicGroupService: bans, mutes and the rate limit of public     *)
(* groups.  Everything happens under s.mu, but IsMuted, which deletes an   *)
(* expired mute with only the read lock held.  Times are unsigned seconds  *)
(* modulo Word.  The group is one this process created, so that its maps   *)
(* exist, and the caller of CheckRateLimit always passes the same limit    *)
(* and window.                                                             *)
(***************************************************************************)
EXTENDS Integers, Sequences, FiniteSets

CONSTANTS
  Member, Creator,  \* the members and the one who creates the group
  Reader,           \* goroutines that call IsMuted
  Limit, Window,    \* maxMessages and windowSec
  Durations,        \* of mutes
  Word,             \* 2^64
  Start, MaxNow,    \* the clock when the process starts, and its bound
  MaxCalls          \* bound: calls that change something

VARIABLES
  members, banned, storedMembers, epoch,
  muted,        \* member -> expiry, 0 without a mute
  rateLimits,   \* for the members that sent something, the times
  reading,      \* reader -> the member whose expired mute it is about to delete
  alive,
  now, calls,
  allowed,      \* ghost: member -> the times of all messages that were allowed
  granted,      \* ghost: member -> the expiry of the last mute
  readmitted    \* ghost: banned members that were added again

vars == <<members, banned, storedMembers, epoch, muted, rateLimits, reading, alive, now, calls,
          allowed, granted, readmitted>>
groupVars == <<members, banned, storedMembers, epoch, readmitted>>
rateVars == <<rateLimits, allowed>>
muteVars == <<muted, granted>>

NoOne == 0

Init ==
  /\ members = {Creator} /\ banned = {} /\ storedMembers = {Creator} /\ epoch = 1
  /\ muted = [m \in Member |-> 0] /\ rateLimits = <<>>
  /\ reading = [r \in Reader |-> NoOne] /\ alive = TRUE
  /\ now = Start /\ calls = 0
  /\ allowed = [m \in Member |-> <<>>] /\ granted = [m \in Member |-> 0] /\ readmitted = {}

\* s.mu is taken: no reader is inside.
Locked ==
  /\ alive /\ \A r \in Reader : reading[r] = NoOne
  /\ calls < MaxCalls /\ calls' = calls + 1

\* GroupState.AddMember, on the state CreatePublicGroup returned: nothing looks
\* at the ban list or takes s.mu.
AddMember(m) ==
  /\ alive /\ calls < MaxCalls /\ calls' = calls + 1 /\ m \notin members
  /\ members' = members \cup {m}
  /\ readmitted' = IF m \in banned THEN readmitted \cup {m} ELSE readmitted
  /\ UNCHANGED <<banned, storedMembers, epoch, muteVars, rateVars, reading, alive, now>>

\* Mutant: nobody is removed.
MutantRemoveMember(m) == {}

\* RemoveMember refuses the creator and who is not a member.
RemoveMember(m) == IF m \in members \ {Creator} THEN {members \ {m}} ELSE {}

\* BanMember puts a member on the list before it tries to remove it; the group
\* without it may not reach storage.
BanMember(m) ==
  /\ Locked /\ m \notin banned
  /\ banned' = banned \cup {m}
  /\ IF RemoveMember(m) = {} THEN UNCHANGED <<members, epoch, storedMembers>>
     ELSE /\ members' \in RemoveMember(m) /\ epoch' = epoch + 1
          /\ storedMembers' \in {storedMembers, members \ {m}}
  /\ UNCHANGED <<readmitted, muteVars, rateVars, reading, alive, now>>

Expiry(d) == (now + d) % Word

\* Mutant: the lock is not taken.
MutantMuteMember(m, d) ==
  /\ alive /\ calls < MaxCalls /\ calls' = calls + 1 /\ ~ muted[m] > now
  /\ muted' = [muted EXCEPT ![m] = Expiry(d)]
  /\ granted' = [granted EXCEPT ![m] = Expiry(d)]
  /\ UNCHANGED <<groupVars, rateVars, reading, alive, now>>

\* MuteMember: refused while an earlier mute has not expired.
MuteMember(m, d) ==
  /\ Locked /\ ~ muted[m] > now
  /\ muted' = [muted EXCEPT ![m] = Expiry(d)]
  /\ granted' = [granted EXCEPT ![m] = Expiry(d)]
  /\ UNCHANGED <<groupVars, rateVars, reading, alive, now>>

\* IsMuted finds an expired mute, with the read lock ...
IsMuted(r, m) ==
  /\ alive /\ reading[r] = NoOne /\ muted[m] # 0 /\ muted[m] <= now
  /\ reading' = [reading EXCEPT ![r] = m]
  /\ UNCHANGED <<groupVars, muteVars, rateVars, alive, now, calls>>

\* ... and deletes it; readers that delete at once can bring the process down.
DeleteExpired(r) ==
  /\ alive /\ reading[r] # NoOne
  /\ muted' = [muted EXCEPT ![reading[r]] = 0]
  /\ reading' = [reading EXCEPT ![r] = NoOne]
  /\ \/ UNCHANGED alive
     \/ alive' = FALSE /\ \E q \in Reader \ {r} : reading[q] # NoOne
  /\ UNCHANGED <<groupVars, granted, rateVars, now, calls>>

\* The loop that keeps the times after the cutoff.
After(times, cutoff) ==
  LET kept[i \in 0 .. Len(times)] ==
        IF i = 0 THEN <<>>
        ELSE IF times[i] > cutoff THEN Append(kept[i - 1], times[i]) ELSE kept[i - 1]
  IN  kept[Len(times)]

\* Mutant: the window is one second short.
MutantRecent(m) == IF m \notin DOMAIN rateLimits THEN <<>>
                   ELSE After(rateLimits[m], ((now - Window) % Word) + 1)

\* The times of a sender that lie in the window.
Recent(m) == IF m \notin DOMAIN rateLimits THEN <<>>
             ELSE After(rateLimits[m], (now - Window) % Word)

\* CheckRateLimit; a first message is always allowed.
CheckRateLimit(m) ==
  /\ Locked
  /\ IF m \in DOMAIN rateLimits /\ Len(Recent(m)) >= Limit
     THEN rateLimits' = [rateLimits EXCEPT ![m] = Recent(m)] /\ UNCHANGED allowed
     ELSE /\ rateLimits' = [k \in DOMAIN rateLimits \cup {m} |->
                              IF k = m THEN Append(Recent(m), now) ELSE rateLimits[k]]
          /\ allowed' = [allowed EXCEPT ![m] = Append(@, now)]
  /\ UNCHANGED <<groupVars, muteVars, reading, alive, now>>

Tick ==
  /\ alive /\ now < MaxNow /\ now' = now + 1
  /\ UNCHANGED <<groupVars, muteVars, rateVars, reading, alive, calls>>

Next ==
  \/ Tick
  \/ \E m \in Member :
       \/ AddMember(m) \/ BanMember(m) \/ CheckRateLimit(m)
       \/ \E d \in Durations : MuteMember(m, d)
       \/ \E r \in Reader : IsMuted(r, m)
  \/ \E r \in Reader : DeleteExpired(r)

Spec == Init /\ [][Next]_vars

-----------------------------------------------------------------------------
\* In no stretch of time as long as the window more messages of one sender are
\* allowed than the limit says, or one if it says none (CheckRateLimit).
RateHolds ==
  \A m \in Member : \A t \in Start .. now :
    Cardinality({i \in DOMAIN allowed[m] : t - Window < allowed[m][i] /\ allowed[m][i] <= t})
      <= IF Limit > 1 THEN Limit ELSE 1

\* A mute that was granted holds until it expires: no reader that came upon an
\* expired mute deletes the one that replaced it (IsMuted, MuteMember).
MuteHolds == \A m \in Member : granted[m] > now => muted[m] = granted[m]

\* Who is banned is no member, but for the creator, whom BanMember lists and
\* cannot remove, and for who was added again afterwards.
BannedOut == \A m \in banned : m \in members => m = Creator \/ m \in readmitted

\* What moderators decided holds until it ends (CheckRateLimit, MuteMember,
\* BanMember).
ModerationHolds == RateHolds /\ MuteHolds /\ BannedOut
=============================================================================
