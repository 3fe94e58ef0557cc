------------------------------ MODULE SignIns ------------------------------
(***************************************************************************)
(* What the session handlers promise: a sign-in begins once, belongs to    *)
(* one user, and when it is over it never comes back.  Many sign-ins can   *)
(* end in one step, all of them of one user.                               *)
(***************************************************************************)
CONSTANTS
  Ids,       \* sign-ins
  People,    \* users
  Nobody     \* owner of a sign-in that has not begun

VARIABLES
  phase,     \* sign-in -> "unused", "on" or "over"
  owner      \* sign-in -> user

signIns == <<phase, owner>>

Init ==
  /\ phase = [i \in Ids |-> "unused"]
  /\ owner = [i \in Ids |-> Nobody]

Begin(i, u) ==
  /\ phase[i] = "unused"
  /\ phase' = [phase EXCEPT ![i] = "on"]
  /\ owner' = [owner EXCEPT ![i] = u]

End(ended, u) ==
  /\ \A i \in ended : phase[i] = "on" /\ owner[i] = u
  /\ phase' = [i \in Ids |-> IF i \in ended THEN "over" ELSE phase[i]]
  /\ UNCHANGED owner

Next ==
  \E u \in People :
    \/ \E i \in Ids : Begin(i, u)
    \/ \E ended \in SUBSET Ids : End(ended, u)

Spec == Init /\ [][Next]_signIns
=============================================================================
