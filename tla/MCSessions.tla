----------------------------- MODULE MCSessions -----------------------------
(***************************************************************************)
(* Sessions for TLC.  The first state chooses what a behaviour explores:   *)
(*                                                                         *)
(*   together   requests at once, passwords that stay                      *)
(*   alone      one request at a time, passwords that change               *)
(***************************************************************************)
EXTENDS Sessions, TLC

VARIABLE part

\* The bounds of each part.
Within ==
  /\ part = "together" => \A u \in Users : account[u].password = 1
  /\ part = "alone" => Cardinality({h \in Handlers : req[h] # Idle}) <= 1

MCInit == Init /\ part \in {"together", "alone"}

MCNext == Next /\ UNCHANGED part /\ Within'

MCSpec == MCInit /\ [][MCNext]_<<vars, part>>

MCSymmetry == Permutations(Users) \cup Permutations(Tokens) \cup Permutations(Handlers)

\* Rotation leaves one live token in a family, and a change of password ends
\* every session made with the old one, while requests come one at a time.
OneEndAlone == part = "alone" => OneEndPerFamily

PasswordVouchesAlone == part = "alone" => PasswordVouchesForSessions
=============================================================================
