------------------------------ MODULE Calendar ------------------------------
(***************************************************************************)
(* What the booking handlers promise a reader of the tables, with every    *)
(* handler collapsed to the one moment it takes effect.  A booking opens   *)
(* at a time no steady booking of the master has; a decision is legal for  *)
(* a status the booking has had, not always the one it has; a move and a   *)
(* reopening make a booking unsteady, and promise nothing about its time.  *)
(***************************************************************************)
EXTENDS Integers

CONSTANTS
  Ids,                     \* bookings
  Masters, Starts, Ends    \* where and when a booking can be

VARIABLES
  place,      \* booking -> its slot, or Nowhere before it exists
  past,       \* booking -> statuses it has had
  current,    \* booking -> its status, one of past once it exists
  steady      \* bookings never moved and never reopened

cal == <<place, past, current, steady>>

Slots == [master : Masters, start : Starts, end : Ends]

Nowhere == [slot |-> "none"]

Exists(b) == place[b] # Nowhere

Open(status) == status \in {"pending", "confirmed", "inProgress"}

\* Two slots share time of one master.
Meets(p, q) == p.master = q.master /\ p.start < q.end /\ q.start < p.end

\* A decision may take a booking from the first status to the second.
Legal(old, new) ==
  /\ old # new
  /\ \/ new = "cancelled"
     \/ new \in {"confirmed", "rejected"} /\ old = "pending"
     \/ new = "noShow" /\ old = "confirmed"
     \/ new = "completed" /\ old \in {"confirmed", "inProgress"}

Init ==
  /\ place = [b \in Ids |-> Nowhere]
  /\ past = [b \in Ids |-> {}]
  /\ current = [b \in Ids |-> "absent"]
  /\ steady = Ids

Become(b, status) ==
  /\ current' = [current EXCEPT ![b] = status]
  /\ past' = [past EXCEPT ![b] = @ \cup {status}]

\* A client gets a slot that no steady booking meets.
Book(b) ==
  /\ ~Exists(b)
  /\ \E slot \in Slots :
       /\ \A other \in steady :
            Exists(other) /\ Open(current[other]) => ~Meets(place[other], slot)
       /\ place' = [place EXCEPT ![b] = slot]
  /\ \E status \in {"pending", "confirmed"} : Become(b, status)
  /\ UNCHANGED steady

\* Customer, master or salon decides.
Decide(b) ==
  /\ Exists(b)
  /\ \E status \in {"confirmed", "cancelled", "rejected", "completed", "noShow"} :
       /\ \E old \in past[b] : Legal(old, status)
       /\ Become(b, status)
       /\ steady' = IF Open(status) /\ ~Open(current[b])
                    THEN steady \ {b} ELSE steady
  /\ UNCHANGED place

\* The booking goes elsewhere; only one that was pending can be pending after.
Move(b) ==
  /\ Exists(b)
  /\ \E slot \in Slots : place' = [place EXCEPT ![b] = slot]
  /\ \/ "pending" \in past[b] /\ Become(b, "pending")
     \/ past[b] # {"pending"} /\ Become(b, "confirmed")
  /\ steady' = steady \ {b}

Next == \E b \in Ids : Book(b) \/ Decide(b) \/ Move(b)

Spec == Init /\ [][Next]_cal
=============================================================================
