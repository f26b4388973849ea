----------------------------- MODULE TurnTaking ------------------------------
(***************************************************************************)
(* What the Serial coordinator promises for one lock, without messages,    *)
(* timestamps or a leader: the units that asked take turns, one inside at  *)
(* a time, and a request goes away only by being served or with its unit.  *)
(***************************************************************************)
CONSTANT Units

VARIABLES
  members,      \* units of the application
  waiting,      \* units with a request on record
  owner,        \* the unit whose request is answered by a grant on record
  inside        \* the unit whose charm code holds the lock

vars == <<members, waiting, owner, inside>>

Init ==
  /\ members = Units
  /\ waiting = {}
  /\ owner = {}
  /\ inside = {}

(* u's request is on record. *)
Request(u) ==
  /\ u \in members \ waiting
  /\ waiting' = waiting \union {u}
  /\ UNCHANGED <<members, owner, inside>>

(* A grant for u is on record, with nobody else inside.  If u granted the  *)
(* lock to itself, it had its turn before the grant came on record.        *)
Grant(u) ==
  /\ owner = {}
  /\ u \in waiting
  /\ inside \subseteq {u}
  /\ owner' = {u}
  /\ inside' = {}
  /\ UNCHANGED <<members, waiting>>

(* u's charm code learns that it has the lock: its grant is on record, or  *)
(* nobody's is and u is the one who decides.                               *)
Enter(u) ==
  /\ u \in members
  /\ inside = {}
  /\ owner \subseteq {u}
  /\ inside' = {u}
  /\ UNCHANGED <<members, waiting, owner>>

(* The hook of the holder ends, well or badly. *)
Leave(u) ==
  /\ inside = {u}
  /\ inside' = {}
  /\ UNCHANGED <<members, waiting, owner>>

(* The owner had its turn, and its request is withdrawn. *)
Release(u) ==
  /\ owner = {u}
  /\ inside = {}
  /\ owner' = {}
  /\ waiting' = waiting \ {u}
  /\ UNCHANGED <<members, inside>>

(* A unit outside is removed, and all there is on record about it. *)
Depart(u) ==
  /\ u \in members \ inside
  /\ members' = members \ {u}
  /\ waiting' = waiting \ {u}
  /\ owner' = owner \ {u}
  /\ UNCHANGED inside

Next ==
  \E u \in Units :
    \/ Request(u) \/ Grant(u) \/ Enter(u) \/ Leave(u)
    \/ Release(u) \/ Depart(u)

Spec == Init /\ [][Next]_vars
=============================================================================
