--------------------------- MODULE LoginContract ---------------------------
(***************************************************************************)
(* What callers may rely on about sessions and logins, without the state   *)
(* the code keeps to provide it: a login belongs to a slot that has        *)
(* sessions, one user at a time, and ends with the last session; the SO    *)
(* never shares a slot with a read-only session.  Sessions implements it,  *)
(* and so do the overlapping calls of CallLocks.                           *)
(***************************************************************************)
CONSTANTS Slots, Handles, Users, Nobody, Absent

VARIABLES
  open,      \* the open sessions: the slot of each and whether it can write
  logged     \* the user logged in to each slot

Sessions == [slot : Slots, rw : BOOLEAN]

On(o, s) == {h \in Handles : o[h] # Absent /\ o[h].slot = s}

Init ==
  /\ open = [h \in Handles |-> Absent]
  /\ logged = [s \in Slots |-> Nobody]

Open(h, session) ==
  /\ open[h] = Absent
  /\ logged[session.slot] = "SO" => session.rw
  /\ open' = [open EXCEPT ![h] = session]
  /\ UNCHANGED logged

(* Any set of sessions can go at once; a slot left without is logged out.  *)
Close(gone) ==
  /\ open' = [h \in Handles |-> IF h \in gone THEN Absent ELSE open[h]]
  /\ logged' = [s \in Slots |-> IF On(open', s) = {} THEN Nobody ELSE logged[s]]

LogIn(s, u) ==
  /\ logged[s] = Nobody
  /\ On(open, s) # {}
  /\ u = "SO" => \A h \in On(open, s) : open[h].rw
  /\ logged' = [logged EXCEPT ![s] = u]
  /\ UNCHANGED open

LogOut(s) ==
  /\ logged' = [logged EXCEPT ![s] = Nobody]
  /\ UNCHANGED open

Next ==
  \/ \E h \in Handles, session \in Sessions : Open(h, session)
  \/ \E gone \in SUBSET Handles : Close(gone)
  \/ \E s \in Slots, u \in Users : LogIn(s, u)
  \/ \E s \in Slots : LogOut(s)

Spec == Init /\ [][Next]_<<open, logged>>
=============================================================================
