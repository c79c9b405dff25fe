------------------------------ MODULE BenchOwner ------------------------------
(***************************************************************************)
(* What the bench lease promises its users: at most one owner, and a       *)
(* record of the owner that outlives an owner that died, so that nobody    *)
(* opens the next window over it without saying so.                        *)
(***************************************************************************)
CONSTANTS Window, Reclaim, None

VARIABLES owner, record

vars == <<owner, record>>

Init == owner = None /\ record = None

\* A window opens on a bench that is free and has no record of a dead owner.
Open(p) ==
  /\ owner = None /\ record = None
  /\ owner' = p /\ record' = p

\* Explicit recovery: the dead owner's record is taken away.
Override(p) ==
  /\ owner = None /\ record # None /\ p \in Reclaim
  /\ record' = None
  /\ UNCHANGED owner

Close(p) ==
  /\ owner = p
  /\ owner' = None /\ record' = None

Die(p) ==
  /\ owner = p
  /\ owner' = None
  /\ UNCHANGED record

Next == \E p \in Window : Open(p) \/ Override(p) \/ Close(p) \/ Die(p)

Spec == Init /\ [][Next]_vars

TypeOK == owner \in Window \cup {None} /\ record \in Window \cup {None}
=============================================================================
