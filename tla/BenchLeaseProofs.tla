--------------------------- MODULE BenchLeaseProofs ---------------------------
(***************************************************************************)
(* Theorems about the bench lease, for any sets of windows, releases and   *)
(* observers.                                                              *)
(***************************************************************************)
EXTENDS BenchLease, TLAPS

\* A window's process, a release and an observer are different processes,
\* and none of them is None.
LEMMA Kinds ==
  /\ None \notin Window
  /\ Window \subseteq Process /\ ShRelease \subseteq Process /\ Observer \subseteq Process
  /\ Window \cap ShRelease = {} /\ Window \cap Observer = {}
  /\ ShRelease \cap Observer = {}
  BY KindsDisjoint, NoneIsNobody DEF Window, Process

-----------------------------------------------------------------------------
\* TypeOK alone is not inductive: a release must be known to have read a pid
\* by the time it notes that pid as overridden.
ReleaseHasPid ==
  \A r \in ShRelease : rel[r] \notin {"off", "peek", "peeked"} => seen[r] # None

TypeInv == TypeOK /\ ReleaseHasPid

\* Every variable keeps its type: in particular the holder line only ever
\* names a window's pid, and a probe is only ever granted to a known process.
THEOREM TypeCorrect == Spec => []TypeOK
<1> USE DEF clients, releaseKeeps, observerKeeps, winPC, relPC, obsPC, Goto
<1>1. Init => TypeInv
  BY DEF Init, TypeOK, TypeInv, ReleaseHasPid
<1>2. TypeInv /\ [Next]_vars => TypeInv'
  <2> SUFFICES ASSUME TypeInv, [Next]_vars PROVE TypeInv'
    OBVIOUS
  <2> USE Kinds DEF TypeOK, TypeInv, ReleaseHasPid
  <2>1. ASSUME NEW p \in Window, Opening(p) PROVE TypeInv'
    <3>1. CASE Launch(p)  BY <3>1 DEF Launch
    <3>2. CASE OpenLocked(p)  BY <3>2 DEF OpenLocked
    <3>3. CASE RefuseBusy(p)  BY <3>3 DEF RefuseBusy
    <3>4. CASE CheckStale(p)  BY <3>4 DEF CheckStale
    <3>5. CASE TruncateLine(p)  BY <3>5 DEF TruncateLine
    <3>6. CASE WriteHolderLine(p)  BY <3>6 DEF WriteHolderLine
    <3>7. QED  BY <2>1, <3>1, <3>2, <3>3, <3>4, <3>5, <3>6 DEF Opening
  <2>2. ASSUME NEW p \in Window, Running(p) PROVE TypeInv'
    <3>1. CASE StartCommand(p)  BY <3>1 DEF StartCommand
    <3>2. CASE RefuseNotIdle(p)  BY <3>2 DEF RefuseNotIdle
    <3>3. CASE BeginHold(p)  BY <3>3 DEF BeginHold
    <3>4. CASE EndHold(p)  BY <3>4 DEF EndHold
    <3>5. CASE EndBrief(p)  BY <3>5 DEF EndBrief
    <3>6. CASE CommandEnds(p)  BY <3>6 DEF CommandEnds
    <3>7. CASE CommandReturns(p)  BY <3>7 DEF CommandReturns
    <3>8. QED  BY <2>2, <3>1, <3>2, <3>3, <3>4, <3>5, <3>6, <3>7 DEF Running
  <2>3. ASSUME NEW p \in Window, Closing(p) PROVE TypeInv'
    <3>1. CASE ReadOwnLine(p)  BY <3>1 DEF ReadOwnLine
    <3>2. CASE ClearOwnLine(p)  BY <3>2 DEF ClearOwnLine
    <3>3. CASE Unlock(p)  BY <3>3 DEF Unlock, FlockAfter
    <3>4. CASE LingerEnds(p)  BY <3>4 DEF LingerEnds
    <3>5. CASE Crash(p)  BY <3>5 DEF Crash, Dies, FlockAfter
    <3>6. QED  BY <2>3, <3>1, <3>2, <3>3, <3>4, <3>5 DEF Closing
  <2>4. ASSUME NEW p \in Window, Requiring(p) PROVE TypeInv'
    <3>1. CASE RequireReadsLine(p)  BY <3>1 DEF RequireReadsLine
    <3>2. CASE RequireProbes(p)  BY <3>2 DEF RequireProbes
    <3>3. CASE RequireReturns(p)  BY <3>3 DEF RequireReturns
    <3>4. QED  BY <2>4, <3>1, <3>2, <3>3 DEF Requiring
  <2>5. ASSUME NEW r \in ShRelease, Releasing(r) PROVE TypeInv'
    <3> USE DEF RelGoto
    <3>1. CASE ReleaseReads(r)  BY <3>1 DEF ReleaseReads
    <3>2. CASE ReleaseJudges(r)  BY <3>2 DEF ReleaseJudges
    <3>3. CASE ReleaseWipes(r)  BY <3>3 DEF ReleaseWipes
    <3>4. CASE ReleasePeeks(r)  BY <3>4 DEF ReleasePeeks
    <3>5. CASE ReleaseTerms(r)  BY <3>5 DEF ReleaseTerms, Dies, FlockAfter, Alive
    <3>6. CASE ReleasePolls(r)  BY <3>6 DEF ReleasePolls
    <3>7. CASE ReleaseUnprobes(r)  BY <3>7 DEF ReleaseUnprobes
    <3>8. CASE ReleaseKills(r)  BY <3>8 DEF ReleaseKills, Dies, FlockAfter, Alive
    <3>9. CASE ReleaseRereads(r)  BY <3>9 DEF ReleaseRereads
    <3>10. CASE ReleaseRewipes(r)  BY <3>10 DEF ReleaseRewipes
    <3>11. QED  BY <2>5, <3>1, <3>2, <3>3, <3>4, <3>5, <3>6, <3>7, <3>8, <3>9,
                   <3>10 DEF Releasing
  <2>6. ASSUME NEW o \in Observer, Observing(o) PROVE TypeInv'
    <3> USE DEF Says, NoFlock
    <3>1. CASE ShStatusReads(o)  BY <3>1 DEF ShStatusReads
    <3>2. CASE ShStatusProbes(o)  BY <3>2 DEF ShStatusProbes
    <3>3. CASE ShStatusSays(o)  BY <3>3 DEF ShStatusSays
    <3>4. CASE PyStatusProbes(o)  BY <3>4 DEF PyStatusProbes
    <3>5. CASE PyStatusUnprobes(o)  BY <3>5 DEF PyStatusUnprobes
    <3>6. CASE PyStatusSays(o)  BY <3>6 DEF PyStatusSays
    <3>7. QED  BY <2>6, <3>1, <3>2, <3>3, <3>4, <3>5, <3>6 DEF Observing
  <2>7. CASE UNCHANGED vars
    BY <2>7 DEF vars
  <2>8. QED  BY <2>1, <2>2, <2>3, <2>4, <2>5, <2>6, <2>7 DEF Next
<1>3. TypeInv => TypeOK
  BY DEF TypeInv
<1>4. QED  BY <1>1, <1>2, <1>3, PTL DEF Spec
-----------------------------------------------------------------------------
\* Mutual exclusion for any number of windows, releases and observers, any of
\* which may be killed at any step, with or without --reclaim-stale/--force.
THEOREM MutualExclusion == Spec => []OneWindow
<1> USE DEF clients, releaseKeeps, observerKeeps, Goto, OneWindow
<1>1. Init => OneWindow
  BY DEF Init, Inside
<1>2. TypeOK /\ OneWindow /\ [Next]_vars => OneWindow'
  <2> SUFFICES ASSUME TypeOK, OneWindow, [Next]_vars PROVE OneWindow'
    OBVIOUS
  <2> USE Kinds DEF TypeOK, Inside, winPC
  <2>1. ASSUME NEW p \in Window, Opening(p) PROVE OneWindow'
    <3>1. CASE Launch(p)  BY <3>1 DEF Launch
    <3>2. CASE OpenLocked(p)  BY <3>2 DEF OpenLocked, Free
    <3>3. CASE RefuseBusy(p)  BY <3>3 DEF RefuseBusy
    <3>4. CASE CheckStale(p)  BY <3>4 DEF CheckStale
    <3>5. CASE TruncateLine(p)  BY <3>5 DEF TruncateLine
    <3>6. CASE WriteHolderLine(p)  BY <3>6 DEF WriteHolderLine
    <3>7. QED  BY <2>1, <3>1, <3>2, <3>3, <3>4, <3>5, <3>6 DEF Opening
  <2>2. ASSUME NEW p \in Window, Running(p) PROVE OneWindow'
    <3>1. CASE StartCommand(p)  BY <3>1 DEF StartCommand
    <3>2. CASE RefuseNotIdle(p)  BY <3>2 DEF RefuseNotIdle
    <3>3. CASE BeginHold(p)  BY <3>3 DEF BeginHold
    <3>4. CASE EndHold(p)  BY <3>4 DEF EndHold
    <3>5. CASE EndBrief(p)  BY <3>5 DEF EndBrief
    <3>6. CASE CommandEnds(p)  BY <3>6 DEF CommandEnds
    <3>7. CASE CommandReturns(p)  BY <3>7 DEF CommandReturns
    <3>8. QED  BY <2>2, <3>1, <3>2, <3>3, <3>4, <3>5, <3>6, <3>7 DEF Running
  <2>3. ASSUME NEW p \in Window, Closing(p) PROVE OneWindow'
    <3>1. CASE ReadOwnLine(p)  BY <3>1 DEF ReadOwnLine
    <3>2. CASE ClearOwnLine(p)  BY <3>2 DEF ClearOwnLine
    <3>3. CASE Unlock(p)  BY <3>3 DEF Unlock, FlockAfter
    <3>4. CASE LingerEnds(p)  BY <3>4 DEF LingerEnds
    <3>5. CASE Crash(p)  BY <3>5 DEF Crash, Dies, FlockAfter
    <3>6. QED  BY <2>3, <3>1, <3>2, <3>3, <3>4, <3>5 DEF Closing
  <2>4. ASSUME NEW p \in Window, Requiring(p) PROVE OneWindow'
    <3>1. CASE RequireReadsLine(p)  BY <3>1 DEF RequireReadsLine
    <3>2. CASE RequireProbes(p)  BY <3>2 DEF RequireProbes, Free
    <3>3. CASE RequireReturns(p)  BY <3>3 DEF RequireReturns
    <3>4. QED  BY <2>4, <3>1, <3>2, <3>3 DEF Requiring
  <2>5. ASSUME NEW r \in ShRelease, Releasing(r) PROVE OneWindow'
    <3>1. CASE ReleaseTerms(r)  BY <3>1 DEF ReleaseTerms, Dies, FlockAfter, Alive
    <3>2. CASE ReleaseKills(r)  BY <3>2 DEF ReleaseKills, Dies, FlockAfter, Alive
    <3>3. CASE ReleasePeeks(r) \/ ReleasePolls(r)
      BY <3>3 DEF ReleasePeeks, ReleasePolls, Free
    <3>4. CASE ReleaseUnprobes(r)  BY <3>4 DEF ReleaseUnprobes
    <3>5. CASE ReleaseReads(r) \/ ReleaseJudges(r) \/ ReleaseWipes(r)
      BY <3>5 DEF ReleaseReads, ReleaseJudges, ReleaseWipes
    <3>6. CASE ReleaseRereads(r) \/ ReleaseRewipes(r)
      BY <3>6 DEF ReleaseRereads, ReleaseRewipes
    <3>7. QED  BY <2>5, <3>1, <3>2, <3>3, <3>4, <3>5, <3>6 DEF Releasing
  <2>6. ASSUME NEW o \in Observer, Observing(o) PROVE OneWindow'
    <3>1. CASE ShStatusProbes(o) \/ PyStatusProbes(o)
      BY <3>1 DEF ShStatusProbes, PyStatusProbes, Free
    <3>2. CASE ShStatusReads(o) \/ ShStatusSays(o)
      BY <3>2 DEF ShStatusReads, ShStatusSays
    <3>3. CASE PyStatusUnprobes(o) \/ PyStatusSays(o)
      BY <3>3 DEF PyStatusUnprobes, PyStatusSays
    <3>4. QED  BY <2>6, <3>1, <3>2, <3>3 DEF Observing
  <2>7. CASE UNCHANGED vars
    BY <2>7 DEF vars
  <2>8. QED  BY <2>1, <2>2, <2>3, <2>4, <2>5, <2>6, <2>7 DEF Next
<1>3. QED  BY <1>1, <1>2, TypeCorrect, PTL DEF Spec
-----------------------------------------------------------------------------
\* The invariant behind the holder line.  The line is written under the flock
\* after it was found or made empty, and cleared under the flock only after
\* the command has returned; so it names a command for as long as it runs.
RecordInv ==
  /\ \A p \in Window : pc[p] \in Recorded => line = p
  /\ \A p \in Window : pc[p] = "clear" => seen[p] = p
  /\ \A p \in Window : pc[p] = "write" => line = None
  /\ \A p \in Window : pc[p] = "trunc" => line = None \/ p \in Reclaim
  /\ \A p \in Window : work[p] => /\ pc[p] \in {"run", "off"}
                                  /\ line = p \/ p \in acked

\* Steps of the observers, and of a command calling `require`, leave alone
\* everything RecordInv speaks about.
LEMMA WatchingKeepsRecord ==
  ASSUME TypeOK, RecordInv,
         \/ \E p \in Window : Requiring(p)
         \/ \E o \in Observer : Observing(o)
         \/ UNCHANGED vars
  PROVE  RecordInv'
<1> USE Kinds DEF RecordInv, TypeOK, observerKeeps, Recorded
<1>1. ASSUME NEW p \in Window, Requiring(p) PROVE RecordInv'
  BY <1>1 DEF Requiring, RequireReadsLine, RequireProbes, RequireReturns
<1>2. ASSUME NEW o \in Observer, Observing(o) PROVE RecordInv'
  <2> USE DEF Says
  <2>1. CASE ShStatusReads(o)  BY <2>1 DEF ShStatusReads
  <2>2. CASE ShStatusProbes(o)  BY <2>2 DEF ShStatusProbes
  <2>3. CASE ShStatusSays(o)  BY <2>3 DEF ShStatusSays
  <2>4. CASE PyStatusProbes(o)  BY <2>4 DEF PyStatusProbes
  <2>5. CASE PyStatusUnprobes(o) \/ PyStatusSays(o)
    BY <2>5 DEF PyStatusUnprobes, PyStatusSays
  <2>6. QED  BY <1>2, <2>1, <2>2, <2>3, <2>4, <2>5 DEF Observing
<1>3. CASE UNCHANGED vars
  BY <1>3 DEF vars
<1>4. QED  BY <1>1, <1>2, <1>3

\* A step of one window's own process keeps the record, given that the flock
\* lets no other process be inside.
LEMMA WindowKeepsRecord ==
  ASSUME TypeOK, OneWindow, RecordInv, NEW p \in Window,
         Opening(p) \/ Running(p) \/ Closing(p)
  PROVE  RecordInv'
<1> USE Kinds DEF RecordInv, TypeOK, OneWindow, Recorded, Inside, winPC, clients, Goto
<1>1. CASE Launch(p)  BY <1>1 DEF Launch, FreshPid
<1>2. CASE OpenLocked(p)  BY <1>2 DEF OpenLocked
<1>3. CASE RefuseBusy(p)  BY <1>3 DEF RefuseBusy
<1>4. CASE CheckStale(p)  BY <1>4 DEF CheckStale
<1>5. CASE TruncateLine(p)  BY <1>5 DEF TruncateLine
<1>6. CASE WriteHolderLine(p)  BY <1>6 DEF WriteHolderLine
<1>7. CASE StartCommand(p)  BY <1>7 DEF StartCommand
<1>8. CASE RefuseNotIdle(p) \/ EndBrief(p)  BY <1>8 DEF RefuseNotIdle, EndBrief
<1>9. CASE BeginHold(p) \/ EndHold(p)  BY <1>9 DEF BeginHold, EndHold
<1>10. CASE CommandEnds(p)  BY <1>10 DEF CommandEnds
<1>11. CASE CommandReturns(p)  BY <1>11 DEF CommandReturns
<1>12. CASE ReadOwnLine(p)  BY <1>12 DEF ReadOwnLine
<1>13. CASE ClearOwnLine(p)  BY <1>13 DEF ClearOwnLine, IsOurs
<1>14. CASE Unlock(p)  BY <1>14 DEF Unlock
<1>15. CASE LingerEnds(p)  BY <1>15 DEF LingerEnds
<1>16. CASE Crash(p)  BY <1>16 DEF Crash, Dies
<1>17. QED
  BY <1>1, <1>2, <1>3, <1>4, <1>5, <1>6, <1>7, <1>8, <1>9, <1>10, <1>11, <1>12,
     <1>13, <1>14, <1>15, <1>16 DEF Opening, Running, Closing

\* The invariant of the holder line, for any windows that are closed by their
\* own process, by a crash or by Python's release: only `bench-lock.sh
\* release` writes the lock file without the flock.
LEMMA RecordCorrect ==
  ASSUME ShRelease = {}
  PROVE  Spec => []RecordInv
<1>1. Init => RecordInv
  BY DEF Init, RecordInv, Recorded
<1>2. TypeOK /\ OneWindow /\ RecordInv /\ [Next]_vars => RecordInv'
  BY WatchingKeepsRecord, WindowKeepsRecord DEF Next
<1>3. QED  BY <1>1, <1>2, TypeCorrect, MutualExclusion, PTL DEF Spec

\* While a window is open the holder line names it, so every refusal names
\* the process that refuses.
THEOREM OwnerIsNamed ==
  ASSUME ShRelease = {}
  PROVE  Spec => []OwnerNamed
<1>1. RecordInv => OwnerNamed
  BY DEF RecordInv, OwnerNamed
<1>2. QED  BY <1>1, RecordCorrect, PTL

\* A command that outlived its window is fenced: its record refuses the next
\* window until somebody overrides that record explicitly.
THEOREM OrphansAreFenced ==
  ASSUME ShRelease = {}
  PROVE  Spec => []OrphanFenced
<1>1. RecordInv => OrphanFenced
  BY DEF RecordInv, OrphanFenced
<1>2. QED  BY <1>1, RecordCorrect, PTL
-----------------------------------------------------------------------------
(***************************************************************************)
(* The lease implements BenchOwner.                                        *)
(***************************************************************************)
\* What the refinement mapping computes: the one window with a live record.
OwnerFacts ==
  /\ \A p \in Window : pc[p] \in Recorded => owner = p
  /\ (\A p \in Window : pc[p] \notin Recorded) => owner = None

\* OwnerFacts holds in every reachable state.
LEMMA OwnerMapped == Spec => []OwnerFacts
<1>1. TypeOK /\ OneWindow => OwnerFacts
  <2> SUFFICES ASSUME TypeOK, OneWindow PROVE OwnerFacts
    OBVIOUS
  <2>1. ASSUME NEW p \in Window, NEW q \in Window,
               pc[p] \in Recorded, pc[q] \in Recorded
        PROVE  p = q
    BY <2>1 DEF OneWindow, Recorded, Inside, winPC
  <2>2. QED  BY <2>1 DEF OwnerFacts, owner
<1>2. QED  BY <1>1, TypeCorrect, MutualExclusion, PTL

\* A step that moves nobody into or out of Recorded keeps the mapped owner.
LEMMA OwnerKept ==
  ASSUME OwnerFacts, OwnerFacts',
         \A p \in Window : pc'[p] \in Recorded <=> pc[p] \in Recorded
  PROVE  owner' = owner
  BY DEF OwnerFacts

\* One step of the lease is one step of the abstract bench, or none of it.
LEMMA StepImplements ==
  ASSUME TypeOK, OneWindow, RecordInv, OwnerFacts, OwnerFacts', ShRelease = {},
         [Next]_vars
  PROVE  [Bench!Next]_(Bench!vars)
<1> USE Kinds DEF Bench!vars, TypeOK
<1>1. ASSUME NEW p \in Window, Opening(p) PROVE [Bench!Next]_(Bench!vars)
  <2> USE DEF Goto, Recorded
  <2>1. CASE Launch(p)  BY <2>1, OwnerKept DEF Launch
  <2>2. CASE OpenLocked(p)  BY <2>2, OwnerKept DEF OpenLocked
  <2>3. CASE RefuseBusy(p)  BY <2>3, OwnerKept DEF RefuseBusy
  <2>4. CASE CheckStale(p)  BY <2>4, OwnerKept DEF CheckStale
  <2>5. CASE TruncateLine(p)
    <3>1. owner' = owner
      BY <2>5, OwnerKept DEF TruncateLine
    <3>2. owner = None
      BY <2>5 DEF TruncateLine, OneWindow, OwnerFacts, Inside, winPC
    <3>3. line # None => Bench!Override(p)
      BY <2>5, <3>1, <3>2 DEF TruncateLine, RecordInv, Bench!Override
    <3>4. QED  BY <2>5, <3>1, <3>3 DEF TruncateLine, Bench!Next
  <2>6. CASE WriteHolderLine(p)
    <3>1. owner = None
      BY <2>6 DEF WriteHolderLine, OneWindow, OwnerFacts, Inside, winPC
    <3>2. owner' = p
      BY <2>6 DEF WriteHolderLine, OwnerFacts
    <3>3. Bench!Open(p)
      BY <2>6, <3>1, <3>2 DEF WriteHolderLine, RecordInv, Bench!Open
    <3>4. QED  BY <3>3 DEF Bench!Next
  <2>7. QED  BY <1>1, <2>1, <2>2, <2>3, <2>4, <2>5, <2>6 DEF Opening
<1>2. ASSUME NEW p \in Window, Running(p) PROVE [Bench!Next]_(Bench!vars)
  <2> USE OwnerKept DEF Goto, Recorded
  <2>1. CASE StartCommand(p)  BY <2>1 DEF StartCommand
  <2>2. CASE RefuseNotIdle(p)  BY <2>2 DEF RefuseNotIdle
  <2>3. CASE BeginHold(p)  BY <2>3 DEF BeginHold
  <2>4. CASE EndHold(p)  BY <2>4 DEF EndHold
  <2>5. CASE EndBrief(p)  BY <2>5 DEF EndBrief
  <2>6. CASE CommandEnds(p)  BY <2>6 DEF CommandEnds
  <2>7. CASE CommandReturns(p)  BY <2>7 DEF CommandReturns
  <2>8. QED  BY <1>2, <2>1, <2>2, <2>3, <2>4, <2>5, <2>6, <2>7 DEF Running
<1>3. ASSUME NEW p \in Window, Closing(p) PROVE [Bench!Next]_(Bench!vars)
  <2> USE DEF Goto, Recorded
  <2>1. CASE ReadOwnLine(p)  BY <2>1, OwnerKept DEF ReadOwnLine
  <2>2. CASE ClearOwnLine(p)
    <3>1. owner = p
      BY <2>2 DEF ClearOwnLine, OwnerFacts
    <3>2. owner' = None
      BY <2>2 DEF ClearOwnLine, OneWindow, OwnerFacts, Inside, winPC
    <3>3. line' = None
      BY <2>2 DEF ClearOwnLine, IsOurs, RecordInv
    <3>4. QED  BY <3>1, <3>2, <3>3 DEF Bench!Close, Bench!Next
  <2>3. CASE Unlock(p)  BY <2>3, OwnerKept DEF Unlock
  <2>4. CASE LingerEnds(p)  BY <2>4, OwnerKept DEF LingerEnds
  <2>5. CASE Crash(p)
    <3>1. CASE pc[p] \in Recorded
      <4>1. owner = p
        BY <3>1 DEF OwnerFacts
      <4>2. owner' = None
        BY <2>5, <3>1 DEF Crash, Dies, OneWindow, OwnerFacts, Inside, winPC
      <4>3. QED  BY <2>5, <4>1, <4>2 DEF Crash, Bench!Die, Bench!Next
    <3>2. CASE pc[p] \notin Recorded
      BY <2>5, <3>2, OwnerKept DEF Crash, Dies
    <3>3. QED  BY <3>1, <3>2
  <2>6. QED  BY <1>3, <2>1, <2>2, <2>3, <2>4, <2>5 DEF Closing
<1>4. ASSUME NEW p \in Window, Requiring(p) PROVE [Bench!Next]_(Bench!vars)
  BY <1>4, OwnerKept DEF Requiring, RequireReadsLine, RequireProbes, RequireReturns
<1>5. ASSUME NEW o \in Observer, Observing(o) PROVE [Bench!Next]_(Bench!vars)
  BY <1>5, OwnerKept DEF Observing, ShStatusReads, ShStatusProbes, ShStatusSays,
     PyStatusProbes, PyStatusUnprobes, PyStatusSays, observerKeeps
<1>6. CASE UNCHANGED vars
  BY <1>6, OwnerKept DEF vars
<1>7. QED  BY <1>1, <1>2, <1>3, <1>4, <1>5, <1>6 DEF Next

\* Without `bench-lock.sh release`, the interleaved reads, truncates, writes
\* and flocks of both implementations are the single-owner bench: windows
\* that exclude each other, and a record nobody drops without an override.
THEOREM LeaseIsBenchOwner ==
  ASSUME ShRelease = {}
  PROVE  Spec => ImplementsBenchOwner
<1>1. Init => Bench!Init
  BY DEF Init, Bench!Init, owner, Recorded
<1>2. TypeOK /\ OneWindow /\ RecordInv /\ OwnerFacts /\ OwnerFacts' /\ [Next]_vars
        => [Bench!Next]_(Bench!vars)
  BY StepImplements
<1>3. QED
  BY <1>1, <1>2, TypeCorrect, MutualExclusion, RecordCorrect, OwnerMapped, PTL
  DEF Spec, ImplementsBenchOwner, Bench!Spec
-----------------------------------------------------------------------------
(***************************************************************************)
(* SIGTERM and shell windows.                                              *)
(***************************************************************************)
\* Without kills from outside, a command's window is waiting for it: the
\* shell's trap makes SIGTERM wait for the command too.
WaitedFor ==
  /\ \A p \in Window : work[p] => p \in ShExec /\ pc[p] = "run"
  /\ \A r \in ShRelease : rel[r] # "kill"

\* `bench-lock.sh release` without --force never opens the bench under a
\* running command of `bench-lock.sh exec`.
THEOREM TermWaitsForCommand ==
  ASSUME PyExec = {}, Crashable = {}, Forced = {}
  PROVE  Spec => []CommandInWindow
<1>1. Init => WaitedFor
  BY DEF Init, WaitedFor
<1>2. TypeOK /\ WaitedFor /\ [Next]_vars => WaitedFor'
  <2> SUFFICES ASSUME TypeOK, WaitedFor, [Next]_vars PROVE WaitedFor'
    OBVIOUS
  <2> USE Kinds DEF WaitedFor, TypeOK, clients, Goto
  <2>1. ASSUME NEW p \in Window, Opening(p) PROVE WaitedFor'
    BY <2>1 DEF Opening, Launch, OpenLocked, RefuseBusy, CheckStale, TruncateLine,
       WriteHolderLine
  <2>2. ASSUME NEW p \in Window, Running(p) PROVE WaitedFor'
    <3>1. CASE StartCommand(p)  BY <3>1 DEF StartCommand, Commands
    <3>2. CASE RefuseNotIdle(p) \/ EndBrief(p)  BY <3>2 DEF RefuseNotIdle, EndBrief
    <3>3. CASE BeginHold(p) \/ EndHold(p)  BY <3>3 DEF BeginHold, EndHold
    <3>4. CASE CommandEnds(p)  BY <3>4 DEF CommandEnds
    <3>5. CASE CommandReturns(p)  BY <3>5 DEF CommandReturns
    <3>6. QED  BY <2>2, <3>1, <3>2, <3>3, <3>4, <3>5 DEF Running
  <2>3. ASSUME NEW p \in Window, Closing(p) PROVE WaitedFor'
    BY <2>3 DEF Closing, ReadOwnLine, ClearOwnLine, Unlock, LingerEnds, Crash
  <2>4. ASSUME NEW p \in Window, Requiring(p) PROVE WaitedFor'
    BY <2>4 DEF Requiring, RequireReadsLine, RequireProbes, RequireReturns
  <2>5. ASSUME NEW r \in ShRelease, Releasing(r) PROVE WaitedFor'
    <3> USE DEF releaseKeeps, RelGoto
    <3>1. CASE ReleaseTerms(r)
      BY <3>1 DEF ReleaseTerms, Dies, Alive, HasHandler
    <3>2. CASE ReleasePolls(r)  BY <3>2 DEF ReleasePolls
    <3>3. CASE ReleaseKills(r)  BY <3>3 DEF ReleaseKills
    <3>4. CASE ReleasePeeks(r) \/ ReleaseUnprobes(r)
      BY <3>4 DEF ReleasePeeks, ReleaseUnprobes
    <3>5. CASE ReleaseReads(r) \/ ReleaseJudges(r) \/ ReleaseWipes(r)
      BY <3>5 DEF ReleaseReads, ReleaseJudges, ReleaseWipes
    <3>6. CASE ReleaseRereads(r) \/ ReleaseRewipes(r)
      BY <3>6 DEF ReleaseRereads, ReleaseRewipes
    <3>7. QED  BY <2>5, <3>1, <3>2, <3>3, <3>4, <3>5, <3>6 DEF Releasing
  <2>6. ASSUME NEW o \in Observer, Observing(o) PROVE WaitedFor'
    BY <2>6 DEF Observing, ShStatusReads, ShStatusProbes, ShStatusSays,
       PyStatusProbes, PyStatusUnprobes, PyStatusSays, observerKeeps
  <2>7. CASE UNCHANGED vars
    BY <2>7 DEF vars
  <2>8. QED  BY <2>1, <2>2, <2>3, <2>4, <2>5, <2>6, <2>7 DEF Next
<1>3. WaitedFor /\ OneWindow => CommandInWindow
  BY DEF WaitedFor, OneWindow, CommandInWindow, Inside, winPC
<1>4. QED  BY <1>1, <1>2, <1>3, TypeCorrect, MutualExclusion, PTL DEF Spec
=============================================================================
