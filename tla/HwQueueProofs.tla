---------------------------- MODULE HwQueueProofs ----------------------------
(***************************************************************************)
(* Theorems about the hardware queue, for any sets of jobs, ticks and      *)
(* other windows and any number of kills.                                  *)
(***************************************************************************)
EXTENDS HwQueue, WellFoundedInduction, TLAPS

\* A set of jobs that is not empty has a first one: what a tick is at is one
\* of the jobs it still has to do.
LEMMA MinIsMember ==
  ASSUME NEW S \in SUBSET Nat, S # {}
  PROVE  Min(S) \in S
<1> DEFINE R == OpToRel(<, Nat)
<1>1. IsWellFoundedOn(R, Nat)
  BY NatLessThanWellFounded
<1>2. \A x, y \in Nat : y < x => <<y, x>> \in R
  <2>1. R = {ss \in Nat \X Nat : ss[1] < ss[2]}
    BY Zenon DEF R, OpToRel
  <2> HIDE DEF R
  <2>2. QED  BY <2>1
<1> HIDE DEF R
<1>3. PICK x \in S : \A y \in S : ~ (<<y, x>> \in R)
  BY <1>1, WFMin
<1>4. \A y \in S : x <= y
  <2> SUFFICES ASSUME NEW y \in S, ~ (x <= y) PROVE FALSE
    OBVIOUS
  <2>1. x \in Nat /\ y \in Nat  OBVIOUS
  <2>2. y < x  BY <2>1
  <2>3. QED  BY <2>1, <2>2, <1>2, <1>3, Zenon
<1>5. QED  BY <1>4 DEF Min

-----------------------------------------------------------------------------
\* The lease's window of a tick is its child's.
WindowIsChild ==
  \A p \in Poller : owner = p => lease[p] \in {"probe", "run", "close"}

\* A tick that does not wait for its child has none.
NoChildBetween ==
  \A p \in Poller :
    pc[p] \in {"read", "prepare", "post", "move"} => lease[p] = "none"

\* A tick at work has a job, and what it still has to do is in the spool.
HasJob ==
  \A p \in Poller : /\ Working(p) => todo[p] # {}
                    /\ pc[p] # "off" => todo[p] \subseteq Waiting

\* What is posted is a verdict.
PostsVerdict == \A p \in Poller : pc[p] = "post" => rc[p] \in Verdicts

QueueInv ==
  /\ TypeOK /\ SinglePoller
  /\ WindowIsChild /\ NoChildBetween /\ HasJob /\ PostsVerdict

\* A green verdict on its way is the outcome of the smoke test of that job.
GreenInv ==
  \A p \in Poller :
    /\ pc[p] = "guarded" => command[p] = "smoke"
    /\ pc[p] = "guarded" /\ lease[p] \in {"close", "none"} /\ rc[p] = "ok"
         => result[Job(p)] = "ok"
    /\ pc[p] = "post" /\ rc[p] = "green" => result[Job(p)] = "ok"

\* p is past the smoke test of its job, or in it.
Past(p) ==
  \/ pc[p] = "guarded" /\ lease[p] = "run"
  \/ pc[p] = "guarded" /\ lease[p] \in {"close", "none"} /\ rc[p] \in {"ok", "failed"}
  \/ pc[p] \in {"post", "move"}

\* A job file that enqueue.sh has not created is not there.
NotYetCreated == \A j \in Jobs : enqueue[j] = "none" => file[j] = "absent"

\* A job still in the spool was run at most once for each kill, but for the
\* run of the tick that is at it.
RunsPaid ==
  \A j \in Jobs :
    file[j] \in {"absent", "empty", "queued"} /\ ran[j] > kills
      => \E p \in Poller : Past(p) /\ Job(p) = j

\* The kill that left an orphan before its run is not used up yet.
OrphanPaid ==
  \A p \in Poller :
    pc[p] = "off" /\ lease[p] \in {"open", "probe"} /\ command[p] = "smoke"
      => ran[Job(p)] < kills

\* The preflight runs `true`.
PreflightIsTrue == \A p \in Poller : pc[p] = "preflight" => command[p] = "true"

RerunInv ==
  NotYetCreated /\ PreflightIsTrue /\ RunsPaid /\ OrphanPaid /\ RerunOnlyAfterKill

-----------------------------------------------------------------------------
\* Among its jobs is the one a tick is at.
LEMMA JobIsTodo ==
  ASSUME NEW p \in Poller, todo \in [Poller -> SUBSET Jobs], todo[p] # {}
  PROVE  Job(p) \in todo[p] /\ Job(p) \in Jobs
<1>1. todo[p] \in SUBSET Nat
  BY JobsAreNumbers
<1>2. QED  BY <1>1, MinIsMember DEF Job

\* QueueInv holds in every reachable state.
LEMMA QueueInvariant == Spec => []QueueInv
<1> USE DEF bench, spool, child, history
<1>1. Init => QueueInv
  BY BoundsAreNumbers, PollersAreWindows
  DEF Init, Bench!Init, Bench!TypeOK, QueueInv, TypeOK, SinglePoller, Working,
      WindowIsChild, NoChildBetween, HasJob, PostsVerdict, Codes
<1>2. QueueInv /\ [Next]_vars => QueueInv'
  <2> SUFFICES ASSUME QueueInv, [Next]_vars PROVE QueueInv'
    OBVIOUS
  <2> USE JobsAreNumbers, BoundsAreNumbers, PollersAreWindows
      DEF QueueInv, TypeOK, Bench!TypeOK, SinglePoller, Working, WindowIsChild,
          NoChildBetween, HasJob, PostsVerdict, Codes, Verdicts, Waiting
  <2>1. ASSUME NEW j \in Jobs, Enqueueing(j) PROVE QueueInv'
    <3>1. CASE EnqueueOpens(j)  BY <3>1 DEF EnqueueOpens
    <3>2. CASE EnqueueWrites(j)  BY <3>2 DEF EnqueueWrites
    <3>3. QED  BY <2>1, <3>1, <3>2 DEF Enqueueing
  <2>2. ASSUME NEW p \in Poller, Polling(p) PROVE QueueInv'
    <3> USE JobIsTodo
    <3>1. CASE TickStarts(p)
      <4>1. Waiting \in SUBSET Nat /\ Waiting # {} /\ Waiting \subseteq Jobs
        BY <3>1 DEF TickStarts
      <4>2. Min(Waiting) \in Waiting
        BY <4>1, MinIsMember
      <4>3. todo'[p] # {} /\ todo'[p] \subseteq Waiting /\ todo' \in [Poller -> SUBSET Jobs]
        <5> HIDE DEF Waiting
        <5> DEFINE first == IF DrainAll THEN Waiting ELSE {Min(Waiting)}
        <5>1. first # {} /\ first \subseteq Waiting
          <6>1. CASE DrainAll  BY <6>1, <4>1
          <6>2. CASE ~ DrainAll  BY <6>2, <4>2
          <6>3. QED  BY <6>1, <6>2
        <5>2. todo' = [todo EXCEPT ![p] = first]
          BY <3>1 DEF TickStarts
        <5> HIDE DEF first
        <5>3. first \in SUBSET Jobs  BY <4>1, <5>1
        <5>4. QED  BY <5>1, <5>2, <5>3
      <4>4. \A q \in Poller \ {p} : ~ Working(q) /\ todo'[q] = todo[q] /\ pc'[q] = pc[q]
        BY <3>1 DEF TickStarts
      <4>5. QED  BY <3>1, <4>3, <4>4 DEF TickStarts
    <3>2. CASE ReadJob(p)
      <4>1. Job(p) \in todo[p] /\ Job(p) \in Jobs
        BY <3>2 DEF ReadJob
      <4>2. CASE file[Job(p)] = "empty"
        <5>1. /\ pc[p] = "read" /\ file' = [file EXCEPT ![Job(p)] = "noSha"]
              /\ rc' = [rc EXCEPT ![p] = "none"]
              /\ UNCHANGED <<bench, enqueue, lease, command, status, history, kills, opens>>
          BY <3>2, <4>2 DEF ReadJob, StartLease
        <5>2. Proceed(p)  BY <3>2, <4>2 DEF ReadJob
        <5>3. /\ file' \in [Jobs -> {"absent", "empty", "queued", "done", "noSha"}]
              /\ Waiting' = Waiting \ {Job(p)}
          BY <5>1, <4>1
        <5>4. todo'[p] \subseteq Waiting' /\ todo' \in [Poller -> SUBSET Jobs]
          BY <5>1, <5>2, <5>3 DEF Proceed
        <5>5. \A q \in Poller \ {p} : ~ Working(q) /\ todo'[q] = todo[q] /\ pc'[q] = pc[q]
          BY <5>1, <5>2 DEF Proceed
        <5>6. CASE todo[p] = {Job(p)}
          BY <5>1, <5>2, <5>3, <5>4, <5>5, <5>6 DEF Proceed
        <5>7. CASE todo[p] # {Job(p)}
          BY <4>1, <5>1, <5>2, <5>3, <5>4, <5>5, <5>7 DEF Proceed
        <5>8. QED  BY <5>6, <5>7
      <4>3. CASE file[Job(p)] # "empty"
        BY <3>2, <4>3, SMTT(30) DEF ReadJob, StartLease
      <4>4. QED  BY <4>2, <4>3
    <3>3. CASE JudgePreflight(p)  BY <3>3 DEF JudgePreflight, Returned, Stay, ToPost, Proceed
    <3>4. CASE Prepare(p)  BY <3>4, SMTT(30) DEF Prepare, ToPost, StartLease
    <3>5. CASE JudgeRun(p)  BY <3>5 DEF JudgeRun, Returned, Stay, ToPost, Proceed
    <3>6. CASE PostStatus(p)  BY <3>6 DEF PostStatus
    <3>7. CASE MoveToDone(p)  BY <3>7 DEF MoveToDone, Proceed
    <3>8. QED  BY <2>2, <3>1, <3>2, <3>3, <3>4, <3>5, <3>6, <3>7 DEF Polling
  <2>3. ASSUME NEW p \in Poller, Leasing(p) PROVE QueueInv'
    <3> USE JobIsTodo
    <3>1. CASE LeaseOpens(p)  BY <3>1 DEF LeaseOpens, Exits, Bench!Open
    <3>2. CASE LeaseProbes(p)
      <4>1. Job(p) \in Jobs  BY <3>2 DEF LeaseProbes
      <4>2. ran' \in [Jobs -> Nat]
        BY <3>2, <4>1 DEF LeaseProbes
      <4>3. /\ lease[p] = "probe"
            /\ UNCHANGED <<bench, spool, pollLock, pc, todo, command, status, result, kills, opens>>
        BY <3>2 DEF LeaseProbes
      <4>4. \/ lease' = [lease EXCEPT ![p] = "run"] /\ UNCHANGED rc
            \/ /\ lease' = [lease EXCEPT ![p] = "close"]
               /\ \E code \in {"session", "unreachable"} : rc' = [rc EXCEPT ![p] = code]
        BY <3>2 DEF LeaseProbes
      <4>5. /\ rc' \in [Poller -> Codes \cup Verdicts]
            /\ \A q \in Poller : pc[q] = "post" => rc'[q] = rc[q]
        <5>1. pc[p] # "post"  BY <4>3
        <5>2. CASE UNCHANGED rc  BY <5>2
        <5>3. CASE \E code \in {"session", "unreachable"} : rc' = [rc EXCEPT ![p] = code]
          BY <5>1, <5>3
        <5>4. QED  BY <4>4, <5>2, <5>3
      <4>6. TypeOK'  BY <4>2, <4>3, <4>4, <4>5
      <4>7. (SinglePoller /\ WindowIsChild /\ NoChildBetween)'  BY <4>3, <4>4
      <4>8. HasJob'  BY <4>3, <4>4
      <4>9. QED  BY <4>3, <4>5, <4>6, <4>7, <4>8
    <3>3. CASE CommandReturns(p)
      <4>1. Job(p) \in Jobs  BY <3>3 DEF CommandReturns
      <4>2. result' \in [Jobs -> {"none", "ok", "failed"}]
        BY <3>3, <4>1 DEF CommandReturns
      <4>3. /\ lease[p] = "run" /\ lease' = [lease EXCEPT ![p] = "close"]
            /\ UNCHANGED <<bench, spool, pollLock, pc, todo, command, status, ran, kills, opens>>
        BY <3>3 DEF CommandReturns
      <4>4. \E code \in {"ok", "failed"} : rc' = [rc EXCEPT ![p] = code]
        BY <3>3 DEF CommandReturns
      <4>5. /\ rc' \in [Poller -> Codes \cup Verdicts]
            /\ \A q \in Poller : pc[q] = "post" => rc'[q] = rc[q]
        BY <4>3, <4>4
      <4>6. TypeOK'  BY <4>2, <4>3, <4>5
      <4>7. (SinglePoller /\ WindowIsChild /\ NoChildBetween)'  BY <4>3
      <4>8. HasJob'  BY <4>3
      <4>9. QED  BY <4>3, <4>5, <4>6, <4>7, <4>8
    <3>4. CASE LeaseCloses(p)  BY <3>4 DEF LeaseCloses, Exits, Bench!Close
    <3>5. QED  BY <2>3, <3>1, <3>2, <3>3, <3>4 DEF Leasing
  <2>4. ASSUME NEW p \in Poller, KillPoller(p) PROVE QueueInv'
    BY <2>4, JobIsTodo DEF KillPoller
  <2>5. ASSUME NEW p \in Poller, KillLease(p) PROVE QueueInv'
    BY <2>5, JobIsTodo DEF KillLease, Exits, Bench!Die
  <2>6. ASSUME NEW w \in Others, OtherWindow(w) PROVE QueueInv'
    BY <2>6 DEF OtherWindow, Bench!Open, Bench!Close, Bench!Die, Bench!Override
  <2>7. CASE UNCHANGED vars  BY <2>7 DEF vars
  <2>8. QED  BY <2>1, <2>2, <2>3, <2>4, <2>5, <2>6, <2>7 DEF Next
<1>3. QED  BY <1>1, <1>2, PTL DEF Spec

\* What the other proofs need of QueueInv: where a tick may be, that it is
\* alone, and that it has a job; and that its job is the same until the set of
\* its jobs changes.
Alone ==
  /\ pc = [p \in Poller |-> pc[p]] /\ lease = [p \in Poller |-> lease[p]]
  /\ command = [p \in Poller |-> command[p]]
  /\ rc = [p \in Poller |-> rc[p]]
  /\ result = [j \in Jobs |-> result[j]]
  /\ todo \in [Poller -> SUBSET Jobs]
  /\ SinglePoller /\ NoChildBetween /\ WindowIsChild
  /\ \A p \in Poller : Working(p) => Job(p) \in todo[p] /\ Job(p) \in Jobs

\* QueueInv says all that.
LEMMA QueueInvAlone == QueueInv => Alone
<1> SUFFICES ASSUME QueueInv PROVE Alone
  OBVIOUS
<1>1. /\ pc = [p \in Poller |-> pc[p]] /\ lease = [p \in Poller |-> lease[p]]
      /\ command = [p \in Poller |-> command[p]] /\ rc = [p \in Poller |-> rc[p]]
      /\ result = [j \in Jobs |-> result[j]]
  <2>1. TypeOK  BY DEF QueueInv
  <2>2. pc = [p \in Poller |-> pc[p]]  BY <2>1 DEF TypeOK
  <2>3. lease = [p \in Poller |-> lease[p]]  BY <2>1 DEF TypeOK
  <2>4. command = [p \in Poller |-> command[p]]  BY <2>1 DEF TypeOK
  <2>5. rc = [p \in Poller |-> rc[p]]  BY <2>1 DEF TypeOK, Codes, Verdicts
  <2>6. result = [j \in Jobs |-> result[j]]  BY <2>1 DEF TypeOK
  <2>7. QED  BY <2>2, <2>3, <2>4, <2>5, <2>6
<1>2. \A p \in Poller : Working(p) => Job(p) \in todo[p] /\ Job(p) \in Jobs
  BY JobIsTodo DEF QueueInv, TypeOK, HasJob
<1>3. QED  BY <1>1, <1>2 DEF QueueInv, TypeOK, Alone

\* A tick keeps its job as long as it keeps the list of its jobs.
LEMMA SameJob == \A p \in Poller : todo'[p] = todo[p] => Job(p)' = Job(p)
  BY DEF Job

\* Every variable keeps its type; a posted status is always a verdict.
THEOREM QueueTypeCorrect == Spec => []TypeOK
<1>1. QueueInv => TypeOK
  BY DEF QueueInv
<1>2. QED  BY <1>1, QueueInvariant, PTL

\* "One poller at a time", for any number of ticks and kills: a tick, or the
\* lease child of a killed one, works on the spool only with .poll.lock its own.
THEOREM OnePollerAtATime == Spec => []SinglePoller
<1>1. QueueInv => SinglePoller
  BY DEF QueueInv
<1>2. QED  BY <1>1, QueueInvariant, PTL

\* GreenInv holds in every reachable state.
LEMMA GreenInvariant == Spec => []GreenInv
<1> USE DEF bench, spool, child, history
<1>1. Init => GreenInv
  BY DEF Init, GreenInv
<1>2. QueueInv /\ GreenInv /\ [Next]_vars => GreenInv'
  <2> SUFFICES ASSUME Alone, GreenInv, [Next]_vars PROVE GreenInv'
    BY QueueInvAlone
  <2> USE SameJob DEF Alone, SinglePoller, Working, NoChildBetween, WindowIsChild, GreenInv
  <2>1. ASSUME NEW j \in Jobs, Enqueueing(j) PROVE GreenInv'
    <3>1. CASE EnqueueOpens(j)  BY <3>1 DEF EnqueueOpens
    <3>2. CASE EnqueueWrites(j)  BY <3>2, SMTT(30) DEF EnqueueWrites
    <3>3. QED  BY <2>1, <3>1, <3>2 DEF Enqueueing
  <2>2. ASSUME NEW p \in Poller, Polling(p) PROVE GreenInv'
    <3>1. CASE TickStarts(p)  BY <3>1 DEF TickStarts
    <3>2. CASE ReadJob(p)  BY <3>2 DEF ReadJob, StartLease, Proceed
    <3>3. CASE JudgePreflight(p)  BY <3>3 DEF JudgePreflight, Returned, Stay, ToPost, Proceed
    <3>4. CASE Prepare(p)  BY <3>4 DEF Prepare, ToPost, StartLease
    <3>5. CASE JudgeRun(p)  BY <3>5 DEF JudgeRun, Returned, Stay, ToPost, Proceed
    <3>6. CASE PostStatus(p)  BY <3>6 DEF PostStatus
    <3>7. CASE MoveToDone(p)  BY <3>7 DEF MoveToDone, Proceed
    <3>8. QED  BY <2>2, <3>1, <3>2, <3>3, <3>4, <3>5, <3>6, <3>7 DEF Polling
  <2>3. ASSUME NEW p \in Poller, Leasing(p) PROVE GreenInv'
    <3>1. CASE LeaseOpens(p)  BY <3>1 DEF LeaseOpens, Exits
    <3>2. CASE LeaseProbes(p)  BY <3>2 DEF LeaseProbes
    <3>3. CASE CommandReturns(p)  BY <3>3 DEF CommandReturns
    <3>4. CASE LeaseCloses(p)  BY <3>4 DEF LeaseCloses, Exits
    <3>5. QED  BY <2>3, <3>1, <3>2, <3>3, <3>4 DEF Leasing
  <2>4. ASSUME NEW p \in Poller, KillPoller(p) PROVE GreenInv'
    BY <2>4 DEF KillPoller
  <2>5. ASSUME NEW p \in Poller, KillLease(p) PROVE GreenInv'
    BY <2>5 DEF KillLease, Exits, Bench!Die
  <2>6. ASSUME NEW w \in Others, OtherWindow(w) PROVE GreenInv'
    BY <2>6 DEF OtherWindow
  <2>7. CASE UNCHANGED vars  BY <2>7 DEF vars
  <2>8. QED  BY <2>1, <2>2, <2>3, <2>4, <2>5, <2>6, <2>7 DEF Next
<1>3. QED  BY <1>1, <1>2, QueueInvariant, PTL DEF Spec

\* Success is only ever posted for a commit whose own smoke test passed last,
\* whatever the other ticks, the other windows and the kills do.
THEOREM GreenIsEarned == Spec => GreenIsOwnPass
<1> DEFINE Earned == \A j \in Jobs :
             status'[j] = "green" /\ status[j] # "green" => result[j] = "ok"
<1>1. QueueInv /\ GreenInv /\ [Next]_vars => [Earned]_vars
  <2> SUFFICES ASSUME Alone, status \in [Jobs -> Verdicts \cup {"none"}], GreenInv, Next
               PROVE  Earned
    BY QueueInvAlone DEF QueueInv, TypeOK
  <2>1. ASSUME NEW p \in Poller, PostStatus(p) PROVE Earned
    BY <2>1 DEF PostStatus, GreenInv
  <2>2. CASE UNCHANGED status
    BY <2>2
  <2>3. UNCHANGED status \/ \E p \in Poller : PostStatus(p)
    BY DEF Next, Enqueueing, Polling, Leasing, EnqueueOpens, EnqueueWrites, TickStarts,
           ReadJob, JudgePreflight, Prepare, JudgeRun, MoveToDone, LeaseOpens,
           LeaseProbes, CommandReturns, LeaseCloses, KillPoller, KillLease, OtherWindow
  <2>4. QED  BY <2>1, <2>2, <2>3
<1>2. QED  BY <1>1, QueueInvariant, GreenInvariant, PTL DEF Spec, GreenIsOwnPass

\* RerunInv holds in every reachable state.
LEMMA RerunInvariant == Spec => []RerunInv
<1> USE DEF bench, spool, child, history
<1>1. Init => RerunInv
  BY DEF Init, RerunInv, NotYetCreated, PreflightIsTrue, RunsPaid, OrphanPaid,
         RerunOnlyAfterKill
<1>2. QueueInv /\ RerunInv /\ [Next]_vars => RerunInv'
  <2> SUFFICES ASSUME Alone, HasJob, file = [j \in Jobs |-> file[j]],
                      ran \in [Jobs -> Nat], kills \in Nat, RerunInv, [Next]_vars,
                      enqueue = [j \in Jobs |-> enqueue[j]],
                      \A p \in Poller : pc[p] \in {"off", "read", "preflight", "prepare",
                                                 "guarded", "post", "move"}
               PROVE  RerunInv'
    BY QueueInvAlone, BoundsAreNumbers DEF QueueInv, TypeOK
  <2> USE SameJob DEF Alone, HasJob, Waiting, SinglePoller, Working, NoChildBetween,
                      WindowIsChild, RerunInv, Past,
                      NotYetCreated, PreflightIsTrue, RunsPaid, OrphanPaid, RerunOnlyAfterKill
  <2>1. ASSUME NEW j \in Jobs, Enqueueing(j) PROVE RerunInv'
    <3>1. CASE EnqueueOpens(j)
      <4>1. \A p \in Poller : (Past(p)' <=> Past(p)) /\ Job(p)' = Job(p)
        BY <3>1 DEF EnqueueOpens
      <4>2. RunsPaid'  BY <3>1, <4>1 DEF EnqueueOpens
      <4>3. QED  BY <3>1, <4>1, <4>2 DEF EnqueueOpens
    <3>2. CASE EnqueueWrites(j)  BY <3>2 DEF EnqueueWrites
    <3>3. QED  BY <2>1, <3>1, <3>2 DEF Enqueueing
  <2>2. ASSUME NEW p \in Poller, Polling(p) PROVE RerunInv'
    <3>1. CASE TickStarts(p)
      <4>1. \A q \in Poller : ~ Past(q)
        BY <3>1, PollersAreWindows DEF TickStarts
      <4>2. \A j \in Jobs : file[j] \in {"absent", "empty", "queued"} => ran[j] <= kills
        BY <4>1
      <4>3. RunsPaid'  BY <3>1, <4>2 DEF TickStarts
      <4>4. OrphanPaid'  BY <3>1 DEF TickStarts
      <4>5. QED  BY <3>1, <4>3, <4>4 DEF TickStarts
    <3>2. CASE ReadJob(p)
      <4>1. \A q \in Poller : ~ Past(q)  BY <3>2 DEF ReadJob
      <4>2. \A j \in Jobs : file[j] \in {"absent", "empty", "queued"} => ran[j] <= kills
        BY <4>1
      <4>3. RunsPaid'  BY <3>2, <4>2 DEF ReadJob
      <4>4. OrphanPaid'  BY <3>2 DEF ReadJob, StartLease, Proceed
      <4>5. NotYetCreated'  BY <3>2 DEF ReadJob
      <4>6. PreflightIsTrue'  BY <3>2 DEF ReadJob, StartLease, Proceed
      <4>7. QED  BY <3>2, <4>3, <4>4, <4>5, <4>6 DEF ReadJob
    <3>3. CASE JudgePreflight(p)  BY <3>3 DEF JudgePreflight, Returned, Stay, ToPost, Proceed
    <3>4. CASE Prepare(p)  BY <3>4 DEF Prepare, ToPost, StartLease
    <3>5. CASE JudgeRun(p)  BY <3>5 DEF JudgeRun, Returned, Stay, ToPost, Proceed
    <3>6. CASE PostStatus(p)
      <4>1. \A q \in Poller : Past(q) => Past(q)' /\ Job(q)' = Job(q)
        BY <3>6 DEF PostStatus
      <4>2. UNCHANGED <<file, enqueue, ran, kills, lease, command>>
        BY <3>6 DEF PostStatus
      <4>3. RunsPaid'  BY <4>1, <4>2
      <4>4. QED  BY <3>6, <4>2, <4>3 DEF PostStatus
    <3>7. CASE MoveToDone(p)
      <4>1. /\ UNCHANGED <<enqueue, ran, kills, lease, command>>
            /\ file' = [file EXCEPT ![Job(p)] = "done"]
            /\ Job(p) \in Jobs /\ file[Job(p)] # "absent" /\ lease[p] = "none"
        BY <3>7 DEF MoveToDone
      <4>2. \A q \in Poller \ {p} : ~ Past(q)
        BY <3>7 DEF MoveToDone
      <4>3. RunsPaid'  BY <4>1, <4>2
      <4>4. OrphanPaid' /\ PreflightIsTrue'
        BY <3>7, <4>1 DEF MoveToDone, Proceed
      <4>5. QED  BY <4>1, <4>3, <4>4
    <3>8. QED  BY <2>2, <3>1, <3>2, <3>3, <3>4, <3>5, <3>6, <3>7 DEF Polling
  <2>3. ASSUME NEW p \in Poller, Leasing(p) PROVE RerunInv'
    <3>1. CASE LeaseOpens(p)  BY <3>1 DEF LeaseOpens, Exits
    <3>2. CASE LeaseProbes(p)
      <4>1. /\ Job(p) \in Jobs /\ \A q \in Poller : ~ Past(q)
            /\ \A q \in Poller : Job(q)' = Job(q)
        BY <3>2 DEF LeaseProbes
      <4>2. CASE ran' = ran
        <5>1. RunsPaid'  BY <3>2, <4>1, <4>2 DEF LeaseProbes
        <5>2. OrphanPaid'  BY <3>2, <4>1, <4>2 DEF LeaseProbes
        <5>3. QED  BY <3>2, <4>2, <5>1, <5>2 DEF LeaseProbes
      <4>3. CASE /\ lease' = [lease EXCEPT ![p] = "run"] /\ command[p] = "smoke"
                 /\ ran' = [ran EXCEPT ![Job(p)] = @ + 1]
        <5>1. CASE pc[p] = "off"
          <6>1. ran[Job(p)] < kills  BY <3>2, <4>3, <5>1 DEF LeaseProbes
          <6>2. RunsPaid'  BY <3>2, <4>1, <4>3, <6>1 DEF LeaseProbes
          <6>3. QED  BY <3>2, <4>1, <4>3, <6>1, <6>2 DEF LeaseProbes
        <5>2. CASE pc[p] # "off"
          <6>1. pc[p] = "guarded" /\ file[Job(p)] \in {"empty", "queued"}
            BY <3>2, <4>1, <4>3, <5>2 DEF LeaseProbes
          <6>2. Past(p)'  BY <3>2, <4>3, <6>1 DEF LeaseProbes
          <6>3. ran[Job(p)] <= kills  BY <4>1, <6>1
          <6>4. RunsPaid'  BY <3>2, <4>1, <4>3, <6>2 DEF LeaseProbes
          <6>5. QED  BY <3>2, <4>1, <4>3, <6>1, <6>3, <6>4 DEF LeaseProbes
        <5>3. QED  BY <5>1, <5>2
      <4>4. QED  BY <3>2, <4>2, <4>3 DEF LeaseProbes
    <3>3. CASE CommandReturns(p)
      <4>1. \A q \in Poller : Past(q) => Past(q)' /\ Job(q)' = Job(q)
        BY <3>3 DEF CommandReturns
      <4>2. UNCHANGED <<file, enqueue, ran, kills, pc, command>>
        BY <3>3 DEF CommandReturns
      <4>3. RunsPaid'  BY <4>1, <4>2
      <4>4. QED  BY <3>3, <4>2, <4>3 DEF CommandReturns
    <3>4. CASE LeaseCloses(p)
      <4>1. \A q \in Poller : Past(q) => Past(q)' /\ Job(q)' = Job(q)
        BY <3>4 DEF LeaseCloses, Exits
      <4>2. UNCHANGED <<file, enqueue, ran, kills, pc, command>>
        BY <3>4 DEF LeaseCloses
      <4>3. RunsPaid'  BY <4>1, <4>2
      <4>4. /\ \A q \in Poller : Job(q)' = Job(q)
            /\ lease' = [lease EXCEPT ![p] = "none"]
        BY <3>4 DEF LeaseCloses, Exits
      <4>5. OrphanPaid'  BY <4>2, <4>4
      <4>6. QED  BY <4>2, <4>3, <4>5
    <3>5. QED  BY <2>3, <3>1, <3>2, <3>3, <3>4 DEF Leasing
  <2>4. ASSUME NEW p \in Poller, KillPoller(p) PROVE RerunInv'
    <3>1. kills' = kills + 1 /\ RunsPaid'  BY <2>4 DEF KillPoller
    <3>2. OrphanPaid'
      <4>1. /\ \A q \in Poller : Job(q)' = Job(q)
            /\ lease[p] # "none" => Job(p) \in Jobs /\ file[Job(p)] \in {"empty", "queued"}
        BY <2>4 DEF KillPoller
      <4>2. lease[p] \in {"open", "probe"} => ran[Job(p)] <= kills
        BY <2>4, <4>1 DEF KillPoller
      <4>3. QED  BY <2>4, <4>1, <4>2 DEF KillPoller
    <3>3. QED  BY <2>4, <3>1, <3>2 DEF KillPoller
  <2>5. ASSUME NEW p \in Poller, KillLease(p) PROVE RerunInv'
    BY <2>5 DEF KillLease, Exits, Bench!Die
  <2>6. ASSUME NEW w \in Others, OtherWindow(w) PROVE RerunInv'
    BY <2>6 DEF OtherWindow
  <2>7. CASE UNCHANGED vars  BY <2>7 DEF vars
  <2>8. QED  BY <2>1, <2>2, <2>3, <2>4, <2>5, <2>6, <2>7 DEF Next
<1>3. QED  BY <1>1, <1>2, QueueInvariant, PTL DEF Spec

\* Only a kill makes a second run of a job's smoke test possible: every run of
\* it but the first is paid for by a killed tick or lease child, for any number
\* of ticks, jobs and kills.
THEOREM KillsPayForReruns == Spec => []RerunOnlyAfterKill
<1>1. RerunInv => RerunOnlyAfterKill
  BY DEF RerunInv, RerunOnlyAfterKill
<1>2. QED  BY <1>1, RerunInvariant, PTL
-----------------------------------------------------------------------------
\* The lane uses the bench as BenchOwner has it, which BenchLease implements: its
\* lease children open, close and may be killed, and override no dead owner's record.
THEOREM QueueKeepsToTheBench == Spec => Bench!Spec
<1> USE DEF Bench!Next, Bench!vars
<1>1. Init => Bench!Init
  BY DEF Init
<1>2. [Next]_vars => [Bench!Next]_(Bench!vars)
  <2> SUFFICES ASSUME Next, ~UNCHANGED bench PROVE Bench!Next
    BY DEF vars, bench
  <2>1. ASSUME NEW p \in Poller, Leasing(p) \/ KillLease(p) PROVE Bench!Next
    <3>1. Bench!Open(p) \/ Bench!Close(p) \/ Bench!Die(p)
      BY <2>1 DEF Leasing, LeaseOpens, LeaseProbes, CommandReturns, LeaseCloses, KillLease
    <3> QED BY <3>1
  <2>2. ASSUME NEW p \in Poller, Polling(p) \/ KillPoller(p) PROVE FALSE
    BY <2>2 DEF Polling, TickStarts, ReadJob, JudgePreflight, Prepare, JudgeRun, PostStatus,
       MoveToDone, KillPoller
  <2>3. ASSUME NEW w \in Others, OtherWindow(w) PROVE Bench!Next
    BY <2>3 DEF OtherWindow
  <2>4. ASSUME NEW j \in Jobs, Enqueueing(j) PROVE FALSE
    BY <2>4 DEF Enqueueing, EnqueueOpens, EnqueueWrites
  <2> QED BY <2>1, <2>2, <2>3, <2>4 DEF Next
<1> QED BY <1>1, <1>2, PTL DEF Spec, Bench!Spec
=============================================================================
