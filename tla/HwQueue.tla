------------------------------- MODULE HwQueue -------------------------------
(***************************************************************************)
(* The fallback hardware-dispatch lane (scripts/hw-dispatch): enqueue.sh   *)
(* drops job files into a spool, a cron job starts poll-queue.sh, which    *)
(* runs the smoke test of a job under the bench lease, posts the verdict   *)
(* to the commit and moves the job file to done/.  The lease is BenchOwner:*)
(* a poller's `hw-bench-lease exec` is a window like everybody else's.     *)
(***************************************************************************)
EXTENDS Naturals, FiniteSetsExt

CONSTANTS
  Jobs,      \* job files, ordered by the timestamp in their name
  Poller,    \* ticks of the cron job; a slow one overlaps the next
  Others,    \* bench windows of other programs
  DrainAll,  \* poll-queue.sh --all
  MaxKills,  \* bound: how many pollers are killed
  MaxOpens,  \* bound: how many windows the other programs open
  Faults,    \* what may fail besides: "windowDies", "postFails"
  None

ASSUME JobsAreNumbers == Jobs \subseteq Nat
ASSUME BoundsAreNumbers == MaxKills \in Nat /\ MaxOpens \in Nat
ASSUME PollersAreWindows == Poller \cap Others = {} /\ None \notin Poller \cup Others

VARIABLES
  owner, record,  \* the bench lease, as BenchOwner has it
  file,      \* each job file: absent, created but empty, queued, done/, done/*.no-sha
  enqueue,   \* enqueue.sh of each job: not started, file opened, "enqueued:" printed
  pollLock,  \* the tick whose descriptor 9 (or a child's copy) owns .poll.lock
  pc,        \* where each tick's shell is
  todo,      \* the job files its glob found and it has not handled yet
  lease,     \* where its hw-bench-lease child is
  command,   \* the command that child is to run: `true` or the smoke test
  rc,        \* the exit code it got, or the kind of verdict it is about to post
  status,    \* the last verdict on each job's commit
  ran,       \* how often the smoke test of each job was started
  result,    \* history: how that test last ended
  kills, opens

bench == <<owner, record>>
spool == <<file, enqueue>>
child == <<lease, command, rc>>
history == <<ran, result>>
vars == <<owner, record, file, enqueue, pollLock, pc, todo, lease, command, rc,
          status, ran, result, kills, opens>>

Bench == INSTANCE BenchOwner
           WITH Window <- Poller \cup Others, Reclaim <- Others

Codes    == {"none", "ok", "failed", "busy", "stale", "session", "unreachable"}
Verdicts == {"green", "red", "idleRefused", "unreachable", "npmFailed"}

Init ==
  /\ Bench!Init
  /\ file = [j \in Jobs |-> "absent"]
  /\ enqueue = [j \in Jobs |-> "none"]
  /\ pollLock = None
  /\ pc = [p \in Poller |-> "off"]
  /\ todo = [p \in Poller |-> {}]
  /\ lease = [p \in Poller |-> "none"]
  /\ command = [p \in Poller |-> "true"]
  /\ rc = [p \in Poller |-> "none"]
  /\ status = [j \in Jobs |-> "none"]
  /\ ran = [j \in Jobs |-> 0]
  /\ result = [j \in Jobs |-> "none"]
  /\ kills = 0 /\ opens = 0
-----------------------------------------------------------------------------
(***************************************************************************)
(* enqueue.sh: the shell creates the file, then printf writes it.          *)
(***************************************************************************)
EnqueueOpens(j) ==
  /\ enqueue[j] = "none"
  /\ enqueue' = [enqueue EXCEPT ![j] = "opened"]
  /\ file' = [file EXCEPT ![j] = "empty"]
  /\ UNCHANGED <<bench, pollLock, pc, todo, child, status, history, kills, opens>>

\* The write follows the open file wherever it was moved to meanwhile.
EnqueueWrites(j) ==
  /\ enqueue[j] = "opened"
  /\ enqueue' = [enqueue EXCEPT ![j] = "printed"]
  /\ file' = [file EXCEPT ![j] = IF @ = "empty" THEN "queued" ELSE @]
  /\ UNCHANGED <<bench, pollLock, pc, todo, child, status, history, kills, opens>>
-----------------------------------------------------------------------------
(***************************************************************************)
(* poll-queue.sh.                                                          *)
(***************************************************************************)
\* The job a tick is at: the glob is sorted.
Job(p) == Min(todo[p])

Waiting == {j \in Jobs : file[j] \in {"empty", "queued"}}

\* A tick that finds .poll.lock taken, or an empty queue, changes nothing.
TickStarts(p) ==
  /\ pc[p] = "off" /\ pollLock = None /\ Waiting # {}
  /\ pollLock' = p
  /\ todo' = [todo EXCEPT ![p] = IF DrainAll THEN Waiting ELSE {Min(Waiting)}]
  /\ pc' = [pc EXCEPT ![p] = "read"]
  /\ UNCHANGED <<bench, spool, child, status, history, kills, opens>>

\* p is through with its job; after the last one it exits.
Proceed(p) ==
  /\ todo' = [todo EXCEPT ![p] = @ \ {Job(p)}]
  /\ IF todo[p] = {Job(p)}
     THEN pc' = [pc EXCEPT ![p] = "off"] /\ pollLock' = None
     ELSE pc' = [pc EXCEPT ![p] = "read"] /\ UNCHANGED pollLock

StartLease(p, at, cmd) ==
  /\ pc' = [pc EXCEPT ![p] = at]
  /\ command' = [command EXCEPT ![p] = cmd]
  /\ lease' = [lease EXCEPT ![p] = "open"]

\* A job without a sha is quarantined, any other one is tried.
ReadJob(p) ==
  /\ pc[p] = "read"
  /\ \/ /\ file[Job(p)] = "empty"
        /\ file' = [file EXCEPT ![Job(p)] = "noSha"]
        /\ Proceed(p)
        /\ UNCHANGED <<lease, command>>
     \/ /\ file[Job(p)] # "empty"
        /\ StartLease(p, "preflight", "true")
        /\ UNCHANGED <<file, todo, pollLock>>
  /\ rc' = [rc EXCEPT ![p] = "none"]
  /\ UNCHANGED <<bench, enqueue, status, history, kills, opens>>

Stay(p) == Proceed(p) /\ UNCHANGED rc

ToPost(p, verdict) ==
  /\ pc' = [pc EXCEPT ![p] = "post"]
  /\ rc' = [rc EXCEPT ![p] = verdict]
  /\ UNCHANGED <<todo, pollLock>>

Returned(p, at) == pc[p] = at /\ lease[p] = "none"

\* A stale bench (rc 3), like success, falls through to the guarded run.
JudgePreflight(p) ==
  /\ Returned(p, "preflight")
  /\ \/ rc[p] = "busy" /\ Stay(p)
     \/ rc[p] = "session" /\ ToPost(p, "idleRefused")
     \/ rc[p] = "unreachable" /\ ToPost(p, "unreachable")
     \/ /\ rc[p] \notin {"busy", "session", "unreachable"}
        /\ pc' = [pc EXCEPT ![p] = "prepare"]
        /\ UNCHANGED <<rc, todo, pollLock>>
  /\ UNCHANGED <<bench, spool, lease, command, status, history, kills, opens>>

\* npm ci when there is no node_modules; then rc=0 and the guarded run.
Prepare(p) ==
  /\ pc[p] = "prepare"
  /\ \/ ToPost(p, "npmFailed") /\ UNCHANGED <<lease, command>>
     \/ /\ StartLease(p, "guarded", "smoke")
        /\ rc' = [rc EXCEPT ![p] = "none"]
        /\ UNCHANGED <<todo, pollLock>>
  /\ UNCHANGED <<bench, spool, status, history, kills, opens>>

\* Mistake: a refusal of the idle gate is kept queued like a busy bench.
JudgeRunKeepsRefused(p) ==
  /\ Returned(p, "guarded")
  /\ \/ rc[p] = "ok" /\ ToPost(p, "green")
     \/ rc[p] \in {"busy", "session"} /\ Stay(p)
     \/ rc[p] = "unreachable" /\ ToPost(p, "unreachable")
     \/ rc[p] \in {"failed", "stale"} /\ ToPost(p, "red")
  /\ UNCHANGED <<bench, spool, lease, command, status, history, kills, opens>>

\* Mistake: whatever is not one of the lease's refusals counts as a pass.
JudgeRunDefaultsToGreen(p) ==
  /\ Returned(p, "guarded")
  /\ \/ rc[p] = "busy" /\ Stay(p)
     \/ rc[p] = "session" /\ ToPost(p, "idleRefused")
     \/ rc[p] = "unreachable" /\ ToPost(p, "unreachable")
     \/ rc[p] \in {"ok", "failed", "stale"} /\ ToPost(p, "green")
  /\ UNCHANGED <<bench, spool, lease, command, status, history, kills, opens>>

JudgeRun(p) ==
  /\ Returned(p, "guarded")
  /\ \/ rc[p] = "ok" /\ ToPost(p, "green")
     \/ rc[p] = "busy" /\ Stay(p)
     \/ rc[p] = "session" /\ ToPost(p, "idleRefused")
     \/ rc[p] = "unreachable" /\ ToPost(p, "unreachable")
     \/ rc[p] \in {"failed", "stale"} /\ ToPost(p, "red")
  /\ UNCHANGED <<bench, spool, lease, command, status, history, kills, opens>>

\* Mistake: a job whose status could not be posted stays queued for a retry.
PostStatusRetries(p) ==
  /\ pc[p] = "post"
  /\ \/ /\ status' = [status EXCEPT ![Job(p)] = rc[p]]
        /\ pc' = [pc EXCEPT ![p] = "move"]
        /\ UNCHANGED <<todo, pollLock>>
     \/ "postFails" \in Faults /\ Proceed(p) /\ UNCHANGED status
  /\ UNCHANGED <<bench, spool, child, history, kills, opens>>

\* A failing gh is only logged.
PostStatus(p) ==
  /\ pc[p] = "post"
  /\ \/ status' = [status EXCEPT ![Job(p)] = rc[p]]
     \/ "postFails" \in Faults /\ UNCHANGED status
  /\ pc' = [pc EXCEPT ![p] = "move"]
  /\ UNCHANGED <<bench, spool, pollLock, todo, child, history, kills, opens>>

MoveToDone(p) ==
  /\ pc[p] = "move"
  /\ file' = [file EXCEPT ![Job(p)] = "done"]
  /\ Proceed(p)
  /\ UNCHANGED <<bench, enqueue, child, status, history, kills, opens>>

\* Mistake: the lease child is started with descriptor 9 closed.
KillPollerFreesLock(p) ==
  /\ pc[p] # "off" /\ kills < MaxKills
  /\ kills' = kills + 1
  /\ pc' = [pc EXCEPT ![p] = "off"]
  /\ pollLock' = None
  /\ UNCHANGED <<bench, spool, todo, child, status, history, opens>>

\* The tick's shell is killed.  Its lease child lives on and, having
\* inherited descriptor 9, still keeps the next tick out.
KillPoller(p) ==
  /\ pc[p] # "off" /\ kills < MaxKills
  /\ kills' = kills + 1
  /\ pc' = [pc EXCEPT ![p] = "off"]
  /\ pollLock' = IF lease[p] = "none" THEN None ELSE pollLock
  /\ UNCHANGED <<bench, spool, todo, child, status, history, opens>>
-----------------------------------------------------------------------------
(***************************************************************************)
(* hw-bench-lease exec --check-idle, as a child of a tick.                 *)
(***************************************************************************)
\* The child exits with a code; an orphan's exit also frees .poll.lock.
Exits(p, code) ==
  /\ lease' = [lease EXCEPT ![p] = "none"]
  /\ rc' = [rc EXCEPT ![p] = code]
  /\ pollLock' = IF pc[p] = "off" THEN None ELSE pollLock

LeaseOpens(p) ==
  /\ lease[p] = "open"
  /\ \/ /\ Bench!Open(p)
        /\ lease' = [lease EXCEPT ![p] = "probe"]
        /\ UNCHANGED <<rc, pollLock>>
     \/ owner # None /\ Exits(p, "busy") /\ UNCHANGED bench
     \/ owner = None /\ record # None /\ Exits(p, "stale") /\ UNCHANGED bench
  /\ UNCHANGED <<spool, pc, todo, command, status, history, kills, opens>>

\* The idle gate: the command starts, or a paying session or a balance API
\* that does not answer refuses it.
LeaseProbes(p) ==
  /\ lease[p] = "probe"
  /\ \/ /\ lease' = [lease EXCEPT ![p] = "run"]
        /\ ran' = IF command[p] = "smoke" THEN [ran EXCEPT ![Job(p)] = @ + 1] ELSE ran
        /\ UNCHANGED rc
     \/ /\ lease' = [lease EXCEPT ![p] = "close"]
        /\ \E code \in {"session", "unreachable"} : rc' = [rc EXCEPT ![p] = code]
        /\ UNCHANGED ran
  /\ UNCHANGED <<bench, spool, pollLock, pc, todo, command, status, result, kills, opens>>

CommandReturns(p) ==
  /\ lease[p] = "run"
  /\ lease' = [lease EXCEPT ![p] = "close"]
  /\ \/ command[p] = "true" /\ rc' = [rc EXCEPT ![p] = "ok"] /\ UNCHANGED result
     \/ /\ command[p] = "smoke"
        /\ \E code \in {"ok", "failed"} :
             /\ rc' = [rc EXCEPT ![p] = code]
             /\ result' = [result EXCEPT ![Job(p)] = code]
  /\ UNCHANGED <<bench, spool, pollLock, pc, todo, command, status, ran, kills, opens>>

LeaseCloses(p) ==
  /\ lease[p] = "close"
  /\ Bench!Close(p)
  /\ Exits(p, rc[p])
  /\ UNCHANGED <<spool, pc, todo, command, status, history, kills, opens>>

\* The child itself is killed inside its window: the bench is left stale and
\* the tick sees an exit code it has no case for.
KillLease(p) ==
  /\ kills < MaxKills
  /\ kills' = kills + 1
  /\ Bench!Die(p)
  /\ Exits(p, "failed")
  /\ UNCHANGED <<spool, pc, todo, command, status, history, opens>>
-----------------------------------------------------------------------------
\* The other programs on the bench.
OtherWindow(w) ==
  /\ \/ opens < MaxOpens /\ Bench!Open(w) /\ opens' = opens + 1
     \/ Bench!Close(w) /\ UNCHANGED opens
     \/ "windowDies" \in Faults /\ Bench!Die(w) /\ UNCHANGED opens
     \/ Bench!Override(w) /\ UNCHANGED opens
  /\ UNCHANGED <<spool, pollLock, pc, todo, child, status, history, kills>>

Enqueueing(j) == EnqueueOpens(j) \/ EnqueueWrites(j)

Polling(p) ==
  \/ TickStarts(p) \/ ReadJob(p) \/ JudgePreflight(p) \/ Prepare(p)
  \/ JudgeRun(p) \/ PostStatus(p) \/ MoveToDone(p)

Leasing(p) ==
  LeaseOpens(p) \/ LeaseProbes(p) \/ CommandReturns(p) \/ LeaseCloses(p)

Next ==
  \/ \E j \in Jobs : Enqueueing(j)
  \/ \E p \in Poller : Polling(p) \/ Leasing(p) \/ KillPoller(p) \/ KillLease(p)
  \/ \E w \in Others : OtherWindow(w)

Spec == Init /\ [][Next]_vars
-----------------------------------------------------------------------------
TypeOK ==
  /\ Bench!TypeOK
  /\ file \in [Jobs -> {"absent", "empty", "queued", "done", "noSha"}]
  /\ enqueue \in [Jobs -> {"none", "opened", "printed"}]
  /\ pollLock \in Poller \cup {None}
  /\ pc \in [Poller -> {"off", "read", "preflight", "prepare", "guarded", "post", "move"}]
  /\ todo \in [Poller -> SUBSET Jobs]
  /\ lease \in [Poller -> {"none", "open", "probe", "run", "close"}]
  /\ command \in [Poller -> {"true", "smoke"}]
  /\ rc \in [Poller -> Codes \cup Verdicts]
  /\ status \in [Jobs -> Verdicts \cup {"none"}]
  /\ ran \in [Jobs -> Nat]
  /\ result \in [Jobs -> {"none", "ok", "failed"}]
  /\ kills \in 0..MaxKills /\ opens \in 0..MaxOpens

\* A tick works on the spool: its shell, or a lease child it left behind.
Working(p) == pc[p] # "off" \/ lease[p] # "none"

\* "One poller at a time", also across a tick that was killed while its lease
\* child still ran: the next one starts only when the child is gone.
SinglePoller == \A p \in Poller : Working(p) => pollLock = p

\* A job's smoke test, which reconfigures a real router, is started again only
\* if a poller or its child was killed: a finished job is not run twice
\* because its verdict could not be posted, or because the bench was busy.
RerunOnlyAfterKill == \A j \in Jobs : ran[j] <= 1 + kills

\* Success is posted only for a commit whose own smoke test just passed.
GreenIsOwnPass ==
  [][\A j \in Jobs :
       status'[j] = "green" /\ status[j] # "green" => result[j] = "ok"]_vars

\* "a red status never masquerades as a code verdict" (README.md): red, as
\* opposed to the failures that name their reason, is a failed smoke test.
RedIsOwnFail ==
  [][\A j \in Jobs :
       status'[j] = "red" /\ status[j] # "red" => result[j] = "failed"]_vars

\* "Job files land in done/ after their verdict is posted" (README.md).
DoneIsPosted == \A j \in Jobs : file[j] = "done" => status[j] # "none"

\* A job that enqueue.sh has announced as enqueued is not thrown away.
EnqueuedIsKept == \A j \in Jobs : enqueue[j] = "printed" => file[j] # "noSha"

(***************************************************************************)
(* Liveness: cron starts another tick, a shell and its lease child go on,  *)
(* a smoke test ends, other programs close their windows, and (MaxOpens,   *)
(* MaxKills) they do not win the bench, nor are pollers killed, for ever.  *)
(***************************************************************************)
Fairness ==
  /\ \A p \in Poller : WF_vars(Polling(p)) /\ WF_vars(Leasing(p))
  /\ \A w \in Others : WF_vars(OtherWindow(w) /\ Bench!Close(w))

FairSpec == Spec /\ Fairness

\* A job whose file was written is run or refused for good, and leaves the
\* queue: a busy or stale bench, a paying session or a dead poller only
\* delays it.
JobEnds == \A j \in Jobs : enqueue[j] = "printed" ~> file[j] \in {"done", "noSha"}
=============================================================================
