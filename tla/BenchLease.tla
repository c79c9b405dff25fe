------------------------------ MODULE BenchLease ------------------------------
(***************************************************************************)
(* The machine-global bench lease: one lock file whose flock is the mutual *)
(* exclusion and whose first line names the holder.  Two implementations   *)
(* share it: lib/bench_lock.py (with scripts/hw-bench-lease) and           *)
(* scripts/mt3000-bench/bench-lock.sh.  A step of this module is one       *)
(* system call on the lock file, so every interleaving of two programs     *)
(* between a read, a truncate, a write and a flock is a behaviour.         *)
(*                                                                         *)
(* A process is identified with its pid.  A pid is handed out again only   *)
(* when nothing refers to it any more (FreshPid).                          *)
(***************************************************************************)
EXTENDS Naturals, FiniteSets

CONSTANTS
  ShExec,     \* windows opened by `bench-lock.sh exec -- CMD`
  ShTake,     \* windows opened by `bench-lock.sh take`
  PyExec,     \* windows opened by `hw-bench-lease exec -- CMD` or child_env()
  PyHold,     \* windows opened by `hw-bench-lease hold`
  PyBrief,    \* acquire-then-release: `hw-bench-lease release`, force_release
  ShRelease,  \* `bench-lock.sh release` commands
  Observer,   \* `status` / `require` commands: they only probe and read
  Reclaim,    \* the windows started with --reclaim-stale
  Forced,      \* the releases started with --force
  PyRequire,  \* the windows whose command calls Python's require()
  Crashable,  \* the windows an outside SIGKILL (or an OOM kill) may hit
  None        \* nobody; the empty holder line

Shell    == ShExec \cup ShTake
Commands == ShExec \cup PyExec
Holds    == ShTake \cup PyHold
Window   == ShExec \cup ShTake \cup PyExec \cup PyHold \cup PyBrief
Process  == Window \cup ShRelease \cup Observer

ASSUME KindsDisjoint ==
  /\ ShExec \cap (ShTake \cup PyExec \cup PyHold \cup PyBrief) = {}
  /\ ShTake \cap (PyExec \cup PyHold \cup PyBrief) = {}
  /\ PyExec \cap (PyHold \cup PyBrief) = {}
  /\ PyHold \cap PyBrief = {}
  /\ Window \cap (ShRelease \cup Observer) = {}
  /\ ShRelease \cap Observer = {}

ASSUME SubsetsOfKinds ==
  /\ Reclaim \subseteq Window
  /\ Crashable \subseteq Window
  /\ Forced \subseteq ShRelease
  /\ PyRequire \subseteq Commands

ASSUME NoneIsNobody == None \notin Process

VARIABLES
  flock,    \* the window whose open file description owns the flock, or None
  probe,    \* the process holding the flock for an instant, only to test it
  line,     \* the pid the holder line names; None when the file is empty
  pc,       \* where each window's own process is; "off" when it is not alive
  seen,     \* the holder line as each process last read it
  work,     \* is the window's command running?  It may outlive its window.
  req,      \* where the command's `require` check is; "in" once it passed
  rel,      \* where each shell release command is
  obs,      \* where each observer is
  report,   \* what each observer last printed
  acked     \* history: windows whose stale record somebody overrode explicitly

vars == <<flock, probe, line, pc, seen, work, req, rel, obs, report, acked>>

winPC == {"off", "open", "check", "trunc", "write", "locked", "run", "hold",
          "drop", "clear", "unlock"}
relPC == {"off", "judge", "wipe", "peek", "peeked", "term", "poll", "polled",
          "kill", "final", "finalwipe"}
obsPC == {"off", "shProbe", "shProbed", "pyProbed", "pyRead"}

\* The step of _open_locked or bench_acquire that took the flock is behind p.
Inside == winPC \ {"off", "open"}
\* p's holder line is on disk and not yet cleared by p itself.
Recorded == {"locked", "run", "hold", "drop", "clear"}

Init ==
  /\ flock = None /\ probe = None /\ line = None
  /\ pc = [p \in Window |-> "off"]
  /\ seen = [p \in Process |-> None]
  /\ work = [p \in Window |-> FALSE]
  /\ req = [p \in Window |-> "none"]
  /\ rel = [r \in ShRelease |-> "off"]
  /\ obs = [o \in Observer |-> "off"]
  /\ report = [o \in Observer |-> "none"]
  /\ acked = {}

\* What a fresh LOCK_EX | LOCK_NB attempt finds.
Free == flock = None /\ probe = None

FreshPid(p) ==
  /\ flock # p /\ line # p /\ ~work[p]
  /\ \A r \in ShRelease : seen[r] # p

Alive(p) == p \in Window /\ pc[p] # "off"

Goto(p, at) == pc' = [pc EXCEPT ![p] = at]

clients == <<work, req, rel, obs, report>>
-----------------------------------------------------------------------------
(***************************************************************************)
(* Opening a window.                                                       *)
(***************************************************************************)
\* A window command is started; its history as a dead process is forgotten.
Launch(p) ==
  /\ pc[p] = "off" /\ FreshPid(p)
  /\ Goto(p, "open")
  /\ acked' = acked \ {p}
  /\ UNCHANGED <<flock, probe, line, seen, clients>>

\* Mistake: acquire() writes its line without having read the previous one.
OpenLockedUnread(p) ==
  /\ pc[p] = "open" /\ Free
  /\ flock' = p
  /\ Goto(p, "write")
  /\ UNCHANGED <<probe, line, seen, acked, clients>>

OpenLocked(p) ==
  /\ pc[p] = "open" /\ Free
  /\ flock' = p
  /\ Goto(p, "check")
  /\ UNCHANGED <<probe, line, seen, acked, clients>>

\* BenchBusy, or bench_refuse_held at once or at the --wait deadline.  A
\* waiting shell window stays at "open" between its one-second polls.
RefuseBusy(p) ==
  /\ pc[p] = "open" /\ ~Free
  /\ Goto(p, "off")
  /\ UNCHANGED <<flock, probe, line, seen, acked, clients>>

\* Mistake: a line left by a dead owner is taken over without --reclaim-stale.
CheckStaleReclaims(p) ==
  /\ pc[p] = "check"
  /\ Goto(p, "trunc")
  /\ UNCHANGED <<flock, probe, line, seen, acked, clients>>

\* Under the flock, a line left by a dead owner refuses unless reclaimed.
CheckStale(p) ==
  /\ pc[p] = "check"
  /\ \/ /\ line = None \/ p \in Reclaim
        /\ Goto(p, "trunc")
        /\ UNCHANGED flock
     \/ /\ line # None /\ p \notin Reclaim
        /\ Goto(p, "off")
        /\ flock' = None
  /\ UNCHANGED <<probe, line, seen, acked, clients>>

TruncateLine(p) ==
  /\ pc[p] = "trunc"
  /\ line' = None
  /\ acked' = IF line # None /\ p \in Reclaim THEN acked \cup {line} ELSE acked
  /\ Goto(p, "write")
  /\ UNCHANGED <<flock, probe, seen, clients>>

\* Mistake: the line stays in the write buffer (no flush before the command).
WriteHolderLineUnflushed(p) ==
  /\ pc[p] = "write"
  /\ Goto(p, "locked")
  /\ UNCHANGED <<flock, probe, line, seen, acked, clients>>

\* In the shell this write runs in a $(...) child that shares the flock, so
\* a window killed here has still written its line before the flock is gone.
WriteHolderLine(p) ==
  /\ pc[p] = "write"
  /\ line' = p
  /\ Goto(p, "locked")
  /\ UNCHANGED <<flock, probe, seen, acked, clients>>
-----------------------------------------------------------------------------
(***************************************************************************)
(* The window and its end.                                                 *)
(***************************************************************************)
\* The command starts without the flock's descriptor and with the markers
\* BENCH_LOCK_HELD / BENCH_LOCK_HOLDER_PID = p in its environment.
StartCommand(p) ==
  /\ p \in Commands /\ pc[p] = "locked"
  /\ work' = [work EXCEPT ![p] = TRUE]
  /\ Goto(p, "run")
  /\ UNCHANGED <<flock, probe, line, seen, req, rel, obs, report, acked>>

\* --check-idle found a paying session or could not probe: no command runs.
RefuseNotIdle(p) ==
  /\ p \in PyExec /\ pc[p] = "locked"
  /\ Goto(p, "drop")
  /\ UNCHANGED <<flock, probe, line, seen, acked, clients>>

\* The hold loop begins (its signal handlers are now installed).
BeginHold(p) ==
  /\ p \in Holds /\ pc[p] = "locked"
  /\ Goto(p, "hold")
  /\ UNCHANGED <<flock, probe, line, seen, acked, clients>>

\* Ctrl-C, a handled SIGTERM or the --hold deadline.
EndHold(p) ==
  /\ pc[p] = "hold"
  /\ Goto(p, "drop")
  /\ UNCHANGED <<flock, probe, line, seen, acked, clients>>

\* acquire() immediately followed by release().
EndBrief(p) ==
  /\ p \in PyBrief /\ pc[p] = "locked"
  /\ Goto(p, "drop")
  /\ UNCHANGED <<flock, probe, line, seen, acked, clients>>

\* The command exits or is killed, in its window or as an orphan of it.
CommandEnds(p) ==
  /\ work[p]
  /\ work' = [work EXCEPT ![p] = FALSE]
  /\ req' = [req EXCEPT ![p] = "none"]
  /\ probe' = IF probe = p THEN None ELSE probe
  /\ UNCHANGED <<flock, line, pc, seen, rel, obs, report, acked>>

\* subprocess.run or the ( "$@" ) subshell returns only when the command ended.
CommandReturns(p) ==
  /\ pc[p] = "run" /\ ~work[p]
  /\ Goto(p, "drop")
  /\ UNCHANGED <<flock, probe, line, seen, acked, clients>>

\* Mistake: release() drops the flock first and clears the line afterwards.
ReadOwnLineUnlocked(p) ==
  /\ pc[p] = "drop"
  /\ seen' = [seen EXCEPT ![p] = line]
  /\ Goto(p, "clear")
  /\ flock' = None
  /\ UNCHANGED <<probe, line, acked, clients>>

ReadOwnLine(p) ==
  /\ pc[p] = "drop"
  /\ seen' = [seen EXCEPT ![p] = line]
  /\ Goto(p, "clear")
  /\ UNCHANGED <<flock, probe, line, acked, clients>>

\* The shell clears a line that names it; Python also truncates an empty one.
IsOurs(p) == seen[p] = p \/ (p \notin Shell /\ seen[p] = None)

ClearOwnLine(p) ==
  /\ pc[p] = "clear"
  /\ line' = IF IsOurs(p) THEN None ELSE line
  /\ seen' = [seen EXCEPT ![p] = None]
  /\ Goto(p, "unlock")
  /\ UNCHANGED <<flock, probe, acked, clients>>

\* A shell window's `sleep 1 &` and its $(...) children share descriptor 9
\* and can keep the flock for a moment after the shell itself is gone.  Only
\* the exec command is started with the descriptor closed.
MayLinger(p) == p \in ShTake \/ (p \in ShExec /\ pc[p] # "run")

\* flock after p's own descriptor is closed by its exit or its death.
FlockAfter(p) ==
  IF flock # p THEN {flock} ELSE IF MayLinger(p) THEN {None, p} ELSE {None}

\* Mistake: the window ends with its descriptor still open.
UnlockLeaks(p) ==
  /\ pc[p] = "unlock"
  /\ Goto(p, "off")
  /\ UNCHANGED <<flock, probe, line, seen, acked, clients>>

Unlock(p) ==
  /\ pc[p] = "unlock"
  /\ flock' \in (IF p \in ShTake THEN FlockAfter(p) ELSE {None})
  /\ Goto(p, "off")
  /\ UNCHANGED <<probe, line, seen, acked, clients>>

LingerEnds(p) ==
  /\ p \in Shell /\ pc[p] = "off" /\ flock = p
  /\ flock' = None
  /\ UNCHANGED <<probe, line, pc, seen, acked, clients>>

\* The kernel ends the process: its descriptors close, the line stays and
\* its command, a process of its own, goes on as an orphan.
Dies(p) ==
  /\ Goto(p, "off")
  /\ flock' \in FlockAfter(p)

Crash(p) ==
  /\ p \in Crashable /\ pc[p] # "off"
  /\ Dies(p)
  /\ UNCHANGED <<probe, line, seen, acked, clients>>
-----------------------------------------------------------------------------
(***************************************************************************)
(* `require`, called by a command that may touch the router.               *)
(***************************************************************************)
\* The shell wants the line's pid equal to the claimed one; Python only
\* compares them when both are there.
ClaimMatches(p) == line = p \/ (p \in PyRequire /\ line = None)

RequireReadsLine(p) ==
  /\ work[p] /\ req[p] = "none" /\ ClaimMatches(p)
  /\ req' = [req EXCEPT ![p] = "probe"]
  /\ UNCHANGED <<flock, probe, line, pc, seen, work, rel, obs, report, acked>>

\* _flock_held / bench_flock_held on a fresh descriptor: a flock held by
\* anybody is taken for our own window's; a flock taken means it was free.
RequireProbes(p) ==
  /\ req[p] = "probe"
  /\ \/ /\ ~Free
        /\ req' = [req EXCEPT ![p] = "in"]
        /\ UNCHANGED probe
     \/ /\ Free
        /\ req' = [req EXCEPT ![p] = "refused"]
        /\ probe' = p
  /\ UNCHANGED <<flock, line, pc, seen, work, rel, obs, report, acked>>

\* The probing descriptor is closed, or the accepted step is over.
RequireReturns(p) ==
  /\ req[p] \in {"refused", "in"}
  /\ req' = [req EXCEPT ![p] = "none"]
  /\ probe' = IF probe = p THEN None ELSE probe
  /\ UNCHANGED <<flock, line, pc, seen, work, rel, obs, report, acked>>
-----------------------------------------------------------------------------
(***************************************************************************)
(* `bench-lock.sh release`.                                                *)
(***************************************************************************)
RelGoto(r, at) ==
  /\ rel' = [rel EXCEPT ![r] = at]
  /\ seen' = IF at = "off" THEN [seen EXCEPT ![r] = None] ELSE seen

\* Everything a release leaves alone in all of its steps.
releaseKeeps == <<work, req, obs, report>>

ReleaseReads(r) ==
  /\ rel[r] = "off"
  /\ seen' = [seen EXCEPT ![r] = line]
  /\ rel' = [rel EXCEPT ![r] = IF line = None THEN "peek" ELSE "judge"]
  /\ UNCHANGED <<flock, probe, line, pc, acked, releaseKeeps>>

\* kill -0 on the pid the line named; another profile's live window is
\* refused without --force.
ReleaseJudges(r) ==
  /\ rel[r] = "judge"
  /\ \/ ~Alive(seen[r]) /\ RelGoto(r, "wipe")
     \/ Alive(seen[r]) /\ RelGoto(r, "term")
     \/ Alive(seen[r]) /\ r \notin Forced /\ RelGoto(r, "off")
  /\ UNCHANGED <<flock, probe, line, pc, acked, releaseKeeps>>

\* The stale line is cleared without holding the flock.
ReleaseWipes(r) ==
  /\ rel[r] = "wipe"
  /\ line' = None
  /\ acked' = acked \cup {seen[r]}
  /\ RelGoto(r, "peek")
  /\ UNCHANGED <<flock, probe, pc, releaseKeeps>>

ReleasePeeks(r) ==
  /\ rel[r] = "peek"
  /\ \/ Free /\ probe' = r /\ RelGoto(r, "peeked")
     \/ ~Free /\ UNCHANGED probe /\ RelGoto(r, "off")
  /\ UNCHANGED <<flock, line, pc, acked, releaseKeeps>>

\* Where SIGTERM finds a handler: exec defers it until the command returned,
\* the hold loops end on it.  Everywhere else the default action kills.
HasHandler(p) ==
  \/ p \in ShExec /\ pc[p] \in {"run", "drop", "clear", "unlock"}
  \/ p \in Holds /\ pc[p] \in {"hold", "drop", "clear", "unlock"}

ReleaseTerms(r) ==
  /\ rel[r] = "term"
  /\ LET t == seen[r] IN
       \/ /\ Alive(t) /\ ~HasHandler(t) /\ Dies(t)
       \/ /\ Alive(t) /\ HasHandler(t) /\ pc[t] = "hold"
          /\ Goto(t, "drop") /\ UNCHANGED flock
       \/ /\ ~Alive(t) \/ (HasHandler(t) /\ pc[t] # "hold")
          /\ UNCHANGED <<flock, pc>>
  /\ RelGoto(r, "poll")
  /\ UNCHANGED <<probe, line, acked, releaseKeeps>>

\* Mistake: the poll loop has no last round.
ReleasePollsForEver(r) ==
  /\ rel[r] = "poll" /\ Free
  /\ probe' = r /\ RelGoto(r, "polled")
  /\ UNCHANGED <<flock, line, pc, acked, releaseKeeps>>

\* 50 polls of the flock; giving up leads to --force's SIGKILL or to exit 3.
ReleasePolls(r) ==
  /\ rel[r] = "poll"
  /\ \/ Free /\ probe' = r /\ RelGoto(r, "polled")
     \/ ~Free /\ UNCHANGED probe /\ RelGoto(r, IF r \in Forced THEN "kill" ELSE "off")
  /\ UNCHANGED <<flock, line, pc, acked, releaseKeeps>>

ReleaseUnprobes(r) ==
  /\ rel[r] \in {"peeked", "polled"}
  /\ probe' = None
  /\ RelGoto(r, IF rel[r] = "polled" THEN "final" ELSE "off")
  /\ UNCHANGED <<flock, line, pc, acked, releaseKeeps>>

ReleaseKills(r) ==
  /\ rel[r] = "kill"
  /\ IF Alive(seen[r]) THEN Dies(seen[r]) ELSE UNCHANGED <<flock, pc>>
  /\ RelGoto(r, "final")
  /\ UNCHANGED <<probe, line, acked, releaseKeeps>>

ReleaseRereads(r) ==
  /\ rel[r] = "final"
  /\ RelGoto(r, IF line = seen[r] THEN "finalwipe" ELSE "off")
  /\ UNCHANGED <<flock, probe, line, pc, acked, releaseKeeps>>

\* Again without the flock: the line is only known to have named seen[r].
ReleaseRewipes(r) ==
  /\ rel[r] = "finalwipe"
  /\ line' = None
  /\ acked' = acked \cup {seen[r]}
  /\ RelGoto(r, "off")
  /\ UNCHANGED <<flock, probe, pc, releaseKeeps>>
-----------------------------------------------------------------------------
(***************************************************************************)
(* `status`.  The shell reads the line before it probes the flock, Python  *)
(* probes before it reads; neither does both at once.                      *)
(***************************************************************************)
observerKeeps == <<flock, line, pc, work, req, rel, acked>>

Says(o, what) == /\ obs' = [obs EXCEPT ![o] = "off"]
                 /\ report' = [report EXCEPT ![o] = what]
                 /\ seen' = [seen EXCEPT ![o] = None]

NoFlock(holder) == IF holder = None THEN "free" ELSE "stale"

ShStatusReads(o) ==
  /\ obs[o] = "off"
  /\ seen' = [seen EXCEPT ![o] = line]
  /\ obs' = [obs EXCEPT ![o] = "shProbe"]
  /\ report' = [report EXCEPT ![o] = "none"]
  /\ UNCHANGED <<probe, observerKeeps>>

ShStatusProbes(o) ==
  /\ obs[o] = "shProbe"
  /\ \/ ~Free /\ Says(o, "held") /\ UNCHANGED probe
     \/ /\ Free /\ probe' = o
        /\ obs' = [obs EXCEPT ![o] = "shProbed"] /\ UNCHANGED <<report, seen>>
  /\ UNCHANGED observerKeeps

ShStatusSays(o) ==
  /\ obs[o] = "shProbed"
  /\ probe' = None
  /\ Says(o, NoFlock(seen[o]))
  /\ UNCHANGED observerKeeps

PyStatusProbes(o) ==
  /\ obs[o] = "off"
  /\ \/ ~Free /\ Says(o, "held") /\ UNCHANGED probe
     \/ /\ Free /\ probe' = o
        /\ obs' = [obs EXCEPT ![o] = "pyProbed"]
        /\ report' = [report EXCEPT ![o] = "none"] /\ UNCHANGED seen
  /\ UNCHANGED observerKeeps

PyStatusUnprobes(o) ==
  /\ obs[o] = "pyProbed"
  /\ probe' = None
  /\ obs' = [obs EXCEPT ![o] = "pyRead"]
  /\ UNCHANGED <<seen, report, observerKeeps>>

PyStatusSays(o) ==
  /\ obs[o] = "pyRead"
  /\ Says(o, NoFlock(line))
  /\ UNCHANGED <<probe, observerKeeps>>
-----------------------------------------------------------------------------
Opening(p) ==
  \/ Launch(p) \/ OpenLocked(p) \/ RefuseBusy(p) \/ CheckStale(p)
  \/ TruncateLine(p) \/ WriteHolderLine(p)

Running(p) ==
  \/ StartCommand(p) \/ RefuseNotIdle(p) \/ BeginHold(p) \/ EndHold(p)
  \/ EndBrief(p) \/ CommandEnds(p) \/ CommandReturns(p)

Closing(p) ==
  \/ ReadOwnLine(p) \/ ClearOwnLine(p) \/ Unlock(p) \/ LingerEnds(p) \/ Crash(p)

Requiring(p) == RequireReadsLine(p) \/ RequireProbes(p) \/ RequireReturns(p)

Releasing(r) ==
  \/ ReleaseReads(r) \/ ReleaseJudges(r) \/ ReleaseWipes(r) \/ ReleasePeeks(r)
  \/ ReleaseTerms(r) \/ ReleasePolls(r) \/ ReleaseUnprobes(r)
  \/ ReleaseKills(r) \/ ReleaseRereads(r) \/ ReleaseRewipes(r)

Observing(o) ==
  \/ ShStatusReads(o) \/ ShStatusProbes(o) \/ ShStatusSays(o)
  \/ PyStatusProbes(o) \/ PyStatusUnprobes(o) \/ PyStatusSays(o)

Next ==
  \/ \E p \in Window : Opening(p) \/ Running(p) \/ Closing(p) \/ Requiring(p)
  \/ \E r \in ShRelease : Releasing(r)
  \/ \E o \in Observer : Observing(o)

Spec == Init /\ [][Next]_vars
-----------------------------------------------------------------------------
(***************************************************************************)
(* Properties.                                                             *)
(***************************************************************************)
TypeOK ==
  /\ flock \in Window \cup {None}
  /\ probe \in Process \cup {None}
  /\ line \in Window \cup {None}
  /\ pc \in [Window -> winPC]
  /\ seen \in [Process -> Window \cup {None}]
  /\ work \in [Window -> BOOLEAN]
  /\ req \in [Window -> {"none", "probe", "refused", "in"}]
  /\ rel \in [ShRelease -> relPC]
  /\ obs \in [Observer -> obsPC]
  /\ report \in [Observer -> {"none", "held", "stale", "free"}]
  /\ acked \subseteq Window

\* Mutual exclusion: from the step that took the flock to the one that drops
\* it, a window's process is the flock's owner and nobody else, whatever
\* probes, crashes, reclaims and releases happen meanwhile; and no probe is
\* ever granted while a window is open.
OneWindow ==
  /\ \A p \in Window : pc[p] \in Inside => flock = p
  /\ probe # None => flock = None

\* While a window is open the lock file names it: what a refused caller
\* prints as HOLDER is the process that refuses it.
OwnerNamed == \A p \in Window : pc[p] \in Recorded => line = p

\* The holder line is a write-ahead record of the command.  A command that
\* can still touch the router either has its window around it, or its record
\* still stands in the lock file to refuse the next window, or somebody
\* overrode exactly that record (--reclaim-stale, release).
OrphanFenced ==
  \A p \in Window : work[p] => flock = p \/ line = p \/ p \in acked

\* A command runs only inside its own window; without a kill from outside,
\* not even `bench-lock.sh release` (SIGTERM) opens the bench under it.
CommandInWindow == \A p \in Window : work[p] => flock = p

\* While a window is open nobody but its own process takes its line away
\* (bench-lock.sh: "never steal another window's line").
LineNotStolen ==
  [][\A p \in Window :
       pc[p] \in Recorded /\ line = p /\ line' # p => pc[p] = "clear"]_vars

\* A command that passed `require` was inside its own window when it passed.
RequireInWindow ==
  [][\A p \in Window : req[p] = "probe" /\ req'[p] = "in" => flock = p]_vars

\* require() goes on only when the line's pid is the claimed one.
RequireComparesPid ==
  [][\A p \in Window : req[p] = "none" /\ req'[p] = "probe" => line = p]_vars

\* "stale" is printed only while a holder line stands without a flock.
StaleReportTrue ==
  [][\A o \in Observer :
       obs[o] # "off" /\ obs'[o] = "off" /\ report'[o] = "stale"
         => line # None /\ flock = None]_vars
-----------------------------------------------------------------------------
(***************************************************************************)
(* Liveness.  Every process that is not killed takes its next step, a      *)
(* command ends (each bench script bounds its own run), and a hold is ended*)
(* by its operator or its --hold timer.  Nothing is assumed of launches,   *)
(* crashes, or who wins a contended flock.                                 *)
(***************************************************************************)
WindowStep(p) ==
  \/ OpenLocked(p) \/ RefuseBusy(p) \/ CheckStale(p) \/ TruncateLine(p)
  \/ WriteHolderLine(p) \/ StartCommand(p) \/ RefuseNotIdle(p) \/ BeginHold(p)
  \/ EndHold(p) \/ EndBrief(p) \/ CommandReturns(p) \/ ReadOwnLine(p)
  \/ ClearOwnLine(p) \/ Unlock(p)

Fairness ==
  /\ \A p \in Window : /\ WF_vars(WindowStep(p))
                       /\ WF_vars(CommandEnds(p))
                       /\ WF_vars(LingerEnds(p))
                       /\ WF_vars(RequireProbes(p) \/ RequireReturns(p))
  /\ \A r \in ShRelease : WF_vars(Releasing(r) /\ rel[r] # "off")
  /\ \A o \in Observer : WF_vars(Observing(o) /\ obs[o] # "off")

FairSpec == Spec /\ Fairness

\* "a killed holder cannot wedge it": whoever takes the flock and however its
\* process ends, the flock becomes free for the next window again.
BenchReopens == \A p \in Window : flock = p ~> flock # p

\* `bench-lock.sh release` returns, and if it started on a holder line its
\* SIGTERM, SIGKILL and polls never leave it waiting for ever.
ReleaseEnds == \A r \in ShRelease : rel[r] # "off" ~> rel[r] = "off"
-----------------------------------------------------------------------------
(***************************************************************************)
(* Without shell releases the lease implements the single-owner bench.     *)
(***************************************************************************)
owner ==
  IF \E p \in Window : pc[p] \in Recorded
  THEN CHOOSE p \in Window : pc[p] \in Recorded ELSE None

Bench == INSTANCE BenchOwner WITH record <- line

ImplementsBenchOwner == Bench!Spec
=============================================================================
