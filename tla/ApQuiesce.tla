------------------------------ MODULE ApQuiesce ------------------------------
(***************************************************************************)
(* The access points of the test routers: armed for a leased run, disabled *)
(* again by the run's exit trap (run-with-quiesce.sh, prta-bench-run.sh)   *)
(* and, as a backstop, by a timer (prta-quiesce-watchdog.sh).  All of them *)
(* call quiesce-router.py, which runs a shell script on one router after   *)
(* the other: set every AP section that differs, and only if one did,      *)
(* commit and reload.                                                      *)
(*                                                                         *)
(* The bench lease is BenchOwner.  The AP sections of a router are all     *)
(* treated alike by the scripts and are modelled as one.                   *)
(***************************************************************************)
EXTENDS Naturals, FiniteSetsExt

CONSTANTS
  Routers,   \* the inventory, in the order `--all` goes through it
  ArmRun,    \* leased runs under run-with-quiesce.sh
  SweepRun,  \* leased runs under prta-bench-run.sh
  Target,    \* the router of each ArmRun
  Watchdog,  \* the systemd unit, if it is installed
  Hanging,   \* routers that accept the connection and never finish a script
  Faults,    \* "leaseDies", "wrapperDies", "refused" (also by OpenBao), "dropped"
  MaxOpens,  \* bound: how often a run is started
  None

Run == ArmRun \cup SweepRun
Client == Run \cup Watchdog

ASSUME RoutersAreOrdered ==
  Routers \subseteq Nat /\ Routers # {} /\ Hanging \subseteq Routers
ASSUME TargetIsRouter == Target \in [ArmRun -> Routers]
ASSUME ClientsDiffer ==
  ArmRun \cap SweepRun = {} /\ Run \cap Watchdog = {} /\ None \notin Client
ASSUME MaxOpensIsNumber == MaxOpens \in Nat

VARIABLES
  owner, record,  \* the bench lease
  uci,      \* each router's wireless configuration: APs enabled?
  live,     \* each router's radios: APs up?
  pc,       \* the wrapper script of each run, or the watchdog
  todo,     \* routers each client's quiesce-router.py has not finished, this one first
  script,   \* where its remote script is: "idle", "set", "reload"
  up,       \* is it REMOTE_ENABLE?
  failed,   \* routers its quiesce-router.py reported as failed
  opens

bench == <<owner, record>>
router == <<uci, live>>
session == <<todo, script, up, failed>>
vars == <<owner, record, uci, live, pc, todo, script, up, failed, opens>>

Bench == INSTANCE BenchOwner WITH Window <- Run, Reclaim <- {}

Init ==
  /\ Bench!Init
  /\ uci = [r \in Routers |-> FALSE]
  /\ live = [r \in Routers |-> FALSE]
  /\ pc = [c \in Client |-> "off"]
  /\ todo = [c \in Client |-> {}]
  /\ script = [c \in Client |-> "idle"]
  /\ up = [c \in Client |-> FALSE]
  /\ failed = [c \in Client |-> {}]
  /\ opens = 0
-----------------------------------------------------------------------------
(***************************************************************************)
(* quiesce-router.py, one ssh session after the other.                     *)
(***************************************************************************)
At(c) == Min(todo[c])

Start(c, routers, enable) ==
  /\ todo' = [todo EXCEPT ![c] = routers]
  /\ script' = [script EXCEPT ![c] = "set"]
  /\ up' = [up EXCEPT ![c] = enable]
  /\ failed' = [failed EXCEPT ![c] = {}]

\* The script on one router is over; the next router follows in any case.
NextRouter(c, failures) ==
  /\ todo' = [todo EXCEPT ![c] = @ \ {At(c)}]
  /\ script' = [script EXCEPT ![c] = IF todo[c] = {At(c)} THEN "idle" ELSE "set"]
  /\ failed' = [failed EXCEPT ![c] = @ \cup failures]
  /\ UNCHANGED up

\* uci set on every AP section that differs; with nothing to change the
\* script says DONE at once.
ScriptSets(c) ==
  /\ script[c] = "set" /\ At(c) \notin Hanging
  /\ \/ /\ uci[At(c)] # up[c]
        /\ uci' = [uci EXCEPT ![At(c)] = up[c]]
        /\ script' = [script EXCEPT ![c] = "reload"]
        /\ UNCHANGED <<todo, up, failed>>
     \/ /\ uci[At(c)] = up[c]
        /\ NextRouter(c, {})
        /\ UNCHANGED uci
  /\ UNCHANGED <<bench, live, pc, opens>>

\* uci commit and wifi reload act on the configuration as it is by then.
ScriptReloads(c) ==
  /\ script[c] = "reload"
  /\ live' = [live EXCEPT ![At(c)] = uci[At(c)]]
  /\ NextRouter(c, {})
  /\ UNCHANGED <<bench, uci, pc, opens>>

\* ssh fails: a router that refuses, or a connection lost in the script.
ScriptFails(c) ==
  /\ \/ script[c] = "set" /\ "refused" \in Faults
     \/ script[c] = "reload" /\ "dropped" \in Faults
  /\ NextRouter(c, {At(c)})
  /\ UNCHANGED <<bench, router, pc, opens>>

\* subprocess.run(timeout=90) raises: the loop over --all is over.
ScriptTimesOut(c) ==
  /\ script[c] = "set" /\ At(c) \in Hanging
  /\ todo' = [todo EXCEPT ![c] = {}]
  /\ script' = [script EXCEPT ![c] = "idle"]
  /\ failed' = [failed EXCEPT ![c] = @ \cup {At(c)}]
  /\ UNCHANGED <<bench, router, pc, up, opens>>
-----------------------------------------------------------------------------
(***************************************************************************)
(* A leased run: hw-bench-lease exec -- WRAPPER -- COMMAND.                *)
(***************************************************************************)
Idle(c) == script[c] = "idle"
To(c, at) == pc' = [pc EXCEPT ![c] = at]

\* (A name is used for another run when its last one has ended.)
RunOpens(w) ==
  /\ opens < MaxOpens /\ opens' = opens + 1
  /\ pc[w] \in {"off", "ended"} /\ Idle(w)
  /\ Bench!Open(w)
  /\ To(w, "arm")
  /\ IF w \in ArmRun THEN Start(w, {Target[w]}, TRUE) ELSE UNCHANGED session
  /\ UNCHANGED router

\* The enabling is done, or failed (|| true): the command runs.
CommandStarts(w) ==
  /\ pc[w] = "arm" /\ Idle(w)
  /\ To(w, "command")
  /\ UNCHANGED <<bench, router, session, opens>>

\* prta-bench-run.sh sets its trap only after the OpenBao login.
LoginFails(w) ==
  /\ pc[w] = "arm" /\ w \in SweepRun /\ "refused" \in Faults
  /\ To(w, "ended")
  /\ UNCHANGED <<bench, router, session, opens>>

CleanupOf(w) == IF w \in ArmRun THEN {Target[w]} ELSE Routers

\* Mistake: the cleanup is a last line of the script, not an EXIT trap, and a
\* failing command ends it under `set -e` before.
CommandEndsUntrapped(w) ==
  /\ pc[w] = "command"
  /\ \/ To(w, "cleanup") /\ Start(w, CleanupOf(w), FALSE)
     \/ To(w, "ended") /\ UNCHANGED session
  /\ UNCHANGED <<bench, router, opens>>

\* However the command ends, the EXIT trap quiesces.
CommandEnds(w) ==
  /\ pc[w] = "command"
  /\ To(w, "cleanup")
  /\ Start(w, CleanupOf(w), FALSE)
  /\ UNCHANGED <<bench, router, opens>>

\* Mistake: the trap puts the quiesce in the background.
WrapperEndsEarly(w) ==
  /\ pc[w] = "cleanup"
  /\ To(w, "ended")
  /\ UNCHANGED <<bench, router, session, opens>>

WrapperEnds(w) ==
  /\ pc[w] = "cleanup" /\ Idle(w)
  /\ To(w, "ended")
  /\ UNCHANGED <<bench, router, session, opens>>

\* SIGKILL of the wrapper; a quiesce-router.py it had started goes on.
WrapperDies(w) ==
  /\ "wrapperDies" \in Faults
  /\ pc[w] \in {"arm", "command", "cleanup"}
  /\ To(w, "ended")
  /\ UNCHANGED <<bench, router, session, opens>>

\* The lease's process waits for the wrapper.
RunCloses(w) ==
  /\ pc[w] = "ended"
  /\ Bench!Close(w)
  /\ UNCHANGED <<router, session, pc, opens>>

\* SIGKILL of the lease's process; the wrapper goes on as an orphan.
LeaseDies(w) ==
  /\ "leaseDies" \in Faults
  /\ Bench!Die(w)
  /\ UNCHANGED <<router, session, pc, opens>>
-----------------------------------------------------------------------------
(***************************************************************************)
(* prta-quiesce-watchdog.sh, every two minutes, never twice at a time.     *)
(***************************************************************************)
\* `hw-bench-lease status` says "bench free": neither held nor stale.
WatchdogLooks(c) ==
  /\ pc[c] = "off"
  /\ owner = None /\ record = None
  /\ To(c, "login")
  /\ UNCHANGED <<bench, router, session, opens>>

\* Mistake: the key OpenBao hands out has no final newline and ssh rejects it.
WatchdogSweepsNothing(c) ==
  /\ pc[c] = "login"
  /\ To(c, "off")
  /\ UNCHANGED <<bench, router, session, opens>>

\* With the key from OpenBao it sweeps; without it waits for the next tick.
WatchdogSweeps(c) ==
  /\ pc[c] = "login"
  /\ \/ To(c, "sweep") /\ Start(c, Routers, FALSE)
     \/ "refused" \in Faults /\ To(c, "off") /\ UNCHANGED session
  /\ UNCHANGED <<bench, router, opens>>

WatchdogEnds(c) ==
  /\ pc[c] = "sweep" /\ Idle(c)
  /\ To(c, "off")
  /\ UNCHANGED <<bench, router, session, opens>>
-----------------------------------------------------------------------------
Scripting(c) ==
  ScriptSets(c) \/ ScriptReloads(c) \/ ScriptFails(c) \/ ScriptTimesOut(c)

Running(w) ==
  \/ RunOpens(w) \/ CommandStarts(w) \/ LoginFails(w) \/ CommandEnds(w)
  \/ WrapperEnds(w) \/ WrapperDies(w) \/ RunCloses(w) \/ LeaseDies(w)

Watching(c) == WatchdogLooks(c) \/ WatchdogSweeps(c) \/ WatchdogEnds(c)

Next ==
  \/ \E c \in Client : Scripting(c)
  \/ \E w \in Run : Running(w)
  \/ \E c \in Watchdog : Watching(c)

Spec == Init /\ [][Next]_vars
-----------------------------------------------------------------------------
TypeOK ==
  /\ Bench!TypeOK
  /\ uci \in [Routers -> BOOLEAN] /\ live \in [Routers -> BOOLEAN]
  /\ pc \in [Client -> {"off", "arm", "command", "cleanup", "ended", "login", "sweep"}]
  /\ todo \in [Client -> SUBSET Routers]
  /\ \A c \in Client : script[c] # "idle" => todo[c] # {}
  /\ script \in [Client -> {"idle", "set", "reload"}]
  /\ up \in [Client -> BOOLEAN]
  /\ failed \in [Client -> SUBSET Routers]
  /\ opens \in 0..MaxOpens

\* A bench that is free, with no record of a dead owner, is a quiet one: the
\* next run finds an AP of an earlier run on the air only where that run's
\* cleanup said it had failed.
FreeMeansQuiet ==
  owner = None /\ record = None =>
    \A r \in Routers : live[r] => \E w \in Run : r \in failed[w]

\* A command whose wrapper armed its router finds the APs configured on: no
\* quiesce of an earlier run is still under way, or comes in its window.
ArmedForCommand ==
  \A w \in ArmRun :
    owner = w /\ pc[w] = "command" /\ Target[w] \notin failed[w] => uci[Target[w]]

\* "It only runs when the bench lease is free" (prta-quiesce-watchdog.sh).
WatchdogSparesRuns ==
  [][\A c \in Watchdog :
       script[c] = "set" /\ script'[c] = "reload" => owner = None]_vars

\* quiesce-router.py "verifies the AP state after wifi reload": QUIESCE_DONE
\* is said of a router whose APs are down.
DoneMeansDown ==
  [][\A c \in Client :
       Scripting(c) /\ todo'[c] # todo[c] /\ ~up[c] /\ At(c) \notin failed'[c]
         => ~live'[At(c)]]_vars

(***************************************************************************)
(* Liveness: processes that are not killed go on, commands end, the timer  *)
(* fires again, and a router that refuses now and then answers in the end. *)
(***************************************************************************)
RunGoesOn(w) ==
  CommandStarts(w) \/ CommandEnds(w) \/ WrapperEnds(w) \/ RunCloses(w)

Fairness ==
  /\ \A c \in Client :
       /\ WF_vars(Scripting(c))
       /\ \A r \in Routers : SF_vars(ScriptSets(c) /\ At(c) = r)
  /\ \A w \in Run : WF_vars(RunGoesOn(w))
  /\ \A c \in Watchdog : /\ WF_vars(Watching(c))
                         /\ SF_vars(WatchdogSweeps(c) /\ pc'[c] = "sweep")

FairSpec == Spec /\ Fairness

\* "disable APs when no test holds the bench lease": once the runs are over,
\* every router's APs go down and stay down, also when a run could not do it
\* itself; `--all` is "every non-protected router".
ApsGoDown == <>[](\A r \in Routers \ Hanging : ~live[r])
=============================================================================
