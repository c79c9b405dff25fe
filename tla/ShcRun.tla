------------------------------- MODULE ShcRun -------------------------------
(***************************************************************************)
(* A test run on a rented SHC virtual machine (lib/cloud_lab): the         *)
(* submitter orders the machine, arms a kill switch and launches the       *)
(* bootstrap script, which runs the worker; a monitor may watch it.  The   *)
(* machine is billed until somebody cancels it through the SHC API: the    *)
(* worker, the kill switch, the monitor, or the clean-up at the start of a *)
(* later submission.  A machine that is only shut down is still billed and *)
(* has no process left that could cancel it.                               *)
(*                                                                         *)
(* Time is abstract: a lease may expire, and a machine turn two hours old, *)
(* at any moment after it was armed or ordered.                            *)
(***************************************************************************)

CONSTANTS
  Run,           \* submissions; a run names its machine too
  Switch,        \* kill switch of each run: "timer" (bounded key, planted by
                 \* shc_toolkit), or the bootstrap's own, "loop" or "at"
  Spared,        \* runs whose host name starts with "tollgate-main-"
  KeepOnFailure, \* runs submitted without --self-delete
  Wait,          \* runs submitted with --wait
  Faults         \* "apiDown", "sshFails", "stuck" (never provisioned), "dies"

ASSUME SwitchIsKind == Switch \in [Run -> {"timer", "loop", "at"}]
ASSUME SparedAreRuns == Spared \subseteq Run
ASSUME OptionsAreRuns == KeepOnFailure \subseteq Run /\ Wait \subseteq Run

VARIABLES
  vm,       \* the machine: "none", "building", "on", "halting", "off", "cancelled"
  sub,      \* where the submitter (and then the monitor) is
  boot,     \* where the bootstrap script is
  outcome,  \* of the worker's tests: "none", "pass", "fail"
  marker,   \* what the status files say: "none", "failed", "done"
  armed,    \* is the kill switch in place?
  expired,  \* is the lease over?
  old,      \* has the machine been ordered two hours ago?
  asks,     \* how the API asks to confirm a cancellation: "none", "flat" or
            \* "nested", after where its answer holds the confirmation id
  shutBy    \* history: who shut the machine down without having cancelled
            \* it: "nobody", "worker", "switch"

api == <<asks, shutBy>>
machine == <<vm, armed, expired, old, api>>
script == <<boot, outcome, marker>>
runVars == <<vm, sub, boot, outcome, marker, armed, expired, old, asks, shutBy>>

RunInit ==
  /\ vm = [r \in Run |-> "none"]
  /\ sub = [r \in Run |-> "off"]
  /\ boot = [r \in Run |-> "none"]
  /\ outcome = [r \in Run |-> "none"]
  /\ marker = [r \in Run |-> "none"]
  /\ armed = [r \in Run |-> FALSE]
  /\ expired = [r \in Run |-> FALSE]
  /\ old = [r \in Run |-> FALSE]
  /\ asks \in {"none", "flat", "nested"}
  /\ shutBy = [r \in Run |-> "nobody"]

Reachable(r) == vm[r] \in {"on", "halting"}
Billed(r) == vm[r] \notin {"none", "cancelled"}
Legacy(r) == Switch[r] # "timer"
To(r, at) == sub' = [sub EXCEPT ![r] = at]
Set(r, state) == vm' = [vm EXCEPT ![r] = state]
Halts(r, who) == Set(r, "halting") /\ shutBy' = [shutBy EXCEPT ![r] = who]
-----------------------------------------------------------------------------
(***************************************************************************)
(* cloud-lab.py submit: clean up, check, order, wait, arm, upload, launch. *)
(* Nothing that raises cancels the machine it leaves behind.               *)
(***************************************************************************)
Reapable(r) == Billed(r) /\ old[r] /\ r \notin Spared

\* The sweep ends, and is skipped over, at the first call that fails.
SubmitReaps(r) ==
  /\ sub[r] = "off"
  /\ \E reaped \in SUBSET {q \in Run : Reapable(q)} :
       /\ "apiDown" \in Faults \/ reaped = {q \in Run : Reapable(q)}
       /\ vm' = [q \in Run |-> IF q \in reaped THEN "cancelled" ELSE vm[q]]
  /\ To(r, "checks")
  /\ UNCHANGED <<script, armed, expired, old, api>>

\* Balance and CI artifact are there, and the order is accepted.
Orders(r) ==
  /\ sub[r] = "checks"
  /\ Set(r, "building")
  /\ To(r, "provision")
  /\ UNCHANGED <<script, armed, expired, old, api>>

\* Active, with an address; failing to inject the ssh key is no error.
Provisioned(r) ==
  /\ sub[r] = "provision" /\ vm[r] \in {"on", "halting", "off"}
  /\ To(r, "ssh")
  /\ UNCHANGED <<machine, script>>

SshAnswers(r) ==
  /\ sub[r] = "ssh" /\ Reachable(r)
  /\ To(r, "arm")
  /\ UNCHANGED <<machine, script>>

\* The timer is planted through ssh; the other switches come with the script.
ArmsTimer(r) ==
  /\ sub[r] = "arm"
  /\ Legacy(r) \/ Reachable(r)
  /\ armed' = [armed EXCEPT ![r] = ~Legacy(r)]
  /\ To(r, "upload")
  /\ UNCHANGED <<script, vm, expired, old, api>>

Uploads(r) ==
  /\ sub[r] = "upload" /\ Reachable(r)
  /\ To(r, "launch")
  /\ UNCHANGED <<machine, script>>

\* The result of the launching ssh call is not looked at, and it may raise
\* (30 seconds) when the script is running already.
Launches(r) ==
  /\ sub[r] = "launch"
  /\ \/ Reachable(r) /\ boot' = [boot EXCEPT ![r] = "start"]
     \/ ("sshFails" \in Faults \/ ~Reachable(r)) /\ UNCHANGED boot
  /\ \/ To(r, IF r \in Wait THEN "watch" ELSE "over")
     \/ "sshFails" \in Faults /\ To(r, "raised")
  /\ UNCHANGED <<machine, outcome, marker>>

SubmitRaises(r) ==
  /\ \/ sub[r] = "checks"
     \/ sub[r] = "provision" /\ vm[r] = "cancelled"
     \/ sub[r] = "provision" /\ ("apiDown" \in Faults \/ "stuck" \in Faults)
     \/ sub[r] \in {"ssh", "upload"}
          /\ ("sshFails" \in Faults \/ ~Reachable(r))
     \/ sub[r] = "arm" /\ ~Legacy(r) /\ ("sshFails" \in Faults \/ ~Reachable(r))
  /\ To(r, "raised")
  /\ UNCHANGED <<machine, script>>

\* The process is killed, as submitter or as monitor.
SubmitDies(r) ==
  /\ "dies" \in Faults
  /\ sub[r] \notin {"off", "over", "raised"}
  /\ To(r, "raised")
  /\ UNCHANGED <<machine, script>>
-----------------------------------------------------------------------------
(***************************************************************************)
(* wait_for_shc_run.                                                       *)
(***************************************************************************)
\* A state the API does not tell is taken for a running machine.
MonitorPolls(r) ==
  /\ sub[r] = "watch"
  /\ \/ vm[r] = "cancelled" /\ To(r, "over")
     \/ (vm[r] # "cancelled" \/ "apiDown" \in Faults) /\ To(r, "read")
  /\ UNCHANGED <<machine, script>>

\* Mistake: a finished run is cancelled whether or not it is to be kept.
MonitorReadsCarelessly(r) ==
  /\ sub[r] = "read"
  /\ To(r, IF ~Reachable(r) \/ marker[r] = "none" THEN "watch" ELSE "cancel")
  /\ UNCHANGED <<machine, script>>

\* The status files through ssh; a failing call reads as an empty file.
MonitorReads(r) ==
  /\ sub[r] = "read"
  /\ \/ /\ ~Reachable(r) \/ marker[r] = "none" \/ "sshFails" \in Faults
        /\ To(r, "watch")
     \/ /\ Reachable(r) /\ marker[r] # "none"
        /\ To(r, IF r \in KeepOnFailure THEN "over" ELSE "cancel")
  /\ UNCHANGED <<machine, script>>

MonitorCancels(r) ==
  /\ sub[r] = "cancel"
  /\ \/ Set(r, "cancelled") /\ To(r, "over")
     \/ "apiDown" \in Faults /\ To(r, "raised") /\ UNCHANGED vm
  /\ UNCHANGED <<script, armed, expired, old, api>>

\* After 90 minutes: the verdict is a failure, the machine is left alone.
MonitorTimesOut(r) ==
  /\ sub[r] = "watch"
  /\ To(r, "over")
  /\ UNCHANGED <<machine, script>>
-----------------------------------------------------------------------------
(***************************************************************************)
(* The bootstrap script and the worker, on the machine.                    *)
(***************************************************************************)
Bootstrap(r, from, to) ==
  /\ boot[r] = from /\ Reachable(r)
  /\ boot' = [boot EXCEPT ![r] = to]

BootArms(r) ==
  /\ Bootstrap(r, "start", "steps")
  /\ armed' = [armed EXCEPT ![r] = @ \/ Legacy(r)]
  /\ UNCHANGED <<vm, sub, outcome, marker, expired, old, api>>

\* fail, or a command without it under `set -e`.
BootFails(r) ==
  /\ Bootstrap(r, "steps", "ended")
  /\ \E told \in {"none", "failed"} : marker' = [marker EXCEPT ![r] = told]
  /\ UNCHANGED <<machine, sub, outcome>>

BootStartsWorker(r) ==
  /\ Bootstrap(r, "steps", "worker")
  /\ UNCHANGED <<machine, sub, outcome, marker>>

\* run_worker's `finally`: after two hours of work nothing is kept.
WorkerEnds(r, result) ==
  /\ \E forced \in {FALSE, old[r]} :
       Bootstrap(r, "worker",
         IF result = "fail" /\ r \in KeepOnFailure /\ ~forced THEN "wrapUp" ELSE "delete")
  /\ outcome' = [outcome EXCEPT ![r] = result]
  /\ UNCHANGED <<machine, sub, marker>>

\* Does an API call with the account key cancel, when the caller looks for
\* the confirmation id in this place?
Cancels(place) == asks \in {"none", place}

\* delete_self; the account key is on the machine only with a legacy switch.
DeletesSelf(r) ==
  /\ Bootstrap(r, "delete", "wrapUp")
  /\ \/ Legacy(r) /\ Cancels("nested") /\ Set(r, "cancelled") /\ UNCHANGED shutBy
     \/ /\ ~Legacy(r) \/ ~Cancels("nested") \/ "apiDown" \in Faults
        /\ Halts(r, "worker")
  /\ UNCHANGED <<sub, outcome, marker, armed, expired, old, asks>>

\* `set -e` ends the script before its last lines when the worker failed.
BootEnds(r) ==
  /\ Bootstrap(r, "wrapUp", "ended")
  /\ marker' = [marker EXCEPT ![r] = IF outcome[r] = "pass" THEN "done" ELSE @]
  /\ UNCHANGED <<machine, sub, outcome>>

\* Mistake: only the last line of self_cancel, the one that shuts down, is run.
KillSwitchOnlyHalts(r) ==
  /\ armed[r] /\ expired[r] /\ vm[r] = "on"
  /\ armed' = [armed EXCEPT ![r] = FALSE]
  /\ Halts(r, "switch")
  /\ UNCHANGED <<script, sub, expired, old, asks>>

\* The lease is over.  The timer cancels; the loop cancels, and shuts down
\* whether or not it could; the `at` job does not know the function
\* self_cancel of the script that wrote it and only shuts down.
KillSwitchFires(r) ==
  /\ armed[r] /\ expired[r] /\ vm[r] = "on"
  /\ armed' = [armed EXCEPT ![r] = FALSE]
  /\ \/ /\ ~Legacy(r) \/ (Switch[r] = "loop" /\ Cancels("flat"))
        /\ Set(r, "cancelled") /\ UNCHANGED shutBy
     \/ /\ Legacy(r)
        /\ Switch[r] = "at" \/ ~Cancels("flat") \/ "apiDown" \in Faults
        /\ Halts(r, "switch")
  /\ UNCHANGED <<script, sub, expired, old, asks>>
-----------------------------------------------------------------------------
(***************************************************************************)
(* The provider's side, and time.                                          *)
(***************************************************************************)
Boots(r) ==
  /\ vm[r] = "building"
  /\ Set(r, "on")
  /\ UNCHANGED <<script, sub, armed, expired, old, api>>

PowersOff(r) ==
  /\ vm[r] = "halting"
  /\ Set(r, "off")
  /\ UNCHANGED <<script, sub, armed, expired, old, api>>

LeaseExpires(r) ==
  /\ armed[r] /\ ~expired[r]
  /\ expired' = [expired EXCEPT ![r] = TRUE]
  /\ UNCHANGED <<script, sub, vm, armed, old, api>>

TwoHoursPass(r) ==
  /\ Billed(r) /\ ~old[r]
  /\ old' = [old EXCEPT ![r] = TRUE]
  /\ UNCHANGED <<script, sub, vm, armed, expired, api>>
-----------------------------------------------------------------------------
Submitting(r) ==
  \/ SubmitReaps(r) \/ Orders(r) \/ Provisioned(r) \/ SshAnswers(r)
  \/ ArmsTimer(r) \/ Uploads(r) \/ Launches(r) \/ SubmitRaises(r) \/ SubmitDies(r)

Monitoring(r) ==
  MonitorPolls(r) \/ MonitorReads(r) \/ MonitorCancels(r) \/ MonitorTimesOut(r)

OnMachine(r) ==
  \/ BootArms(r) \/ BootFails(r) \/ BootStartsWorker(r) \/ DeletesSelf(r)
  \/ BootEnds(r) \/ KillSwitchFires(r)
  \/ \E result \in {"pass", "fail"} : WorkerEnds(r, result)

Providing(r) == Boots(r) \/ PowersOff(r) \/ LeaseExpires(r) \/ TwoHoursPass(r)

RunNext ==
  \E r \in Run : Submitting(r) \/ Monitoring(r) \/ OnMachine(r) \/ Providing(r)

RunSpec == RunInit /\ [][RunNext]_runVars
-----------------------------------------------------------------------------
RunTypeOK ==
  /\ vm \in [Run -> {"none", "building", "on", "halting", "off", "cancelled"}]
  /\ sub \in [Run -> {"off", "checks", "provision", "ssh", "arm", "upload", "launch",
                      "watch", "read", "cancel", "over", "raised"}]
  /\ boot \in [Run -> {"none", "start", "steps", "worker", "delete", "wrapUp", "ended"}]
  /\ \A r \in Run :
       boot[r] # "none" => sub[r] \in {"watch", "read", "cancel", "over", "raised"}
  /\ outcome \in [Run -> {"none", "pass", "fail"}]
  /\ marker \in [Run -> {"none", "failed", "done"}]
  /\ armed \in [Run -> BOOLEAN]
  /\ expired \in [Run -> BOOLEAN] /\ old \in [Run -> BOOLEAN]
  /\ asks \in {"none", "flat", "nested"}
  /\ shutBy \in [Run -> {"nobody", "worker", "switch"}]

\* What entitles anybody to take a run's machine away.
Due(r) ==
  \/ expired[r] \/ old[r]
  \/ outcome[r] = "pass"
  \/ r \notin KeepOnFailure /\ (outcome[r] = "fail" \/ marker[r] = "failed")

\* Worker, monitor, kill switch and the next submission's clean-up never
\* cancel or shut down a machine whose tests may still run, or one that
\* failed and was to be kept, before its lease or two hours are over.
NoneTakenEarly ==
  [][\A r \in Run :
       vm'[r] # vm[r] /\ vm'[r] \in {"halting", "cancelled"} => Due(r)]_runVars

(***************************************************************************)
(* Liveness: the machine and its processes go on, the tests end (they have *)
(* timeouts), leases expire.  Nothing is asked of submitters and monitors. *)
(***************************************************************************)
Fairness ==
  \A r \in Run : WF_runVars(OnMachine(r)) /\ WF_runVars(PowersOff(r)) /\ WF_runVars(LeaseExpires(r))

RunFairSpec == RunSpec /\ Fairness

\* The machine was shut down by the one who looks for the confirmation id
\* where this API does not put it.
Misread(r) ==
  \/ asks = "flat" /\ shutBy[r] = "worker"
  \/ asks = "nested" /\ shutBy[r] = "switch"

\* With the bootstrap's loop, and an API that answers, a machine on which the
\* bootstrap was launched is cancelled in the end, whatever becomes of its
\* submitter and whichever confirmation the API asks for, unless worker or
\* switch could not read that confirmation and shut it down instead.
LoopReclaims ==
  \A r \in Run :
    Switch[r] = "loop" /\ boot[r] # "none" ~> vm[r] = "cancelled" \/ Misread(r)

\* "the VM self-destructs at lease expiry even if the submitter process is
\* killed" (docs/pulumi-shc-spike.md), said of every armed machine.  It fails
\* with the timer (ShcRunTimer.cfg) and with a misread confirmation
\* (ShcRunConfirm.cfg).
LeaseReclaims ==
  \A r \in Run : armed[r] ~> vm[r] = "cancelled"
=============================================================================
