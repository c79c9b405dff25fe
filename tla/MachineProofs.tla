--------------------------- MODULE MachineProofs ---------------------------
EXTENDS ShcRun, VirtualLab, TLAPS

(***************************************************************************)
(* Theorems about the two lanes that rent or start machines.  First        *)
(* ShcRun, for any set of runs, options and faults.                        *)
(***************************************************************************)

\* ShcRun's state is well typed, and no script runs before a launch.
THEOREM RunTypeCorrect == RunSpec => []RunTypeOK
<1>1. RunInit => RunTypeOK
  BY DEF RunInit, RunTypeOK
<1>2. RunTypeOK /\ [RunNext]_runVars => RunTypeOK'
  <2> SUFFICES ASSUME RunTypeOK, [RunNext]_runVars PROVE RunTypeOK'
    OBVIOUS
  <2> USE DEF RunTypeOK, api, machine, script, To, Set, Halts
  <2>1. CASE UNCHANGED runVars
    BY <2>1 DEF runVars
  <2>2. ASSUME NEW r \in Run, Submitting(r) PROVE RunTypeOK'
    <3>1. CASE SubmitReaps(r)
      BY <3>1 DEF SubmitReaps
    <3>2. CASE Orders(r) \/ Provisioned(r) \/ SshAnswers(r)
      BY <3>2 DEF Orders, Provisioned, SshAnswers
    <3>3. CASE ArmsTimer(r)
      BY <3>3 DEF ArmsTimer, Legacy
    <3>4. CASE Uploads(r)
      BY <3>4 DEF Uploads
    <3>5. CASE Launches(r)
      BY <3>5 DEF Launches
    <3>6. CASE SubmitRaises(r) \/ SubmitDies(r)
      BY <3>6 DEF SubmitRaises, SubmitDies
    <3> QED BY <2>2, <3>1, <3>2, <3>3, <3>4, <3>5, <3>6 DEF Submitting
  <2>3. ASSUME NEW r \in Run, Monitoring(r) PROVE RunTypeOK'
    BY <2>3 DEF Monitoring, MonitorPolls, MonitorReads, MonitorCancels, MonitorTimesOut
  <2>4. ASSUME NEW r \in Run, OnMachine(r) PROVE RunTypeOK'
    <3> USE DEF Bootstrap
    <3>1. CASE BootArms(r)
      BY <3>1 DEF BootArms, Legacy
    <3>2. CASE BootFails(r)
      BY <3>2 DEF BootFails
    <3>3. CASE BootStartsWorker(r) \/ DeletesSelf(r)
      BY <3>3 DEF BootStartsWorker, DeletesSelf
    <3>4. CASE BootEnds(r)
      BY <3>4 DEF BootEnds
    <3>5. CASE KillSwitchFires(r)
      BY <3>5 DEF KillSwitchFires
    <3>6. ASSUME NEW verdict \in {"pass", "fail"}, WorkerEnds(r, verdict) PROVE RunTypeOK'
      BY <3>6 DEF WorkerEnds
    <3> QED BY <2>4, <3>1, <3>2, <3>3, <3>4, <3>5, <3>6 DEF OnMachine
  <2>5. ASSUME NEW r \in Run, Providing(r) PROVE RunTypeOK'
    BY <2>5, ZenonT(60) DEF Providing, Boots, PowersOff, LeaseExpires, TwoHoursPass
  <2> QED BY <2>1, <2>2, <2>3, <2>4, <2>5 DEF RunNext
<1> QED BY <1>1, <1>2, PTL DEF RunSpec
-----------------------------------------------------------------------------
\* Why a process that is about to take the machine away may do so: the worker
\* decided on the outcome it left, the script says "done" only of passed
\* tests, and the monitor cancels only what it read and was not to keep.
DueInv ==
  \A r \in Run :
    /\ boot[r] = "delete" =>
         \/ outcome[r] = "pass"
         \/ outcome[r] = "fail" /\ (r \notin KeepOnFailure \/ old[r])
    /\ marker[r] = "done" => outcome[r] = "pass"
    /\ boot[r] \in {"none", "start", "steps", "worker"} => marker[r] = "none"
    /\ sub[r] = "cancel" => r \notin KeepOnFailure /\ marker[r] # "none"

\* DueInv is an inductive invariant of the specification.
LEMMA DueInvariant == RunSpec => []DueInv
<1>1. RunInit => DueInv
  BY DEF RunInit, DueInv
<1>2. RunTypeOK /\ DueInv /\ [RunNext]_runVars => DueInv'
  <2> SUFFICES ASSUME RunTypeOK, DueInv, [RunNext]_runVars PROVE DueInv'
    OBVIOUS
  <2> USE DEF RunTypeOK, DueInv, api, machine, script, To, Set, Halts
  <2>1. CASE UNCHANGED runVars
    BY <2>1 DEF runVars
  <2>2. ASSUME NEW r \in Run, Submitting(r) PROVE DueInv'
    <3>1. CASE SubmitReaps(r) \/ Orders(r) \/ Provisioned(r) \/ SshAnswers(r)
      BY <3>1 DEF SubmitReaps, Orders, Provisioned, SshAnswers
    <3>2. CASE ArmsTimer(r) \/ Uploads(r) \/ SubmitRaises(r) \/ SubmitDies(r)
      BY <3>2 DEF ArmsTimer, Uploads, SubmitRaises, SubmitDies
    <3>3. CASE Launches(r)
      BY <3>3 DEF Launches
    <3> QED BY <2>2, <3>1, <3>2, <3>3 DEF Submitting
  <2>3. ASSUME NEW r \in Run, Monitoring(r) PROVE DueInv'
    BY <2>3 DEF Monitoring, MonitorPolls, MonitorReads, MonitorCancels, MonitorTimesOut
  <2>4. ASSUME NEW r \in Run, OnMachine(r) PROVE DueInv'
    <3> USE DEF Bootstrap
    <3>1. CASE BootArms(r) \/ BootStartsWorker(r) \/ DeletesSelf(r)
      BY <3>1 DEF BootArms, BootStartsWorker, DeletesSelf
    <3>2. CASE BootFails(r)
      BY <3>2 DEF BootFails
    <3>3. CASE BootEnds(r)
      BY <3>3 DEF BootEnds
    <3>4. CASE KillSwitchFires(r)
      BY <3>4 DEF KillSwitchFires
    <3>5. ASSUME NEW verdict \in {"pass", "fail"}, WorkerEnds(r, verdict) PROVE DueInv'
      <4>1. PICK forced \in {FALSE, old[r]} : Bootstrap(r, "worker",
              IF verdict = "fail" /\ r \in KeepOnFailure /\ ~forced
              THEN "wrapUp" ELSE "delete")
        BY <3>5 DEF WorkerEnds
      <4>2. /\ outcome' = [outcome EXCEPT ![r] = verdict]
            /\ UNCHANGED <<sub, marker, old>>
        BY <3>5 DEF WorkerEnds
      <4>3. boot[r] = "worker" /\ marker[r] = "none" /\ sub[r] = sub'[r]
        BY <4>1, <4>2
      <4>4. boot'[r] = "delete" =>
              verdict = "pass" \/ (verdict = "fail" /\ (r \notin KeepOnFailure \/ old[r]))
        <5>1. verdict = "fail" /\ r \in KeepOnFailure /\ ~forced => boot'[r] = "wrapUp"
          BY <4>1
        <5>2. forced => old[r]
          BY <4>1
        <5> QED BY <5>1, <5>2
      <4>5. boot'[r] \in {"wrapUp", "delete"}
        BY <4>1
      <4>6. \A q \in Run : q # r => boot'[q] = boot[q] /\ outcome'[q] = outcome[q]
        BY <4>1, <4>2
      <4> QED BY <4>2, <4>3, <4>4, <4>5, <4>6
    <3> QED BY <2>4, <3>1, <3>2, <3>3, <3>4, <3>5 DEF OnMachine
  <2>5. ASSUME NEW r \in Run, Providing(r) PROVE DueInv'
    BY <2>5 DEF Providing, Boots, PowersOff, LeaseExpires, TwoHoursPass
  <2> QED BY <2>1, <2>2, <2>3, <2>4, <2>5 DEF RunNext
<1> QED BY <1>1, <1>2, RunTypeCorrect, PTL DEF RunSpec

\* No step of anybody takes a machine away that is not due: one whose tests
\* may still run, or that failed and is to be kept.
THEOREM NothingTakenEarly == RunSpec => NoneTakenEarly
<1> DEFINE Spares ==
      \A r \in Run : vm'[r] # vm[r] /\ vm'[r] \in {"halting", "cancelled"} => Due(r)
<1>1. RunTypeOK /\ DueInv /\ [RunNext]_runVars => [Spares]_runVars
  <2> SUFFICES ASSUME RunTypeOK, DueInv, RunNext PROVE Spares
    OBVIOUS
  <2> PICK r \in Run : Submitting(r) \/ Monitoring(r) \/ OnMachine(r) \/ Providing(r)
    BY DEF RunNext
  <2> USE DEF RunTypeOK, api, machine, script, To, Set, Halts
  <2>1. CASE Submitting(r)
    BY <2>1 DEF Submitting, SubmitReaps, Orders, Provisioned, SshAnswers, ArmsTimer,
                Uploads, Launches, SubmitRaises, SubmitDies, Reapable, Due
  <2>2. CASE Monitoring(r)
    BY <2>2 DEF Monitoring, MonitorPolls, MonitorReads, MonitorCancels,
                MonitorTimesOut, DueInv, Due
  <2>3. CASE OnMachine(r)
    BY <2>3 DEF OnMachine, BootArms, BootFails, BootStartsWorker, DeletesSelf, BootEnds,
                KillSwitchFires, WorkerEnds, Bootstrap, DueInv, Due
  <2>4. CASE Providing(r)
    BY <2>4 DEF Providing, Boots, PowersOff, LeaseExpires, TwoHoursPass
  <2> QED BY <2>1, <2>2, <2>3, <2>4
<1> QED BY <1>1, RunTypeCorrect, DueInvariant, PTL DEF RunSpec, NoneTakenEarly
-----------------------------------------------------------------------------
\* Who is left to end a loop machine's bill: the bootstrap arms the loop
\* before it does anything else, and a machine that is no longer on was
\* cancelled, or shut down by the one who misread the confirmation.
LoopInv ==
  \A r \in Run : Switch[r] = "loop" =>
    /\ boot[r] = "none" => ~armed[r] /\ vm[r] \notin {"halting", "off"}
    /\ boot[r] = "start" => ~armed[r] /\ vm[r] \in {"on", "cancelled"}
    /\ boot[r] \notin {"none", "start"} =>
         \/ vm[r] = "cancelled"
         \/ Misread(r) /\ vm[r] \in {"halting", "off"}
         \/ vm[r] = "on" /\ armed[r]

\* A machine with the loop is never shut down without having been cancelled,
\* except by the one who misread the confirmation, and one that is still on
\* once the bootstrap has started has its loop armed.
LoopKeepsCancelling ==
  \A r \in Run : Switch[r] = "loop" =>
    /\ vm[r] \in {"halting", "off"} => Misread(r)
    /\ vm[r] = "on" /\ boot[r] \notin {"none", "start"} => armed[r]

\* Whatever confirmation the API asks for, as long as it answers: what
\* delete_self and self_cancel leave of a machine with the loop is a cancelled
\* machine, or one whose confirmation they misread; until then the loop that
\* will end the bill is armed.
THEOREM LoopStaysCancellable ==
  ASSUME "apiDown" \notin Faults
  PROVE  RunSpec => []LoopKeepsCancelling
<1>1. RunInit => LoopInv
  BY DEF RunInit, LoopInv
<1>2. RunTypeOK /\ LoopInv /\ [RunNext]_runVars => LoopInv'
  <2> SUFFICES ASSUME RunTypeOK, LoopInv, [RunNext]_runVars PROVE LoopInv'
    OBVIOUS
  <2> USE DEF RunTypeOK, LoopInv, Misread, api, machine, script, To, Set
  <2>1. CASE UNCHANGED runVars
    BY <2>1 DEF runVars
  <2>2. ASSUME NEW r \in Run, Submitting(r) PROVE LoopInv'
    <3>1. CASE SubmitReaps(r) \/ Orders(r) \/ Provisioned(r) \/ SshAnswers(r)
      BY <3>1 DEF SubmitReaps, Orders, Provisioned, SshAnswers
    <3>2. CASE ArmsTimer(r)
      BY <3>2 DEF ArmsTimer, Legacy
    <3>3. CASE Uploads(r) \/ SubmitRaises(r) \/ SubmitDies(r)
      BY <3>3 DEF Uploads, SubmitRaises, SubmitDies
    <3>4. CASE Launches(r)
      BY <3>4 DEF Launches, Reachable
    <3> QED BY <2>2, <3>1, <3>2, <3>3, <3>4 DEF Submitting
  <2>3. ASSUME NEW r \in Run, Monitoring(r) PROVE LoopInv'
    BY <2>3 DEF Monitoring, MonitorPolls, MonitorReads, MonitorCancels, MonitorTimesOut
  <2>4. ASSUME NEW r \in Run, OnMachine(r) PROVE LoopInv'
    <3> USE DEF Bootstrap, Reachable
    <3>1. CASE BootArms(r)
      BY <3>1 DEF BootArms, Legacy
    <3>2. CASE BootFails(r) \/ BootStartsWorker(r) \/ BootEnds(r)
      BY <3>2 DEF BootFails, BootStartsWorker, BootEnds
    <3>3. CASE DeletesSelf(r)
      BY <3>3 DEF DeletesSelf, Halts, Legacy, Cancels
    <3>4. CASE KillSwitchFires(r)
      BY <3>4 DEF KillSwitchFires, Halts, Legacy, Cancels
    <3>5. ASSUME NEW verdict \in {"pass", "fail"}, WorkerEnds(r, verdict) PROVE LoopInv'
      BY <3>5 DEF WorkerEnds
    <3> QED BY <2>4, <3>1, <3>2, <3>3, <3>4, <3>5 DEF OnMachine
  <2>5. ASSUME NEW r \in Run, Providing(r) PROVE LoopInv'
    BY <2>5 DEF Providing, Boots, PowersOff, LeaseExpires, TwoHoursPass
  <2> QED BY <2>1, <2>2, <2>3, <2>4, <2>5 DEF RunNext
<1>3. RunTypeOK /\ LoopInv => LoopKeepsCancelling
  BY DEF RunTypeOK, LoopInv, LoopKeepsCancelling
<1> QED BY <1>1, <1>2, <1>3, RunTypeCorrect, PTL DEF RunSpec

(***************************************************************************)
(* Then VirtualLab, for any bound on tries and faults.  The argument is    *)
(* one invariant per command, LabParts: what stop has already taken down   *)
(* when it unlinks, what start has found reachable once it waits for the   *)
(* client, and that a router keeps its overlay because each path that      *)
(* deletes the overlay has seen the router stop first.  A command works on *)
(* its own lab only, so each step is shown to keep the parts of the lab it *)
(* works on and, by OthersKept, those of every other.                      *)
(***************************************************************************)

Reached == {"client_guard", "client_tap", "client_spawn", "client_pidfile",
            "client_pidfile_dead", "probe", "client_verify"}
Snapshots == {"create", "restore", "delete"}

CommandInv(l) ==
  /\ pc[l] # "idle" => tries[l] # 0 /\ result[l] = "none"
  /\ pc[l] \in {"check", "snapshot"} => op[l] \in Snapshots
  /\ pc[l] = "snapshot" => disk[l] # "none"

StopInv(l) ==
  /\ pc[l] = "unlink" => vms[l] = {} /\ wired[l] = {}
  /\ result[l] = "stopped" => vms[l] = {} /\ wired[l] = {} /\ links[l] = {}

ReadyInv(l) ==
  ~hit[l] => /\ pc[l] \in Reached => RouterUp(l)
             /\ result[l] = "ready" => RouterUp(l) /\ ClientUp(l)

OverlayInv(l) ==
  "orphan" \notin faults =>
    /\ "ghost" \notin vms[l]
    /\ "router" \in vms[l] => pids[l]["router"] = "live" \/ pc[l] = "pidfile"
    /\ pc[l] \in {"links", "overlay", "spawn"} => "router" \notin vms[l]
    /\ pc[l] # "pidfile_dead"

LabParts(l) == CommandInv(l) /\ StopInv(l) /\ ReadyInv(l) /\ OverlayInv(l)

LabInv ==
  TypeOK /\ \A l \in Lab : LabParts(l)

\* What a step of another lab leaves alone.
Same(m) ==
  /\ disk'[m] = disk[m] /\ vms'[m] = vms[m] /\ cup'[m] = cup[m] /\ pids'[m] = pids[m]
  /\ wired'[m] = wired[m] /\ links'[m] = links[m] /\ op'[m] = op[m] /\ pc'[m] = pc[m]
  /\ tries'[m] = tries[m] /\ result'[m] = result[m] /\ hit'[m] = hit[m]

\* A step that keeps the parts of its own lab keeps those of the labs it leaves alone.
LEMMA OthersKept ==
  ASSUME LabInv, NEW l \in Lab, TypeOK', LabParts(l)', faults \subseteq faults',
         \A m \in Lab \ {l} : Same(m)
  PROVE  LabInv'
<1>1. ASSUME NEW m \in Lab \ {l} PROVE LabParts(m)'
  <2>1. LabParts(m) /\ Same(m)
    BY DEF LabInv
  <2>2. CommandInv(m)' /\ StopInv(m)'
    BY <2>1 DEF LabParts, Same, CommandInv, StopInv
  <2>3. ReadyInv(m)'
    BY <2>1 DEF LabParts, Same, ReadyInv, RouterUp, ClientUp
  <2>4. OverlayInv(m)'
    BY <2>1 DEF LabParts, Same, OverlayInv
  <2> QED BY <2>2, <2>3, <2>4 DEF LabParts
<1> QED BY <1>1 DEF LabInv

\* A command that goes on after looking only.
LEMMA GotoKeeps ==
  ASSUME LabInv, NEW l \in Lab, pc[l] # "idle", NEW s \in Places \ {"idle", "unlink", "check"},
         Goto(l, s),
         UNCHANGED <<files, machines, links, command, tries, faults, notes>>,
         s = "snapshot" => disk[l] # "none" /\ op[l] \in Snapshots,
         s \in Reached /\ ~hit[l] => RouterUp(l),
         "orphan" \notin faults =>
           /\ pc[l] # "pidfile"
           /\ s \in {"links", "overlay", "spawn"} => "router" \notin vms[l]
           /\ s # "pidfile_dead"
  PROVE  LabInv'
<1>1. /\ pc' = [pc EXCEPT ![l] = s] /\ UNCHANGED result
      /\ UNCHANGED <<base, disk, snaps, cdisk, vms, console, cup, pids, wired, links,
                     op, count, tries, faults, hit, fleeting>>
  BY DEF Goto, files, machines, command, notes
<1>2. TypeOK'
  BY <1>1 DEF LabInv, TypeOK
<1>3. pc'[l] = s /\ \A m \in Lab \ {l} : Same(m)
  BY <1>1 DEF LabInv, TypeOK, Same
<1>4. LabParts(l)
  BY DEF LabInv
<1>5. CommandInv(l)' /\ StopInv(l)'
  BY <1>1, <1>3, <1>4 DEF LabParts, CommandInv, StopInv, Reached
<1>6. ReadyInv(l)'
  BY <1>1, <1>3, <1>4 DEF LabParts, ReadyInv, RouterUp, ClientUp
<1>7. OverlayInv(l)'
  BY <1>1, <1>3, <1>4 DEF LabParts, OverlayInv
<1> QED BY <1>1, <1>2, <1>3, <1>5, <1>6, <1>7, OthersKept DEF LabParts

\* A command that ends without having changed the machines.
LEMMA EndKeeps ==
  ASSUME LabInv, NEW l \in Lab, NEW r \in {"failed", "cut", "ready", "done"}, End(l, r),
         UNCHANGED <<files, machines, links, command, tries, notes>>,
         faults' \subseteq {"cut", "orphan", "dies"}, faults \subseteq faults',
         "orphan" \notin faults' => pc[l] # "pidfile",
         r = "ready" /\ ~hit[l] => RouterUp(l) /\ ClientUp(l)
  PROVE  LabInv'
<1>1. /\ pc' = [pc EXCEPT ![l] = "idle"] /\ result' = [result EXCEPT ![l] = r]
      /\ UNCHANGED <<base, disk, snaps, cdisk, vms, console, cup, pids, wired, links,
                     op, count, tries, hit, fleeting>>
  BY DEF End, files, machines, command, notes
<1>2. TypeOK'
  BY <1>1 DEF LabInv, TypeOK, Places
<1>3. pc'[l] = "idle" /\ result'[l] = r /\ \A m \in Lab \ {l} : Same(m)
  BY <1>1 DEF LabInv, TypeOK, Same
<1>4. LabParts(l)
  BY DEF LabInv
<1>5. CommandInv(l)' /\ StopInv(l)'
  BY <1>1, <1>3, <1>4 DEF LabParts, CommandInv, StopInv, Reached
<1>6. ReadyInv(l)'
  BY <1>1, <1>3, <1>4 DEF LabParts, ReadyInv, RouterUp, ClientUp, Reached
<1>7. OverlayInv(l)'
  BY <1>1, <1>3, <1>4 DEF LabParts, OverlayInv
<1> QED BY <1>2, <1>3, <1>5, <1>6, <1>7, OthersKept DEF LabParts

\* The steps that look and go on or stop.
LEMMA LookingKeeps ==
  ASSUME LabInv, NEW l \in Lab,
         \/ Guard(l) \/ Verify(l) \/ ClientGuard(l) \/ Probe(l) \/ ClientVerify(l)
         \/ CheckSnapshot(l) \/ CutOff(l)
         \/ Fails(l, {"guard", "links", "overlay", "provision", "verify", "client_tap",
                      "probe", "client_verify"})
  PROVE  LabInv'
<1>1. LabParts(l) /\ faults \subseteq {"cut", "orphan", "dies"}
  BY DEF LabInv, TypeOK
<1>2. CASE Guard(l)
  <2>1. pc[l] = "guard" /\ UNCHANGED <<files, machines, links, command, tries, faults, notes>>
    BY <1>2 DEF Guard
  <2>2. CASE pids[l]["router"] # "live" /\ Goto(l, "links")
    BY <1>1, <2>1, <2>2, GotoKeeps DEF Places, Reached, LabParts, OverlayInv
  <2>3. CASE Goto(l, "provision")
    BY <1>1, <2>1, <2>3, GotoKeeps DEF Places, Reached
  <2>4. CASE End(l, "failed")
    BY <1>1, <2>1, <2>4, EndKeeps
  <2> QED BY <1>2, <2>2, <2>3, <2>4 DEF Guard
<1>3. CASE Verify(l)
  BY <1>1, <1>3, GotoKeeps DEF Verify, Places
<1>4. CASE ClientGuard(l)
  <2>1. /\ pc[l] = "client_guard"
        /\ UNCHANGED <<files, machines, links, command, tries, faults, notes>>
    BY <1>4 DEF ClientGuard
  <2>2. ~hit[l] => RouterUp(l)
    BY <1>1, <2>1 DEF LabParts, ReadyInv, Reached
  <2>3. CASE \E s \in {"probe", "client_tap"} : Goto(l, s)
    BY <1>1, <2>1, <2>2, <2>3, GotoKeeps DEF Places
  <2>4. CASE End(l, "failed")
    BY <1>1, <2>1, <2>4, EndKeeps
  <2> QED BY <1>4, <2>3, <2>4 DEF ClientGuard
<1>5. CASE Probe(l)
  <2>1. /\ pc[l] = "probe"
        /\ UNCHANGED <<files, machines, links, command, tries, faults, notes>>
    BY <1>5 DEF Probe
  <2>2. ~hit[l] => RouterUp(l)
    BY <1>1, <2>1 DEF LabParts, ReadyInv, Reached
  <2>3. CASE Goto(l, "client_verify")
    BY <1>1, <2>1, <2>2, <2>3, GotoKeeps DEF Places
  <2>4. CASE End(l, "failed")
    BY <1>1, <2>1, <2>4, EndKeeps
  <2> QED BY <1>5, <2>3, <2>4 DEF Probe
<1>6. CASE ClientVerify(l)
  <2>1. /\ pc[l] = "client_verify" /\ ClientUp(l) /\ End(l, "ready")
        /\ UNCHANGED <<files, machines, links, command, tries, faults, notes>>
    BY <1>6 DEF ClientVerify
  <2>2. ~hit[l] => RouterUp(l)
    BY <1>1, <2>1 DEF LabParts, ReadyInv, Reached
  <2> QED BY <1>1, <2>1, <2>2, EndKeeps
<1>7. CASE CheckSnapshot(l)
  <2>1. /\ pc[l] = "check"
        /\ UNCHANGED <<files, machines, links, command, tries, faults, notes>>
        /\ End(l, "failed") \/ (disk[l] # "none" /\ Goto(l, "snapshot"))
    BY <1>7 DEF CheckSnapshot
  <2>2. op[l] \in Snapshots
    BY <1>1, <2>1 DEF LabParts, CommandInv
  <2>3. CASE disk[l] # "none" /\ Goto(l, "snapshot")
    BY <1>1, <2>1, <2>2, <2>3, GotoKeeps DEF Places, Reached
  <2>4. CASE End(l, "failed")
    BY <1>1, <2>1, <2>4, EndKeeps
  <2> QED BY <2>1, <2>3, <2>4
<1>8. CASE CutOff(l)
  BY <1>1, <1>8, EndKeeps DEF CutOff, Fault
<1>9. CASE Fails(l, {"guard", "links", "overlay", "provision", "verify", "client_tap",
                     "probe", "client_verify"})
  BY <1>1, <1>9, EndKeeps DEF Fails
<1> QED BY <1>2, <1>3, <1>4, <1>5, <1>6, <1>7, <1>8, <1>9

\* Where a command begins.
LEMMA FirstStepIsNext ==
  ASSUME NEW o \in AllOps
  PROVE  /\ FirstStep(o) \in {"guard", "kill_client", "check", "image", "debian", "extras",
                              "install"}
         /\ FirstStep(o) = "check" => o \in Snapshots
BY DEF FirstStep, AllOps, StartOps, Snapshots

\* A command is given to a lab that runs none.
LEMMA CommandKeeps ==
  ASSUME LabInv, NEW l \in Lab, Command(l)
  PROVE  LabInv'
<1>1. PICK o \in AllOps : /\ op' = [op EXCEPT ![l] = o]
                          /\ pc' = [pc EXCEPT ![l] = FirstStep(o)]
  BY OpsAreOps DEF Command
<1>2. /\ pc[l] = "idle" /\ count' = [count EXCEPT ![l] = @ + 1]
      /\ tries' = [tries EXCEPT ![l] = Attempts]
      /\ result' = [result EXCEPT ![l] = "none"]
      /\ hit' = [hit EXCEPT ![l] = FALSE]
      /\ UNCHANGED <<base, disk, snaps, cdisk, vms, console, cup, pids, wired, links,
                     faults, fleeting>>
  BY DEF Command, files, machines
<1>3. /\ FirstStep(o) \in {"guard", "kill_client", "check", "image", "debian", "extras",
                           "install"}
      /\ FirstStep(o) = "check" => o \in Snapshots
  BY FirstStepIsNext
<1>4. TypeOK'
  BY <1>1, <1>2, <1>3, BoundsAreNumbers DEF LabInv, TypeOK, Places
<1>5. /\ pc'[l] = FirstStep(o) /\ op'[l] = o /\ result'[l] = "none" /\ tries'[l] = Attempts
      /\ \A m \in Lab \ {l} : Same(m)
  BY <1>1, <1>2 DEF LabInv, TypeOK, Same
<1>6. LabParts(l)
  BY DEF LabInv
<1>7. CommandInv(l)' /\ StopInv(l)'
  BY <1>3, <1>5, BoundsAreNumbers DEF CommandInv, StopInv
<1>8. ReadyInv(l)'
  BY <1>3, <1>5 DEF ReadyInv, Reached
<1>9. OverlayInv(l)'
  BY <1>2, <1>3, <1>5, <1>6 DEF LabParts, OverlayInv
<1> QED BY <1>2, <1>4, <1>5, <1>7, <1>8, <1>9, OthersKept DEF LabParts

\* start makes its bridges and taps.
LEMMA MakeLinksKeeps ==
  ASSUME LabInv, NEW l \in Lab, MakeLinks(l)
  PROVE  LabInv'
<1>1. PICK made \in SUBSET {"bridge", "tap", "ctap"}, s \in {"overlay", "idle"},
           r \in {result[l], "failed"} :
      /\ pc[l] = "links" /\ links' = [links EXCEPT ![l] = made]
      /\ wired' = [wired EXCEPT ![l] = {}] /\ pc' = [pc EXCEPT ![l] = s]
      /\ result' = [result EXCEPT ![l] = r] /\ (s = "overlay" => r = result[l])
      /\ (s = "idle" => r = "failed")
      /\ UNCHANGED <<base, disk, snaps, cdisk, vms, console, cup, pids, op, count, tries,
                     faults, hit, fleeting>>
  <2>1. result = [result EXCEPT ![l] = result[l]]
    BY DEF LabInv, TypeOK
  <2> QED BY <2>1 DEF MakeLinks, Goto, End, files, command, notes
<1>4. LabParts(l)
  BY DEF LabInv
<1>2. TypeOK'
  BY <1>1 DEF LabInv, TypeOK, Places
<1>3. pc'[l] = s /\ result'[l] = r /\ \A m \in Lab \ {l} : Same(m)
  BY <1>1 DEF LabInv, TypeOK, Same
<1>5. LabParts(l)'
  BY <1>1, <1>3, <1>4 DEF LabParts, CommandInv, StopInv, ReadyInv, OverlayInv, Reached
<1> QED BY <1>1, <1>2, <1>3, <1>5, OthersKept

\* start makes a new overlay: no router runs on the old one.
LEMMA OverlayKeeps ==
  ASSUME LabInv, NEW l \in Lab, Overlay(l)
  PROVE  LabInv'
<1>1. PICK d \in {"none", "base"}, s \in {"spawn", "idle"}, r \in {result[l], "failed"} :
      /\ pc[l] = "overlay" /\ pc' = [pc EXCEPT ![l] = s]
      /\ result' = [result EXCEPT ![l] = r] /\ (s = "spawn" => r = result[l])
      /\ (s = "idle" => r = "failed")
      /\ \/ /\ disk' = [disk EXCEPT ![l] = d] /\ snaps' = [snaps EXCEPT ![l] = {}]
            /\ vms' = [vms EXCEPT ![l] = IF "router" \in @ THEN (@ \ {"router"}) \cup {"ghost"}
                                         ELSE @]
         \/ UNCHANGED <<disk, snaps, vms>>
      /\ UNCHANGED <<base, cdisk, console, cup, pids, wired, links, op, count, tries,
                     faults, hit, fleeting>>
  <2>1. result = [result EXCEPT ![l] = result[l]]
    BY DEF LabInv, TypeOK
  <2> QED BY <2>1 DEF Overlay, Goto, End, command, notes
<1>2. TypeOK'
  <2>1. vms' \in [Lab -> SUBSET (Kinds \cup {"ghost"})]
    <3>1. /\ vms \in [Lab -> SUBSET (Kinds \cup {"ghost"})]
          /\ (vms[l] \ {"router"}) \cup {"ghost"} \subseteq Kinds \cup {"ghost"}
      BY DEF LabInv, TypeOK
    <3>2. \/ UNCHANGED vms
          \/ vms' = [vms EXCEPT ![l] = IF "router" \in @ THEN (@ \ {"router"}) \cup {"ghost"}
                                       ELSE @]
      BY <1>1
    <3>3. CASE UNCHANGED vms
      BY <3>1, <3>3
    <3>4. CASE vms' = [vms EXCEPT ![l] = IF "router" \in @ THEN (@ \ {"router"}) \cup {"ghost"}
                                         ELSE @]
      BY <3>1, <3>4
    <3> QED BY <3>2, <3>3, <3>4
  <2>2. /\ disk' \in [Lab -> {"none", "base", "half", "used", "served"}]
        /\ snaps' \in [Lab -> SUBSET {"base", "half", "used", "served"}]
    <3>1. /\ disk \in [Lab -> {"none", "base", "half", "used", "served"}]
          /\ snaps \in [Lab -> SUBSET {"base", "half", "used", "served"}]
      BY DEF LabInv, TypeOK
    <3>2. CASE disk' = [disk EXCEPT ![l] = d] /\ snaps' = [snaps EXCEPT ![l] = {}]
      BY <3>1, <3>2
    <3>3. CASE UNCHANGED <<disk, snaps>>
      BY <3>1, <3>3
    <3> QED BY <1>1, <3>2, <3>3
  <2> QED BY <1>1, <2>1, <2>2 DEF LabInv, TypeOK, Places
<1>3. /\ pc'[l] = s /\ result'[l] = r /\ \A m \in Lab \ {l} : Same(m)
      /\ "router" \notin vms[l] => vms'[l] = vms[l]
  BY <1>1 DEF LabInv, TypeOK, Same
<1>4. LabParts(l)
  BY DEF LabInv
<1>5. CommandInv(l)' /\ StopInv(l)' /\ ReadyInv(l)'
  BY <1>1, <1>3, <1>4 DEF LabParts, CommandInv, StopInv, ReadyInv, Reached
<1>6. OverlayInv(l)'
  BY <1>1, <1>3, <1>4 DEF LabParts, OverlayInv
<1> QED BY <1>1, <1>2, <1>3, <1>5, <1>6, OthersKept DEF LabParts

\* start spawns the router.
LEMMA SpawnKeeps ==
  ASSUME LabInv, NEW l \in Lab, Spawn(l)
  PROVE  LabInv'
<1>1. LabParts(l) /\ pc[l] = "spawn"
  BY DEF LabInv, Spawn
<1>2. CASE "router" \in vms[l]
  BY <1>1, <1>2, GotoKeeps DEF Spawn, LabParts, OverlayInv, Places, Reached
<1>3. CASE "router" \notin vms[l]
  <2>1. /\ vms' = [vms EXCEPT ![l] = @ \cup {"router"}]
        /\ wired' = [wired EXCEPT ![l] = @ \cup {"router"}]
        /\ console' = [console EXCEPT ![l] = "boot"]
        /\ pc' = [pc EXCEPT ![l] = "pidfile"]
        /\ UNCHANGED <<base, disk, snaps, cdisk, cup, pids, links, op, count, tries,
                       result, faults, hit, fleeting>>
    BY <1>3 DEF Spawn, Goto, files, command, notes
  <2>2. TypeOK'
    BY <2>1 DEF LabInv, TypeOK, Places, Kinds
  <2>3. /\ pc'[l] = "pidfile" /\ vms'[l] = vms[l] \cup {"router"}
        /\ \A m \in Lab \ {l} : Same(m)
    BY <2>1 DEF LabInv, TypeOK, Same
  <2>4. CommandInv(l)' /\ StopInv(l)' /\ ReadyInv(l)' /\ OverlayInv(l)'
    BY <1>1, <2>1, <2>3 DEF LabParts, CommandInv, StopInv, ReadyInv, OverlayInv, Reached
  <2> QED BY <2>1, <2>2, <2>3, <2>4, OthersKept DEF LabParts
<1> QED BY <1>2, <1>3

\* start reads the pid file of the router it spawned.
LEMMA PidFileKeeps ==
  ASSUME LabInv, NEW l \in Lab, PidFile(l)
  PROVE  LabInv'
<1>1. /\ pc[l] \in {"pidfile", "pidfile_dead"} /\ pc' = [pc EXCEPT ![l] = "provision"]
      /\ pids' = [pids EXCEPT ![l]["router"] =
                    IF pc[l] = "pidfile" /\ "router" \in vms[l] THEN "live" ELSE "dead"]
      /\ UNCHANGED <<base, disk, snaps, cdisk, vms, console, cup, wired, links, op, count,
                     tries, result, faults, hit, fleeting>>
  BY DEF PidFile, Goto, files, command, notes
<1>2. TypeOK'
  <2>1. pids' \in [Lab -> [Kinds -> {"none", "live", "dead"}]]
    BY <1>1 DEF LabInv, TypeOK
  <2> QED BY <1>1, <2>1 DEF LabInv, TypeOK, Places
<1>3. /\ pc'[l] = "provision" /\ \A m \in Lab \ {l} : Same(m)
      /\ pids'[l]["router"] =
           IF pc[l] = "pidfile" /\ "router" \in vms[l] THEN "live" ELSE "dead"
  BY <1>1 DEF LabInv, TypeOK, Same, Kinds
<1>4. LabParts(l)
  BY DEF LabInv
<1>5. CommandInv(l)' /\ StopInv(l)' /\ ReadyInv(l)' /\ OverlayInv(l)'
  BY <1>1, <1>3, <1>4 DEF LabParts, CommandInv, StopInv, ReadyInv, OverlayInv, Reached
<1> QED BY <1>1, <1>2, <1>3, <1>5, OthersKept DEF LabParts

\* The router is provisioned, and from here on reachable.
LEMMA ProvisionKeeps ==
  ASSUME LabInv, NEW l \in Lab, Provision(l)
  PROVE  LabInv'
<1> DEFINE Disks == {"none", "base", "half", "used", "served"}
           Ends == {"none", "failed", "cut", "ready", "stopped", "done"}
<1>1. /\ pc[l] = "provision"
      /\ UNCHANGED <<base, snaps, cdisk, vms, cup, pids, wired, links, op, count, faults,
                     hit, fleeting>>
  BY DEF Provision, command, notes
<1>2. /\ console' \in [Lab -> {"boot", "shell"}]
      /\ disk' \in [Lab -> Disks] /\ \A m \in Lab \ {l} : disk'[m] = disk[m]
  <2>1. /\ console \in [Lab -> {"boot", "shell"}] /\ disk \in [Lab -> Disks]
    BY DEF LabInv, TypeOK
  <2>2. console' = console \/ console' = [console EXCEPT ![l] = "shell"]
    BY DEF Provision
  <2>3. \/ disk' = disk
        \/ disk' = [disk EXCEPT ![l] = IF Configured(@) THEN @ ELSE "used"]
        \/ disk' = [disk EXCEPT ![l] = IF Configured(@) THEN @ ELSE "half"]
    BY DEF Provision, Configures
  <2>4. console' \in [Lab -> {"boot", "shell"}]
    BY <2>1, <2>2
  <2>5. PICK v \in Disks : disk' = [disk EXCEPT ![l] = v]
    <3>1. disk[l] \in Disks /\ disk = [disk EXCEPT ![l] = disk[l]]
      BY <2>1
    <3> QED BY <2>3, <3>1
  <2>6. disk' \in [Lab -> Disks] /\ \A m \in Lab \ {l} : disk'[m] = disk[m]
    BY <2>1, <2>5
  <2> QED BY <2>4, <2>6
<1>3. LabParts(l) /\ tries[l] \in 1 .. Attempts
  BY <1>1, BoundsAreNumbers DEF LabInv, LabParts, CommandInv, TypeOK
<1>4. /\ \/ pc' = [pc EXCEPT ![l] = "idle"] /\ result' = [result EXCEPT ![l] = "failed"]
         \/ /\ \E s \in {"verify", "provision"} : pc' = [pc EXCEPT ![l] = s]
            /\ result' = result /\ tries'[l] # 0
      /\ tries' \in [Lab -> 0 .. Attempts] /\ \A m \in Lab \ {l} : tries'[m] = tries[m]
  <2>1. tries \in [Lab -> 0 .. Attempts] /\ tries[l] - 1 \in 0 .. Attempts
    BY <1>3, BoundsAreNumbers DEF LabInv, TypeOK
  <2>2. CASE Goto(l, "verify") /\ UNCHANGED tries
    BY <1>3, <2>1, <2>2, BoundsAreNumbers DEF Goto
  <2>3. CASE tries' = [tries EXCEPT ![l] = @ - 1]
    <3>1. /\ tries' \in [Lab -> 0 .. Attempts] /\ \A m \in Lab \ {l} : tries'[m] = tries[m]
          /\ tries'[l] = tries[l] - 1
      BY <2>1, <2>3
    <3>2. CASE Goto(l, "provision") /\ tries[l] > 1
      BY <1>3, <3>1, <3>2, BoundsAreNumbers DEF Goto
    <3>3. CASE End(l, "failed")
      <4>1. pc' = [pc EXCEPT ![l] = "idle"] /\ result' = [result EXCEPT ![l] = "failed"]
        BY <3>3 DEF End
      <4> QED BY <3>1, <4>1
    <3>4. \/ Goto(l, "verify") /\ UNCHANGED tries
          \/ Goto(l, "provision") /\ tries[l] > 1
          \/ End(l, "failed")
      BY DEF Provision
    <3> QED BY <2>2, <3>2, <3>3, <3>4
  <2> QED BY <2>2, <2>3 DEF Provision
<1>5. /\ pc' \in [Lab -> Places] /\ result' \in [Lab -> Ends]
      /\ \A m \in Lab \ {l} : pc'[m] = pc[m] /\ result'[m] = result[m]
      /\ \/ pc'[l] = "idle" /\ result'[l] = "failed"
         \/ pc'[l] \in {"verify", "provision"} /\ result'[l] = result[l] /\ tries'[l] # 0
  <2>1. /\ pc \in [Lab -> Places] /\ result \in [Lab -> Ends]
        /\ {"idle", "verify", "provision"} \subseteq Places
    BY DEF LabInv, TypeOK, Places
  <2>2. CASE pc' = [pc EXCEPT ![l] = "idle"] /\ result' = [result EXCEPT ![l] = "failed"]
    BY <2>1, <2>2
  <2>3. CASE /\ \E s \in {"verify", "provision"} : pc' = [pc EXCEPT ![l] = s]
             /\ result' = result /\ tries'[l] # 0
    BY <2>1, <2>3
  <2> QED BY <1>4, <2>2, <2>3
<1>6. TypeOK'
  BY <1>1, <1>2, <1>4, <1>5 DEF LabInv, TypeOK
<1>7. \A m \in Lab \ {l} : Same(m)
  BY <1>1, <1>2, <1>4, <1>5 DEF Same
<1>8. CommandInv(l)' /\ StopInv(l)' /\ ReadyInv(l)' /\ OverlayInv(l)'
  BY <1>1, <1>3, <1>5 DEF LabParts, CommandInv, StopInv, ReadyInv, OverlayInv, Reached
<1> QED BY <1>1, <1>6, <1>7, <1>8, OthersKept DEF LabParts

\* The steps of the client's start keep what the router's has reached.
LEMMA ClientStartKept ==
  ASSUME LabInv, NEW l \in Lab, TypeOK', \A m \in Lab \ {l} : Same(m),
         pc[l] \in Reached, pc'[l] \in Reached, UNCHANGED <<faults, disk, tries, result, hit>>,
         links[l] \subseteq links'[l], wired[l] \subseteq wired'[l],
         "router" \in vms'[l] => "router" \in vms[l], "ghost" \in vms'[l] => "ghost" \in vms[l],
         pids'[l]["router"] = pids[l]["router"]
  PROVE  LabInv'
<1>1. LabParts(l)
  BY DEF LabInv
<1>2. CommandInv(l)' /\ StopInv(l)'
  BY <1>1 DEF LabParts, CommandInv, StopInv, Reached
<1>3. ReadyInv(l)'
  BY <1>1 DEF LabParts, CommandInv, ReadyInv, RouterUp, Reached
<1>4. OverlayInv(l)'
  <2>1. /\ pc[l] # "pidfile" /\ pc'[l] # "pidfile" /\ pc'[l] # "pidfile_dead"
        /\ pc'[l] \notin {"links", "overlay", "spawn"}
    BY DEF Reached
  <2> QED BY <1>1, <2>1 DEF LabParts, OverlayInv
<1> QED BY <1>2, <1>3, <1>4, OthersKept DEF LabParts

\* The client gets its tap.
LEMMA ClientTapKeeps ==
  ASSUME LabInv, NEW l \in Lab, ClientTap(l)
  PROVE  LabInv'
<1>1. /\ pc[l] = "client_tap" /\ links' = [links EXCEPT ![l] = @ \cup {"ctap"}]
      /\ UNCHANGED <<base, disk, snaps, cdisk, vms, console, cup, pids, wired, op, count, tries,
                     faults, hit, fleeting>>
      /\ Goto(l, "client_spawn") \/ End(l, "failed")
  BY DEF ClientTap, files, machines, command, notes
<1>2. CASE Goto(l, "client_spawn")
  <2>1. pc' = [pc EXCEPT ![l] = "client_spawn"] /\ UNCHANGED result
    BY <1>2 DEF Goto
  <2>2. TypeOK'
    BY <1>1, <2>1 DEF LabInv, TypeOK, Places
  <2>3. /\ pc'[l] = "client_spawn" /\ links[l] \subseteq links'[l]
        /\ \A m \in Lab \ {l} : Same(m)
    BY <1>1, <2>1 DEF LabInv, TypeOK, Same
  <2> QED BY <1>1, <2>1, <2>2, <2>3, ClientStartKept DEF Reached
<1>3. CASE End(l, "failed")
  <2>1. pc' = [pc EXCEPT ![l] = "idle"] /\ result' = [result EXCEPT ![l] = "failed"]
    BY <1>3 DEF End
  <2>2. TypeOK'
    BY <1>1, <2>1 DEF LabInv, TypeOK, Places
  <2>3. pc'[l] = "idle" /\ result'[l] = "failed" /\ \A m \in Lab \ {l} : Same(m)
    BY <1>1, <2>1 DEF LabInv, TypeOK, Same
  <2>4. LabParts(l)
    BY DEF LabInv
  <2>5. CommandInv(l)' /\ StopInv(l)' /\ ReadyInv(l)' /\ OverlayInv(l)'
    BY <1>1, <2>3, <2>4 DEF LabParts, CommandInv, StopInv, ReadyInv, OverlayInv, Reached
  <2> QED BY <1>1, <2>2, <2>3, <2>5, OthersKept DEF LabParts
<1> QED BY <1>1, <1>2, <1>3

\* The client is spawned.
LEMMA ClientSpawnKeeps ==
  ASSUME LabInv, NEW l \in Lab, ClientSpawn(l)
  PROVE  LabInv'
<1>1. pc[l] = "client_spawn" /\ LabParts(l)
  BY DEF ClientSpawn, LabInv
<1>2. CASE "client" \in vms[l] \/ "ctap" \notin links[l]
  <2>1. Goto(l, "client_pidfile_dead") /\ pc'[l] = "client_pidfile_dead"
    BY <1>2 DEF ClientSpawn, Goto, LabInv, TypeOK
  <2>2. fleeting' = fleeting
    BY <2>1 DEF ClientSpawn, LabInv, TypeOK
  <2>3. ~hit[l] => RouterUp(l)
    BY <1>1 DEF LabParts, ReadyInv, Reached
  <2> QED BY <1>1, <1>2, <2>1, <2>2, <2>3, GotoKeeps DEF ClientSpawn, Places, notes
<1>3. CASE ~("client" \in vms[l] \/ "ctap" \notin links[l])
  <2>1. /\ pc' = [pc EXCEPT ![l] = "client_pidfile"]
        /\ vms' = [vms EXCEPT ![l] = @ \cup {"client"}]
        /\ wired' = [wired EXCEPT ![l] = @ \cup {"client"}]
        /\ cup' = [cup EXCEPT ![l] = IF cdisk[l] = "fresh" THEN "raw" ELSE "up"]
        /\ UNCHANGED <<base, disk, snaps, cdisk, console, pids, links, op, count, tries,
                       result, faults, hit>>
    BY <1>3 DEF ClientSpawn, Goto, files, command
  <2>2. fleeting' = [fleeting EXCEPT ![l] = op[l] = "ephemeral"]
    BY <2>1 DEF ClientSpawn, LabInv, TypeOK
  <2>3. fleeting' \in [Lab -> BOOLEAN]
    BY <2>2 DEF LabInv, TypeOK
  <2>4. TypeOK'
    BY <2>1, <2>3 DEF LabInv, TypeOK, Places, Kinds
  <2>5. /\ pc'[l] = "client_pidfile" /\ vms'[l] = vms[l] \cup {"client"}
        /\ wired[l] \subseteq wired'[l] /\ \A m \in Lab \ {l} : Same(m)
    BY <2>1 DEF LabInv, TypeOK, Same
  <2> QED BY <1>1, <2>1, <2>4, <2>5, ClientStartKept DEF Reached
<1> QED BY <1>2, <1>3

\* The pid file of the client is read.
LEMMA ClientPidFileKeeps ==
  ASSUME LabInv, NEW l \in Lab, ClientPidFile(l)
  PROVE  LabInv'
<1>1. /\ pc[l] \in {"client_pidfile", "client_pidfile_dead"}
      /\ pc' = [pc EXCEPT ![l] = "probe"]
      /\ UNCHANGED <<base, disk, snaps, cdisk, vms, console, cup, wired, links, op, count, tries,
                     result, faults, hit, fleeting>>
  BY DEF ClientPidFile, Goto, files, command, notes
<1>2. PICK p \in {"live", "dead"} : pids' = [pids EXCEPT ![l]["client"] = p]
  BY DEF ClientPidFile
<1>3. /\ pids' \in [Lab -> [Kinds -> {"none", "live", "dead"}]]
      /\ pids'[l]["router"] = pids[l]["router"] /\ \A m \in Lab \ {l} : pids'[m] = pids[m]
  BY <1>2 DEF LabInv, TypeOK, Kinds
<1>4. TypeOK'
  BY <1>1, <1>3 DEF LabInv, TypeOK, Places
<1>5. pc'[l] = "probe" /\ \A m \in Lab \ {l} : Same(m)
  BY <1>1, <1>3 DEF LabInv, TypeOK, Same
<1> QED BY <1>1, <1>3, <1>4, <1>5, ClientStartKept DEF Reached

\* The client is set up.
LEMMA ClientInitKeeps ==
  ASSUME LabInv, NEW l \in Lab, ClientInit(l)
  PROVE  LabInv'
<1>1. /\ cup' = [cup EXCEPT ![l] = "up"] /\ cdisk' = [cdisk EXCEPT ![l] = "ready"]
      /\ UNCHANGED <<base, disk, snaps, vms, console, pids, wired, links, op, count, pc,
                     tries, result, faults, hit, fleeting>>
  BY DEF ClientInit, command, notes
<1>2. TypeOK'
  BY <1>1 DEF LabInv, TypeOK
<1>3. cup'[l] = "up" /\ \A m \in Lab \ {l} : Same(m)
  BY <1>1 DEF LabInv, TypeOK, Same
<1>4. LabParts(l)'
  BY <1>1, <1>3 DEF LabInv, LabParts, CommandInv, StopInv, ReadyInv, OverlayInv, RouterUp,
     ClientUp
<1> QED BY <1>1, <1>2, <1>3, <1>4, OthersKept

\* Machines of one lab go: the router's image is the poorer for it, no other's.
LEMMA GoneIsLocal ==
  ASSUME TypeOK, NEW L, NEW K, Gone(L, K)
  PROVE  /\ vms' \in [Lab -> SUBSET (Kinds \cup {"ghost"})] /\ wired' \in [Lab -> SUBSET Kinds]
         /\ \A l \in Lab \cap L : vms'[l] = vms[l] \ K /\ wired'[l] = wired[l] \ K
         /\ \A l \in Lab \ L : vms'[l] = vms[l] /\ wired'[l] = wired[l]
BY DEF TypeOK, Gone

\* A kill by pid changes the pids of the labs and kinds it names only.
LEMMA KilledIsLocal ==
  ASSUME TypeOK, NEW L, NEW K, pids' = Killed(L, K)
  PROVE  /\ pids' \in [Lab -> [Kinds -> {"none", "live", "dead"}]]
         /\ \A l \in Lab \ L : pids'[l] = pids[l]
         /\ \A l \in Lab, k \in Kinds : k \notin K => pids'[l][k] = pids[l][k]
BY DEF TypeOK, Killed

\* stop kills what its pid files name.
LEMMA KillKeeps ==
  ASSUME LabInv, NEW l \in Lab, KillClient(l) \/ KillRouter(l)
  PROVE  LabInv'
<1>1. PICK k \in Kinds, s \in {"kill_router", "sweep"} :
        /\ pc' = [pc EXCEPT ![l] = s] /\ (k = "router" <=> s = "sweep")
        /\ pc[l] \in {"kill_client", "kill_router"}
        /\ IF pids[l][k] = "live" THEN Gone({l}, {k}) ELSE UNCHANGED <<vms, wired>>
        /\ pids' = [pids EXCEPT ![l][k] = "none"]
        /\ UNCHANGED <<base, disk, snaps, cdisk, console, cup, links, op, count, tries,
                       result, faults, hit, fleeting>>
  BY DEF KillClient, KillRouter, Kill, Goto, files, command, notes, Kinds
<1>2. LabParts(l) /\ TypeOK
  BY DEF LabInv
<1>3. /\ vms' \in [Lab -> SUBSET (Kinds \cup {"ghost"})] /\ wired' \in [Lab -> SUBSET Kinds]
      /\ \A m \in Lab \ {l} : vms'[m] = vms[m] /\ wired'[m] = wired[m]
      /\ vms'[l] \subseteq vms[l] /\ (pids[l][k] = "live" => k \notin vms'[l])
  <2>1. CASE pids[l][k] = "live"
    BY <1>1, <1>2, <2>1, GoneIsLocal
  <2>2. CASE pids[l][k] # "live"
    BY <1>1, <1>2, <2>2 DEF TypeOK
  <2> QED BY <2>1, <2>2
<1>4. /\ pids' \in [Lab -> [Kinds -> {"none", "live", "dead"}]]
      /\ \A m \in Lab \ {l} : pids'[m] = pids[m]
      /\ k = "client" => pids'[l]["router"] = pids[l]["router"]
  BY <1>1, <1>2 DEF TypeOK, Kinds
<1>5. TypeOK'
  BY <1>1, <1>2, <1>3, <1>4 DEF TypeOK, Places
<1>6. pc'[l] = s /\ \A m \in Lab \ {l} : Same(m)
  BY <1>1, <1>2, <1>3, <1>4 DEF TypeOK, Same
<1>7. CommandInv(l)' /\ StopInv(l)' /\ ReadyInv(l)'
  BY <1>1, <1>2, <1>6 DEF LabParts, CommandInv, StopInv, ReadyInv, Reached
<1>8. OverlayInv(l)'
  BY <1>1, <1>2, <1>3, <1>4, <1>6 DEF LabParts, OverlayInv, Kinds
<1> QED BY <1>1, <1>5, <1>6, <1>7, <1>8, OthersKept DEF LabParts

\* The sweep empties every lab, and those it does not belong to are hit.
LEMMA SweepKeeps ==
  ASSUME LabInv, NEW l \in Lab, Sweep(l)
  PROVE  LabInv'
<1>1. /\ pc[l] = "sweep" /\ pc' = [pc EXCEPT ![l] = "unlink"]
      /\ Gone(Lab, Kinds \cup {"ghost"}) /\ pids' = Killed(Lab, Kinds)
      /\ hit' = [m \in Lab |-> m # l \/ hit[m]]
      /\ UNCHANGED <<base, disk, snaps, cdisk, console, cup, links, op, count, tries,
                     result, faults, fleeting>>
  BY DEF Sweep, Goto, files, command
<1>2. TypeOK
  BY DEF LabInv
<1>3. /\ vms' \in [Lab -> SUBSET (Kinds \cup {"ghost"})] /\ wired' \in [Lab -> SUBSET Kinds]
      /\ \A m \in Lab : vms'[m] = {} /\ wired'[m] = {}
  BY <1>1, <1>2, GoneIsLocal DEF TypeOK
<1>4. pids' \in [Lab -> [Kinds -> {"none", "live", "dead"}]]
  BY <1>1, <1>2, KilledIsLocal
<1>5. TypeOK'
  BY <1>1, <1>2, <1>3, <1>4 DEF TypeOK, Places
<1>6. ASSUME NEW m \in Lab PROVE LabParts(m)'
  <2>1. LabParts(m)
    BY DEF LabInv
  <2>2. /\ pc'[m] = IF m = l THEN "unlink" ELSE pc[m]
        /\ hit'[m] = (m # l \/ hit[m])
    BY <1>1, <1>2 DEF TypeOK
  <2>3. CommandInv(m)' /\ StopInv(m)'
    BY <1>1, <1>3, <2>1, <2>2 DEF LabParts, CommandInv, StopInv
  <2>4. ReadyInv(m)'
    <3>1. CASE m # l
      BY <2>2, <3>1 DEF ReadyInv
    <3>2. CASE m = l
      BY <1>1, <2>1, <2>2, <3>2 DEF LabParts, CommandInv, ReadyInv, Reached
    <3> QED BY <3>1, <3>2
  <2>5. OverlayInv(m)'
    BY <1>1, <1>3, <2>1, <2>2 DEF LabParts, OverlayInv
  <2> QED BY <2>3, <2>4, <2>5 DEF LabParts
<1> QED BY <1>5, <1>6 DEF LabInv

\* stop takes down the links once nothing is wired to them.
LEMMA UnlinkKeeps ==
  ASSUME LabInv, NEW l \in Lab, Unlink(l)
  PROVE  LabInv'
<1>1. /\ pc[l] = "unlink" /\ links' = [links EXCEPT ![l] = {}]
      /\ pc' = [pc EXCEPT ![l] = "idle"] /\ result' = [result EXCEPT ![l] = "stopped"]
      /\ UNCHANGED <<base, disk, snaps, cdisk, vms, console, cup, pids, wired, op, count, tries,
                     faults, hit, fleeting>>
  BY DEF Unlink, End, files, machines, command, notes
<1>2. TypeOK'
  BY <1>1 DEF LabInv, TypeOK, Places
<1>3. /\ pc'[l] = "idle" /\ result'[l] = "stopped" /\ links'[l] = {}
      /\ \A m \in Lab \ {l} : Same(m)
  BY <1>1 DEF LabInv, TypeOK, Same
<1>4. LabParts(l)
  BY DEF LabInv
<1>5. CommandInv(l)' /\ StopInv(l)' /\ ReadyInv(l)' /\ OverlayInv(l)'
  BY <1>1, <1>3, <1>4 DEF LabParts, CommandInv, StopInv, ReadyInv, OverlayInv, Reached
<1> QED BY <1>1, <1>2, <1>3, <1>5, OthersKept DEF LabParts

\* A command that ends and has changed a disk or a snapshot: no machine is the
\* other for it, except a router configured before and after.
LEMMA DoneKeeps ==
  ASSUME LabInv, NEW l \in Lab, NEW r \in {"done", "failed"}, End(l, r),
         pc[l] # "pidfile",
         base' \in [Lab -> {"none", "broken", "ready"}],
         disk' \in [Lab -> {"none", "base", "half", "used", "served"}],
         snaps' \in [Lab -> SUBSET {"base", "half", "used", "served"}],
         cdisk' \in [Lab -> {"none", "fresh", "ready", "extras"}],
         \A m \in Lab \ {l} : disk'[m] = disk[m],
         UNCHANGED <<machines, links, command, tries, faults, notes>>
  PROVE  LabInv'
<1>1. /\ pc' = [pc EXCEPT ![l] = "idle"] /\ result' = [result EXCEPT ![l] = r]
      /\ UNCHANGED <<vms, console, cup, pids, wired, links, op, count, tries, faults,
                     hit, fleeting>>
  BY DEF End, machines, command, notes
<1>2. TypeOK'
  BY <1>1 DEF LabInv, TypeOK, Places
<1>3. pc'[l] = "idle" /\ result'[l] = r /\ \A m \in Lab \ {l} : Same(m)
  BY <1>1 DEF LabInv, TypeOK, Same
<1>4. LabParts(l)
  BY DEF LabInv
<1>5. CommandInv(l)' /\ StopInv(l)' /\ ReadyInv(l)' /\ OverlayInv(l)'
  BY <1>1, <1>3, <1>4 DEF LabParts, CommandInv, StopInv, ReadyInv, OverlayInv, Reached
<1> QED BY <1>1, <1>2, <1>3, <1>5, OthersKept DEF LabParts

\* A snapshot is created, restored or deleted: no router runs on the disk.
LEMMA SnapshotKeeps ==
  ASSUME LabInv, NEW l \in Lab, Snapshot(l)
  PROVE  LabInv'
<1> DEFINE Disks == {"none", "base", "half", "used", "served"}
           States == {"base", "half", "used", "served"}
<1>1. /\ pc[l] = "snapshot" /\ (End(l, "done") \/ End(l, "failed"))
      /\ UNCHANGED <<base, cdisk, machines, links, command, tries, faults, notes>>
  BY DEF Snapshot
<1>2. /\ disk \in [Lab -> Disks] /\ snaps \in [Lab -> SUBSET States]
      /\ disk[l] \in States /\ op[l] \in Snapshots
  <2>1. LabParts(l)
    BY DEF LabInv
  <2> QED BY <1>1, <2>1 DEF LabInv, TypeOK, LabParts, CommandInv
<1>3. \/ UNCHANGED <<disk, snaps>>
      \/ UNCHANGED disk /\ \E s \in States : \/ snaps' = [snaps EXCEPT ![l] = @ \cup {s}]
                                             \/ snaps' = [snaps EXCEPT ![l] = @ \ {s}]
      \/ UNCHANGED snaps /\ \E s \in States : disk' = [disk EXCEPT ![l] = s]
  <2>1. snaps[l] \subseteq States
    BY <1>2
  <2>2. CASE op[l] = "create"
    BY <1>2, <2>2 DEF Snapshot
  <2>3. CASE op[l] = "delete"
    BY <2>1, <2>3 DEF Snapshot
  <2>4. CASE op[l] = "restore"
    BY <2>1, <2>4 DEF Snapshot
  <2> QED BY <1>2, <2>2, <2>3, <2>4 DEF Snapshots
<1>4. /\ disk' \in [Lab -> Disks] /\ snaps' \in [Lab -> SUBSET States]
      /\ \A m \in Lab \ {l} : disk'[m] = disk[m]
  <2>1. CASE UNCHANGED disk /\ \E s \in States : \/ snaps' = [snaps EXCEPT ![l] = @ \cup {s}]
                                                 \/ snaps' = [snaps EXCEPT ![l] = @ \ {s}]
    BY <1>2, <2>1
  <2>2. CASE UNCHANGED snaps /\ \E s \in States : disk' = [disk EXCEPT ![l] = s]
    BY <1>2, <2>2
  <2> QED BY <1>2, <1>3, <2>1, <2>2
<1>5. /\ base' \in [Lab -> {"none", "broken", "ready"}]
      /\ cdisk' \in [Lab -> {"none", "fresh", "ready", "extras"}]
  BY <1>1 DEF LabInv, TypeOK
<1> QED BY <1>1, <1>4, <1>5, DoneKeeps

\* The commands that prepare images work on files no machine runs on.
LEMMA PrepareKeeps ==
  ASSUME LabInv, NEW l \in Lab,
         PrepareImage(l) \/ PrepareDebian(l) \/ ProvisionDebian(l) \/ InstallPackage(l)
  PROVE  LabInv'
<1>1. /\ pc[l] # "pidfile" /\ (End(l, "done") \/ End(l, "failed"))
      /\ UNCHANGED <<snaps, machines, links, command, tries, faults, notes>>
  BY DEF PrepareImage, PrepareDebian, ProvisionDebian, InstallPackage
<1>2. TypeOK
  BY DEF LabInv
<1>3. base' \in [Lab -> {"none", "broken", "ready"}]
  <2>1. \/ base' = base \/ base' = [base EXCEPT ![l] = "ready"]
        \/ base' = [base EXCEPT ![l] = IF @ = "none" THEN "broken" ELSE @]
    BY DEF PrepareImage, PrepareDebian, ProvisionDebian, InstallPackage
  <2>2. base \in [Lab -> {"none", "broken", "ready"}]
    BY <1>2 DEF TypeOK
  <2>3. PICK v \in {"none", "broken", "ready"} : base' = [base EXCEPT ![l] = v]
    <3>1. base[l] \in {"none", "broken", "ready"} /\ base = [base EXCEPT ![l] = base[l]]
      BY <2>2
    <3> QED BY <2>1, <3>1
  <2> QED BY <2>2, <2>3
<1>4. disk' \in [Lab -> {"none", "base", "half", "used", "served"}]
      /\ \A m \in Lab \ {l} : disk'[m] = disk[m]
  <2>1. \/ disk' = disk \/ disk' = [disk EXCEPT ![l] = "served"]
        \/ disk' = [disk EXCEPT ![l] = "used"]
    BY DEF PrepareImage, PrepareDebian, ProvisionDebian, InstallPackage
  <2>2. disk \in [Lab -> {"none", "base", "half", "used", "served"}]
    BY <1>2 DEF TypeOK
  <2>3. PICK v \in {"none", "base", "half", "used", "served"} : disk' = [disk EXCEPT ![l] = v]
    <3>1. disk[l] \in {"none", "base", "half", "used", "served"} /\ disk = [disk EXCEPT ![l] = disk[l]]
      BY <2>2
    <3> QED BY <2>1, <3>1
  <2> QED BY <2>2, <2>3
<1>5. cdisk' \in [Lab -> {"none", "fresh", "ready", "extras"}]
  <2>1. \/ cdisk' = cdisk \/ cdisk' = [cdisk EXCEPT ![l] = "extras"]
        \/ cdisk' = [cdisk EXCEPT ![l] = IF @ = "none" THEN "fresh" ELSE @]
        \/ cdisk' = [cdisk EXCEPT ![l] = IF ClientUp(l) THEN "extras" ELSE @]
    BY DEF PrepareImage, PrepareDebian, ProvisionDebian, InstallPackage
  <2>2. cdisk \in [Lab -> {"none", "fresh", "ready", "extras"}]
    BY <1>2 DEF TypeOK
  <2>3. PICK v \in {"none", "fresh", "ready", "extras"} : cdisk' = [cdisk EXCEPT ![l] = v]
    <3>1. cdisk[l] \in {"none", "fresh", "ready", "extras"} /\ cdisk = [cdisk EXCEPT ![l] = cdisk[l]]
      BY <2>2
    <3> QED BY <2>1, <3>1
  <2> QED BY <2>2, <2>3
<1>6. snaps' \in [Lab -> SUBSET {"base", "half", "used", "served"}]
  BY <1>1, <1>2 DEF TypeOK
<1> QED BY <1>1, <1>3, <1>4, <1>5, <1>6, DoneKeeps

\* A machine dies on its own.
LEMMA DiesKeeps ==
  ASSUME LabInv, NEW l \in Lab, NEW k \in Kinds, Dies(l, k)
  PROVE  LabInv'
<1>1. /\ Gone({l}, {k}) /\ pids' = Killed({l}, {k})
      /\ hit' = [hit EXCEPT ![l] = TRUE] /\ faults' = faults \cup {"dies"}
      /\ UNCHANGED <<base, disk, snaps, cdisk, console, cup, links, op, count, pc, tries,
                     result, fleeting>>
  BY DEF Dies, Fault, files, command
<1>2. LabParts(l) /\ TypeOK
  BY DEF LabInv
<1>3. /\ vms' \in [Lab -> SUBSET (Kinds \cup {"ghost"})] /\ wired' \in [Lab -> SUBSET Kinds]
      /\ \A m \in Lab \ {l} : vms'[m] = vms[m] /\ wired'[m] = wired[m]
      /\ vms'[l] = vms[l] \ {k} /\ wired'[l] \subseteq wired[l]
  <2>1. /\ \A m \in Lab \cap {l} : vms'[m] = vms[m] \ {k} /\ wired'[m] = wired[m] \ {k}
        /\ \A m \in Lab \ {l} : vms'[m] = vms[m] /\ wired'[m] = wired[m]
    BY <1>1, <1>2, GoneIsLocal
  <2>2. vms' \in [Lab -> SUBSET (Kinds \cup {"ghost"})] /\ wired' \in [Lab -> SUBSET Kinds]
    BY <1>1, <1>2, GoneIsLocal
  <2> QED BY <2>1, <2>2
<1>4. /\ pids' \in [Lab -> [Kinds -> {"none", "live", "dead"}]]
      /\ \A m \in Lab \ {l} : pids'[m] = pids[m]
      /\ k = "client" => pids'[l]["router"] = pids[l]["router"]
  <2>1. /\ \A m \in Lab \ {l} : pids'[m] = pids[m]
        /\ \A m \in Lab, q \in Kinds : q \notin {k} => pids'[m][q] = pids[m][q]
    BY <1>1, <1>2, KilledIsLocal
  <2>2. pids' \in [Lab -> [Kinds -> {"none", "live", "dead"}]]
    BY <1>1, <1>2, KilledIsLocal
  <2> QED BY <2>1, <2>2 DEF Kinds
<1>5. TypeOK'
  BY <1>1, <1>2, <1>3, <1>4 DEF TypeOK
<1>6. hit'[l] /\ \A m \in Lab \ {l} : Same(m)
  <2>1. hit'[l] = TRUE /\ \A m \in Lab \ {l} : hit'[m] = hit[m]
    BY <1>1, <1>2 DEF TypeOK
  <2>2. \A m \in Lab \ {l} : Same(m)
    BY <1>1, <1>3, <1>4, <2>1 DEF Same
  <2> QED BY <2>1, <2>2
<1>7. CommandInv(l)' /\ StopInv(l)' /\ ReadyInv(l)'
  BY <1>1, <1>2, <1>3, <1>6 DEF LabParts, CommandInv, StopInv, ReadyInv
<1>8. OverlayInv(l)'
  BY <1>1, <1>2, <1>3, <1>4, <1>6 DEF LabParts, OverlayInv, Kinds
<1> QED BY <1>1, <1>5, <1>6, <1>7, <1>8, OthersKept DEF LabParts

\* The invariant is inductive.
LEMMA LabInvInductive ==
  /\ Init => LabInv
  /\ LabInv /\ [Next]_vars => LabInv'
<1>1. ASSUME Init PROVE LabInv
  <2>1. TypeOK
    BY <1>1, BoundsAreNumbers DEF Init, TypeOK, Places, AllOps
  <2>2. \A l \in Lab : LabParts(l)
    BY <1>1 DEF Init, LabParts, CommandInv, StopInv, ReadyInv, OverlayInv, Reached
  <2> QED BY <2>1, <2>2 DEF LabInv
<1>2. ASSUME LabInv, Next PROVE LabInv'
  <2>1. PICK l \in Lab : \/ Command(l) \/ Step(l) \/ ClientInit(l) \/ CutOff(l)
                         \/ \E k \in Kinds : Dies(l, k)
    BY <1>2 DEF Next
  <2>2. CASE StartStep(l)
    BY <1>2, <2>2, LookingKeeps, MakeLinksKeeps, OverlayKeeps, SpawnKeeps, PidFileKeeps,
       ProvisionKeeps, ClientTapKeeps, ClientSpawnKeeps, ClientPidFileKeeps DEF StartStep
  <2>3. CASE StopStep(l)
    BY <1>2, <2>3, KillKeeps, SweepKeeps, UnlinkKeeps DEF StopStep
  <2>4. CASE OtherStep(l)
    BY <1>2, <2>4, LookingKeeps, SnapshotKeeps, PrepareKeeps DEF OtherStep
  <2> QED BY <1>2, <2>1, <2>2, <2>3, <2>4, CommandKeeps, ClientInitKeeps, LookingKeeps,
             DiesKeeps DEF Step
<1>3. ASSUME LabInv, UNCHANGED vars PROVE LabInv'
  <2>1. UNCHANGED <<base, disk, snaps, cdisk, vms, console, cup, pids, wired, links, op, count,
                    pc, tries, result, faults, hit, fleeting>>
    BY <1>3 DEF vars, files, machines, command, notes
  <2>2. TypeOK'
    BY <1>3, <2>1 DEF LabInv, TypeOK
  <2>3. \A l \in Lab : LabParts(l)'
    BY <1>3, <2>1 DEF LabInv, LabParts, CommandInv, StopInv, ReadyInv, OverlayInv,
       RouterUp, ClientUp
  <2> QED BY <2>2, <2>3 DEF LabInv
<1> QED BY <1>1, <1>2, <1>3

\* Every lab keeps its parts, for any number of labs and any bound on tries and faults.
THEOREM LabInvariant == Spec => []LabInv
BY LabInvInductive, PTL DEF Spec

\* VirtualLab is well typed, whichever way its commands interleave.
THEOREM LabTypeCorrect == Spec => []TypeOK
<1>1. LabInv => TypeOK
  BY DEF LabInv
<1> QED BY <1>1, LabInvariant, PTL

\* A lab whose stop has reported success has no machine and no link of its own left,
\* however other commands ran meanwhile.
THEOREM StoppedLabIsEmpty == Spec => []StopLeavesNothing
<1>1. LabInv => StopLeavesNothing
  BY DEF LabInv, LabParts, StopInv, StopLeavesNothing
<1> QED BY <1>1, LabInvariant, PTL

\* A start that reports the lab ready has its machines up and wired, unless another
\* command has swept or killed them meanwhile.
THEOREM ReadyLabIsReachable == Spec => []ReadyMeansReachable
<1>1. LabInv => ReadyMeansReachable
  BY DEF LabInv, LabParts, ReadyInv, ReadyMeansReachable
<1> QED BY <1>1, LabInvariant, PTL

\* No command deletes or replaces the overlay under a running router, as long as no
\* start was cut off between starting QEMU and writing its pid file: what is stopped
\* is seen to stop first.
THEOREM RunningRouterKeepsItsOverlay == Spec => []OverlayStaysUnderRouter
<1>1. LabInv => OverlayStaysUnderRouter
  BY DEF LabInv, LabParts, OverlayInv, OverlayStaysUnderRouter
<1> QED BY <1>1, LabInvariant, PTL

==============================================================================
