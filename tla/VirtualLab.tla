------------------------------ MODULE VirtualLab ------------------------------
(***************************************************************************)
(* scripts/virtual-lab.py: labs of two QEMU machines (an OpenWrt router    *)
(* and a Debian client) on one host, each lab with a workdir and a net-id  *)
(* of its own.  A lab's commands come one after the other; commands of     *)
(* different labs interleave.  A command may be cut off between two steps  *)
(* (a timeout of run_remote, ^C): what it started stays.                   *)
(*                                                                         *)
(* QEMU, the kernel's links and the guests are external: QEMU locks its    *)
(* image, a machine that loses its tap is never on the network again, and  *)
(* the router's console wants Enter once in every boot.                    *)
(***************************************************************************)
EXTENDS Naturals, FiniteSets

CONSTANTS
  Lab,
  Ops,         \* the commands each lab is given
  MaxCommands, \* bound: commands per lab
  MaxFaults,   \* bound: kinds of faults that happen, each once
  Attempts     \* SERIAL_PROVISION_ATTEMPTS

AllOps == {"start", "fresh", "ephemeral", "stop", "create", "restore", "delete",
           "image", "debian", "extras", "install"}

ASSUME OpsAreOps == Ops \in [Lab -> SUBSET AllOps]
ASSUME BoundsAreNumbers ==
  MaxCommands \in [Lab -> Nat] /\ MaxFaults \in Nat /\ Attempts \in Nat \ {0}

VARIABLES
  base,     \* images/openwrt-base.qcow2: "none", "broken", "ready"
  disk,     \* the router's overlay: "none", "base", then as far as it was configured
  snaps,    \* the states its internal snapshots hold
  cdisk,    \* the client's overlay: "none", "fresh", "ready", "extras"
  vms,      \* running machines; "ghost": a router whose overlay was removed
  console,  \* the router's console: "boot" (wants Enter) or "shell"
  cup,      \* the running client: "raw" (not configured), "up"
  pids,     \* the two pid files: "none", or "live", "dead" as what they name
  links,    \* "bridge", "tap", "ctap"
  wired,    \* running machines whose tap is the one they were started with
  op, pc,   \* the command of each lab, and where it is
  tries,    \* attempts at the serial console left
  result,   \* how the last command ended
  count,    \* commands so far
  faults,
  hit,      \* history: something else touched the lab's machines meanwhile
  fleeting  \* history: the client was started with --ephemeral-client

files == <<base, disk, snaps, cdisk>>
machines == <<vms, console, cup, pids, wired>>
command == <<op, count>>
notes == <<hit, fleeting>>
vars == <<files, machines, links, command, pc, tries, result, faults, notes>>

Kinds == {"router", "client"}

Init ==
  /\ \E b \in {"none", "ready"} : base = [l \in Lab |-> b]
  /\ disk = [l \in Lab |-> "none"]
  /\ snaps = [l \in Lab |-> {}]
  /\ \E c \in {"none", "ready"} : cdisk = [l \in Lab |-> c]
  /\ vms = [l \in Lab |-> {}]
  /\ console = [l \in Lab |-> "boot"]
  /\ cup = [l \in Lab |-> "raw"]
  /\ pids = [l \in Lab |-> [k \in Kinds |-> "none"]]
  /\ links = [l \in Lab |-> {}]
  /\ wired = [l \in Lab |-> {}]
  /\ op = [l \in Lab |-> "stop"]
  /\ pc = [l \in Lab |-> "idle"]
  /\ tries = [l \in Lab |-> 0]
  /\ result = [l \in Lab |-> "none"]
  /\ count = [l \in Lab |-> 0]
  /\ faults = {}
  /\ hit = [l \in Lab |-> FALSE]
  /\ fleeting = [l \in Lab |-> FALSE]
-----------------------------------------------------------------------------
Goto(l, s) == pc' = [pc EXCEPT ![l] = s] /\ UNCHANGED result

End(l, r) ==
  /\ pc' = [pc EXCEPT ![l] = "idle"]
  /\ result' = [result EXCEPT ![l] = r]

StartOps == {"start", "fresh", "ephemeral"}

FirstStep(o) ==
  CASE o \in StartOps -> "guard"
    [] o = "stop" -> "kill_client"
    [] o \in {"create", "restore", "delete"} -> "check"
    [] OTHER -> o

Command(l) ==
  /\ pc[l] = "idle" /\ count[l] < MaxCommands[l]
  /\ \E o \in Ops[l] : op' = [op EXCEPT ![l] = o] /\ pc' = [pc EXCEPT ![l] = FirstStep(o)]
  /\ count' = [count EXCEPT ![l] = @ + 1]
  /\ tries' = [tries EXCEPT ![l] = Attempts]
  /\ result' = [result EXCEPT ![l] = "none"]
  /\ hit' = [hit EXCEPT ![l] = FALSE]
  /\ UNCHANGED <<files, machines, links, faults, fleeting>>

\* A step of a start that does not pass ends it.
Fails(l, at) ==
  /\ pc[l] \in at
  /\ End(l, "failed")
  /\ UNCHANGED <<files, machines, links, command, tries, faults, notes>>

\* Mistake: --fresh is honoured on a running router.
GuardPurgesRunning(l) ==
  /\ pc[l] = "guard" /\ base[l] # "none"
  /\ IF pids[l]["router"] = "live" /\ op[l] # "fresh"
     THEN Goto(l, "provision") ELSE Goto(l, "links")
  /\ UNCHANGED <<files, machines, links, command, tries, faults, notes>>

\* The pid file names a process: the router runs, and --fresh cannot have it.
Guard(l) ==
  /\ pc[l] = "guard" /\ base[l] # "none"
  /\ CASE pids[l]["router"] # "live" -> Goto(l, "links")
       [] pids[l]["router"] = "live" /\ op[l] = "fresh" -> End(l, "failed")
       [] OTHER -> Goto(l, "provision")
  /\ UNCHANGED <<files, machines, links, command, tries, faults, notes>>

\* The old links are deleted, whoever is on them, and the router's made: as far
\* as they are when one of them fails.
MakeLinks(l) ==
  /\ pc[l] = "links"
  /\ wired' = [wired EXCEPT ![l] = {}]
  /\ \/ links' = [links EXCEPT ![l] = {"bridge", "tap"}] /\ Goto(l, "overlay")
     \/ /\ \E made \in {{}, {"bridge"}, {"bridge", "tap"}} : links' = [links EXCEPT ![l] = made]
        /\ End(l, "failed")
  /\ UNCHANGED <<files, vms, console, cup, pids, command, tries, faults, notes>>

\* --fresh removes the overlay and makes another, which may fail.
Overlay(l) ==
  /\ pc[l] = "overlay"
  /\ IF op[l] = "fresh" \/ disk[l] = "none"
     THEN /\ \/ disk' = [disk EXCEPT ![l] = "base"] /\ Goto(l, "spawn")
             \/ /\ \E d \in {"none", "base"} : disk' = [disk EXCEPT ![l] = d]
                /\ End(l, "failed")
          /\ snaps' = [snaps EXCEPT ![l] = {}]
          /\ vms' = [vms EXCEPT ![l] = IF "router" \in @ THEN (@ \ {"router"}) \cup {"ghost"}
                                       ELSE @]
     ELSE Goto(l, "spawn") /\ UNCHANGED <<disk, snaps, vms>>
  /\ UNCHANGED <<base, cdisk, console, cup, pids, wired, links, command, tries, faults, notes>>

\* A second QEMU on the same image dies of its lock.
Spawn(l) ==
  /\ pc[l] = "spawn"
  /\ IF "router" \in vms[l]
     THEN Goto(l, "pidfile_dead") /\ UNCHANGED machines
     ELSE /\ vms' = [vms EXCEPT ![l] = @ \cup {"router"}]
          /\ wired' = [wired EXCEPT ![l] = @ \cup {"router"}]
          /\ console' = [console EXCEPT ![l] = "boot"]
          /\ Goto(l, "pidfile")
          /\ UNCHANGED <<cup, pids>>
  /\ UNCHANGED <<files, links, command, tries, faults, notes>>

PidFile(l) ==
  /\ pc[l] \in {"pidfile", "pidfile_dead"}
  /\ pids' = [pids EXCEPT ![l]["router"] =
                IF pc[l] = "pidfile" /\ "router" \in vms[l] THEN "live" ELSE "dead"]
  /\ Goto(l, "provision")
  /\ UNCHANGED <<files, vms, console, cup, wired, links, command, tries, faults, notes>>

Configured(c) == c \in {"used", "served"}

\* A configuration that goes on writes at most to its end.
Configures(l) ==
  disk' = [disk EXCEPT ![l] = IF Configured(@) THEN @ ELSE "used"]

\* Mistake: every time-out is followed by another attempt.
ProvisionForever(l) ==
  /\ pc[l] = "provision" /\ base[l] = "ready" /\ "router" \in vms[l]
  /\ \/ /\ console' = [console EXCEPT ![l] = "shell"]
        /\ Goto(l, "verify")
        /\ UNCHANGED <<disk, tries>>
     \/ /\ console[l] = "boot"
        /\ console' = [console EXCEPT ![l] = "shell"]
        /\ Configures(l)
        /\ Goto(l, "verify")
        /\ UNCHANGED tries
     \/ /\ tries' = [tries EXCEPT ![l] = IF @ > 1 THEN @ - 1 ELSE Attempts]
        /\ Goto(l, "provision")
        /\ UNCHANGED <<disk, console>>
  /\ UNCHANGED <<base, snaps, cdisk, vms, cup, pids, wired, links, command, faults,
                 notes>>

\* The serial console: at the boot prompt the router is configured; at a shell
\* prompt, which the script's own first Enter may have brought, it is taken to
\* be.  A time-out, cut off anywhere, is tried again.
Provision(l) ==
  /\ pc[l] = "provision" /\ base[l] = "ready" /\ "router" \in vms[l]
  /\ \/ /\ console' = [console EXCEPT ![l] = "shell"]
        /\ Goto(l, "verify")
        /\ UNCHANGED <<disk, tries>>
     \/ /\ console[l] = "boot"
        /\ console' = [console EXCEPT ![l] = "shell"]
        /\ Configures(l)
        /\ Goto(l, "verify")
        /\ UNCHANGED tries
     \/ /\ tries' = [tries EXCEPT ![l] = @ - 1]
        /\ IF tries[l] > 1 THEN Goto(l, "provision") ELSE End(l, "failed")
        /\ \/ UNCHANGED <<disk, console>>
           \/ /\ console[l] = "boot"
              /\ console' = [console EXCEPT ![l] = "shell"]
              /\ disk' = [disk EXCEPT ![l] = IF Configured(@) THEN @ ELSE "half"]
  /\ UNCHANGED <<base, snaps, cdisk, vms, cup, pids, wired, links, command, faults,
                 notes>>

\* SSH to each machine.
RouterUp(l) == {"bridge", "tap"} \subseteq links[l] /\ "router" \in wired[l] /\ Configured(disk[l])
ClientUp(l) == {"bridge", "ctap"} \subseteq links[l] /\ "client" \in wired[l] /\ cup[l] = "up"

Verify(l) ==
  /\ pc[l] = "verify" /\ RouterUp(l)
  /\ Goto(l, "client_guard")
  /\ UNCHANGED <<files, machines, links, command, tries, faults, notes>>

ClientGuard(l) ==
  /\ pc[l] = "client_guard"
  /\ CASE pids[l]["client"] = "live" -> Goto(l, "probe")
       [] pids[l]["client"] # "live" /\ cdisk[l] = "none" -> End(l, "failed")
       [] OTHER -> Goto(l, "client_tap")
  /\ UNCHANGED <<files, machines, links, command, tries, faults, notes>>

\* "ip tuntap add" fails when the tap is there.  A tap that then does not get
\* onto the bridge stays.
ClientTap(l) ==
  /\ pc[l] = "client_tap" /\ "ctap" \notin links[l]
  /\ links' = [links EXCEPT ![l] = @ \cup {"ctap"}]
  /\ \/ "bridge" \in links[l] /\ Goto(l, "client_spawn")
     \/ End(l, "failed")
  /\ UNCHANGED <<files, machines, command, tries, faults, notes>>

\* The -snapshot of --ephemeral-client is not on QEMU's command line: the
\* script clears the variable that holds it.
ClientSpawn(l) ==
  /\ pc[l] = "client_spawn"
  /\ IF "client" \in vms[l] \/ "ctap" \notin links[l]
     THEN Goto(l, "client_pidfile_dead") /\ UNCHANGED machines
     ELSE /\ vms' = [vms EXCEPT ![l] = @ \cup {"client"}]
          /\ wired' = [wired EXCEPT ![l] = @ \cup {"client"}]
          /\ cup' = [cup EXCEPT ![l] = IF cdisk[l] = "fresh" THEN "raw" ELSE "up"]
          /\ Goto(l, "client_pidfile")
          /\ UNCHANGED <<console, pids>>
  /\ fleeting' = [fleeting EXCEPT ![l] = IF pc'[l] = "client_pidfile" THEN op[l] = "ephemeral" ELSE @]
  /\ UNCHANGED <<files, links, command, tries, faults, hit>>

ClientPidFile(l) ==
  /\ pc[l] \in {"client_pidfile", "client_pidfile_dead"}
  /\ pids' = [pids EXCEPT ![l]["client"] =
                IF pc[l] = "client_pidfile" /\ "client" \in vms[l] THEN "live" ELSE "dead"]
  /\ Goto(l, "probe")
  /\ UNCHANGED <<files, vms, console, cup, wired, links, command, tries, faults, notes>>

\* A client that does not answer is left to the serial console, which never
\* configures it: the generated script stops at names it does not define.
Probe(l) ==
  /\ pc[l] = "probe"
  /\ IF ClientUp(l) THEN Goto(l, "client_verify") ELSE End(l, "failed")
  /\ UNCHANGED <<files, machines, links, command, tries, faults, notes>>

\* Mistake: what the last check says is a warning.
ClientVerifyWarns(l) ==
  /\ pc[l] \in {"probe", "client_verify"}
  /\ End(l, "ready")
  /\ UNCHANGED <<files, machines, links, command, tries, faults, notes>>

\* The DHCP lease that is added after it may fail.
ClientVerify(l) ==
  /\ pc[l] = "client_verify" /\ ClientUp(l)
  /\ End(l, "ready")
  /\ UNCHANGED <<files, machines, links, command, tries, faults, notes>>

\* cloud-init configures a fresh client.
ClientInit(l) ==
  /\ "client" \in vms[l] /\ cup[l] # "up"
  /\ cup' = [cup EXCEPT ![l] = "up"]
  /\ cdisk' = [cdisk EXCEPT ![l] = "ready"]
  /\ UNCHANGED <<base, disk, snaps, vms, console, pids, wired, links, command, pc, tries,
                 result, faults, notes>>

StartStep(l) ==
  \/ Guard(l) \/ MakeLinks(l) \/ Overlay(l) \/ Spawn(l) \/ PidFile(l) \/ Provision(l)
  \/ Verify(l) \/ ClientGuard(l) \/ ClientTap(l) \/ ClientSpawn(l) \/ ClientPidFile(l)
  \/ Probe(l) \/ ClientVerify(l)
  \/ Fails(l, {"guard", "links", "overlay", "provision", "verify", "client_tap", "probe",
               "client_verify"})
-----------------------------------------------------------------------------
\* Machines K of the labs L are gone.
Gone(L, K) ==
  /\ vms' = [l \in Lab |-> IF l \in L THEN vms[l] \ K ELSE vms[l]]
  /\ wired' = [l \in Lab |-> IF l \in L THEN wired[l] \ K ELSE wired[l]]

Killed(L, K) ==
  [l \in Lab |-> [k \in Kinds |->
     IF l \in L /\ k \in K /\ pids[l][k] = "live" THEN "dead" ELSE pids[l][k]]]

\* The machine that the pid file names is shut down or killed, the file removed.
Kill(l, k) ==
  /\ IF pids[l][k] = "live" THEN Gone({l}, {k}) ELSE UNCHANGED <<vms, wired>>
  /\ pids' = [pids EXCEPT ![l][k] = "none"]
  /\ UNCHANGED <<files, console, cup, links, command, tries, faults, notes>>

KillClient(l) == pc[l] = "kill_client" /\ Kill(l, "client") /\ Goto(l, "kill_router")
KillRouter(l) == pc[l] = "kill_router" /\ Kill(l, "router") /\ Goto(l, "sweep")

\* Mistake: only what the pid files name is stopped.
SweepNone(l) ==
  /\ pc[l] = "sweep"
  /\ Goto(l, "unlink")
  /\ UNCHANGED <<files, machines, links, command, tries, faults, notes>>

\* Every QEMU with a drive on this host is killed.
Sweep(l) ==
  /\ pc[l] = "sweep"
  /\ Gone(Lab, Kinds \cup {"ghost"})
  /\ pids' = Killed(Lab, Kinds)
  /\ hit' = [m \in Lab |-> m # l \/ hit[m]]
  /\ Goto(l, "unlink")
  /\ UNCHANGED <<files, console, cup, links, command, tries, faults, fleeting>>

Unlink(l) ==
  /\ pc[l] = "unlink"
  /\ links' = [links EXCEPT ![l] = {}]
  /\ End(l, "stopped")
  /\ UNCHANGED <<files, machines, command, tries, faults, notes>>

StopStep(l) == KillClient(l) \/ KillRouter(l) \/ Sweep(l) \/ Unlink(l)
-----------------------------------------------------------------------------
\* _vm_running: any lab's router counts.  A snapshot that runs may be deleted.
CheckSnapshot(l) ==
  /\ pc[l] = "check"
  /\ IF \/ disk[l] = "none"
        \/ op[l] # "delete" /\ \E m \in Lab : vms[m] \cap {"router", "ghost"} # {}
     THEN End(l, "failed") ELSE Goto(l, "snapshot")
  /\ UNCHANGED <<files, machines, links, command, tries, faults, notes>>

\* qemu-img does not get a running router's image.
Snapshot(l) ==
  /\ pc[l] = "snapshot"
  /\ \/ /\ "router" \notin vms[l]
        /\ CASE op[l] = "create"  -> snaps' = [snaps EXCEPT ![l] = @ \cup {disk[l]}] /\ UNCHANGED disk
             [] op[l] = "delete"  -> (\E s \in snaps[l] : snaps' = [snaps EXCEPT ![l] = @ \ {s}])
                                       /\ UNCHANGED disk
             [] op[l] = "restore" -> (\E s \in snaps[l] : disk' = [disk EXCEPT ![l] = s])
                                       /\ UNCHANGED snaps
        /\ End(l, "done")
     \/ End(l, "failed") /\ UNCHANGED <<disk, snaps>>
  /\ UNCHANGED <<base, cdisk, machines, links, command, tries, faults, notes>>

\* prepare-image keeps what is there; a download or a conversion that was cut
\* off is there, too, and never made again.
PrepareImage(l) ==
  /\ pc[l] = "image"
  /\ \/ base[l] \in {"none", "ready"} /\ base' = [base EXCEPT ![l] = "ready"] /\ End(l, "done")
     \/ base' = [base EXCEPT ![l] = IF @ = "none" THEN "broken" ELSE @] /\ End(l, "failed")
  /\ UNCHANGED <<disk, snaps, cdisk, machines, links, command, tries, faults, notes>>

PrepareDebian(l) ==
  /\ pc[l] = "debian"
  /\ cdisk' \in {cdisk, [cdisk EXCEPT ![l] = IF @ = "none" THEN "fresh" ELSE @]}
  /\ End(l, "done") \/ End(l, "failed")
  /\ UNCHANGED <<base, disk, snaps, machines, links, command, tries, faults, notes>>

\* provision-debian reports what its last command says of the browser.
ProvisionDebian(l) ==
  /\ pc[l] = "extras"
  /\ \/ ClientUp(l) /\ cdisk' = [cdisk EXCEPT ![l] = "extras"] /\ End(l, "done")
     \/ cdisk' \in {cdisk, [cdisk EXCEPT ![l] = IF ClientUp(l) THEN "extras" ELSE @]}
        /\ End(l, "failed")
  /\ UNCHANGED <<base, disk, snaps, machines, links, command, tries, faults, notes>>

\* opkg removes the installed package before it installs the new one.
InstallPackage(l) ==
  /\ pc[l] = "install"
  /\ \/ RouterUp(l) /\ disk' = [disk EXCEPT ![l] = "served"] /\ End(l, "done")
     \/ RouterUp(l) /\ disk' = [disk EXCEPT ![l] = "used"] /\ End(l, "failed")
     \/ UNCHANGED disk /\ End(l, "failed")
  /\ UNCHANGED <<base, snaps, cdisk, machines, links, command, tries, faults, notes>>

OtherStep(l) ==
  CheckSnapshot(l) \/ Snapshot(l) \/ PrepareImage(l) \/ PrepareDebian(l)
  \/ ProvisionDebian(l) \/ InstallPackage(l)
-----------------------------------------------------------------------------
Fault(kind) ==
  /\ kind \notin faults /\ Cardinality(faults) < MaxFaults
  /\ faults' = faults \cup {kind}

\* Between QEMU's start and its pid file a router stays that nothing names.
CutOff(l) ==
  /\ Fault(IF pc[l] = "pidfile" THEN "orphan" ELSE "cut")
  /\ pc[l] # "idle"
  /\ End(l, "cut")
  /\ UNCHANGED <<files, machines, links, command, tries, notes>>

Dies(l, k) ==
  /\ Fault("dies")
  /\ k \in vms[l]
  /\ Gone({l}, {k})
  /\ pids' = Killed({l}, {k})
  /\ hit' = [hit EXCEPT ![l] = TRUE]
  /\ UNCHANGED <<files, console, cup, links, command, pc, tries, result, fleeting>>

Step(l) == StartStep(l) \/ StopStep(l) \/ OtherStep(l)

Next ==
  \E l \in Lab : \/ Command(l) \/ Step(l) \/ ClientInit(l) \/ CutOff(l)
                 \/ \E k \in Kinds : Dies(l, k)

Spec == Init /\ [][Next]_vars

\* A command that is not cut off runs on.
FairSpec == Spec /\ \A l \in Lab : WF_vars(Step(l))
-----------------------------------------------------------------------------
Places == {"idle", "guard", "links", "overlay", "spawn", "pidfile", "pidfile_dead",
  "provision", "verify", "client_guard", "client_tap", "client_spawn", "client_pidfile",
  "client_pidfile_dead", "probe", "client_verify", "kill_client", "kill_router", "sweep",
  "unlink", "check", "snapshot", "image", "debian", "extras", "install"}

TypeOK ==
  /\ base \in [Lab -> {"none", "broken", "ready"}]
  /\ disk \in [Lab -> {"none", "base", "half", "used", "served"}]
  /\ snaps \in [Lab -> SUBSET {"base", "half", "used", "served"}]
  /\ cdisk \in [Lab -> {"none", "fresh", "ready", "extras"}]
  /\ vms \in [Lab -> SUBSET (Kinds \cup {"ghost"})]
  /\ console \in [Lab -> {"boot", "shell"}] /\ cup \in [Lab -> {"raw", "up"}]
  /\ pids \in [Lab -> [Kinds -> {"none", "live", "dead"}]]
  /\ links \in [Lab -> SUBSET {"bridge", "tap", "ctap"}]
  /\ wired \in [Lab -> SUBSET Kinds]
  /\ op \in [Lab -> AllOps] /\ pc \in [Lab -> Places]
  /\ tries \in [Lab -> 0 .. Attempts]
  /\ result \in [Lab -> {"none", "failed", "cut", "ready", "stopped", "done"}]
  /\ count \in [Lab -> Nat] /\ faults \subseteq {"cut", "orphan", "dies"}
  /\ hit \in [Lab -> BOOLEAN]
  /\ fleeting \in [Lab -> BOOLEAN]

\* No router runs on an overlay that was removed under it, in whatever order labs
\* start, stop, restore and are cut off.  The one exception: some start was cut off
\* between starting QEMU and writing its pid file, and then of any lab.
OverlayStaysUnderRouter == \A l \in Lab : "ghost" \in vms[l] => "orphan" \in faults

\* stop-poc leaves nothing of its lab, machines without a pid file included.
StopLeavesNothing ==
  \A l \in Lab : result[l] = "stopped" => vms[l] = {} /\ wired[l] = {} /\ links[l] = {}

\* A start that reports ready has a configured router and a client, each on its
\* tap.  Exempt is every lab a machine of which died, or which another lab's stop
\* swept, since its command began, whether or not that command saw it.
ReadyMeansReachable ==
  \A l \in Lab : result[l] = "ready" /\ ~hit[l] => RouterUp(l) /\ ClientUp(l)

\* A command ends: its waiting and its retries are bounded.
CommandEnds == \A l \in Lab : pc[l] # "idle" ~> pc[l] = "idle"

\* "dual-OS lanes run concurrently: one lab per workdir AND per net-id".
StopsOnlyOwnLab ==
  [][\A l \in Lab : (pc[l] = "sweep" /\ pc'[l] = "unlink") =>
       \A m \in Lab \ {l} : vms'[m] = vms[m]]_vars

\* "writes are discarded on stop-poc, guaranteeing a pristine client".
EphemeralLeavesClient == [][\A l \in Lab : fleeting[l] => cdisk'[l] = cdisk[l]]_vars

\* "Retrying is safe because the provisioning scripts are idempotent".
ProvisionedIsConfigured == \A l \in Lab : pc[l] = "verify" => Configured(disk[l]) \/ hit[l]
=============================================================================
