# TLA+ models of the physical-router test automation

This directory holds TLA+ specifications of the parts of this repository that
decide *who may touch a router, a machine, a token or a commit's status, and
when*: the bench lease first of all, the programs that run under it, and the
programs that recover, flash, deploy to, emulate and pay the routers. TLC checks
them on small instances; TLAPS proves the properties that matter most for every
instance.

    tlc -config Lease.cfg BenchLease     # any row of "The runs"
    tlapm BenchLeaseProofs.tla           # any module named ...Proofs

Paths below are relative to the repository's root.

## 1. The system and its parts

A bench is one machine with a few routers attached. Many programs want them:
shell scripts, pytest, cron jobs, a watchdog timer, several agents at once. None
of them talks to another. What they share is files (the lock file of the bench,
the spool of the dispatch queue), the routers themselves, and outside services
(the commit status on GitHub, the cloud provider's API, a mint).

    cron --> poll-queue.sh --+
    run-with-quiesce.sh -----+--> hw-bench-lease --> lock file <-- bench-lock.sh <-- mt3000-bench/*
    prta-bench-run.sh -------+        |                 ^   ^
    bench-deploy-apk.sh -----+        |                 |   +-- fresh-flash.py (BenchLock)
                                      v                 | `status` only
                    command: arms / tests / quiesces    |
                               routers  <---- prta-quiesce-watchdog.sh (timer)
                                 ^   ^
           uboot-recover.py -----+   +---- cudy-flash.py, deploy.py   (no lease)

    shc_submit.py --> SHC API --> machine: bootstrap --> worker
        ^                 ^                      |           |
        | next submission |<-- kill switch <-----+-----------+--> cancel
        +-- monitor ------+

    clientd --\                          backend --> faultproxy --> mock mint
    recover ---+--> gateway (mock router)

### Modelled

**Bench lease** (`lib/bench_lock.py`, `scripts/hw-bench-lease`,
`scripts/mt3000-bench/bench-lock.sh`; `lib/hardware_lock.py` and
`lib/router_lock.py` delegate to it).
*State*: one lock file, whose flock is the mutual exclusion and whose first line
names the holder, and the processes that hold or inherit a descriptor of it.
*Operations*: `take`/`hold`, `exec`, `require`, `release` (also `--force`), `status`,
`--reclaim-stale`, `force_release`.
*Hard*: two implementations share one file; every operation is several system
calls; a process may be killed between any two of them; children inherit the
descriptor; `release` acts on a pid that it read earlier.
*Correct when*: one window at a time; the line names the open window; a command
that outlives a dead window keeps the next one out until somebody overrides it
explicitly; a killed holder does not wedge the bench.

**Hardware dispatch queue** (`scripts/hw-dispatch`).
*State*: spool files, `.poll.lock`, the commit's status.
*Operations*: `enqueue.sh`; a cron tick of `poll-queue.sh` per job: idle preflight
under the lease, preparation, smoke test under the lease, verdict, post, archive.
*Hard*: overlapping ticks, a killed tick whose lease child lives on with the
inherited poll lock, a lease that is busy or stale, posts that fail.
*Correct when*: one poller at a time; a router is not put through the same test
again without cause; a verdict says what happened to that commit's test; every job
leaves the queue.

**Access-point arming and quiesce** (`scripts/quiesce-router.py`,
`run-with-quiesce.sh`, `prta-bench-run.sh`, `prta-quiesce-watchdog.sh`).
*State*: each router's wireless configuration and its radios.
*Operations*: arm one router, run, sweep one or all routers; a timer that sweeps
when the bench is free.
*Hard*: configuration and radios change in two steps, cleanups that fail or are cut
off, a backstop that asks once and then works without the lease.
*Correct when*: a free bench is quiet; nobody's cleanup reaches into the next run's
window; in the end the APs go down.

**SHC cloud runs** (`lib/cloud_lab/shc_submit.py`, `lib/cloud_lab/worker/vms.py`,
`worker/pipeline.py`, `lib/cloud_lab/provider.py`).
*State*: the rented machine, the bootstrap on it, its kill switch, its status files;
the submitter and monitor outside.
*Operations*: clean-up of old machines, order, wait, arm, upload, launch; monitor;
bootstrap, worker, delete-self; kill switch.
*Hard*: four parties may cancel one machine; the submitter may die; a machine that was
only shut down is still billed and can no longer cancel itself.
*Correct when*: nobody takes a machine whose tests may still run, or one that failed
and was to be kept; no machine is billed for ever.

**U-Boot recovery** (`scripts/uboot-recover.py`).
*State*: the stage of the recovery, a queue of events, three monitors (link, packet
capture, ssh).
*Operations*: wait for power off and link, probe and upload, trigger, wait for the
flash, the reboot and the boot, each with a deadline.
*Hard*: the monitors' events arrive in any order, twice, or from an earlier recovery;
each wait drops what it does not wait for.
*Correct when*: success means a system answered after the upload; a router that
answers is not given up; the script ends.

**Deploy helper of the MT3000 bench** (`scripts/mt3000-bench/bench-deploy-apk.sh`).
*State*: what is staged in the router's /tmp, what is installed, `package_path`, the
detached installation, the lease.
*Operations*: preflight, rotation of foreign packages, staging, on-device check,
launch, poll, read-back; `--verify-only`, `--dry-run`.
*Hard*: the lease is asked once; names are hashed at one time and installed at
another; the poll gives up on an installation that runs on.
*Correct when*: a refusal changed nothing; what is installed is what was named; a
verified build stays; nobody leaves an installation behind unsaid; the window is given
back.

**Deployment of CI builds** (`lib/deploy.py`; its callers `scripts/deploy-ci.sh`,
`scripts/test-pr.sh`, `tests/conftest.py`, `lib/cloud_lab/worker/deploy.py`).
*State*: the runs of CI and their artifacts, the Nostr index, `BUILD_DIR`, what is
installed, a session's wishes and run id.
*Operations*: wait for an artifact, factory reset, firstboot, fetch (Blossom, GitHub,
rerun of expired artifacts), copy, install, reboot, health poll.
*Hard*: no lease (only `test-pr.sh` asks for it) and one `BUILD_DIR` for all sessions; `Router.ssh` gives "" for a lost
connection and sends a command that timed out again; CI goes on meanwhile.
*Correct when*: a reported success is a build that passed the check of its branch; a
session ends.

**Mock mint and fault proxy** (`lib/mock_mint.py`, `tests/conformance/faultproxy.py`).
*State*: spent secrets and points, an error counter; rules with counts, observed
blinded messages.
*Operations*: swap, `checkstate`, injected errors; observe, choose a fault, forward;
install and clear rules.
*Hard*: a thread per request and no lock around test-then-mark; two critical sections
per proxied request.
*Correct when*: what an answered swap redeemed stays spent and shows as spent; no
reused blinded message reaches the mint unreported.

**Auto-payment, token recovery and the gateway's payment handler**
(`scripts/tollgate-clientd.py`, `scripts/recover_tokens.py`, `lib/mock_router.py`).
*State*: the session's remainder, the daemon's wallet, throttle and backoff; the
gateway's spent tokens; the file of tokens to recover.
*Operations*: poll, decide, take a token from the wallet, pay, await; check and submit
a filed token; test and record a token.
*Hard*: the token leaves the wallet before the answer is known; answers are lost or
late; payment threads test and record in two steps.
*Correct when*: no token is granted to a latecomer; a fault buys at
most one top-up too many; failures space the payments; a lapsed session comes back.

**Virtual lab** (`scripts/virtual-lab.py`).
*State*: per lab a router and a client (QEMU), their overlays and snapshots, pid files,
bridge and taps.
*Operations*: `prepare-image`, `prepare-debian`, `provision-debian`, `install-package`,
`start-poc` (`--fresh`, `--ephemeral-client`), `stop-poc`, the snapshot commands.
*Hard*: each command is many steps on the host and may be cut off between any two;
machines die; another lab's stop sweeps the host.
*Correct when*: a stop leaves nothing; a running router keeps its overlay; a lab that
is reported ready is reachable; every command ends.

**Flashing lanes and the install-path suite** (`scripts/cudy-flash.py`,
`lib/cudy_flash.py`, `scripts/fresh-flash.py`, `lib/fresh_flash.py`,
`scripts/install-path-e2e.py`, `tests/scenarios/test_install_paths.py`).
*State*: the box (firmware, power, TollGate, its ecash, the staged image, the vendor's
upload form), the lease of the MT3000.
*Operations*: `oem-upload`, `sysupgrade`, `install-tollgate` with its handover; `fresh-flash.py
--flash`; `install-path-e2e.py --flash-and-run`; the suite run by hand.
*Hard*: a flash wipes real ecash and the box goes on selling after the wallet was
read; exit codes and failed reads are partly ignored; the old system answers until it
goes down; the Cudy lane takes no lock; in the suite a gate is a test, and pytest goes
on after one that failed.
*Correct when*: what is lost could not have been seen; the leased box writes what was
verified; a run that ends well did what it says.

### Not modelled

| part | files | state, operations, what is hard | why not |
|---|---|---|---|
| GCP lab | `lib/cloud_lab/gcp.py` | the life cycle of `ShcRun`, the lease in instance metadata | deprecated by the repository's README; would repeat `ShcRun` |
| Pulumi variant | `lib/cloud_lab/pulumi_runner.py`, `pulumi_submit.py` | a Pulumi stack | its engine keeps the state and is not in the repository |
| Cloud-lab command line, other worker steps | `scripts/cloud-lab.py`, `worker/mints.py`, `network.py`, `runner.py` | sequential ssh and subprocess calls | what decides the machine's fate is in `ShcRun` |
| Decisions of the install paths | `lib/install_paths.py` | which artifact, which policy, whether it is the one | pure functions that touch no router; what acts on them is in `FlashLane` |
| Rest of the mock router | `lib/mock_router.py` | canned answers to the tests' shell commands | no state but what `TopUp` has of it |
| Switch recovery | `scripts/recovery/switch_tftp_recovery.py` | one TFTP transfer | what goes wrong is in the device |
| Venues, router access, preflight, protected devices | `lib/venue.py`, `lib/router.py`, ... | connection parameters | no state of their own |
| Payments and sessions in tests | `lib/cashu.py`, `lib/portal_payment.py`, ... | wrappers around wallets and HTTP probes | the protocol is the router's |
| Chaos helpers | `lib/chaos.py` | shell commands on a router | no state between calls |
| Parity loop, queue reconciliation | `scripts/parity_loop.py`, `scripts/pr-queue/reconcile.py` | read, classify, report | single-threaded, no protocol |
| Emulation benches, mesh laboratory | `scripts/upgrade-emulation`, `scripts/mint-zoo`, `scripts/meshlink-lab.py` | QEMU, network namespaces | sequential orchestration of the shape of `VirtualLab` |
| Bench appliances | `scripts/bench`, `scripts/signet-faucet` | host set-up, small services | the radio watchdog is a cousin of the one in `ApQuiesce` |
| Results publishing, rendering, visualizers | `lib/result_publisher.py`, `lib/fips_visualizer.py`, ... | uploads, formatting | pure I/O |
| Test suites; firmware laboratories | `tests/`, `esp32/`, `meshcore/`, ... | - | checks of other programs, external firmware |

Most of the implementation by lines is in these rows: long sequential programs that
run ssh, HTTP and subprocess steps, canned answers, rendering and tests. The models
cover the parts in which order, concurrency and failure decide.

## 2. The modules

    BenchOwner  <-- refined by --  BenchLease  <-- BenchLeaseProofs
        ^ ^ ^ ^
        | | | +-- INSTANCE --  HwQueue       <-- HwQueueProofs
        | | +---- INSTANCE --  ApQuiesce     <-- MCApQuiesce, ApQuiesceProofs
        | +------ INSTANCE --  DeployWindow
        |                        ^ EXTENDS
        |                      CiDeploy      <-- MCDeployWindow, DeployWindowProofs
        +-------- INSTANCE --  FlashLane     <-- MCFlashLane, FlashProofs
                               UbootRecovery <-- FlashProofs
                               ShcRun        <-- MCShcRun, MachineProofs
                               VirtualLab    <-- MCVirtualLab, MachineProofs
           MockMint <-- EXTENDS -- FaultProxy <-- MCFaultProxy, FaultProxyProofs
                               TopUp         <-- MCTopUp, TopUpProofs

`BenchOwner` is the abstract promise: one `owner`, and a `record` of it that outlives
an owner that died. `BenchLease` is shown to implement it; `HwQueue`, `ApQuiesce`,
`DeployWindow` and `FlashLane` are then built on the promise instead of on the lock
file, so that their instances stay small; that they do nothing to the bench that the
promise does not allow is proved of each (section 5). `FaultProxy` extends `MockMint`:
the proxy's threads call the mint's, and `CiDeploy` extends `DeployWindow`: both deploy
to one router. `MachineProofs` and `FlashProofs` hold the theorems of two components each: of the
machines that are started and have to be removed again, and of the programs that write
a router's firmware. Where two components meet in one module, the specification of one
has names of its own (`RunSpec`, `RunNext`, `RunTypeOK` of `ShcRun`; `RecoverySpec` and so
on of `UbootRecovery`; `DeploysSpec` of `CiDeploy`). The MC modules name the members of
the sets and give function and record constants their values.

Definitions whose comment starts with *Mistake* are not part of any specification:
each is a definition with a plausible bug, kept to see that the property it is aimed
at really fails when the bug is put in its place.

### BenchLease

One action is one system call on the lock file, so that everything another process
can do between a read, a truncate, a write and a flock is a behaviour.

| state | code |
|---|---|
| `flock` | which window's open file description owns the flock; it stays with a dead window while a child still has the descriptor |
| `probe` | a process that took the flock only to test it (`_flock_held`, `bench_is_held`) |
| `line` | the pid in the file's first line; `None` when it is empty |
| `pc`, `seen`, `work` | each window's process, the line as it last read it, whether its command runs |
| `req`, `rel`, `obs`, `report` | `require` inside a command, shell `release`, `status` commands |
| `acked` | history: dead windows whose record somebody overrode explicitly |

| actions | code |
|---|---|
| `OpenLocked`, `RefuseBusy`, `CheckStale`, `TruncateLine`, `WriteHolderLine` | `acquire` of `bench_lock.py`, `bench_acquire` of `bench-lock.sh` |
| `StartCommand`, `RefuseNotIdle`, `BeginHold`, `EndHold`, `EndBrief`, `CommandEnds`, `CommandReturns` | `exec`, `take`/`hold`, acquire-then-release |
| `ReadOwnLine`, `ClearOwnLine`, `Unlock`, `LingerEnds` | the release of one's own window; children that keep the descriptor |
| `Crash` | SIGKILL at any step |
| `RequireReadsLine`, `RequireProbes`, `RequireReturns` | `require` of either implementation |
| `ReleaseReads` ... `ReleaseRewipes` | `cmd_release`: judge, wipe, SIGTERM, poll, SIGKILL, re-read, wipe |
| `ShStatus...`, `PyStatus...` | `status`: the shell reads and then probes, Python probes and then reads |

Simplifications. A process is its pid, and a pid is handed out again only when
nothing names it any more. The fifty polls of `release` are one repeated action, so
"the poll gave up" may happen after any of them. The scan for retired lock files
and `prune-legacy` are left out: nothing else reads those files.

### HwQueue

Per tick: `TickStarts` (glob and `.poll.lock`), `ReadJob`, a lease child for the idle
preflight (`true`), `JudgePreflight`, `Prepare`, a lease child for the smoke test,
`JudgeRun`, `PostStatus`, `MoveToDone`. The child is a `hw-bench-lease exec`:
`LeaseOpens`, `LeaseProbes`, `CommandReturns`, `LeaseCloses`, and it may outlive a
killed shell (`KillPoller`) with the poll lock's descriptor, or be killed itself
(`KillLease`). `OtherWindow` is everybody else on the bench. `rc` holds the exit code
by kind, because the cases of the script tell only the kinds apart. Left out:
`--dry-run`, two job files with one name, the variant without `gh`.

### ApQuiesce

A client (run or watchdog) goes through its routers one after the other; on each the
remote script first changes the configuration (`ScriptSets`) and then, only if
something differed, commits and reloads (`ScriptReloads`), or fails (`ScriptFails`) or
hangs (`ScriptTimesOut`). `RunOpens`/`RunCloses`/`LeaseDies` are the lease process,
`CommandStarts`/`CommandEnds`/`WrapperEnds`/`WrapperDies` the wrapper script under it,
`LoginFails` the wrapper's login to OpenBao,
`WatchdogLooks`/`WatchdogSweeps`/`WatchdogEnds` the timer unit. The AP sections of one
router are modelled as one; the list of protected routers and `--dry-run` are left
out.

### ShcRun

`vm` is the provider's machine. `sub` is the submitter, which turns into the monitor;
`boot`, `outcome` and `marker` are the script on the machine, its tests and the status
files; `armed`, `expired` and `old` are the kill switch, the end of the lease and the
two hours after which the next submission's clean-up takes a machine. Time is abstract:
a lease may expire at any moment after arming. The constant `Switch` selects the kill
switch (the bounded-key `timer`, or the bootstrap's own `loop` or `at` job), `Faults`
what may fail. `asks` is how the API asks for a confirmation: not at all, with the id
where `self_cancel` looks for it ("flat"), or where `delete_self` does ("nested"); `shutBy`
records who shut a machine down without having cancelled it. Monitor and clean-up cancel
through `shc_toolkit`'s client and the timer with its own script, both outside the
repository; they are taken to confirm what they are asked to. The fifteen
steps of the bootstrap are one "steps" that may fail at any point; the manual
`cleanup-stale` and `status` commands and `submit-conwrt` are left out.

### UbootRecovery

`state` is the script's state, those with several steps split. `LinkPoll`, `PcapRead`,
`PcapRestarts` and `SshPoll` are the monitor threads that append to `events`;
`TakeEvent` is the main thread's wait, which drops what the stage does not wait for,
and `WaitTimesOut` its deadline. `Probe`, `Upload`, `TriggerFlash` and `Fallback` are
the handlers. The router and the operator may do what they physically can; the router
may ignore the image, and the link drops now and then. Events no stage waits for are
left out.

### DeployWindow

One action is one stage of the script: `Gate` (the lease is asked once), `Preflight`,
`Rotate`, `ClearPackagePath`, `Stage`, `VerifyStage`, `Launch`, `Poll`/`PollTimesOut`,
`ReadBack` (the hash) and `Report` (the exit code that speaks of it, later);
`Opens`/`Closes`/`LeaseDies`/`Killed` are its window and its end. A transfer inside
`Rotate` and `Stage` may be cut off, and `Rotate` says ROTATE_DONE of a rename that failed. `Installs` is the detached `install.sh`;
`Outsider`, `BombFires` and `Reboots` are others on the router. A hash is the build it
is the hash of; `code` holds the exit codes by name.

### CiDeploy

A *session* is one run of `deploy.py`'s operations on behalf of a caller, with a list of
wishes (branch, run id, wait, reset, force, reboot). `WaitPolls`, `WaitLooks` and
`WaitTimesOut` are `ensure_artifact`; `FactoryReset`, `FirstbootReset` and `Refuses` the
resets; `CheckDeployed` the test by which `deploy_branch` skips a healthy router;
`ClearBuildDir`, `Resolve`, `Curl`, `PickRun`, `Download` and `Flatten` are
`download_artifact`; `Deps`, `Copy`, `Install`, `InstallAnswers`, `InstallTimesOut`,
`Version`, `RebootRouter`, `Returns` and `Healthy` are `deploy` and `reboot_router`.
`RemoteRuns` is the install command line at work on the router, `Boots` its reboot,
`CiSteps` CI and whoever publishes. `Sent` and `Unsent` are the two ways `Router.ssh`
returns: a lost connection looks like a command with nothing to say. `dir` is
`BUILD_DIR`, with the names a Blossom download, a run's directory and the flattened
package have (a failed download may stay there, as `Junk`). GitHub lists the runs of a
branch (`Runs`); the index is searched by file name only, with "-" for "/" (`InIndex`):
`Carries` gives the branches for which a build's name passes, and a name may pass for
several. A session whose healthy router is left alone returns success like the others
(result "skipped"). Left out: a lost connection makes `detect_package_manager` say `opkg`
(`deploy.py:53-60`); on an apk router its command line then installs nothing, which
`RemoteRuns` may do anyway. `BenchSteps` are the steps of `DeployWindow` beside it; a session is the
`Outsider` of that module, with more steps. `lost`, `disturbed` and `wiped` are history:
whose connection failed unnoticed, under whom another changed router or `BUILD_DIR`, and
whose reset removed the old package.

### MockMint and FaultProxy

A swap is `Arrives`, `TestInjected`, `CountInjected` and then, input by input,
`TestInput`, `MarkSecret`, `MarkY`: the handler's statements, with every other thread
between any two. A proxied request is `Sends`, `Observe`, `Choose` (the two critical
sections), `Fault`, `Returns` or `Unreachable`; `SetRules` and `InjectsSwapErrors` are
the lanes. Delays, latency and notifications are one passing action, as none of them
changes state. Left out: a restart of the mint, which keeps its keyset (`mock_mint.py:101-105`)
and forgets the spent sets (`:106-107`), so that what was redeemed is redeemed again.

### TopUp

The daemon's loop is `Poll`, `Decide`, `Withdraws`/`WithdrawFails`/`WalletIsEmpty`,
`Sends`/`SendIsLost`, `Paid`/`Rejected`/`TimesOut`; the gateway's thread is `Validate`,
`Grant`, `Files`; a recovery is `Starts`, `Checks`, `Submits`, `Submitted`. Time goes in
`Tick`s, which use up the session. A token is worth one top-up.

### VirtualLab

`start-poc` is `Guard`, `MakeLinks`, `Overlay`, `Spawn`, `PidFile`, `Provision`, `Verify`
and then the same for the client; `stop-poc` is `KillClient`, `KillRouter`, `Sweep`,
`Unlink`; the snapshot, image and package commands are one or two steps each, as they
change one file. A step of several shell commands that fails leaves what those before it
did (old links deleted, an overlay removed, a tap without a bridge). `CutOff` ends a command
between any two steps; `Dies` is a machine that goes. What QEMU does is external: it locks its image, and a machine that loses its tap
never gets the network back. `run-poc` and `run-reseller` are these commands in a row.
Left out: a script on a remote host that goes on after its ssh has timed out (`:484`,
`:502`) and meets the next command.

### FlashLane

| state | what it is |
|---|---|
| `lane`, `owner`, `record` | which box, and the MT3000's lease (`BenchOwner`) |
| `firmware`, `power`, `tollgate`, `money`, `answers` | the box: what it runs and whether, TollGate, its ecash (some shows in the balance, some only as files), whether its CLI answers |
| `staged`, `form`, `burn` | the image in /tmp, in the vendor's form, and the flash the box has accepted |
| `args`, `pc`, `saw` | each run's command line, its next step, and what it read of the wallet |
| `blind` | history: runs that ended well on an answer they had not seen |

| actions | code |
|---|---|
| `Start`, `TakeBench` | the gates before anything is sent; `BenchLock.acquire` |
| `ReadBalance`, `ReadListing`, `FlashGuard` | the wallet gate: an unread balance is unknown, an answer without a recognised sum is zero, an unread listing is empty |
| `Reach`, `StageBegins`, `StageEnds`, `CheckStaged`, `Flash` | `tcp_probe`, `cat >` / `scp -O`, the sum on the device, `sysupgrade -n` |
| `WaitForSsh`, `ReadBoard`, `ReadPackage`, `ReadState`, `Hangs` | the wait and the checks afterwards; an ssh time-out that `fresh-flash.py` does not catch |
| `FetchPage`, `PostFile`, `Proceed`, `Apply` | `oem-upload` |
| `Prepare`, `Install` | `install-tollgate`: most command lines only say what is left to do; `--volatile` unpacks the package, `--run-install-path` goes on as `--flash-and-run` |
| `Session` | the pytest session of `install-path-e2e.py --flash-and-run`, after the lease and the wallet gate |
| `Fixtures`, `NextTest`, `Stops` | the suite run by hand: its fixtures, and a failed test (`red`) with the next one behind it; the flash and the checks are the actions above |
| `Scenarios`, `Arrives` | scenarios A and B: TollGate comes onto the box, or the suite fails |
| `Burn`, `PowerCut`, `Boot`, `Pay`, `Drain`, `ServiceStops`, `Killed`, `Reclaim` | the box, its customers, the operator |

Left out: the read-only commands, the checks of identity, policy and pages after an
install, the suite's upgrade scenario (opt-in, its gate and its flash are one test), its
policy pre-flight and lightning address (taken as given), the switch's spelling, the contents of images and
pages (an image is right or the gate refuses it).

## 3. The runs

| run | asks | distinct states |
|---|---|---|
| `lease` (Lease.cfg) | Four windows of four kinds (shell `exec` and `take`, Python `exec` and acquire-then-release), all killable at every step, two with `--reclaim-stale`. `OneWindow`, `OwnerNamed`, `OrphanFenced`, and `ImplementsBenchOwner`: every step is a step of `BenchOwner` or none. | 72,640 |
| `lease_live` (LeaseLive.cfg) | A shell and a Python window, both killable, with `release --force` and a status observer. `BenchReopens`, `ReleaseEnds`. | 43,992 |
| `hw_queue` (HwQueue.cfg) | Two overlapping ticks with `--all`, two jobs, another window that may die, failing posts, one kill. `SinglePoller`, `RerunOnlyAfterKill`, `GreenIsOwnPass`, and `JobEnds`: no job stays in the queue. | 988,312 |
| `ap_quiesce` (ApQuiesce.cfg) | Three leased runs (two arming, one sweeping) on two routers that may refuse, lease processes that may be killed. `FreeMeansQuiet`, `ArmedForCommand`. | 4,776 |
| `ap_quiesce_live` (ApQuiesceLive.cfg) | Killed wrappers, a refusing router and one that hangs, with the watchdog. `ApsGoDown`. | 6,174 |
| `shc` (ShcRun.cfg) | Two submissions, one with the loop (kept on failure), one with the timer (self-delete), submitters that die, ssh that fails, an API that asks for no confirmation or for either form of it. `NoneTakenEarly`, `LoopReclaims` (which exempts a machine shut down by the one who could not read the confirmation). | 416,695 |
| `uboot` (UbootRecovery.cfg) | Every order of link, packet and ssh events, a capture of an earlier recovery, one link drop, with and without `--no-upload`. `SuccessMeansSystem`, `GivenUpOnlyWhenSilent`, `Ends`. | 82,596 |
| `deploy` (DeployWindow.cfg) | Two deploys of different builds, one installing (with the lease or not), the other installing, verifying or rehearsing, with one fault of a killed lease or script, an outsider, a reboot, and transfers cut off anywhere; or one deploy beside one session that only deploys its branch; or a session of `deploy.py` alone, on a router with the build of "main", that waits for CI, or resets the router first in either way (one of the two with a run id and a reboot). `RefusedMeansUntouched`, `LeavesNoInstall`, `VerifiedBuildStays`, `InstallsTheArtifact`, `WindowIsGivenBack`; `SuccessMatchesBranch`, `SessionEnds`. | 491,331 |
| `fault_proxy` (FaultProxy.cfg) | Three swaps in flight, two over the same secrets in another order, two with the same blinded message, rules installed meanwhile, an injected error. `RedeemedStaysSpent`, `RedeemedShowsSpent`, `ReuseIsReported`. | 642,410 |
| `top_up` (TopUp.cfg) | A daemon with four tokens, one refused, two recoveries of a filed token, one fault. `NoLateGrant`, `OneTopUpPerFault`, `PacedByFailures`, `SessionComesBack`. | 928,653 |
| `vlab` (VirtualLab.cfg) | Three commands of one lab out of all eleven, beside another lab that is stopped, one command cut off or one death, steps that fail half done. `OverlayStaysUnderRouter`, `StopLeavesNothing`, `ReadyMeansReachable`, `CommandEnds`. | 429,202 |
| `flash` (FlashLane.cfg) | Two invocations, each of any command line of `CommandLines`, on either box, links that fail, killed runs, a box that refuses; the handover and the install-path suite included. `LostWasUnseen`, `WritesWhatWasVerified`, `SuccessIsReal`. | 1,839,172 |

The type invariants are theorems (section 5) and are not run again.

**Bounds.** The lease is symmetric in windows of one kind, and what two windows of the
same kind can do to each other two of different kinds can do as well, since they share
no state but the file; four windows give a dead owner, its orphan, a window that
reclaims and a fresh one. In the queue the errors need two ticks and one kill:
`MaxKills = 1`, `MaxOpens = 1` (how often the other program opens its window) still let
the bench be busy or stale in either of the two places where a tick takes it. For the
access points `MaxOpens = 4` starts is one more than the runs, so that a run follows
itself and every other; two routers are enough for one to fail or hang while the other
does not. Two submissions suffice for the clean-up of one to meet the machine of the
other. One link drop (`MaxDrops`) gives every stage of the recovery an event it does not
expect; packets are read while the queue holds fewer than `MaxQueue = 2`, which lets a
repeated and a stale one stand before a fresh one. Two deploys and one fault of each run
give every stage of one the other's staging, window or left-over installation (the
deploys differ in nothing but their names, so of two argument lists one order is enough);
one finds its build staged already, or a third build in `package_path`. A session alone
needs three builds: that of its own branch "fix/x" (no run of it, a running or a green one),
that of "main", and a green one of "fix-x", whose name passes for its own. The index is
empty or has all green ones; empty it is tried only for a session without a firstboot and
with a run of its branch, and a session waits on an `opkg` router only, since it asks for
the package manager later. CI takes `MaxCi = 1` step, which
is the run that never ends, the one that ends while it is watched, the artifact that
expires between finding and fetching it, or the build that appears in the index late;
CI only moves while a session asks it, since nobody else reads it. Beside a session the
fault is the session, and CI stands still. Three
swaps are two that overlap and one that is late; one control request changes the rules
between the two critical sections. `Throttle = 1`, `BackoffMax = 3` let the backoff double
and reach its cap; with four tokens one can be refused, one lost and granted late, and two
bought beside it. Three commands are a start, what is done to its files, and the next start or stop; the serial
console is tried `Attempts = 2` times, so that one attempt may be a retry. Two flashing
runs are what stages over, or installs beside, one another; what a third would add is
another such neighbour. The runs of `FlashLane` are interchangeable (SYMMETRY, no
liveness). Nothing else is bounded, and the theorems of section 5 have no bounds.

**Deadlock** is checked for the lease, which can always be launched again, and for the
recovery, whose end is a step of its own (`Done`). The other runs end: jobs, starts,
machines, requests, commands and invocations are used up.

## 4. Fairness

Liveness is checked under these assumptions and no others.

* A process that is not killed takes its next step (weak fairness per process): the
  operating system's scheduler.
* A command, a hold, a smoke test, a worker's tests end: the scripts bound them with
  timeouts, `hold` with its `--hold` time.
* Cron and the systemd timer fire again (`TickStarts` is part of `Polling`,
  `WatchdogLooks` of `Watching`). Strong fairness of "the watchdog looked and the bench
  was free" and of a router's answer says that bench and routers are not found busy
  every single time; only `ApsGoDown` needs it.
* Other programs' windows close, leases expire, a machine that is shutting down goes
  off.
* The recovery's deadlines pass and its handlers return (`WaitTimesOut` and the like);
  no event and nothing of the router is assumed, so `Ends` rests on the deadlines.
* A deploy's script goes on unless it is killed, its poll gives up after its last round,
  and a window whose command is over closes. The round itself is one `ssh` with a
  ConnectTimeout only: of a connection that hangs once it is up the code does not rid
  itself, and that it ends is assumed here.
* A session's process goes on, and the deadline of its wait and the timeout of its watch
  come (`WaitTimesOut`); of CI, the index and the router nothing is assumed, so
  `SessionEnds` rests on the limits the code sets.
* Time passes, the daemon goes round its loop, a payment thread of the gateway finishes.
  The wallet's process, too, is assumed to end: `subprocess.run` gives it no time limit
  (`tollgate-clientd.py:303`, `:318`).
* A command of the virtual lab goes on or times out (`run_remote`'s limit); what its
  machines do is not assumed.

Nothing is assumed of launches, kills, who wins a contended flock, submitters, monitors,
customers or operators. `JobEnds` and `ApsGoDown` are about a system in which kills and
foreign windows do not go on for ever (`MaxKills`, `MaxOpens`), `SessionComesBack` about
one with finitely many faults (`MaxFaults`). `FaultProxy` and `FlashLane` state no
liveness: a proxy's thread and a flashing run may wait for somebody outside.

## 5. What is proved

All theorems hold for every value of the constants that meets the named assumptions of
the modules (kinds of processes are disjoint, `None` is nobody, job names are numbers,
requests are finitely many, and the like) and the hypotheses stated here.

| theorem | says | hypotheses |
|---|---|---|
| `TypeCorrect` | `[]TypeOK` of `BenchLease` | |
| `MutualExclusion` | `[]OneWindow` | |
| `OwnerIsNamed`, `OrphansAreFenced` | `[]OwnerNamed`, `[]OrphanFenced` | no shell `release` |
| `LeaseIsBenchOwner` | `BenchLease` implements `BenchOwner` | no shell `release` |
| `TermWaitsForCommand` | `[]CommandInWindow` | no Python `exec`, no SIGKILL, no `--force` |
| `QueueTypeCorrect`, `OnePollerAtATime` | `[]TypeOK`, `[]SinglePoller` of `HwQueue` | |
| `GreenIsEarned` | `GreenIsOwnPass` | |
| `KillsPayForReruns` | `[]RerunOnlyAfterKill` | |
| `QuiesceTypeCorrect` | `[]TypeOK` of `ApQuiesce` | |
| `CommandsFindApsArmed`, `FreeBenchIsQuiet` | `[]ArmedForCommand`, `[]FreeMeansQuiet` | no watchdog, hanging router, killed wrapper or dropped session (`NoHalfWay`) |
| `QueueKeepsToTheBench`, `RunsKeepToTheBench`, `DeploysKeepToTheBench`, `FlashesKeepToTheBench` | `HwQueue`, `ApQuiesce`, `CiDeploy` with `DeployWindow`, and `FlashLane` implement `BenchOwner` | |
| `RunTypeCorrect`, `NothingTakenEarly` | `[]TypeOK`, `NoneTakenEarly` of `ShcRun` | |
| `LoopStaysCancellable` | a machine under the loop is shut down uncancelled only by the one who misread the confirmation, and while it is on after the bootstrap started the loop is armed | the API answers |
| `RecoveryTypeCorrect`, `SuccessIsASystem`, `GivenUpIsSilent` | `[]TypeOK`, `[]SuccessMeansSystem`, `GivenUpOnlyWhenSilent` of `UbootRecovery` | |
| `LabTypeCorrect`, `StoppedLabIsEmpty`, `ReadyLabIsReachable`, `RunningRouterKeepsItsOverlay` | `[]TypeOK`, `[]StopLeavesNothing`, `[]ReadyMeansReachable`, `[]OverlayStaysUnderRouter` of `VirtualLab` | |
| `FlashTypeCorrect`, `BenchWritesWhatWasVerified`, `LostEcashWasUnseen`, `FlashSuccessIsReal` | `[]TypeOK`, `[]WritesWhatWasVerified`, `LostWasUnseen`, `SuccessIsReal` of `FlashLane` | |
| `SessionTypeCorrect`, `SessionSuccessMatchesBranch` | `[]SessionTypeOK`, `SuccessMatchesBranch` of `CiDeploy` | |
| `DeploysHoldBesideSessions` | the five of `DeployWindow` below, of `CiDeploy` | |
| `DeployTypeCorrect`, `RefusalsTouchNothing`, `InstallsAreAccounted`, `InstallsWhatItNamed`, `VerifiedStays` | `[]TypeOK`, `[]RefusedMeansUntouched`, `[]LeavesNoInstall`, `InstallsTheArtifact`, `[]VerifiedBuildStays` of `DeployWindow` | |
| `ProxyTypeCorrect`, `NoSecretIsRedeemedLater`, `RedeemedIsReported`, `NoSilentReuse` | `[]TypeOK`, `[]RedeemedStaysSpent`, `[]RedeemedShowsSpent`, `[]ReuseIsReported` of `FaultProxy` with `MockMint` | |
| `TopUpTypeCorrect`, `NothingGrantedLate`, `NothingBoughtTwice`, `FailuresSlowTheDaemon` | `[]TypeOK`, `[]NoLateGrant`, `[]OneTopUpPerFault`, `PacedByFailures` of `TopUp` | |

The hypotheses are needed: without the first LeaseStolenLine.cfg breaks `OwnerNamed`,
without the second LeaseTerm.cfg breaks `CommandInWindow`, and `NoHalfWay` excludes what
ApQuiesceDone.cfg, ApQuiesceFree.cfg and ApQuiesceHang.cfg show.

**BenchLease.** `TypeOK` is not inductive: `release` puts the pid it read into its
signals, so `ReleaseHasPid` (a release past its first step read a line that was not
empty) goes with it. `OneWindow` is inductive with `TypeOK`; its second half, that no
probe is granted while a window is open, is what makes the step that takes the flock
preserve the first. `OwnerNamed` and `OrphanFenced` follow from `RecordInv`, which adds
where in its opening and closing a window is sure of the line: between `trunc` and
`write` it is empty, at `clear` the window has just read its own pid, and a command runs
only with its record written or overridden. A dead window's command keeps the record
until the `TruncateLine` of a `--reclaim-stale` window moves it to `acked`. The refinement maps
`owner` to the window whose line is written and not yet cleared and `record` to `line`;
`OwnerFacts` (from `OneWindow` there is at most one such window) discharges the CHOOSE.
`WriteHolderLine` is `Open`, `TruncateLine` is `Override`, `ClearOwnLine` is `Close`,
`Crash` is `Die`, the rest stutter. `WaitedFor` says that without kills a command's
process is waiting for it, which a shell's TERM trap cannot cut short.

**HwQueue.** `SinglePoller` needs to know that a tick without a child does not own the
bench (`WindowIsChild`) and that a tick at work has a job that is still in the spool
(`HasJob`): together `QueueInv`. `GreenInv` follows a green verdict back to the exit code
and from there to the test's own result. `RerunInv` does the accounting: a job that is
still in the spool and was run more often than there were kills is in the hands of the
tick that ran it (`RunsPaid`), and an orphaned child that has yet to start its test was
paid for by the kill that orphaned it (`OrphanPaid`).

**ApQuiesce.** `RunInv` ties a wrapper's place to the lease (who arms, runs or cleans up
is the recorded owner) and to its script (a script about to reload has configured its
router the way it was asked to). `ArmedInv` adds that a router armed without a failure
is configured on; nobody else is the owner, so nobody else's script touches it.
`QuietInv` says that radios differ from the configuration only under a script about to
reload them, and that a router on the air is `Covered`: still to be swept by the owner,
or reported as failed.

**ShcRun.** `DueInv` says what entitles each party: a bootstrap at `delete` has an
outcome that permits it, the "done" marker is written only after a pass, no marker
stands before the steps are over, and a monitor that cancels has read one. `LoopInv` is
the safety half of `LoopReclaims`: the bootstrap arms its loop before anything else, only
worker and switch shut a machine down, and without having cancelled it only with a
confirmation they looked for in the wrong place (`Misread`).

**UbootRecovery.** `SuccessInv` accounts for the events: the ssh monitor runs only in the
last stage, so an `ssh_up` anywhere in the queue, and a system running in a stage after
the upload, mean that a system booted after it. Three lemmas on `Head`, `Tail` and
`Append` carry that through the queue, of any length.

**DeployWindow.** `DeployInv` relates a deploy's place, plan, exit code, changes and
installation; `ScriptKeeps` shows that one deploy's step leaves the others' alone. For
`VerifiedBuildStays`, `LeaseInv` says that as long as no lease died a working deploy
owns the bench: the only other hands on the router are those the property names. They
are named broadly: one outsider or one dead lease process at any time of the run, a
`package_path` on the router, or another deploy that was reported or killed excuses a
build that is gone. `StagedInv` says that under a build's name stands that build or
nothing, and under the plain name what a deploy that reuses it saw there unless an
outsider has been: that is what `InstallsTheArtifact` rests on between the check of the
staged file and apk's read of it.

**CiDeploy.** A session is to the deploys an outsider with more steps: `DeploysStep` shows
that each of its steps is `Outsider`'s or leaves bench and deploys alone (a reboot under a
deploy loses what was installing, which `Steady` allows for), so that `StaysInv`, the
invariant of `DeployWindow`, holds beside any number of sessions. Of a session itself
`PathInv` says what it chose and sent (its run and what it has listed are of its branch, what the index gave it at least by name;
a command line is on the router only after `Install` sent it, the second only after the
first; when the version is asked over a connection that never failed unnoticed, the last
command line is done), and `RouterInv`, as long as nobody disturbed it, what there is in
`BUILD_DIR` and on the router (only builds that are taken for its branch's, `Taken`, or the error page that no
package manager installs). The clause that carries the success is the last: once a
command line is past "stop" and the backend is up, the installed build is such a one;
it is inductive only with the clause before it and with `bin` in every "added". Other
sessions and deploys keep both or disturb the session (`AsideKeeps`, `OthersInv`).
`SuccessMatchesBranch` asks of a session that names a run that this run is of its branch
(`AsksOwn`): the wishes that TLC tries are all so, the theorem has to say it. That the
newest of some builds is one of them (`NewestIsOne`) needs finitely many builds, and is
proved with the well-founded order of finite sets.

**VirtualLab.** `LabInv` is one invariant per command and lab: `stop` unlinks when machines
and taps are gone, `start` waits for the client over a router that answered, and a router
keeps its overlay because each path that deletes an overlay has seen the router stop
first, which only a start that is cut off between spawn and pidfile can spoil (`"orphan"`); a
command cut off or failing anywhere else cannot.

**FlashLane.** `FlashInv` says of a run that on the leased box it is past its lock only as
the owner, that a file it is about to flash there is whole (only the owner stages), and
that past the gate its own look accounts for what the router holds (`NothingUnseen`:
`GateFailsClosed` is the step that makes it so); of the box, the same of the flash it
accepted, and that the vendor's firmware carries no TollGate. `FlashSuccessIsReal` then
follows from the three steps that end a run well (`WhoEndsWell`) and the one that finds a
box fresh (`WhoSaysFresh`).

**The bench.** `LeaseIsBenchOwner` says that the lock file keeps `BenchOwner`'s promise,
and the four `...KeepToTheBench` that the programs over it do not do more than the promise
allows: open a window of their own on a free bench without a record, close or lose only
that, and override a record only where they are entitled to. Neither is of use alone.

**FaultProxy.** `SwapInv` holds of each request whatever the others do, because the store
only grows (`StoreGrows`): inputs the handler is past are spent, recorded and were not
redeemed before the request came. That is all that a missing lock leaves of "spent
once", and it is enough for `RedeemedStaysSpent`. `ObservedInv` (a request past its
observation is among the sightings of its message) gives `NoSilentReuse` with the
monotony of cardinality, for which the requests have to be finitely many.

**TopUp.** `HoldsToken` makes `TypeOK` inductive. `SpentInv`: a granted token is in the
spent set, so that a request which came after a grant was answered can only be tested
and refused. `PayInv` counts the payments
that were given up and may be granted yet (`Late`): no more than there were faults, and the
session with all of them paid in (`Debt`) is what a renewal may find, one top-up per fault
and one more; the daemon decides on a reading no older than its last payment. `PaceInv` says that the
clock the daemon reads is never ahead of the time since its last failure, and that its
backoff is no less than the throttle doubled by every failure in a row, or the maximum.
That bound, `Pause`, is a recursive function. The library's induction takes an operator,
which the provers cannot instantiate; but a set of numbers that holds 0 and every
successor is all of them (`EveryNumber`, from the well-founded order of finite sets), and
with that the function is shown to exist and to double (`PauseDoubles`).

**Only model-checked.** All liveness (`BenchReopens`, `ReleaseEnds`, `JobEnds`,
 `ApsGoDown`, `LoopReclaims`, `Ends`, `WindowIsGivenBack`, `SessionEnds`,
`SessionComesBack`, `CommandEnds`): it rests on fairness, which is out of the prover's reach.
Every invariant and action property of the runs is a theorem. The configurations of
section 6 show what is false, and are counterexamples of TLC's.

## 6. Where the code and its documents disagree

No run of section 3 expects a violation; each of the following has a configuration of
its own (`tlc -config X.cfg M`) and is found violated there.

| cfg, module | property | what happens |
|---|---|---|
| LeaseStolenLine.cfg, BenchLease | `LineNotStolen` | `release` clears the line without the flock, on a reading that may be old; after `--reclaim-stale` by another window it is that window's line (`bench-lock.sh:345`; `:254` "never steal another window's line") |
| LeaseTerm.cfg, BenchLease | `CommandInWindow` | `hw-bench-lease exec` has no SIGTERM handler (only `hold` has), so `release` ends its process and its command runs on without a window (`bench-lock.sh:359`) |
| LeaseRequire.cfg, BenchLease | `RequireInWindow` | shell `require` passes an orphan while anybody holds the flock (`bench-lock.sh:321`; `mt3000-bench/README.md:118` "unless the script is already inside a lock window") |
| LeaseRequirePy.cfg, BenchLease | `RequireComparesPid` | Python `require()` skips the comparison when the line is empty (`bench_lock.py:482`; docstring at `:469`) |
| LeaseStatus.cfg, BenchLease | `StaleReportTrue` | `status` reads line and flock in two steps and may report a window that opens or closes between them as stale (`bench-lock.sh:131`; `docs/router-mutex.md:72`) |
| HwQueueRed.cfg, HwQueue | `RedIsOwnFail` | exit code 3 of `hw-bench-lease` (a stale lease) has no case in `poll-queue.sh:153` and is posted as a failed walkthrough (`scripts/hw-dispatch/README.md:57` "a red status never masquerades as a code verdict") |
| HwQueueDone.cfg, HwQueue | `DoneIsPosted` | a job whose post failed is archived all the same (`poll-queue.sh:79`; `hw-dispatch/README.md:58`) |
| HwQueueKeep.cfg, HwQueue | `EnqueuedIsKept` | a tick that reads the spool file between its creation and its write discards it as "no sha" (`poll-queue.sh:90`), and `enqueue.sh` goes on to announce it (`enqueue.sh:42`) |
| ApQuiesceStale.cfg, MCApQuiesce | `ApsGoDown` | the watchdog waits for "bench free"; after the owner was killed the lease is stale, and nobody quiesces (`prta-quiesce-watchdog.sh:13`) |
| ApQuiesceFree.cfg, MCApQuiesce | `WatchdogSparesRuns` | the sweep follows one status check and holds no lease: a run that opened meanwhile loses its APs (`prta-quiesce-watchdog.sh:23`; `:5-6`) |
| ApQuiesceDone.cfg, MCApQuiesce | `DoneMeansDown` | after a script that was cut off between configuration and reload, the next finds nothing to change and says QUIESCE_DONE with the APs up (`quiesce-router.py:57`; `:9`) |
| ApQuiesceHang.cfg, MCApQuiesce | `ApsGoDown` | one router's timeout ends `--all` for those after it (`quiesce-router.py:205`; `:231`) |
| ShcRunTimer.cfg, MCShcRun | `LeaseReclaims` | with the bounded key a passing run's machine is billed on: the worker has no key to cancel with and shuts the machine down, with the timer on it that would have cancelled it (`vms.py:577`) |
| ShcRunConfirm.cfg, MCShcRun | `LeaseReclaims` | with the loop, and an API that puts the confirmation id at the top of its answer, the worker does not find it (`vms.py:603`) and shuts the machine down, and the loop with it; nested, it is `self_cancel` that does not find it (`shc_submit.py:199`; `docs/pulumi-shc-spike.md:83-84` "the VM self-destructs at lease expiry even if the submitter process is killed") |
| VirtualLabEphemeral.cfg, MCVirtualLab | `EphemeralLeavesClient` | `snapshot_opts="-snapshot"` (`virtual-lab.py:1242`) is cleared (`:1262`) before QEMU gets it (`:1278`): the client's overlay is written to (`:1773` "writes are discarded on stop-poc") |
| VirtualLabLanes.cfg, MCVirtualLab | `StopsOnlyOwnLab` | the sweep of `stop-poc` kills every QEMU of the host (`virtual-lab.py:1451`; `:71-73` "dual-OS lanes run concurrently") |

The next ones are properties stated in a module, each violated under the configuration
named when it is put in place of that configuration's properties.

| property (cfg) | what happens |
|---|---|
| `FlashCompleteIsTrue`, `SuccessMeansFlashed` (UbootRecovery.cfg) | a repeated or stale ARP records `flash_complete` with the router still in U-Boot (`uboot-recover.py:16`); success means that a system answers, which the old one does when the image was ignored |
| `TransferMeansNotInstalled` (DeployWindow.cfg) | a connection that is lost in the read-back after the installation ends with exit code 9 (`bench-deploy-apk.sh:456-457`), "transfer failed (nothing installed)" (`:43`) |
| `VerifyOnlyReadsOnly` (DeployWindow.cfg) | `--verify-only`, "read-only" (`:35`), clears `package_path` when `--clear-package-path` is given too (`:379-382`; only the rotation asks for the mode, `:371`) |
| `AskedRunIsInstalled` (DeployWindow.cfg) | a session that names a run gets the newest build that the index has for its branch instead: Blossom comes before the run id (`deploy.py:756-778`; `tests/conftest.py:256-257` "Specific CI run ID") |
| `BranchesAreKeptApart` (DeployWindow.cfg) | the index is searched for a file name with `_<branch>.` in it, "/" written "-" (`deploy.py:607-610`): for "fix/x" the newest build of "fix-x" is taken, installed and reported (`:649-650` "a feature-branch artifact is never used to test a different branch") |
| `FactoryResetRemoves` (DeployWindow.cfg) | the factory reset asks `opkg` to remove the package (`deploy.py:1054`), which does nothing on an apk router; the old build goes on running (`conftest.py:260-261` "Remove TollGate before deploying (clean slate)") |
| `SuccessIsVerified` (DeployWindow.cfg) | success is a 200 of whatever backend answers: with a lost install command, or a refused package and a reboot, that is the build that was there before (`deploy.py:964-976`; `README.md:224` "installs via `opkg`, restarts services, and verifies") |
| `RebootIsOver` (DeployWindow.cfg) | an answer "UP" of a router that has not yet gone down ends the wait for the reboot, and success is reported before it (`deploy.py:276-289`; `conftest.py:264-265` "wait for it to come back") |
| `RedeemedOnce`, `RefusedSpendsNothing` (FaultProxy.cfg) | two overlapping swaps both pass the test of a secret (`mock_mint.py:253`); a swap refused at its second input has spent its first |
| `ReportedReachedTwice` (FaultProxy.cfg) | a message is observed before its fault is chosen, so a retry of a request that never reached the mint is reported as reuse (`faultproxy.py:6-8` "must reach the mint at most once") |
| `GrantedOnce` (TopUp.cfg) | two overlapping payments with one token are both granted (`mock_router.py:280`) |
| `ProvisionedIsConfigured` (VirtualLab.cfg) | a retry takes a shell prompt for a provisioned router, also when the first attempt was cut off half-way (`virtual-lab.py:541-545`); and the script's own Enter (`:225`) can activate the console, so that a first attempt takes a fresh router for a provisioned one (`:237-244`) |
| `SuiteSparesWallet` (FlashLane.cfg) | in the suite the wallet gate is one test and the flash the next: a refusal is a failure after which pytest flashes all the same, and a box taken for one with `opkg` (an older image, or no answer) is flashed without the gate (`test_install_paths.py:480`, `:525`; `docs/install-paths-e2e.md:254`, `:268` "the same gate runs as `TestFreshFlashPrerequisite::test_02`") |
| `EndToEndRuns` (FlashLane.cfg) | `--flash-and-run` holds the lease for which the session it starts asks again; the lease is not re-entrant (`bench_lock.py:540-561`), so every test is skipped and the exit code is 0 (`install-path-e2e.py:613` "the test module holds it too"; `docs/install-paths-e2e.md:310` "wallet gate -> flash -> both install paths") |

Notes without a property of their own.

*SHC.* `set -e` ends the bootstrap when the worker exits with 1 (failed tests), so its
`-gt 5` test and `PIPELINE_DONE` are reached only after a pass, and a monitor of a failed
run waits for its timeout. `self_cancel` and `delete_self` look for the confirmation id in
different places of the API's answer, so with either form one of them cannot cancel
(`asks`, ShcRunConfirm.cfg). The `at` job calls `self_cancel`, which is a function of the script
that wrote it (`Switch = "at"`). A run of branch main without a commit gets the host
name prefix that the clean-up spares (`Spared`). A failure between the order and the
arming leaves a machine without kill switch, for a later submission to clean up.

*Payments.* `clientd` forgets a token whose payment was refused or timed out
(`tollgate-clientd.py:415-418`). `recover_tokens.py` calls any answer below 400 SUBMITTED
(`:442-446`) and a state the mint does not resolve SPENT (`:423`).

*Deployment of CI builds.* `deploy.py` takes no lease, and of its callers only
`test-pr.sh` asks for it (`:167-173`); all share `BUILD_DIR` (`deploy.py:16`):
beside another session one may install, and report as a success, what the other fetched,
which is why `SuccessMatchesBranch` speaks of undisturbed sessions only. Without `force` a
healthy opkg router is left alone and the session returns success with "skipped"
(`deploy.py:1213-1221`), whatever build and branch runs on it; `deploy-ci.sh:34-38` prints
`success=True` and exits with 0. Such a session says nothing of its branch, and
`SuccessMatchesBranch` counts it only after a reset that removed the old build. No hash is compared
after a Blossom download, though "SHA256 content addressing protects against forged
events" (`deploy.py:660-661`): any answer over 1000 bytes is the artifact. After a wait
that ended with the index, the run id is "blossom"; if the download then fails, GitHub is
asked for a run of that name. `Router.ssh` sends a command that timed out again, the
install command line included, while the first one still runs.

*Virtual lab.* The Debian provisioning template (about `virtual-lab.py:397-408`) uses a
name it does not define. `prepare-image` does not make a broken image again (`:705-719`).

*Flashing.* `cudy-flash.py` prints "serialising on ..." with
`TOLLGATE_CUDY_TAKE_BENCH_LOCK=true` (`:240`; `docs/cudy-wr3000-flashing.md:387`), but takes
no lock; the model's two runs on the Cudy interleave freely, and `WritesWhatWasVerified` is
a promise about the leased box only. "Flashing is doubly gated" (`fresh_flash.py:70`,
`docs/install-paths-e2e.md:254`), but `fresh-flash.py --flash` never asks for the
environment switch, only `--check` does. "This gate fails closed" (`fresh_flash.py:284`)
is true of a balance that was not read. An answer in which no sum is recognised counts as
zero (`fresh_flash.py:183-191`), and a listing that did not answer as no files
(`fresh-flash.py:156`): both together are the exception `LostWasUnseen` has to make; and after the
flash a package query or listing that did not answer counts as fresh (`blind` in
`SuccessIsReal`). Stage 1 ends with "then run stage 2" (`cudy-flash.py:517`), whose wallet
gate refuses every box without the `tollgate` CLI unless told `--allow-nonempty-wallet`.
Stage 3 with `--run-install-path` hands over to `--flash-and-run`, which would flash the
box once more, with the MT3000's image and under the MT3000's lease; its wallet gate
refuses the box that stage 2 left (no `tollgate` CLI), and behind that gate nothing runs
(`EndToEndRuns`). The reboot applies of stage 1 are "best-effort; the box reboots under us" (`:507`), but a
box that does reboot ends the run with an uncaught `URLError`, and their status is only
printed, so a box that did not start still gives exit code 0. `fresh-flash.py` does not
catch the time-out of its ssh: when `sysupgrade` keeps the session open it gives the
lease back while the box is being written. `cmd_*` never return `EXIT_WALLET`: every
`FlashRefused` ends as `EXIT_SWITCH_OFF` (`:976-978`).

## 7. The plan

Done: every module of section 2 and the proofs of section 5. What is left, in this order:

1. **Scenarios of the install-path suite** (`tests/scenarios/test_install_paths.py`): A, B
   and the upgrade step by step, with what a package, the installer and an upgrade leave
   behind; today one step, `Scenarios`.
2. **Proofs**: the safety half of what is left to TLC: that a session, a recovery and a
   flashing run that have not ended always have a step to take (the guards as a
   disjunction, since ENABLED is out of reach), and the bounds that make their waits end.
3. **Worker pipeline** (`lib/cloud_lab/worker`): the machines and mints a run makes on the
   rented host, and who removes them when a step fails.
4. A refinement of an abstract dispatch queue (a job is pending, then decided once) by
   `HwQueue`, and of an abstract mint that spends atomically by sequential uses of
   `MockMint`.
5. **Emulation benches** (`scripts/upgrade-emulation`, `scripts/meshlink-lab.py`) as
   instances of the shape of `VirtualLab`.
