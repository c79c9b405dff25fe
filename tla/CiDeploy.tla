------------------------------- MODULE CiDeploy -------------------------------
(***************************************************************************)
(* lib/deploy.py: sessions (test-pr.sh, pytest --tollgate-branch,          *)
(* deploy-ci.sh, the cloud worker) that deploy a branch as CI built it.    *)
(* A session waits for an artifact (ensure_artifact), resets the router    *)
(* (factory_reset, firstboot_reset), fetches the artifact                  *)
(* (download_artifact), installs it (deploy), reboots (reboot_router) and  *)
(* polls the backend.                                                      *)
(*                                                                         *)
(* lib/deploy.py does not ask for the bench lease, and of its callers only *)
(* test-pr.sh does: to bench-deploy-apk.sh (DeployWindow) its sessions are *)
(* the outsiders.  All sessions of a host work in one BUILD_DIR.  CI, the  *)
(* Nostr index and the router are external.                                *)
(***************************************************************************)
EXTENDS DeployWindow, Sequences

CONSTANTS
  Session,
  Branch,   \* the branch a build is of
  Carries,  \* the branches for which a build's file name passes: those whose
            \* name, with "-" for "/", stands in it between "_" and "."
  Age,      \* the order in which builds are made
  Wishes,   \* argument lists: branch, run (a run id, or None), wait, reset, force, reboot
  Casts,    \* who takes part, deploys and sessions
  MaxCi     \* bound: steps of CI and of the index

\* What GitHub lists is finite; "blossom" stands for what only the index has.
ASSUME BuildsAreFinite == IsFiniteSet(Build)
ASSUME BlossomIsNoRun == "blossom" \notin Build
ASSUME WishesAreRecords ==
  Wishes \subseteq [branch : STRING, run : Build \cup {None}, wait : BOOLEAN,
                    reset : {"no", "factory", "firstboot"}, force : BOOLEAN,
                    reboot : BOOLEAN]
ASSUME BranchesAreNamed == Branch \in [Build -> STRING] /\ Age \in [Build -> Nat]
ASSUME NamesCarryBranches == Carries \in [Build -> SUBSET STRING]
ASSUME SessionsDiffer == Session \cap (Deploy \cup Build \cup {None}) = {}
ASSUME CastsAreSets == Casts \subseteq SUBSET (Deploy \cup Session) /\ MaxCi \in Nat

VARIABLES
  ci,        \* a build's run: "absent", "running", "green" or "red"
  stored,    \* the runs whose artifacts can be downloaded
  index,     \* the builds the Nostr index names
  ciSteps,
  manager,   \* the router's package manager
  up,        \* the backend answers 200
  dir,       \* BUILD_DIR: what is under each name
  spc, wish,
  listed,    \* the runs ensure_artifact has yet to look at
  run,       \* a session's run id: a build's, "blossom" or None
  file,      \* the name of its artifact
  remote,    \* its install command, sent once or twice, on the router
  boot,      \* its "reboot" or "firstboot" command, not yet carried out
  result,
  cast,
  lost,      \* history: sessions whose connection failed unnoticed
  disturbed, \* history: sessions under which another changed the router or BUILD_DIR
  wiped      \* history: sessions whose own reset removed the package

world == <<ci, stored, index, ciSteps, manager>>
mine == <<spc, wish, listed, run, file, remote, boot, result, cast, lost, wiped>>
sessionVars == <<world, up, dir, mine, disturbed>>
allVars == <<vars, sessionVars>>

Junk == "junk"     \* an error page, saved as the artifact
Flat == <<"flat", None>>
DirNames == ({"curl", "run"} \X Build) \cup {Flat}
Nothing == [n \in DirNames |-> None]
Idle == <<"none", "none">>
RemoteSteps == {"none", "stop", "add", "added", "refused", "done"}

CiInit ==
  /\ ci \in [Build -> {"absent", "running", "green"}]
  /\ stored = {b \in Build : ci[b] = "green"}
  /\ index \in {{}, stored}
  /\ ciSteps \in {0, MaxCi}

DeploysInit ==
  /\ Init
  /\ CiInit
  /\ cast \in Casts
  /\ \A d \in Deploy \ cast : opt[d] = CHOOSE o \in Options : TRUE
  /\ cast \cap Deploy = {} => tmp["plain"] = None /\ bomb = None
  /\ manager \in (IF cast \cap Deploy = {} THEN {"apk", "opkg"} ELSE {"apk"})
  /\ up = (bin # None)
  /\ dir = Nothing
  /\ spc = [s \in Session |-> "idle"]
  /\ wish \in [Session -> Wishes]
  /\ \A s \in Session \ cast : wish[s] = CHOOSE w \in Wishes : TRUE
  /\ listed = [s \in Session |-> {}]
  /\ run = [s \in Session |-> None]
  /\ file = [s \in Session |-> Flat]
  /\ remote = [s \in Session |-> Idle]
  /\ boot = [s \in Session |-> "no"]
  /\ result = [s \in Session |-> "none"]
  /\ lost = {} /\ disturbed = {} /\ wiped = {}
-----------------------------------------------------------------------------
\* Session s goes on at l, or ends.
Go(s, l) == spc' = [spc EXCEPT ![s] = l] /\ UNCHANGED result

Finish(s, r) ==
  /\ spc' = [spc EXCEPT ![s] = "ended"]
  /\ result' = [result EXCEPT ![s] = r]

\* A remote command whose connection fails returns "" like one that has
\* nothing to say: Router.ssh raises only when it timed out twice.
Sent(s) == UNCHANGED lost
Unsent(s) == lost' = lost \cup {s}

\* A remote command that matters for nothing but the time it takes.
Passes(s, next) ==
  \/ Go(s, next) /\ (Sent(s) \/ Unsent(s))
  \/ Finish(s, "failed") /\ Sent(s)

Resets(s) == wish[s].reset # "no"
AfterWait(s) == IF Resets(s) THEN wish[s].reset ELSE "check"

SessionStarts(s) ==
  /\ spc[s] = "idle" /\ s \in cast
  /\ Go(s, IF wish[s].wait THEN "wait" ELSE AfterWait(s))
  /\ run' = [run EXCEPT ![s] = wish[s].run]
  /\ UNCHANGED <<world, router, up, dir, wish, listed, file, remote, boot, lost, wiped>>

\* What never changes in the steps of waiting and fetching.
Fetching == UNCHANGED <<ci, ciSteps, index, manager, router, up, wish, remote, boot,
                        lost, wiped>>

\* Mistake: the index answers with the newest build of any branch.
AnyBranch(s) == index

\* The index knows the branch of a build by its file name only.
InIndex(s) == {b \in index : wish[s].branch \in Carries[b]}

Newest(builds) == CHOOSE b \in builds : \A c \in builds : Age[c] <= Age[b]

\* GitHub lists the runs of the branch.
Runs(s) == {b \in Build : Branch[b] = wish[s].branch /\ ci[b] # "absent"}

\* ensure_artifact: the index first, then the list of the branch's runs.
\* With no run at all it gives up once it knows that the workflow is dead.
WaitPolls(s) ==
  /\ spc[s] = "wait"
  /\ \/ /\ InIndex(s) # {}
        /\ run' = [run EXCEPT ![s] = "blossom"]
        /\ Go(s, AfterWait(s)) /\ UNCHANGED listed
     \/ /\ listed' = [listed EXCEPT ![s] = Runs(s)]
        /\ listed'[s] # {}
        /\ Go(s, "look") /\ UNCHANGED run
     \/ /\ \A b \in Build : ci[b] = "absent"
        /\ Finish(s, "failed") /\ UNCHANGED <<listed, run>>
  /\ Fetching /\ UNCHANGED <<stored, dir, file>>

\* The runs as they were listed, the newest first; one that is not over is
\* watched until it is.
WaitLooks(s) ==
  /\ spc[s] = "look" /\ listed[s] # {}
  /\ LET newest == Newest(listed[s]) IN
       /\ ci[newest] # "running"
       /\ IF newest \in stored
          THEN /\ run' = [run EXCEPT ![s] = newest]
               /\ Go(s, AfterWait(s)) /\ UNCHANGED listed
          ELSE /\ listed' = [listed EXCEPT ![s] = @ \ {newest}]
               /\ Go(s, IF listed'[s] = {} THEN "wait" ELSE "look") /\ UNCHANGED run
  /\ Fetching /\ UNCHANGED <<stored, dir, file>>

\* Mistake: the watch of a running run has no timeout.
WaitEndsBetween(s) ==
  /\ spc[s] = "wait"
  /\ Finish(s, "failed")
  /\ Fetching /\ UNCHANGED <<stored, dir, file, run, listed>>

\* The deadline of the wait, and the timeout of a watch.
WaitTimesOut(s) ==
  /\ spc[s] \in {"wait", "look"}
  /\ Finish(s, "failed")
  /\ Fetching /\ UNCHANGED <<stored, dir, file, run, listed>>

\* deploy_branch leaves a healthy router alone; check_deployed asks opkg only.
CheckDeployed(s) ==
  /\ spc[s] = "check"
  /\ IF ~wish[s].force /\ up /\ bin # None /\ manager = "opkg"
     THEN Finish(s, "skipped") \/ Go(s, "clear")
     ELSE Go(s, "clear")
  /\ Fetching /\ UNCHANGED <<stored, dir, file, run, listed>>

ClearBuildDir(s) ==
  /\ spc[s] = "clear"
  /\ dir' = Nothing
  /\ Go(s, "resolve")
  /\ Fetching /\ UNCHANGED <<stored, file, run, listed>>

\* The index comes before a run id; without `nak` or a relay it is empty.
Resolve(s) ==
  /\ spc[s] = "resolve"
  /\ \/ /\ InIndex(s) # {}
        /\ file' = [file EXCEPT ![s] = <<"curl", Newest(InIndex(s))>>]
        /\ Go(s, "curl")
     \/ Go(s, "pick") /\ UNCHANGED file
  /\ Fetching /\ UNCHANGED <<stored, dir, run, listed>>

\* Any answer of more than 1000 bytes is the artifact; no hash is compared.  A
\* shorter one, or a part of it, fails and may stay in BUILD_DIR.
Curl(s) ==
  /\ spc[s] = "curl"
  /\ \/ \E content \in {file[s][2], Junk} :
          dir' = [dir EXCEPT ![file[s]] = content] /\ Go(s, "deps")
     \/ dir' \in {dir, [dir EXCEPT ![file[s]] = Junk]} /\ Go(s, "pick")
  /\ Fetching /\ UNCHANGED <<stored, file, run, listed>>

\* The newest green run of the branch, or else the newest finished one.
PickRun(s) ==
  /\ spc[s] = "pick"
  /\ LET green == {b \in Runs(s) : ci[b] = "green"}
         over == {b \in Runs(s) : ci[b] # "running"} IN
       \/ run[s] # None /\ Go(s, "download") /\ UNCHANGED run
       \/ /\ run[s] = None /\ over # {}
          /\ run' = [run EXCEPT ![s] = Newest(IF green # {} THEN green ELSE over)]
          /\ Go(s, "download")
       \/ run[s] = None /\ Finish(s, "failed") /\ UNCHANGED run
  /\ Fetching /\ UNCHANGED <<stored, dir, file, listed>>

\* gh run download; the job of expired artifacts is run again, into an
\* emptied BUILD_DIR.
Download(s) ==
  /\ spc[s] = "download"
  /\ \/ /\ run[s] \in stored
        /\ dir' = [dir EXCEPT ![<<"run", run[s]>>] = run[s]]
        /\ Go(s, "flatten") /\ UNCHANGED stored
     \/ /\ run[s] \in Build \ stored /\ ci[run[s]] # "running"
        /\ dir' = [Nothing EXCEPT ![<<"run", run[s]>>] = run[s]]
        /\ stored' = stored \cup {run[s]}
        /\ Go(s, "flatten")
     \/ Finish(s, "failed") /\ UNCHANGED <<dir, stored>>
  /\ Fetching /\ UNCHANGED <<file, run, listed>>

\* The first .ipk of the architecture anywhere in BUILD_DIR.
Flatten(s) ==
  /\ spc[s] = "flatten"
  /\ \/ \E n \in DirNames :
          /\ dir[n] # None /\ (n[1] = "curl" => manager = "opkg")
          /\ dir' = [dir EXCEPT ![Flat] = dir[n]]
          /\ file' = [file EXCEPT ![s] = Flat]
          /\ Go(s, "deps")
     \/ Finish(s, "failed") /\ UNCHANGED <<dir, file>>
  /\ Fetching /\ UNCHANGED <<stored, run, listed>>
-----------------------------------------------------------------------------
\* What never changes in the steps on the router.
OnRouter == UNCHANGED <<world, dir, wish, listed, run, file>>

Deps(s) ==
  /\ spc[s] = "deps"
  /\ Passes(s, "scp")
  /\ OnRouter /\ UNCHANGED <<router, up, remote, boot, wiped>>

\* apk installs an .apk; what GitHub has is an .ipk, staged under another name.
Installable(s) == manager = "opkg" \/ file[s][1] = "curl"

Copy(s) ==
  /\ spc[s] = "scp"
  /\ \/ /\ dir[file[s]] # None
        /\ IF Installable(s)
           THEN tmp' = [tmp EXCEPT !["plain"] = IF dir[file[s]] = Junk THEN None
                                                ELSE dir[file[s]]]
           ELSE UNCHANGED tmp
        /\ Go(s, "install")
     \/ Finish(s, "failed") /\ UNCHANGED tmp
  /\ OnRouter /\ UNCHANGED <<bin, bomb, inst, up, remote, boot, lost, wiped>>

Last(s) == IF remote[s][2] = "none" THEN 1 ELSE 2

\* One remote command line stops, installs, restarts and cleans up.
Install(s) ==
  /\ spc[s] = "install"
  /\ \/ remote' = [remote EXCEPT ![s] = <<"stop", "none">>] /\ Sent(s) /\ Go(s, "answer")
     \/ UNCHANGED remote /\ Unsent(s) /\ Go(s, "version")
  /\ OnRouter /\ UNCHANGED <<router, up, boot, wiped>>

InstallAnswers(s) ==
  /\ spc[s] = "answer"
  /\ \/ remote[s][Last(s)] = "done" /\ Sent(s)
     \/ Unsent(s)
  /\ Go(s, "version")
  /\ OnRouter /\ UNCHANGED <<router, up, remote, boot, wiped>>

\* Router.ssh sends a command that timed out again; the first one runs on.
InstallTimesOut(s) ==
  /\ spc[s] = "answer"
  /\ IF Last(s) = 1
     THEN remote' = [remote EXCEPT ![s][2] = "stop"] /\ UNCHANGED <<spc, result>>
     ELSE Finish(s, "failed") /\ UNCHANGED remote
  /\ OnRouter /\ UNCHANGED <<router, up, boot, lost, wiped>>

\* The command line on the router, for its i-th time.
RemoteRuns(s, i) ==
  /\ LET Now(l) == remote' = [remote EXCEPT ![s][i] = l] IN
       \/ remote[s][i] = "stop" /\ up' = FALSE /\ Now("add") /\ UNCHANGED <<bin, tmp>>
       \/ /\ remote[s][i] = "add" /\ Installable(s) /\ tmp["plain"] # None
          /\ bin' = tmp["plain"] /\ Now("added") /\ UNCHANGED <<up, tmp>>
       \/ remote[s][i] = "add" /\ Now("refused") /\ UNCHANGED <<bin, up, tmp>>
       \/ /\ remote[s][i] \in {"added", "refused"}
          /\ IF remote[s][i] = "added" THEN up' \in {TRUE, up} ELSE UNCHANGED up
          /\ tmp' = IF Installable(s) THEN [tmp EXCEPT !["plain"] = None] ELSE tmp
          /\ Now("done") /\ UNCHANGED bin
  /\ OnRouter /\ UNCHANGED <<bomb, inst, spc, boot, result, lost, wiped>>

\* The version is read for the report; then the reboot or the health poll.
Version(s) ==
  /\ spc[s] = "version"
  /\ Passes(s, IF wish[s].reboot THEN "reboot" ELSE "health")
  /\ OnRouter /\ UNCHANGED <<router, up, remote, boot, wiped>>

\* A reboot is sent, and nobody asks whether it arrived: "reboot" after a
\* deploy or a factory reset, "firstboot -y && reboot" as a reset.
Restarts(s, command, next) ==
  /\ \/ boot' = [boot EXCEPT ![s] = command] /\ Sent(s)
     \/ UNCHANGED boot /\ Unsent(s)
  /\ Go(s, next)
  /\ OnRouter /\ UNCHANGED <<router, up, remote, wiped>>

RebootRouter(s) ==
  \/ spc[s] = "reboot" /\ Restarts(s, "reboot", "return")
  \/ spc[s] = "cold" /\ Restarts(s, "reboot", "back")

FirstbootReset(s) == spc[s] = "firstboot" /\ Restarts(s, "firstboot", "back")

\* Both resets refuse another router's MAC.
Refuses(s) ==
  /\ spc[s] \in {"factory", "firstboot"}
  /\ Finish(s, "failed")
  /\ OnRouter /\ UNCHANGED <<router, up, remote, boot, lost, wiped>>

\* Any answer "UP" is a router that came back, also one that has not yet
\* gone down; then the packages of the tests are installed again.
Returns(s) ==
  /\ \/ spc[s] = "return" /\ Passes(s, "health")
     \/ spc[s] = "back" /\ Passes(s, "check")
  /\ OnRouter /\ UNCHANGED <<router, up, remote, boot, wiped>>

\* The router goes down and comes up; firstboot leaves an empty overlay.
Gone(r) == [s \in Session |-> [i \in 1..2 |-> IF r[s][i] = "none" THEN "none" ELSE "done"]]

Boots(s) ==
  /\ boot[s] # "no"
  /\ boot' = [boot EXCEPT ![s] = "no"]
  /\ tmp' = [n \in Names |-> None]
  /\ inst' = [d \in Deploy |-> IF inst[d] = "running" THEN "lost" ELSE inst[d]]
  /\ remote' = Gone(remote)
  /\ IF boot[s] = "firstboot"
     THEN bin' = None /\ bomb' = None /\ wiped' = wiped \cup {s}
     ELSE UNCHANGED <<bin, bomb, wiped>>
  /\ up' = (bin' # None)
  /\ OnRouter /\ UNCHANGED <<spc, result, lost>>

\* factory_reset: `opkg remove`, whatever the router's package manager is,
\* and then its files, install.json's package_path among them.
FactoryReset(s) ==
  /\ spc[s] = "factory"
  /\ Sent(s) \/ Unsent(s)
  /\ \/ /\ manager = "opkg" /\ bin' = None /\ up' = FALSE /\ wiped' = wiped \cup {s}
     \/ (manager = "apk" \/ s \in lost') /\ UNCHANGED <<bin, up, wiped>>
  /\ \/ bomb' = None
     \/ s \in lost' /\ UNCHANGED bomb
  /\ Go(s, IF wish[s].reboot THEN "cold" ELSE "check") \/ Finish(s, "failed")
  /\ OnRouter /\ UNCHANGED <<tmp, inst, remote, boot>>

\* Whoever answers 200 before the timeout is the deployed backend.
Healthy(s) ==
  /\ spc[s] = "health"
  /\ \/ up /\ Finish(s, "success")
     \/ Finish(s, "failed")
  /\ OnRouter /\ UNCHANGED <<router, up, remote, boot, lost, wiped>>
-----------------------------------------------------------------------------
\* CI, and who publishes to the index; bound: while a session asks them.
CiSteps ==
  /\ \E s \in Session : spc[s] \in {"wait", "look", "resolve", "pick", "download"}
  /\ ciSteps < MaxCi /\ ciSteps' = ciSteps + 1
  /\ \E b \in Build :
       \/ /\ ci[b] = "absent" /\ ci' = [ci EXCEPT ![b] = "running"]
          /\ UNCHANGED <<stored, index>>
       \/ /\ ci[b] = "running" /\ ci' \in {[ci EXCEPT ![b] = r] : r \in {"green", "red"}}
          /\ stored' \in {stored, stored \cup {b}} /\ UNCHANGED index
       \/ /\ ci[b] = "green" /\ index' = index \cup {b} /\ UNCHANGED <<ci, stored>>
       \/ /\ b \in stored /\ stored' = stored \ {b} /\ UNCHANGED <<ci, index>>
  /\ UNCHANGED <<vars, manager, up, dir, mine, disturbed>>

Active == {s \in Session : spc[s] \notin {"idle", "ended"}}

\* A step of session s, seen by the others; to the deploys it is an outsider's.
Shared == <<bin, tmp, up, dir, remote>>
Outside(s) ==
  /\ disturbed' = IF UNCHANGED Shared THEN disturbed ELSE disturbed \cup (Active \ {s})
  /\ faults' = IF UNCHANGED router THEN faults ELSE faults \cup {"outsider"}
  /\ UNCHANGED <<bench, pc, opt, plan, seen, code, touched, cast>>

Fetches(s) ==
  \/ WaitPolls(s) \/ WaitLooks(s) \/ WaitTimesOut(s) \/ CheckDeployed(s)
  \/ ClearBuildDir(s) \/ Resolve(s) \/ Curl(s) \/ PickRun(s) \/ Download(s) \/ Flatten(s)

Deploys(s) ==
  \/ Deps(s) \/ Copy(s) \/ Install(s) \/ InstallAnswers(s) \/ InstallTimesOut(s)
  \/ Version(s) \/ RebootRouter(s) \/ FirstbootReset(s) \/ Refuses(s) \/ Returns(s)
  \/ FactoryReset(s) \/ Healthy(s)

\* A step of the bench's deploys and of what befalls its router; beside a
\* session, the fault that happens is the session.
BenchSteps ==
  /\ cast \cap Deploy # {}
  /\ Next
  /\ cast \cap Session # {} => faults' = faults
  /\ \A d \in Deploy \ cast : pc'[d] = "idle"
  /\ LET reboots == "reboot" \in faults' \ faults IN
       /\ remote' = IF reboots THEN Gone(remote) ELSE remote
       /\ up' = IF reboots THEN bin # None ELSE up \/ bin' # bin
  /\ UNCHANGED <<world, dir, spc, wish, listed, run, file, boot, result, cast, lost, wiped>>
  /\ disturbed' = IF UNCHANGED Shared THEN disturbed ELSE disturbed \cup Active

DeploysNext ==
  \/ \E s \in Session :
       \/ (SessionStarts(s) \/ Fetches(s) \/ Deploys(s) \/ Boots(s)) /\ Outside(s)
       \/ \E i \in 1..2 : RemoteRuns(s, i) /\ Outside(s)
  \/ CiSteps
  \/ BenchSteps

DeploysSpec == DeploysInit /\ [][DeploysNext]_allVars

\* A session's process goes on, a remote command ends, and a deadline comes.
SessionFairness ==
  \A s \in Session :
    /\ WF_allVars((Fetches(s) \/ Deploys(s)) /\ Outside(s))
    /\ WF_allVars(WaitTimesOut(s) /\ Outside(s))

DeploysFairSpec == DeploysSpec /\ Fairness /\ SessionFairness
-----------------------------------------------------------------------------
Places == {"idle", "wait", "look", "factory", "firstboot", "back", "check", "clear",
           "resolve", "curl", "pick", "download", "flatten", "deps", "scp", "install",
           "answer", "version", "reboot", "cold", "return", "health", "ended"}
Results == {"none", "success", "skipped", "failed"}

SessionTypeOK ==
  /\ ci \in [Build -> {"absent", "running", "green", "red"}]
  /\ stored \subseteq Build /\ index \subseteq Build /\ ciSteps \in 0..MaxCi
  /\ manager \in {"apk", "opkg"} /\ up \in BOOLEAN
  /\ dir \in [DirNames -> Build \cup {None, Junk}]
  /\ spc \in [Session -> Places]
  /\ wish \in [Session -> Wishes]
  /\ listed \in [Session -> SUBSET Build]
  /\ run \in [Session -> Build \cup {None, "blossom"}]
  /\ file \in [Session -> DirNames]
  /\ remote \in [Session -> [1..2 -> RemoteSteps]]
  /\ boot \in [Session -> {"no", "reboot", "firstboot"}]
  /\ result \in [Session -> Results]
  /\ cast \in Casts
  /\ lost \cup disturbed \cup wiped \subseteq Session

\* deploy_branch returns success, also for a healthy router it left alone.
Succeeds(s) == result[s] = "none" /\ result'[s] \in {"success", "skipped"}

\* The build is of this branch, or passes for one by its file name.
Matches(b, branch) == Branch[b] = branch \/ branch \in Carries[b]

\* The run that a session was told to install, if any, is one of its branch.
AsksOwn(s) == wish[s].run # None => Branch[wish[s].run] = wish[s].branch

\* A session that returns success leaves a build on the router that passed the
\* code's check of the branch, GitHub's list or the file name: at all events if
\* its reset removed what was there, and otherwise if it installed at all (a
\* healthy router may be skipped), no connection failed unnoticed, and it did
\* not reboot the router (a reboot starts the old build again).  Nobody else
\* may have been at the router or in BUILD_DIR meanwhile, and the run it was
\* told to install, if any, is of its branch.
SuccessMatchesBranch ==
  [][\A s \in Session :
       (/\ Succeeds(s) /\ s \notin disturbed /\ AsksOwn(s)
        /\ s \in wiped \/ (s \notin lost /\ ~wish[s].reboot /\ result'[s] = "success"))
          => bin # None /\ Matches(bin, wish[s].branch)]_allVars

\* Every wait for CI is bounded: a session that started ends, also when a run
\* it watches never does.
SessionEnds == \A s \in Session : spc[s] # "idle" ~> spc[s] = "ended"

\* "--tollgate-run-id  Specific CI run ID" (tests/conftest.py).
AskedRunIsInstalled ==
  [][\A s \in Session :
       Succeeds(s) /\ result'[s] = "success" /\ s \notin disturbed \cup lost /\ wish[s].run # None
         => bin = wish[s].run]_allVars

\* "Remove TollGate before deploying (clean slate)" (tests/conftest.py).
FactoryResetRemoves ==
  [][\A s \in Session : spc[s] = "factory" /\ spc'[s] \in {"check", "cold"} /\ s \notin lost'
       => bin' = None]_allVars

\* "installs via opkg, restarts services, and verifies" (README.md).
SuccessIsVerified ==
  [][\A s \in Session :
       (Succeeds(s) /\ result'[s] = "success" /\ s \notin disturbed)
         => bin # None /\ Matches(bin, wish[s].branch)]_allVars

\* "a feature-branch artifact is never used to test a different branch"
\* (lib/deploy.py).
BranchesAreKeptApart ==
  [][\A s \in Session :
       (Succeeds(s) /\ s \in wiped \ disturbed /\ AsksOwn(s))
         => Branch[bin] = wish[s].branch]_allVars

\* "Reboot router after deploy and wait for it to come back" (tests/conftest.py).
RebootIsOver == \A s \in Session : result[s] = "success" => boot[s] = "no"
=============================================================================
