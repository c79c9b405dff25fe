----------------------------- MODULE DeployWindow -----------------------------
(***************************************************************************)
(* scripts/mt3000-bench/bench-deploy-apk.sh: deploys of a named artifact   *)
(* to the one bench router, each in a window of the bench lease            *)
(* (BenchOwner).  A deploy looks at the router, rotates foreign staged     *)
(* packages aside, stages its own, starts the installation detached on     *)
(* the router, polls for its end and reads the installed binary back.      *)
(*                                                                         *)
(* The router is external, and not everybody asks the lease: outsiders     *)
(* stage and install, and /usr/bin/check_package_path reinstalls what      *)
(* install.json's package_path names (the "revert bomb").                  *)
(* A hash is modelled by the build it is the hash of.                      *)
(***************************************************************************)
EXTENDS Naturals, FiniteSets

CONSTANTS
  Deploy,
  Build,
  Artifact,   \* the build each deploy names (--apk, --sha256)
  Options,    \* argument lists: mode "install", "verify" or "dry", and BOOLEANs
              \* clear, refuse (--refuse-foreign-staged), locked (bench-with-lock.sh)
  MaxFaults,  \* bound: kinds of faults that happen, each once
  None

ASSUME BoundsAreNumbers == MaxFaults \in Nat
ASSUME ArtifactIsBuild == Artifact \in [Deploy -> Build]
ASSUME NoneIsNobody == None \notin Build \cup Deploy
ASSUME PlainIsNoBuild == "plain" \notin Build
ASSUME OptionsAreRecords ==
  Options \subseteq [mode : {"install", "verify", "dry"}, clear : BOOLEAN,
                     refuse : BOOLEAN, locked : BOOLEAN]

VARIABLES
  owner, record,  \* the bench lease
  bin,      \* the installed build
  tmp,      \* /tmp/*.apk: what is staged under each name
  bomb,     \* package_path
  inst,     \* each deploy's detached installation: "none", "running", "done", "lost"
  pc,
  opt,      \* its arguments
  plan,     \* what it saw in the preflight: reuse, foreign names, the bomb
  seen,     \* the build whose hash it read back
  code,     \* its exit code
  touched,  \* history: what it changed on the router
  faults    \* the kinds of faults that happened

bench == <<owner, record>>
router == <<bin, tmp, bomb, inst>>
vars == <<owner, record, bin, tmp, bomb, inst, pc, opt, plan, seen, code, touched, faults>>

Bench == INSTANCE BenchOwner WITH Window <- Deploy, Reclaim <- Deploy

\* The name every deploy stages under by default, and bench-<sha>-<name>.
Names == Build \cup {"plain"}

Init ==
  /\ Bench!Init
  /\ bin \in Build \cup {None}
  /\ \E b \in Build \cup {None} : tmp = [n \in Names |-> IF n = "plain" THEN b ELSE None]
  /\ bomb \in Build \cup {None}
  /\ inst = [d \in Deploy |-> "none"]
  /\ pc = [d \in Deploy |-> "idle"]
  /\ opt \in [Deploy -> Options]
  /\ plan = [d \in Deploy |-> [reuse |-> FALSE, foreign |-> {}, bomb |-> FALSE]]
  /\ seen = [d \in Deploy |-> None]
  /\ code = [d \in Deploy |-> "none"]
  /\ touched = [d \in Deploy |-> {}]
  /\ faults = {}
-----------------------------------------------------------------------------
\* The script of deploy d goes on at l, or ends with an exit code.
Goto(d, l) == pc' = [pc EXCEPT ![d] = l] /\ UNCHANGED code

End(d, c) ==
  /\ pc' = [pc EXCEPT ![d] = "ended"]
  /\ code' = [code EXCEPT ![d] = c]

Touch(d, what) == touched' = [touched EXCEPT ![d] = @ \cup what]

\* bench-with-lock.sh opens the window, or recovers a dead owner's first.
Opens(d) ==
  /\ pc[d] = "idle"
  /\ \/ opt[d].locked /\ Bench!Open(d) /\ Goto(d, "gate")
     \/ opt[d].locked /\ Bench!Override(d) /\ Goto(d, "idle")
     \/ ~opt[d].locked /\ Goto(d, "gate") /\ UNCHANGED bench
  /\ UNCHANGED <<router, opt, plan, seen, touched, faults>>

\* Mistake: the gate is asked, its answer is not.
GatePasses(d) ==
  /\ pc[d] = "gate"
  /\ Goto(d, "preflight")
  /\ UNCHANGED <<bench, router, opt, plan, seen, touched, faults>>

\* The lock gate, the device pin, the artifact and the tools it needs here.
Gate(d) ==
  /\ pc[d] = "gate"
  /\ IF owner # None /\ record = d
     THEN Goto(d, "preflight") \/ End(d, "local") \/ End(d, "device")
     ELSE End(d, "no_lock")
  /\ UNCHANGED <<bench, router, opt, plan, seen, touched, faults>>

Foreign == {n \in Build : tmp[n] # None}

\* Mistake: the artifact is installed under the name everybody stages under.
SourceIsPlain(d) == "plain"

\* The name that install.sh gives to apk.
Source(d) == IF plan[d].reuse THEN "plain" ELSE Artifact[d]

Substituted(d) ==
  \/ tmp["plain"] \notin {None, Artifact[d]}
  \/ opt[d].refuse /\ Foreign # {}
  \/ bomb # None /\ ~opt[d].clear /\ opt[d].mode # "verify"

\* Where the script of deploy d, with plan p, goes on.
AfterClear(d, p) ==
  CASE opt[d].mode = "verify" -> "readback"
    [] opt[d].mode # "verify" /\ p.reuse -> "launch"
    [] OTHER -> "stage"

AfterRotate(d, p) == IF opt[d].clear /\ p.bomb THEN "clear" ELSE AfterClear(d, p)

\* Mistake: the stale packages are rotated before the refusals are decided.
PreflightRotates(d) ==
  /\ pc[d] = "preflight"
  /\ plan' = [plan EXCEPT ![d] = [reuse |-> tmp["plain"] = Artifact[d],
                                  foreign |-> Foreign, bomb |-> bomb # None]]
  /\ tmp' = [n \in Names |-> IF n \in Foreign THEN None ELSE tmp[n]]
  /\ Touch(d, IF Foreign = {} THEN {} ELSE {"tmp"})
  /\ IF Substituted(d) THEN End(d, "substituted") ELSE Goto(d, AfterRotate(d, plan'[d]))
  /\ UNCHANGED <<bench, bin, bomb, inst, opt, seen, faults>>

\* The read-only preflight and the refusals decided on what it saw.
Preflight(d) ==
  /\ pc[d] = "preflight"
  /\ plan' = [plan EXCEPT ![d] = [reuse |-> tmp["plain"] = Artifact[d],
                                  foreign |-> Foreign, bomb |-> bomb # None]]
  /\ \/ End(d, "transfer")
     \/ Substituted(d) /\ End(d, "substituted")
     \/ /\ ~Substituted(d)
        /\ Goto(d, IF opt[d].mode # "verify" /\ Foreign # {} THEN "rotate"
                   ELSE AfterRotate(d, plan'[d]))
  /\ UNCHANGED <<bench, router, opt, seen, touched, faults>>

\* Renamed aside in one remote script, which prints ROTATE_DONE whether or not
\* each `mv` succeeded; cut off, it renames only some.
Rotate(d) ==
  /\ pc[d] = "rotate"
  /\ \E gone \in SUBSET plan[d].foreign :
       /\ tmp' = [n \in Names |-> IF n \in gone THEN None ELSE tmp[n]]
       /\ Goto(d, AfterRotate(d, plan[d])) \/ End(d, "transfer")
  /\ Touch(d, {"tmp"})
  /\ UNCHANGED <<bench, bin, bomb, inst, opt, plan, seen, faults>>

\* The pipeline's failure is nobody's: the bomb may stay.
ClearPackagePath(d) ==
  /\ pc[d] = "clear"
  /\ bomb' \in {None, bomb}
  /\ Touch(d, {"bomb"})
  /\ Goto(d, AfterClear(d, plan[d]))
  /\ UNCHANGED <<bench, bin, tmp, inst, opt, plan, seen, faults>>

\* scp; cut off, the file is not the artifact's.
Stage(d) ==
  /\ pc[d] = "stage"
  /\ \/ /\ tmp' = [tmp EXCEPT ![Artifact[d]] = Artifact[d]]
        /\ Goto(d, "verify") \/ End(d, "transfer")
     \/ UNCHANGED tmp /\ End(d, "transfer")
  /\ Touch(d, {"tmp"})
  /\ UNCHANGED <<bench, bin, bomb, inst, opt, plan, seen, faults>>

\* verify-stage.sh hashes the staged file.
VerifyStage(d) ==
  /\ pc[d] = "verify"
  /\ \/ tmp[Artifact[d]] = Artifact[d] /\ Goto(d, "launch")
     \/ End(d, "transfer")
  /\ UNCHANGED <<bench, router, opt, plan, seen, touched, faults>>

\* Detached with setsid: from here on nothing of the deploy can stop it.
Launch(d) ==
  /\ pc[d] = "launch"
  /\ \/ opt[d].mode = "dry" /\ End(d, "ok") /\ UNCHANGED inst
     \/ /\ opt[d].mode # "dry" /\ UNCHANGED inst
        /\ End(d, "transfer") \/ End(d, "install")
     \/ /\ opt[d].mode # "dry"
        /\ inst' = [inst EXCEPT ![d] = "running"]
        /\ Goto(d, "poll") \/ End(d, "install")
  /\ UNCHANGED <<bench, bin, tmp, bomb, opt, plan, seen, touched, faults>>

\* Mistake: an answered poll is taken for DONE.
PollTrustsAnswer(d) ==
  /\ pc[d] = "poll"
  /\ Goto(d, "readback")
  /\ UNCHANGED <<bench, router, opt, plan, seen, touched, faults>>

Poll(d) ==
  /\ pc[d] = "poll" /\ inst[d] = "done"
  /\ Goto(d, "readback")
  /\ UNCHANGED <<bench, router, opt, plan, seen, touched, faults>>

\* Mistake: the poll waits for the log as long as the install may still run.
PollWaits(d) ==
  /\ pc[d] = "poll" /\ inst[d] = "done"
  /\ End(d, "install")
  /\ UNCHANGED <<bench, router, opt, plan, seen, touched, faults>>

\* INSTALL_TIMEOUT.
PollTimesOut(d) ==
  /\ pc[d] = "poll"
  /\ End(d, "install")
  /\ UNCHANGED <<bench, router, opt, plan, seen, touched, faults>>

\* verify-identity.sh hashes the installed binary; no binary at all is an error
\* of the transfer.
ReadBack(d) ==
  /\ pc[d] = "readback"
  /\ \/ bin # None /\ seen' = [seen EXCEPT ![d] = bin] /\ Goto(d, "report")
     \/ End(d, "transfer") /\ UNCHANGED seen
  /\ UNCHANGED <<bench, router, opt, plan, touched, faults>>

\* The exit code speaks of the router at the time of the hash.
Report(d) ==
  /\ pc[d] = "report"
  /\ End(d, IF seen[d] = Artifact[d] THEN "ok" ELSE "identity")
  /\ UNCHANGED <<bench, router, opt, plan, seen, touched, faults>>

Faults == {"lease", "killed", "outsider", "reboot"}

Fault(kind) ==
  /\ kind \notin faults /\ Cardinality(faults) < MaxFaults
  /\ faults' = faults \cup {kind}

\* The window ends with its command; the lease or the script may be killed.
Closes(d) ==
  /\ pc[d] = "ended" /\ Bench!Close(d)
  /\ UNCHANGED <<router, pc, opt, plan, seen, code, touched, faults>>

LeaseDies(d) ==
  /\ Fault("lease")
  /\ Bench!Die(d)
  /\ UNCHANGED <<router, pc, opt, plan, seen, code, touched>>

Killed(d) ==
  /\ Fault("killed")
  /\ pc[d] \notin {"idle", "ended"}
  /\ End(d, "killed")
  /\ UNCHANGED <<bench, router, opt, plan, seen, touched>>
-----------------------------------------------------------------------------
\* install.sh on the router: apk adds what is under the staged name now.
Installs(d) ==
  /\ inst[d] = "running"
  /\ inst' = [inst EXCEPT ![d] = "done"]
  /\ \/ /\ tmp[Source(d)] # None
        /\ bin' = tmp[Source(d)]
        /\ Touch(d, {"bin"})
     \/ UNCHANGED <<bin, touched>>
  /\ UNCHANGED <<bench, tmp, bomb, pc, opt, plan, seen, code, faults>>

\* An outsider copies, installs, or leaves a package_path behind.
Outsider ==
  /\ Fault("outsider")
  /\ \E b \in Build : \/ bin' = b /\ UNCHANGED <<tmp, bomb>>
                      \/ tmp' = [tmp EXCEPT !["plain"] = b] /\ UNCHANGED <<bin, bomb>>
                      \/ bomb' = b /\ UNCHANGED <<bin, tmp>>
  /\ UNCHANGED <<bench, inst, pc, opt, plan, seen, code, touched>>

BombFires ==
  /\ bomb # None
  /\ bin' = bomb
  /\ UNCHANGED <<bench, tmp, bomb, inst, pc, opt, plan, seen, code, touched, faults>>

Reboots ==
  /\ Fault("reboot")
  /\ tmp' = [n \in Names |-> None]
  /\ inst' = [d \in Deploy |-> IF inst[d] = "running" THEN "lost" ELSE inst[d]]
  /\ UNCHANGED <<bench, bin, bomb, pc, opt, plan, seen, code, touched>>

Script(d) ==
  \/ Gate(d) \/ Preflight(d) \/ Rotate(d) \/ ClearPackagePath(d) \/ Stage(d)
  \/ VerifyStage(d) \/ Launch(d) \/ Poll(d) \/ PollTimesOut(d)
  \/ ReadBack(d) \/ Report(d)

Next ==
  \/ \E d \in Deploy : \/ Opens(d) \/ Script(d) \/ Closes(d)
                       \/ LeaseDies(d) \/ Killed(d) \/ Installs(d)
  \/ Outsider \/ BombFires \/ Reboots

Spec == Init /\ [][Next]_vars

\* A script that is not killed runs on, and the lease closes its window.
Fairness == \A d \in Deploy : WF_vars(Script(d)) /\ WF_vars(Closes(d))

FairSpec == Spec /\ Fairness
-----------------------------------------------------------------------------
Codes == {"none", "ok", "no_lock", "local", "substituted", "identity", "transfer",
          "install", "device", "killed"}

TypeOK ==
  /\ Bench!TypeOK
  /\ bin \in Build \cup {None}
  /\ tmp \in [Names -> Build \cup {None}]
  /\ bomb \in Build \cup {None}
  /\ inst \in [Deploy -> {"none", "running", "done", "lost"}]
  /\ pc \in [Deploy -> {"idle", "gate", "preflight", "rotate", "clear", "stage",
                        "verify", "launch", "poll", "readback", "report", "ended"}]
  /\ opt \in [Deploy -> Options]
  /\ plan \in [Deploy -> [reuse : BOOLEAN, foreign : SUBSET Build, bomb : BOOLEAN]]
  /\ seen \in [Deploy -> Build \cup {None}]
  /\ code \in [Deploy -> Codes]
  /\ touched \in [Deploy -> SUBSET {"tmp", "bomb", "bin"}]
  /\ faults \subseteq Faults

\* A deploy that refuses (exit codes 4, 6, 7, 11) has changed nothing on the
\* router: all its refusals come before its first change.
RefusedMeansUntouched ==
  \A d \in Deploy :
    code[d] \in {"no_lock", "local", "substituted", "device"} => touched[d] = {}

\* What the detached installation of a deploy puts on the router is the build
\* the deploy named, however long after the check of the staged file apk reads
\* it: but for a deploy that reuses what an outsider staged under the plain
\* name, when there was an outsider, who may have replaced it since.
InstallsTheArtifact ==
  [][\A d \in Deploy :
       (inst[d] = "running" /\ inst'[d] = "done" /\ bin' # bin)
         => \/ bin' = Artifact[d]
            \/ plan[d].reuse /\ "outsider" \in faults]_vars

\* Only a deploy that ended with exit code 10, or was killed, leaves an
\* installation running behind it.
LeavesNoInstall ==
  \A d \in Deploy :
    (pc[d] = "ended" /\ inst[d] = "running") => code[d] \in {"install", "killed"}

\* Deploy d has hashed its own build on the router, as exit code 0 then says.
Verified(d) ==
  \/ pc[d] = "report" /\ seen[d] = Artifact[d]
  \/ code[d] = "ok" /\ opt[d].mode # "dry"

\* From the hash to the end of its window a deploy's verified build stays on
\* the router, so that exit code 0 is still true when it is given.  Excepted
\* are a run in which an outsider or the death of a lease process was seen at
\* any time, a router with a package_path, and an installation that a reported
\* or killed deploy left behind.
VerifiedBuildStays ==
  \A d \in Deploy :
    (owner = d /\ Verified(d) /\ bin # Artifact[d])
      => \/ faults \cap {"outsider", "lease"} # {} \/ bomb # None
         \/ \E e \in Deploy \ {d} : code[e] \in {"install", "killed"}

\* A deploy ends, and the bench is given back.
WindowIsGivenBack == \A d \in Deploy : owner = d ~> owner # d

\* "9 transfer failed (nothing installed)".
TransferMeansNotInstalled ==
  \A d \in Deploy : code[d] = "transfer" => "bin" \notin touched[d]

\* "--verify-only   read-only".
VerifyOnlyReadsOnly ==
  \A d \in Deploy : opt[d].mode = "verify" => touched[d] = {}
=============================================================================
