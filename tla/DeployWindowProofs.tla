---------------------------- MODULE DeployWindowProofs ----------------------------
(***************************************************************************)
(* Theorems about DeployWindow and CiDeploy, for any deploys, sessions,    *)
(* builds, arguments and bounds.  DeployInv says of each deploy how far    *)
(* its script is bound to have come for what it changed and started;       *)
(* LeaseInv is what the lease gives as long as no lease process was        *)
(* killed, and StagedInv says what stands under the staged names.  All     *)
(* hold beside any sessions of deploy.py, whose steps are an               *)
(* outsider's (DeploysStep).  PathInv and RouterInv then say of a session  *)
(* that nobody disturbed what it has in BUILD_DIR and on the router.       *)
(***************************************************************************)
EXTENDS CiDeploy, FiniteSetTheorems, WellFoundedInduction, TLAPS

Deciding == {"idle", "gate", "preflight"}
Preparing == {"rotate", "clear", "stage", "verify", "launch"}
Refusals == {"no_lock", "local", "substituted", "device"}

DeployInv(d) ==
  /\ pc[d] # "ended" => code[d] = "none"
  /\ pc[d] \in Deciding => touched[d] = {}
  /\ pc[d] \in Deciding \cup Preparing => inst[d] = "none"
  /\ code[d] \in Refusals => touched[d] = {} /\ inst[d] = "none"
  /\ inst[d] = "running" =>
       pc[d] = "poll" \/ (pc[d] = "ended" /\ code[d] \in {"install", "killed"})

ScriptInv == TypeOK /\ \A d \in Deploy : DeployInv(d)

\* The other deploys do not move with d.
Others(d) ==
  \A e \in Deploy \ {d} :
    pc'[e] = pc[e] /\ code'[e] = code[e] /\ touched'[e] = touched[e] /\ inst'[e] = inst[e]

\* A deploy that stages nothing of its own skips what it does not need.
LEMMA ElsewhereAtRotate ==
  ASSUME NEW d \in Deploy, NEW p
  PROVE  /\ AfterClear(d, p) \in {"readback", "launch", "stage"}
         /\ AfterRotate(d, p) \in {"clear", "readback", "launch", "stage"}
BY DEF AfterRotate, AfterClear

\* What a deploy sees and installs are builds.
LEMMA StagedIsBuild ==
  ASSUME TypeOK, NEW d \in Deploy
  PROVE  /\ Foreign \subseteq Build
         /\ Source(d) \in Names /\ Artifact[d] \in Names
         /\ tmp[Source(d)] \in Build \cup {None}
BY ArtifactIsBuild DEF TypeOK, Foreign, Source, Names

\* A step that moves none of these variables keeps what is said of every deploy.
LEMMA DeployStands ==
  ASSUME ScriptInv, UNCHANGED <<pc, code, touched, inst>>
  PROVE  \A d \in Deploy : DeployInv(d)'
BY DEF ScriptInv, DeployInv

\* A step of the script keeps the types of the bench and the router.
LEMMA ScriptTyped ==
  ASSUME ScriptInv, NEW d \in Deploy, Script(d)
  PROVE  TypeOK'
<1> USE StagedIsBuild, ElsewhereAtRotate
    DEF ScriptInv, TypeOK, Goto, End, Touch, bench, router, Bench!TypeOK, Codes
<1>1. CASE Gate(d)
  BY <1>1 DEF Gate
<1>2. CASE Preflight(d)
  <2>1. plan' \in [Deploy -> [reuse : BOOLEAN, foreign : SUBSET Build, bomb : BOOLEAN]]
    <3> DEFINE saw == [reuse |-> tmp["plain"] = Artifact[d],
                       foreign |-> Foreign, bomb |-> bomb # None]
    <3>1. (tmp["plain"] = Artifact[d]) \in BOOLEAN /\ (bomb # None) \in BOOLEAN
      OBVIOUS
    <3>2. saw \in [reuse : BOOLEAN, foreign : SUBSET Build, bomb : BOOLEAN]
      BY <3>1
    <3>3. plan' = [plan EXCEPT ![d] = saw]
      BY <1>2 DEF Preflight
    <3> HIDE DEF saw
    <3> QED BY <3>2, <3>3
  <2>2. /\ pc' \in [Deploy -> {"idle", "gate", "preflight", "rotate", "clear", "stage",
                               "verify", "launch", "poll", "readback", "report", "ended"}]
        /\ code' \in [Deploy -> Codes]
    <3>1. AfterRotate(d, plan'[d]) \in {"clear", "readback", "launch", "stage"}
      OBVIOUS
    <3>2. CASE End(d, "transfer") \/ End(d, "substituted")
      BY <3>2
    <3>3. CASE Goto(d, "rotate") \/ Goto(d, AfterRotate(d, plan'[d]))
      BY <3>1, <3>3
    <3> HIDE DEF Goto, End
    <3> QED BY <1>2, <3>2, <3>3 DEF Preflight
  <2> QED BY <1>2, <2>1, <2>2 DEF Preflight
<1>3. CASE Rotate(d)
  <2>1. tmp' \in [Names -> Build \cup {None}] /\ touched' \in [Deploy -> SUBSET {"tmp", "bomb", "bin"}]
    BY <1>3 DEF Rotate
  <2>2. /\ pc' \in [Deploy -> {"idle", "gate", "preflight", "rotate", "clear", "stage",
                               "verify", "launch", "poll", "readback", "report", "ended"}]
        /\ code' \in [Deploy -> Codes]
    BY <1>3 DEF Rotate
  <2> QED BY <1>3, <2>1, <2>2 DEF Rotate
<1>4. CASE ClearPackagePath(d)
  BY <1>4 DEF ClearPackagePath
<1>5. CASE Stage(d)
  <2>1. tmp' \in [Names -> Build \cup {None}]
    <3>1. Artifact[d] \in Names /\ Artifact[d] \in Build
      BY ArtifactIsBuild DEF Names
    <3>2. tmp' = [tmp EXCEPT ![Artifact[d]] = Artifact[d]] \/ tmp' = tmp
      BY <1>5 DEF Stage
    <3> QED BY <3>1, <3>2
  <2> QED BY <1>5, <2>1 DEF Stage
<1>6. CASE VerifyStage(d)
  BY <1>6 DEF VerifyStage
<1>7. CASE Launch(d)
  BY <1>7 DEF Launch
<1>8. CASE Poll(d)
  BY <1>8 DEF Poll
<1>9. CASE PollTimesOut(d)
  BY <1>9 DEF PollTimesOut
<1>10. CASE ReadBack(d)
  <2>1. seen' = [seen EXCEPT ![d] = bin] \/ seen' = seen
    BY <1>10 DEF ReadBack
  <2>2. seen' \in [Deploy -> Build \cup {None}]
    BY <2>1
  <2> QED BY <1>10, <2>2 DEF ReadBack
<1>11. CASE Report(d)
  BY <1>11 DEF Report
<1> QED
  BY <1>1, <1>2, <1>3, <1>4, <1>5, <1>6, <1>7, <1>8, <1>9, <1>10, <1>11 DEF Script

\* A step of the script keeps what is said of its deploy, and moves no other.
LEMMA ScriptKeeps ==
  ASSUME ScriptInv, NEW d \in Deploy, Script(d)
  PROVE  DeployInv(d)' /\ Others(d)
<1> USE ElsewhereAtRotate
    DEF ScriptInv, TypeOK, DeployInv, Others, Deciding, Preparing, Refusals, Goto, End, Touch,
        router
<1>1. CASE Gate(d)
  BY <1>1 DEF Gate
<1>2. CASE Preflight(d)
  <2>1. /\ pc'[d] \in {"ended", "rotate", "clear", "readback", "launch", "stage"}
        /\ UNCHANGED <<inst, touched>> /\ pc[d] = "preflight"
        /\ pc'[d] # "ended" => code' = code
    BY <1>2 DEF Preflight
  <2> QED BY <1>2, <2>1 DEF Preflight
<1>3. CASE Rotate(d)
  <2>1. /\ pc[d] = "rotate" /\ inst' = inst /\ code[d] = "none"
        /\ \/ pc'[d] \in {"clear", "readback", "launch", "stage"} /\ code' = code
           \/ pc'[d] = "ended" /\ code'[d] = "transfer"
    BY <1>3 DEF Rotate
  <2>2. Others(d)
    BY <1>3 DEF Rotate
  <2> QED BY <2>1, <2>2
<1>4. CASE ClearPackagePath(d)
  BY <1>4 DEF ClearPackagePath
<1>5. CASE Stage(d)
  BY <1>5 DEF Stage
<1>6. CASE VerifyStage(d)
  BY <1>6 DEF VerifyStage
<1>7. CASE Launch(d)
  BY <1>7 DEF Launch
<1>8. CASE Poll(d)
  BY <1>8 DEF Poll
<1>9. CASE PollTimesOut(d)
  BY <1>9 DEF PollTimesOut
<1>10. CASE ReadBack(d)
  BY <1>10 DEF ReadBack
<1>11. CASE Report(d)
  BY <1>11 DEF Report
<1> QED
  BY <1>1, <1>2, <1>3, <1>4, <1>5, <1>6, <1>7, <1>8, <1>9, <1>10, <1>11 DEF Script

\* Before it starts, a deploy has changed and started nothing.
LEMMA DeployStart ==
  ASSUME Init
  PROVE  ScriptInv
<1>1. TypeOK
  <2>1. tmp \in [Names -> Build \cup {None}]
    BY DEF Init, Names
  <2>2. plan \in [Deploy -> [reuse : BOOLEAN, foreign : SUBSET Build, bomb : BOOLEAN]]
    BY DEF Init
  <2> QED BY <2>1, <2>2 DEF Init, TypeOK, Bench!Init, Bench!TypeOK, Codes, Faults
<1>2. \A d \in Deploy : DeployInv(d)
  BY DEF Init, DeployInv, Deciding, Preparing, Refusals
<1> QED BY <1>1, <1>2 DEF ScriptInv

\* Every step of the bench keeps how far each script has come.
LEMMA DeployStep ==
  ASSUME ScriptInv, [Next]_vars
  PROVE  ScriptInv'
<1> USE DEF ScriptInv, TypeOK, Bench!TypeOK, bench, router
<1>1. ASSUME NEW d \in Deploy, Script(d) PROVE ScriptInv'
  <2>1. \A e \in Deploy \ {d} : DeployInv(e)'
    BY <1>1, ScriptKeeps DEF Others, DeployInv
  <2> QED BY <1>1, <2>1, ScriptKeeps, ScriptTyped
<1>2. ASSUME NEW d \in Deploy, Opens(d) PROVE ScriptInv'
  <2>1. UNCHANGED <<touched, inst, code>> /\ pc[d] = "idle"
        /\ pc' \in {pc, [pc EXCEPT ![d] = "idle"], [pc EXCEPT ![d] = "gate"]}
    BY <1>2 DEF Opens, Goto
  <2>2. \A e \in Deploy : DeployInv(e)'
    BY <2>1 DEF DeployInv, Deciding, Preparing, Refusals
  <2>3. TypeOK'
    BY <1>2, <2>1 DEF Opens, Bench!Open, Bench!Override, Goto
  <2> QED BY <2>2, <2>3
<1>3. ASSUME NEW d \in Deploy, Closes(d) PROVE ScriptInv'
  BY <1>3, DeployStands DEF Closes, Bench!Close
<1>4. ASSUME NEW d \in Deploy, LeaseDies(d) PROVE ScriptInv'
  BY <1>4, DeployStands DEF LeaseDies, Bench!Die, Fault, Faults
<1>5. ASSUME NEW d \in Deploy, Killed(d) PROVE ScriptInv'
  <2>1. \A e \in Deploy : DeployInv(e)'
    BY <1>5 DEF Killed, End, DeployInv, Deciding, Preparing, Refusals
  <2> QED BY <1>5, <2>1 DEF Killed, End, Fault, Faults, Codes
<1>6. ASSUME NEW d \in Deploy, Installs(d) PROVE ScriptInv'
  <2>1. TypeOK'
    BY <1>6, StagedIsBuild DEF Installs, Touch
  <2>2. \A e \in Deploy : DeployInv(e)'
    BY <1>6 DEF Installs, Touch, DeployInv, Deciding, Preparing, Refusals
  <2> QED BY <2>1, <2>2
<1>7. CASE Outsider
  <2>1. tmp' \in [Names -> Build \cup {None}] /\ bin' \in Build \cup {None}
        /\ bomb' \in Build \cup {None}
    BY <1>7 DEF Outsider
  <2> QED BY <1>7, <2>1, DeployStands DEF Outsider, Fault, Faults
<1>8. CASE BombFires
  BY <1>8, DeployStands DEF BombFires
<1>9. CASE Reboots
  <2>1. \A e \in Deploy : inst'[e] = IF inst[e] = "running" THEN "lost" ELSE inst[e]
    BY <1>9 DEF Reboots
  <2>2. \A e \in Deploy : DeployInv(e)'
    BY <1>9, <2>1 DEF Reboots, DeployInv
  <2>3. tmp' \in [Names -> Build \cup {None}] /\ inst' \in [Deploy -> {"none", "running", "done", "lost"}]
    BY <1>9 DEF Reboots
  <2> QED BY <1>9, <2>2, <2>3 DEF Reboots, Fault, Faults
<1>10. CASE UNCHANGED vars
  BY <1>10, DeployStands DEF vars
<1> QED
  BY <1>1, <1>2, <1>3, <1>4, <1>5, <1>6, <1>7, <1>8, <1>9, <1>10 DEF Next

\* How far each script has come holds in every reachable state.
LEMMA ScriptInvariant == Spec => []ScriptInv
BY DeployStart, DeployStep, PTL DEF Spec

\* Every variable keeps its type.
THEOREM DeployTypeCorrect == Spec => []TypeOK
<1>1. ScriptInv => TypeOK
  BY DEF ScriptInv
<1> QED BY <1>1, ScriptInvariant, PTL

\* A deploy that refuses has changed nothing on the router.
THEOREM RefusalsTouchNothing == Spec => []RefusedMeansUntouched
<1>1. ScriptInv => RefusedMeansUntouched
  BY DEF ScriptInv, DeployInv, RefusedMeansUntouched, Refusals
<1> QED BY <1>1, ScriptInvariant, PTL

\* Only a deploy that reported it, or was killed, leaves an installation
\* running.
THEOREM InstallsAreAccounted == Spec => []LeavesNoInstall
<1>1. ScriptInv => LeavesNoInstall
  BY DEF ScriptInv, DeployInv, LeavesNoInstall
<1> QED BY <1>1, ScriptInvariant, PTL
-----------------------------------------------------------------------------
\* What stands under a build's name is that build; under the plain name stands
\* what a deploy that reuses it saw there, or an outsider has been.
StagedInv ==
  /\ \A n \in Build : tmp[n] \in {None, n}
  /\ \A d \in Deploy :
       plan[d].reuse => tmp["plain"] \in {None, Artifact[d]} \/ "outsider" \in faults

\* A step that stages nothing, or is an outsider's, keeps what is staged.
LEMMA StagedStands ==
  ASSUME StagedInv, plan' = plan, faults \subseteq faults',
         \A n \in Build : tmp'[n] \in {tmp[n], None},
         tmp'["plain"] \in {tmp["plain"], None} \/ "outsider" \in faults'
  PROVE  StagedInv'
BY DEF StagedInv

\* Nobody but an outsider stages under a name that is not its build's.
LEMMA StagedStep ==
  ASSUME ScriptInv, StagedInv, [Next]_vars
  PROVE  StagedInv'
<1> USE ArtifactIsBuild, PlainIsNoBuild DEF ScriptInv, TypeOK, Names
<1>1. ASSUME NEW d \in Deploy, Script(d) PROVE StagedInv'
  <2>1. faults' = faults
    BY <1>1 DEF Script, Gate, Preflight, Rotate, ClearPackagePath, Stage, VerifyStage, Launch,
       Poll, PollTimesOut, ReadBack, Report
  <2>2. CASE Preflight(d)
    <3> DEFINE saw == [reuse |-> tmp["plain"] = Artifact[d],
                       foreign |-> Foreign, bomb |-> bomb # None]
    <3>1. plan' = [plan EXCEPT ![d] = saw] /\ tmp' = tmp
      BY <2>2 DEF Preflight, router
    <3>2. saw.reuse => tmp["plain"] = Artifact[d]
      OBVIOUS
    <3>3. \A e \in Deploy : plan'[e] = IF e = d THEN saw ELSE plan[e]
      BY <3>1
    <3> HIDE DEF saw
    <3> QED BY <2>1, <3>1, <3>2, <3>3 DEF StagedInv
  <2>3. CASE Rotate(d)
    <3>1. plan[d].foreign \subseteq Build
      OBVIOUS
    <3>2. plan' = plan /\ \A n \in Names : tmp'[n] = tmp[n] \/ (n \in Build /\ tmp'[n] = None)
      BY <2>3, <3>1 DEF Rotate
    <3> QED BY <2>1, <3>2, StagedStands
  <2>4. CASE Stage(d)
    <3>1. plan' = plan /\ (tmp' = tmp \/ tmp' = [tmp EXCEPT ![Artifact[d]] = Artifact[d]])
      BY <2>4 DEF Stage
    <3>2. Artifact[d] # "plain" /\ Artifact[d] \in Names /\ "plain" \in Names
      OBVIOUS
    <3> QED BY <2>1, <3>1, <3>2 DEF StagedInv
  <2>5. CASE ~Preflight(d) /\ ~Rotate(d) /\ ~Stage(d)
    <3>1. UNCHANGED <<plan, tmp>>
      BY <1>1, <2>5 DEF Script, Gate, ClearPackagePath, VerifyStage, Launch, Poll, PollTimesOut,
         ReadBack, Report, router
    <3> QED BY <2>1, <3>1, StagedStands
  <2> QED BY <2>2, <2>3, <2>4, <2>5
<1>2. ASSUME NEW d \in Deploy, Opens(d) \/ Closes(d) \/ LeaseDies(d) \/ Killed(d) \/ Installs(d)
      PROVE StagedInv'
  <2>1. UNCHANGED <<plan, tmp>> /\ faults \subseteq faults'
    BY <1>2 DEF Opens, Closes, LeaseDies, Killed, Installs, Fault, router
  <2> QED BY <2>1, StagedStands
<1>3. CASE Outsider
  <2>1. plan' = plan /\ faults \subseteq faults' /\ "outsider" \in faults'
        /\ \A n \in Build : tmp'[n] = tmp[n]
    BY <1>3 DEF Outsider, Fault
  <2> QED BY <2>1, StagedStands
<1>4. CASE BombFires \/ Reboots \/ UNCHANGED vars
  <2>1. plan' = plan /\ faults \subseteq faults' /\ \A n \in Names : tmp'[n] \in {tmp[n], None}
    BY <1>4 DEF BombFires, Reboots, Fault, vars
  <2> QED BY <2>1, StagedStands
<1> QED BY <1>1, <1>2, <1>3, <1>4 DEF Next

\* A step of the bench's installs nothing but what a deploy named, but for an
\* outsider's file under the plain name.
LEMMA InstallStep ==
  ASSUME ScriptInv, StagedInv, [Next]_vars
  PROVE  [\A d \in Deploy :
            (inst[d] = "running" /\ inst'[d] = "done" /\ bin' # bin)
              => \/ bin' = Artifact[d]
                 \/ plan[d].reuse /\ "outsider" \in faults]_vars
<1> SUFFICES ASSUME Next, NEW d \in Deploy,
                    inst[d] = "running", inst'[d] = "done", bin' # bin
             PROVE  \/ bin' = Artifact[d]
                    \/ plan[d].reuse /\ "outsider" \in faults
  BY DEF vars
<1> USE DEF ScriptInv, TypeOK
<1>1. ASSUME NEW e \in Deploy, Script(e) PROVE FALSE
  BY <1>1 DEF Script, Gate, Preflight, Rotate, ClearPackagePath, Stage, VerifyStage, Launch,
     Poll, PollTimesOut, ReadBack, Report, router
<1>2. ASSUME NEW e \in Deploy, Opens(e) \/ Closes(e) \/ LeaseDies(e) \/ Killed(e) PROVE FALSE
  BY <1>2 DEF Opens, Closes, LeaseDies, Killed, router
<1>3. ~(Outsider \/ BombFires \/ Reboots)
  BY DEF Outsider, BombFires, Reboots
<1>4. ASSUME NEW e \in Deploy, Installs(e)
      PROVE  bin' = Artifact[d] \/ (plan[d].reuse /\ "outsider" \in faults)
  <2>1. e = d /\ tmp[Source(d)] # None /\ bin' = tmp[Source(d)]
    BY <1>4 DEF Installs
  <2> QED BY <2>1, ArtifactIsBuild DEF StagedInv, Source
<1> QED BY <1>1, <1>2, <1>3, <1>4 DEF Next
-----------------------------------------------------------------------------
Working == {"preflight", "rotate", "clear", "stage", "verify", "launch", "poll", "readback",
            "report"}

\* Past its gate a deploy works in its own window.
LeaseInv ==
  "lease" \notin faults =>
    record = owner /\ \A e \in Deploy : pc[e] \in Working => owner = e

StaysInv == ScriptInv /\ StagedInv /\ LeaseInv /\ VerifiedBuildStays

\* As long as no lease process is killed, who works holds the lease.
LEMMA LeaseStep ==
  ASSUME ScriptInv, LeaseInv, [Next]_vars
  PROVE  LeaseInv'
<1> USE NoneIsNobody DEF ScriptInv, TypeOK, Bench!TypeOK, LeaseInv, Working, bench, router, Goto, End
<1>1. ASSUME NEW d \in Deploy, Script(d) PROVE LeaseInv'
  <2>1. UNCHANGED <<owner, record, faults>> /\ \A e \in Deploy \ {d} : pc'[e] = pc[e]
    BY <1>1, ScriptKeeps DEF Others, Script, Gate, Preflight, Rotate, ClearPackagePath, Stage,
         VerifyStage, Launch, Poll, PollTimesOut, ReadBack, Report
  <2>2. pc'[d] \in Working => pc[d] \in Working \/ (owner # None /\ record = d)
    BY <1>1 DEF Script, Gate, Preflight, Rotate, ClearPackagePath, Stage,
         VerifyStage, Launch, Poll, PollTimesOut, ReadBack, Report
  <2> QED BY <2>1, <2>2
<1>2. ASSUME NEW d \in Deploy, Opens(d) PROVE LeaseInv'
  <2>1. faults' = faults /\ pc[d] = "idle"
        /\ \A e \in Deploy : pc'[e] \in Working => pc[e] \in Working
    BY <1>2 DEF Opens
  <2>2. CASE UNCHANGED bench
    BY <2>1, <2>2
  <2>3. CASE Bench!Open(d)
    BY <2>1, <2>3 DEF Bench!Open
  <2>4. CASE Bench!Override(d)
    BY <2>1, <2>4 DEF Bench!Override
  <2> QED BY <1>2, <2>2, <2>3, <2>4 DEF Opens
<1>3. ASSUME NEW d \in Deploy, Closes(d) PROVE LeaseInv'
  BY <1>3 DEF Closes, Bench!Close
<1>4. ASSUME NEW d \in Deploy, LeaseDies(d) PROVE LeaseInv'
  BY <1>4 DEF LeaseDies, Fault
<1>5. ASSUME NEW d \in Deploy, Killed(d) PROVE LeaseInv'
  BY <1>5 DEF Killed, Fault
<1>6. ASSUME NEW d \in Deploy, Installs(d) PROVE LeaseInv'
  BY <1>6 DEF Installs
<1>7. CASE Outsider \/ BombFires \/ Reboots
  <2>1. UNCHANGED <<owner, record, pc>> /\ ("lease" \in faults => "lease" \in faults')
    BY <1>7 DEF Outsider, BombFires, Reboots, Fault
  <2> QED BY <2>1
<1>8. CASE UNCHANGED vars
  BY <1>8 DEF vars
<1> QED
  BY <1>1, <1>2, <1>3, <1>4, <1>5, <1>6, <1>7, <1>8 DEF Next

\* Why a verified build may be gone.
Excused(d) ==
  \/ faults \cap {"outsider", "lease"} # {} \/ bomb # None
  \/ \E e \in Deploy \ {d} : code[e] \in {"install", "killed"}

\* An excuse stays one, as long as the bomb does.
LEMMA ExcuseStays ==
  ASSUME ScriptInv, [Next]_vars, NEW d \in Deploy, Excused(d), bomb' = bomb
  PROVE  Excused(d)'
<1>1. faults \subseteq faults'
  BY DEF Next, Script, Gate, Preflight, Rotate, ClearPackagePath, Stage, VerifyStage, Launch,
         Poll, PollTimesOut, ReadBack, Report, Opens, Closes, LeaseDies, Killed, Installs, Outsider,
         BombFires, Reboots, Fault, vars
<1>2. \A e \in Deploy : code[e] # "none" => code'[e] = code[e]
  <2>1. ASSUME NEW f \in Deploy, Script(f) PROVE \A e \in Deploy : code[e] # "none" => code'[e] = code[e]
    BY <2>1, ScriptKeeps DEF Others, ScriptInv, DeployInv, Script, Gate, Preflight, Rotate,
         ClearPackagePath, Stage, VerifyStage, Launch, Poll, PollTimesOut, ReadBack, Report
  <2>2. ASSUME NEW f \in Deploy, Killed(f) PROVE \A e \in Deploy : code[e] # "none" => code'[e] = code[e]
    BY <2>2 DEF Killed, End, ScriptInv, DeployInv, TypeOK
  <2>3. ASSUME NEW f \in Deploy, Opens(f) \/ Closes(f) \/ LeaseDies(f) \/ Installs(f)
        PROVE code' = code
    BY <2>3 DEF Opens, Closes, LeaseDies, Installs, Goto
  <2>4. CASE Outsider \/ BombFires \/ Reboots \/ UNCHANGED vars
    BY <2>4 DEF Outsider, BombFires, Reboots, vars
  <2> QED BY <2>1, <2>2, <2>3, <2>4 DEF Next
<1> QED BY <1>1, <1>2 DEF Excused

\* A deploy's build is verified by the hash of what is installed then.
LEMMA VerifiedStep ==
  ASSUME ScriptInv, NEW f \in Deploy, Script(f), NEW d \in Deploy, Verified(d)'
  PROVE  Verified(d) \/ bin = Artifact[d]
<1> USE DEF ScriptInv, TypeOK
<1>1. opt' = opt /\ (f # d => seen'[d] = seen[d])
  BY DEF Script, Gate, Preflight, Rotate, ClearPackagePath, Stage, VerifyStage, Launch,
     Poll, PollTimesOut, ReadBack, Report
<1>2. CASE f # d
  BY <1>1, <1>2, ScriptKeeps DEF Others, Verified
<1>3. CASE f = d
  <2>1. pc[d] # "ended" /\ code[d] = "none"
    BY <1>3 DEF DeployInv, Script, Gate, Preflight, Rotate, ClearPackagePath, Stage,
       VerifyStage, Launch, Poll, PollTimesOut, ReadBack, Report
  <2>2. ReadBack(d) \/ Report(d) \/ (pc'[d] # "report" /\ (code'[d] = "ok" => opt[d].mode = "dry"))
    <3>1. CASE Preflight(d) \/ Rotate(d) \/ ClearPackagePath(d)
      <4>1. \/ \E l \in {"rotate", "clear", "readback", "launch", "stage"} : Goto(d, l)
            \/ \E c \in {"transfer", "substituted"} : End(d, c)
        <5>1. CASE Preflight(d)
          BY <5>1, ElsewhereAtRotate DEF Preflight
        <5>2. CASE Rotate(d)
          BY <5>2, ElsewhereAtRotate DEF Rotate
        <5>3. CASE ClearPackagePath(d)
          BY <5>3, ElsewhereAtRotate DEF ClearPackagePath
        <5> QED BY <3>1, <5>1, <5>2, <5>3
      <4> QED BY <2>1, <4>1 DEF Goto, End
    <3>2. CASE Gate(d) \/ Stage(d) \/ VerifyStage(d) \/ Launch(d) \/ Poll(d) \/ PollTimesOut(d)
      BY <2>1, <3>2 DEF Gate, Stage, VerifyStage, Launch, Poll, PollTimesOut, Goto, End
    <3> QED BY <1>3, <3>1, <3>2 DEF Script
  <2>3. CASE ReadBack(d)
    BY <2>1, <2>3 DEF ReadBack, Goto, End, Verified
  <2>4. CASE Report(d)
    BY <2>1, <2>4 DEF Report, End, Verified
  <2> QED BY <1>1, <2>2, <2>3, <2>4 DEF Verified
<1> QED BY <1>2, <1>3

\* Every step of the bench keeps a verified build, but for the causes named.
LEMMA StaysStep ==
  ASSUME StaysInv, [Next]_vars
  PROVE  StaysInv'
<1>1. ScriptInv' /\ LeaseInv' /\ StagedInv'
  BY DeployStep, LeaseStep, StagedStep DEF StaysInv
<1>2. VerifiedBuildStays'
  <2> SUFFICES ASSUME NEW d \in Deploy, owner' = d, Verified(d)', bin' # Artifact[d]
               PROVE  Excused(d)'
    BY DEF VerifiedBuildStays, Excused
  <2> USE DEF StaysInv, ScriptInv, TypeOK
  <2>1. opt' = opt
    BY DEF Next, Script, Gate, Preflight, Rotate, ClearPackagePath, Stage, VerifyStage, Launch,
           Poll, PollTimesOut, ReadBack, Report, Opens, Closes, LeaseDies, Killed, Installs, Outsider,
           BombFires, Reboots, vars
  <2>2. ASSUME NEW f \in Deploy, Script(f) PROVE Excused(d)'
    <3>1. UNCHANGED <<owner, bin, faults>>
      BY <2>2 DEF Script, Gate, Preflight, Rotate, ClearPackagePath, Stage, VerifyStage,
             Launch, Poll, PollTimesOut, ReadBack, Report, bench, router
    <3>2. Verified(d)
      BY <2>2, <3>1, VerifiedStep
    <3>3. Excused(d)
      BY <2>1, <3>1, <3>2 DEF VerifiedBuildStays, Excused
    <3>4. CASE "lease" \in faults
      BY <3>1, <3>4 DEF Excused
    <3>5. CASE "lease" \notin faults /\ f # d
      <4>1. pc[f] \notin Working
        BY <3>1, <3>5 DEF LeaseInv
      <4>2. bomb' = bomb
        BY <2>2, <4>1 DEF Script, Gate, Preflight, Rotate, ClearPackagePath, Stage,
           VerifyStage, Launch, Poll, PollTimesOut, ReadBack, Report, router, Working
      <4> QED BY <3>3, <4>2, ExcuseStays
    <3>6. CASE f = d
      <4>1. bomb' = bomb
        BY <2>2, <3>2, <3>6 DEF Verified, DeployInv, Script, Gate, Preflight, Rotate,
           ClearPackagePath, Stage, VerifyStage, Launch, Poll, PollTimesOut, ReadBack, Report, router
      <4> QED BY <3>3, <4>1, ExcuseStays
    <3> QED BY <3>4, <3>5, <3>6
  <2>3. ASSUME NEW f \in Deploy, Installs(f) PROVE Excused(d)'
    <3>1. UNCHANGED <<owner, pc, code, opt, seen, faults, bomb>> /\ inst[f] = "running"
      BY <2>3 DEF Installs, bench
    <3>2. f # d
      BY <3>1 DEF DeployInv, Verified
    <3>3. CASE pc[f] = "poll"
      BY <3>1, <3>2, <3>3 DEF LeaseInv, Working, Excused
    <3>4. CASE code[f] \in {"install", "killed"}
      BY <3>1, <3>2, <3>4 DEF Excused
    <3> QED BY <3>1, <3>3, <3>4 DEF DeployInv
  <2>4. ASSUME NEW f \in Deploy, Opens(f) PROVE Excused(d)'
    <3>1. UNCHANGED <<bin, bomb, code, seen>> /\ pc[f] = "idle" /\ pc'[f] \in {"idle", "gate"}
          /\ \A e \in Deploy \ {f} : pc'[e] = pc[e]
      BY <2>4 DEF Opens, router, Goto
    <3>2. f # d /\ Verified(d)
      BY <2>1, <3>1 DEF DeployInv, Verified
    <3>3. owner = d
      BY <2>4, <3>2 DEF Opens, Bench!Open, Bench!Override, bench
    <3> QED BY <3>1, <3>2, <3>3, ExcuseStays DEF VerifiedBuildStays, Excused
  <2>5. ASSUME NEW f \in Deploy, Closes(f) \/ LeaseDies(f) PROVE FALSE
    BY <2>5, NoneIsNobody DEF Closes, LeaseDies, Bench!Close, Bench!Die
  <2>6. ASSUME NEW f \in Deploy, Killed(f) PROVE Excused(d)'
    <3>1. UNCHANGED <<owner, bin, bomb>> /\ Verified(d)
      BY <2>1, <2>6 DEF Killed, End, bench, router, Verified
    <3> QED BY <3>1, ExcuseStays DEF VerifiedBuildStays, Excused
  <2>7. CASE Outsider
    BY <2>7 DEF Outsider, Fault, Excused
  <2>8. CASE BombFires
    BY <2>8 DEF BombFires, Excused
  <2>9. CASE Reboots \/ UNCHANGED vars
    <3>1. UNCHANGED <<owner, bin, bomb, pc, opt, seen, code>>
      BY <2>9 DEF Reboots, vars, bench
    <3> QED BY <3>1, ExcuseStays DEF VerifiedBuildStays, Verified, Excused
  <2> QED
    BY <2>2, <2>3, <2>4, <2>5, <2>6, <2>7, <2>8, <2>9 DEF Next
<1> QED BY <1>1, <1>2 DEF StaysInv

\* Nothing is staged, verified or held at the start but by an outsider.
LEMMA DeploysStart == Init => StaysInv
<1> SUFFICES ASSUME Init PROVE StaysInv
  OBVIOUS
<1>1. StagedInv
  BY PlainIsNoBuild DEF Init, StagedInv, Names
<1>2. LeaseInv /\ VerifiedBuildStays
  BY NoneIsNobody DEF Init, Bench!Init, LeaseInv, VerifiedBuildStays, Working
<1> QED BY <1>1, <1>2, DeployStart DEF StaysInv

\* What is said of the deploys holds in every reachable state.
LEMMA StaysInvariant == Spec => []StaysInv
BY DeploysStart, StaysStep, PTL DEF Spec

\* In its window a deploy's verified build stays on the router, from the hash
\* to the end of the window, but for the causes that are named.
THEOREM VerifiedStays == Spec => []VerifiedBuildStays
<1>1. StaysInv => VerifiedBuildStays
  BY DEF StaysInv
<1> QED BY <1>1, StaysInvariant, PTL

\* A detached installation puts the build its deploy named on the router,
\* whatever the other deploys stage and rotate before apk reads the file.
THEOREM InstallsWhatItNamed == Spec => InstallsTheArtifact
<1>1. StaysInv /\ [Next]_vars =>
        [\A d \in Deploy :
           (inst[d] = "running" /\ inst'[d] = "done" /\ bin' # bin)
             => \/ bin' = Artifact[d]
                \/ plan[d].reuse /\ "outsider" \in faults]_vars
  BY InstallStep DEF StaysInv
<1> QED BY <1>1, StaysInvariant, PTL DEF Spec, InstallsTheArtifact
-----------------------------------------------------------------------------
\* The newest of some builds is one of them.
LEMMA NewestIsOne ==
  ASSUME NEW builds \in SUBSET Build, builds # {}
  PROVE  Newest(builds) \in builds
<1> DEFINE Younger(b) == {c \in builds : Age[c] > Age[b]}
           Sets == {Younger(b) : b \in builds}
<1>1. IsFiniteSet(builds) /\ \A b \in builds : Age[b] \in Nat
  BY FS_Subset, BuildsAreFinite, BranchesAreNamed
<1>2. Sets \subseteq FiniteSubsetsOf(builds)
  <2>1. \A b \in builds : IsFiniteSet(Younger(b)) /\ Younger(b) \in SUBSET builds
    BY <1>1, FS_Subset
  <2> QED BY <2>1 DEF FiniteSubsetsOf
<1>3. PICK least \in Sets : \A set \in Sets : <<set, least>> \notin StrictSubsetOrdering(builds)
  <2>1. IsWellFoundedOn(StrictSubsetOrdering(builds), FiniteSubsetsOf(builds))
    BY FS_StrictSubsetOrderingWellFounded
  <2>2. Sets # {}
    OBVIOUS
  <2> HIDE DEF Sets
  <2> QED BY <1>2, <2>1, <2>2, WFMin
<1>4. PICK b \in builds : least = Younger(b)
  OBVIOUS
<1>5. ASSUME NEW c \in builds, Age[c] > Age[b] PROVE FALSE
  <2>1. Younger(c) \subseteq Younger(b) /\ c \in Younger(b) /\ c \notin Younger(c)
    BY <1>1, <1>5
  <2>2. <<Younger(c), least>> \in StrictSubsetOrdering(builds)
    BY <1>4, <2>1 DEF StrictSubsetOrdering
  <2> QED BY <1>3, <2>2
<1>6. \A c \in builds : Age[c] <= Age[b]
  BY <1>1, <1>5
<1> QED BY <1>6 DEF Newest

\* A session's step leaves the other sessions where they were.
Aside(s) ==
  \A t \in Session \ {s} :
    /\ spc'[t] = spc[t] /\ listed'[t] = listed[t] /\ run'[t] = run[t] /\ file'[t] = file[t]
    /\ boot'[t] = boot[t] /\ result'[t] = result[t]
    /\ remote'[t] = remote[t] \/ remote'[t] = Gone(remote)[t]
    /\ (t \in lost') = (t \in lost) /\ (t \in wiped') = (t \in wiped)

RouterTyped ==
  /\ bin \in Build \cup {None}
  /\ tmp \in [Names -> Build \cup {None}]
  /\ bomb \in Build \cup {None}
  /\ inst \in [Deploy -> {"none", "running", "done", "lost"}]

\* A reboot ends the commands that run on the router and starts none.
LEMMA GoneTyped ==
  ASSUME SessionTypeOK
  PROVE  /\ Gone(remote) \in [Session -> [1..2 -> RemoteSteps]]
         /\ \A s \in Session, i \in 1..2 :
              Gone(remote)[s][i] = IF remote[s][i] = "none" THEN "none" ELSE "done"
BY DEF SessionTypeOK, Gone, RemoteSteps

\* What a session was asked for, field by field.
LEMMA WishTyped ==
  ASSUME SessionTypeOK, NEW s \in Session
  PROVE  /\ wish[s].run \in Build \cup {None} /\ wish[s].wait \in BOOLEAN
         /\ wish[s].reset \in {"no", "factory", "firstboot"}
         /\ wish[s].force \in BOOLEAN /\ wish[s].reboot \in BOOLEAN
         /\ AfterWait(s) \in {"check", "factory", "firstboot"}
BY WishesAreRecords DEF SessionTypeOK, AfterWait, Resets

PlaceTyped(s) ==
  /\ spc' \in [Session -> Places] /\ result' \in [Session -> Results]
  /\ \A t \in Session \ {s} : spc'[t] = spc[t] /\ result'[t] = result[t]

\* Going on moves one session and gives no result.
LEMMA GoTyped ==
  ASSUME SessionTypeOK, NEW s \in Session, NEW l \in Places, Go(s, l)
  PROVE  PlaceTyped(s) /\ spc'[s] = l /\ result'[s] = result[s]
BY DEF SessionTypeOK, Go, PlaceTyped

\* Finishing moves one session and gives its result.
LEMMA FinishTyped ==
  ASSUME SessionTypeOK, NEW s \in Session, NEW r \in Results, Finish(s, r)
  PROVE  PlaceTyped(s) /\ spc'[s] = "ended" /\ result'[s] = r
BY DEF SessionTypeOK, Finish, PlaceTyped, Places

\* Waiting for CI is well typed and leaves the router and the other sessions alone.
LEMMA WaitingTyped ==
  ASSUME SessionTypeOK, disturbed' \subseteq Session, cast' = cast, NEW s \in Session,
         SessionStarts(s) \/ WaitPolls(s) \/ WaitLooks(s) \/ WaitTimesOut(s)
  PROVE  SessionTypeOK' /\ Aside(s) /\ UNCHANGED router
<1>1. PlaceTyped(s)
  <2> USE WishTyped, GoTyped, FinishTyped DEF Places, Results
  <2>1. CASE SessionStarts(s)
    BY <2>1 DEF SessionStarts
  <2>2. CASE WaitPolls(s)
    BY <2>2 DEF WaitPolls
  <2>3. CASE WaitLooks(s)
    BY <2>3 DEF WaitLooks
  <2>4. CASE WaitTimesOut(s)
    BY <2>4 DEF WaitTimesOut
  <2> QED BY <2>1, <2>2, <2>3, <2>4
<1> USE WishTyped, <1>1 DEF SessionTypeOK, Aside, router, world, Fetching, PlaceTyped
<1>2. CASE SessionStarts(s)
  BY <1>2 DEF SessionStarts
<1>3. CASE WaitPolls(s)
  <2>1. Runs(s) \in SUBSET Build
    BY DEF Runs
  <2>2. /\ listed' = listed \/ listed' = [listed EXCEPT ![s] = Runs(s)]
        /\ run' = run \/ run' = [run EXCEPT ![s] = "blossom"]
    BY <1>3 DEF WaitPolls
  <2>3. UNCHANGED <<ci, stored, index, ciSteps, manager, router, up, dir, wish, remote, boot,
                    lost, wiped, file>>
    BY <1>3 DEF WaitPolls
  <2> QED BY <2>1, <2>2, <2>3
<1>4. CASE WaitLooks(s)
  <2>1. Newest(listed[s]) \in Build
    BY <1>4, NewestIsOne DEF WaitLooks
  <2> QED BY <1>4, <2>1 DEF WaitLooks
<1>5. CASE WaitTimesOut(s)
  BY <1>5 DEF WaitTimesOut
<1> QED BY <1>2, <1>3, <1>4, <1>5

\* Fetching a build is well typed and leaves the router and the other sessions alone.
LEMMA FetchingTyped ==
  ASSUME SessionTypeOK, disturbed' \subseteq Session, cast' = cast, NEW s \in Session,
         \/ CheckDeployed(s) \/ ClearBuildDir(s) \/ Resolve(s) \/ Curl(s) \/ PickRun(s)
         \/ Download(s) \/ Flatten(s)
  PROVE  SessionTypeOK' /\ Aside(s) /\ UNCHANGED router
<1>1. PlaceTyped(s)
  <2> USE GoTyped, FinishTyped DEF Places, Results
  <2>1. CASE CheckDeployed(s)
    <3>1. Finish(s, "skipped") \/ Go(s, "clear")
      BY <2>1 DEF CheckDeployed
    <3> QED BY <3>1
  <2>4. CASE ClearBuildDir(s) \/ Resolve(s)
    BY <2>4 DEF ClearBuildDir, Resolve
  <2>2. CASE Curl(s) \/ PickRun(s)
    BY <2>2 DEF Curl, PickRun
  <2>3. CASE Download(s) \/ Flatten(s)
    BY <2>3 DEF Download, Flatten
  <2> QED BY <2>1, <2>2, <2>3, <2>4
<1> USE <1>1 DEF SessionTypeOK, Aside, router, world, Fetching, PlaceTyped
<1>2. CASE CheckDeployed(s)
  BY <1>2 DEF CheckDeployed
<1>3. CASE ClearBuildDir(s)
  BY <1>3 DEF ClearBuildDir, Nothing
<1>4. CASE Resolve(s)
  <2>1. InIndex(s) # {} => Newest(InIndex(s)) \in Build
    <3>1. InIndex(s) \in SUBSET Build
      BY DEF InIndex, SessionTypeOK
    <3> QED BY <3>1, NewestIsOne
  <2>2. \A b \in Build : <<"curl", b>> \in DirNames
    BY DEF DirNames
  <2>3. \/ file' = file
        \/ \E b \in Build : file' = [file EXCEPT ![s] = <<"curl", b>>]
    BY <1>4, <2>1 DEF Resolve
  <2>4. file' \in [Session -> DirNames] /\ \A t \in Session \ {s} : file'[t] = file[t]
    BY <2>2, <2>3
  <2> QED BY <1>4, <2>4 DEF Resolve
<1>5. CASE Curl(s)
  <2>1. file[s][2] \in Build \cup {None}
    BY DEF DirNames, Flat
  <2>2. dir' \in [DirNames -> Build \cup {None, Junk}]
    BY <1>5, <2>1 DEF Curl
  <2> QED BY <1>5, <2>2 DEF Curl
<1>6. CASE PickRun(s)
  <2>1. run' \in [Session -> Build \cup {None, "blossom"}] /\ \A t \in Session \ {s} : run'[t] = run[t]
    <3> DEFINE green == {b \in Runs(s) : ci[b] = "green"}
               over == {b \in Runs(s) : ci[b] # "running"}
               chosen == IF green # {} THEN green ELSE over
    <3>1. green \in SUBSET Build /\ over \in SUBSET Build
      BY DEF Runs
    <3>2. over # {} => Newest(chosen) \in Build
      BY <3>1, NewestIsOne
    <3>3. \/ run' = run
          \/ over # {} /\ run' = [run EXCEPT ![s] = Newest(chosen)]
      BY <1>6 DEF PickRun
    <3> HIDE DEF chosen, over
    <3> QED BY <3>2, <3>3
  <2> QED BY <1>6, <2>1 DEF PickRun
<1>7. CASE Download(s)
  <2>1. run[s] \in Build => <<"run", run[s]>> \in DirNames
    BY DEF DirNames
  <2>2. dir' \in [DirNames -> Build \cup {None, Junk}] /\ stored' \subseteq Build
    BY <1>7, <2>1 DEF Download, Nothing
  <2> QED BY <1>7, <2>2 DEF Download
<1>8. CASE Flatten(s)
  <2>1. Flat \in DirNames
    BY DEF DirNames
  <2> QED BY <1>8, <2>1 DEF Flatten
<1> QED BY <1>2, <1>3, <1>4, <1>5, <1>6, <1>7, <1>8

\* What a remote command that passes changes.
LEMMA PassesTyped ==
  ASSUME SessionTypeOK, NEW s \in Session, NEW l \in Places, Passes(s, l)
  PROVE  /\ PlaceTyped(s) /\ (lost' = lost \/ lost' = lost \cup {s})
         /\ \/ spc'[s] = l /\ result'[s] = result[s]
            \/ spc'[s] = "ended" /\ result'[s] = "failed"
BY GoTyped, FinishTyped DEF Passes, Sent, Unsent, Results

\* One command line of one session moves, and no other.
LEMMA RemoteTyped ==
  ASSUME SessionTypeOK, NEW s \in Session, NEW i \in 1..2, NEW l \in RemoteSteps,
         remote' = [remote EXCEPT ![s][i] = l]
  PROVE  /\ remote' \in [Session -> [1..2 -> RemoteSteps]]
         /\ remote'[s][i] = l /\ \A j \in 1..2 \ {i} : remote'[s][j] = remote[s][j]
         /\ \A t \in Session \ {s} : remote'[t] = remote[t]
BY DEF SessionTypeOK

\* Installing, resetting and rebooting is well typed and starts no deploy's installation.
LEMMA DeploysTyped ==
  ASSUME RouterTyped, SessionTypeOK, disturbed' \subseteq Session, cast' = cast,
         NEW s \in Session, Deploys(s)
  PROVE  SessionTypeOK' /\ RouterTyped' /\ Aside(s) /\ inst' = inst
<1>1. PlaceTyped(s) /\ (lost' = lost \/ lost' = lost \cup {s})
  <2> USE GoTyped, FinishTyped, PassesTyped DEF Places, Results, Sent, Unsent
  <2>1. CASE Deps(s) \/ Returns(s)
    BY <2>1 DEF Deps, Returns
  <2>2. CASE Version(s)
    BY <2>2 DEF Version
  <2>3. CASE Copy(s)
    BY <2>3 DEF Copy
  <2>4. CASE Install(s) \/ InstallAnswers(s)
    BY <2>4 DEF Install, InstallAnswers
  <2>5. CASE InstallTimesOut(s)
    BY <2>5 DEF InstallTimesOut, SessionTypeOK, PlaceTyped
  <2>6. CASE RebootRouter(s) \/ FirstbootReset(s)
    BY <2>6 DEF RebootRouter, FirstbootReset, Restarts
  <2>7. CASE Refuses(s) \/ Healthy(s)
    BY <2>7 DEF Refuses, Healthy
  <2>8. CASE FactoryReset(s)
    BY <2>8 DEF FactoryReset
  <2> QED BY <2>1, <2>2, <2>3, <2>4, <2>5, <2>6, <2>7, <2>8 DEF Deploys
<1> USE <1>1 DEF SessionTypeOK, RouterTyped, Aside, router, world, OnRouter, PlaceTyped
<1>2. CASE Deps(s) \/ Version(s) \/ Returns(s) \/ Refuses(s) \/ Healthy(s) \/ InstallAnswers(s)
  BY <1>2 DEF Deps, Version, Returns, Refuses, Healthy, InstallAnswers
<1>3. CASE Copy(s)
  <2>1. tmp' \in [Names -> Build \cup {None}]
    BY <1>3 DEF Copy
  <2> QED BY <1>3, <2>1 DEF Copy
<1>4. CASE Install(s)
  <2>1. <<"stop", "none">> \in [1..2 -> RemoteSteps]
    BY DEF RemoteSteps
  <2> QED BY <1>4, <2>1 DEF Install
<1>5. CASE InstallTimesOut(s)
  <2>1. remote' = remote \/ remote' = [remote EXCEPT ![s][2] = "stop"]
    BY <1>5 DEF InstallTimesOut
  <2>2. /\ remote' \in [Session -> [1..2 -> RemoteSteps]]
        /\ \A t \in Session \ {s} : remote'[t] = remote[t]
    BY <2>1, RemoteTyped DEF RemoteSteps
  <2> QED BY <1>5, <2>2 DEF InstallTimesOut
<1>6. CASE RebootRouter(s) \/ FirstbootReset(s)
  BY <1>6 DEF RebootRouter, FirstbootReset, Restarts
<1>7. CASE FactoryReset(s)
  <2>1. /\ bin' \in {bin, None} /\ bomb' \in {bomb, None}
        /\ wiped' = wiped \/ wiped' = wiped \cup {s}
        /\ UNCHANGED <<tmp, inst, remote, boot, ci, stored, index, ciSteps, manager, dir, wish,
                       listed, run, file>>
    BY <1>7 DEF FactoryReset
  <2>2. up' \in BOOLEAN
    BY <1>7 DEF FactoryReset
  <2>3. SessionTypeOK' /\ RouterTyped'
    BY <2>1, <2>2
  <2>4. Aside(s)
    BY <2>1
  <2> QED BY <2>1, <2>3, <2>4
<1> QED BY <1>2, <1>3, <1>4, <1>5, <1>6, <1>7 DEF Deploys

\* A command line that runs on the router keeps the types and the other sessions.
LEMMA RemoteRunsTyped ==
  ASSUME RouterTyped, SessionTypeOK, disturbed' \subseteq Session, cast' = cast,
         NEW s \in Session, NEW i \in 1..2, RemoteRuns(s, i)
  PROVE  SessionTypeOK' /\ RouterTyped' /\ Aside(s) /\ inst' = inst
<1>1. \E l \in RemoteSteps : remote' = [remote EXCEPT ![s][i] = l]
  BY DEF RemoteRuns, RemoteSteps
<1>2. /\ remote' \in [Session -> [1..2 -> RemoteSteps]]
      /\ \A t \in Session \ {s} : remote'[t] = remote[t]
  BY <1>1, RemoteTyped
<1>3. up' \in BOOLEAN
  BY DEF RemoteRuns, SessionTypeOK
<1>4. bin' \in Build \cup {None} /\ tmp' \in [Names -> Build \cup {None}]
  <2>1. "plain" \in Names
    BY DEF Names
  <2> QED BY <2>1 DEF RemoteRuns, RouterTyped
<1>5. UNCHANGED <<bomb, inst, spc, boot, result, lost, wiped, ci, stored, index, ciSteps,
                  manager, dir, wish, listed, run, file>>
  BY DEF RemoteRuns, OnRouter, world
<1>6. SessionTypeOK' /\ RouterTyped'
  BY <1>2, <1>3, <1>4, <1>5 DEF SessionTypeOK, RouterTyped
<1>7. Aside(s)
  BY <1>2, <1>5 DEF Aside
<1> QED BY <1>5, <1>6, <1>7

\* An installation that runs is lost when the router goes down.
Steady == \A d \in Deploy : inst'[d] = inst[d] \/ (inst[d] = "running" /\ inst'[d] = "lost")

\* A reboot keeps the types and the other sessions, and loses what was installing.
LEMMA BootsTyped ==
  ASSUME RouterTyped, SessionTypeOK, disturbed' \subseteq Session, cast' = cast,
         NEW s \in Session, Boots(s)
  PROVE  SessionTypeOK' /\ RouterTyped' /\ Aside(s) /\ Steady
<1>1. remote' = Gone(remote) /\ remote' \in [Session -> [1..2 -> RemoteSteps]]
  BY GoneTyped DEF Boots
<1>2. /\ tmp' \in [Names -> Build \cup {None}]
      /\ inst' \in [Deploy -> {"none", "running", "done", "lost"}] /\ Steady
  BY DEF Boots, RouterTyped, Steady
<1>3. /\ bin' \in {bin, None} /\ bomb' \in {bomb, None}
      /\ wiped' = wiped \/ wiped' = wiped \cup {s}
  BY DEF Boots
<1>4. up' \in BOOLEAN
  BY DEF Boots
<1>5. /\ boot' = [boot EXCEPT ![s] = "no"]
      /\ UNCHANGED <<spc, result, lost, ci, stored, index, ciSteps, manager, dir, wish, listed,
                     run, file>>
  BY DEF Boots, OnRouter, world
<1>6. SessionTypeOK' /\ RouterTyped'
  BY <1>1, <1>2, <1>3, <1>4, <1>5 DEF SessionTypeOK, RouterTyped
<1>7. Aside(s)
  BY <1>1, <1>3, <1>5 DEF Aside, SessionTypeOK
<1> QED BY <1>2, <1>6, <1>7

\* What session s does next, or the router with what it sent.
SessionSteps(s) ==
  /\ \/ SessionStarts(s) \/ Fetches(s) \/ Deploys(s) \/ Boots(s)
     \/ \E i \in 1..2 : RemoteRuns(s, i)
  /\ Outside(s)

\* A session's step is well typed for the bench too: to it, an outsider acted.
LEMMA SessionStepTyped ==
  ASSUME TypeOK, SessionTypeOK, NEW s \in Session, SessionSteps(s)
  PROVE  TypeOK' /\ SessionTypeOK' /\ Aside(s) /\ Steady
<1>1. /\ disturbed' \subseteq Session /\ cast' = cast
      /\ UNCHANGED <<owner, record, pc, opt, plan, seen, code, touched>>
      /\ faults' \in {faults, faults \cup {"outsider"}}
  BY DEF SessionSteps, Outside, Active, SessionTypeOK, bench
<1>2. RouterTyped
  BY DEF TypeOK, RouterTyped
<1>3. SessionTypeOK' /\ RouterTyped' /\ Aside(s) /\ Steady
  <2>1. CASE SessionStarts(s) \/ Fetches(s)
    <3>1. SessionTypeOK' /\ Aside(s) /\ UNCHANGED router
      BY <1>1, <2>1, WaitingTyped, FetchingTyped DEF Fetches
    <3> QED BY <1>2, <3>1 DEF RouterTyped, router, Steady
  <2>2. CASE Deploys(s)
    BY <1>1, <1>2, <2>2, DeploysTyped DEF Steady
  <2>3. CASE Boots(s)
    BY <1>1, <1>2, <2>3, BootsTyped
  <2>4. CASE \E i \in 1..2 : RemoteRuns(s, i)
    BY <1>1, <1>2, <2>4, RemoteRunsTyped DEF Steady
  <2> QED BY <2>1, <2>2, <2>3, <2>4 DEF SessionSteps
<1>4. TypeOK'
  BY <1>1, <1>3 DEF TypeOK, RouterTyped, Bench!TypeOK, Faults
<1> QED BY <1>3, <1>4

\* A step of CI moves neither the bench nor a session.
LEMMA CiStepTyped ==
  ASSUME SessionTypeOK, CiSteps
  PROVE  SessionTypeOK'
<1>1. /\ ci' \in [Build -> {"absent", "running", "green", "red"}]
      /\ stored' \subseteq Build /\ index' \subseteq Build
  BY DEF CiSteps, SessionTypeOK
<1>2. ciSteps' \in 0..MaxCi
  BY CastsAreSets DEF CiSteps, SessionTypeOK
<1>3. UNCHANGED <<manager, up, dir, spc, wish, listed, run, file, remote, boot, result, cast,
                  lost, wiped, disturbed>>
  BY DEF CiSteps, mine
<1> QED BY <1>1, <1>2, <1>3 DEF SessionTypeOK

\* A deploy's step is well typed for the sessions: it may reboot the router under them.
LEMMA BenchStepTyped ==
  ASSUME SessionTypeOK, BenchSteps
  PROVE  /\ SessionTypeOK' /\ Next
         /\ remote' = remote \/ remote' = Gone(remote)
<1>1. up' \in BOOLEAN
  BY DEF BenchSteps, SessionTypeOK
<1>2. remote' = remote \/ remote' = Gone(remote)
  BY DEF BenchSteps
<1>3. /\ disturbed' \subseteq Session
      /\ UNCHANGED <<ci, stored, index, ciSteps, manager, dir, spc, wish, listed, run, file,
                     boot, result, cast, lost, wiped>>
  BY DEF BenchSteps, SessionTypeOK, Active, world
<1>4. SessionTypeOK'
  BY <1>1, <1>2, <1>3, GoneTyped DEF SessionTypeOK
<1> QED BY <1>2, <1>4 DEF BenchSteps

\* The sessions start well typed.
LEMMA SessionsStart ==
  ASSUME DeploysInit
  PROVE  SessionTypeOK
<1>1. remote \in [Session -> [1..2 -> RemoteSteps]]
  <2>1. Idle \in [1..2 -> RemoteSteps]
    BY DEF Idle, RemoteSteps
  <2> QED BY <2>1 DEF DeploysInit
<1>2. /\ ci \in [Build -> {"absent", "running", "green", "red"}]
      /\ stored \subseteq Build /\ index \subseteq Build /\ ciSteps \in 0..MaxCi
  BY CastsAreSets DEF DeploysInit, CiInit
<1>3. manager \in {"apk", "opkg"} /\ up \in BOOLEAN
  BY DEF DeploysInit
<1>4. dir \in [DirNames -> Build \cup {None, Junk}] /\ Flat \in DirNames
  BY DEF DeploysInit, Nothing, DirNames
<1> QED BY <1>1, <1>2, <1>3, <1>4 DEF DeploysInit, SessionTypeOK, Places, Results

\* A session stages under the plain name only.
LEMMA SessionStages ==
  ASSUME TypeOK, NEW s \in Session, SessionSteps(s)
  PROVE  \A n \in Build : tmp'[n] \in {tmp[n], None}
<1> USE PlainIsNoBuild DEF TypeOK, Names
<1>1. CASE SessionStarts(s) \/ Fetches(s)
  BY <1>1 DEF SessionStarts, Fetches, WaitPolls, WaitLooks, WaitTimesOut, CheckDeployed,
     ClearBuildDir, Resolve, Curl, PickRun, Download, Flatten, Fetching, router
<1>2. CASE Deploys(s)
  <2>1. CASE Copy(s)
    <3>1. tmp' = tmp \/ \E b : tmp' = [tmp EXCEPT !["plain"] = b]
      BY <2>1 DEF Copy
    <3> QED BY <3>1
  <2>2. CASE ~Copy(s)
    BY <1>2, <2>2 DEF Deploys, Deps, Install, InstallAnswers, InstallTimesOut, Version,
       RebootRouter, FirstbootReset, Restarts, Refuses, Returns, FactoryReset, Healthy, router
  <2> QED BY <2>1, <2>2
<1>3. CASE Boots(s)
  BY <1>3 DEF Boots
<1>4. ASSUME NEW i \in 1..2, RemoteRuns(s, i) PROVE \A n \in Build : tmp'[n] \in {tmp[n], None}
  <2>1. tmp' = tmp \/ tmp' = [tmp EXCEPT !["plain"] = None]
    BY <1>4 DEF RemoteRuns
  <2> QED BY <2>1
<1> QED BY <1>1, <1>2, <1>3, <1>4 DEF SessionSteps

\* What is said of the deploys holds beside any sessions: to a deploy their steps are
\* an outsider's.
LEMMA DeploysStep ==
  ASSUME StaysInv, SessionTypeOK, [DeploysNext]_allVars
  PROVE  StaysInv' /\ SessionTypeOK'
<1>1. ASSUME NEW s \in Session, SessionSteps(s) PROVE StaysInv' /\ SessionTypeOK'
  <2>1. TypeOK' /\ SessionTypeOK' /\ Steady
    BY <1>1, SessionStepTyped DEF StaysInv, ScriptInv
  <2>2. /\ UNCHANGED <<owner, record, pc, opt, plan, seen, code, touched>>
        /\ UNCHANGED <<seen, router, faults>> \/ faults' = faults \cup {"outsider"}
        /\ seen' = seen
    BY <1>1 DEF SessionSteps, Outside, bench
  <2>3. \A d \in Deploy : DeployInv(d)'
    BY <2>1, <2>2 DEF StaysInv, ScriptInv, DeployInv, Steady, Deciding, Preparing
  <2>4. LeaseInv'
    BY <2>2 DEF StaysInv, LeaseInv
  <2>5. VerifiedBuildStays'
    BY <2>2 DEF StaysInv, VerifiedBuildStays, Verified, router
  <2>6. StagedInv'
    <3>1. \A n \in Build : tmp'[n] \in {tmp[n], None}
      BY <1>1, SessionStages DEF StaysInv, ScriptInv
    <3> QED BY <2>2, <3>1, StagedStands DEF StaysInv, router
  <2> QED BY <2>1, <2>3, <2>4, <2>5, <2>6 DEF StaysInv, ScriptInv
<1>2. CASE CiSteps
  <2>1. UNCHANGED vars
    BY <1>2 DEF CiSteps
  <2> QED BY <1>2, <2>1, CiStepTyped, StaysStep
<1>3. CASE BenchSteps
  BY <1>3, BenchStepTyped, StaysStep
<1>4. CASE UNCHANGED allVars
  <2>1. UNCHANGED vars /\ UNCHANGED <<ci, stored, index, ciSteps, manager, up, dir, spc, wish,
          listed, run, file, remote, boot, result, cast, lost, wiped, disturbed>>
    BY <1>4 DEF allVars, sessionVars, world, mine
  <2>2. SessionTypeOK'
    BY <2>1 DEF SessionTypeOK
  <2> QED BY <2>1, <2>2, StaysStep
<1> QED BY <1>1, <1>2, <1>3, <1>4 DEF DeploysNext, SessionSteps

\* What is said of the deploys, and the types, hold in every reachable state.
LEMMA DeploysInvariant == DeploysSpec => [](StaysInv /\ SessionTypeOK)
<1>1. DeploysInit => StaysInv /\ SessionTypeOK
  BY DeploysStart, SessionsStart DEF DeploysInit
<1> QED BY <1>1, DeploysStep, PTL DEF DeploysSpec

\* CiDeploy is well typed, for any sessions, wishes and steps of CI.
THEOREM SessionTypeCorrect == DeploysSpec => []SessionTypeOK
BY DeploysInvariant, PTL

\* What is proved of the deploys alone holds beside any number of sessions, whatever
\* of them asks for the lease: refusals touch nothing, no installation is left
\* unreported, a verified build stays and an installation is of the named build, but
\* for the causes named.
THEOREM DeploysHoldBesideSessions ==
  DeploysSpec => /\ [](TypeOK /\ RefusedMeansUntouched /\ LeavesNoInstall /\ VerifiedBuildStays)
                 /\ InstallsTheArtifact
<1>1. StaysInv => TypeOK /\ RefusedMeansUntouched /\ LeavesNoInstall /\ VerifiedBuildStays
  BY DEF StaysInv, ScriptInv, DeployInv, RefusedMeansUntouched, LeavesNoInstall, Refusals
<1>2. StaysInv /\ SessionTypeOK /\ [DeploysNext]_allVars =>
        [\A d \in Deploy :
           (inst[d] = "running" /\ inst'[d] = "done" /\ bin' # bin)
             => \/ bin' = Artifact[d]
                \/ plan[d].reuse /\ "outsider" \in faults]_vars
  <2>1. CASE UNCHANGED allVars \/ CiSteps
    BY <2>1 DEF allVars, CiSteps
  <2>2. CASE BenchSteps
    BY <2>2, InstallStep DEF BenchSteps, StaysInv
  <2>3. ASSUME StaysInv, SessionTypeOK, NEW s \in Session, SessionSteps(s) PROVE Steady
    BY <2>3, SessionStepTyped DEF StaysInv, ScriptInv
  <2> QED BY <2>1, <2>2, <2>3 DEF DeploysNext, SessionSteps, Steady
<1> QED BY <1>1, <1>2, DeploysInvariant, PTL DEF DeploysSpec, InstallsTheArtifact
-----------------------------------------------------------------------------
\* The builds that are taken for builds of the session's branch.
Taken(s) == {build \in Build : Matches(build, wish[s].branch)}

FromClear == {"resolve", "curl", "pick", "download", "flatten", "deps", "scp"}
Answered == {"version", "reboot", "return", "health"}
PostCopy == {"install", "answer"} \cup Answered

\* How far a session has come with what it chose and sent.
PathInv(s) ==
  /\ spc[s] = "idle" => boot[s] = "no" /\ s \notin lost \cup disturbed \cup wiped
  /\ listed[s] \subseteq Taken(s)
  /\ AsksOwn(s) => run[s] \in Taken(s) \cup {None, "blossom"}
  /\ spc[s] = "curl" => file[s] \in {"curl"} \X Taken(s)
  /\ remote[s][2] # "none" => remote[s][1] # "none"
  /\ remote[s][1] # "none" => spc[s] \in {"answer", "ended"} \cup Answered
  /\ spc[s] = "answer" => remote[s][1] # "none"
  /\ spc[s] \in Answered /\ s \notin lost => remote[s][Last(s)] = "done"
  /\ ~wish[s].reboot => boot[s] # "reboot" /\ spc[s] \notin {"reboot", "cold"}

\* What an undisturbed session has on the router and in BUILD_DIR.
RouterInv(s) ==
  AsksOwn(s) /\ spc[s] \notin {"idle", "ended"} /\ s \notin disturbed =>
    /\ spc[s] \in FromClear => \A n \in DirNames : dir[n] \in Taken(s) \cup {None, Junk}
    /\ spc[s] \in PostCopy /\ Installable(s) => tmp["plain"] \in Taken(s) \cup {None}
    /\ \A i \in 1..2 : remote[s][i] = "added" => bin \in Taken(s)
    /\ s \in wiped => bin \in Taken(s) \/ (bin = None /\ ~up)
    /\ (~wish[s].reboot /\ up /\ \E i \in 1..2 : remote[s][i] \notin {"none", "stop"})
         => bin \in Taken(s)

SessionInv == \A s \in Session : PathInv(s) /\ RouterInv(s)

\* A session that another's step leaves aside keeps what is said of it: it is
\* disturbed, or nothing it depends on has changed.
LEMMA AsideKeeps ==
  ASSUME SessionTypeOK, NEW t \in Session, PathInv(t), RouterInv(t),
         spc'[t] = spc[t], listed'[t] = listed[t], run'[t] = run[t], file'[t] = file[t],
         boot'[t] = boot[t], wish' = wish, manager' = manager,
         remote'[t] = remote[t] \/ remote'[t] = Gone(remote)[t],
         (t \in lost') = (t \in lost), (t \in wiped') = (t \in wiped),
         \/ UNCHANGED <<Shared, disturbed>>
         \/ (t \in disturbed') = (t \in disturbed) /\ t \notin Active
         \/ t \in disturbed' /\ t \in Active
  PROVE  PathInv(t)' /\ RouterInv(t)'
<1>1. \A i \in 1..2 : (remote'[t][i] = "none") = (remote[t][i] = "none")
  BY GoneTyped
<1>2. \A i \in 1..2 : remote[t][i] = "done" => remote'[t][i] = "done"
  BY GoneTyped
<1>3. PathInv(t)'
  <2>1. Taken(t)' = Taken(t) /\ AsksOwn(t)' = AsksOwn(t) /\ Last(t)' = Last(t)
    BY <1>1 DEF Taken, AsksOwn, Last
  <2>2. spc[t] = "idle" => t \notin disturbed'
    BY DEF PathInv, Active
  <2>3. Last(t) \in 1..2
    BY DEF Last
  <2> QED BY <1>1, <1>2, <2>1, <2>2, <2>3 DEF PathInv
<1>4. RouterInv(t)'
  <2>1. CASE UNCHANGED <<Shared, disturbed>>
    BY <2>1 DEF RouterInv, Taken, AsksOwn, Installable, Shared
  <2>2. CASE t \in disturbed' \/ t \notin Active
    BY <2>2 DEF RouterInv, Active
  <2> QED BY <2>1, <2>2
<1> QED BY <1>3, <1>4

\* Nobody but the session itself touches what it has in BUILD_DIR or on the router
\* without disturbing it.
LEMMA OthersInv ==
  ASSUME SessionTypeOK, SessionInv, NEW s \in Session, Aside(s), Outside(s),
         UNCHANGED <<wish, manager>>
  PROVE  \A t \in Session \ {s} : PathInv(t)' /\ RouterInv(t)'
<1> SUFFICES ASSUME NEW t \in Session \ {s} PROVE PathInv(t)' /\ RouterInv(t)'
  OBVIOUS
<1>1. \/ UNCHANGED <<Shared, disturbed>>
      \/ t \in disturbed' /\ t \in Active
      \/ (t \in disturbed') = (t \in disturbed) /\ t \notin Active
  BY DEF Outside
<1> QED BY <1>1, AsideKeeps DEF SessionInv, Aside

\* A session is not disturbed by itself.
LEMMA OwnOutside ==
  ASSUME SessionTypeOK, NEW s \in Session, Outside(s)
  PROVE  (s \in disturbed') = (s \in disturbed)
BY DEF Outside, Active

\* A session that only looked, outside of what it fetches and installs.
LEMMA LookingKeeps ==
  ASSUME SessionTypeOK, NEW s \in Session, PathInv(s), RouterInv(s),
         (s \in disturbed') = (s \in disturbed),
         UNCHANGED <<bin, tmp, up, dir, remote, boot, file, wish, manager, lost, wiped>>,
         spc[s] \notin {"ended"} \cup FromClear \cup PostCopy,
         spc'[s] \in {"wait", "look", "check", "factory", "firstboot", "clear", "back", "ended"},
         listed'[s] \subseteq Taken(s), run'[s] \in Taken(s) \cup {None, "blossom"} \/ ~AsksOwn(s)
  PROVE  PathInv(s)' /\ RouterInv(s)'
<1>1. Taken(s)' = Taken(s) /\ AsksOwn(s)' = AsksOwn(s) /\ Last(s)' = Last(s)
  BY DEF Taken, AsksOwn, Last
<1>2. PathInv(s)'
  BY <1>1 DEF PathInv, Answered, PostCopy
<1>3. RouterInv(s)'
  <2>1. spc'[s] \notin FromClear \cup PostCopy
    BY DEF FromClear, PostCopy, Answered
  <2>2. s \in wiped => spc[s] # "idle"
    BY DEF PathInv
  <2>3. \A i \in 1..2 : remote[s][i] = "none"
    BY DEF PathInv, PostCopy, Answered
  <2> QED BY <1>1, <2>1, <2>2, <2>3 DEF RouterInv
<1> QED BY <1>2, <1>3

\* A session that waits for CI knows runs of its own branch only.
LEMMA WaitingKeeps ==
  ASSUME SessionTypeOK, NEW s \in Session, PathInv(s), RouterInv(s), Outside(s),
         SessionStarts(s) \/ WaitPolls(s) \/ WaitLooks(s) \/ WaitTimesOut(s) \/ CheckDeployed(s)
  PROVE  PathInv(s)' /\ RouterInv(s)' /\ UNCHANGED <<wish, manager>>
<1>1. /\ UNCHANGED <<bin, tmp, up, dir, remote, boot, file, wish, manager, lost, wiped>>
      /\ spc[s] \in {"idle", "wait", "look", "check"}
  BY DEF SessionStarts, WaitPolls, WaitLooks, WaitTimesOut, CheckDeployed, Fetching, router, world
<1>2. spc'[s] \in {"wait", "look", "check", "factory", "firstboot", "clear", "ended"}
  <2> USE WishTyped, GoTyped, FinishTyped DEF Places, Results
  <2>1. CASE SessionStarts(s)
    BY <2>1 DEF SessionStarts
  <2>2. CASE WaitPolls(s)
    BY <2>2 DEF WaitPolls
  <2>3. CASE WaitLooks(s)
    BY <2>3 DEF WaitLooks
  <2>4. CASE WaitTimesOut(s)
    BY <2>4 DEF WaitTimesOut
  <2>5. CASE CheckDeployed(s)
    <3>1. Finish(s, "skipped") \/ Go(s, "clear")
      BY <2>5 DEF CheckDeployed
    <3> QED BY <3>1
  <2> QED BY <2>1, <2>2, <2>3, <2>4, <2>5
<1>3. listed'[s] \subseteq Taken(s) /\ (run'[s] \in Taken(s) \cup {None, "blossom"} \/ ~AsksOwn(s))
  <2> USE DEF SessionTypeOK
  <2>1. CASE SessionStarts(s)
    <3>1. wish[s].run = None \/ wish[s].run \in Taken(s) \/ ~AsksOwn(s)
      BY WishTyped DEF AsksOwn, Taken, Matches
    <3>2. listed' = listed /\ run'[s] = wish[s].run
      BY <2>1 DEF SessionStarts
    <3> QED BY <3>1, <3>2 DEF PathInv
  <2>2. CASE WaitPolls(s)
    <3>1. Runs(s) \subseteq Taken(s)
      BY DEF Runs, Taken, Matches
    <3>2. /\ listed' = listed \/ listed' = [listed EXCEPT ![s] = Runs(s)]
          /\ run' = run \/ run' = [run EXCEPT ![s] = "blossom"]
      BY <2>2 DEF WaitPolls
    <3> QED BY <3>1, <3>2 DEF PathInv
  <2>3. CASE WaitLooks(s)
    <3>1. Newest(listed[s]) \in listed[s]
      BY <2>3, NewestIsOne DEF WaitLooks
    <3> QED BY <2>3, <3>1 DEF WaitLooks, PathInv
  <2>4. CASE WaitTimesOut(s) \/ CheckDeployed(s)
    BY <2>4 DEF WaitTimesOut, CheckDeployed, PathInv
  <2> QED BY <2>1, <2>2, <2>3, <2>4
<1>4. spc[s] \notin {"ended"} \cup FromClear \cup PostCopy
  BY <1>1 DEF FromClear, PostCopy, Answered
<1> QED BY <1>1, <1>2, <1>3, <1>4, OwnOutside, LookingKeeps

\* What a session fetches is of its branch, or an error page.
TakenDir(s) == \A n \in DirNames : dir[n] \in Taken(s) \cup {None, Junk}

\* A session that fetches has not touched the router yet.
LEMMA FetchedKeeps ==
  ASSUME SessionTypeOK, NEW s \in Session, PathInv(s), RouterInv(s),
         (s \in disturbed') = (s \in disturbed),
         UNCHANGED <<bin, tmp, up, remote, boot, wish, manager, lost, wiped, listed>>,
         spc[s] \in {"clear", "resolve", "curl", "pick", "download", "flatten"},
         spc'[s] \in {"resolve", "curl", "pick", "download", "flatten", "deps", "ended"},
         AsksOwn(s) => run'[s] \in Taken(s) \cup {None, "blossom"},
         spc'[s] = "curl" => file'[s] \in {"curl"} \X Taken(s),
         AsksOwn(s) /\ s \notin disturbed => TakenDir(s)'
  PROVE  PathInv(s)' /\ RouterInv(s)'
<1>1. Taken(s)' = Taken(s) /\ AsksOwn(s)' = AsksOwn(s) /\ Last(s)' = Last(s)
  BY DEF Taken, AsksOwn, Last
<1>2. PathInv(s)'
  BY <1>1 DEF PathInv, Answered
<1>3. RouterInv(s)'
  <2>1. spc'[s] \notin PostCopy /\ spc[s] \notin {"idle", "ended"}
    BY DEF PostCopy, Answered
  <2>2. \A i \in 1..2 : remote[s][i] = "none"
    BY DEF PathInv, Answered
  <2> QED BY <1>1, <2>1, <2>2 DEF RouterInv, TakenDir
<1> QED BY <1>2, <1>3

\* Each way of fetching, and the flattening of what came, keeps what is said of a session.
LEMMA FetchingKeeps ==
  ASSUME SessionTypeOK, NEW s \in Session, PathInv(s), RouterInv(s), Outside(s),
         \/ ClearBuildDir(s) \/ Resolve(s) \/ Curl(s) \/ PickRun(s) \/ Download(s) \/ Flatten(s)
  PROVE  PathInv(s)' /\ RouterInv(s)' /\ UNCHANGED <<wish, manager>>
<1>1. /\ UNCHANGED <<bin, tmp, up, remote, boot, wish, manager, lost, wiped, listed>>
      /\ spc[s] \in {"clear", "resolve", "curl", "pick", "download", "flatten"}
  BY DEF ClearBuildDir, Resolve, Curl, PickRun, Download, Flatten, Fetching, router, world
<1>2. spc'[s] \in {"resolve", "curl", "pick", "download", "flatten", "deps", "ended"}
  <2> USE GoTyped, FinishTyped DEF Places, Results
  <2>1. CASE ClearBuildDir(s) \/ Resolve(s)
    BY <2>1 DEF ClearBuildDir, Resolve
  <2>2. CASE Curl(s) \/ PickRun(s)
    BY <2>2 DEF Curl, PickRun
  <2>3. CASE Download(s) \/ Flatten(s)
    BY <2>3 DEF Download, Flatten
  <2> QED BY <2>1, <2>2, <2>3
<1>3. CASE ClearBuildDir(s)
  <2>1. run' = run /\ TakenDir(s)' /\ spc'[s] # "curl"
    BY <1>3, GoTyped DEF ClearBuildDir, Nothing, TakenDir, Places
  <2> QED BY <1>1, <1>2, <2>1, OwnOutside, FetchedKeeps DEF PathInv
<1>4. ASSUME spc[s] \in FromClear PROVE AsksOwn(s) /\ s \notin disturbed => TakenDir(s)
  BY <1>4 DEF RouterInv, TakenDir, FromClear
<1>5. Taken(s)' = Taken(s)
  BY <1>1 DEF Taken
<1>6. CASE Resolve(s)
  <2>1. InIndex(s) # {} => Newest(InIndex(s)) \in Taken(s)
    <3>1. InIndex(s) \in SUBSET Build /\ InIndex(s) \subseteq Taken(s)
      BY DEF InIndex, SessionTypeOK, Taken, Matches
    <3> QED BY <3>1, NewestIsOne
  <2>2. spc'[s] = "curl" => \E b \in Taken(s) : file' = [file EXCEPT ![s] = <<"curl", b>>]
    BY <1>6, <2>1, GoTyped DEF Resolve, Places
  <2>3. spc'[s] = "curl" => file'[s] \in {"curl"} \X Taken(s)
    BY <2>2 DEF SessionTypeOK
  <2>4. dir' = dir /\ run' = run /\ spc[s] = "resolve"
    BY <1>6 DEF Resolve
  <2> QED BY <1>1, <1>2, <1>4, <1>5, <2>3, <2>4, OwnOutside, FetchedKeeps DEF PathInv, TakenDir, FromClear
<1>7. CASE Curl(s)
  <2>1. spc'[s] # "curl" /\ run' = run /\ spc[s] = "curl"
    BY <1>7, GoTyped DEF Curl, Places
  <2>2. file[s] \in DirNames /\ file[s][2] \in Taken(s)
    BY <2>1 DEF PathInv, SessionTypeOK
  <2>3. TakenDir(s) => TakenDir(s)'
    <3>1. dir' = dir \/ \E content \in {file[s][2], Junk} : dir' = [dir EXCEPT ![file[s]] = content]
      BY <1>7 DEF Curl
    <3> QED BY <1>5, <2>2, <3>1 DEF TakenDir, SessionTypeOK
  <2> QED BY <1>1, <1>2, <1>4, <2>1, <2>3, OwnOutside, FetchedKeeps DEF PathInv, FromClear
<1>8. CASE PickRun(s)
  <2> DEFINE green == {b \in Runs(s) : ci[b] = "green"}
             over == {b \in Runs(s) : ci[b] # "running"}
             chosen == IF green # {} THEN green ELSE over
  <2>1. over # {} => Newest(chosen) \in Taken(s)
    <3>1. chosen \in SUBSET Build /\ chosen \subseteq Taken(s)
      BY DEF Runs, Taken, Matches
    <3> QED BY <3>1, NewestIsOne
  <2>2. run' = run \/ (over # {} /\ run' = [run EXCEPT ![s] = Newest(chosen)])
    BY <1>8 DEF PickRun
  <2>3. AsksOwn(s) => run'[s] \in Taken(s) \cup {None, "blossom"}
    <3> HIDE DEF over, chosen
    <3> QED BY <2>1, <2>2 DEF PathInv, SessionTypeOK
  <2>4. spc'[s] # "curl" /\ dir' = dir /\ spc[s] = "pick"
    BY <1>8, GoTyped, FinishTyped DEF PickRun, Places, Results
  <2> QED BY <1>1, <1>2, <1>4, <1>5, <2>3, <2>4, OwnOutside, FetchedKeeps DEF TakenDir, FromClear
<1>9. CASE Download(s)
  <2>1. spc'[s] # "curl" /\ run' = run /\ spc[s] = "download"
    BY <1>9, GoTyped, FinishTyped DEF Download, Places, Results
  <2>2. AsksOwn(s) /\ TakenDir(s) => TakenDir(s)'
    <3>1. \/ dir' = dir
          \/ /\ run[s] \in Build
             /\ dir' \in {[dir EXCEPT ![<<"run", run[s]>>] = run[s]],
                          [Nothing EXCEPT ![<<"run", run[s]>>] = run[s]]}
      BY <1>9 DEF Download, SessionTypeOK
    <3>2. AsksOwn(s) /\ run[s] \in Build => run[s] \in Taken(s)
      BY NoneIsNobody, BlossomIsNoRun DEF PathInv
    <3> QED BY <1>5, <3>1, <3>2 DEF TakenDir, SessionTypeOK, Nothing
  <2> QED BY <1>1, <1>2, <1>4, <2>1, <2>2, OwnOutside, FetchedKeeps DEF PathInv, FromClear
<1>10. CASE Flatten(s)
  <2>1. spc'[s] # "curl" /\ run' = run /\ spc[s] = "flatten"
    BY <1>10, GoTyped, FinishTyped DEF Flatten, Places, Results
  <2>2. TakenDir(s) => TakenDir(s)'
    <3>1. dir' = dir \/ \E n \in DirNames : dir' = [dir EXCEPT ![Flat] = dir[n]]
      BY <1>10 DEF Flatten
    <3> QED BY <1>5, <3>1 DEF TakenDir, SessionTypeOK
  <2> QED BY <1>1, <1>2, <1>4, <2>1, <2>2, OwnOutside, FetchedKeeps DEF PathInv, FromClear
<1> QED BY <1>1, <1>3, <1>6, <1>7, <1>8, <1>9, <1>10

\* A session that went on, with nothing of its own changed but its connection lost.
LEMMA PassingKeeps ==
  ASSUME SessionTypeOK, NEW s \in Session, PathInv(s), RouterInv(s),
         (s \in disturbed') = (s \in disturbed),
         UNCHANGED <<bin, tmp, up, dir, remote, boot, file, wish, manager, wiped, listed, run>>,
         lost' = lost \/ lost' = lost \cup {s}, spc[s] # "idle",
         \/ spc'[s] = "ended"
         \/ spc[s] = "deps" /\ spc'[s] = "scp"
         \/ spc[s] = "back" /\ spc'[s] = "check"
         \/ spc[s] \in Answered /\ spc'[s] \in Answered /\ (spc'[s] = "reboot" => wish[s].reboot)
  PROVE  PathInv(s)' /\ RouterInv(s)'
<1>1. Taken(s)' = Taken(s) /\ AsksOwn(s)' = AsksOwn(s) /\ Last(s)' = Last(s)
  BY DEF Taken, AsksOwn, Last
<1>2. PathInv(s)'
  BY <1>1 DEF PathInv, Answered
<1>3. RouterInv(s)'
  BY <1>1 DEF RouterInv, FromClear, PostCopy, Answered, Installable
<1> QED BY <1>2, <1>3

\* The commands that change nothing on the router keep what is said of a session.
LEMMA SendingKeeps ==
  ASSUME SessionTypeOK, NEW s \in Session, PathInv(s), RouterInv(s),
         (s \in disturbed') = (s \in disturbed),
         Deps(s) \/ Version(s) \/ Returns(s) \/ Refuses(s) \/ Healthy(s)
  PROVE  PathInv(s)' /\ RouterInv(s)'
<1>1. UNCHANGED <<bin, tmp, up, dir, remote, boot, file, wish, manager, wiped, listed, run>>
  BY DEF Deps, Version, Returns, Refuses, Healthy, OnRouter, router, world
<1> USE PassesTyped, FinishTyped DEF Places, Results
<1>2. CASE Deps(s)
  BY <1>1, <1>2, PassingKeeps DEF Deps
<1>3. CASE Version(s)
  BY <1>1, <1>3, WishTyped, PassingKeeps DEF Version, Answered
<1>4. CASE Returns(s)
  BY <1>1, <1>4, PassingKeeps DEF Returns, Answered
<1>5. CASE Refuses(s) \/ Healthy(s)
  BY <1>1, <1>5, PassingKeeps DEF Refuses, Healthy
<1> QED BY <1>2, <1>3, <1>4, <1>5

\* What is staged is of the branch, once it can be installed.
LEMMA CopyKeeps ==
  ASSUME RouterTyped, SessionTypeOK, NEW s \in Session, PathInv(s), RouterInv(s),
         (s \in disturbed') = (s \in disturbed), Copy(s)
  PROVE  PathInv(s)' /\ RouterInv(s)'
<1>1. /\ UNCHANGED <<bin, up, dir, remote, boot, file, wish, manager, wiped, lost, listed, run>>
      /\ spc[s] = "scp"
  BY DEF Copy, OnRouter, world
<1>2. Taken(s)' = Taken(s) /\ AsksOwn(s)' = AsksOwn(s) /\ Last(s)' = Last(s) /\ Installable(s)' = Installable(s)
  BY <1>1 DEF Taken, AsksOwn, Last, Installable
<1>3. CASE Finish(s, "failed") /\ UNCHANGED tmp
  BY <1>1, <1>3, FinishTyped, PassingKeeps DEF Results
<1>4. CASE Go(s, "install")
  <2>1. spc'[s] = "install"
    BY <1>4, GoTyped DEF Places
  <2>2. PathInv(s)'
    BY <1>1, <1>2, <2>1 DEF PathInv, Answered
  <2>3. RouterInv(s)'
    <3>1. AsksOwn(s) /\ s \notin disturbed => dir[file[s]] \in Taken(s) \cup {None, Junk}
      BY <1>1 DEF RouterInv, FromClear, SessionTypeOK
    <3>2. "plain" \in Names
      BY DEF Names
    <3>3. dir[file[s]] # None
      BY <1>1, <2>1, FinishTyped DEF Copy, Results
    <3>4. Installable(s) => tmp'["plain"] = IF dir[file[s]] = Junk THEN None ELSE dir[file[s]]
      BY <1>1, <2>1, <3>2, FinishTyped DEF Copy, Results, RouterTyped
    <3>5. \A i \in 1..2 : remote[s][i] = "none"
      BY <1>1 DEF PathInv, Answered
    <3> QED BY <1>1, <1>2, <2>1, <3>1, <3>3, <3>4, <3>5 DEF RouterInv, FromClear, PostCopy, Answered
  <2> QED BY <2>2, <2>3
<1> QED BY <1>3, <1>4 DEF Copy

\* Sending the install command, once or twice, starts nothing but "stop" at once.
LEMMA InstallKeeps ==
  ASSUME RouterTyped, SessionTypeOK, NEW s \in Session, PathInv(s), RouterInv(s),
         (s \in disturbed') = (s \in disturbed),
         Install(s) \/ InstallAnswers(s) \/ InstallTimesOut(s)
  PROVE  PathInv(s)' /\ RouterInv(s)'
<1>1. /\ UNCHANGED <<bin, tmp, up, dir, boot, file, wish, manager, wiped, listed, run>>
      /\ spc[s] \in {"install", "answer"} /\ (lost' = lost \/ lost' = lost \cup {s})
  BY DEF Install, InstallAnswers, InstallTimesOut, OnRouter, router, world, Sent, Unsent
<1>2. Taken(s)' = Taken(s) /\ AsksOwn(s)' = AsksOwn(s) /\ Installable(s)' = Installable(s)
  BY <1>1 DEF Taken, AsksOwn, Installable
<1>3. CASE Install(s)
  <2>1. spc[s] = "install" /\ \A i \in 1..2 : remote[s][i] = "none"
    BY <1>3 DEF Install, PathInv, Answered
  <2>2. \/ /\ remote'[s] = <<"stop", "none">> /\ lost' = lost /\ spc'[s] = "answer"
        \/ /\ remote' = remote /\ s \in lost' /\ spc'[s] = "version"
    BY <1>3, GoTyped DEF Install, Sent, Unsent, Places, SessionTypeOK
  <2>3. /\ remote'[s][1] \in {"none", "stop"} /\ remote'[s][2] = "none"
        /\ spc'[s] = "answer" => remote'[s][1] = "stop"
        /\ spc'[s] = "version" => remote'[s][1] = "none" /\ s \in lost'
        /\ spc'[s] \in {"answer", "version"}
    BY <2>1, <2>2
  <2>4. PathInv(s)'
    BY <1>1, <1>2, <2>1, <2>3 DEF PathInv, Answered, Last
  <2>5. RouterInv(s)'
    BY <1>1, <1>2, <2>1, <2>3 DEF RouterInv, FromClear, PostCopy, Answered
  <2> QED BY <2>4, <2>5
<1>4. CASE InstallAnswers(s)
  <2>1. spc[s] = "answer" /\ spc'[s] = "version" /\ remote' = remote
        /\ (remote[s][Last(s)] = "done" \/ s \in lost')
    BY <1>4, GoTyped DEF InstallAnswers, Places, Sent, Unsent
  <2>2. Last(s)' = Last(s)
    BY <2>1 DEF Last
  <2>3. PathInv(s)'
    BY <1>1, <1>2, <2>1, <2>2 DEF PathInv, Answered
  <2>4. RouterInv(s)'
    BY <1>1, <1>2, <2>1 DEF RouterInv, FromClear, PostCopy, Answered
  <2> QED BY <2>3, <2>4
<1>5. CASE InstallTimesOut(s)
  <2>1. CASE Last(s) = 1
    <3>1. /\ spc' = spc /\ lost' = lost /\ remote'[s][1] = remote[s][1] /\ remote'[s][2] = "stop"
          /\ spc[s] = "answer"
      BY <1>5, <2>1 DEF InstallTimesOut, SessionTypeOK
    <3>2. PathInv(s)'
      BY <1>1, <1>2, <3>1 DEF PathInv, Answered
    <3>3. RouterInv(s)'
      BY <1>1, <1>2, <3>1 DEF RouterInv, FromClear, PostCopy, Answered
    <3> QED BY <3>2, <3>3
  <2>2. CASE Last(s) # 1
    BY <1>1, <1>5, <2>2, FinishTyped, PassingKeeps DEF InstallTimesOut, Results
  <2> QED BY <2>1, <2>2
<1> QED BY <1>3, <1>4, <1>5

\* A reset or a reboot is sent before anything was installed, or because it was asked for.
LEMMA ResettingKeeps ==
  ASSUME RouterTyped, SessionTypeOK, NEW s \in Session, PathInv(s), RouterInv(s),
         (s \in disturbed') = (s \in disturbed),
         RebootRouter(s) \/ FirstbootReset(s) \/ FactoryReset(s)
  PROVE  PathInv(s)' /\ RouterInv(s)'
<1>1. /\ UNCHANGED <<tmp, dir, remote, file, wish, manager, listed, run>>
      /\ spc[s] \in {"reboot", "cold", "firstboot", "factory"} /\ (lost' = lost \/ lost' = lost \cup {s})
  BY DEF RebootRouter, FirstbootReset, Restarts, FactoryReset, OnRouter, router, world, Sent, Unsent
<1>2. Taken(s)' = Taken(s) /\ AsksOwn(s)' = AsksOwn(s) /\ Installable(s)' = Installable(s)
      /\ Last(s)' = Last(s)
  BY <1>1 DEF Taken, AsksOwn, Installable, Last
<1>3. CASE RebootRouter(s) \/ FirstbootReset(s)
  <2>1. /\ UNCHANGED <<bin, up, wiped>>
        /\ \/ spc[s] = "reboot" /\ spc'[s] = "return"
           \/ spc[s] \in {"cold", "firstboot"} /\ spc'[s] = "back"
        /\ boot'[s] # boot[s] => boot'[s] = IF spc[s] = "firstboot" THEN "firstboot" ELSE "reboot"
    BY <1>3, GoTyped DEF RebootRouter, FirstbootReset, Restarts, Places, SessionTypeOK, router
  <2>2. PathInv(s)'
    BY <1>1, <1>2, <2>1 DEF PathInv, Answered
  <2>3. RouterInv(s)'
    BY <1>1, <1>2, <2>1 DEF RouterInv, FromClear, PostCopy, Answered
  <2> QED BY <2>2, <2>3
<1>4. CASE FactoryReset(s)
  <2>1. /\ spc[s] = "factory" /\ boot' = boot
        /\ spc'[s] \in {"check", "cold", "ended"} /\ (spc'[s] = "cold" => wish[s].reboot)
    BY <1>4, GoTyped, FinishTyped DEF FactoryReset, Places, Results
  <2>2. UNCHANGED <<bin, up, wiped>> \/ (bin' = None /\ up' = FALSE)
    BY <1>4 DEF FactoryReset
  <2>3. \A i \in 1..2 : remote[s][i] = "none"
    BY <2>1 DEF PathInv, Answered
  <2>4. PathInv(s)'
    BY <1>1, <1>2, <2>1, WishTyped DEF PathInv, Answered
  <2>5. RouterInv(s)'
    BY <1>1, <1>2, <2>1, <2>2, <2>3 DEF RouterInv, FromClear, PostCopy, Answered
  <2> QED BY <2>4, <2>5
<1> QED BY <1>3, <1>4

\* The command line on the router installs what the session staged, and starts no other.
LEMMA RemoteRunsKeeps ==
  ASSUME RouterTyped, SessionTypeOK, NEW s \in Session, PathInv(s), RouterInv(s),
         (s \in disturbed') = (s \in disturbed), NEW i \in 1..2, RemoteRuns(s, i)
  PROVE  PathInv(s)' /\ RouterInv(s)'
<1>1. /\ UNCHANGED <<bomb, inst, spc, boot, result, lost, wiped, dir, wish, listed, run, file, manager>>
  BY DEF RemoteRuns, OnRouter, world
<1>2. Taken(s)' = Taken(s) /\ AsksOwn(s)' = AsksOwn(s) /\ Installable(s)' = Installable(s)
  BY <1>1 DEF Taken, AsksOwn, Installable
<1>3. remote[s][i] \notin {"none", "done"}
  BY DEF RemoteRuns
<1>4. /\ remote'[s][i] \in {"add", "added", "refused", "done"}
      /\ \A j \in 1..2 \ {i} : remote'[s][j] = remote[s][j]
      /\ remote'[s][i] = "add" => remote[s][i] = "stop" /\ up' = FALSE
      /\ remote'[s][i] = "added" => Installable(s) /\ tmp["plain"] # None /\ bin' = tmp["plain"] /\ up' = up
      /\ remote'[s][i] \in {"refused", "done"} => remote[s][i] # "stop"
      /\ remote'[s][i] = "refused" => up' = up
      /\ remote'[s][i] = "done" => remote[s][i] = "added" \/ up' = up
      /\ remote'[s][i] # "added" => bin' = bin
  <2> DEFINE Now(l) == remote' = [remote EXCEPT ![s][i] = l]
  <2>1. ASSUME NEW l \in RemoteSteps, Now(l)
        PROVE  remote'[s][i] = l /\ \A j \in 1..2 \ {i} : remote'[s][j] = remote[s][j]
    BY <2>1, RemoteTyped
  <2>2. \/ remote[s][i] = "stop" /\ up' = FALSE /\ Now("add") /\ UNCHANGED <<bin, tmp>>
        \/ /\ remote[s][i] = "add" /\ Installable(s) /\ tmp["plain"] # None
           /\ bin' = tmp["plain"] /\ Now("added") /\ UNCHANGED <<up, tmp>>
        \/ remote[s][i] = "add" /\ Now("refused") /\ UNCHANGED <<bin, up, tmp>>
        \/ /\ remote[s][i] \in {"added", "refused"} /\ (remote[s][i] = "added" \/ up' = up)
           /\ Now("done") /\ UNCHANGED bin
    BY DEF RemoteRuns
  <2> HIDE DEF Now
  <2> QED BY <2>1, <2>2 DEF RemoteSteps
<1>5. "plain" \in Names /\ tmp'["plain"] \in {tmp["plain"], None}
  BY DEF Names, RemoteRuns, RouterTyped
<1>6. PathInv(s)'
  <2>1. Last(s)' = Last(s)
    BY <1>3, <1>4 DEF Last
  <2>2. remote[s][Last(s)] = "done" => remote'[s][Last(s)] = "done"
    BY <1>3, <1>4 DEF Last
  <2>3. \A j \in 1..2 : (remote'[s][j] = "none") = (remote[s][j] = "none")
    BY <1>3, <1>4
  <2> QED BY <1>1, <1>2, <2>1, <2>2, <2>3 DEF PathInv
<1>7. RouterInv(s)'
  <2> SUFFICES ASSUME AsksOwn(s), spc[s] \notin {"idle", "ended"}, s \notin disturbed
               PROVE  RouterInv(s)'
    BY <1>1, <1>2 DEF RouterInv
  <2>1. spc[s] \in PostCopy /\ spc[s] \notin FromClear
    <3>1. remote[s][1] # "none"
      BY <1>3 DEF PathInv
    <3> QED BY <3>1 DEF PathInv, PostCopy, FromClear, Answered
  <2>2. remote'[s][i] = "added" => bin' \in Taken(s)
    BY <1>4, <2>1 DEF RouterInv
  <2>3. bin \in Taken(s) => bin' \in Taken(s)
    BY <1>4, <2>2
  <2>4. \A j \in 1..2 : remote'[s][j] = "added" => bin' \in Taken(s)
    BY <1>4, <2>2, <2>3 DEF RouterInv
  <2>5. s \in wiped => bin' \in Taken(s) \/ (bin' = None /\ ~up')
    BY <1>4, <2>2, <2>3 DEF RouterInv
  <2>6. (~wish[s].reboot /\ up' /\ \E j \in 1..2 : remote'[s][j] \notin {"none", "stop"})
          => bin' \in Taken(s)
    BY <1>3, <1>4, <2>2, <2>3 DEF RouterInv
  <2>7. spc[s] \in PostCopy /\ Installable(s) => tmp'["plain"] \in Taken(s) \cup {None}
    BY <1>5 DEF RouterInv
  <2> QED BY <1>1, <1>2, <2>1, <2>4, <2>5, <2>6, <2>7 DEF RouterInv
<1> QED BY <1>6, <1>7

\* A reboot starts what is installed; a session that waits for health without one of
\* its own has had none.
LEMMA BootsKeeps ==
  ASSUME RouterTyped, SessionTypeOK, NEW s \in Session, PathInv(s), RouterInv(s),
         (s \in disturbed') = (s \in disturbed), Boots(s)
  PROVE  PathInv(s)' /\ RouterInv(s)'
<1>1. /\ UNCHANGED <<spc, result, lost, dir, wish, listed, run, file, manager>>
      /\ boot[s] # "no" /\ boot'[s] = "no" /\ remote' = Gone(remote)
      /\ tmp'["plain"] = None
  BY DEF Boots, OnRouter, world, SessionTypeOK, Names
<1>2. Taken(s)' = Taken(s) /\ AsksOwn(s)' = AsksOwn(s) /\ Installable(s)' = Installable(s)
  BY <1>1 DEF Taken, AsksOwn, Installable
<1>3. \A i \in 1..2 : remote'[s][i] = IF remote[s][i] = "none" THEN "none" ELSE "done"
  BY <1>1, GoneTyped
<1>4. PathInv(s)'
  <2>1. Last(s)' = Last(s) /\ Last(s) \in 1..2
    BY <1>3 DEF Last
  <2> QED BY <1>1, <1>2, <1>3, <2>1 DEF PathInv
<1>5. CASE boot[s] = "firstboot"
  <2>1. bin' = None /\ up' = FALSE
    BY <1>5 DEF Boots
  <2> QED BY <1>1, <1>2, <1>3, <1>4, <2>1 DEF RouterInv
<1>6. CASE boot[s] # "firstboot"
  <2>1. bin' = bin /\ wiped' = wiped /\ up' = (bin # None) /\ boot[s] = "reboot"
    BY <1>1, <1>6 DEF Boots, SessionTypeOK
  <2>2. wish[s].reboot
    BY <2>1 DEF PathInv
  <2> QED BY <1>1, <1>2, <1>3, <1>4, <2>1, <2>2 DEF RouterInv
<1> QED BY <1>5, <1>6

\* Every step, of a session, a deploy, the router or CI, keeps what is said of the sessions.
LEMMA SessionInvStep ==
  ASSUME TypeOK, SessionTypeOK, SessionInv, [DeploysNext]_allVars
  PROVE  SessionInv'
<1>1. RouterTyped
  BY DEF TypeOK, RouterTyped
<1>2. ASSUME NEW s \in Session, SessionSteps(s) PROVE SessionInv'
  <2>1. Aside(s) /\ Outside(s) /\ (s \in disturbed') = (s \in disturbed) /\ PathInv(s) /\ RouterInv(s)
    BY <1>2, SessionStepTyped, OwnOutside DEF SessionInv, SessionSteps
  <2>2. PathInv(s)' /\ RouterInv(s)' /\ UNCHANGED <<wish, manager>>
    <3>1. CASE SessionStarts(s) \/ Fetches(s)
      BY <2>1, <3>1, WaitingKeeps, FetchingKeeps DEF Fetches
    <3>2. CASE Deploys(s)
      <4>1. UNCHANGED <<wish, manager>>
        BY <3>2 DEF Deploys, Deps, Copy, Install, InstallAnswers, InstallTimesOut, Version,
           RebootRouter, FirstbootReset, Restarts, Refuses, Returns, FactoryReset, Healthy,
           OnRouter, world
      <4> QED BY <1>1, <2>1, <3>2, <4>1, SendingKeeps, CopyKeeps, InstallKeeps, ResettingKeeps
              DEF Deploys
    <3>3. CASE Boots(s)
      BY <1>1, <2>1, <3>3, BootsKeeps DEF Boots, OnRouter, world
    <3>4. ASSUME NEW i \in 1..2, RemoteRuns(s, i) PROVE PathInv(s)' /\ RouterInv(s)' /\ UNCHANGED <<wish, manager>>
      BY <1>1, <2>1, <3>4, RemoteRunsKeeps DEF RemoteRuns, OnRouter, world
    <3> QED BY <1>2, <3>1, <3>2, <3>3, <3>4 DEF SessionSteps
  <2>3. \A t \in Session \ {s} : PathInv(t)' /\ RouterInv(t)'
    BY <2>1, <2>2, OthersInv
  <2> QED BY <2>2, <2>3 DEF SessionInv
<1>3. CASE CiSteps \/ UNCHANGED allVars
  <2>1. UNCHANGED <<bin, tmp, up, dir, remote, boot, file, wish, manager, wiped, lost, listed,
                    run, spc, disturbed>>
    BY <1>3 DEF CiSteps, allVars, vars, sessionVars, world, mine
  <2> QED BY <2>1 DEF SessionInv, PathInv, RouterInv, Taken, AsksOwn, Last, Installable
<1>4. CASE BenchSteps
  <2>1. /\ remote' = remote \/ remote' = Gone(remote)
        /\ UNCHANGED <<wish, manager, spc, listed, run, file, boot, lost, wiped>>
    BY <1>4, BenchStepTyped DEF BenchSteps, world
  <2>2. \A t \in Session :
          \/ UNCHANGED <<Shared, disturbed>>
          \/ t \in disturbed' /\ t \in Active
          \/ (t \in disturbed') = (t \in disturbed) /\ t \notin Active
    BY <1>4 DEF BenchSteps, Active
  <2>3. ASSUME NEW t \in Session PROVE PathInv(t)' /\ RouterInv(t)'
    BY <2>1, <2>2, AsideKeeps DEF SessionInv
  <2> QED BY <2>3 DEF SessionInv
<1> QED BY <1>2, <1>3, <1>4 DEF DeploysNext, SessionSteps

\* Nothing has been chosen, sent or disturbed at the start.
LEMMA SessionInvStart ==
  ASSUME DeploysInit
  PROVE  SessionInv
<1>1. \A s \in Session : PathInv(s)
  BY DEF DeploysInit, PathInv, Answered, Idle
<1>2. \A s \in Session : RouterInv(s)
  BY DEF DeploysInit, RouterInv
<1> QED BY <1>1, <1>2 DEF SessionInv

\* Only a poll that is answered, or a healthy router, ends a session well.
LEMMA SucceedsHealthy ==
  ASSUME SessionTypeOK, NEW s \in Session, DeploysNext, Succeeds(s), TypeOK
  PROVE  \/ spc[s] = "health" /\ up
         \/ spc[s] = "check" /\ bin # None /\ result'[s] = "skipped"
<1>1. ASSUME NEW r \in Results \ {"success", "skipped"}, Finish(s, r) PROVE FALSE
  BY <1>1, FinishTyped DEF Succeeds
<1>2. ASSUME NEW l, Go(s, l) PROVE FALSE
  BY <1>2 DEF Succeeds, Go
<1>3. ~CiSteps /\ ~BenchSteps
  BY DEF CiSteps, mine, BenchSteps, Succeeds
<1>4. PICK t \in Session : SessionSteps(t)
  BY <1>3 DEF DeploysNext, SessionSteps
<1>5. t = s
  BY <1>4, SessionStepTyped DEF Aside, Succeeds
<1>6. ASSUME NEW l, Passes(s, l) PROVE FALSE
  BY <1>1, <1>2, <1>6 DEF Passes, Results
<1>7. ~Boots(s) /\ \A i \in 1..2 : ~RemoteRuns(s, i)
  BY DEF Boots, RemoteRuns, Succeeds
<1>8. ~SessionStarts(s)
  BY <1>2 DEF SessionStarts
<1>9. CASE CheckDeployed(s)
  <2>1. ~Go(s, "clear")
    BY <1>2
  <2> QED BY <1>9, <2>1, FinishTyped DEF CheckDeployed, Results
<1>10. CASE ~CheckDeployed(s)
  <2>1. ~Fetches(s)
    <3>1. ~WaitPolls(s) /\ ~WaitLooks(s) /\ ~WaitTimesOut(s) /\ ~ClearBuildDir(s)
      BY <1>1, <1>2 DEF WaitPolls, WaitLooks, WaitTimesOut, ClearBuildDir, Results
    <3>2. ~Resolve(s) /\ ~Curl(s) /\ ~PickRun(s) /\ ~Download(s) /\ ~Flatten(s)
      BY <1>1, <1>2 DEF Resolve, Curl, PickRun, Download, Flatten, Results
    <3> QED BY <1>10, <3>1, <3>2 DEF Fetches
  <2>2. Deploys(s)
    BY <1>4, <1>5, <1>7, <1>8, <2>1 DEF SessionSteps
  <2>3. Healthy(s)
    <3>1. ~Deps(s) /\ ~Version(s) /\ ~Returns(s)
      BY <1>6 DEF Deps, Version, Returns
    <3>2. ~Copy(s) /\ ~Install(s) /\ ~InstallAnswers(s) /\ ~RebootRouter(s) /\ ~FirstbootReset(s)
      BY <1>1, <1>2 DEF Copy, Install, InstallAnswers, RebootRouter, FirstbootReset, Restarts, Results
    <3>3. ~InstallTimesOut(s)
      BY <1>1 DEF InstallTimesOut, Results, Succeeds
    <3>4. ~Refuses(s) /\ ~FactoryReset(s)
      BY <1>1, <1>2 DEF Refuses, FactoryReset, Results
    <3> QED BY <2>2, <3>1, <3>2, <3>3, <3>4 DEF Deploys
  <2> QED BY <1>1, <2>3 DEF Healthy, Results
<1> QED BY <1>9, <1>10

\* A session that returns success leaves a build that passed for its branch, but for
\* the causes named.
THEOREM SessionSuccessMatchesBranch == DeploysSpec => SuccessMatchesBranch
<1>1. DeploysSpec => []((StaysInv /\ SessionTypeOK) /\ SessionInv)
  <2>1. DeploysInit => SessionInv
    BY SessionInvStart
  <2>2. (StaysInv /\ SessionTypeOK) /\ SessionInv /\ [DeploysNext]_allVars => SessionInv'
    BY SessionInvStep DEF StaysInv, ScriptInv
  <2> QED BY <2>1, <2>2, DeploysInvariant, PTL DEF DeploysSpec
<1>2. ASSUME StaysInv, SessionTypeOK, SessionInv, DeploysNext, NEW s \in Session, Succeeds(s),
             s \notin disturbed, AsksOwn(s),
             s \in wiped \/ (s \notin lost /\ ~wish[s].reboot /\ result'[s] = "success")
      PROVE  bin # None /\ Matches(bin, wish[s].branch)
  <2>1. \/ spc[s] = "health" /\ up
        \/ spc[s] = "check" /\ bin # None /\ result'[s] = "skipped"
    BY <1>2, SucceedsHealthy DEF StaysInv, ScriptInv
  <2>2. bin \in Taken(s)
    <3>1. CASE s \in wiped
      BY <1>2, <2>1, <3>1 DEF SessionInv, RouterInv
    <3>2. CASE s \notin lost /\ ~wish[s].reboot /\ result'[s] = "success"
      <4>1. remote[s][Last(s)] = "done" /\ Last(s) \in 1..2
        BY <1>2, <2>1, <3>2 DEF SessionInv, PathInv, Answered, Last
      <4> QED BY <1>2, <2>1, <3>2, <4>1 DEF SessionInv, RouterInv
    <3> QED BY <1>2, <3>1, <3>2
  <2> QED BY <2>2, NoneIsNobody DEF Taken
<1>3. (StaysInv /\ SessionTypeOK) /\ SessionInv /\ [DeploysNext]_allVars =>
        [\A s \in Session :
           (/\ Succeeds(s) /\ s \notin disturbed /\ AsksOwn(s)
            /\ s \in wiped \/ (s \notin lost /\ ~wish[s].reboot /\ result'[s] = "success"))
              => bin # None /\ Matches(bin, wish[s].branch)]_allVars
  BY <1>2
<1> QED BY <1>1, <1>3, PTL DEF DeploysSpec, SuccessMatchesBranch
-----------------------------------------------------------------------------
\* Deploys use the bench as BenchOwner has it, which BenchLease implements, and the
\* sessions of deploy.py beside them do not use it at all.
THEOREM DeploysKeepToTheBench == DeploysSpec => Bench!Spec
<1> USE DEF Bench!Next, Bench!vars
<1>1. DeploysInit => Bench!Init
  BY DEF DeploysInit, Init
<1>2. [Next]_vars => [Bench!Next]_(Bench!vars)
  <2> SUFFICES ASSUME Next, ~UNCHANGED bench PROVE Bench!Next
    BY DEF vars, bench
  <2>1. ASSUME NEW d \in Deploy, Opens(d) \/ Closes(d) \/ LeaseDies(d) PROVE Bench!Next
    <3>1. Bench!Open(d) \/ Bench!Override(d) \/ Bench!Close(d) \/ Bench!Die(d)
      BY <2>1 DEF Opens, Closes, LeaseDies
    <3> QED BY <3>1
  <2>2. ASSUME NEW d \in Deploy, Script(d) \/ Killed(d) \/ Installs(d) PROVE FALSE
    BY <2>2 DEF Script, Gate, Preflight, Rotate, ClearPackagePath, Stage, VerifyStage, Launch,
       Poll, PollTimesOut, ReadBack, Report, Killed, Installs, bench, Goto, End
  <2>3. ~(Outsider \/ BombFires \/ Reboots)
    BY DEF Outsider, BombFires, Reboots
  <2> QED BY <2>1, <2>2, <2>3 DEF Next
<1>3. [DeploysNext]_allVars => [Bench!Next]_(Bench!vars)
  <2>1. ASSUME NEW s \in Session, SessionSteps(s) PROVE UNCHANGED bench
    BY <2>1 DEF SessionSteps, Outside, bench
  <2>2. CASE CiSteps \/ UNCHANGED allVars
    BY <2>2 DEF CiSteps, allVars, vars
  <2>3. CASE BenchSteps
    BY <1>2, <2>3 DEF BenchSteps
  <2> QED BY <2>1, <2>2, <2>3 DEF DeploysNext, SessionSteps, bench
<1> QED BY <1>1, <1>3, PTL DEF DeploysSpec, Bench!Spec
===================================================================================
