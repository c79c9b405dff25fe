---------------------------- MODULE ApQuiesceProofs ----------------------------
(***************************************************************************)
(* Theorems about ApQuiesce, for any routers and runs.                     *)
(***************************************************************************)
EXTENDS ApQuiesce, TLAPS, WellFoundedInduction

\* `--all` has a first router as long as one is left.
LEMMA MinIsMember ==
  ASSUME NEW S, S \subseteq Nat, S # {}
  PROVE  Min(S) \in S
<1>1. PICK x \in S : \A y \in S : <<y, x>> \notin OpToRel(<, Nat)
  BY WFMin, NatLessThanWellFounded, Zenon
<1>2. \A y \in S : ~(y < x)
  BY <1>1, Zenon DEF OpToRel
<1>3. \A y \in S : x <= y
  BY <1>2
<1> QED BY <1>3 DEF Min

\* A script under way is at one of the routers.
LEMMA AtRouter ==
  ASSUME TypeOK, NEW c \in Client, todo[c] # {}
  PROVE  At(c) \in todo[c] /\ At(c) \in Routers
BY MinIsMember, RoutersAreOrdered DEF TypeOK, At

\* quiesce-router.py is started on some routers.
LEMMA StartTyped ==
  ASSUME TypeOK, NEW c \in Client, NEW S \in SUBSET Routers, S # {},
         NEW b \in BOOLEAN, Start(c, S, b)
  PROVE  /\ todo' \in [Client -> SUBSET Routers]
         /\ \A d \in Client : script'[d] # "idle" => todo'[d] # {}
         /\ script' \in [Client -> {"idle", "set", "reload"}]
         /\ up' \in [Client -> BOOLEAN] /\ failed' \in [Client -> SUBSET Routers]
BY DEF TypeOK, Start
-----------------------------------------------------------------------------
\* The lease, the wrappers and the scripts are well typed, and a script that
\* is under way has a router to be at.
THEOREM QuiesceTypeCorrect == Spec => []TypeOK
<1> USE RoutersAreOrdered, TargetIsRouter, ClientsDiffer, MaxOpensIsNumber DEF Client, Run
<1>1. Init => TypeOK
  BY DEF Init, TypeOK, Bench!Init, Bench!TypeOK
<1>2. TypeOK /\ [Next]_vars => TypeOK'
  <2> SUFFICES ASSUME TypeOK, [Next]_vars PROVE TypeOK'
    OBVIOUS
  <2> USE DEF bench, router, session, To, Idle
  <2>1. CASE UNCHANGED vars
    BY <2>1 DEF vars, TypeOK, Bench!TypeOK
  <2>2. ASSUME NEW c \in Client, Scripting(c) PROVE TypeOK'
    <3>1. todo[c] # {} /\ At(c) \in Routers
      BY <2>2, AtRouter DEF Scripting, ScriptSets, ScriptReloads, ScriptFails,
                            ScriptTimesOut, TypeOK
    <3>2. QED
      BY <2>2, <3>1 DEF Scripting, ScriptSets, ScriptReloads, ScriptFails, ScriptTimesOut,
                        NextRouter, TypeOK, Bench!TypeOK
  <2>3. ASSUME NEW w \in Run, Running(w) PROVE TypeOK'
    <3>1. CASE RunOpens(w)
      <4>1. opens' \in 0 .. MaxOpens
        BY <3>1 DEF RunOpens, TypeOK
      <4>2. /\ uci' = uci /\ live' = live /\ owner' = w /\ record' = w
            /\ pc' = [pc EXCEPT ![w] = "arm"]
        BY <3>1 DEF RunOpens, Bench!Open
      <4>3. CASE w \in ArmRun
        <5>1. {Target[w]} \in SUBSET Routers /\ {Target[w]} # {}
          BY <4>3
        <5>2. Start(w, {Target[w]}, TRUE)
          BY <3>1, <4>3 DEF RunOpens
        <5>3. /\ todo' \in [Client -> SUBSET Routers]
              /\ \A d \in Client : script'[d] # "idle" => todo'[d] # {}
              /\ script' \in [Client -> {"idle", "set", "reload"}]
              /\ up' \in [Client -> BOOLEAN] /\ failed' \in [Client -> SUBSET Routers]
          BY <5>1, <5>2, StartTyped
        <5> QED BY <4>1, <4>2, <5>3 DEF TypeOK, Bench!TypeOK
      <4>4. CASE w \notin ArmRun
        BY <3>1, <4>1, <4>2, <4>4 DEF RunOpens, TypeOK, Bench!TypeOK
      <4> QED BY <4>3, <4>4
    <3>2. CASE CommandStarts(w) \/ LoginFails(w) \/ WrapperEnds(w) \/ WrapperDies(w)
      BY <3>2 DEF CommandStarts, LoginFails, WrapperEnds, WrapperDies, TypeOK, Bench!TypeOK
    <3>3. CASE CommandEnds(w)
      <4>1. CleanupOf(w) \subseteq Routers /\ CleanupOf(w) # {}
        BY DEF CleanupOf
      <4>2. QED BY <3>3, <4>1 DEF CommandEnds, Start, TypeOK, Bench!TypeOK
    <3>4. CASE RunCloses(w) \/ LeaseDies(w)
      BY <3>4 DEF RunCloses, LeaseDies, Bench!Close, Bench!Die, TypeOK, Bench!TypeOK
    <3> QED BY <2>3, <3>1, <3>2, <3>3, <3>4 DEF Running
  <2>4. ASSUME NEW c \in Watchdog, Watching(c) PROVE TypeOK'
    BY <2>4 DEF Watching, WatchdogLooks, WatchdogSweeps, WatchdogEnds, Start, TypeOK,
                Bench!TypeOK
  <2> QED BY <2>1, <2>2, <2>3, <2>4 DEF Next
<1> QED BY <1>1, <1>2, PTL DEF Spec
-----------------------------------------------------------------------------
\* The bench is recorded as the run's from its opening until its wrapper and its
\* script are over, also when its lease process died; so one script runs at
\* a time, over the routers its wrapper is responsible for.
RunInv ==
  /\ owner # None => record = owner
  /\ \A w \in Run :
       /\ pc[w] \in {"arm", "command", "cleanup"} \/ script[w] # "idle" => record = w
       /\ pc[w] \in {"off", "command", "ended"} => script[w] = "idle"
       /\ pc[w] \notin {"login", "sweep"}
       /\ script[w] = "idle" => todo[w] = {}
       /\ pc[w] = "cleanup" => ~up[w]
       /\ script[w] = "reload" => uci[At(w)] = up[w]
  /\ \A w \in ArmRun :
       /\ todo[w] \subseteq {Target[w]}
       /\ failed[w] \subseteq {Target[w]}
       /\ pc[w] = "arm" => up[w]
  /\ \A w \in SweepRun : pc[w] = "arm" => script[w] = "idle"

\* What was armed is configured on once the script is over.
ArmedInv ==
  \A w \in ArmRun :
    /\ pc[w] \in {"arm", "command"}
    /\ script[w] = "idle"
    /\ Target[w] \notin failed[w]
    => uci[Target[w]]

\* An AP on the air has somebody to take it down, or was reported.
Covered(r) ==
  \/ \E w \in Run : r \in failed[w]
  \/ \E w \in ArmRun : pc[w] \in {"arm", "command"} /\ r = Target[w]
  \/ \E w \in Run : pc[w] = "cleanup" /\ r \in todo[w]

\* The radios follow the configuration, but for a script about to reload them.
QuietInv ==
  /\ \A r \in Routers :
       live[r] # uci[r] => \E w \in Run : script[w] = "reload" /\ At(w) = r
  /\ \A r \in Routers : live[r] => Covered(r)
-----------------------------------------------------------------------------
\* The faults under which the scripts' promises hold: a killed lease process and
\* routers that refuse, but no killed wrapper and no script cut off half-way.
NoHalfWay ==
  Watchdog = {} /\ Hanging = {} /\ "wrapperDies" \notin Faults /\ "dropped" \notin Faults

\* Without half-way cuts one script runs at a time, and the bench is recorded as its
\* run's for as long as it does.
LEMMA RunInvariant == ASSUME NoHalfWay PROVE Spec => []RunInv
<1> USE RoutersAreOrdered, TargetIsRouter, ClientsDiffer, NoHalfWay
    DEF Client, Run, NoHalfWay
<1>1. Init => RunInv
  BY DEF Init, RunInv, Bench!Init
<1>2. TypeOK /\ RunInv /\ [Next]_vars => RunInv'
  <2> SUFFICES ASSUME TypeOK, RunInv, [Next]_vars PROVE RunInv'
    OBVIOUS
  <2> USE DEF bench, router, session, To, Idle
  <2>1. CASE UNCHANGED vars
    BY <2>1 DEF vars, RunInv, At
  <2>2. ASSUME NEW c \in Client, Scripting(c) PROVE RunInv'
    <3>1. todo[c] # {} /\ At(c) \in todo[c] /\ At(c) \in Routers
      BY <2>2, AtRouter DEF Scripting, ScriptSets, ScriptReloads, ScriptFails,
                            ScriptTimesOut, TypeOK
    <3>2. record = c /\ \A d \in Run \ {c} : script[d] = "idle"
      BY <2>2 DEF RunInv, Scripting, ScriptSets, ScriptReloads, ScriptFails, ScriptTimesOut
    <3>3. ASSUME NEW F \in SUBSET {At(c)}, NextRouter(c, F), script[c] # "idle",
                 UNCHANGED <<bench, pc>>,
                 UNCHANGED uci
          PROVE  RunInv'
      <4>1. /\ \A d \in Run \ {c} :
                 todo'[d] = todo[d] /\ script'[d] = "idle" /\ failed'[d] = failed[d]
            /\ todo'[c] = todo[c] \ {At(c)} /\ failed'[c] = failed[c] \cup F
            /\ script'[c] = IF todo[c] = {At(c)} THEN "idle" ELSE "set"
            /\ up' = up
        BY <3>2, <3>3 DEF NextRouter, TypeOK
      <4>2. script'[c] = "idle" => todo'[c] = {}
        BY <4>1
      <4>3. script'[c] # "reload" /\ F \subseteq todo[c]
        BY <3>1, <4>1
      <4>4. owner' = owner /\ record' = record /\ pc' = pc /\ uci' = uci
        BY <3>3
      <4>5. ASSUME NEW w \in Run
            PROVE  /\ pc'[w] \in {"arm", "command", "cleanup"} \/ script'[w] # "idle"
                        => record' = w
                   /\ pc'[w] \in {"off", "command", "ended"} => script'[w] = "idle"
                   /\ pc'[w] \notin {"login", "sweep"}
                   /\ script'[w] = "idle" => todo'[w] = {}
                   /\ pc'[w] = "cleanup" => ~up'[w]
                   /\ script'[w] # "reload"
        BY <3>2, <3>3, <4>1, <4>2, <4>3, <4>4 DEF RunInv
      <4>6. ASSUME NEW w \in ArmRun
            PROVE  todo'[w] \subseteq {Target[w]} /\ failed'[w] \subseteq {Target[w]}
        <5>1. todo'[w] \subseteq todo[w] /\ failed'[w] \subseteq failed[w] \cup todo[w]
          BY <4>1, <4>3
        <5> QED BY <5>1 DEF RunInv
      <4>7. ASSUME NEW w \in SweepRun, pc'[w] = "arm" PROVE script'[w] = "idle"
        BY <3>2, <3>3, <4>1, <4>4, <4>7 DEF RunInv
      <4>8. \A w \in ArmRun : pc'[w] = "arm" => up'[w]
        BY <4>1, <4>4 DEF RunInv
      <4>9. owner' # None => record' = owner'
        BY <4>4 DEF RunInv
      <4> QED BY <4>5, <4>6, <4>7, <4>8, <4>9 DEF RunInv
    <3>4. CASE ScriptSets(c)
      <4>1. CASE NextRouter(c, {}) /\ uci' = uci
        BY <3>3, <3>4, <4>1 DEF ScriptSets
      <4>2. CASE script' = [script EXCEPT ![c] = "reload"] /\ UNCHANGED <<todo, up, failed>>
        BY <3>1, <3>2, <3>4, <4>2 DEF ScriptSets, RunInv, TypeOK, At
      <4> QED BY <3>4, <4>1, <4>2 DEF ScriptSets
    <3>5. CASE ScriptReloads(c) \/ ScriptFails(c)
      BY <3>3, <3>5 DEF ScriptReloads, ScriptFails
    <3>6. ~ScriptTimesOut(c)
      BY DEF ScriptTimesOut
    <3> QED BY <2>2, <3>4, <3>5, <3>6 DEF Scripting
  <2>3. ASSUME NEW w \in Run, Running(w) PROVE RunInv'
    <3>1. CASE RunOpens(w)
      BY <3>1 DEF RunOpens, Start, Bench!Open, RunInv, TypeOK, Bench!TypeOK, At
    <3>2. CASE CommandStarts(w) \/ LoginFails(w) \/ WrapperEnds(w) \/ WrapperDies(w)
      BY <3>2 DEF CommandStarts, LoginFails, WrapperEnds, WrapperDies, RunInv, TypeOK, At
    <3>3. CASE CommandEnds(w)
      <4>1. /\ pc[w] = "command" /\ record = w /\ \A d \in Run \ {w} : script[d] = "idle"
            /\ \A d \in Run \ {w} : script'[d] = script[d] /\ todo'[d] = todo[d]
                                    /\ up'[d] = up[d] /\ failed'[d] = failed[d]
                                    /\ pc'[d] = pc[d]
            /\ script'[w] = "set" /\ todo'[w] = CleanupOf(w) /\ up'[w] = FALSE
            /\ failed'[w] = {} /\ pc'[w] = "cleanup"
            /\ owner' = owner /\ record' = record /\ uci' = uci
        BY <3>3 DEF CommandEnds, Start, RunInv, TypeOK
      <4>2. w \in ArmRun => CleanupOf(w) = {Target[w]}
        BY DEF CleanupOf
      <4>3. ASSUME NEW d \in Run
            PROVE  /\ pc'[d] \in {"arm", "command", "cleanup"} \/ script'[d] # "idle"
                        => record' = d
                   /\ pc'[d] \in {"off", "command", "ended"} => script'[d] = "idle"
                   /\ pc'[d] \notin {"login", "sweep"}
                   /\ script'[d] = "idle" => todo'[d] = {}
                   /\ pc'[d] = "cleanup" => ~up'[d]
                   /\ script'[d] # "reload"
        BY <4>1 DEF RunInv
      <4>4. ASSUME NEW d \in ArmRun
            PROVE  /\ todo'[d] \subseteq {Target[d]} /\ failed'[d] \subseteq {Target[d]}
                   /\ pc'[d] = "arm" => up'[d]
        BY <4>1, <4>2 DEF RunInv
      <4>5. \A d \in SweepRun : pc'[d] = "arm" => script'[d] = "idle"
        BY <4>1 DEF RunInv
      <4> QED BY <4>1, <4>3, <4>4, <4>5 DEF RunInv
    <3>4. CASE RunCloses(w) \/ LeaseDies(w)
      BY <3>4 DEF RunCloses, LeaseDies, Bench!Close, Bench!Die, RunInv, TypeOK, Bench!TypeOK, At
    <3> QED BY <2>3, <3>1, <3>2, <3>3, <3>4 DEF Running
  <2> QED BY <2>1, <2>2, <2>3 DEF Next
<1> QED BY <1>1, <1>2, QuiesceTypeCorrect, PTL DEF Spec
-----------------------------------------------------------------------------
\* No quiesce of an earlier run reaches into the window of a run that armed its
\* router: its command finds the APs configured on.
THEOREM CommandsFindApsArmed == ASSUME NoHalfWay PROVE Spec => []ArmedForCommand
<1> USE RoutersAreOrdered, TargetIsRouter, ClientsDiffer, NoHalfWay
    DEF Client, Run, NoHalfWay
<1>1. Init => ArmedInv
  BY DEF Init, ArmedInv
<1>2. TypeOK /\ RunInv /\ ArmedInv /\ [Next]_vars => ArmedInv'
  <2> SUFFICES ASSUME TypeOK, RunInv, ArmedInv, [Next]_vars, NEW a \in ArmRun,
                      pc'[a] \in {"arm", "command"}, script'[a] = "idle",
                      Target[a] \notin failed'[a]
               PROVE  uci'[Target[a]]
    BY DEF ArmedInv
  <2> USE DEF bench, router, session, To, Idle
  <2>1. CASE UNCHANGED vars
    BY <2>1 DEF vars, ArmedInv
  <2>2. ASSUME NEW c \in Client, Scripting(c) PROVE uci'[Target[a]]
    <3>1. todo[c] # {} /\ At(c) \in todo[c] /\ record = c /\ script[c] # "idle"
      BY <2>2, AtRouter DEF RunInv, Scripting, ScriptSets, ScriptReloads, ScriptFails,
                            ScriptTimesOut, TypeOK
    <3>2. pc'[a] = pc[a]
      BY <2>2 DEF Scripting, ScriptSets, ScriptReloads, ScriptFails, ScriptTimesOut
    <3>3. c = a
      BY <3>1, <3>2 DEF RunInv
    <3>4. At(a) = Target[a] /\ pc[a] = "arm" /\ up[a]
      BY <3>1, <3>2, <3>3 DEF RunInv
    <3>5. CASE ScriptSets(a)
      BY <3>1, <3>4, <3>5 DEF ScriptSets, NextRouter, TypeOK
    <3>6. CASE ScriptReloads(a)
      BY <3>4, <3>6 DEF ScriptReloads, RunInv, TypeOK
    <3>7. CASE ScriptFails(a) \/ ScriptTimesOut(a)
      BY <3>4, <3>7 DEF ScriptFails, ScriptTimesOut, NextRouter, TypeOK
    <3> QED BY <2>2, <3>3, <3>5, <3>6, <3>7 DEF Scripting
  <2>3. ASSUME NEW w \in Run, Running(w) PROVE uci'[Target[a]]
    <3>1. CASE RunOpens(w)
      BY <3>1 DEF RunOpens, Start, Bench!Open, ArmedInv, RunInv, TypeOK
    <3>2. CASE CommandStarts(w) \/ LoginFails(w) \/ WrapperEnds(w) \/ WrapperDies(w)
      BY <3>2 DEF CommandStarts, LoginFails, WrapperEnds, WrapperDies, ArmedInv, TypeOK
    <3>3. CASE CommandEnds(w)
      BY <3>3 DEF CommandEnds, Start, ArmedInv, TypeOK
    <3>4. CASE RunCloses(w) \/ LeaseDies(w)
      BY <3>4 DEF RunCloses, LeaseDies, ArmedInv
    <3> QED BY <2>3, <3>1, <3>2, <3>3, <3>4 DEF Running
  <2> QED BY <2>1, <2>2, <2>3 DEF Next
<1>3. TypeOK /\ RunInv /\ ArmedInv => ArmedForCommand
  BY DEF RunInv, ArmedInv, ArmedForCommand
<1> QED BY <1>1, <1>2, <1>3, QuiesceTypeCorrect, RunInvariant, PTL DEF Spec
-----------------------------------------------------------------------------
\* A bench that is free is a quiet one: an AP is on the air only where a cleanup
\* reported its failure.
THEOREM FreeBenchIsQuiet == ASSUME NoHalfWay PROVE Spec => []FreeMeansQuiet
<1> USE RoutersAreOrdered, TargetIsRouter, ClientsDiffer, NoHalfWay
    DEF Client, Run, NoHalfWay
<1>1. Init => QuietInv
  BY DEF Init, QuietInv
<1>2. TypeOK /\ RunInv /\ QuietInv /\ [Next]_vars => QuietInv'
  <2> SUFFICES ASSUME TypeOK, RunInv, QuietInv, [Next]_vars PROVE QuietInv'
    OBVIOUS
  <2> USE DEF bench, router, session, To, Idle, Covered
  <2>1. CASE UNCHANGED vars
    BY <2>1 DEF vars, QuietInv, At
  <2>2. ASSUME NEW c \in Client, Scripting(c) PROVE QuietInv'
    <3>1. /\ todo[c] # {} /\ At(c) \in todo[c] /\ At(c) \in Routers /\ c \in Run
          /\ record = c /\ \A d \in Run \ {c} : script[d] = "idle"
      BY <2>2, AtRouter DEF RunInv, Scripting, ScriptSets, ScriptReloads, ScriptFails,
                            ScriptTimesOut, TypeOK
    <3>2. pc' = pc /\ ~ScriptTimesOut(c)
      BY <2>2 DEF Scripting, ScriptSets, ScriptReloads, ScriptFails, ScriptTimesOut
    <3>3. CASE ScriptSets(c) /\ uci[At(c)] # up[c]
      <4>1. todo' = todo /\ failed' = failed /\ live' = live /\ script'[c] = "reload"
        BY <3>3 DEF ScriptSets, NextRouter, TypeOK
      <4>2. \A r \in Routers \ {At(c)} : uci'[r] = uci[r]
        BY <3>3 DEF ScriptSets, TypeOK
      <4>3. \A r \in Routers : live'[r] => Covered(r)'
        BY <3>2, <4>1 DEF QuietInv
      <4>4. ASSUME NEW r \in Routers, live'[r] # uci'[r]
            PROVE  script'[c] = "reload" /\ At(c)' = r
        BY <3>1, <3>3, <4>1, <4>2, <4>4 DEF ScriptSets, QuietInv, At
      <4> QED BY <3>1, <4>3, <4>4 DEF QuietInv
    <3>4. ASSUME NEW F \in SUBSET {At(c)}, NextRouter(c, F),
                 At(c) \in F \/ live'[At(c)] = up[c],
                 \A r \in Routers : live'[r] = uci'[r],
                 \A r \in Routers \ {At(c)} : live'[r] = live[r]
          PROVE  QuietInv'
      <4>1. /\ \A d \in Run : failed[d] \subseteq failed'[d]
            /\ F \subseteq failed'[c]
            /\ \A d \in Run : todo[d] \ {At(c)} \subseteq todo'[d]
        BY <3>1, <3>4 DEF NextRouter, TypeOK
      <4>2. ASSUME NEW r \in Routers, r # At(c), live'[r] PROVE Covered(r)'
        BY <3>2, <3>4, <4>1, <4>2 DEF QuietInv
      <4>3. ASSUME NEW r \in Routers, r = At(c), live'[r] PROVE Covered(r)'
        <5>1. CASE r \in F
          BY <4>1, <4>3, <5>1, <3>1
        <5>2. CASE up[c]
          <6>1. c \in ArmRun /\ pc[c] = "arm" /\ r = Target[c]
            BY <3>1, <4>3, <5>2 DEF RunInv, TypeOK
          <6> QED BY <3>2, <6>1
        <5> QED BY <3>4, <4>3, <5>1, <5>2 DEF TypeOK
      <4> QED BY <3>4, <4>2, <4>3 DEF QuietInv
    <3>5. CASE ScriptSets(c) /\ uci[At(c)] = up[c]
      <4>1. NextRouter(c, {}) /\ live' = live /\ uci' = uci /\ script[c] = "set"
        BY <3>5 DEF ScriptSets
      <4>2. \A r \in Routers : live[r] = uci[r]
        BY <3>1, <4>1 DEF QuietInv
      <4> QED BY <3>1, <3>4, <3>5, <4>1, <4>2
    <3>6. CASE ScriptReloads(c)
      <4>1. \A r \in Routers \ {At(c)} : live[r] = uci[r]
        BY <3>1 DEF QuietInv
      <4>2. live'[At(c)] = up[c] /\ live'[At(c)] = uci[At(c)]
        BY <3>1, <3>6 DEF ScriptReloads, RunInv, TypeOK
      <4>3. \A r \in Routers \ {At(c)} : live'[r] = live[r]
        BY <3>6 DEF ScriptReloads, TypeOK
      <4>4. NextRouter(c, {}) /\ uci' = uci
        BY <3>6 DEF ScriptReloads
      <4> QED BY <3>4, <4>1, <4>2, <4>3, <4>4
    <3>7. CASE ScriptFails(c)
      <4>1. NextRouter(c, {At(c)}) /\ live' = live /\ uci' = uci /\ script[c] = "set"
        BY <3>7 DEF ScriptFails
      <4>2. \A r \in Routers : live[r] = uci[r]
        BY <3>1, <4>1 DEF QuietInv
      <4> QED BY <3>4, <4>1, <4>2
    <3> QED BY <2>2, <3>2, <3>3, <3>5, <3>6, <3>7 DEF Scripting
  <2>3. ASSUME NEW w \in Run, Running(w) PROVE QuietInv'
    <3>1. CASE RunOpens(w)
      BY <3>1 DEF RunOpens, Start, Bench!Open, QuietInv, RunInv, TypeOK, At
    <3>2. CASE CommandStarts(w) \/ LoginFails(w) \/ WrapperEnds(w) \/ WrapperDies(w)
      BY <3>2 DEF CommandStarts, LoginFails, WrapperEnds, WrapperDies, QuietInv, RunInv,
                  TypeOK, At
    <3>3. CASE CommandEnds(w)
      BY <3>3 DEF CommandEnds, Start, CleanupOf, QuietInv, RunInv, TypeOK, At
    <3>4. CASE RunCloses(w) \/ LeaseDies(w)
      BY <3>4 DEF RunCloses, LeaseDies, QuietInv, At
    <3> QED BY <2>3, <3>1, <3>2, <3>3, <3>4 DEF Running
  <2> QED BY <2>1, <2>2, <2>3 DEF Next
<1>3. RunInv /\ QuietInv => FreeMeansQuiet
  BY DEF RunInv, QuietInv, Covered, FreeMeansQuiet
<1> QED BY <1>1, <1>2, <1>3, QuiesceTypeCorrect, RunInvariant, PTL DEF Spec
-----------------------------------------------------------------------------
\* Every leased run uses the bench as BenchOwner has it, which BenchLease implements;
\* the watchdog and the scripts of orphaned wrappers never touch it.
THEOREM RunsKeepToTheBench == Spec => Bench!Spec
<1> USE DEF Bench!Next, Bench!vars
<1>1. Init => Bench!Init
  BY DEF Init
<1>2. [Next]_vars => [Bench!Next]_(Bench!vars)
  <2> SUFFICES ASSUME Next, ~UNCHANGED bench PROVE Bench!Next
    BY DEF vars, bench
  <2>1. ASSUME NEW w \in Run, Running(w) PROVE Bench!Next
    <3>1. Bench!Open(w) \/ Bench!Close(w) \/ Bench!Die(w)
      BY <2>1 DEF Running, RunOpens, CommandStarts, LoginFails, CommandEnds, WrapperEnds,
         WrapperDies, RunCloses, LeaseDies
    <3> QED BY <3>1
  <2>2. ASSUME NEW c \in Client, Scripting(c) PROVE FALSE
    BY <2>2 DEF Scripting, ScriptSets, ScriptReloads, ScriptFails, ScriptTimesOut
  <2>3. ASSUME NEW c \in Watchdog, Watching(c) PROVE FALSE
    BY <2>3 DEF Watching, WatchdogLooks, WatchdogSweeps, WatchdogEnds
  <2> QED BY <2>1, <2>2, <2>3 DEF Next
<1> QED BY <1>1, <1>2, PTL DEF Spec, Bench!Spec
================================================================================
