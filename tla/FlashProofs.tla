--------------------------- MODULE FlashProofs ---------------------------
EXTENDS UbootRecovery, FlashLane, TLAPS

(***************************************************************************)
(* Theorems about the two ways a router is flashed.  First UbootRecovery,  *)
(* for every bound.  The three monitors and the router change what the     *)
(* main thread sees at any time; the argument for SuccessMeansSystem is    *)
(* that ssh is watched in one stage only, so an ssh event is never an old  *)
(* one.                                                                    *)
(***************************************************************************)

Early == {"look", "power_off", "link_up", "probe", "upload"}
Late == {"trigger", "flashing", "rebooting", "booting", "fallback"}

\* The inductive invariant behind SuccessMeansSystem.
SuccessInv ==
  /\ RecoveryTypeOK
  /\ watching => state = "booting"
  /\ state \in Early => ~booted
  /\ (state \in Late /\ router = "os") => booted
  /\ \A i \in DOMAIN events : events[i] = "ssh_up" => booted
  /\ SuccessMeansSystem

\* A shorter queue of events holds nothing new.
LEMMA TailIsOlder ==
  ASSUME NEW s \in Seq(Events), s # <<>>
  PROVE  /\ Tail(s) \in Seq(Events) /\ Head(s) \in Events
         /\ Head(s) = s[1] /\ 1 \in DOMAIN s
         /\ \A i \in DOMAIN Tail(s) : i + 1 \in DOMAIN s /\ Tail(s)[i] = s[i + 1]
  OBVIOUS

\* A longer one holds one new event.
LEMMA AppendIsNewer ==
  ASSUME NEW s \in Seq(Events), NEW e \in Events
  PROVE  /\ Append(s, e) \in Seq(Events)
         /\ \A i \in DOMAIN Append(s, e) :
              \/ i \in DOMAIN s /\ Append(s, e)[i] = s[i]
              \/ Append(s, e)[i] = e
  OBVIOUS

\* What a monitor appends keeps the invariant, unless it is an ssh event of a
\* router that has not booted.
LEMMA AppendKeeps ==
  ASSUME SuccessInv, NEW e \in Events, events' = Append(events, e),
         e = "ssh_up" => booted, booted' = booted
  PROVE  /\ events' \in Seq(Events)
         /\ \A i \in DOMAIN events' : events'[i] = "ssh_up" => booted'
  BY AppendIsNewer DEF SuccessInv, RecoveryTypeOK

\* A recovery starts with nothing watched, nothing reported and no system up.
LEMMA SuccessStart ==
  ASSUME RecoveryInit
  PROVE  SuccessInv
<1>1. RecoveryTypeOK
  <2>1. link \in BOOLEAN
    <3>1. link = (router = "os")
      BY DEF RecoveryInit
    <3> QED BY <3>1
  <2>2. drops \in 0 .. MaxDrops
    BY BoundsAreNumbers DEF RecoveryInit
  <2>3. capture \subseteq Packets
    BY DEF RecoveryInit
  <2>4. events \in Seq(Events)
    BY DEF RecoveryInit
  <2> QED BY <2>1, <2>2, <2>3, <2>4 DEF RecoveryInit, RecoveryTypeOK
<1>2. /\ ~watching /\ state = "look" /\ ~booted
      /\ events = <<>>
  BY DEF RecoveryInit
<1>3. \A i \in DOMAIN events : events[i] = "ssh_up" => booted
  BY <1>2
<1> QED
  BY <1>1, <1>2, <1>3 DEF SuccessInv, SuccessMeansSystem, Early, Late

\* No step reports a system that is not up: neither ssh_up nor "complete" comes first.
LEMMA SuccessStep ==
  ASSUME SuccessInv, [RecoveryNext]_recoveryVars
  PROVE  SuccessInv'
<1> USE DEF SuccessInv, RecoveryTypeOK, SuccessMeansSystem, Early, Late, Waits, Ended,
            device, monitors
<1>1. CASE Look
  BY <1>1 DEF Look
<1>2. CASE TakeEvent
  <2>1. /\ events' \in Seq(Events) /\ Head(events) = events[1] /\ 1 \in DOMAIN events
        /\ \A i \in DOMAIN events' : events'[i] = "ssh_up" => booted
    BY <1>2, TailIsOlder DEF TakeEvent
  <2>2. (state = "booting" /\ state' = "complete") => booted
    BY <1>2, <2>1 DEF TakeEvent, OnEvent
  <2>3. state' \in Waits \cup {"probe", "complete", "fallback"}
    BY <1>2 DEF TakeEvent, OnEvent
  <2>4. state' = "complete" => state = "booting"
    BY <1>2 DEF TakeEvent, OnEvent
  <2>5. /\ state' \in Early => state \in Early
        /\ state' \in Late => state \in Late
    BY <1>2 DEF TakeEvent, OnEvent
  <2>6. watching' => state' = "booting"
    BY <1>2 DEF TakeEvent
  <2>7. watching' \in BOOLEAN
    BY <1>2 DEF TakeEvent
  <2>8. UNCHANGED <<router, image, loaded, link, drops, capture, polled, noUpload, booted>>
    BY <1>2 DEF TakeEvent
  <2>9. RecoveryTypeOK'
    <3>1. state' \in Waits \cup Ended \cup {"look", "probe", "upload", "trigger", "fallback"}
      BY <2>3
    <3>2. flashed' \in {"no", "yes", "early"}
      BY <1>2 DEF TakeEvent
    <3> QED BY <2>1, <2>7, <2>8, <3>1, <3>2
  <2>10. (state' \in Late /\ router' = "os") => booted'
    BY <2>5, <2>8
  <2>11. /\ state' \in Early => ~booted'
         /\ SuccessMeansSystem'
    BY <2>2, <2>4, <2>5, <2>8
  <2>12. \A i \in DOMAIN events' : events'[i] = "ssh_up" => booted'
    BY <2>1, <2>8
  <2> QED
    BY <2>6, <2>9, <2>10, <2>11, <2>12
<1>3. CASE WaitTimesOut
  <2>1. /\ state \in Waits /\ watching' = FALSE /\ state' \in {"fallback", "failed"}
        /\ state' = "fallback" => state = "booting"
        /\ UNCHANGED <<router, image, loaded, link, drops, capture, polled, events,
                       noUpload, booted, flashed>>
    BY <1>3 DEF WaitTimesOut
  <2>2. RecoveryTypeOK'
    BY <2>1, ZenonT(60)
  <2>3. (state' \in Late /\ router' = "os") => booted'
    BY <2>1
  <2>4. /\ watching' => state' = "booting"
        /\ state' \in Early => ~booted'
        /\ SuccessMeansSystem'
    BY <2>1
  <2>5. \A k \in DOMAIN events' : events'[k] = "ssh_up" => booted'
    BY <2>1
  <2> QED BY <2>2, <2>3, <2>4, <2>5
<1>4. CASE Probe
  <2>1. state = "probe" /\ state' \in {"probe", "upload"}
    BY <1>4 DEF Probe
  <2>2. /\ events' \in Seq(Events)
        /\ \A i \in DOMAIN events' : events'[i] = "ssh_up" => booted
    <3>1. CASE PageFound
      BY <1>4, <3>1 DEF Probe
    <3>2. CASE ~PageFound
      <4>1. events' = <<>>
        BY <1>4, <3>2 DEF Probe
      <4> QED BY <4>1
    <3> QED BY <3>1, <3>2
  <2>3. UNCHANGED <<router, image, loaded, link, drops, capture, polled, watching,
                    noUpload, booted, flashed>>
    BY <1>4 DEF Probe
  <2> QED BY <2>1, <2>2, <2>3
<1>5. CASE ProbeTimesOut
  BY <1>5 DEF ProbeTimesOut
<1>6. CASE Upload
  BY <1>6, ZenonT(60) DEF Upload
<1>7. CASE TriggerFlash
  BY <1>7 DEF TriggerFlash
<1>8. CASE Fallback
  BY <1>8 DEF Fallback, SshAnswers
<1>9. CASE LinkPoll
  <2>1. /\ events' \in Seq(Events)
        /\ \A i \in DOMAIN events' : events'[i] = "ssh_up" => booted'
    <3>1. CASE polled = "none"
      BY <1>9, <3>1 DEF LinkPoll
    <3>2. CASE polled # "none"
      BY <1>9, <3>2, AppendKeeps DEF LinkPoll, Events
    <3> QED BY <3>1, <3>2
  <2> QED BY <1>9, <2>1 DEF LinkPoll, LinkState
<1>10. CASE PcapRead
  <2>1. /\ events' \in Seq(Events)
        /\ \A i \in DOMAIN events' : events'[i] = "ssh_up" => booted'
    BY <1>10, AppendKeeps DEF PcapRead, Events, Packets
  <2> QED BY <1>10, <2>1 DEF PcapRead
<1>11. CASE PcapRestarts
  BY <1>11 DEF PcapRestarts
<1>12. CASE SshPoll
  <2>1. /\ events' \in Seq(Events)
        /\ \A i \in DOMAIN events' : events'[i] = "ssh_up" => booted'
    BY <1>12, AppendKeeps DEF SshPoll, SshAnswers, Events
  <2> QED BY <1>12, <2>1, ZenonT(60) DEF SshPoll
<1>13. CASE Router
  <2>1. UNCHANGED <<polled, events, watching, noUpload, state>>
    BY <1>13 DEF Router
  <2>2. /\ router' \in {"os", "off", "uboot", "flashing", "booting"}
        /\ image' \in {"old", "new"} /\ loaded' \in BOOLEAN /\ link' \in BOOLEAN
        /\ drops' \in 0 .. MaxDrops /\ capture' \subseteq Packets
    <3>1. CASE LinkDrops
      <4>1. drops < MaxDrops /\ drops' = drops + 1
        BY <3>1 DEF LinkDrops
      <4>2. drops' \in 0 .. MaxDrops
        BY <4>1, BoundsAreNumbers
      <4> QED BY <3>1, <4>2 DEF LinkDrops
    <3>2. CASE Unplug \/ PlugIn \/ LinkReturns
      BY <3>2 DEF Unplug, PlugIn, LinkReturns
    <3>3. CASE FlashEnds \/ UbootGivesUp \/ Boots
      BY <3>3 DEF FlashEnds, UbootGivesUp, Boots, Packets
    <3> QED BY <1>13, <3>1, <3>2, <3>3 DEF Router
  <2>3. /\ booted' \in BOOLEAN
        /\ booted => booted'
        /\ state \in Early => booted' = booted
        /\ (state \in Late /\ router' = "os") => booted'
    BY <1>13 DEF Router
  <2>4. flashed' = flashed
    BY <1>13 DEF Router
  <2> QED BY <2>1, <2>2, <2>3, <2>4
<1>14. CASE UNCHANGED recoveryVars
  BY <1>14 DEF recoveryVars
<1> QED
  BY <1>1, <1>2, <1>3, <1>4, <1>5, <1>6, <1>7, <1>8, <1>9, <1>10, <1>11, <1>12,
     <1>13, <1>14 DEF RecoveryNext, Monitors, Done

\* Every variable keeps its type, the event queue included.
THEOREM RecoveryTypeCorrect == RecoverySpec => []RecoveryTypeOK
<1>1. RecoveryInit => SuccessInv
  BY SuccessStart
<1>2. SuccessInv /\ [RecoveryNext]_recoveryVars => SuccessInv'
  BY SuccessStep
<1>3. SuccessInv => RecoveryTypeOK
  BY DEF SuccessInv
<1> QED
  BY <1>1, <1>2, <1>3, PTL DEF RecoverySpec

\* No stale, repeated or reordered event makes a success of a recovery in
\* which no system ran after the upload.
THEOREM SuccessIsASystem == RecoverySpec => []SuccessMeansSystem
<1>1. RecoveryInit => SuccessInv
  BY SuccessStart
<1>2. SuccessInv /\ [RecoveryNext]_recoveryVars => SuccessInv'
  BY SuccessStep
<1>3. SuccessInv => SuccessMeansSystem
  BY DEF SuccessInv
<1> QED
  BY <1>1, <1>2, <1>3, PTL DEF RecoverySpec

\* A recovery that waits for ssh is given up by the last look alone, and that
\* found the router silent.
THEOREM GivenUpIsSilent == RecoverySpec => GivenUpOnlyWhenSilent
<1>1. RecoveryInit => SuccessInv
  BY SuccessStart
<1>2. SuccessInv /\ [RecoveryNext]_recoveryVars => SuccessInv'
  BY SuccessStep
<1>3. SuccessInv /\ [RecoveryNext]_recoveryVars =>
        [(state \in {"booting", "fallback"} /\ state' = "failed") => ~SshAnswers]_recoveryVars
  <2> SUFFICES ASSUME [RecoveryNext]_recoveryVars, state \in {"booting", "fallback"}, state' = "failed"
               PROVE  ~SshAnswers
    OBVIOUS
  <2>1. ~TakeEvent /\ ~WaitTimesOut
    BY DEF TakeEvent, WaitTimesOut, OnEvent, Waits
  <2>2. ~Look /\ ~Probe /\ ~ProbeTimesOut /\ ~Upload /\ ~TriggerFlash
    BY DEF Look, Probe, ProbeTimesOut, Upload, TriggerFlash
  <2>3. ~Monitors /\ ~Router /\ ~Done /\ ~UNCHANGED recoveryVars
    BY DEF Monitors, LinkPoll, PcapRead, PcapRestarts, SshPoll, Router, Done, Ended, recoveryVars
  <2>4. Fallback
    BY <2>1, <2>2, <2>3 DEF RecoveryNext
  <2> QED BY <2>4 DEF Fallback
<1> QED
  BY <1>1, <1>2, <1>3, PTL DEF RecoverySpec, GivenUpOnlyWhenSilent

(***************************************************************************)
(* Then FlashLane, for any set of runs and arguments.  The argument for    *)
(* the ecash is that the gate fails closed (GateFailsClosed): past it, a   *)
(* run's own look accounts for what the router holds, and only what comes  *)
(* late escapes it.                                                        *)
(***************************************************************************)

Gated == {"reach", "stage", "copy", "sha", "flash"}
Seeing == {"wait", "board", "package", "state"}

\* The steps of each command.
StepsOf(cmd) ==
  CASE cmd = "upload"     -> {"page", "upload", "proceed", "apply"}
    [] cmd = "sysupgrade" -> {"lock", "balance", "listing"} \cup Gated \cup Seeing
    [] cmd = "install"    -> {"space", "install", "lock", "balance", "listing", "session"}
    [] cmd = "paths"      -> {"lock", "balance", "listing", "session"}
    [] cmd = "suite"      -> {"lock", "fixture", "balance", "listing", "scenarios"}
                               \cup (Gated \ {"reach"}) \cup Seeing

\* What a flash would destroy now was not there when its run looked, or is
\* accounted for.
NothingUnseen(allow, s) ==
  \/ money = "none" \/ allow \/ s.late \/ s.red \/ s.total = "skipped"
  \/ s.total = "zero" /\ s.files = "unanswered"

RunInv(r) ==
  /\ pc[r] \in Over \cup {"idle"} \/ (args[r] # None /\ pc[r] \in StepsOf(args[r].cmd))
  /\ lane = "mt3000" => pc[r] \in Over \cup {"idle", "lock"} \/ owner = r
  /\ lane = "mt3000" /\ pc[r] = "flash" => staged # "partial"
  /\ pc[r] \in {"package", "state"} => firmware \notin {"vendor", "older"}
  /\ pc[r] \in Gated => NothingUnseen(args[r].allow, saw[r])

BoxInv ==
  /\ firmware = "vendor" => tollgate = "none" /\ money = "none"
  /\ burn # None =>
       /\ NothingUnseen(burn.allow, burn.saw)
       /\ burn.image = "partial" => lane # "mt3000"
       /\ burn.image = "signed" => firmware = "vendor"
  /\ WritesWhatWasVerified

FlashInv == TypeOK /\ BoxInv /\ \A r \in Run : RunInv(r)

RunTyped == pc \in [Run -> Places] /\ args \in [Run -> Arguments \cup {None}] /\ saw \in [Run -> Seen]
            /\ Bench!TypeOK

\* A step of run r moves no other, takes the bench only when it is free, and
\* gives back its own only; of another run it notes at most a later TollGate.
Local(r) ==
  /\ RunTyped'
  /\ \A q \in Run \ {r} :
       /\ pc'[q] = pc[q] /\ args'[q] = args[q]
       /\ saw'[q].total = saw[q].total /\ saw'[q].files = saw[q].files
       /\ saw'[q].red = saw[q].red /\ saw'[q].late = saw[q].late
  /\ owner' = owner \/ (owner = None /\ owner' = r) \/ (owner = r /\ owner' = None)

\* A run that goes on touches its own step only.
LEMMA GoIsLocal ==
  ASSUME TypeOK, NEW r \in Run, NEW step \in Places, Go(r, step)
  PROVE  Local(r) /\ pc'[r] = step /\ UNCHANGED <<owner, record, args, saw>>
BY DEF TypeOK, Go, Local, RunTyped, bench, locals, Bench!TypeOK

\* A run that ends gives back the bench if it holds it, and forgets its arguments.
LEMMA EndIsLocal ==
  ASSUME TypeOK, NEW r \in Run, NEW outcome \in Over, End(r, outcome)
  PROVE  Local(r) /\ pc'[r] = outcome /\ args'[r] = None
<1>1. Unread \in Seen
  BY DEF Unread, Seen
<1>2. /\ pc' = [pc EXCEPT ![r] = outcome] /\ args' = [args EXCEPT ![r] = None]
      /\ saw' = [saw EXCEPT ![r] = Unread]
  BY DEF End, Forget
<1>3. /\ owner' = owner \/ (owner = r /\ owner' = None)
      /\ Bench!TypeOK'
  BY DEF End, Bench!Close, Bench!TypeOK, TypeOK, bench
<1> QED
  BY <1>1, <1>2, <1>3 DEF TypeOK, Local, RunTyped, Places

Tested == {"balance", "listing"}
Staging == {"stage", "copy", "sha", "flash", "wait"}
Fresh == {"board", "package", "state"}

\* A test of the suite that stops is followed by a later one.
LEMMA NextTestIsLater ==
  ASSUME NEW r \in Run, pc[r] \in Tested \cup Staging \cup Fresh
  PROVE  /\ pc[r] \in Tested => NextTest(r) \in {"stage", "board"}
         /\ pc[r] \in Staging => NextTest(r) = "board"
         /\ pc[r] \in Fresh => NextTest(r) = "scenarios"
BY DEF NextTest, FlashTest, Tested, Staging, Fresh

\* A step that stops ends its command, or, in the suite, colours its test red and
\* goes to the next.
LEMMA StopsIsLocal ==
  ASSUME TypeOK, NEW r \in Run, NEW outcome \in Over, Stops(r, outcome),
         pc[r] \in Tested \cup Staging \cup Fresh
  PROVE  /\ Local(r)
         /\ \/ pc'[r] = outcome /\ args'[r] = None /\ args[r].cmd # "suite"
            \/ /\ pc'[r] = NextTest(r) /\ args' = args /\ args[r].cmd = "suite"
               /\ saw'[r].red /\ owner' = owner
<1>1. CASE args[r].cmd # "suite"
  BY <1>1, EndIsLocal DEF Stops
<1>2. CASE args[r].cmd = "suite"
  <2>1. /\ pc' = [pc EXCEPT ![r] = NextTest(r)] /\ saw' = [saw EXCEPT ![r].red = TRUE]
        /\ UNCHANGED <<owner, record, args>>
    BY <1>2 DEF Stops, bench
  <2>2. NextTest(r) \in Places
    BY NextTestIsLater DEF Places
  <2>3. saw' \in [Run -> Seen] /\ saw'[r].red /\ \A q \in Run \ {r} : saw'[q] = saw[q]
    BY <2>1 DEF TypeOK, Seen
  <2> QED
    BY <1>2, <2>1, <2>2, <2>3 DEF TypeOK, Local, RunTyped, Bench!TypeOK
<1> QED BY <1>1, <1>2

\* The other runs keep what they knew while the box stays as it is.  A half-copied
\* image appears under the lock of the bench, or on the other lane.
LEMMA OthersKept ==
  ASSUME FlashInv, NEW r \in Run, Local(r), UNCHANGED <<lane, firmware, money>>,
         staged' = "partial" => staged = "partial" \/ lane # "mt3000" \/ owner = r
  PROVE  \A q \in Run \ {r} : RunInv(q)'
<1> SUFFICES ASSUME NEW q \in Run \ {r} PROVE RunInv(q)'
  OBVIOUS
<1>1. /\ pc'[q] = pc[q] /\ args'[q] = args[q]
      /\ NothingUnseen(args[q].allow, saw[q]) => NothingUnseen(args[q].allow, saw[q])'
  BY DEF Local, NothingUnseen
<1>2. RunInv(q)
  BY DEF FlashInv
<1>3. lane = "mt3000" => pc[q] \in Over \cup {"idle", "lock"} \/ owner' = q
  BY <1>2, NoneIsNothing DEF RunInv, Local
<1>4. lane = "mt3000" /\ pc[q] = "flash" => staged' # "partial"
  BY <1>2 DEF RunInv, Over
<1> QED BY <1>1, <1>2, <1>3, <1>4 DEF RunInv

\* So a step that leaves the box alone is a matter of its own run.
LEMMA BoxKept ==
  ASSUME FlashInv, NEW r \in Run, Local(r), UNCHANGED <<lane, box>>, blind' \subseteq Run,
         RunInv(r)'
  PROVE  FlashInv'
<1>1. \A q \in Run \ {r} : RunInv(q)'
  BY OthersKept DEF box
<1>2. BoxInv'
  BY DEF FlashInv, BoxInv, box, NothingUnseen, WritesWhatWasVerified
<1>3. TypeOK'
  BY DEF FlashInv, TypeOK, Local, RunTyped, box
<1> QED BY <1>1, <1>2, <1>3 DEF FlashInv

\* A run that is over has nothing left to keep.
LEMMA OverIsKept ==
  ASSUME NEW r \in Run, pc'[r] \in Over
  PROVE  RunInv(r)'
BY DEF RunInv, Over, Gated

\* Ending keeps the invariant.
LEMMA EndKeeps ==
  ASSUME FlashInv, NEW r \in Run, NEW outcome \in Over, End(r, outcome),
         UNCHANGED <<lane, box>>, blind' \subseteq Run
  PROVE  FlashInv'
BY EndIsLocal, OverIsKept, BoxKept DEF FlashInv

\* A run at one of its steps is one of its command.
LEMMA AtStep ==
  ASSUME FlashInv, NEW r \in Run, pc[r] \notin Over \cup {"idle"}
  PROVE  args[r] \in Arguments /\ args[r] \in Parsed /\ pc[r] \in StepsOf(args[r].cmd)
BY ArgumentsAreParsed DEF FlashInv, TypeOK, RunInv

\* What a suite does after a red test: it never goes past the gate with it.
LEMMA StopsKeepsRun ==
  ASSUME FlashInv, NEW r \in Run, NEW outcome \in Over, Stops(r, outcome),
         pc[r] \in Tested \cup Staging \cup Fresh, UNCHANGED <<lane, firmware, money>>
  PROVE  RunInv(r)'
<1>1. pc[r] \notin Over \cup {"idle", "lock"}
  BY DEF Over, Tested, Staging, Fresh
<1>2. CASE pc'[r] = outcome
  BY <1>2, OverIsKept
<1>3. CASE /\ pc'[r] = NextTest(r) /\ args' = args /\ args[r].cmd = "suite"
           /\ saw'[r].red /\ owner' = owner
  <2>1. pc'[r] \in {"stage", "board", "scenarios"}
    BY <1>3, NextTestIsLater
  <2>2. pc'[r] \in StepsOf("suite")
    BY <2>1 DEF StepsOf, Gated, Seeing
  <2>3. args[r] # None /\ (lane = "mt3000" => owner = r)
    BY <1>1 DEF FlashInv, RunInv
  <2> QED BY <1>3, <2>1, <2>2, <2>3 DEF RunInv, NothingUnseen
<1> QED BY <1>2, <1>3, StopsIsLocal DEF FlashInv

\* Stopping keeps the invariant.
LEMMA StopsKeeps ==
  ASSUME FlashInv, NEW r \in Run, NEW outcome \in Over, Stops(r, outcome),
         pc[r] \in Tested \cup Staging \cup Fresh, UNCHANGED <<lane, box>>, blind' \subseteq Run
  PROVE  FlashInv'
BY StopsIsLocal, StopsKeepsRun, BoxKept DEF FlashInv, box

\* A run that goes on at a step of its command, with its gate behind it only
\* when it was before.
LEMMA GoKeepsRun ==
  ASSUME FlashInv, NEW r \in Run, NEW step \in Places, Go(r, step),
         pc[r] \notin Over \cup {"idle", "lock"} \/ step = "lock",
         pc[r] \notin Over \cup {"idle"}, step \in StepsOf(args[r].cmd),
         UNCHANGED <<lane, firmware, money>>,
         lane = "mt3000" /\ step = "flash" => staged' # "partial",
         step \in {"package", "state"} => firmware \notin {"vendor", "older"},
         step \in Gated => pc[r] \in Gated
  PROVE  RunInv(r)'
<1>1. Local(r) /\ pc'[r] = step /\ UNCHANGED <<owner, args, saw>>
  BY GoIsLocal DEF FlashInv
<1>2. args[r] # None
  BY DEF FlashInv, RunInv
<1> QED BY <1>1, <1>2 DEF FlashInv, RunInv, NothingUnseen, Places, Over

\* Going on keeps the invariant, on the same conditions.
LEMMA GoKeeps ==
  ASSUME FlashInv, NEW r \in Run, NEW step \in Places, Go(r, step),
         pc[r] \notin Over \cup {"idle", "lock"} \/ step = "lock",
         pc[r] \notin Over \cup {"idle"}, step \in StepsOf(args[r].cmd),
         UNCHANGED <<lane, box>>, blind' \subseteq Run,
         lane = "mt3000" /\ step = "flash" => staged # "partial",
         step \in {"package", "state"} => firmware \notin {"vendor", "older"},
         step \in Gated => pc[r] \in Gated
  PROVE  FlashInv'
BY GoIsLocal, GoKeepsRun, BoxKept DEF FlashInv, box

\* Each command begins at a step of its own, on the bench with the lock.
LEMMA FirstStepIsNext ==
  ASSUME lane \in {"cudy", "mt3000"}, NEW a \in Arguments, a.cmd \in Commands
  PROVE  /\ FirstStep(a) \in StepsOf(a.cmd) /\ (lane = "mt3000" => FirstStep(a) = "lock")
         /\ FirstStep(a) \in {"lock", "balance", "page", "space"}
<1>1. CASE lane = "mt3000"
  <2>1. FirstStep(a) = "lock"
    BY <1>1 DEF FirstStep
  <2>2. "lock" \in StepsOf(a.cmd)
    BY <1>1 DEF StepsOf, Commands
  <2> QED BY <2>1, <2>2
<1>2. CASE lane = "cudy" /\ a.cmd = "upload"
  BY <1>2 DEF FirstStep, StepsOf
<1>3. CASE lane = "cudy" /\ a.cmd = "sysupgrade"
  BY <1>3 DEF FirstStep, StepsOf
<1>4. CASE lane = "cudy" /\ a.cmd = "install"
  BY <1>4 DEF FirstStep, StepsOf
<1> QED BY <1>1, <1>2, <1>3, <1>4 DEF Commands

\* A command is given.
LEMMA StartKeeps ==
  ASSUME FlashInv, NEW r \in Run, Start(r)
  PROVE  FlashInv'
<1>1. PICK a \in Arguments :
        /\ pc[r] = "idle" /\ a.cmd \in Commands
        /\ \/ /\ pc' = [pc EXCEPT ![r] = FirstStep(a)] /\ args' = [args EXCEPT ![r] = a]
              /\ UNCHANGED <<bench, saw>>
           \/ End(r, "refused")
        /\ UNCHANGED <<lane, box, blind>>
  BY DEF Start
<1>2. CASE End(r, "refused")
  BY <1>1, <1>2, EndKeeps DEF Over, FlashInv, TypeOK
<1>3. CASE /\ pc' = [pc EXCEPT ![r] = FirstStep(a)] /\ args' = [args EXCEPT ![r] = a]
           /\ UNCHANGED <<bench, saw>>
  <2>1. lane \in {"cudy", "mt3000"} /\ a # None
    BY LanesAreKnown, NoneIsNothing DEF FlashInv, TypeOK
  <2>2. /\ FirstStep(a) \in StepsOf(a.cmd) /\ (lane = "mt3000" => FirstStep(a) = "lock")
        /\ FirstStep(a) \in {"lock", "balance", "page", "space"}
    BY <1>1, <2>1, FirstStepIsNext
  <2>3. Local(r) /\ pc'[r] = FirstStep(a) /\ args'[r] = a /\ lane' = lane
    BY <1>1, <1>3, <2>2 DEF FlashInv, TypeOK, Local, RunTyped, Places, bench, Bench!TypeOK
  <2>4. RunInv(r)'
    BY <2>1, <2>2, <2>3 DEF RunInv, Gated
  <2> QED BY <1>1, <2>3, <2>4, BoxKept DEF FlashInv, TypeOK
<1> QED BY <1>1, <1>2, <1>3

\* The bench is taken, or found taken.
LEMMA TakeBenchKeeps ==
  ASSUME FlashInv, NEW r \in Run, TakeBench(r)
  PROVE  FlashInv'
<1>1. pc[r] = "lock" /\ UNCHANGED <<lane, box, blind>> /\ args[r] # None
  BY DEF TakeBench, FlashInv, RunInv, Over
<1>2. CASE End(r, IF args[r].cmd = "suite" THEN "skipped" ELSE "refused")
  BY <1>1, <1>2, EndKeeps DEF Over, FlashInv, TypeOK
<1>3. CASE /\ Bench!Open(r) /\ UNCHANGED locals
           /\ pc' = [pc EXCEPT ![r] = IF args[r].cmd = "suite" THEN "fixture" ELSE "balance"]
  <2>1. Local(r) /\ owner' = r /\ UNCHANGED <<args, saw>>
    BY <1>3 DEF FlashInv, TypeOK, Local, RunTyped, Places, locals, Bench!Open, Bench!TypeOK
  <2>2. pc'[r] = IF args[r].cmd = "suite" THEN "fixture" ELSE "balance"
    BY <1>3 DEF FlashInv, TypeOK
  <2>3. pc'[r] \in StepsOf(args[r].cmd)
    BY <1>1, <2>2, AtStep DEF StepsOf, Over, Parsed, Gated, Seeing
  <2>4. RunInv(r)'
    BY <1>1, <2>1, <2>2, <2>3 DEF RunInv, Gated
  <2> QED BY <1>1, <2>1, <2>4, BoxKept DEF FlashInv, TypeOK
<1> QED BY <1>2, <1>3 DEF TakeBench

\* The balance is read.
LEMMA ReadBalanceKeeps ==
  ASSUME FlashInv, NEW r \in Run, ReadBalance(r)
  PROVE  FlashInv'
<1>1. /\ pc[r] = "balance" /\ pc' = [pc EXCEPT ![r] = "listing"]
      /\ UNCHANGED <<lane, bench, box, args, blind>>
      /\ \/ \E total \in {"zero", "some"} : saw' = [saw EXCEPT ![r].total = total]
         \/ UNCHANGED saw
  BY DEF ReadBalance
<1>2. saw' \in [Run -> Seen] /\ \A q \in Run \ {r} : saw'[q] = saw[q]
  BY <1>1 DEF FlashInv, TypeOK, Seen
<1>3. Local(r) /\ pc'[r] = "listing" /\ UNCHANGED <<owner, args, lane>>
  BY <1>1, <1>2 DEF FlashInv, TypeOK, Local, RunTyped, Places, bench, Bench!TypeOK
<1>4. pc'[r] \in StepsOf(args[r].cmd)
  BY <1>1, <1>3, AtStep DEF StepsOf, Over, Parsed, Gated, Seeing
<1>5. RunInv(r)'
  BY <1>1, <1>3, <1>4 DEF FlashInv, RunInv, Gated, Over
<1> QED BY <1>1, <1>3, <1>5, BoxKept DEF FlashInv, TypeOK

\* The gate fails closed.
LEMMA GateFailsClosed ==
  ASSUME NEW s \in Seen, NEW allow \in BOOLEAN, FlashGuard(s, allow),
         s.files = "none" => money = "none",
         s.files # "unread"
  PROVE  NothingUnseen(allow, s)
BY DEF FlashGuard, NothingUnseen, Seen

\* Where a run goes from the gate is a step of its command.
LEMMA AfterGateIsNext ==
  ASSUME FlashInv, NEW r \in Run, pc[r] = "listing"
  PROVE  /\ AfterGate(r) \in StepsOf(args[r].cmd)
         /\ AfterGate(r) \in {"stage", "board", "session", "reach"}
<1>1. args[r] \in Parsed /\ "listing" \in StepsOf(args[r].cmd)
  BY AtStep DEF Over
<1>2. args[r].cmd \in {"sysupgrade", "install", "paths", "suite"}
  BY <1>1 DEF StepsOf, Parsed
<1> QED BY <1>2 DEF AfterGate, StepsOf, FlashTest, Gated, Seeing

\* The listing of the wallet is read and the gate asked.
LEMMA ReadListingKeeps ==
  ASSUME FlashInv, NEW r \in Run, ReadListing(r)
  PROVE  FlashInv'
<1>1. PICK files \in {"none", "some", "unanswered"} :
        /\ pc[r] = "listing" /\ (files = "none" => money = "none")
        /\ UNCHANGED <<lane, box, blind>>
        /\ LET seen == [saw[r] EXCEPT !.files = files] IN
            \/ /\ FlashGuard(seen, args[r].allow)
               /\ pc' = [pc EXCEPT ![r] = AfterGate(r)]
               /\ saw' = [saw EXCEPT ![r] = seen]
               /\ UNCHANGED <<bench, args>>
            \/ Stops(r, "refused")
  BY DEF ReadListing
<1>2. CASE Stops(r, "refused")
  BY <1>1, <1>2, StopsKeeps DEF Over, FlashInv, TypeOK, Tested
<1> DEFINE seen == [saw[r] EXCEPT !.files = files]
<1>3. CASE /\ FlashGuard(seen, args[r].allow)
           /\ pc' = [pc EXCEPT ![r] = AfterGate(r)]
           /\ saw' = [saw EXCEPT ![r] = seen]
           /\ UNCHANGED <<bench, args>>
  <2>1. seen \in Seen /\ seen.files = files
    BY DEF FlashInv, TypeOK, Seen
  <2>2. /\ AfterGate(r) \in StepsOf(args[r].cmd)
        /\ AfterGate(r) \in {"stage", "board", "session", "reach"}
    BY <1>1, AfterGateIsNext
  <2>3. args[r].allow \in BOOLEAN /\ args[r] # None
    BY <1>1, AtStep, NoneIsNothing DEF Over, Parsed
  <2>4. NothingUnseen(args[r].allow, seen)
    BY <1>1, <1>3, <2>1, <2>3, GateFailsClosed
  <2> HIDE DEF seen
  <2>5. /\ Local(r) /\ saw'[r] = seen /\ pc'[r] = AfterGate(r)
        /\ UNCHANGED <<owner, args, lane, money>>
    BY <1>1, <1>3, <2>1, <2>2 DEF FlashInv, TypeOK, Local, RunTyped, Places, bench, Bench!TypeOK, box
  <2>6. RunInv(r)'
    BY <1>1, <2>2, <2>3, <2>4, <2>5 DEF FlashInv, RunInv, Over, NothingUnseen
  <2> QED BY <1>1, <2>5, <2>6, BoxKept DEF FlashInv, TypeOK
<1> QED BY <1>1, <1>2, <1>3

\* The box is asked for what its command needs.
LEMMA ReachKeeps ==
  ASSUME FlashInv, NEW r \in Run, Reach(r)
  PROVE  FlashInv'
<1>1. pc[r] = "reach" /\ UNCHANGED <<lane, box, blind>> /\ blind' \subseteq Run
  BY DEF Reach, FlashInv, TypeOK
<1>2. CASE End(r, "refused")
  BY <1>1, <1>2, EndKeeps DEF Over
<1>3. ASSUME NEW step \in {"sha", "stage"}, Go(r, step) PROVE FlashInv'
  <2>1. step \in StepsOf(args[r].cmd)
    BY <1>1, AtStep DEF StepsOf, Over, Parsed, Gated, Seeing
  <2> QED BY <1>1, <1>3, <2>1, GoKeeps DEF Places, Over, Gated
<1> QED BY <1>2, <1>3 DEF Reach

\* The box after a step that changes its files only.
LEMMA StagingKeeps ==
  ASSUME FlashInv, NEW r \in Run, Local(r), RunInv(r)', staged' \in {"none", "partial", "image"},
         UNCHANGED <<lane, firmware, power, tollgate, money, answers, form, burn, blind>>,
         staged' = "partial" => staged = "partial" \/ lane # "mt3000" \/ owner = r
  PROVE  FlashInv'
<1>1. \A q \in Run \ {r} : RunInv(q)'
  BY OthersKept
<1>2. BoxInv'
  BY DEF FlashInv, BoxInv, NothingUnseen, WritesWhatWasVerified
<1>3. TypeOK'
  BY DEF FlashInv, TypeOK, Local, RunTyped
<1> QED BY <1>1, <1>2, <1>3 DEF FlashInv

\* The copy of an image begins.
LEMMA StageBeginsKeeps ==
  ASSUME FlashInv, NEW r \in Run, StageBegins(r)
  PROVE  FlashInv'
<1>1. /\ pc[r] = "stage"
      /\ UNCHANGED <<lane, firmware, power, tollgate, money, answers, form, burn, blind>>
  BY DEF StageBegins
<1>2. lane = "mt3000" => owner = r
  BY <1>1 DEF FlashInv, RunInv, Over
<1>3. CASE staged' = "partial" /\ Go(r, "copy")
  <2>1. "copy" \in StepsOf(args[r].cmd)
    BY <1>1, AtStep DEF StepsOf, Over, Parsed, Gated, Seeing
  <2>2. RunInv(r)'
    BY <1>1, <1>3, <2>1, GoKeepsRun DEF Places, Over, Gated
  <2>3. Local(r)
    BY <1>3, GoIsLocal DEF FlashInv, Places
  <2> QED BY <1>1, <1>2, <1>3, <2>2, <2>3, StagingKeeps
<1>4. CASE Stops(r, "failed") /\ UNCHANGED staged
  BY <1>1, <1>4, StopsKeeps DEF Over, FlashInv, TypeOK, Staging, box
<1> QED BY <1>3, <1>4 DEF StageBegins

\* The copy ends, whole or cut short.
LEMMA StageEndsKeeps ==
  ASSUME FlashInv, NEW r \in Run, StageEnds(r)
  PROVE  FlashInv'
<1>1. /\ pc[r] = "copy"
      /\ UNCHANGED <<lane, firmware, power, tollgate, money, answers, form, burn, blind>>
  BY DEF StageEnds
<1>2. lane = "mt3000" => owner = r
  BY <1>1 DEF FlashInv, RunInv, Over
<1>3. CASE staged' \in {"image", "partial"} /\ Go(r, "sha")
  <2>1. "sha" \in StepsOf(args[r].cmd)
    BY <1>1, AtStep DEF StepsOf, Over, Parsed, Gated, Seeing
  <2>2. RunInv(r)'
    BY <1>1, <1>3, <2>1, GoKeepsRun DEF Places, Over, Gated
  <2>3. Local(r)
    BY <1>3, GoIsLocal DEF FlashInv, Places
  <2> QED BY <1>1, <1>2, <1>3, <2>2, <2>3, StagingKeeps
<1>4. CASE Stops(r, "failed") /\ UNCHANGED staged
  BY <1>1, <1>4, StopsKeeps DEF Over, FlashInv, TypeOK, Staging, box
<1> QED BY <1>3, <1>4 DEF StageEnds

\* The staged image is compared with its digest: on the bench a part is never taken.
LEMMA CheckStagedKeeps ==
  ASSUME FlashInv, NEW r \in Run, CheckStaged(r)
  PROVE  FlashInv'
<1>1. pc[r] = "sha" /\ UNCHANGED <<lane, box, blind>> /\ blind' \subseteq Run
  BY DEF CheckStaged, FlashInv, TypeOK
<1>2. CASE End(r, "rehearsed") \/ End(r, "refused")
  BY <1>1, <1>2, EndKeeps DEF Over
<1>3. CASE Stops(r, "refused")
  BY <1>1, <1>3, StopsKeeps DEF Over, Staging
<1>4. CASE staged = "image" /\ Go(r, "flash")
  <2>1. "flash" \in StepsOf(args[r].cmd)
    BY <1>1, AtStep DEF StepsOf, Over, Parsed, Gated, Seeing
  <2> QED BY <1>1, <1>4, <2>1, GoKeeps DEF Places, Over, Gated
<1> QED BY <1>2, <1>3, <1>4 DEF CheckStaged

\* A box that takes an image on the grounds its run had.
LEMMA BurningKeeps ==
  ASSUME FlashInv, NEW r \in Run, Local(r), RunInv(r)', args[r] # None,
         NEW file \in {"signed", "image", "partial"}, Accepts(r, file),
         power = "up", NothingUnseen(args[r].allow, saw[r]),
         file = "partial" => lane # "mt3000", file = "signed" => firmware = "vendor",
         UNCHANGED <<lane, firmware, tollgate, money, answers, staged, form, blind>>
  PROVE  FlashInv'
<1>1. \A q \in Run \ {r} : RunInv(q)'
  BY OthersKept
<1>2. /\ burn' = [by |-> r, image |-> file, allow |-> args[r].allow, saw |-> saw[r]]
      /\ power' = "dying"
  BY DEF Accepts
<1>3. args[r].allow \in BOOLEAN /\ saw[r] \in Seen
  BY ArgumentsAreParsed DEF FlashInv, TypeOK, Parsed
<1>4. burn' \in Burns /\ burn' # None
  BY <1>2, <1>3, NoneIsNothing DEF Burns
<1>5. BoxInv'
  BY <1>2, <1>4 DEF FlashInv, BoxInv, NothingUnseen, WritesWhatWasVerified
<1>6. TypeOK'
  BY <1>2, <1>4 DEF FlashInv, TypeOK, Local, RunTyped
<1> QED BY <1>1, <1>5, <1>6 DEF FlashInv

\* The image that was checked is flashed.
LEMMA FlashKeeps ==
  ASSUME FlashInv, NEW r \in Run, Flash(r)
  PROVE  FlashInv'
<1>1. /\ pc[r] = "flash"
      /\ UNCHANGED <<lane, firmware, tollgate, money, answers, staged, form, blind>>
  BY DEF Flash
<1>2. Local(r) /\ RunInv(r)'
  <2>1. CASE Stops(r, "failed")
    BY <1>1, <2>1, StopsIsLocal, StopsKeepsRun DEF Over, FlashInv, Staging
  <2>2. CASE Go(r, "wait")
    <3>1. "wait" \in StepsOf(args[r].cmd)
      BY <1>1, AtStep DEF StepsOf, Over, Parsed, Gated, Seeing
    <3> QED BY <1>1, <2>2, <3>1, GoIsLocal, GoKeepsRun DEF FlashInv, Places, Over, Gated
  <2> QED BY <2>1, <2>2 DEF Flash
<1>3. CASE UNCHANGED <<power, burn>>
  BY <1>1, <1>2, <1>3, BoxKept DEF FlashInv, TypeOK, box
<1>4. CASE power = "up" /\ staged # "none" /\ Accepts(r, staged)
  <2>1. /\ NothingUnseen(args[r].allow, saw[r]) /\ (staged = "partial" => lane # "mt3000")
        /\ args[r] # None /\ staged \in {"image", "partial"}
    BY <1>1, <1>4 DEF FlashInv, RunInv, Gated, Over, TypeOK
  <2> QED BY <1>1, <1>2, <1>4, <2>1, BurningKeeps
<1> QED BY <1>3, <1>4 DEF Flash

\* After the flash: ssh, board and package are looked at.
LEMMA LookingKeeps ==
  ASSUME FlashInv, NEW r \in Run, WaitForSsh(r) \/ ReadBoard(r) \/ ReadPackage(r)
  PROVE  FlashInv'
<1>1. /\ pc[r] \in {"wait", "board", "package"} /\ UNCHANGED <<lane, box, blind>>
      /\ blind' \subseteq Run
  BY DEF WaitForSsh, ReadBoard, ReadPackage, FlashInv, TypeOK
<1>2. CASE Stops(r, "failed")
  BY <1>1, <1>2, StopsKeeps DEF Over, Staging, Fresh
<1>3. CASE WaitForSsh(r) /\ Go(r, "board")
  <2>1. "board" \in StepsOf(args[r].cmd)
    BY <1>3, AtStep DEF WaitForSsh, StepsOf, Over, Parsed, Gated, Seeing
  <2> QED BY <1>1, <1>3, <2>1, GoKeeps DEF Places, Over, Gated
<1>4. CASE ReadBoard(r) /\ firmware = "mainline" /\ Go(r, "package")
  <2>1. "package" \in StepsOf(args[r].cmd)
    BY <1>4, AtStep DEF ReadBoard, StepsOf, Over, Parsed, Gated, Seeing
  <2> QED BY <1>1, <1>4, <2>1, GoKeeps DEF Places, Over, Gated
<1>5. CASE ReadPackage(r) /\ Go(r, "state")
  <2>1. "state" \in StepsOf(args[r].cmd)
    BY <1>5, AtStep DEF ReadPackage, StepsOf, Over, Parsed, Gated, Seeing
  <2>2. firmware \notin {"vendor", "older"}
    BY <1>5 DEF ReadPackage, FlashInv, RunInv
  <2> QED BY <1>1, <1>5, <2>1, <2>2, GoKeeps DEF Places, Over, Gated
<1> QED BY <1>2, <1>3, <1>4, <1>5 DEF WaitForSsh, ReadBoard, ReadPackage

\* The last look after a flash.
LEMMA ReadStateKeeps ==
  ASSUME FlashInv, NEW r \in Run, ReadState(r)
  PROVE  FlashInv'
<1>1. pc[r] = "state" /\ UNCHANGED <<lane, box>> /\ blind' \subseteq Run
  BY DEF ReadState, FlashInv, TypeOK
<1>2. CASE Stops(r, "failed")
  BY <1>1, <1>2, StopsKeeps DEF Over, Fresh
<1>3. CASE FoundFresh(r)
  <2>1. CASE args[r].cmd = "suite"
    <3>1. Go(r, "scenarios") /\ "scenarios" \in StepsOf(args[r].cmd)
      BY <1>3, <2>1 DEF FoundFresh, StepsOf
    <3> QED BY <1>1, <3>1, GoKeeps DEF Places, Over, Gated
  <2>2. CASE args[r].cmd # "suite"
    BY <1>1, <1>3, <2>2, EndKeeps DEF FoundFresh, Over
  <2> QED BY <2>1, <2>2
<1> QED BY <1>2, <1>3 DEF ReadState

\* A command on the box does not come back.
LEMMA HangsKeeps ==
  ASSUME FlashInv, NEW r \in Run, Hangs(r)
  PROVE  FlashInv'
BY StopsKeeps DEF Hangs, FlashInv, TypeOK, Over, Tested, Staging, Fresh

\* Every step of the flashing lane.
LEMMA FlashingKeeps ==
  ASSUME FlashInv, NEW r \in Run, Flashing(r)
  PROVE  FlashInv'
BY TakeBenchKeeps, ReadBalanceKeeps, ReadListingKeeps, ReachKeeps, StageBeginsKeeps,
   StageEndsKeeps, CheckStagedKeeps, FlashKeeps, LookingKeeps, ReadStateKeeps, HangsKeeps
   DEF Flashing

\* Every step of the upload through the vendor page.
LEMMA UploadingKeeps ==
  ASSUME FlashInv, NEW r \in Run, Uploading(r)
  PROVE  FlashInv'
<1>1. CASE FetchPage(r)
  <2>1. pc[r] = "page" /\ UNCHANGED <<lane, box, blind>> /\ blind' \subseteq Run
    BY <1>1 DEF FetchPage, FlashInv, TypeOK
  <2>2. CASE End(r, "rehearsed") \/ End(r, "refused")
    BY <2>1, <2>2, EndKeeps DEF Over
  <2>3. CASE Go(r, "upload")
    <3>1. "upload" \in StepsOf(args[r].cmd)
      BY <2>1, AtStep DEF StepsOf, Over, Parsed, Gated, Seeing
    <3> QED BY <2>1, <2>3, <3>1, GoKeeps DEF Places, Over, Gated
  <2> QED BY <1>1, <2>2, <2>3 DEF FetchPage
<1>2. CASE PostFile(r)
  <2>1. /\ pc[r] = "upload" /\ form' \in {"none", "held"}
        /\ UNCHANGED <<lane, firmware, power, tollgate, money, answers, staged, burn, blind>>
    BY <1>2 DEF PostFile, FlashInv, TypeOK
  <2>2. Local(r) /\ RunInv(r)'
    <3>1. CASE End(r, "failed")
      BY <3>1, EndIsLocal, OverIsKept DEF Over, FlashInv
    <3>2. CASE Go(r, "proceed")
      <4>1. "proceed" \in StepsOf(args[r].cmd)
        BY <2>1, AtStep DEF StepsOf, Over, Parsed, Gated, Seeing
      <4> QED BY <2>1, <3>2, <4>1, GoIsLocal, GoKeepsRun DEF FlashInv, Places, Over, Gated
    <3> QED BY <1>2, <3>1, <3>2 DEF PostFile
  <2>3. \A q \in Run \ {r} : RunInv(q)'
    BY <2>1, <2>2, OthersKept
  <2>4. BoxInv'
    BY <2>1 DEF FlashInv, BoxInv, NothingUnseen, WritesWhatWasVerified
  <2>5. TypeOK'
    BY <2>1, <2>2 DEF FlashInv, TypeOK, Local, RunTyped
  <2> QED BY <2>2, <2>3, <2>4, <2>5 DEF FlashInv
<1>3. CASE Proceed(r) \/ Apply(r)
  <2>1. /\ pc[r] \in {"proceed", "apply"}
        /\ UNCHANGED <<lane, firmware, tollgate, money, answers, staged, form>>
        /\ blind' \subseteq Run
    BY <1>3 DEF Proceed, Apply, FlashInv, TypeOK
  <2>2. Local(r) /\ RunInv(r)'
    <3>1. CASE End(r, "failed") \/ End(r, "ok")
      BY <3>1, EndIsLocal, OverIsKept DEF Over, FlashInv
    <3>2. CASE Proceed(r) /\ Go(r, "apply")
      <4>1. "apply" \in StepsOf(args[r].cmd)
        BY <2>1, AtStep DEF StepsOf, Over, Parsed, Gated, Seeing
      <4> QED BY <2>1, <3>2, <4>1, GoIsLocal, GoKeepsRun DEF FlashInv, Places, Over, Gated
    <3> QED BY <1>3, <3>1, <3>2 DEF Proceed, Apply
  <2>3. CASE UNCHANGED <<power, burn>>
    BY <2>1, <2>2, <2>3, BoxKept DEF box
  <2>4. CASE Vendor /\ VendorBurns(r) /\ UNCHANGED blind
    <3>1. money = "none" /\ power = "up" /\ firmware = "vendor" /\ args[r] # None
      BY <2>1, <2>4 DEF Vendor, FlashInv, BoxInv, RunInv, Over
    <3> QED BY <2>1, <2>2, <2>4, <3>1, BurningKeeps DEF VendorBurns, NothingUnseen
  <2>5. UNCHANGED <<power, burn>> \/ (Vendor /\ VendorBurns(r) /\ UNCHANGED blind)
    BY <1>3 DEF Proceed, Apply
  <2> QED BY <2>3, <2>4, <2>5
<1> QED BY <1>1, <1>2, <1>3 DEF Uploading

\* What a package arriving on the box changes.
LEMMA ArrivesIsLocal ==
  ASSUME FlashInv, NEW r \in Run, NEW kind \in {"installed", "volatile"}, Arrives(r, kind),
         NEW outcome \in Over, pc' = [pc EXCEPT ![r] = outcome],
         UNCHANGED bench \/ Bench!Close(r)
  PROVE  Local(r) /\ tollgate' \in {"installed", "volatile"}
<1>1. saw' \in [Run -> Seen]
      /\ \A q \in Run \ {r} :
         /\ saw'[q].total = saw[q].total /\ saw'[q].files = saw[q].files
         /\ saw'[q].red = saw[q].red /\ saw'[q].late = saw[q].late
  <2>1. Unread \in Seen
    BY DEF Unread, Seen
  <2>2. ASSUME NEW q \in Run \ {r}
        PROVE  /\ saw'[q] = [saw[q] EXCEPT !.later = @ \/ q \in Flashed]
               /\ saw[q] \in Seen
    BY <2>2 DEF Arrives, FlashInv, TypeOK
  <2>3. ASSUME NEW q \in Run \ {r}
        PROVE  /\ saw'[q].total = saw[q].total /\ saw'[q].files = saw[q].files
               /\ saw'[q].red = saw[q].red /\ saw'[q].late = saw[q].late
               /\ saw'[q] \in Seen
    BY <2>2 DEF Seen
  <2>4. saw'[r] = Unread /\ saw' = [q \in Run |-> saw'[q]]
    BY DEF Arrives
  <2> QED BY <2>1, <2>3, <2>4
<1>2. Bench!TypeOK' /\ (owner' = owner \/ (owner = r /\ owner' = None))
  BY DEF Bench!Close, Bench!TypeOK, FlashInv, TypeOK, bench
<1> QED
  BY <1>1, <1>2 DEF Arrives, FlashInv, TypeOK, Local, RunTyped, Places

\* A package arriving keeps the invariant: it makes nothing fresh.
LEMMA ArrivesKeeps ==
  ASSUME FlashInv, NEW r \in Run, NEW kind \in {"installed", "volatile"}, Arrives(r, kind),
         NEW outcome \in Over, pc' = [pc EXCEPT ![r] = outcome], Ssh,
         UNCHANGED bench \/ Bench!Close(r),
         UNCHANGED <<lane, firmware, power, money, staged, form, burn, blind>>
  PROVE  FlashInv'
<1>1. Local(r) /\ tollgate' \in {"installed", "volatile"}
  BY ArrivesIsLocal
<1>2. RunInv(r)'
  BY OverIsKept DEF FlashInv, TypeOK
<1>3. \A q \in Run \ {r} : RunInv(q)'
  BY <1>1, OthersKept
<1>4. BoxInv'
  BY DEF FlashInv, BoxInv, NothingUnseen, WritesWhatWasVerified, Ssh
<1>5. TypeOK'
  BY <1>1 DEF Arrives, FlashInv, TypeOK, Local, RunTyped
<1> QED BY <1>2, <1>3, <1>4, <1>5 DEF FlashInv

\* Every step of an install on a running box.
LEMMA InstallingKeeps ==
  ASSUME FlashInv, NEW r \in Run, Installing(r)
  PROVE  FlashInv'
<1>0. blind \subseteq Run
  BY DEF FlashInv, TypeOK
<1>1. CASE Prepare(r)
  <2>1. pc[r] = "space" /\ UNCHANGED <<lane, box, blind>>
    BY <1>1 DEF Prepare
  <2>2. CASE \E outcome \in {"rehearsed", "refused"} : End(r, outcome)
    BY <1>0, <2>1, <2>2, EndKeeps DEF Over
  <2>3. CASE \E step \in {"install", "lock"} : Go(r, step)
    <3>1. PICK step \in {"install", "lock"} : Go(r, step)
      BY <2>3
    <3>2. step \in StepsOf(args[r].cmd)
      BY <2>1, AtStep DEF StepsOf, Over, Parsed, Gated, Seeing
    <3> QED BY <1>0, <2>1, <3>1, <3>2, GoKeeps DEF Places, Over, Gated
  <2> QED
    <3>1. args[r].run \in BOOLEAN /\ args[r].dry \in BOOLEAN
      BY <2>1, AtStep DEF Over, Parsed
    <3> QED BY <1>1, <2>2, <2>3, <3>1 DEF Prepare, Says
<1>2. CASE Install(r)
  <2>1. CASE End(r, "failed") /\ UNCHANGED <<tollgate, answers>>
    BY <1>0, <1>2, <2>1, EndKeeps DEF Install, Over, box
  <2>2. CASE Ssh /\ Arrives(r, "volatile") /\ pc' = [pc EXCEPT ![r] = "ok"] /\ UNCHANGED bench
    BY <1>2, <2>2, ArrivesKeeps DEF Install, Over
  <2> QED BY <1>2, <2>1, <2>2 DEF Install
<1>3. CASE Session(r)
  BY <1>0, <1>3, EndKeeps DEF Session, Over
<1>4. CASE Fixtures(r)
  <2>1. pc[r] = "fixture" /\ UNCHANGED <<lane, box, blind>>
    BY <1>4 DEF Fixtures
  <2>2. CASE \E outcome \in {"skipped", "failed"} : End(r, outcome)
    BY <1>0, <2>1, <2>2, EndKeeps DEF Over
  <2>3. CASE Go(r, "balance")
    <3>1. "balance" \in StepsOf(args[r].cmd)
      BY <2>1, AtStep DEF StepsOf, Over, Parsed, Gated, Seeing
    <3> QED BY <1>0, <2>1, <2>3, <3>1, GoKeeps DEF Places, Over, Gated
  <2>4. CASE /\ pc' = [pc EXCEPT ![r] = FlashTest(args[r])]
             /\ saw' = [saw EXCEPT ![r].total = "skipped"]
             /\ UNCHANGED <<bench, args>>
    <3>1. args[r].cmd = "suite" /\ args[r] # None /\ (lane = "mt3000" => owner = r)
      BY <2>1, AtStep DEF StepsOf, Over, Parsed, Gated, Seeing, FlashInv, RunInv
    <3>2. FlashTest(args[r]) \in {"stage", "board"}
      BY DEF FlashTest
    <3>3. /\ saw' \in [Run -> Seen] /\ saw'[r].total = "skipped"
          /\ \A q \in Run \ {r} : saw'[q] = saw[q]
      BY <2>4 DEF FlashInv, TypeOK, Seen
    <3>4. Local(r) /\ pc'[r] = FlashTest(args[r]) /\ UNCHANGED <<owner, args, lane>>
      BY <2>1, <2>4, <3>2, <3>3 DEF FlashInv, TypeOK, Local, RunTyped, Places, bench, Bench!TypeOK
    <3>5. pc'[r] \in StepsOf("suite")
      BY <3>2, <3>4 DEF StepsOf, Gated, Seeing
    <3>6. RunInv(r)'
      BY <3>1, <3>2, <3>3, <3>4, <3>5 DEF RunInv, NothingUnseen
    <3> QED BY <1>0, <2>1, <3>4, <3>6, BoxKept
  <2> QED BY <1>4, <2>2, <2>3, <2>4 DEF Fixtures
<1>5. CASE Scenarios(r)
  <2>1. CASE End(r, "failed") /\ UNCHANGED <<tollgate, answers>>
    BY <1>0, <1>5, <2>1, EndKeeps DEF Scenarios, Over, box
  <2>2. CASE Ssh /\ Arrives(r, "installed") /\ Bench!Close(r)
             /\ pc' = [pc EXCEPT ![r] = IF saw[r].red \/ saw[r].total = "skipped"
                                         THEN "failed" ELSE "ok"]
    BY <1>5, <2>2, ArrivesKeeps DEF Scenarios, Over
  <2> QED BY <1>5, <2>1, <2>2 DEF Scenarios
<1> QED BY <1>1, <1>2, <1>3, <1>4, <1>5 DEF Installing

\* A run is killed where it stands; what it began on the box goes on.
LEMMA KilledKeeps ==
  ASSUME FlashInv, NEW r \in Run, Killed(r)
  PROVE  FlashInv'
<1>1. /\ pc' = [pc EXCEPT ![r] = "killed"] /\ args' = [args EXCEPT ![r] = None]
      /\ saw' = [saw EXCEPT ![r] = Unread] /\ UNCHANGED <<lane, box, blind>>
  BY DEF Killed, Forget
<1>2. Unread \in Seen
  BY DEF Unread, Seen
<1>3. Local(r) /\ pc'[r] = "killed"
  BY <1>1, <1>2 DEF Killed, Bench!Die, Bench!TypeOK, FlashInv, TypeOK, Local, RunTyped, Places, Over
<1> QED BY <1>1, <1>3, OverIsKept, BoxKept DEF Over, FlashInv, TypeOK

\* What happens to the box alone leaves its runs at their steps.
LEMMA RunsKept ==
  ASSUME FlashInv, UNCHANGED <<lane, owner, args, pc>>,
         firmware' \in {"vendor", "older"} => firmware = firmware',
         staged' = "partial" => staged = "partial",
         \A r \in Run : pc[r] \in Gated /\ NothingUnseen(args[r].allow, saw[r]) =>
                        NothingUnseen(args[r].allow, saw[r])'
  PROVE  \A r \in Run : RunInv(r)'
<1> SUFFICES ASSUME NEW r \in Run PROVE RunInv(r)'
  OBVIOUS
<1>1. RunInv(r)
  BY DEF FlashInv
<1> QED BY <1>1 DEF RunInv

\* The box finishes what it accepted, and only what it accepted.
LEMMA BurnKeeps ==
  ASSUME FlashInv, Burn
  PROVE  FlashInv'
<1>1. /\ burn \in Burns /\ firmware' = Burnt /\ power' = "down"
      /\ tollgate' = "none" /\ money' = "none" /\ staged' = "none" /\ form' = "none"
      /\ burn' = None /\ UNCHANGED <<lane, bench, answers, args, pc, saw, blind>>
  BY DEF Burn, FlashInv, TypeOK
<1>2. /\ firmware' \in {"older", "mainline", "broken"}
      /\ firmware' = "older" => firmware = "vendor"
      /\ firmware' = "broken" => lane # "mt3000"
  <2>1. /\ burn # None /\ burn.image \in {"signed", "image", "partial"}
        /\ burn.image = "signed" => firmware = "vendor"
        /\ burn.image = "partial" => lane # "mt3000"
    BY <1>1, NoneIsNothing DEF FlashInv, BoxInv, Burns
  <2>2. CASE burn.image = "signed"
    BY <1>1, <2>1, <2>2 DEF Burnt
  <2>3. CASE burn.image = "image"
    BY <1>1, <2>1, <2>3 DEF Burnt
  <2>4. CASE burn.image = "partial"
    BY <1>1, <2>1, <2>4 DEF Burnt
  <2> QED BY <2>1, <2>2, <2>3, <2>4
<1>3. BoxInv'
  BY <1>1, <1>2 DEF BoxInv, FlashInv, WritesWhatWasVerified
<1>4. TypeOK'
  BY <1>1, <1>2 DEF FlashInv, TypeOK, bench, Bench!TypeOK
<1>5. \A r \in Run : RunInv(r)'
  <2> SUFFICES ASSUME NEW r \in Run PROVE RunInv(r)'
    OBVIOUS
  <2>1. RunInv(r)
    BY DEF FlashInv
  <2> QED BY <1>1, <1>2, <2>1 DEF RunInv, NothingUnseen, bench
<1> QED BY <1>3, <1>4, <1>5 DEF FlashInv

\* Power is cut, or the box comes back up.
LEMMA PowerKeeps ==
  ASSUME FlashInv, PowerCut \/ Boot
  PROVE  FlashInv'
<1>1. /\ UNCHANGED <<lane, bench, firmware, money, burn, args, pc, saw, blind>>
      /\ staged' \in {"none", staged} /\ form' \in {"none", form}
      /\ tollgate' \in {"none", tollgate} /\ answers' \in BOOLEAN
      /\ power # "dying" /\ power' \in {"up", "down"}
  BY DEF PowerCut, Boot, FlashInv, TypeOK
<1>2. \A r \in Run : RunInv(r)'
  BY <1>1, RunsKept DEF bench, NothingUnseen
<1>3. BoxInv'
  BY <1>1 DEF FlashInv, BoxInv, NothingUnseen, WritesWhatWasVerified
<1>4. TypeOK'
  BY <1>1 DEF FlashInv, TypeOK, bench, Bench!TypeOK
<1> QED BY <1>2, <1>3, <1>4 DEF FlashInv

\* A customer pays: a run that has looked will not see it, and is marked late.
LEMMA PayKeeps ==
  ASSUME FlashInv, Pay
  PROVE  FlashInv'
<1>1. /\ Ssh /\ money = "none" /\ money' \in {"counted", "filed"}
      /\ saw' = [r \in Run |->
           [saw[r] EXCEPT !.late = @ \/ pc[r] \notin Over \cup {"idle", "lock", "fixture", "balance"}]]
      /\ burn' = IF burn = None THEN None ELSE [burn EXCEPT !.saw.late = TRUE]
      /\ UNCHANGED <<lane, bench, firmware, power, tollgate, answers, staged, form,
                     args, pc, blind>>
  BY DEF Pay
<1>2. ASSUME NEW r \in Run
      PROVE  saw'[r] \in Seen /\ (pc[r] \in Gated => saw'[r].late)
  <2>1. saw'[r] = [saw[r] EXCEPT !.late = @ \/ pc[r] \notin Over \cup {"idle", "lock", "fixture", "balance"}]
    BY <1>1
  <2>2. saw[r] \in Seen
    BY DEF FlashInv, TypeOK
  <2> QED BY <2>1, <2>2 DEF Seen, Gated, Over
<1>3. saw' \in [Run -> Seen]
  <2>1. saw' = [r \in Run |-> saw'[r]]
    BY <1>1
  <2> QED BY <1>2, <2>1
<1>4. /\ burn' \in Burns \cup {None} /\ (burn' = None) = (burn = None)
      /\ burn' # None => burn'.saw.late /\ burn'.image = burn.image
  <2>1. CASE burn = None
    BY <1>1, <2>1
  <2>2. CASE burn # None
    <3>1. burn \in Burns /\ burn' = [burn EXCEPT !.saw.late = TRUE]
      BY <1>1, <2>2 DEF FlashInv, TypeOK
    <3>2. burn' \in Burns /\ burn'.saw.late /\ burn'.image = burn.image
      BY <3>1 DEF Burns, Seen
    <3> QED BY <2>2, <3>2, NoneIsNothing
  <2> QED BY <2>1, <2>2
<1>5. \A r \in Run : RunInv(r)'
  BY <1>1, <1>2, RunsKept DEF bench, NothingUnseen
<1>6. BoxInv'
  BY <1>1, <1>4 DEF FlashInv, BoxInv, NothingUnseen, WritesWhatWasVerified, Ssh
<1>7. TypeOK'
  BY <1>1, <1>3, <1>4 DEF FlashInv, TypeOK, bench, Bench!TypeOK
<1> QED BY <1>5, <1>6, <1>7 DEF FlashInv

\* What goes on around the runs.
LEMMA AroundKeeps ==
  ASSUME FlashInv, Around
  PROVE  FlashInv'
<1>1. CASE Drain \/ ServiceStops
  <2>1. /\ UNCHANGED <<lane, bench, firmware, power, tollgate, staged, form, burn,
                       args, pc, saw, blind>>
        /\ money' \in {"none", money} /\ answers' \in BOOLEAN
    BY <1>1 DEF Drain, ServiceStops, FlashInv, TypeOK
  <2>2. \A r \in Run : RunInv(r)'
    BY <2>1, RunsKept DEF bench, NothingUnseen
  <2>3. BoxInv' /\ TypeOK'
    BY <2>1 DEF FlashInv, BoxInv, NothingUnseen, WritesWhatWasVerified, TypeOK, bench, Bench!TypeOK
  <2> QED BY <2>2, <2>3 DEF FlashInv
<1>2. CASE Reclaim
  <2>1. /\ UNCHANGED <<lane, box, args, pc, saw, blind, owner>> /\ record' = None
    BY <1>2 DEF Reclaim, Bench!Override
  <2>2. \A r \in Run : RunInv(r)'
    BY <2>1, RunsKept DEF box, NothingUnseen
  <2>3. BoxInv' /\ TypeOK'
    BY <2>1 DEF FlashInv, BoxInv, NothingUnseen, WritesWhatWasVerified, TypeOK, box, Bench!TypeOK
  <2> QED BY <2>2, <2>3 DEF FlashInv
<1> QED BY <1>1, <1>2, BurnKeeps, PowerKeeps, PayKeeps DEF Around

\* The invariant is inductive.
LEMMA FlashInvInductive ==
  /\ Init => FlashInv
  /\ FlashInv /\ [Next]_vars => FlashInv'
<1>1. ASSUME Init PROVE FlashInv
  <2>1. Unread \in Seen
    BY DEF Unread, Seen
  <2>2. TypeOK
    BY <1>1, <2>1 DEF Init, TypeOK, Bench!Init, Bench!TypeOK, Places
  <2>3. BoxInv /\ \A r \in Run : RunInv(r)
    BY <1>1, LanesAreKnown DEF Init, BoxInv, RunInv, WritesWhatWasVerified, Gated
  <2> QED BY <2>2, <2>3 DEF FlashInv
<1>2. ASSUME FlashInv, Next PROVE FlashInv'
  BY <1>2, StartKeeps, FlashingKeeps, UploadingKeeps, InstallingKeeps, KilledKeeps, AroundKeeps
     DEF Next
<1>3. ASSUME FlashInv, UNCHANGED vars PROVE FlashInv'
  <2>1. UNCHANGED <<lane, owner, record, firmware, power, tollgate, money, answers,
                    staged, form, burn, args, pc, saw, blind>>
    BY <1>3 DEF vars
  <2>2. TypeOK'
    BY <1>3, <2>1 DEF FlashInv, TypeOK, Bench!TypeOK
  <2>3. BoxInv' /\ \A r \in Run : RunInv(r)'
    BY <1>3, <2>1 DEF FlashInv, BoxInv, RunInv, NothingUnseen, WritesWhatWasVerified
  <2> QED BY <2>2, <2>3 DEF FlashInv
<1> QED BY <1>1, <1>2, <1>3

\* FlashLane is well typed, for any set of runs and of arguments a parser gives them.
THEOREM FlashTypeCorrect == Spec => []TypeOK
<1>1. Spec => []FlashInv
  BY FlashInvInductive, PTL DEF Spec
<1>2. FlashInv => TypeOK
  BY DEF FlashInv
<1> QED BY <1>1, <1>2, PTL

\* The MT3000 never ends up with a part of an image, whoever copied, was cut off or took
\* the bench over before: what cudy-flash.py flashes under the lease is what it compared.
THEOREM BenchWritesWhatWasVerified == Spec => []WritesWhatWasVerified
<1>1. Spec => []FlashInv
  BY FlashInvInductive, PTL DEF Spec
<1>2. FlashInv => WritesWhatWasVerified
  BY DEF FlashInv, BoxInv
<1> QED BY <1>1, <1>2, PTL

\* When a box goes down into a flash with ecash on it, the run that caused it had leave to
\* (--allow-ecash-loss), or could not have seen it: it came after the look, or its
\* listing went unanswered behind a balance of zero, or the suite, whose gate is a test,
\* had failed or skipped it.
THEOREM LostEcashWasUnseen == Spec => LostWasUnseen
<1>1. Spec => []FlashInv
  BY FlashInvInductive, PTL DEF Spec
<1>2. ASSUME FlashInv, money # "none", power = "dying"
      PROVE  \/ burn.allow \/ burn.saw.late
             \/ burn.saw.total = "zero" /\ burn.saw.files = "unanswered"
             \/ burn.saw.red \/ burn.saw.total = "skipped"
  BY <1>2 DEF FlashInv, TypeOK, BoxInv, NothingUnseen
<1>3. FlashInv /\ [Next]_vars =>
        [money # "none" /\ power = "dying" /\ power' = "down" =>
           \/ burn.allow \/ burn.saw.late
           \/ burn.saw.total = "zero" /\ burn.saw.files = "unanswered"
           \/ burn.saw.red \/ burn.saw.total = "skipped"]_vars
  BY <1>2
<1> QED BY <1>1, <1>3, PTL DEF Spec, LostWasUnseen

\* Each run is moved by its own steps.
LEMMA OthersStay ==
  ASSUME FlashInv, NEW q \in Run, NEW r \in Run \ {q},
         Start(q) \/ Flashing(q) \/ Uploading(q) \/ Installing(q) \/ Killed(q)
  PROVE  pc'[r] = pc[r]
<1>1. ASSUME NEW step, Go(q, step) PROVE pc'[r] = pc[r]
  BY <1>1 DEF Go, FlashInv, TypeOK
<1>2. ASSUME NEW outcome, End(q, outcome) PROVE pc'[r] = pc[r]
  BY <1>2 DEF End, FlashInv, TypeOK
<1>3. ASSUME NEW outcome, Stops(q, outcome) PROVE pc'[r] = pc[r]
  BY <1>2, <1>3 DEF Stops, FlashInv, TypeOK
<1>4. ASSUME NEW step, pc' = [pc EXCEPT ![q] = step] PROVE pc'[r] = pc[r]
  BY <1>4 DEF FlashInv, TypeOK
<1>5. CASE Start(q) \/ Killed(q)
  BY <1>2, <1>4, <1>5 DEF Start, Killed
<1>6. CASE Flashing(q)
  <2>1. CASE TakeBench(q) \/ ReadBalance(q) \/ ReadListing(q) \/ Reach(q)
    BY <1>1, <1>2, <1>3, <1>4, <2>1 DEF TakeBench, ReadBalance, ReadListing, Reach
  <2>2. CASE StageBegins(q) \/ StageEnds(q) \/ CheckStaged(q) \/ Flash(q)
    BY <1>1, <1>2, <1>3, <2>2 DEF StageBegins, StageEnds, CheckStaged, Flash
  <2>3. CASE WaitForSsh(q) \/ ReadBoard(q) \/ ReadPackage(q) \/ ReadState(q) \/ Hangs(q)
    BY <1>1, <1>2, <1>3, <2>3
       DEF WaitForSsh, ReadBoard, ReadPackage, ReadState, FoundFresh, Hangs
  <2> QED BY <1>6, <2>1, <2>2, <2>3 DEF Flashing
<1>7. CASE Uploading(q)
  BY <1>1, <1>2, <1>7 DEF Uploading, FetchPage, PostFile, Proceed, Apply
<1>8. CASE Installing(q)
  <2>1. CASE Prepare(q)
    <3>1. args[q].run \in BOOLEAN /\ args[q].dry \in BOOLEAN
      BY <2>1, AtStep DEF Prepare, Over, Parsed
    <3> QED BY <1>1, <1>2, <2>1, <3>1 DEF Prepare, Says
  <2>2. CASE Install(q) \/ Session(q) \/ Fixtures(q) \/ Scenarios(q)
    BY <1>1, <1>2, <1>4, <2>2 DEF Install, Session, Fixtures, Scenarios
  <2> QED BY <1>8, <2>1, <2>2 DEF Installing
<1> QED BY <1>5, <1>6, <1>7, <1>8

\* The last of the checks after the flash, passed: the box it was asked of is fresh,
\* or it was not asked.
Passes(r) ==
  /\ pc[r] = "state" /\ UNCHANGED <<firmware, tollgate>>
  /\ tollgate = "none" \/ r \in blind'

\* The steps that end a run well.
LEMMA WhoEndsWell ==
  ASSUME FlashInv, NEW r \in Run, pc[r] \notin Over \cup {"idle"}, pc'[r] = "ok",
         Start(r) \/ Flashing(r) \/ Uploading(r) \/ Installing(r) \/ Killed(r)
  PROVE  \/ Passes(r) /\ args[r].cmd = "sysupgrade"
         \/ pc[r] = "apply" /\ (~Vendor' \/ r \in blind')
         \/ pc[r] \in {"install", "scenarios"} /\ tollgate' # "none"
<1>1. ASSUME NEW step \in Places, Go(r, step), step # "ok" PROVE FALSE
  BY <1>1, GoIsLocal DEF FlashInv
<1>2. ASSUME NEW outcome \in Over, End(r, outcome), outcome # "ok" PROVE FALSE
  BY <1>2, EndIsLocal DEF FlashInv
<1>3. ASSUME NEW outcome \in Over \ {"ok"}, Stops(r, outcome),
             pc[r] \in Tested \cup Staging \cup Fresh
      PROVE  FALSE
  BY <1>3, StopsIsLocal, NextTestIsLater DEF FlashInv
<1>4. ASSUME NEW step, pc' = [pc EXCEPT ![r] = step], step # "ok" PROVE FALSE
  BY <1>4 DEF FlashInv, TypeOK
<1>5. CASE Start(r) \/ Killed(r)
  BY <1>4, <1>5 DEF Start, Killed, Over
<1>6. CASE Flashing(r)
  <2>1. CASE TakeBench(r)
    BY <1>2, <1>4, <2>1 DEF TakeBench, Over
  <2>2. CASE ReadBalance(r)
    BY <1>4, <2>2 DEF ReadBalance
  <2>3. CASE ReadListing(r)
    BY <1>3, <1>4, <2>3, AfterGateIsNext DEF ReadListing, Over, Tested
  <2>4. CASE Reach(r)
    <3>1. ~Go(r, "sha") /\ ~Go(r, "stage") /\ ~End(r, "refused")
      BY <1>1, <1>2 DEF Places, Over
    <3> QED BY <2>4, <3>1 DEF Reach
  <2>5. CASE StageBegins(r) \/ StageEnds(r)
    <3>1. ~Go(r, "copy") /\ ~Go(r, "sha")
      BY <1>1 DEF Places
    <3>2. ~(pc[r] \in {"stage", "copy"} /\ Stops(r, "failed"))
      BY <1>3 DEF Over, Staging
    <3> QED BY <2>5, <3>1, <3>2 DEF StageBegins, StageEnds
  <2>6. CASE CheckStaged(r)
    <3>1. ~Go(r, "flash") /\ ~End(r, "rehearsed") /\ ~End(r, "refused")
      BY <1>1, <1>2 DEF Places, Over
    <3>2. ~(pc[r] = "sha" /\ Stops(r, "refused"))
      BY <1>3 DEF Over, Staging
    <3> QED BY <2>6, <3>1, <3>2 DEF CheckStaged
  <2>7. CASE Flash(r) \/ WaitForSsh(r) \/ ReadBoard(r) \/ ReadPackage(r)
    <3>1. ~Go(r, "wait") /\ ~Go(r, "board") /\ ~Go(r, "package") /\ ~Go(r, "state")
      BY <1>1 DEF Places
    <3>2. ~(pc[r] \in {"flash", "wait", "board", "package"} /\ Stops(r, "failed"))
      BY <1>3 DEF Over, Staging, Fresh
    <3> QED BY <2>7, <3>1, <3>2 DEF Flash, WaitForSsh, ReadBoard, ReadPackage
  <2>8. CASE ReadState(r)
    <3>1. ~Go(r, "scenarios") /\ ~(pc[r] = "state" /\ Stops(r, "failed"))
      BY <1>1, <1>3 DEF Places, Over, Fresh
    <3>2. args[r].cmd # "suite" /\ pc[r] = "state" /\ UNCHANGED <<firmware, tollgate>>
          /\ (tollgate = "none" \/ r \in blind')
      BY <2>8, <3>1 DEF ReadState, FoundFresh, box
    <3>3. args[r].cmd = "sysupgrade"
      BY <3>2, AtStep DEF StepsOf, Over, Parsed, Gated, Seeing
    <3> QED BY <3>2, <3>3 DEF Passes
  <2>9. CASE Hangs(r)
    BY <1>3, <2>9 DEF Hangs, Over, Tested, Staging, Fresh
  <2> QED BY <1>6, <2>1, <2>2, <2>3, <2>4, <2>5, <2>6, <2>7, <2>8, <2>9 DEF Flashing
<1>7. CASE Uploading(r)
  <2>1. /\ ~Go(r, "upload") /\ ~Go(r, "proceed") /\ ~Go(r, "apply")
        /\ ~End(r, "rehearsed") /\ ~End(r, "refused") /\ ~End(r, "failed")
    BY <1>1, <1>2 DEF Places, Over
  <2>2. Apply(r)
    BY <1>7, <2>1 DEF Uploading, FetchPage, PostFile, Proceed
  <2> QED BY <2>1, <2>2 DEF Apply, VendorBurns, Accepts, Vendor
<1>8. CASE Installing(r)
  <2>1. /\ ~Go(r, "install") /\ ~Go(r, "lock") /\ ~Go(r, "balance")
        /\ ~End(r, "rehearsed") /\ ~End(r, "refused") /\ ~End(r, "failed") /\ ~End(r, "skipped")
    BY <1>1, <1>2 DEF Places, Over
  <2>2. ~Prepare(r)
    <3>1. pc[r] = "space" => args[r].run \in BOOLEAN /\ args[r].dry \in BOOLEAN
      BY AtStep DEF Over, Parsed
    <3> QED BY <2>1, <3>1 DEF Prepare, Says
  <2>3. ~Session(r) /\ ~Fixtures(r)
    BY <1>4, <2>1 DEF Session, Fixtures, FlashTest
  <2>4. CASE Install(r) \/ Scenarios(r)
    BY <2>1, <2>4 DEF Install, Scenarios, Arrives
  <2> QED BY <1>8, <2>2, <2>3, <2>4 DEF Installing
<1> QED BY <1>5, <1>6, <1>7, <1>8

\* A suite reports a fresh box from its last look only.
LEMMA WhoSaysFresh ==
  ASSUME FlashInv, NEW r \in Run, pc[r] = "state", pc'[r] = "scenarios", ~saw'[r].red,
         Start(r) \/ Flashing(r) \/ Uploading(r) \/ Installing(r) \/ Killed(r)
  PROVE  Passes(r)
<1>1. ~Stops(r, "failed")
  BY StopsIsLocal DEF FlashInv, Over, Fresh
<1>2. ReadState(r)
  BY <1>1 DEF Start, Killed, Flashing, TakeBench, ReadBalance, ReadListing, Reach, StageBegins,
     StageEnds, CheckStaged, Flash, WaitForSsh, ReadBoard, ReadPackage, Hangs, Uploading,
     FetchPage, PostFile, Proceed, Apply, Installing, Prepare, Install, Session, Fixtures,
     Scenarios, FlashInv, TypeOK
<1> QED BY <1>1, <1>2 DEF ReadState, Passes, box

\* A run that ends well was right about the box at that moment: an upload left the vendor
\* firmware, a box reported fresh runs the new image with no tollgate unless one came
\* later, and an install leaves a tollgate behind.
THEOREM FlashSuccessIsReal == Spec => SuccessIsReal
<1> DEFINE Real(r) ==
      /\ args[r].cmd = "upload" /\ EndsWell(r) => ~Vendor'
      /\ SaysFresh(r) => firmware' \notin {"vendor", "older"}
      /\ SaysFresh(r) => tollgate' = "none" \/ saw[r].later
      /\ args[r].cmd \in {"install", "suite"} /\ EndsWell(r) => tollgate' # "none"
<1>1. Spec => []FlashInv
  BY FlashInvInductive, PTL DEF Spec
<1>2. ASSUME FlashInv, Next, NEW r \in Run \ blind', pc[r] \notin Over \cup {"idle"}
      PROVE  Real(r)
  <2>1. CASE pc'[r] = pc[r]
    BY <1>2, <2>1 DEF EndsWell, SaysFresh
  <2>2. CASE pc'[r] # pc[r]
    <3>1. ~Around
      BY <2>2 DEF Around, Burn, PowerCut, Boot, Pay, Drain, ServiceStops, Reclaim
    <3>2. Start(r) \/ Flashing(r) \/ Uploading(r) \/ Installing(r) \/ Killed(r)
      BY <1>2, <2>2, <3>1, OthersStay DEF Next
    <3>3. args[r] \in Parsed /\ pc[r] \in StepsOf(args[r].cmd) /\ RunInv(r)
      BY <1>2, AtStep DEF FlashInv
    <3>4. EndsWell(r) => \/ Passes(r) /\ args[r].cmd = "sysupgrade"
                         \/ pc[r] = "apply" /\ ~Vendor'
                         \/ pc[r] \in {"install", "scenarios"} /\ tollgate' # "none"
      BY <1>2, <3>2, WhoEndsWell DEF EndsWell
    <3>5. SaysFresh(r) => Passes(r)
      <4>1. CASE args[r].cmd = "suite"
        BY <1>2, <3>2, <4>1, WhoSaysFresh DEF SaysFresh
      <4>2. CASE args[r].cmd # "suite"
        <5>1. args[r].cmd = "sysupgrade" => pc[r] \notin {"apply", "install", "scenarios"}
          BY <3>3 DEF StepsOf, Gated, Seeing
        <5> QED BY <3>4, <4>2, <5>1 DEF SaysFresh
      <4> QED BY <4>1, <4>2
    <3>6. Passes(r) => firmware' \notin {"vendor", "older"} /\ tollgate' = "none"
      BY <1>2, <3>3 DEF Passes, RunInv
    <3>7. /\ args[r].cmd = "upload" => ~Passes(r) /\ pc[r] \notin {"install", "scenarios"}
          /\ args[r].cmd \in {"install", "suite"} => pc[r] # "apply"
      BY <3>3 DEF StepsOf, Passes, Gated, Seeing
    <3> QED BY <3>4, <3>5, <3>6, <3>7
  <2> QED BY <2>1, <2>2
<1>3. FlashInv /\ [Next]_vars =>
        [\A r \in Run \ blind' : pc[r] \notin Over \cup {"idle"} => Real(r)]_vars
  BY <1>2
<1> QED BY <1>1, <1>3, PTL DEF Spec, SuccessIsReal
-----------------------------------------------------------------------------
\* A run opens the bench, gives back its own, or leaves it as it is.
Uses(r) == UNCHANGED bench \/ Bench!Open(r) \/ Bench!Close(r)

\* Going on leaves the bench alone, and ending gives back what is one's own.
LEMMA WaysOutUse ==
  ASSUME NEW r \in Run, NEW l, Go(r, l) \/ End(r, l) \/ Stops(r, l)
  PROVE  Uses(r)
BY DEF Go, End, Stops, Uses

\* So does every step of a run: no way out of it closes another's window.
LEMMA StepsUse ==
  ASSUME NEW r \in Run, Start(r) \/ Flashing(r) \/ Uploading(r) \/ Installing(r)
  PROVE  Uses(r)
<1> USE WaysOutUse
<1>1. CASE Start(r)
  BY <1>1 DEF Start, Uses
<1>2. CASE Flashing(r)
  <2>1. CASE TakeBench(r)
    BY <2>1 DEF TakeBench, Uses
  <2>2. CASE ReadBalance(r)
    BY <2>2 DEF ReadBalance, Uses
  <2>3. CASE ReadListing(r)
    BY <2>3 DEF ReadListing, Uses
  <2>4. CASE Reach(r) \/ StageBegins(r) \/ StageEnds(r)
    BY <2>4 DEF Reach, StageBegins, StageEnds
  <2>5. CASE CheckStaged(r)
    BY <2>5 DEF CheckStaged
  <2>6. CASE Flash(r) \/ WaitForSsh(r) \/ ReadBoard(r) \/ ReadPackage(r)
    BY <2>6 DEF Flash, WaitForSsh, ReadBoard, ReadPackage
  <2>7. CASE ReadState(r) \/ Hangs(r)
    BY <2>7 DEF ReadState, FoundFresh, Hangs
  <2> QED BY <1>2, <2>1, <2>2, <2>3, <2>4, <2>5, <2>6, <2>7 DEF Flashing
<1>3. CASE Uploading(r)
  <2>1. CASE FetchPage(r)
    BY <2>1 DEF FetchPage
  <2>2. CASE PostFile(r)
    BY <2>2 DEF PostFile
  <2>3. CASE Proceed(r)
    BY <2>3 DEF Proceed
  <2>4. CASE Apply(r)
    BY <2>4 DEF Apply
  <2> QED BY <1>3, <2>1, <2>2, <2>3, <2>4 DEF Uploading
<1>4. CASE Installing(r)
  <2>1. CASE Prepare(r)
    BY <2>1 DEF Prepare, Says
  <2>2. CASE Install(r)
    BY <2>2 DEF Install, Uses
  <2>3. CASE Session(r) \/ Fixtures(r)
    BY <2>3 DEF Session, Fixtures, Uses
  <2>4. CASE Scenarios(r)
    BY <2>4 DEF Scenarios, Uses
  <2> QED BY <1>4, <2>1, <2>2, <2>3, <2>4 DEF Installing
<1> QED BY <1>1, <1>2, <1>3, <1>4

\* Both lanes use the bench as BenchOwner has it, which BenchLease implements: no run
\* ends another's window, nor opens its own over a dead owner's record.
THEOREM FlashesKeepToTheBench == Spec => Bench!Spec
<1> USE DEF Bench!Next, Bench!vars
<1>1. Init => Bench!Init
  BY DEF Init
<1>2. [Next]_vars => [Bench!Next]_(Bench!vars)
  <2> SUFFICES ASSUME Next, ~UNCHANGED bench PROVE Bench!Next
    BY DEF vars, bench
  <2>1. ASSUME NEW r \in Run, Start(r) \/ Flashing(r) \/ Uploading(r) \/ Installing(r)
        PROVE  Bench!Next
    BY <2>1, StepsUse DEF Uses
  <2>2. ASSUME NEW r \in Run, Killed(r) PROVE Bench!Next
    BY <2>2 DEF Killed
  <2>3. ASSUME Around PROVE Bench!Next
    BY <2>3 DEF Around, Burn, PowerCut, Boot, Pay, Drain, ServiceStops, Reclaim
  <2> QED BY <2>1, <2>2, <2>3 DEF Next
<1> QED BY <1>1, <1>2, PTL DEF Spec, Bench!Spec
==============================================================================
