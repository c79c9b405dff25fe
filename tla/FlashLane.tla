------------------------------ MODULE FlashLane ------------------------------
(***************************************************************************)
(* Flashing a router: scripts/cudy-flash.py (vendor upload, sysupgrade,    *)
(* TollGate handover; no lock) and, behind the bench lease, fresh-flash.py *)
(* (sysupgrade), install-path-e2e.py --flash-and-run ("paths") and the     *)
(* pytest module it starts, tests/scenarios/test_install_paths.py          *)
(* ("suite"), with the gates of lib/cudy_flash.py and lib/fresh_flash.py.  *)
(*                                                                         *)
(* Run is a set of invocations, each of one command, that share one box.   *)
(* `sysupgrade -n` wipes the box, the ecash of its wallet included, so the *)
(* commands look at the wallet first; between that look and the wipe the   *)
(* box goes on selling, other runs stage and flash, links fail and runs    *)
(* are killed.  How the box and its vendor's pages react is external.      *)
(***************************************************************************)
CONSTANTS
  Run, None,
  Lanes,      \* the boxes to look at: "cudy", "mt3000"
  Arguments,  \* the command lines, with the environment they are run in
  Faults      \* of "link" and "refuse" (the box), "kill" (a run)

\* A command line, parsed.
Parsed == [cmd : {"upload", "sysupgrade", "install", "paths", "suite"},
           model : {"1.0", "2.0", "unknown"}, assume : BOOLEAN, image : BOOLEAN,
           switch : BOOLEAN, sure : BOOLEAN, dry : BOOLEAN, allow : BOOLEAN,
           volatile : BOOLEAN, run : BOOLEAN]

\* What a run knows of the wallet, and whether a test of it has failed (red); and,
\* as history, whether ecash came in after it had looked (late), or a TollGate
\* after it had flashed (later).
Seen == [total : {"unread", "skipped", "zero", "some"},
         files : {"unread", "none", "some", "unanswered"},
         red : BOOLEAN, late : BOOLEAN, later : BOOLEAN]

Burns == [by : Run, image : {"signed", "image", "partial"}, allow : BOOLEAN, saw : Seen]

ASSUME LanesAreKnown == Lanes \subseteq {"cudy", "mt3000"}
ASSUME ArgumentsAreParsed == Arguments \subseteq Parsed
ASSUME NoneIsNothing == None \notin Run \cup Arguments \cup Burns

VARIABLES
  lane, owner, record,      \* the box, and the MT3000's bench lease
  firmware, power,          \* what the box runs, and whether it does
  tollgate, money, answers, \* TollGate, its ecash, and whether its CLI answers
  staged, form,             \* the image in /tmp, and in the vendor's upload form
  burn,                     \* the flash the box accepted: whose, of what, on what grounds
  args, pc, saw,            \* per run: command line, next step, what it read
  blind                     \* history: the runs that ended well on an answer unseen

bench == <<owner, record>>
box == <<firmware, power, tollgate, money, answers, staged, form, burn>>
locals == <<args, saw>>
vars == <<lane, owner, record, firmware, power, tollgate, money, answers,
          staged, form, burn, args, pc, saw, blind>>

Bench == INSTANCE BenchOwner WITH Window <- Run, Reclaim <- Run

Unread == [total |-> "unread", files |-> "unread", red |-> FALSE,
           late |-> FALSE, later |-> FALSE]

Init ==
  /\ lane \in Lanes
  /\ Bench!Init
  /\ firmware \in IF lane = "cudy" THEN {"vendor", "older", "mainline"}
                                   ELSE {"older", "mainline"}
  /\ power = "up"
  /\ tollgate \in IF firmware = "vendor" THEN {"none"} ELSE {"none", "installed"}
  /\ money = "none" /\ answers = TRUE
  /\ staged = "none" /\ form = "none" /\ burn = None
  /\ args = [r \in Run |-> None]
  /\ pc = [r \in Run |-> "idle"]
  /\ saw = [r \in Run |-> Unread]
  /\ blind = {}

\* rehearsed: it ends well and says what is left to do; skipped: so does pytest
\* when it has run no test.
Over == {"ok", "rehearsed", "skipped", "refused", "failed", "killed"}

Go(r, step) == pc' = [pc EXCEPT ![r] = step] /\ UNCHANGED <<bench, locals>>

Forget(r) == args' = [args EXCEPT ![r] = None] /\ saw' = [saw EXCEPT ![r] = Unread]

\* Every way out gives the lease back (`finally`), if the run has it.
End(r, outcome) ==
  /\ pc' = [pc EXCEPT ![r] = outcome] /\ Forget(r)
  /\ IF owner = r THEN Bench!Close(r) ELSE UNCHANGED bench

\* The suite tries to flash when the switch is on and it is given an image.
FlashTest(a) == IF a.switch /\ a.image THEN "stage" ELSE "board"

NextTest(r) ==
  CASE pc[r] \in {"balance", "listing"}                      -> FlashTest(args[r])
    [] pc[r] \in {"stage", "copy", "sha", "flash", "wait"}   -> "board"
    [] pc[r] \in {"board", "package", "state"}               -> "scenarios"

\* A command ends at what stops it; a test fails, and pytest goes on to the next.
Stops(r, outcome) ==
  \/ args[r].cmd # "suite" /\ End(r, outcome)
  \/ /\ args[r].cmd = "suite"
     /\ pc' = [pc EXCEPT ![r] = NextTest(r)]
     /\ saw' = [saw EXCEPT ![r].red = TRUE]
     /\ UNCHANGED <<bench, args>>

\* CudyOS has no ssh; a box about to reboot still answers with its old system.
Ssh == power \in {"up", "dying"} /\ firmware \notin {"vendor", "broken"}
LinkFails == "link" \in Faults
Silent == ~Ssh \/ LinkFails
-----------------------------------------------------------------------------
(* The gates before anything is sent. *)

\* An unreadable label may be vouched for, a 2.0 label never.
ModelSupported(a) == a.model = "1.0" \/ (a.model = "unknown" /\ a.assume)

\* fresh-flash.py asks for the image only, cudy-flash.py for the switch too; a
\* release the guard's policy supports and a lightning address are taken as given.
Admitted(a) ==
  CASE a.cmd = "suite" -> TRUE
    [] a.cmd = "paths" -> a.switch
    [] OTHER ->
         IF lane = "mt3000" THEN a.image
         ELSE a.switch /\ (a.cmd # "install" => ModelSupported(a) /\ a.image)

FirstStep(a) ==
  IF lane = "mt3000" THEN "lock"
  ELSE CASE a.cmd = "sysupgrade" -> "balance"
         [] a.cmd = "upload"     -> "page"
         [] a.cmd = "install"    -> "space"

Commands == IF lane = "mt3000" THEN {"sysupgrade", "paths", "suite"}
                               ELSE {"upload", "sysupgrade", "install"}

Start(r) ==
  \E a \in Arguments :
    /\ pc[r] = "idle"
    /\ a.cmd \in Commands
    /\ \/ /\ Admitted(a)
          /\ pc' = [pc EXCEPT ![r] = FirstStep(a)] /\ args' = [args EXCEPT ![r] = a]
          /\ UNCHANGED <<bench, saw>>
       \/ ~Admitted(a) /\ End(r, "refused")
    /\ UNCHANGED <<lane, box, blind>>

\* Mistake: the bench is used without its lease.
TakeBenchAnyway(r) ==
  /\ pc[r] = "lock" /\ Go(r, "balance")
  /\ UNCHANGED <<lane, box, blind>>

\* The lease is one window's at a time, and a dead owner's record bars it too.
TakeBench(r) ==
  LET suite == args[r].cmd = "suite" IN
  /\ pc[r] = "lock"
  /\ \/ /\ Bench!Open(r) /\ UNCHANGED locals
        /\ pc' = [pc EXCEPT ![r] = IF suite THEN "fixture" ELSE "balance"]
     \/ (owner # None \/ record # None) /\ End(r, IF suite THEN "skipped" ELSE "refused")
  /\ UNCHANGED <<lane, box, blind>>
-----------------------------------------------------------------------------
(* The wallet gate. *)

\* Unread: no ssh, no CLI, or a service that is down (it exits 0 all the same).  An
\* answer in which no sum is recognised is read as one of zero.
ReadBalance(r) ==
  /\ pc[r] = "balance" /\ pc' = [pc EXCEPT ![r] = "listing"]
  /\ \/ /\ Ssh /\ tollgate # "none" /\ answers
        /\ \E total \in {"zero", "some"} :
             /\ total = "some" => money = "counted"
             /\ saw' = [saw EXCEPT ![r].total = total]
     \/ /\ Silent \/ tollgate = "none" \/ ~answers
        /\ UNCHANGED saw
  /\ UNCHANGED <<lane, bench, box, args, blind>>

\* Mistake: a balance nobody gave is one of zero.
FlashGuardReadsSilence(s, allow) == allow \/ (s.total # "some" /\ s.files # "some")

\* A balance that was not read is unknown, a listing that failed shows no file.
FlashGuard(s, allow) == allow \/ (s.total = "zero" /\ s.files # "some")

AfterGate(r) ==
  CASE args[r].cmd = "suite"              -> FlashTest(args[r])
    [] args[r].cmd \in {"paths", "install"} -> "session"
    [] OTHER -> IF lane = "cudy" THEN "reach" ELSE "stage"

ReadListing(r) ==
  /\ pc[r] = "listing"
  /\ \E files \in {"none", "some", "unanswered"} :
       /\ files = "some" => Ssh /\ money # "none"
       /\ files = "none" => Ssh /\ money = "none"
       /\ files = "unanswered" => Silent
       /\ LET seen == [saw[r] EXCEPT !.files = files] IN
            \/ /\ FlashGuard(seen, args[r].allow)
               /\ pc' = [pc EXCEPT ![r] = AfterGate(r)]
               /\ saw' = [saw EXCEPT ![r] = seen]
               /\ UNCHANGED <<bench, args>>
            \/ ~FlashGuard(seen, args[r].allow) /\ Stops(r, "refused")
  /\ UNCHANGED <<lane, box, blind>>

Reach(r) ==
  /\ pc[r] = "reach"
  /\ \/ Ssh /\ Go(r, IF args[r].dry THEN "sha" ELSE "stage")
     \/ Silent /\ End(r, "refused")
  /\ UNCHANGED <<lane, box, blind>>
-----------------------------------------------------------------------------
(* Staging, the check on the device, and the flash. *)

\* `cat >` (cudy) or `scp -O` (mt3000) empties the file before it fills it.
StageBegins(r) ==
  /\ pc[r] = "stage"
  /\ \/ Ssh /\ staged' = "partial" /\ Go(r, "copy")
     \/ Silent /\ Stops(r, "failed") /\ UNCHANGED staged
  /\ UNCHANGED <<lane, firmware, power, tollgate, money, answers, form, burn,
                 blind>>

\* Beside another copy of the same file the end of this one need not be whole.
StageEnds(r) ==
  /\ pc[r] = "copy"
  /\ \/ /\ Ssh /\ Go(r, "sha")
        /\ \/ staged' = "image"
           \/ (\E q \in Run \ {r} : pc[q] = "copy") /\ staged' = "partial"
     \/ Silent /\ Stops(r, "failed") /\ UNCHANGED staged
  /\ UNCHANGED <<lane, firmware, power, tollgate, money, answers, form, burn,
                 blind>>

CheckStaged(r) ==
  /\ pc[r] = "sha"
  /\ \/ /\ Ssh /\ staged = "image"
        /\ CASE args[r].dry -> End(r, "rehearsed")
             [] ~args[r].dry /\ ~args[r].sure -> End(r, "refused")
             [] OTHER -> Go(r, "flash")
     \/ (Silent \/ staged # "image") /\ Stops(r, "refused")
  /\ UNCHANGED <<lane, box, blind>>

Accepts(r, image) ==
  /\ power' = "dying"
  /\ burn' = [by |-> r, image |-> image, allow |-> args[r].allow, saw |-> saw[r]]

\* The box takes the file as it is now, or refuses; the exit code is not looked at.
\* fresh-flash.py ends on an ssh that hangs, cudy-flash.py goes on to wait.
Flash(r) ==
  /\ pc[r] = "flash"
  /\ \/ Go(r, "wait")
     \/ lane = "mt3000" /\ LinkFails /\ Stops(r, "failed")
  /\ \/ /\ Ssh /\ power = "up" /\ staged # "none"
        /\ Accepts(r, staged)
     \/ /\ Silent \/ power = "dying" \/ staged # "image" \/ "refuse" \in Faults
        /\ UNCHANGED <<power, burn>>
  /\ UNCHANGED <<lane, firmware, tollgate, money, answers, staged, form,
                 blind>>

\* An answer of the old system will do; after the time-out the run fails.
WaitForSsh(r) ==
  /\ pc[r] = "wait"
  /\ \/ Ssh /\ Go(r, "board")
     \/ Stops(r, "failed")
  /\ UNCHANGED <<lane, box, blind>>
-----------------------------------------------------------------------------
(* What the box looks like afterwards. *)

\* Mistake: what the box says it is goes to the log only.
ReadBoardPrints(r) ==
  /\ pc[r] = "board" /\ Go(r, "package")
  /\ UNCHANGED <<lane, box, blind>>

ReadBoard(r) ==
  /\ pc[r] = "board"
  /\ \/ Ssh /\ firmware = "mainline" /\ Go(r, "package")
     \/ (Silent \/ firmware # "mainline") /\ Stops(r, "failed")
  /\ UNCHANGED <<lane, box, blind>>

\* A volatile install is none of apk's, but leaves its files in /etc/tollgate.
\* A suite that took the box for one with opkg asks that.
ReadPackage(r) ==
  /\ pc[r] = "package"
  /\ \/ (Silent \/ tollgate # "installed" \/ saw[r].total = "skipped") /\ Go(r, "state")
     \/ /\ Ssh /\ tollgate = "installed" /\ saw[r].total # "skipped"
        /\ Stops(r, "failed")
  /\ UNCHANGED <<lane, box, blind>>

FoundFresh(r) == IF args[r].cmd = "suite" THEN Go(r, "scenarios") ELSE End(r, "ok")

\* No answer is no file: the listing does not stop a run.
ReadState(r) ==
  /\ pc[r] = "state"
  /\ \/ Ssh /\ tollgate = "none" /\ FoundFresh(r) /\ UNCHANGED blind
     \/ Ssh /\ tollgate # "none" /\ Stops(r, "failed") /\ UNCHANGED blind
     \/ Silent /\ FoundFresh(r) /\ blind' = blind \cup {r}
  /\ UNCHANGED <<lane, box>>

\* Only cudy-flash.py catches the time-out of its ssh; what it hands over to does not.
Hangs(r) ==
  /\ LinkFails
  /\ args[r] # None /\ (lane = "mt3000" \/ args[r].cmd = "install")
  /\ pc[r] \in {"balance", "listing", "stage", "copy", "sha", "board", "package", "state"}
  /\ Stops(r, "failed")
  /\ UNCHANGED <<lane, box, blind>>
-----------------------------------------------------------------------------
(* Stage 1: the vendor's pages take the signed image. *)

Vendor == power = "up" /\ firmware = "vendor"

\* Only a page that is positively the vendor's is uploaded to.
FetchPage(r) ==
  /\ pc[r] = "page"
  /\ \/ Vendor /\ CASE args[r].dry -> End(r, "rehearsed")
                    [] ~args[r].dry /\ ~args[r].sure -> End(r, "refused")
                    [] OTHER -> Go(r, "upload")
     \/ (~Vendor \/ LinkFails) /\ End(r, "refused")
  /\ UNCHANGED <<lane, box, blind>>

\* A 200 says the file arrived; the answer may be lost when it did.
PostFile(r) ==
  /\ pc[r] = "upload"
  /\ \/ Vendor /\ form' = "held" /\ Go(r, "proceed")
     \/ Vendor /\ LinkFails /\ form' = "held" /\ End(r, "failed")
     \/ (~Vendor \/ LinkFails) /\ End(r, "failed") /\ UNCHANGED form
  /\ UNCHANGED <<lane, firmware, power, tollgate, money, answers, staged, burn,
                 blind>>

\* The box starts on the signed image: at `Proceed`, or at the applies after it.
VendorBurns(r) == Accepts(r, "signed")

\* Only a redirect is an acceptance: a 200 is the page's refusal of the image.
Accepted(status) == status = 302

Proceed(r) ==
  \E status \in {200, 302, 403} :
    /\ pc[r] = "proceed"
    /\ status = 302 => Vendor /\ form = "held"
    /\ status = 200 => Vendor /\ "refuse" \in Faults
    /\ status = 403 => ~Vendor \/ form # "held" \/ LinkFails
    /\ IF Accepted(status) THEN Go(r, "apply") ELSE End(r, "failed")
    /\ \/ status = 302 /\ VendorBurns(r)
       \/ UNCHANGED <<power, burn>>
    /\ UNCHANGED <<lane, firmware, tollgate, money, answers, staged, form,
                   blind>>

\* Whatever the applies answer the run is over and well; only silence fails it.
Apply(r) ==
  /\ pc[r] = "apply"
  /\ \/ Vendor /\ form = "held" /\ VendorBurns(r) /\ End(r, "ok") /\ UNCHANGED blind
     \/ /\ Vendor /\ (form # "held" \/ "refuse" \in Faults)
        /\ End(r, "ok") /\ blind' = blind \cup {r} /\ UNCHANGED <<power, burn>>
     \/ power = "dying" /\ End(r, "ok") /\ UNCHANGED <<power, burn, blind>>
     \/ (~Vendor \/ LinkFails) /\ End(r, "failed") /\ UNCHANGED <<power, burn, blind>>
  /\ UNCHANGED <<lane, firmware, tollgate, money, answers, staged, form>>
-----------------------------------------------------------------------------
(* Stage 3: TollGate onto the box, and the install-path suite. *)

Says(r) == End(r, "rehearsed")

\* The payload must fit.  A volatile install asks for its package and for consent;
\* the handover sets the root password and enables the APs, and goes on if told to.
Prepare(r) ==
  LET a == args[r] IN
  /\ pc[r] = "space"
  /\ \/ Ssh /\ a.volatile /\ (IF a.sure /\ ~a.dry THEN Go(r, "install") ELSE Says(r))
     \/ /\ Ssh /\ ~a.volatile
        /\ CASE ~a.run         -> Says(r)
             [] a.run /\ ~a.dry -> Go(r, "lock")
             [] a.run /\ a.dry  -> End(r, "refused")
     \/ End(r, "refused")
  /\ UNCHANGED <<lane, box, blind>>

Flashed == {q \in Run : pc[q] \in {"wait", "board", "package", "state"}}

\* TollGate comes onto the box, history notes who had flashed it by then.
Arrives(r, kind) ==
  /\ tollgate' = IF tollgate = "none" \/ kind = "installed" THEN kind ELSE tollgate
  /\ saw' = [q \in Run |-> IF q = r THEN Unread
                           ELSE [saw[q] EXCEPT !.later = @ \/ q \in Flashed]]
  /\ args' = [args EXCEPT ![r] = None]
  /\ answers' = TRUE

\* `--volatile` unpacks the package into tmpfs and links it.
Install(r) ==
  /\ pc[r] = "install"
  /\ \/ /\ Ssh /\ Arrives(r, "volatile")
        /\ pc' = [pc EXCEPT ![r] = "ok"] /\ UNCHANGED bench
     \/ End(r, "failed") /\ UNCHANGED <<tollgate, answers>>
  /\ UNCHANGED <<lane, firmware, power, money, staged, form, burn, blind>>

\* The session that --flash-and-run starts asks for the lease its parent holds:
\* every test is skipped, and the exit code is a success's.
Session(r) ==
  /\ pc[r] = "session" /\ (owner # None \/ record # None)
  /\ End(r, "skipped")
  /\ UNCHANGED <<lane, box, blind>>

\* The suite run by hand: no router, no test.  A package manager it was not told of
\* is opkg, and then the wallet is not looked at; one it waits for in vain ends it.
Fixtures(r) ==
  /\ pc[r] = "fixture"
  /\ \/ Silent /\ End(r, "skipped")
     \/ Ssh /\ firmware = "mainline" /\ Go(r, "balance")
     \/ /\ Ssh /\ (firmware = "older" \/ LinkFails)
        /\ pc' = [pc EXCEPT ![r] = FlashTest(args[r])]
        /\ saw' = [saw EXCEPT ![r].total = "skipped"]
        /\ UNCHANGED <<bench, args>>
     \/ Ssh /\ LinkFails /\ End(r, "failed")
  /\ UNCHANGED <<lane, box, blind>>

\* Scenarios A and B put TollGate onto the box as it is, fresh or not; only what
\* suits apk can be a success.
Scenarios(r) ==
  /\ pc[r] = "scenarios"
  /\ \/ /\ Ssh /\ Arrives(r, "installed")
        /\ pc' = [pc EXCEPT ![r] = IF saw[r].red \/ saw[r].total = "skipped"
                                   THEN "failed" ELSE "ok"]
        /\ Bench!Close(r)
     \/ End(r, "failed") /\ UNCHANGED <<tollgate, answers>>
  /\ UNCHANGED <<lane, firmware, power, money, staged, form, burn, blind>>
-----------------------------------------------------------------------------
(* The box, its customers and the operator. *)

Burnt == CASE burn.image = "signed"  -> "older"
           [] burn.image = "image"   -> "mainline"
           [] burn.image = "partial" -> "broken"

\* The new system is written, the old one and all it held are gone.
Burn ==
  /\ power = "dying" /\ power' = "down"
  /\ firmware' = Burnt
  /\ tollgate' = "none" /\ money' = "none" /\ staged' = "none" /\ form' = "none"
  /\ burn' = None
  /\ UNCHANGED <<lane, bench, answers, args, pc, saw, blind>>

PowerCut ==
  /\ power = "up" /\ power' = "down"
  /\ staged' = "none" /\ form' = "none"
  /\ UNCHANGED <<lane, bench, firmware, tollgate, money, answers, burn, args, pc, saw, blind>>

\* Of a volatile install the files in /etc are left, not the service.
Boot ==
  /\ power = "down" /\ firmware # "broken"
  /\ power' = "up" /\ answers' = (tollgate # "volatile")
  /\ UNCHANGED <<lane, bench, firmware, tollgate, money, staged, form, burn,
                 args, pc, saw, blind>>

\* Some ecash is in the balance, some only in files the balance leaves out.
Pay ==
  /\ Ssh /\ tollgate # "none" /\ answers /\ money = "none"
  /\ money' \in {"counted", "filed"}
  /\ saw' = [r \in Run |->
               [saw[r] EXCEPT !.late = @ \/ pc[r] \notin Over \cup {"idle", "lock", "fixture", "balance"}]]
  /\ burn' = IF burn = None THEN None ELSE [burn EXCEPT !.saw.late = TRUE]
  /\ UNCHANGED <<lane, bench, firmware, power, tollgate, answers, staged, form,
                 args, pc, blind>>

Drain ==
  /\ money # "none" /\ money' = "none"
  /\ UNCHANGED <<lane, bench, firmware, power, tollgate, answers, staged, form,
                 burn, args, pc, saw, blind>>

ServiceStops ==
  /\ answers /\ answers' = FALSE
  /\ UNCHANGED <<lane, bench, firmware, power, tollgate, money, staged, form,
                 burn, args, pc, saw, blind>>

\* The kernel drops a killed run's flock, its record stays until it is reclaimed.
\* A killed run that has no lease is one that takes no further step.
Killed(r) ==
  /\ "kill" \in Faults /\ owner = r
  /\ Bench!Die(r)
  /\ pc' = [pc EXCEPT ![r] = "killed"] /\ Forget(r)
  /\ UNCHANGED <<lane, box, blind>>

Reclaim ==
  /\ \E r \in Run : Bench!Override(r)
  /\ UNCHANGED <<lane, box, args, pc, saw, blind>>
-----------------------------------------------------------------------------
Flashing(r) ==
  \/ TakeBench(r) \/ ReadBalance(r) \/ ReadListing(r) \/ Reach(r) \/ StageBegins(r)
  \/ StageEnds(r) \/ CheckStaged(r) \/ Flash(r) \/ WaitForSsh(r) \/ ReadBoard(r)
  \/ ReadPackage(r) \/ ReadState(r) \/ Hangs(r)

Uploading(r) == FetchPage(r) \/ PostFile(r) \/ Proceed(r) \/ Apply(r)

Installing(r) == Prepare(r) \/ Install(r) \/ Session(r) \/ Fixtures(r) \/ Scenarios(r)

Around == Burn \/ PowerCut \/ Boot \/ Pay \/ Drain \/ ServiceStops \/ Reclaim

Next ==
  \/ \E r \in Run : Start(r) \/ Flashing(r) \/ Uploading(r) \/ Installing(r) \/ Killed(r)
  \/ Around

Spec == Init /\ [][Next]_vars
-----------------------------------------------------------------------------
Places == Over \cup {
  "idle", "lock", "balance", "listing", "reach", "stage", "copy", "sha", "flash", "wait",
  "board", "package", "state", "page", "upload", "proceed", "apply", "space", "install",
  "session", "fixture", "scenarios"}

TypeOK ==
  /\ lane \in Lanes /\ Bench!TypeOK
  /\ firmware \in {"vendor", "older", "mainline", "broken"}
  /\ power \in {"up", "dying", "down"}
  /\ tollgate \in {"none", "installed", "volatile"}
  /\ money \in {"none", "counted", "filed"} /\ answers \in BOOLEAN
  /\ staged \in {"none", "partial", "image"} /\ form \in {"none", "held"}
  /\ burn \in Burns \cup {None}
  /\ pc \in [Run -> Places]
  /\ args \in [Run -> Arguments \cup {None}] /\ saw \in [Run -> Seen]
  /\ blind \subseteq Run
  /\ (power = "dying") = (burn # None)

\* "This gate fails closed": a flash destroys ecash that came in after its run
\* had looked, or that the operator gave up, or, when the listing of the files
\* did not answer, what a balance read as zero does not show; or it is the
\* suite's, whose gate is a test: failed or skipped, it keeps none from the next.
LostWasUnseen ==
  [][money # "none" /\ power = "dying" /\ power' = "down" =>
       \/ burn.allow \/ burn.saw.late
       \/ burn.saw.total = "zero" /\ burn.saw.files = "unanswered"
       \/ burn.saw.red \/ burn.saw.total = "skipped"]_vars

\* Behind the bench lease the box writes the image its run verified there,
\* whoever staged, was cut off or reclaimed the bench before.
WritesWhatWasVerified == lane = "mt3000" => firmware # "broken"

EndsWell(r) == pc[r] # "ok" /\ pc'[r] = "ok"

\* The suite's last test that says the box it installs on is fresh has passed.
SaysFresh(r) ==
  IF args[r].cmd = "suite"
  THEN pc[r] = "state" /\ pc'[r] = "scenarios" /\ ~saw'[r].red
  ELSE args[r].cmd = "sysupgrade" /\ EndsWell(r)

\* A run that ends well did what it says: the vendor's system is gone or going;
\* or the box runs mainline, and what TollGate it carries came after the flash;
\* or TollGate is on it.  The suite installs on such a box, or has failed by then.
\* What a run does not look at (blind) it cannot tell.
SuccessIsReal ==
  [][\A r \in Run \ blind' :
       pc[r] \notin Over \cup {"idle"} =>
         /\ args[r].cmd = "upload" /\ EndsWell(r) => ~Vendor'
         /\ SaysFresh(r) => firmware' \notin {"vendor", "older"}
         /\ SaysFresh(r) => tollgate' = "none" \/ saw[r].later
         /\ args[r].cmd \in {"install", "suite"} /\ EndsWell(r) => tollgate' # "none"]_vars

-----------------------------------------------------------------------------
(* What the documentation says and the code does not do; FlashLane.cfg with *)
(* one of these in the place of its properties shows how.                   *)

\* docs/install-paths-e2e.md:254, :268: flashing is doubly gated, by the switch and
\* an empty wallet, and "the same gate runs as TestFreshFlashPrerequisite::test_02".
SuiteSparesWallet ==
  [][money # "none" /\ power = "dying" /\ power' = "down" =>
       \/ burn.allow \/ burn.saw.late
       \/ burn.saw.total = "zero" /\ burn.saw.files = "unanswered"]_vars

\* docs/install-paths-e2e.md:310: "the single documented entry point: pre-flight ->
\* switch check -> bench lock -> wallet gate -> flash -> both install paths".
EndToEndRuns ==
  [][\A r \in Run : pc[r] = "session" => pc'[r] # "skipped"]_vars
=============================================================================
