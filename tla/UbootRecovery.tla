---------------------------- MODULE UbootRecovery ----------------------------
(***************************************************************************)
(* scripts/uboot-recover.py: recovery of a bricked router through its      *)
(* U-Boot web page.  Three monitors put events into one queue: the link    *)
(* (polled), the packets tcpdump wrote into a capture file, and, in the    *)
(* last stage only, ssh.  The main thread takes the events one by one; the *)
(* stage it is in decides which of them it waits for, the others are       *)
(* dropped.  Every wait has a deadline.                                    *)
(*                                                                         *)
(* The router and the operator are external: they power it off when asked, *)
(* U-Boot or the old system comes up, the link drops now and then.         *)
(* Events that no stage waits for are left out (UBOOT_HTTP, the failsafe   *)
(* broadcast, silence, UPLOAD_COMPLETE, FLASH_TRIGGERED).                  *)
(***************************************************************************)
EXTENDS Naturals, Sequences

CONSTANTS
  MaxDrops,  \* bound: link drops without a reboot
  MaxQueue   \* bound: packets are read while the queue is shorter

ASSUME BoundsAreNumbers == MaxDrops \in Nat /\ MaxQueue \in Nat

VARIABLES
  router,    \* "os", "off", "uboot", "flashing", "booting"
  image,     \* what it boots: "old" or "new"
  loaded,    \* U-Boot holds the uploaded image
  link,      \* is the interface active?
  drops,
  capture,   \* the packets in the capture file
  polled,    \* LinkMonitor._last_state
  events,    \* the event queue
  watching,  \* is SSHMonitor polling?
  noUpload,  \* the argument --no-upload
  state,     \* RecoveryContext.state, those with several steps split
  booted,    \* history: a system ran after the upload was accepted
  flashed    \* history: flash_complete was recorded, and was it?

device == <<router, image, loaded, link, drops>>
monitors == <<capture, polled>>
recoveryVars == <<router, image, loaded, link, drops, capture, polled, events, watching,
                  noUpload, state, booted, flashed>>

Packets == {"arp", "icmp6"}
Events == Packets \cup {"link_up", "link_down", "ssh_up"}
Waits == {"power_off", "link_up", "flashing", "rebooting", "booting"}
Ended == {"complete", "failed"}

SshAnswers == router = "os" /\ link

RecoveryInit ==
  /\ router \in {"os", "off", "booting"} /\ link = (router = "os")
  /\ image = "old" /\ loaded = FALSE /\ drops = 0
  /\ capture \in {{}, Packets}     \* a writer that does not start leaves an older one
  /\ polled = "none"
  /\ events = <<>>
  /\ watching = FALSE
  /\ noUpload \in BOOLEAN
  /\ state = "look"
  /\ booted = FALSE
  /\ flashed = "no"
-----------------------------------------------------------------------------
(***************************************************************************)
(* The main thread.                                                        *)
(***************************************************************************)
\* _handle_waiting_for_power_off asks for the plug to be pulled if the link
\* is up.
Look ==
  /\ state = "look"
  /\ state' = IF link THEN "power_off" ELSE "link_up"
  /\ UNCHANGED <<device, monitors, events, watching, noUpload, booted, flashed>>

Targets ==
  [power_off |-> {"link_down"},
   link_up   |-> {"link_up"},
   flashing  |-> {"arp", "link_down"},
   rebooting |-> {"link_up", "icmp6"},
   booting   |-> {"link_up"}]      \* and SSH_UP, which every wait takes

\* Mistake: the last stage takes any awaited event for a success.
OnEventTrustsLink(stage, e) ==
  CASE stage = "power_off" -> "link_up"
    [] stage = "link_up"   -> "probe"
    [] stage = "flashing"  -> "rebooting"
    [] stage = "rebooting" -> "booting"
    [] stage = "booting"   -> "complete"

\* The next stage when an awaited event was taken.
OnEvent(stage, e) ==
  CASE stage = "power_off" -> "link_up"
    [] stage = "link_up"   -> "probe"
    [] stage = "flashing"  -> "rebooting"
    [] stage = "rebooting" -> "booting"
    [] stage = "booting"   -> IF e = "ssh_up" THEN "complete" ELSE "fallback"

\* _wait_for_event_or_timeout takes an event off the queue.
TakeEvent ==
  /\ state \in Waits /\ events # <<>>
  /\ events' = Tail(events)
  /\ LET e == Head(events)
     IN state' = IF e \in Targets[state] \cup {"ssh_up"} THEN OnEvent(state, e) ELSE state
  /\ watching' = IF state' = state THEN watching ELSE state' = "booting"
  /\ flashed' = IF state = "flashing" /\ state' # state
                THEN IF router \in {"uboot", "flashing"} THEN "early" ELSE "yes"
                ELSE flashed
  /\ UNCHANGED <<device, monitors, noUpload, booted>>

\* Mistake: the wait sets no state, and the handler does not either.
WaitTimesOutUnseen ==
  /\ state \in Waits
  /\ state' = CASE state = "booting" -> "fallback" [] state = "link_up" -> state [] OTHER -> "failed"
  /\ watching' = FALSE
  /\ UNCHANGED <<device, monitors, events, noUpload, booted, flashed>>

\* Mistake: no last look at ssh after the deadline.
WaitTimesOutFails ==
  /\ state \in Waits
  /\ state' = "failed"
  /\ watching' = FALSE
  /\ UNCHANGED <<device, monitors, events, noUpload, booted, flashed>>

\* Its deadline passes.
WaitTimesOut ==
  /\ state \in Waits
  /\ state' = IF state = "booting" THEN "fallback" ELSE "failed"
  /\ watching' = FALSE
  /\ UNCHANGED <<device, monitors, events, noUpload, booted, flashed>>

\* detect_uboot_http takes any HTML page for U-Boot's, also the one of a
\* system that is running.
PageFound == link /\ router \in {"uboot", "os"}

\* The probe loop of _handle_waiting_for_uboot; while it finds nothing it
\* empties the queue.
Probe ==
  /\ state = "probe"
  /\ \/ PageFound /\ state' = "upload" /\ UNCHANGED events
     \/ ~PageFound /\ events' = <<>> /\ UNCHANGED state
  /\ UNCHANGED <<device, monitors, watching, noUpload, booted, flashed>>

ProbeTimesOut ==
  /\ state = "probe"
  /\ state' = "failed"
  /\ UNCHANGED <<device, monitors, events, watching, noUpload, booted, flashed>>

\* upload_firmware: any non-empty answer is an acceptance.
UploadAnswered == link /\ router \in {"uboot", "os"}

Upload ==
  /\ state = "upload"
  /\ \/ noUpload /\ state' = "complete" /\ UNCHANGED <<loaded, booted>>
     \/ /\ ~noUpload /\ UploadAnswered
        /\ state' = "trigger"
        /\ loaded' = (router = "uboot")
        /\ booted' = (router = "os")
     \/ ~noUpload /\ state' = "failed" /\ UNCHANGED <<loaded, booted>>
  /\ UNCHANGED <<router, image, link, drops, monitors, events, watching, noUpload, flashed>>

\* trigger_flash: whatever it returns, the next stage is the same.
TriggerFlash ==
  /\ state = "trigger"
  /\ state' = "flashing"
  /\ router' \in IF router = "uboot" /\ loaded THEN {"uboot", "flashing"} ELSE {router}
  /\ UNCHANGED <<image, loaded, link, drops, monitors, events, watching, noUpload,
                 booted, flashed>>

\* The last look at ssh of _handle_openwrt_booting.
Fallback ==
  /\ state = "fallback"
  /\ state' = IF SshAnswers THEN "complete" ELSE "failed"
  /\ UNCHANGED <<device, monitors, events, watching, noUpload, booted, flashed>>
-----------------------------------------------------------------------------
(***************************************************************************)
(* The monitor threads.                                                    *)
(***************************************************************************)
LinkState == IF link THEN "up" ELSE "down"

LinkPoll ==
  /\ state \notin Ended
  /\ polled # LinkState
  /\ polled' = LinkState
  /\ events' = IF polled = "none" THEN events
               ELSE Append(events, IF link THEN "link_up" ELSE "link_down")
  /\ UNCHANGED <<device, capture, watching, noUpload, state, booted, flashed>>

\* PcapMonitor: tcpdump -r ends at the end of the file, the next one starts
\* at its beginning, so a packet may be reported any number of times.
PcapRead ==
  /\ state \notin Ended
  /\ Len(events) < MaxQueue
  /\ \E p \in capture : events' = Append(events, p)
  /\ UNCHANGED <<device, monitors, watching, noUpload, state, booted, flashed>>

\* A writer that died with its interface is started again, on an empty file.
PcapRestarts ==
  /\ state \notin Ended
  /\ link
  /\ capture' = {}
  /\ UNCHANGED <<device, polled, events, watching, noUpload, state, booted, flashed>>

SshPoll ==
  /\ watching /\ SshAnswers
  /\ watching' = FALSE
  /\ events' = Append(events, "ssh_up")
  /\ UNCHANGED <<device, monitors, noUpload, state, booted, flashed>>
-----------------------------------------------------------------------------
(***************************************************************************)
(* The operator and the router.                                            *)
(***************************************************************************)
Unplug ==
  /\ router = "os" /\ state \in {"look", "power_off"}
  /\ router' = "off" /\ link' = FALSE
  /\ UNCHANGED <<image, loaded, drops, capture>>

\* With the reset button held, or released too early.
PlugIn ==
  /\ router = "off" /\ state = "link_up"
  /\ router' \in {"uboot", "booting"} /\ link' = TRUE
  /\ UNCHANGED <<image, loaded, drops, capture>>

FlashEnds ==
  /\ router = "flashing"
  /\ router' = "booting" /\ image' = "new"
  /\ link' = FALSE
  /\ capture' \in {capture, capture \cup {"arp"}}
  /\ UNCHANGED <<loaded, drops>>

\* U-Boot rejects the image, or gives up waiting for one.
UbootGivesUp ==
  /\ router = "uboot" /\ state # "upload"
  /\ router' = "booting" /\ loaded' = FALSE
  /\ link' = FALSE
  /\ UNCHANGED <<image, drops, capture>>

Boots ==
  /\ router = "booting"
  /\ router' = "os"
  /\ capture' \in {capture, capture \cup {"icmp6"}}
  /\ UNCHANGED <<image, loaded, link, drops>>

LinkDrops ==
  /\ link /\ drops < MaxDrops
  /\ link' = FALSE /\ drops' = drops + 1
  /\ UNCHANGED <<router, image, loaded, capture>>

LinkReturns ==
  /\ ~link /\ router # "off"
  /\ link' = TRUE
  /\ UNCHANGED <<router, image, loaded, drops, capture>>

Router ==
  /\ state \notin Ended
  /\ \/ Unplug \/ PlugIn \/ FlashEnds \/ UbootGivesUp \/ Boots
     \/ LinkDrops \/ LinkReturns
  /\ booted' = (booted \/ (router' = "os" /\ state \notin {"look", "power_off", "link_up",
                                                        "probe", "upload"}))
  /\ UNCHANGED <<polled, events, watching, noUpload, state, flashed>>

Done == state \in Ended /\ UNCHANGED recoveryVars
-----------------------------------------------------------------------------
Monitors == LinkPoll \/ PcapRead \/ PcapRestarts \/ SshPoll

RecoveryNext ==
  \/ Look \/ TakeEvent \/ WaitTimesOut \/ Probe \/ ProbeTimesOut
  \/ Upload \/ TriggerFlash \/ Fallback
  \/ Monitors \/ Router \/ Done

RecoverySpec == RecoveryInit /\ [][RecoveryNext]_recoveryVars

\* The main thread runs, and its deadlines pass whatever the queue holds.
Fairness ==
  /\ WF_recoveryVars(Look) /\ WF_recoveryVars(WaitTimesOut) /\ WF_recoveryVars(ProbeTimesOut)
  /\ WF_recoveryVars(Upload) /\ WF_recoveryVars(TriggerFlash) /\ WF_recoveryVars(Fallback)

RecoveryFairSpec == RecoverySpec /\ Fairness
-----------------------------------------------------------------------------
RecoveryTypeOK ==
  /\ router \in {"os", "off", "uboot", "flashing", "booting"}
  /\ image \in {"old", "new"}
  /\ loaded \in BOOLEAN /\ link \in BOOLEAN
  /\ drops \in 0 .. MaxDrops
  /\ capture \subseteq Packets
  /\ polled \in {"none", "up", "down"}
  /\ events \in Seq(Events)
  /\ watching \in BOOLEAN /\ noUpload \in BOOLEAN /\ booted \in BOOLEAN
  /\ state \in Waits \cup Ended \cup {"look", "probe", "upload", "trigger", "fallback"}
  /\ flashed \in {"no", "yes", "early"}

\* A recovery that reports success had its image accepted, and a system
\* answered ssh after that: no stale or repeated event stands in for it.
SuccessMeansSystem == state = "complete" => noUpload \/ booted

\* A recovery that got as far as waiting for ssh is given up only when the
\* router does not answer: an event that ends the wait early is not a failure.
GivenUpOnlyWhenSilent ==
  [][(state \in {"booting", "fallback"} /\ state' = "failed") => ~SshAnswers]_recoveryVars

\* The script ends, however its events are lost, repeated or reordered.
Ends == <>(state \in Ended)

\* "U-Boot ARPs for 192.168.1.2 right before rebooting (flash complete
\* signal)": flash_complete is recorded when the router has left U-Boot.
FlashCompleteIsTrue == flashed # "early"

\* A recovery that reports success flashed the image.
SuccessMeansFlashed == state = "complete" => noUpload \/ image = "new"
=============================================================================
