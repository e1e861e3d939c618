------------------------------ MODULE ModemPort -----------------------------
(***************************************************************************)
(* One serial port of a USB modem: the hot-plug watchers of the three      *)
(* platforms, port discovery, the AT prober, and the processes that open   *)
(* the port exclusively (SerialATClient.create_from_tty), on Windows       *)
(* through a reader thread.                                                *)
(*                                                                         *)
(* A modem identity stands for (vid, pid, serial); the port's name is      *)
(* fixed, as when the system gives a replugged modem its old COM number.   *)
(***************************************************************************)
EXTENDS Naturals, Sequences, FiniteSets

CONSTANTS
  Modems,     \* identities that can appear at the port
  Known,      \* those on the VID:PID whitelist
  Procs,      \* processes that want the port
  MaxPlugs,   \* bound: modems plugged in after the start
  MaxOpens,   \* bound: attempts to open the port
  Codes,      \* cause codes the modem reports, as indices of CauseCodes
  None

ASSUME PortAssumption ==
  /\ Known \subseteq Modems /\ None \notin Modems \cup Procs
  /\ MaxPlugs \in Nat /\ MaxOpens \in Nat /\ Codes \subseteq 1 .. 10

Prober == "prober"
ASSUME ProberAssumption == Prober \notin Procs \cup {None}

VARIABLES
  platform,  \* sys.platform
  bus,       \* the modem at the port
  plugs,     \* modems plugged in so far
  watch,     \* the watcher: "off", "on" or "stopped"
  prev,      \* its last scan
  queue,     \* its event queue
  view,      \* what a consumer of the events believes is at the port
  stage,     \* where each process is
  opens,     \* opens attempted
  open,      \* holders of a descriptor of the present device
  lock,      \* holder of the flock
  cause,     \* hangup cause of the last failed dial
  thread,    \* each process's reader thread: "off", "run", "stop" or "ended"
  ident,     \* where identify_modem_channel() is
  cooling    \* the port was probed within the last interval

watcher == <<watch, prev, queue, view>>
process == <<stage, opens, open, lock, cause>>
probing == <<ident, cooling>>
vars == <<platform, bus, plugs, watcher, process, thread, probing>>

Posix == platform # "win32"

-----------------------------------------------------------------------------
(* The watchers                                                            *)

(* Mutant: the new identity is announced before the old one is gone.       *)
DiffScansAddFirst(old, new) ==
  IF old = new THEN <<>>
  ELSE (IF new = None THEN <<>> ELSE <<[action |-> "add", modem |-> new]>>)
       \o (IF old = None THEN <<>> ELSE <<[action |-> "remove", modem |-> old]>>)

(* _diff_scans(): removes first, then adds.                                *)
DiffScans(old, new) ==
  IF old = new THEN <<>>
  ELSE (IF old = None THEN <<>> ELSE <<[action |-> "remove", modem |-> old]>>)
       \o (IF new = None THEN <<>> ELSE <<[action |-> "add", modem |-> new]>>)

(* _scan_ports(): the identity behind the port's name.                     *)
ScanPorts == bus

(* The first scan is kept silently; one that raises counts as empty.       *)
PollLoopStarts(seed) ==
  /\ watch = "off"
  /\ watch' = "on" /\ prev' = seed /\ view' = seed
  /\ UNCHANGED <<platform, bus, plugs, queue, process, thread, probing>>

(* One tick of _poll_loop(); a scan that raises is a tick that never was.  *)
PollLoopTicks ==
  /\ watch = "on" /\ prev # ScanPorts
  /\ queue' = queue \o DiffScans(prev, ScanPorts)
  /\ prev' = ScanPorts
  /\ UNCHANGED <<platform, bus, plugs, watch, view, process, thread, probing>>

(* Linux: from start() on the observer thread posts every kernel event.    *)
ObserverStarts ==
  /\ watch = "off"
  /\ watch' = "on" /\ prev' = bus /\ view' = bus
  /\ UNCHANGED <<platform, bus, plugs, queue, process, thread, probing>>

Observe(old, new) ==
  IF platform = "linux" /\ watch = "on"
  THEN queue' = queue \o DiffScans(old, new) /\ prev' = new
  ELSE UNCHANGED <<queue, prev>>

(* What an event does to the consumer's picture.                           *)
Apply(v, ev) == IF ev.action = "add" THEN ev.modem ELSE None

(* _drain(): the consumer takes the next event.                            *)
Drain ==
  /\ watch = "on" /\ queue # <<>>
  /\ view' = Apply(view, Head(queue)) /\ queue' = Tail(queue)
  /\ UNCHANGED <<platform, bus, plugs, watch, prev, process, thread, probing>>

StopWatcher ==
  /\ watch = "on"
  /\ watch' = "stopped"
  /\ UNCHANGED <<platform, bus, plugs, prev, queue, view, process, thread, probing>>

(* Two classes of the same shape poll, the third one is called back.       *)
Polling ==
  \/ PollLoopStarts(ScanPorts) \/ PollLoopStarts(None) \/ PollLoopTicks \/ Drain \/ StopWatcher

WindowsSerialWatcher == platform = "win32" /\ Polling
MacosIokitWatcher == platform = "darwin" /\ Polling
LinuxUdevWatcher == platform = "linux" /\ (ObserverStarts \/ Drain \/ StopWatcher)

-----------------------------------------------------------------------------
(* The USB bus                                                             *)

Plug(m) ==
  /\ bus = None /\ plugs < MaxPlugs
  /\ bus' = m /\ plugs' = plugs + 1
  /\ Observe(None, m)
  /\ UNCHANGED <<platform, watch, view, process, thread, probing>>

(* Handles of a device that is gone hold nothing any more.                 *)
Unplug ==
  /\ bus # None
  /\ bus' = None /\ open' = {} /\ lock' = None
  /\ Observe(bus, None)
  /\ UNCHANGED <<platform, plugs, watch, view, stage, opens, cause, thread, probing>>

-----------------------------------------------------------------------------
(* windows_serial.discover_modem_serial_paths()                            *)

Exclusive == Posix \/ open = {}

(* A candidate is found in the scan and opened to see whether it answers.  *)
DiscoverProbes(p) ==
  /\ ~Posix /\ stage[p] = "down" /\ opens < MaxOpens /\ bus # None /\ Exclusive
  /\ open' = open \cup {p} /\ opens' = opens + 1
  /\ stage' = [stage EXCEPT ![p] = "probing"]
  /\ UNCHANGED <<platform, bus, plugs, watcher, lock, cause, thread, probing>>

(* ModemDiscoveryError: no AT port, one that cannot be opened.             *)
DiscoverFails(p) ==
  /\ ~Posix /\ stage[p] = "down" /\ opens < MaxOpens /\ (bus = None \/ ~Exclusive)
  /\ opens' = opens + 1
  /\ stage' = [stage EXCEPT ![p] = "failed"]
  /\ UNCHANGED <<platform, bus, plugs, watcher, open, lock, cause, thread, probing>>

(* The probe closes the port again, whether OK was read or not.            *)
ProbeAtOk(p, ok) ==
  /\ stage[p] = "probing"
  /\ open' = open \ {p}
  /\ stage' = [stage EXCEPT ![p] = IF ok THEN "found" ELSE "failed"]
  /\ UNCHANGED <<platform, bus, plugs, watcher, opens, lock, cause, thread, probing>>

(* It ends with both paths or, for want of an answer or of an audio port   *)
(* beside the AT port, with ModemDiscoveryError.                           *)
DiscoverModemSerialPaths(p) ==
  DiscoverProbes(p) \/ DiscoverFails(p) \/ \E ok \in BOOLEAN : ProbeAtOk(p, ok)

-----------------------------------------------------------------------------
(* SerialATClient.create_from_tty() and platforms/serial_lock.py           *)

(* POSIX starts from the configured path, Windows from the discovered one. *)
ReadyToOpen(p) ==
  IF Posix THEN stage[p] = "down" /\ opens < MaxOpens ELSE stage[p] = "found"

(* On Windows open_threaded_serial() also starts the reader thread.        *)
OpenTty(p) ==
  /\ ReadyToOpen(p) /\ bus # None /\ Exclusive
  /\ open' = open \cup {p}
  /\ opens' = IF Posix THEN opens + 1 ELSE opens
  /\ stage' = [stage EXCEPT ![p] = "opened"]
  /\ thread' = [thread EXCEPT ![p] = IF Posix THEN @ ELSE "run"]
  /\ UNCHANGED <<platform, bus, plugs, watcher, lock, cause, probing>>

(* translate_open_error(): access denied on Windows means busy.            *)
OpenFails(p) ==
  /\ ReadyToOpen(p) /\ (bus = None \/ ~Exclusive)
  /\ opens' = IF Posix THEN opens + 1 ELSE opens
  /\ stage' = [stage EXCEPT ![p] = IF bus = None THEN "failed" ELSE "busy"]
  /\ UNCHANGED <<platform, bus, plugs, watcher, open, lock, cause, thread, probing>>

(* Mutant: the lock is not taken on POSIX either.                          *)
AcquireNothing(p) ==
  /\ stage' = [stage EXCEPT ![p] = "locked"]
  /\ UNCHANGED <<open, lock>>

(* Mutant: the opener that lost the race keeps its descriptor.             *)
AcquireKeepsDescriptor(p) ==
  IF Posix /\ p \in open /\ lock # None
  THEN stage' = [stage EXCEPT ![p] = "busy"] /\ UNCHANGED <<open, lock>>
  ELSE /\ stage' = [stage EXCEPT ![p] = "locked"]
       /\ lock' = IF Posix /\ p \in open THEN p ELSE lock
       /\ UNCHANGED open

(* acquire_exclusive(): flock on POSIX, nothing on Windows.  A holder of   *)
(* the lock makes the opener close its descriptor again.                   *)
AcquireExclusive(p) ==
  IF Posix /\ p \in open /\ lock # None
  THEN /\ stage' = [stage EXCEPT ![p] = "busy"]
       /\ open' = open \ {p} /\ UNCHANGED lock
  ELSE /\ stage' = [stage EXCEPT ![p] = "locked"]
       /\ lock' = IF Posix /\ p \in open THEN p ELSE lock
       /\ UNCHANGED open

LockTty(p) ==
  /\ stage[p] = "opened"
  /\ AcquireExclusive(p)
  /\ UNCHANGED <<platform, bus, plugs, watcher, opens, cause, thread, probing>>

(* detect_driver() always yields a driver; its init commands are answered. *)
InitOk(p) ==
  /\ stage[p] = "locked" /\ p \in open
  /\ stage' = [stage EXCEPT ![p] = "running"]
  /\ UNCHANGED <<platform, bus, plugs, watcher, opens, open, lock, cause, thread, probing>>

(* The writer's close(): the reader thread is told to stop.                *)
StopReader(p) ==
  thread' = [thread EXCEPT ![p] = IF @ = "run" THEN "stop" ELSE @]

CloseTty(p) ==
  /\ StopReader(p)
  /\ stage' = [stage EXCEPT ![p] = "closing"]
  /\ UNCHANGED <<platform, bus, plugs, watcher, opens, open, lock, cause, probing>>

(* detect_driver() or init() raises: the client is closed again.           *)
InitFails(p) == stage[p] = "locked" /\ CloseTty(p)

(* aclose() of a running client.                                           *)
Aclose(p) == stage[p] = "running" /\ CloseTty(p)

(* wait_closed(): join the thread for up to 2 s, then close the port,      *)
(* which also drops a flock.                                               *)
WaitClosed(p) ==
  /\ stage[p] = "closing"
  /\ stage' = [stage EXCEPT ![p] = "joined"]
  /\ open' = open \ {p} /\ lock' = IF lock = p THEN None ELSE lock
  /\ UNCHANGED <<platform, bus, plugs, watcher, opens, cause, thread, probing>>

(* serial_lock.release() finds nothing left to unlock; the process ends,   *)
(* and a thread that was not joined in time with it.                       *)
LockReleased(p) ==
  /\ stage[p] = "joined"
  /\ lock' = IF lock = p THEN None ELSE lock
  /\ stage' = [stage EXCEPT ![p] = "down"] /\ thread' = [thread EXCEPT ![p] = "off"]
  /\ UNCHANGED <<platform, bus, plugs, watcher, opens, open, cause, probing>>

-----------------------------------------------------------------------------
(* drivers.py: the cause of a dial that fails                              *)

(* Cause codes of HANGUP_CAUSE_MAP by their digits, in the map's order.    *)
CauseCodes == << <<1>>, <<1, 6>>, <<1, 7>>, <<1, 8>>, <<1, 9>>, <<2, 7>>, <<3, 1>>,
                 <<3, 4>>, <<3, 8>>, <<4, 1>> >>

HangupCauseMap ==
  [c \in {CauseCodes[i] : i \in 1 .. 10} |->
     CASE c = <<1>> -> "call_rejected"
       [] c = <<1, 6>> -> "normal_clearing"
       [] c = <<1, 7>> -> "user_busy"
       [] c \in {<<1, 8>>, <<1, 9>>} -> "no_answer"
       [] c = <<4, 1>> -> "temporary_failure"
       [] OTHER -> "network_out_of_order"]

(* `token in message`                                                      *)
Contains(message, token) ==
  \E i \in 1 .. Len(message) :
    i + Len(token) - 1 =< Len(message) /\ SubSeq(message, i, i + Len(token) - 1) = token

(* _classify_dial_failure(): the first token of the map that occurs.       *)
ClassifyDialFailure(message) ==
  LET hits == {i \in 1 .. 10 : Contains(message, CauseCodes[i])} IN
    IF hits = {} THEN "network_out_of_order"
    ELSE HangupCauseMap[CauseCodes[CHOOSE i \in hits : \A j \in hits : i =< j]]

DialFails(p, code) ==
  /\ stage[p] = "running" /\ cause.code = <<>>
  /\ cause' = [code |-> code, as |-> ClassifyDialFailure(code)]
  /\ UNCHANGED <<platform, bus, plugs, watcher, stage, opens, open, lock, thread, probing>>

-----------------------------------------------------------------------------
(* windows_serial_at.py: the reader thread                                 *)

(* The stop flag or a read error ends the loop; the EOF marker is posted.  *)
ThreadEnds(p) ==
  /\ thread[p] = "stop" \/ (thread[p] = "run" /\ p \notin open)
  /\ thread' = [thread EXCEPT ![p] = "ended"]
  /\ UNCHANGED <<platform, bus, plugs, watcher, process, probing>>

-----------------------------------------------------------------------------
(* at_probe.identify_modem_channel() on Windows                            *)

IdentifyDone == ident' = "off" /\ open' = open \ {Prober}

(* A known VID:PID goes straight to the identity commands; any other port  *)
(* is probed, at most once per interval (otherwise "rate_limited").        *)
IdentifyStarts ==
  /\ ~Posix /\ ident = "off" /\ bus # None /\ Exclusive
  /\ bus \in Known \/ ~cooling
  /\ open' = open \cup {Prober}
  /\ ident' = IF bus \in Known THEN "CGMI" ELSE "probe"
  /\ cooling' = (bus \notin Known \/ cooling)
  /\ UNCHANGED <<platform, bus, plugs, watcher, stage, opens, lock, cause, thread>>

(* The port cannot be opened: "probe_no_ok", or an io_error init failure.  *)
IdentifyCannotOpen ==
  /\ ~Posix /\ ident = "off" /\ bus # None /\ ~Exclusive
  /\ bus \notin Known /\ ~cooling
  /\ cooling' = TRUE
  /\ UNCHANGED <<platform, bus, plugs, watcher, process, thread, ident>>

(* RateLimitedProber: the interval since the last record() has elapsed.    *)
CooledDown ==
  /\ cooling /\ cooling' = FALSE
  /\ UNCHANGED <<platform, bus, plugs, watcher, process, thread, ident>>

(* The probe closes the port; after an OK the port is opened again for the *)
(* identity commands, if nobody else has it by then.                       *)
ProbeAtChannel(ok) ==
  /\ ident = "probe"
  /\ IF ok THEN ident' = "reopen" /\ open' = open \ {Prober} ELSE IdentifyDone
  /\ UNCHANGED <<platform, bus, plugs, watcher, stage, opens, lock, cause, thread, cooling>>

ReadModemIdentity ==
  /\ ident = "reopen"
  /\ IF bus # None /\ Exclusive
     THEN ident' = "CGMI" /\ open' = open \cup {Prober}
     ELSE IdentifyDone
  /\ UNCHANGED <<platform, bus, plugs, watcher, stage, opens, lock, cause, thread, cooling>>

NextCommand(s) ==
  CASE s = "CGMI" -> "CGMM" [] s = "CGMM" -> "CGSN" [] s = "CGSN" -> "CCID"
    [] s \in {"CCID", "ICCID"} -> "audio"

(* _send_and_collect(): a final OK, an error line, or neither in time.     *)
Answers == {"ok", "error", "timeout"}

(* read_modem_identity(): the first command that fails ends the sequence,  *)
(* but an ERROR (not a timeout) for CCID is followed by ICCID.             *)
RunIdentityCommand(answer) ==
  /\ ident \in {"CGMI", "CGMM", "CGSN", "CCID", "ICCID"}
  /\ answer = "ok" => Prober \in open
  /\ IF answer = "ok"
     THEN /\ ident' = NextCommand(ident)
          /\ open' = IF ident' = "audio" THEN open \ {Prober} ELSE open
     ELSE IF answer = "error" /\ ident = "CCID" THEN ident' = "ICCID" /\ UNCHANGED open
     ELSE IdentifyDone
  /\ UNCHANGED <<platform, bus, plugs, watcher, stage, opens, lock, cause, thread, cooling>>

(* find_audio_serial_path(): a scan; whatever it finds, identify is done.  *)
FindAudioSerialPath ==
  /\ ident = "audio"
  /\ IdentifyDone
  /\ UNCHANGED <<platform, bus, plugs, watcher, stage, opens, lock, cause, thread, cooling>>

-----------------------------------------------------------------------------
Init ==
  /\ platform \in {"linux", "darwin", "win32"}
  /\ bus \in Modems \cup {None} /\ plugs = 0
  /\ watch = "off" /\ prev = None /\ queue = <<>> /\ view = None
  /\ stage = [p \in Procs |-> "down"] /\ opens = 0 /\ open = {} /\ lock = None
  /\ cause = [code |-> <<>>, as |-> "none"]
  /\ thread = [p \in Procs |-> "off"]
  /\ ident = "off" /\ cooling = FALSE

Process(p) ==
  \/ DiscoverModemSerialPaths(p)
  \/ OpenTty(p) \/ OpenFails(p) \/ LockTty(p) \/ InitOk(p)
  \/ InitFails(p) \/ Aclose(p) \/ WaitClosed(p) \/ LockReleased(p)
  \/ ThreadEnds(p)
  \/ \E i \in Codes : DialFails(p, CauseCodes[i])

Identify ==
  \/ IdentifyStarts \/ IdentifyCannotOpen \/ CooledDown
  \/ (\E ok \in BOOLEAN : ProbeAtChannel(ok)) \/ ReadModemIdentity
  \/ (\E answer \in Answers : RunIdentityCommand(answer))
  \/ FindAudioSerialPath

Next ==
  \/ Unplug \/ (\E m \in Modems : Plug(m))
  \/ WindowsSerialWatcher \/ MacosIokitWatcher \/ LinuxUdevWatcher
  \/ (\E p \in Procs : Process(p)) \/ Identify

Spec == Init /\ [][Next]_vars

-----------------------------------------------------------------------------
(* What the consumer believes after the first i queued events.             *)
Picture(i) == IF i = 0 THEN view ELSE Apply(view, queue[i])

(* The events tell the truth, one device at a time: replaying what is      *)
(* queued gives exactly the watcher's last scan, a remove names the modem  *)
(* that was there and an add comes only after it, on all three platforms.  *)
EventsReplayTheBus ==
  watch # "off" =>
    /\ Picture(Len(queue)) = prev
    /\ \A i \in 1 .. Len(queue) :
         Picture(i - 1) = IF queue[i].action = "remove" THEN queue[i].modem ELSE None

Drives(p) == p \in open /\ (p = Prober \/ stage[p] \in {"probing", "locked", "running"})

(* Nobody else sends AT commands while a process drives the modem: flock   *)
(* on POSIX, the exclusive open on Windows, also against the probes.       *)
OneDriver == \A p, q \in Procs \cup {Prober} : Drives(p) /\ Drives(q) => p = q

(* An open that failed, at any of its steps, can simply be retried: it     *)
(* leaves neither a descriptor nor a lock, and the prober leaves none.     *)
FailedOpenLeavesNothing ==
  /\ \A p \in Procs : stage[p] \in {"down", "found", "busy", "failed"} =>
       p \notin open /\ lock # p
  /\ ident = "off" => Prober \notin open
=============================================================================
