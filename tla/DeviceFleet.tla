----------------------------- MODULE DeviceFleet ----------------------------
(***************************************************************************)
(* The device table and everyone who writes it: POST /devices/select that  *)
(* reserves a device, the modem controller's dial handler and event pump,  *)
(* the USB watcher, the health scan and the REST operators.  One modem     *)
(* controller serves each device; a request is one engine session with an  *)
(* IPC connection of its own to that controller.                           *)
(*                                                                         *)
(* A write of one row is one step: the ORM loads the row and then issues   *)
(* an unconditional UPDATE (or none when the value did not change), so it  *)
(* acts either when it reads or when it writes, never in between.          *)
(***************************************************************************)
EXTENDS Naturals, Sequences, FiniteSets

CONSTANTS
  Devices,    \* rows of the device table, each with an active SIM binding
  Requests,   \* engine sessions; also the modem-side call ids
  Unhealthy,  \* devices the health function reports; {} with the shipped stub
  MaxUpsets,  \* bound on what happens to the table from outside
  None        \* no request, no device

ASSUME FleetAssumption ==
  /\ IsFiniteSet(Devices) /\ IsFiniteSet(Requests)
  /\ Unhealthy \subseteq Devices /\ MaxUpsets \in Nat
  /\ None \notin Requests \cup Devices

VARIABLES
  status,    \* device.status; "gone" when the row does not exist
  lastCall,  \* device.last_call_at as a rank, 0 for NULL
  numbered,  \* devices whose active SIM has a phone number
  seen,      \* devices whose last_seen_at is recent
  plugged,   \* devices on the USB bus
  lock,      \* the transaction that holds the row lock of a device
  stage,     \* where a request is
  dev,       \* the device it was given
  open,      \* its connection's cancel_event is not set
  events,    \* its AT event queue
  slot,      \* the controller's _active_call_id
  line,      \* the call the modem really has up
  scan,      \* devices the running health scan has still to visit
  upsets     \* unplugs, outages, scans and operator requests so far

row == <<status, lastCall, numbered, seen>>
bus == <<plugged, lock>>
request == <<stage, dev, open, events>>
modem == <<slot, line>>
scans == <<scan, upsets>>
vars == <<row, bus, request, modem, scans>>

Statuses == {"unknown", "idle", "dialing", "in_call", "offline", "flagged", "gone"}
Stages == {"new", "picked", "reserved", "opening", "atd", "pump", "sending", "hung",
           "left", "done", "refused", "lost"}

Exists(d) == status[d] # "gone"

(* An event from outside the two services, up to the bound.               *)
Upset == upsets < MaxUpsets /\ upsets' = upsets + 1

(* A writer waits while a /select transaction holds the row.               *)
Writable(d) == lock[d] = None

-----------------------------------------------------------------------------
(* common/db.py and api/deps.py: one transaction per request               *)

(* The session commits, or rolls back, when the request ends.              *)
EndTransaction(d) == lock' = [lock EXCEPT ![d] = None]

(* Mutant: the hangup's write is forgotten.                                *)
SetDeviceStatusLost(d, s) ==
  /\ Writable(d)
  /\ status' = [status EXCEPT ![d] = IF s = "idle" THEN @ ELSE s]

(* handlers._set_device_status()                                           *)
SetDeviceStatus(d, s) ==
  /\ Writable(d)
  /\ status' = [status EXCEPT ![d] = IF Exists(d) THEN s ELSE @]

-----------------------------------------------------------------------------
(* api/routers/select.py                                                   *)

(* Mutant: a plain SELECT sees locked rows too.                            *)
CandidatesUnlocked == {d \in Devices : status[d] = "idle"}

(* WHERE status = 'idle' ... FOR UPDATE OF device SKIP LOCKED              *)
Candidates == {d \in Devices : status[d] = "idle" /\ lock[d] = None}

(* ORDER BY last_call_at ASC NULLS FIRST LIMIT 1                           *)
LongestIdle(d) == d \in Candidates /\ \A e \in Candidates : lastCall[d] =< lastCall[e]

SelectLocks(r, d) ==
  /\ stage[r] = "new" /\ LongestIdle(d) /\ d \in numbered
  /\ lock' = [lock EXCEPT ![d] = r]
  /\ stage' = [stage EXCEPT ![r] = "picked"]
  /\ dev' = [dev EXCEPT ![r] = d]
  /\ UNCHANGED <<row, plugged, open, events, modem, scans>>

(* 503 no_idle_device: no row, or the row's SIM has no phone number.       *)
SelectFails(r) ==
  /\ stage[r] = "new"
  /\ Candidates = {} \/ \E d \in Devices : LongestIdle(d) /\ d \notin numbered
  /\ stage' = [stage EXCEPT ![r] = "refused"]
  /\ UNCHANGED <<row, bus, dev, open, events, modem, scans>>

(* The reservation: status flips and last_call_at is now.                  *)
SelectCommits(r) ==
  /\ stage[r] = "picked"
  /\ LET d == dev[r] IN
     /\ status' = [status EXCEPT ![d] = "dialing"]
     /\ lastCall' = [lastCall EXCEPT ![d] =
          1 + Cardinality({q \in Requests : stage[q] \notin {"new", "picked"}})]
     /\ EndTransaction(d)
  /\ stage' = [stage EXCEPT ![r] = "reserved"]
  /\ UNCHANGED <<numbered, seen, plugged, dev, open, events, modem, scans>>

SelectRollsBack(r) ==
  /\ stage[r] = "picked"
  /\ EndTransaction(dev[r])
  /\ stage' = [stage EXCEPT ![r] = "refused"] /\ dev' = [dev EXCEPT ![r] = None]
  /\ UNCHANGED <<row, plugged, open, events, modem, scans>>

-----------------------------------------------------------------------------
(* handlers.handle_dial() on the connection of the engine                  *)

(* The engine goes away between the reservation and its dial command.      *)
EngineLost(r) ==
  /\ stage[r] = "reserved"
  /\ stage' = [stage EXCEPT ![r] = "lost"]
  /\ UNCHANGED <<row, bus, dev, open, events, modem, scans>>

(* A dial command without a number is answered with invalid_request.       *)
DialRejected(r) ==
  /\ stage[r] = "reserved"
  /\ stage' = [stage EXCEPT ![r] = "lost"] /\ open' = [open EXCEPT ![r] = TRUE]
  /\ UNCHANGED <<row, bus, dev, events, modem, scans>>

DialCommand(r) ==
  /\ stage[r] = "reserved"
  /\ SetDeviceStatus(dev[r], "dialing")
  /\ open' = [open EXCEPT ![r] = TRUE]
  /\ stage' = [stage EXCEPT ![r] = "opening"]
  /\ UNCHANGED <<lastCall, numbered, seen, bus, dev, events, modem, scans>>

(* client.dial() refuses while another call has the slot; the exception    *)
(* ends the read loop and with it the connection.                          *)
DialRefused(r) ==
  /\ stage[r] = "opening" /\ slot[dev[r]] # None
  /\ stage' = [stage EXCEPT ![r] = "refused"] /\ open' = [open EXCEPT ![r] = FALSE]
  /\ UNCHANGED <<row, bus, dev, events, modem, scans>>

DialIssued(r) ==
  /\ stage[r] = "opening" /\ slot[dev[r]] = None
  /\ slot' = [slot EXCEPT ![dev[r]] = r]
  /\ stage' = [stage EXCEPT ![r] = "atd"]
  /\ UNCHANGED <<row, bus, dev, open, events, line, scans>>

(* ATD is accepted: the poller and the pump start, dial_ack is sent.       *)
AtdAccepted(r) ==
  /\ stage[r] = "atd" /\ line[dev[r]] = None /\ dev[r] \in plugged
  /\ line' = [line EXCEPT ![dev[r]] = r]
  /\ stage' = [stage EXCEPT ![r] = "pump"]
  /\ UNCHANGED <<row, bus, dev, open, events, slot, scans>>

(* ATD fails: the slot is free at once and the stream has one event.       *)
AtdFails(r) ==
  /\ stage[r] = "atd"
  /\ slot' = [slot EXCEPT ![dev[r]] = None]
  /\ events' = [events EXCEPT ![r] = <<"remote_hangup">>]
  /\ stage' = [stage EXCEPT ![r] = "pump"]
  /\ UNCHANGED <<row, bus, dev, open, line, scans>>

-----------------------------------------------------------------------------
(* The event queue: the +CLCC poller, the URC callback, client.hangup()    *)

Post(r, e) == events' = [events EXCEPT ![r] = Append(@, e)]

Ended(r) == \E i \in DOMAIN events[r] : events[r][i] = "remote_hangup"

(* The poller reports at most once per call.                               *)
Connected(r) ==
  /\ stage[r] = "pump" /\ slot[dev[r]] = r /\ line[dev[r]] = r
  /\ status[dev[r]] # "in_call" /\ events[r] = <<>>
  /\ Post(r, "connected")
  /\ UNCHANGED <<row, bus, stage, dev, open, modem, scans>>

(* The far end hangs up; NO CARRIER goes to the call that has the slot.    *)
LineDrops(d) ==
  /\ line[d] # None /\ d \in plugged
  /\ line' = [line EXCEPT ![d] = None]
  /\ IF slot[d] # None /\ ~Ended(slot[d])
     THEN Post(slot[d], "remote_hangup") ELSE UNCHANGED events
  /\ UNCHANGED <<row, bus, stage, dev, open, slot, scans>>

(* handle_hangup(): the session must still be mapped to a call, and the    *)
(* call must still have the slot.                                          *)
HangupCommand(r) ==
  /\ open[r] /\ stage[r] \in {"pump", "sending", "hung"}
  /\ slot[dev[r]] = r /\ ~Ended(r)
  /\ line' = [line EXCEPT ![dev[r]] = None]
  /\ Post(r, "remote_hangup")
  /\ UNCHANGED <<row, bus, stage, dev, open, slot, scans>>

-----------------------------------------------------------------------------
(* handle_dial()._pump() and ipc_server.Connection                         *)

(* EOF, a frame error, a handler error: cancel_event is set.               *)
Disconnect(r) ==
  /\ open[r] /\ stage[r] \notin {"opening", "atd"}
  /\ open' = [open EXCEPT ![r] = FALSE]
  /\ UNCHANGED <<row, bus, stage, dev, events, modem, scans>>

(* The pump breaks out at the next event once the connection is closed;    *)
(* the status is not written.                                              *)
PumpBreaks(r) ==
  /\ stage[r] = "pump" /\ events[r] # <<>> /\ ~open[r]
  /\ stage' = [stage EXCEPT ![r] = "left"]
  /\ UNCHANGED <<row, bus, dev, open, events, modem, scans>>

PumpWrites(r) ==
  /\ stage[r] = "pump" /\ events[r] # <<>> /\ open[r]
  /\ LET hangup == Head(events[r]) = "remote_hangup" IN
     /\ SetDeviceStatus(dev[r], IF hangup THEN "idle" ELSE "in_call")
     /\ stage' = [stage EXCEPT ![r] = IF hangup THEN "hung" ELSE "sending"]
  /\ events' = [events EXCEPT ![r] = Tail(@)]
  /\ UNCHANGED <<lastCall, numbered, seen, bus, dev, open, modem, scans>>

(* Mutant: the stream's finally clause is lost.                            *)
StreamLeaks(r) == slot' = [slot EXCEPT ![dev[r]] = @]

(* _urc_stream()'s finally clause frees the slot if it is still this call's. *)
StreamCloses(r) ==
  slot' = [slot EXCEPT ![dev[r]] = IF @ = r THEN None ELSE @]

PumpSends(r) ==
  /\ stage[r] \in {"sending", "hung"} /\ open[r]
  /\ IF stage[r] = "hung"
     THEN StreamCloses(r) /\ stage' = [stage EXCEPT ![r] = "done"]
     ELSE stage' = [stage EXCEPT ![r] = "pump"] /\ UNCHANGED slot
  /\ UNCHANGED <<row, bus, dev, open, events, line, scans>>

(* Closed while the status was written, or the send hits a broken pipe.    *)
PumpCannotSend(r) ==
  /\ stage[r] = "sending" /\ ~open[r]
  /\ stage' = [stage EXCEPT ![r] = "left"]
  /\ UNCHANGED <<row, bus, dev, open, events, modem, scans>>

(* The generator the pump left behind is finalized by the event loop.      *)
StreamFinalized(r) ==
  /\ stage[r] = "left" \/ (stage[r] = "hung" /\ ~open[r])
  /\ StreamCloses(r)
  /\ stage' = [stage EXCEPT ![r] = IF @ = "hung" THEN "done" ELSE "lost"]
  /\ UNCHANGED <<row, bus, dev, open, events, line, scans>>

-----------------------------------------------------------------------------
(* udev_watcher.py                                                         *)

MarkOffline(d) ==
  /\ Upset /\ d \in plugged /\ Writable(d)
  /\ plugged' = plugged \ {d}
  /\ status' = [status EXCEPT ![d] = IF Exists(d) THEN "offline" ELSE @]
  /\ UNCHANGED <<lastCall, numbered, seen, lock, request, modem, scan>>

(* A whitelisted modem that comes back is only marked as seen.             *)
TouchLastSeen(d) ==
  /\ d \notin plugged /\ Writable(d)
  /\ plugged' = plugged \cup {d}
  /\ seen' = IF Exists(d) THEN seen \cup {d} ELSE seen
  /\ UNCHANGED <<status, lastCall, numbered, lock, request, modem, scans>>

(* _on_event(): an error in one event does not end the watcher.            *)
OnEvent(d) == TouchLastSeen(d) \/ MarkOffline(d)

-----------------------------------------------------------------------------
(* Heartbeats, the health scan and the REST operators                      *)

(* heartbeat_loop() and PATCH /devices/{id}/heartbeat: last_seen_at only.  *)
Heartbeat(d) ==
  /\ Exists(d) /\ Writable(d)
  /\ seen' = seen \cup {d}
  /\ UNCHANGED <<status, lastCall, numbered, bus, request, modem, scans>>

(* Heartbeats that fail are logged and skipped until the row is stale.     *)
GoesStale(d) ==
  /\ Upset
  /\ seen' = seen \ {d}
  /\ UNCHANGED <<status, lastCall, numbered, bus, request, modem, scan>>

(* The worker's watchdog flips rows whose heartbeat is old.                *)
Watchdog(d) ==
  /\ Exists(d) /\ d \notin seen /\ Writable(d)
  /\ status' = [status EXCEPT ![d] = "offline"]
  /\ UNCHANGED <<lastCall, numbered, seen, bus, request, modem, scans>>

(* The scheduler runs one scan at a time (max_instances=1).                *)
NoScan == scan = {}

(* A scan works on the ids it read first.                                  *)
ScanStarts ==
  /\ Upset /\ NoScan
  /\ scan' = {d \in Devices : Exists(d)}
  /\ UNCHANGED <<row, bus, request, modem>>

ScanDevice(d) ==
  /\ d \in scan /\ (d \in Unhealthy => Writable(d))
  /\ scan' = scan \ {d}
  /\ status' = [status EXCEPT ![d] = IF d \in Unhealthy /\ Exists(d) THEN "flagged" ELSE @]
  /\ UNCHANGED <<lastCall, numbered, seen, bus, request, modem, upsets>>

(* r was given d and d has not been handed back.                           *)
Holds(r, d) ==
  /\ dev[r] = d
  /\ stage[r] \in {"picked", "reserved", "opening", "atd", "pump", "sending"}

CreateDevice(d) ==
  /\ status[d] = "gone"
  /\ status' = [status EXCEPT ![d] = "unknown"]
  /\ lastCall' = [lastCall EXCEPT ![d] = 0]
  /\ UNCHANGED <<numbered, seen, bus, request, modem, scans>>

(* Operators change the status of, or delete, devices nobody holds.        *)
UpdateDevice(d, s) ==
  /\ Upset /\ status[d] \notin {"gone", s} /\ Writable(d)
  /\ \A r \in Requests : ~Holds(r, d)
  /\ status' = [status EXCEPT ![d] = s]
  /\ UNCHANGED <<lastCall, numbered, seen, bus, request, modem, scan>>

DeleteDevice(d) == UpdateDevice(d, "gone")

(* PATCH /sim-cards/{id} sets or clears the phone number.                  *)
UpdateSim(d) ==
  /\ Upset
  /\ numbered' = IF d \in numbered THEN numbered \ {d} ELSE numbered \cup {d}
  /\ UNCHANGED <<status, lastCall, seen, bus, request, modem, scan>>

-----------------------------------------------------------------------------
Init ==
  /\ status = [d \in Devices |-> "idle"] /\ lastCall = [d \in Devices |-> 0]
  /\ numbered = Devices /\ seen = Devices /\ plugged = Devices
  /\ lock = [d \in Devices |-> None]
  /\ stage = [r \in Requests |-> "new"] /\ dev = [r \in Requests |-> None]
  /\ open = [r \in Requests |-> FALSE] /\ events = [r \in Requests |-> <<>>]
  /\ slot = [d \in Devices |-> None] /\ line = [d \in Devices |-> None]
  /\ scan = {} /\ upsets = 0

Select(r) ==
  \/ \E d \in Devices : SelectLocks(r, d)
  \/ SelectFails(r)
  \/ SelectCommits(r)
  \/ SelectRollsBack(r)

Dial(r) ==
  \/ EngineLost(r) \/ DialRejected(r) \/ DialCommand(r) \/ DialRefused(r)
  \/ DialIssued(r) \/ AtdAccepted(r) \/ AtdFails(r) \/ Connected(r) \/ HangupCommand(r)

Pump(r) ==
  \/ PumpBreaks(r) \/ PumpWrites(r) \/ PumpSends(r) \/ PumpCannotSend(r)
  \/ StreamFinalized(r)

Table(d) ==
  \/ OnEvent(d)
  \/ Heartbeat(d) \/ GoesStale(d) \/ Watchdog(d) \/ ScanDevice(d)
  \/ CreateDevice(d) \/ DeleteDevice(d) \/ UpdateSim(d)
  \/ UpdateDevice(d, "idle") \/ UpdateDevice(d, "flagged")

Next ==
  \/ \E r \in Requests : Select(r) \/ Dial(r) \/ Pump(r) \/ Disconnect(r)
  \/ \E d \in Devices : LineDrops(d) \/ Table(d)
  \/ ScanStarts

(* The event loop runs what is ready: transactions end, ATD is answered,   *)
(* pumps consume.  A phone call ends and a peer reads or disconnects       *)
(* eventually.                                                             *)
Fairness ==
  /\ \A r \in Requests :
       /\ WF_vars(SelectCommits(r) \/ SelectRollsBack(r))
       /\ WF_vars(DialIssued(r) \/ DialRefused(r))
       /\ WF_vars(AtdAccepted(r) \/ AtdFails(r))
       /\ WF_vars(PumpWrites(r) \/ PumpBreaks(r))
       /\ WF_vars(PumpSends(r) \/ PumpCannotSend(r))
       /\ WF_vars(StreamFinalized(r))
  /\ \A d \in Devices : WF_vars(LineDrops(d))

Spec == Init /\ [][Next]_vars /\ Fairness

-----------------------------------------------------------------------------
(* Every variable keeps its type; an event queue holds translated events.  *)
TypeOK ==
  /\ status \in [Devices -> Statuses] /\ lastCall \in [Devices -> 0 .. Cardinality(Requests)]
  /\ numbered \subseteq Devices /\ seen \subseteq Devices /\ plugged \subseteq Devices
  /\ lock \in [Devices -> Requests \cup {None}]
  /\ stage \in [Requests -> Stages] /\ dev \in [Requests -> Devices \cup {None}]
  /\ open \in [Requests -> BOOLEAN]
  /\ events \in [Requests -> Seq({"connected", "remote_hangup"})]
  /\ slot \in [Devices -> Requests \cup {None}] /\ line \in [Devices -> Requests \cup {None}]
  /\ scan \subseteq Devices /\ upsets \in 0 .. MaxUpsets

(* A device is given to one session at a time: /select never hands out a   *)
(* device whose last session has neither hung up nor failed, whatever the  *)
(* watcher, the scan and the watchdog write in between.                    *)
OneHolder ==
  \A d \in Devices : \A r, q \in Requests : Holds(r, d) /\ Holds(q, d) => r = q

(* A device stays "dialing" or "in_call" without a session only because    *)
(* its session was abandoned: the engine went away or its dial was refused. *)
BusyHasACause ==
  \A d \in Devices : status[d] \in {"dialing", "in_call"} =>
    \E r \in Requests : dev[r] = d /\ (Holds(r, d) \/ stage[r] \in {"left", "lost", "refused"})

(* The controller's call slot is released after every call, also when the  *)
(* engine disconnected and the pump left its stream half read.             *)
SlotReleased ==
  \A d \in Devices : \A r \in Requests :
    slot[d] = r ~> (slot[d] # r \/ d \notin plugged)
=============================================================================
