------------------------- MODULE DeviceFleetProofs -------------------------
(***************************************************************************)
(* Theorems about DeviceFleet, for any number of devices, requests and     *)
(* upsets: every variable keeps its type, a device is given to one session *)
(* at a time, and a device left busy was left so by an abandoned session.  *)
(***************************************************************************)
EXTENDS DeviceFleet, FiniteSetTheorems, TLAPS

(* The stages in which a request has the device it was given.              *)
HolderStages == {"picked", "reserved", "opening", "atd", "pump", "sending"}

(* TypeOK without the rank of the last call, which needs counting.         *)
TableType ==
  /\ status \in [Devices -> Statuses] /\ lock \in [Devices -> Requests \cup {None}]
  /\ numbered \subseteq Devices /\ seen \subseteq Devices /\ plugged \subseteq Devices
  /\ scan \subseteq Devices /\ upsets \in 0 .. MaxUpsets

SessionType ==
  /\ stage \in [Requests -> Stages] /\ dev \in [Requests -> Devices \cup {None}]
  /\ open \in [Requests -> BOOLEAN]
  /\ events \in [Requests -> Seq({"connected", "remote_hangup"})]

ModemType ==
  slot \in [Devices -> Requests \cup {None}] /\ line \in [Devices -> Requests \cup {None}]

RankType == lastCall \in [Devices -> 0 .. Cardinality(Requests)]

(* A request past /select has a device; a row lock belongs to the request  *)
(* that picked the row, which is still idle then; a device that is held    *)
(* further on is not idle, whoever wrote its status last.                  *)
ReservationInv ==
  /\ \A r \in Requests : stage[r] \notin {"new", "refused"} => dev[r] \in Devices
  /\ \A r \in Requests : stage[r] = "picked" => lock[dev[r]] = r /\ status[dev[r]] = "idle"
  /\ \A r \in Requests : stage[r] \in HolderStages \ {"picked"} => status[dev[r]] # "idle"

FleetInv ==
  /\ TableType /\ SessionType /\ ModemType /\ RankType
  /\ ReservationInv /\ OneHolder /\ BusyHasACause

-----------------------------------------------------------------------------
(* Types                                                                   *)

(* The rank a reservation gets is at most the number of requests: the      *)
(* request itself is still "picked" and is not counted.                    *)
LEMMA RankBound ==
  ASSUME SessionType, NEW r \in Requests, stage[r] = "picked"
  PROVE  1 + Cardinality({q \in Requests : stage[q] \notin {"new", "picked"}})
           \in 0 .. Cardinality(Requests)
<1> DEFINE T == {q \in Requests : stage[q] \notin {"new", "picked"}}
<1>1. IsFiniteSet(Requests) /\ Cardinality(Requests) \in Nat
  BY FleetAssumption, FS_CardinalityType
<1>2. /\ IsFiniteSet(T) /\ Cardinality(T) <= Cardinality(Requests)
      /\ Cardinality(Requests) = Cardinality(T) => Requests = T
  <2>1. T \in SUBSET Requests
    OBVIOUS
  <2> HIDE DEF T
  <2>2. QED BY <1>1, <2>1, FS_Subset
<1>3. Cardinality(T) \in Nat
  BY <1>2, FS_CardinalityType
<1>4. Requests # T
  OBVIOUS
<1> HIDE DEF T
<1>5. 1 + Cardinality(T) \in 0 .. Cardinality(Requests)
  BY <1>1, <1>2, <1>3, <1>4
<1>6. QED BY <1>5 DEF T

(* Init establishes FleetInv.                                              *)
LEMMA InitFleetInv == Init => FleetInv
<1> SUFFICES ASSUME Init PROVE FleetInv
  OBVIOUS
<1>1. Cardinality(Requests) \in Nat
  BY FleetAssumption, FS_CardinalityType
<1>2. TableType /\ SessionType /\ ModemType
  BY FleetAssumption DEF Init, TableType, SessionType, ModemType, Statuses, Stages
<1>3. RankType
  BY <1>1 DEF Init, RankType
<1>4. ReservationInv /\ OneHolder /\ BusyHasACause
  BY DEF Init, ReservationInv, HolderStages, OneHolder, Holds, BusyHasACause
<1>5. QED BY <1>2, <1>3, <1>4 DEF FleetInv

(* Every step of a request keeps the types of the table.                   *)
LEMMA RequestKeepsTableType ==
  ASSUME FleetInv, NEW r \in Requests, Select(r) \/ Dial(r) \/ Pump(r) \/ Disconnect(r)
  PROVE  TableType' /\ RankType'
<1> USE DEF FleetInv, TableType, RankType, row, bus, scans
<1>1. ASSUME NEW d \in Devices, SelectLocks(r, d) PROVE TableType' /\ RankType'
  BY <1>1 DEF SelectLocks
<1>2. CASE SelectCommits(r)
  <2>1. 1 + Cardinality({q \in Requests : stage[q] \notin {"new", "picked"}})
           \in 0 .. Cardinality(Requests)
    BY <1>2, RankBound DEF SelectCommits
  <2>2. QED BY <1>2, <2>1 DEF SelectCommits, EndTransaction, Statuses
<1>3. CASE SelectRollsBack(r)
  BY <1>3 DEF SelectRollsBack, EndTransaction
<1>4. CASE DialCommand(r)
  BY <1>4 DEF DialCommand, SetDeviceStatus, Statuses
<1>5. CASE PumpWrites(r)
  BY <1>5 DEF PumpWrites, SetDeviceStatus, Statuses
<1>6. CASE UNCHANGED <<row, bus, scans>>
  BY <1>6
<1>7. QED
  BY <1>1, <1>2, <1>3, <1>4, <1>5, <1>6
     DEF Select, Dial, Pump, Disconnect, SelectFails, EngineLost, DialRejected, DialRefused,
         DialIssued, AtdAccepted, AtdFails, Connected, HangupCommand, PumpBreaks, PumpSends,
         PumpCannotSend, StreamFinalized

(* Posting an event keeps the queues' type.                                *)
LEMMA PostType ==
  ASSUME SessionType, NEW r \in Requests, NEW e \in {"connected", "remote_hangup"}, Post(r, e)
  PROVE  events' \in [Requests -> Seq({"connected", "remote_hangup"})]
<1>1. events[r] \in Seq({"connected", "remote_hangup"})
  BY DEF SessionType
<1>2. Append(events[r], e) \in Seq({"connected", "remote_hangup"})
  BY <1>1
<1>3. QED BY <1>2 DEF SessionType, Post

(* ... the types of sessions and modems.                                   *)
LEMMA RequestKeepsSessionType ==
  ASSUME FleetInv, NEW r \in Requests, Select(r) \/ Dial(r) \/ Pump(r) \/ Disconnect(r)
  PROVE  SessionType' /\ ModemType'
<1>0. SessionType /\ ModemType
  BY DEF FleetInv
<1>1. CASE UNCHANGED events
  <2> USE <1>1 DEF SessionType, ModemType, modem, Stages
  <2>1. ASSUME NEW d \in Devices, SelectLocks(r, d) PROVE SessionType' /\ ModemType'
    BY <1>0, <2>1 DEF SelectLocks
  <2>2. CASE SelectFails(r) \/ SelectCommits(r)
    BY <1>0, <2>2 DEF SelectFails, SelectCommits
  <2>3. CASE SelectRollsBack(r)
    BY <1>0, <2>3 DEF SelectRollsBack
  <2>4. CASE EngineLost(r) \/ DialRejected(r) \/ DialCommand(r) \/ DialRefused(r)
    BY <1>0, <2>4 DEF EngineLost, DialRejected, DialCommand, DialRefused
  <2>5. CASE DialIssued(r)
    BY <1>0, <2>5 DEF DialIssued
  <2>6. CASE AtdAccepted(r)
    BY <1>0, <2>6 DEF AtdAccepted
  <2>7. CASE PumpBreaks(r) \/ PumpCannotSend(r) \/ Disconnect(r)
    BY <1>0, <2>7 DEF PumpBreaks, PumpCannotSend, Disconnect
  <2>8. CASE PumpSends(r)
    BY <1>0, <2>8 DEF PumpSends, StreamCloses
  <2>9. CASE StreamFinalized(r)
    BY <1>0, <2>9 DEF StreamFinalized, StreamCloses
  <2>10. CASE AtdFails(r)
    BY <1>0, <2>10 DEF AtdFails
  <2>11. CASE Connected(r) \/ HangupCommand(r)
    BY <1>0, <2>11 DEF Connected, HangupCommand
  <2>12. CASE PumpWrites(r)
    BY <1>0, <2>12 DEF PumpWrites
  <2>13. QED
    BY <2>1, <2>2, <2>3, <2>4, <2>5, <2>6, <2>7, <2>8, <2>9, <2>10, <2>11, <2>12
       DEF Select, Dial, Pump
<1>2. CASE AtdFails(r)
  <2>1. <<"remote_hangup">> \in Seq({"connected", "remote_hangup"})
    OBVIOUS
  <2>2. SessionType'
    BY <1>0, <1>2, <2>1 DEF AtdFails, SessionType, Stages
  <2>3. QED BY <1>0, <1>2, <2>2 DEF AtdFails, ModemType
<1>3. CASE Connected(r)
  <2>1. events' \in [Requests -> Seq({"connected", "remote_hangup"})]
    BY <1>0, <1>3, PostType DEF Connected
  <2>2. QED BY <1>0, <1>3, <2>1 DEF Connected, SessionType, ModemType, modem
<1>4. CASE HangupCommand(r)
  <2>1. events' \in [Requests -> Seq({"connected", "remote_hangup"})]
    BY <1>0, <1>4, PostType DEF HangupCommand
  <2>2. QED BY <1>0, <1>4, <2>1 DEF HangupCommand, SessionType, ModemType
<1>5. CASE PumpWrites(r)
  <2>1. Tail(events[r]) \in Seq({"connected", "remote_hangup"})
    BY <1>0, <1>5 DEF PumpWrites, SessionType
  <2>2. SessionType'
    BY <1>0, <1>5, <2>1 DEF PumpWrites, SessionType, Stages
  <2>3. QED BY <1>0, <1>5, <2>2 DEF PumpWrites, ModemType, modem
<1>6. QED
  BY <1>1, <1>2, <1>3, <1>4, <1>5
     DEF Select, Dial, Pump, Disconnect, SelectLocks, SelectFails, SelectCommits,
         SelectRollsBack, EngineLost, DialRejected, DialCommand, DialRefused, DialIssued,
         AtdAccepted, PumpBreaks, PumpSends, PumpCannotSend, StreamFinalized

(* Every other step keeps all of them.                                     *)
LEMMA OutsideKeepsTypes ==
  ASSUME FleetInv, ScanStarts \/ \E d \in Devices : LineDrops(d) \/ Table(d)
  PROVE  TableType' /\ RankType' /\ SessionType' /\ ModemType'
<1> USE FleetAssumption
<1> USE DEF FleetInv, TableType, RankType, SessionType, ModemType, row, bus, request, modem, scans
<1>1. CASE ScanStarts
  BY <1>1 DEF ScanStarts, Upset
<1>2. ASSUME NEW d \in Devices, LineDrops(d)
      PROVE  TableType' /\ RankType' /\ SessionType' /\ ModemType'
  <2>1. events' \in [Requests -> Seq({"connected", "remote_hangup"})]
    <3>1. CASE slot[d] # None /\ ~Ended(slot[d])
      <4>1. slot[d] \in Requests /\ Post(slot[d], "remote_hangup")
        BY <1>2, <3>1 DEF LineDrops
      <4>2. QED BY <4>1, PostType
    <3>2. CASE ~(slot[d] # None /\ ~Ended(slot[d]))
      BY <1>2, <3>2 DEF LineDrops
    <3>3. QED BY <3>1, <3>2
  <2>2. QED BY <1>2, <2>1 DEF LineDrops
<1>3. ASSUME NEW d \in Devices, Table(d)
      PROVE  TableType' /\ RankType' /\ SessionType' /\ ModemType'
  <2>0. Cardinality(Requests) \in Nat
    BY FS_CardinalityType
  <2>1. CASE TouchLastSeen(d) \/ MarkOffline(d)
    <3>1. CASE TouchLastSeen(d)
      BY <3>1 DEF TouchLastSeen
    <3>2. CASE MarkOffline(d)
      BY <3>2 DEF MarkOffline, Upset, Statuses
    <3>3. QED BY <2>1, <3>1, <3>2
  <2>2. CASE Heartbeat(d) \/ GoesStale(d) \/ UpdateSim(d)
    BY <2>2 DEF Heartbeat, GoesStale, UpdateSim, Upset
  <2>3. CASE Watchdog(d) \/ ScanDevice(d)
    BY <2>3 DEF Watchdog, ScanDevice, Statuses
  <2>4. CASE CreateDevice(d)
    BY <2>0, <2>4 DEF CreateDevice, Statuses
  <2>5. ASSUME NEW s \in {"gone", "idle", "flagged"}, UpdateDevice(d, s)
        PROVE  TableType' /\ RankType' /\ SessionType' /\ ModemType'
    BY <2>5 DEF UpdateDevice, Upset, Statuses
  <2>6. QED BY <1>3, <2>1, <2>2, <2>3, <2>4, <2>5 DEF Table, OnEvent, DeleteDevice
<1>4. QED BY <1>1, <1>2, <1>3

-----------------------------------------------------------------------------
(* Reservations                                                            *)

Reservations == ReservationInv /\ OneHolder /\ BusyHasACause

(* Requests that hold their device or left it behind without handing it    *)
(* back.                                                                   *)
CauseStages == HolderStages \cup {"left", "lost", "refused"}

(* Steps that neither write a status nor move a request.                   *)
LEMMA QuietStep ==
  ASSUME FleetInv, UNCHANGED <<status, lock, stage, dev>>
  PROVE  Reservations'
BY DEF FleetInv, Reservations, ReservationInv, OneHolder, Holds, BusyHasACause

(* A request moves on within the call, or gives up without handing back.   *)
LEMMA StageMove ==
  ASSUME FleetInv, NEW r \in Requests, NEW s \in Stages,
         stage' = [stage EXCEPT ![r] = s], UNCHANGED <<status, lock, dev>>,
         stage[r] # "picked", s # "picked",
         s # "refused" => stage[r] \notin {"new", "refused"},
         s \in HolderStages => stage[r] \in HolderStages,
         stage[r] \in CauseStages => s \in CauseStages
  PROVE  Reservations'
<1> USE DEF FleetInv, SessionType
<1>1. ReservationInv'
  BY DEF ReservationInv, HolderStages
<1>2. OneHolder'
  BY DEF OneHolder, Holds, HolderStages
<1>3. BusyHasACause'
  BY DEF BusyHasACause, Holds, CauseStages, HolderStages
<1>4. QED BY <1>1, <1>2, <1>3 DEF Reservations

(* A writer of the table other than a session: it does not make a device   *)
(* busy, and makes it idle only when nobody holds it.  A picked row is     *)
(* locked, so it is not written.                                           *)
LEMMA TableWrite ==
  ASSUME FleetInv, NEW d \in Devices, NEW s \in Statuses \ {"dialing", "in_call"},
         status' = [status EXCEPT ![d] = s], UNCHANGED <<lock, stage, dev>>,
         lock[d] = None \/ status[d] = "gone",
         s = "idle" => \A r \in Requests : ~Holds(r, d)
  PROVE  Reservations'
<1> USE DEF FleetInv, SessionType, TableType
<1>1. ReservationInv'
  <2>1. \A r \in Requests : stage[r] = "picked" => dev[r] # d
    BY FleetAssumption DEF ReservationInv
  <2>2. QED BY <2>1 DEF ReservationInv, HolderStages, Holds
<1>2. OneHolder'
  BY DEF OneHolder, Holds
<1>3. BusyHasACause'
  BY DEF BusyHasACause, Holds
<1>4. QED BY <1>1, <1>2, <1>3 DEF Reservations

(* A status that is left as it was is no write.                            *)
LEMMA TableNoWrite ==
  ASSUME FleetInv, NEW d \in Devices, status' = [status EXCEPT ![d] = @],
         UNCHANGED <<lock, stage, dev>>
  PROVE  Reservations'
BY QuietStep DEF FleetInv, TableType

(* /select: the row it picks is held by nobody, because a held row is      *)
(* either locked or not idle.                                              *)
LEMMA SelectStep ==
  ASSUME FleetInv, NEW r \in Requests, Select(r)
  PROVE  Reservations'
<1> USE FleetAssumption DEF FleetInv, SessionType, TableType
<1>1. ASSUME NEW d \in Devices, SelectLocks(r, d) PROVE Reservations'
  <2>1. status[d] = "idle" /\ lock[d] = None
    BY <1>1 DEF SelectLocks, LongestIdle, Candidates
  <2>2. \A q \in Requests : ~Holds(q, d)
    BY <2>1 DEF Holds, ReservationInv, HolderStages
  <2>3. ReservationInv'
    BY <1>1, <2>1, <2>2 DEF SelectLocks, ReservationInv, HolderStages, Holds, row
  <2>4. OneHolder'
    BY <1>1, <2>2 DEF SelectLocks, OneHolder, Holds
  <2>5. BusyHasACause'
    BY <1>1 DEF SelectLocks, BusyHasACause, Holds, row
  <2>6. QED BY <2>3, <2>4, <2>5 DEF Reservations
<1>2. CASE SelectFails(r)
  <2>1. dev[r] \in Devices \cup {None} /\ "refused" \in Stages
    BY DEF Stages
  <2>2. QED
    BY <1>2, <2>1, StageMove DEF SelectFails, row, bus, HolderStages, CauseStages
<1>3. CASE SelectCommits(r)
  <2>0. dev[r] \in Devices /\ Holds(r, dev[r]) /\ lock[dev[r]] = r
    BY <1>3 DEF SelectCommits, ReservationInv, Holds
  <2>1. \A q \in Requests : Holds(q, dev[r]) => q = r
    BY <2>0 DEF OneHolder
  <2>2. \A q \in Requests : lock[dev[q]] = q /\ q # r /\ dev[q] \in Devices => dev[q] # dev[r]
    BY <2>0
  <2>3. ReservationInv'
    BY <1>3, <2>0, <2>2 DEF SelectCommits, EndTransaction, ReservationInv, HolderStages
  <2>4. OneHolder'
    BY <1>3 DEF SelectCommits, OneHolder, Holds
  <2>5. BusyHasACause'
    BY <1>3, <2>0 DEF SelectCommits, BusyHasACause, Holds
  <2>6. QED BY <2>3, <2>4, <2>5 DEF Reservations
<1>4. CASE SelectRollsBack(r)
  <2>0. dev[r] \in Devices /\ lock[dev[r]] = r /\ status[dev[r]] = "idle"
    BY <1>4 DEF SelectRollsBack, ReservationInv
  <2>2. \A q \in Requests : lock[dev[q]] = q /\ q # r /\ dev[q] \in Devices => dev[q] # dev[r]
    BY <2>0
  <2>3. ReservationInv'
    BY <1>4, <2>0, <2>2 DEF SelectRollsBack, EndTransaction, ReservationInv, HolderStages, row
  <2>4. OneHolder'
    BY <1>4 DEF SelectRollsBack, OneHolder, Holds
  <2>5. BusyHasACause'
    <3> SUFFICES ASSUME NEW d \in Devices, status'[d] \in {"dialing", "in_call"}
                 PROVE  \E q \in Requests : /\ dev'[q] = d
                                            /\ stage'[q] \in CauseStages
      BY DEF BusyHasACause, Holds, CauseStages, HolderStages
    <3>1. PICK q \in Requests : dev[q] = d /\ stage[q] \in CauseStages
      BY <1>4 DEF SelectRollsBack, row, BusyHasACause, Holds, CauseStages, HolderStages
    <3>2. q # r
      BY <1>4, <2>0, <3>1 DEF SelectRollsBack, row
    <3>3. dev'[q] = d /\ stage'[q] = stage[q]
      BY <1>4, <3>1, <3>2 DEF SelectRollsBack
    <3>4. QED BY <3>1, <3>3
  <2>6. QED BY <2>3, <2>4, <2>5 DEF Reservations
<1>5. QED BY <1>1, <1>2, <1>3, <1>4 DEF Select

(* The writes of the session that holds the device.                        *)
LEMMA HolderWrite ==
  ASSUME FleetInv, NEW r \in Requests, DialCommand(r) \/ PumpWrites(r)
  PROVE  Reservations'
<1> USE DEF FleetInv, SessionType, TableType
<1>0. /\ dev[r] \in Devices /\ Holds(r, dev[r]) /\ stage[r] # "picked"
      /\ lock[dev[r]] = None /\ UNCHANGED <<lock, dev>>
  BY DEF DialCommand, PumpWrites, SetDeviceStatus, Writable, ReservationInv, Holds, bus
<1>1. \A q \in Requests : Holds(q, dev[r]) => q = r
  BY <1>0 DEF OneHolder
<1>2. PICK s \in {"dialing", "idle", "in_call"} :
        /\ status' = [status EXCEPT ![dev[r]] = IF Exists(dev[r]) THEN s ELSE @]
        /\ stage' = [stage EXCEPT ![r] =
              IF s = "dialing" THEN "opening" ELSE IF s = "idle" THEN "hung" ELSE "sending"]
  <2>1. CASE DialCommand(r)
    BY <2>1 DEF DialCommand, SetDeviceStatus
  <2>2. CASE PumpWrites(r)
    BY <2>2 DEF PumpWrites, SetDeviceStatus
  <2>3. QED BY <2>1, <2>2
<1>3. ReservationInv'
  BY <1>0, <1>1, <1>2, FleetAssumption DEF ReservationInv, HolderStages, Holds, Exists
<1>4. OneHolder'
  BY <1>0, <1>2 DEF OneHolder, Holds
<1>5. BusyHasACause'
  BY <1>0, <1>1, <1>2 DEF BusyHasACause, Holds, Exists
<1>6. QED BY <1>3, <1>4, <1>5 DEF Reservations

(* The other steps of a request.                                           *)
LEMMA CallStep ==
  ASSUME FleetInv, NEW r \in Requests, Dial(r) \/ Pump(r) \/ Disconnect(r)
  PROVE  Reservations'
<1> USE DEF row, bus, HolderStages, CauseStages, Stages
<1>1. CASE Connected(r) \/ HangupCommand(r) \/ Disconnect(r)
  BY <1>1, QuietStep DEF Connected, HangupCommand, Disconnect
<1>2. CASE EngineLost(r) \/ DialRejected(r)
  BY <1>2, StageMove DEF EngineLost, DialRejected
<1>3. CASE DialRefused(r) \/ DialIssued(r)
  BY <1>3, StageMove DEF DialRefused, DialIssued
<1>4. CASE AtdAccepted(r) \/ AtdFails(r)
  BY <1>4, StageMove DEF AtdAccepted, AtdFails
<1>5. CASE PumpBreaks(r) \/ PumpCannotSend(r)
  BY <1>5, StageMove DEF PumpBreaks, PumpCannotSend
<1>6. CASE PumpSends(r)
  BY <1>6, StageMove DEF PumpSends
<1>7. CASE StreamFinalized(r)
  BY <1>7, StageMove DEF StreamFinalized
<1>8. CASE DialCommand(r) \/ PumpWrites(r)
  BY <1>8, HolderWrite
<1>9. QED
  BY <1>1, <1>2, <1>3, <1>4, <1>5, <1>6, <1>7, <1>8 DEF Dial, Pump

(* The steps of everyone else.                                             *)
LEMMA OutsideStep ==
  ASSUME FleetInv, ScanStarts \/ \E d \in Devices : LineDrops(d) \/ Table(d)
  PROVE  Reservations'
<1> USE DEF row, bus, request, Statuses, Writable
<1>1. CASE ScanStarts
  BY <1>1, QuietStep DEF ScanStarts
<1>2. ASSUME NEW d \in Devices, LineDrops(d) PROVE Reservations'
  BY <1>2, QuietStep DEF LineDrops
<1>3. ASSUME NEW d \in Devices, Table(d) PROVE Reservations'
  <2>1. CASE TouchLastSeen(d) \/ Heartbeat(d) \/ GoesStale(d) \/ UpdateSim(d)
    BY <2>1, QuietStep DEF TouchLastSeen, Heartbeat, GoesStale, UpdateSim
  <2>2. CASE MarkOffline(d)
    <3>1. CASE Exists(d) BY <2>2, <3>1, TableWrite DEF MarkOffline
    <3>2. CASE ~Exists(d) BY <2>2, <3>2, TableNoWrite DEF MarkOffline
    <3>3. QED BY <3>1, <3>2
  <2>3. CASE Watchdog(d)
    BY <2>3, TableWrite DEF Watchdog
  <2>4. CASE ScanDevice(d)
    <3>1. CASE d \in Unhealthy /\ Exists(d) BY <2>4, <3>1, TableWrite DEF ScanDevice
    <3>2. CASE ~(d \in Unhealthy /\ Exists(d)) BY <2>4, <3>2, TableNoWrite DEF ScanDevice
    <3>3. QED BY <3>1, <3>2
  <2>5. CASE CreateDevice(d)
    BY <2>5, TableWrite DEF CreateDevice
  <2>6. ASSUME NEW s \in {"gone", "idle", "flagged"}, UpdateDevice(d, s) PROVE Reservations'
    BY <2>6, TableWrite DEF UpdateDevice
  <2>7. QED
    BY <1>3, <2>1, <2>2, <2>3, <2>4, <2>5, <2>6 DEF Table, OnEvent, DeleteDevice
<1>4. QED BY <1>1, <1>2, <1>3

(* Every step keeps FleetInv.                                              *)
LEMMA NextFleetInv == FleetInv /\ [Next]_vars => FleetInv'
<1> SUFFICES ASSUME FleetInv, [Next]_vars PROVE FleetInv'
  OBVIOUS
<1>1. ASSUME NEW r \in Requests, Select(r) \/ Dial(r) \/ Pump(r) \/ Disconnect(r)
      PROVE  FleetInv'
  <2>1. TableType' /\ RankType' /\ SessionType' /\ ModemType'
    BY <1>1, RequestKeepsTableType, RequestKeepsSessionType
  <2>2. Reservations'
    BY <1>1, SelectStep, CallStep
  <2>3. QED BY <2>1, <2>2 DEF FleetInv, Reservations
<1>2. CASE ScanStarts \/ \E d \in Devices : LineDrops(d) \/ Table(d)
  <2>1. TableType' /\ RankType' /\ SessionType' /\ ModemType'
    BY <1>2, OutsideKeepsTypes
  <2>2. Reservations'
    BY <1>2, OutsideStep
  <2>3. QED BY <2>1, <2>2 DEF FleetInv, Reservations
<1>3. CASE UNCHANGED vars
  <2>1. Reservations'
    BY <1>3, QuietStep DEF vars, row, bus, request
  <2>2. TableType' /\ RankType' /\ SessionType' /\ ModemType'
    BY <1>3 DEF vars, row, bus, request, modem, scans, FleetInv, TableType, RankType,
                SessionType, ModemType
  <2>3. QED BY <2>1, <2>2 DEF FleetInv, Reservations
<1>4. QED BY <1>1, <1>2, <1>3 DEF Next

(* FleetInv holds in every state, for any number of devices, requests and  *)
(* upsets.                                                                 *)
THEOREM FleetInvariant == Spec => []FleetInv
BY InitFleetInv, NextFleetInv, PTL DEF Spec

(* Every variable keeps its type; last_call_at never ranks higher than the *)
(* number of requests.                                                     *)
THEOREM FleetTypeCorrect == Spec => []TypeOK
<1>1. FleetInv => TypeOK
  BY DEF FleetInv, TableType, RankType, SessionType, ModemType, TypeOK
<1>2. QED BY <1>1, FleetInvariant, PTL

(* /select never hands out a device that another session still has,        *)
(* whatever the watcher, the scan, the watchdog and the operators write.   *)
THEOREM DeviceHasOneHolder == Spec => []OneHolder
<1>1. FleetInv => OneHolder
  BY DEF FleetInv
<1>2. QED BY <1>1, FleetInvariant, PTL

(* A device that is busy without a session was left so by one that the     *)
(* engine abandoned or whose dial was refused.                             *)
THEOREM BusyIsExplained == Spec => []BusyHasACause
<1>1. FleetInv => BusyHasACause
  BY DEF FleetInv
<1>2. QED BY <1>1, FleetInvariant, PTL

=============================================================================
