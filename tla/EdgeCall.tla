------------------------------ MODULE EdgeCall ------------------------------
(***************************************************************************)
(* The life of a call on the edge: EdgeOrchestrator                        *)
(* (edge/orchestrator.py) driving the one modem through SerialATClient     *)
(* (modem_controller/at_client.py).                                        *)
(*                                                                         *)
(* Everything runs on one asyncio loop; a step is the code between two     *)
(* suspension points.  The cloud callback is awaited by the link's reader, *)
(* so at most one DialCommand or CancelCommand is being handled; each      *)
(* accepted dial has an event pump task of its own, which runs             *)
(* concurrently with the callback, the +CLCC poller and the URC tasks.     *)
(*                                                                         *)
(* An attempt is one ATD: the number of the ATD stands for the modem call  *)
(* id.  The cloud may dial one of its call ids more than once.             *)
(***************************************************************************)
EXTENDS Integers, Sequences, FiniteSets

CONSTANTS
  Calls,        \* call ids the cloud uses
  MaxDials,     \* bound: number of ATDs
  MaxQueue,     \* bound: undelivered events in a call's queue
  MaxUrcs,      \* bound: hangup URCs read from the modem, not dispatched
  MaxLaunches,  \* bound: starts of the process
  MaxSwaps      \* bound: token swaps (the Windows app restarts the link)

ASSUME CallAssumption ==
  /\ MaxDials \in Nat /\ MaxQueue \in Nat /\ MaxUrcs \in Nat
  /\ MaxLaunches \in Nat /\ MaxSwaps \in Nat

Attempts == 1..MaxDials
None == 0

VARIABLES
  daemon,      \* "up", "stopping" (orchestrator.stop), "closing", "down"
  launches,    \* number of starts of the process
  stopKeys,    \* calls stop() has still to visit
  stopping,    \* attempt stop() is tearing down
  handler,     \* the cloud callback: "idle", "dialing" or "hanging"
  handling,    \* ... and for which attempt
  linkUp,      \* the cloud link is connected
  swaps,       \* token swaps so far
  callOf,      \* the call id of each attempt so far, one per ATD
  calls,       \* _calls: the attempt behind each call id
  slot,        \* _active_call_id of the AT client
  polling,     \* _poller_task is running (for slot)
  queue,       \* the event queue of each attempt
  pump,        \* where each attempt's event pump is suspended
  held,        \* what the attempt's context holds
  terminated,  \* attempts whose context is marked terminated
  leg,         \* each attempt's line, as the modem has it
  modemPcm,    \* the modem's PCM stream is on (CPCMREG)
  urcs,        \* hangup URCs on their way to _on_urc
  sent,        \* history: what the cloud was told about each attempt
  fault        \* what went wrong while the attempt's call connected

procVars == <<daemon, launches, stopKeys, stopping>>
cloudVars == <<handler, handling, linkUp, swaps>>
atVars == <<slot, polling, queue>>
modemVars == <<leg, modemPcm, urcs>>
ctxVars == <<calls, pump, held, terminated>>
histVars == <<callOf, sent, fault>>
vars == <<procVars, cloudVars, atVars, modemVars, ctxVars, histVars>>

Running == daemon # "down"
LegUp(a) == leg[a] \in {"ringing", "active"}
InCalls(a) == \E c \in Calls : calls[c] = a

-----------------------------------------------------------------------------
(* Effects several operations share                                        *)

Tell(a, event) == sent' = [sent EXCEPT ![a] = Append(@, event)]

Forget(a) == calls' = [c \in Calls |-> IF calls[c] = a THEN None ELSE calls[c]]

(* _reset_call_state().                                                    *)
FreeSlot == slot' = None /\ polling' = FALSE

Drained(a) == queue' = [queue EXCEPT ![a] = <<>>]

(* Mutant: PCM is only disabled by a call that joined RTC.                 *)
StageWithoutRtcKeepsPcm(h, then) == IF "rtc" \in h THEN "leaving" ELSE then

(* teardown() up to its first suspension: it leaves RTC when the bridge    *)
(* joined, then finalizes the recording, then sends CPCMREG=0 when PCM was *)
(* enabled.  `then` is where the caller goes on.                           *)
Stage(h, then) ==
  IF "rtc" \in h THEN "leaving" ELSE IF "pcm" \in h THEN "disabling" ELSE then

Teardown(a, then) ==
  /\ pump' = [pump EXCEPT ![a] = Stage(held[a], then)]
  /\ held' = IF "rtc" \in held[a] THEN held
             ELSE [held EXCEPT ![a] = @ \ {"recording"}]

(* Only the pump whose RTC join failed goes on waiting after teardown().   *)
AfterTeardown(a) == IF fault[a] = "join" THEN "waiting" ELSE "ended"

(* _handle_remote_hangup().                                                *)
RemoteHangup(a, then) ==
  /\ terminated' = terminated \union {a}
  /\ Tell(a, "remote_hangup") /\ Forget(a) /\ Teardown(a, then)

(* ATH: the modem drops every line, perhaps with a NO CARRIER for it, or   *)
(* the command fails.                                                      *)
HangUpLine ==
  \/ UNCHANGED <<leg, urcs>>
  \/ /\ leg' = [b \in Attempts |-> "none"]
     /\ \/ urcs' = urcs
        \/ urcs < MaxUrcs /\ (\E b \in Attempts : LegUp(b)) /\ urcs' = urcs + 1

(* The callback is cancelled while its AT command is on the wire: the      *)
(* modem carries it out or not, and what the code does after it is lost.   *)
CutShort ==
  /\ \/ leg' = leg
     \/ handler = "dialing" /\ leg' = [leg EXCEPT ![handling] = "ringing"]
     \/ handler = "hanging" /\ leg' = [a \in Attempts |-> "none"]
  /\ handler' = "idle" /\ handling' = None

Post(a, event) == queue' = [queue EXCEPT ![a] = Append(@, event)]

-----------------------------------------------------------------------------
(* Cloud callback: _on_dial, _on_cancel                                    *)

MayHandle == Running /\ handler = "idle" /\ linkUp /\ daemon # "closing"

(* The call id has a context, or (dial() raises) the AT client has an      *)
(* active call: only a DialAck goes out.                                   *)
DialDuplicate(c) == MayHandle /\ calls[c] # None /\ UNCHANGED vars
DialRefused(c) ==
  MayHandle /\ calls[c] = None /\ slot # None /\ UNCHANGED vars

(* Mutant: no look at _calls before dialling.                              *)
DialIssuedTwice(c) ==
  /\ MayHandle /\ slot = None /\ Len(callOf) < MaxDials
  /\ callOf' = Append(callOf, c)
  /\ slot' = Len(callOf')
  /\ handler' = "dialing" /\ handling' = Len(callOf')
  /\ UNCHANGED <<procVars, linkUp, swaps, polling, queue>>
  /\ UNCHANGED <<modemVars, ctxVars, sent, fault>>

(* The slot is taken and ATD is written; the callback waits for its reply. *)
DialIssued(c) ==
  /\ MayHandle /\ calls[c] = None /\ slot = None /\ Len(callOf) < MaxDials
  /\ callOf' = Append(callOf, c)
  /\ slot' = Len(callOf')
  /\ handler' = "dialing" /\ handling' = Len(callOf')
  /\ UNCHANGED <<procVars, linkUp, swaps, polling, queue>>
  /\ UNCHANGED <<modemVars, ctxVars, sent, fault>>

(* What _on_dial does once dial() returned: context, DialAck, pump task.   *)
Accepted(a) ==
  /\ calls' = [calls EXCEPT ![callOf[a]] = a]
  /\ Tell(a, "ack")
  /\ pump' = [pump EXCEPT ![a] = "waiting"]
  /\ handler' = "idle" /\ handling' = None
  /\ UNCHANGED <<procVars, linkUp, swaps, held, terminated>>
  /\ UNCHANGED <<callOf, fault, modemPcm, urcs>>

(* ATD answered OK: the poller starts, events come from the queue.         *)
DialSucceeds ==
  /\ handler = "dialing" /\ Accepted(handling)
  /\ leg' = [leg EXCEPT ![handling] = "ringing"]
  /\ polling' = TRUE
  /\ UNCHANGED <<slot, queue>>

(* ATD failed or timed out: the slot is free at once and the events are    *)
(* one remote_hangup.  After a timeout the modem may be dialling all the   *)
(* same.                                                                   *)
DialFails(onLine) ==
  /\ handler = "dialing" /\ Accepted(handling)
  /\ leg' = IF onLine THEN [leg EXCEPT ![handling] = "ringing"] ELSE leg
  /\ queue' = [queue EXCEPT ![handling] = <<"remote_hangup">>]
  /\ FreeSlot

(* hangup() is a no-op for a modem call id that is not the active one.     *)
CancelIgnored(c) ==
  /\ MayHandle /\ (calls[c] = None \/ slot # calls[c])
  /\ UNCHANGED vars

(* Mutant: hangup() does not look at the active modem call id.             *)
CancelIssuedBlindly(c) ==
  /\ MayHandle /\ calls[c] # None /\ Len(queue[calls[c]]) <= MaxQueue
  /\ handler' = "hanging" /\ handling' = calls[c]
  /\ UNCHANGED <<procVars, linkUp, swaps, atVars, modemVars, ctxVars>>
  /\ UNCHANGED histVars

(* ... and otherwise sends ATH.                                            *)
CancelIssued(c) ==
  /\ MayHandle /\ calls[c] # None /\ slot = calls[c]
  /\ Len(queue[slot]) < MaxQueue
  /\ handler' = "hanging" /\ handling' = calls[c]
  /\ UNCHANGED <<procVars, linkUp, swaps, atVars, modemVars, ctxVars>>
  /\ UNCHANGED <<callOf, sent, fault>>

(* Mutant: manual_hangup is left to the modem's URC.                       *)
CancelDoneSilently ==
  /\ handler = "hanging"
  /\ HangUpLine /\ queue' = queue
  /\ handler' = "idle" /\ handling' = None
  /\ UNCHANGED <<procVars, linkUp, swaps, slot, polling, modemPcm>>
  /\ UNCHANGED <<ctxVars, histVars>>

(* ATH was answered or failed: manual_hangup goes on the call's queue.     *)
CancelDone ==
  /\ handler = "hanging"
  /\ HangUpLine /\ Post(handling, "remote_hangup")
  /\ handler' = "idle" /\ handling' = None
  /\ UNCHANGED <<procVars, linkUp, swaps, slot, polling, modemPcm>>
  /\ UNCHANGED <<ctxVars, histVars>>

-----------------------------------------------------------------------------
(* The event pump: _pump_at_events, _handle_connected, teardown            *)

Event(a, event) ==
  /\ Running /\ pump[a] = "waiting" /\ queue[a] # <<>>
  /\ Head(queue[a]) = event
  /\ queue' = [queue EXCEPT ![a] = Tail(@)]

PumpUnchanged == UNCHANGED <<procVars, cloudVars, slot, polling>>

(* CallEvent(connected), then AT+CPCMREG=1.  A second connected of the     *)
(* same call is dropped by the event stream.                               *)
PumpConnected(a) ==
  /\ Event(a, "connected")
  /\ Tell(a, "connected")
  /\ pump' = [pump EXCEPT ![a] = "enabling"]
  /\ PumpUnchanged
  /\ UNCHANGED <<modemVars, calls, held, terminated>>
  /\ UNCHANGED <<callOf, fault>>

(* cpcmreg_enable(): sent again after a reset when it fails; when that     *)
(* fails too, it may still have worked after the timeout.                  *)
CpcmregEnable(ok) == modemPcm' \in IF ok THEN {TRUE} ELSE BOOLEAN

(* PCM is on, recording begins unless the disk is full; RTC join starts.   *)
PcmEnabled(a, record) ==
  /\ Running /\ pump[a] = "enabling"
  /\ CpcmregEnable(TRUE)
  /\ held' = [held EXCEPT ![a] = IF record THEN {"pcm", "recording"} ELSE {"pcm"}]
  /\ pump' = [pump EXCEPT ![a] = "joining"]
  /\ PumpUnchanged
  /\ UNCHANGED <<queue, leg, urcs, calls, terminated, histVars>>

(* PcmEnableError.  The HardwareAlert is critical: with the link down its  *)
(* send() raises, the pump falls into its except and finally clauses and   *)
(* skips the rest.                                                         *)
PcmFails(a) ==
  /\ Running /\ pump[a] = "enabling"
  /\ CpcmregEnable(FALSE)
  /\ fault' = [fault EXCEPT ![a] = "pcm"]
  /\ IF linkUp
     THEN RemoteHangup(a, "hanging")
     ELSE /\ Forget(a) /\ Teardown(a, "ended")
          /\ UNCHANGED <<terminated, sent>>
  /\ PumpUnchanged
  /\ UNCHANGED <<queue, leg, urcs, callOf>>

(* ... the best-effort ATH after the alert.                                *)
PumpHungUp(a) ==
  /\ Running /\ pump[a] = "hanging"
  /\ HangUpLine /\ Post(a, "remote_hangup")
  /\ pump' = [pump EXCEPT ![a] = "waiting"]
  /\ PumpUnchanged
  /\ UNCHANGED <<modemPcm, calls, held, terminated, histVars>>

(* PCM is on but building the audio path raised (no RTC session, no        *)
(* recording directory): the pump's finally clause tears down.             *)
PumpRaises(a) ==
  /\ Running /\ pump[a] = "enabling"
  /\ CpcmregEnable(TRUE)
  /\ fault' = [fault EXCEPT ![a] = "raised"]
  /\ Forget(a)
  /\ pump' = [pump EXCEPT ![a] = "disabling"]
  /\ held' = [held EXCEPT ![a] = {"pcm"}]
  /\ PumpUnchanged
  /\ UNCHANGED <<queue, leg, urcs, terminated, callOf, sent>>

(* RTC joined: bridge tasks and audio pumps run, the pump takes events.    *)
Joined(a) ==
  /\ Running /\ pump[a] = "joining"
  /\ held' = [held EXCEPT ![a] = @ \union {"rtc", "audio"}]
  /\ pump' = [pump EXCEPT ![a] = "waiting"]
  /\ PumpUnchanged
  /\ UNCHANGED <<queue, modemVars, calls, terminated, histVars>>

(* RTC join failed: reported as a hangup; the pump goes back to waiting    *)
(* for events of a line that is still up.                                  *)
JoinFails(a) ==
  /\ Running /\ pump[a] = "joining"
  /\ fault' = [fault EXCEPT ![a] = "join"]
  /\ RemoteHangup(a, "waiting")
  /\ PumpUnchanged
  /\ UNCHANGED <<queue, modemVars, callOf>>

(* Mutants: no look at `terminated`; no return for a terminated call.      *)
PumpHangupAgain(a) ==
  /\ Event(a, "remote_hangup") /\ RemoteHangup(a, "ended")
  /\ PumpUnchanged
  /\ UNCHANGED <<modemVars, callOf, fault>>
PumpHangupNoReturn(a) ==
  /\ Event(a, "remote_hangup")
  /\ IF a \in terminated
     THEN UNCHANGED <<pump, calls, held, terminated, sent>>
     ELSE RemoteHangup(a, "ended")
  /\ PumpUnchanged
  /\ UNCHANGED <<modemVars, callOf, fault>>

(* A remote_hangup event ends the pump.                                    *)
PumpHangup(a) ==
  /\ Event(a, "remote_hangup")
  /\ IF a \in terminated
     THEN /\ pump' = [pump EXCEPT ![a] = "ended"]
          /\ UNCHANGED <<calls, held, terminated, sent>>
     ELSE RemoteHangup(a, "ended")
  /\ PumpUnchanged
  /\ UNCHANGED <<modemVars, callOf, fault>>

(* teardown(): the audio tasks are cancelled and the bridge has left RTC;  *)
(* the recording is finalized.                                             *)
Left(a) ==
  /\ Running /\ pump[a] = "leaving"
  /\ held' = [held EXCEPT ![a] = @ \intersect {"pcm"}]
  /\ pump' = [pump EXCEPT ![a] = Stage(held'[a], AfterTeardown(a))]
  /\ PumpUnchanged
  /\ UNCHANGED <<queue, modemVars, calls, terminated, histVars>>

(* AT+CPCMREG=0 returned; its failure is only logged.                      *)
PcmDisabled(a) ==
  /\ Running /\ pump[a] = "disabling"
  /\ modemPcm' \in {modemPcm, FALSE}
  /\ held' = [held EXCEPT ![a] = {}]
  /\ pump' = [pump EXCEPT ![a] = AfterTeardown(a)]
  /\ PumpUnchanged
  /\ UNCHANGED <<queue, leg, urcs, calls, terminated, histVars>>

-----------------------------------------------------------------------------
(* The AT client's own tasks                                               *)

(* +CLCC lists an active line, whoever dialled it.                         *)
ClccHasActiveCall == \E b \in Attempts : leg[b] = "active"

PollSeesActive ==
  /\ Running /\ polling /\ ClccHasActiveCall
  /\ Post(slot, "connected") /\ polling' = FALSE
  /\ UNCHANGED <<procVars, cloudVars, slot, modemVars, ctxVars, histVars>>

(* Mutant: hangups before `connected` are ignored.                         *)
UrcIgnoredWhilePolling ==
  /\ Running /\ urcs > 0
  /\ urcs' = urcs - 1
  /\ IF slot # None /\ ~polling
     THEN Len(queue[slot]) < MaxQueue /\ Post(slot, "remote_hangup")
     ELSE queue' = queue
  /\ UNCHANGED <<procVars, cloudVars, slot, polling, leg, modemPcm>>
  /\ UNCHANGED <<ctxVars, histVars>>

(* _on_urc: the URC belongs to whichever call has the slot now.            *)
UrcDispatched ==
  /\ Running /\ urcs > 0
  /\ urcs' = urcs - 1
  /\ IF slot # None
     THEN Len(queue[slot]) < MaxQueue /\ Post(slot, "remote_hangup")
     ELSE queue' = queue
  /\ UNCHANGED <<procVars, cloudVars, slot, polling, leg, modemPcm>>
  /\ UNCHANGED <<ctxVars, histVars>>

(* Mutant: the slot is free as soon as the hangup was reported.            *)
SlotFreedEarly ==
  /\ Running /\ slot # None
  /\ pump[slot] \in {"leaving", "disabling", "ended"}
  /\ FreeSlot /\ Drained(slot)
  /\ UNCHANGED <<procVars, cloudVars, modemVars, ctxVars, histVars>>

(* The pump task of the call in the slot is over: the event stream it left *)
(* behind is finalized, and its finally clause frees the slot.             *)
StreamFinalized ==
  /\ Running /\ slot # None
  /\ pump[slot] = "ended" \/ stopping = slot
  /\ FreeSlot /\ Drained(slot)
  /\ UNCHANGED <<procVars, cloudVars, modemVars, ctxVars, histVars>>

-----------------------------------------------------------------------------
(* The modem and the network, as the client sees them                      *)

Answered(a) ==
  /\ leg[a] = "ringing"
  /\ leg' = [leg EXCEPT ![a] = "active"]
  /\ UNCHANGED <<procVars, cloudVars, atVars, modemPcm, urcs, ctxVars, histVars>>

(* The line drops (NO CARRIER, BUSY, NO ANSWER): the URC reaches the       *)
(* process if there is one.                                                *)
LineDrops(a) ==
  /\ LegUp(a)
  /\ leg' = [leg EXCEPT ![a] = "none"]
  /\ IF Running THEN urcs < MaxUrcs /\ urcs' = urcs + 1 ELSE urcs' = urcs
  /\ UNCHANGED <<procVars, cloudVars, atVars, modemPcm, ctxVars, histVars>>

LinkFlips ==
  /\ Running /\ linkUp' = ~linkUp
  /\ UNCHANGED <<procVars, handler, handling, swaps>>
  /\ UNCHANGED <<atVars, modemVars, ctxVars, histVars>>

(* The Windows app swaps the token: CloudEdgeGrpcClient.stop() cancels the *)
(* connect task, and with it the callback it is awaiting.                  *)
TokenSwapped ==
  /\ daemon = "up" /\ swaps < MaxSwaps /\ handler # "idle"
  /\ swaps' = swaps + 1
  /\ CutShort
  /\ UNCHANGED <<procVars, linkUp, atVars, modemPcm, urcs, ctxVars, histVars>>

-----------------------------------------------------------------------------
(* Process life                                                            *)

(* stop() takes a snapshot of the call ids.                                *)
StopBegins ==
  /\ daemon = "up"
  /\ daemon' = "stopping" /\ stopKeys' = {c \in Calls : calls[c] # None}
  /\ UNCHANGED <<launches, stopping, cloudVars, atVars, modemVars, ctxVars>>
  /\ UNCHANGED histVars

StopFree ==
  daemon = "stopping" /\ (stopping # None => pump[stopping] = "ended")

(* For each of them: pop the context, cancel its pump and tear down.  A    *)
(* pump cancelled while it waits for an event frees the slot on its way;   *)
(* one cancelled behind AT+CPCMREG=1 may leave the modem's PCM on.         *)
StopCall(c) ==
  /\ StopFree /\ c \in stopKeys
  /\ stopKeys' = stopKeys \ {c}
  /\ LET a == calls[c]
     IN  IF a = None
         THEN /\ UNCHANGED <<stopping, calls, pump, held, slot, polling, queue>>
              /\ modemPcm' = modemPcm
         ELSE /\ modemPcm' \in {modemPcm, modemPcm \/ pump[a] = "enabling"}
              /\ stopping' = a /\ Forget(a) /\ Teardown(a, "ended")
              /\ IF pump[a] = "waiting" /\ slot = a THEN FreeSlot /\ Drained(a)
                 ELSE UNCHANGED <<slot, polling, queue>>
  /\ UNCHANGED <<daemon, launches, cloudVars, leg, urcs, terminated>>
  /\ UNCHANGED histVars

(* stop() returns; grpc_client.stop() cancels the callback.                *)
StopReturns ==
  /\ StopFree /\ stopKeys = {}
  /\ daemon' = "closing" /\ CutShort
  /\ UNCHANGED <<launches, stopKeys, stopping, linkUp, swaps>>
  /\ UNCHANGED <<atVars, modemPcm, urcs, ctxVars, histVars>>

(* The process is gone, with every task and context; the modem keeps its   *)
(* lines and its PCM state.                                                *)
ProcessGone ==
  /\ daemon' = "down" /\ stopKeys' = {} /\ stopping' = None
  /\ CutShort /\ FreeSlot
  /\ queue' = [a \in Attempts |-> <<>>]
  /\ calls' = [c \in Calls |-> None]
  /\ pump' = [a \in Attempts |->
                IF pump[a] \in {"none", "ended"} THEN pump[a] ELSE "killed"]
  /\ held' = [a \in Attempts |-> {}]
  /\ urcs' = 0
  /\ UNCHANGED <<launches, linkUp, swaps, modemPcm>>
  /\ UNCHANGED <<terminated, histVars>>

Exit == daemon = "closing" /\ ProcessGone
Crash == Running /\ daemon # "closing" /\ ProcessGone

(* Detecting and initialising the modem hangs nothing up.                  *)
Launch ==
  /\ daemon = "down" /\ launches < MaxLaunches
  /\ daemon' = "up" /\ launches' = launches + 1
  /\ UNCHANGED <<stopKeys, stopping, cloudVars, atVars, modemVars, ctxVars>>
  /\ UNCHANGED histVars

-----------------------------------------------------------------------------
Init ==
  /\ daemon = "up" /\ launches = 1 /\ stopKeys = {} /\ stopping = None
  /\ handler = "idle" /\ handling = None /\ linkUp = TRUE /\ swaps = 0
  /\ slot = None /\ polling = FALSE /\ queue = [a \in Attempts |-> <<>>]
  /\ leg = [a \in Attempts |-> "none"] /\ modemPcm = FALSE /\ urcs = 0
  /\ calls = [c \in Calls |-> None]
  /\ pump = [a \in Attempts |-> "none"]
  /\ held = [a \in Attempts |-> {}] /\ terminated = {}
  /\ callOf = <<>>
  /\ sent = [a \in Attempts |-> <<>>]
  /\ fault = [a \in Attempts |-> "none"]

CloudStep ==
  \/ \E c \in Calls : \/ DialDuplicate(c) \/ DialRefused(c) \/ DialIssued(c)
                      \/ CancelIgnored(c) \/ CancelIssued(c)
  \/ LinkFlips \/ TokenSwapped

HandlerStep ==
  DialSucceeds \/ (\E onLine \in BOOLEAN : DialFails(onLine)) \/ CancelDone

PumpStep(a) ==
  \/ PumpConnected(a) \/ PumpHangup(a) \/ PumpHungUp(a)
  \/ (\E record \in BOOLEAN : PcmEnabled(a, record))
  \/ PcmFails(a) \/ PumpRaises(a) \/ Joined(a) \/ JoinFails(a)
  \/ Left(a) \/ PcmDisabled(a)

StopStep == StopReturns \/ (\E c \in Calls : StopCall(c))

Next ==
  \/ CloudStep \/ HandlerStep
  \/ \E a \in Attempts : PumpStep(a) \/ Answered(a) \/ LineDrops(a)
  \/ PollSeesActive \/ UrcDispatched \/ StreamFinalized
  \/ StopBegins \/ StopStep \/ Exit \/ Crash \/ Launch

Spec == Init /\ [][Next]_vars

(* The event loop resumes every coroutine whose wait is over: AT commands  *)
(* and RTC joins have timeouts, queued events wake their reader.           *)
TaskFairness ==
  /\ WF_vars(HandlerStep) /\ WF_vars(PollSeesActive)
  /\ WF_vars(UrcDispatched) /\ WF_vars(StreamFinalized)
  /\ WF_vars(StopStep) /\ WF_vars(Exit)
  /\ \A a \in Attempts : WF_vars(PumpStep(a))

(* The environment's part: no line stays up for ever.                      *)
LinesEnd == \A a \in Attempts : WF_vars(LineDrops(a))

FairSpec == Spec /\ TaskFairness /\ LinesEnd

-----------------------------------------------------------------------------
(* Properties                                                              *)

Resources == {"pcm", "recording", "rtc", "audio"}
PumpStates == {"none", "waiting", "enabling", "joining", "leaving",
               "disabling", "hanging", "ended", "killed"}
CallEvents == {"ack", "connected", "remote_hangup"}
Slots == Attempts \union {None}

(* Every variable keeps its type.                                          *)
TypeOK ==
  /\ daemon \in {"up", "stopping", "closing", "down"} /\ launches \in Nat
  /\ stopKeys \subseteq Calls /\ stopping \in Slots
  /\ handler \in {"idle", "dialing", "hanging"} /\ handling \in Slots
  /\ linkUp \in BOOLEAN /\ swaps \in Nat
  /\ slot \in Slots /\ polling \in BOOLEAN
  /\ queue \in [Attempts -> Seq({"connected", "remote_hangup"})]
  /\ leg \in [Attempts -> {"none", "ringing", "active"}]
  /\ modemPcm \in BOOLEAN /\ urcs \in Nat
  /\ calls \in [Calls -> Slots]
  /\ pump \in [Attempts -> PumpStates]
  /\ held \in [Attempts -> SUBSET Resources] /\ terminated \subseteq Attempts
  /\ callOf \in Seq(Calls) /\ Len(callOf) <= MaxDials
  /\ sent \in [Attempts -> Seq(CallEvents)]
  /\ fault \in [Attempts -> {"none", "pcm", "join", "raised"}]

(* What the cloud hears about a call is DialAck, then at most one          *)
(* connected, then at most one remote_hangup, and nothing after it, also   *)
(* when cancel, URC and failure paths race to end the call.                *)
EventsInOrder ==
  \A a \in Attempts :
    \E conn \in {<<>>, <<"connected">>}, hang \in {<<>>, <<"remote_hangup">>} :
      sent[a] \in {<<>>, <<"ack">> \o conn \o hang}

(* One call at a time has the audio path, and the modem's PCM stream is on *)
(* while it does: the end of an old call never cuts the audio of the next. *)
AudioExclusive ==
  daemon = "up" =>
    \A a \in Attempts :
      /\ "audio" \in held[a] => modemPcm
      /\ held[a] # {} => \A b \in Attempts \ {a} : held[b] = {}

(* A pump that is over, however it ended, left nothing behind: no RTC      *)
(* session, recording or PCM stream, and no context.                       *)
ReleasedAtEnd ==
  \A a \in Attempts : pump[a] = "ended" => held[a] = {} /\ ~InCalls(a)

(* ATD is under way for the attempt, or its pump runs.                     *)
Busy(a) ==
  \/ handler = "dialing" /\ handling = a
  \/ pump[a] \notin {"none", "ended", "killed"}

(* A repeated DialCommand never starts a second attempt while the first is *)
(* being processed (until stop() begins: a pump it cancels frees the slot  *)
(* before the call is torn down).                                          *)
OneAttemptPerCall ==
  \A a, b \in 1..Len(callOf) :
    daemon = "up" /\ Busy(a) /\ Busy(b) /\ callOf[a] = callOf[b] => a = b

(* ATH drops whatever is on the line.  While one call's hangup is under    *)
(* way no other call can have taken the modem.                             *)
HangupHitsItsOwnCall ==
  /\ handler = "hanging" => slot \in {handling, None}
  /\ \A a \in Attempts : pump[a] = "hanging" => slot = a

(* The modem does not stay reserved: every call that takes the slot gives  *)
(* it back, once its line is down.                                         *)
SlotFreed == \A a \in Attempts : slot = a ~> slot # a

(* An acknowledged call is followed by a remote_hangup, unless connecting  *)
(* it failed or the process ended.                                         *)
CallSettles ==
  \A a \in Attempts :
    sent[a] # <<>> ~> \/ terminated \intersect {a} # {}
                      \/ fault[a] # "none" \/ daemon # "up"

(* A cancel that reached the modem ends the call it named.                 *)
CancelEndsCall ==
  \A a \in Attempts : handler = "hanging" /\ handling = a ~> ~InCalls(a)
=============================================================================
