--------------------------- MODULE EdgeCallProofs ---------------------------
(***************************************************************************)
(* Theorems about EdgeCall, for any call ids, number of dials and bounds:  *)
(* type correctness, the order of what the cloud hears, one audio path at  *)
(* a time, nothing left behind by a call that is over, one attempt per     *)
(* call, and hangups that hit their own call.                              *)
(***************************************************************************)
EXTENDS EdgeCall, SequenceTheorems, TLAPS

(* What the cloud may have heard about a call.                             *)
Acked == <<"ack">>
Talking == Append(Acked, "connected")
Dropped == Append(Acked, "remote_hangup")
Ended == Append(Talking, "remote_hangup")

(* A "connected" is waiting in the queue; no more than one is.             *)
Pending(q) == \E i \in 1 .. Len(q) : q[i] = "connected"
Once(q) ==
  \A i, j \in 1 .. Len(q) : q[i] = "connected" /\ q[j] = "connected" => i = j

(* What an attempt tells the cloud follows its pump and its context.       *)
SentInv ==
  \A a \in Attempts :
    /\ pump[a] = "none" => sent[a] = <<>> /\ a \notin terminated
    /\ pump[a] # "none" =>
         sent[a] \in IF a \in terminated THEN {Dropped, Ended} ELSE {Acked, Talking}
    /\ pump[a] \in {"enabling", "joining"} => sent[a] = Talking

(* What a context holds follows the pump: PCM first, RTC and audio last.   *)
HeldInv ==
  \A a \in Attempts :
    /\ pump[a] \in {"none", "enabling", "hanging", "ended", "killed"} => held[a] = {}
    /\ pump[a] = "waiting" /\ (a \in terminated \/ sent[a] = Acked) => held[a] = {}
    /\ pump[a] = "disabling" => held[a] = {"pcm"}
    /\ pump[a] = "joining" => "pcm" \in held[a] /\ held[a] \subseteq {"pcm", "recording"}
    /\ held[a] # {} => "pcm" \in held[a]
    /\ "audio" \in held[a] => "rtc" \in held[a]
    /\ pump[a] = "leaving" => "rtc" \in held[a]

(* At most one "connected" per attempt is on its way, and only while the   *)
(* call has the slot and the cloud has not heard it yet.                   *)
QueueInv ==
  /\ \A a \in Attempts :
       pump[a] \notin {"ended", "killed"} =>
         /\ Once(queue[a])
         /\ Pending(queue[a]) => sent[a] = Acked /\ slot = a /\ ~polling
  /\ polling =>
       /\ slot # None /\ pump[slot] \in {"waiting", "ended"}
       /\ pump[slot] = "waiting" => sent[slot] = Acked

(* Contexts, the slot and the callback.                                    *)
SlotInv ==
  /\ \A c \in Calls : calls[c] # None =>
       /\ pump[calls[c]] \in {"waiting", "enabling", "joining"}
       /\ callOf[calls[c]] = c /\ calls[c] \notin terminated /\ fault[calls[c]] = "none"
  /\ \A a \in Attempts : pump[a] \in {"enabling", "joining", "hanging"} => slot = a
  /\ \A a \in Attempts : pump[a] = "none" => fault[a] = "none"
  /\ \A a \in Attempts : pump[a] # "none" => a =< Len(callOf)
  /\ handler = "dialing" =>
       /\ handling \in 1 .. Len(callOf) /\ slot = handling /\ pump[handling] = "none"
       /\ calls[callOf[handling]] = None
  /\ handler = "hanging" => handling # None /\ slot \in {handling, None}

(* stop() tears down one call at a time; a process that is down has no     *)
(* task left.                                                              *)
StopInv ==
  /\ stopping # None =>
       /\ daemon \in {"stopping", "closing"} /\ fault[stopping] = "none"
       /\ pump[stopping] \in {"leaving", "disabling", "ended"}
  /\ daemon = "down" =>
       /\ handler = "idle" /\ slot = None /\ ~polling
       /\ \A a \in Attempts : pump[a] \in {"none", "ended", "killed"}

(* While the process is up, whoever holds audio has the slot, PCM is on    *)
(* for it, and an attempt that runs has the slot or its context.           *)
UpInv ==
  daemon = "up" =>
    \A a \in Attempts :
      /\ held[a] # {} => slot = a
      /\ pump[a] = "joining" \/ "audio" \in held[a] => modemPcm
      /\ pump[a] \notin {"none", "ended", "killed"} => slot = a \/ calls[callOf[a]] = a

CallInv ==
  /\ TypeOK /\ SentInv /\ HeldInv /\ QueueInv /\ SlotInv /\ StopInv /\ UpInv
  /\ OneAttemptPerCall

-----------------------------------------------------------------------------
(* Sequences                                                               *)

(* The four histories are sequences of call events, all different, and     *)
(* each is what its name says in terms of EventsInOrder.                   *)
LEMMA Histories ==
  /\ {Acked, Talking, Dropped, Ended} \subseteq Seq(CallEvents)
  /\ Acked # <<>> /\ Talking # <<>> /\ Dropped # <<>> /\ Ended # <<>>
  /\ Acked # Talking /\ Acked # Dropped /\ Acked # Ended
  /\ Talking # Dropped /\ Talking # Ended /\ Dropped # Ended
  /\ Append(<<>>, "ack") = Acked
<1>0. {"ack", "connected", "remote_hangup"} \subseteq CallEvents
  BY DEF CallEvents
<1>1. Acked \in Seq(CallEvents) /\ Len(Acked) = 1
  BY <1>0 DEF Acked
<1>2. Talking \in Seq(CallEvents) /\ Len(Talking) = 2 /\ Talking[2] = "connected"
  BY <1>0, <1>1, AppendProperties DEF Talking
<1>3. Dropped \in Seq(CallEvents) /\ Len(Dropped) = 2 /\ Dropped[2] = "remote_hangup"
  BY <1>0, <1>1, AppendProperties DEF Dropped
<1>4. Ended \in Seq(CallEvents) /\ Len(Ended) = 3
  <2>1. ASSUME NEW s \in Seq(CallEvents), NEW e \in CallEvents
        PROVE  Append(s, e) \in Seq(CallEvents) /\ Len(Append(s, e)) = Len(s) + 1
    BY AppendProperties
  <2>2. Ended \in Seq(CallEvents) /\ Len(Ended) = Len(Talking) + 1
    BY <1>0, <1>2, <2>1 DEF Ended
  <2>3. QED BY <1>2, <2>2
<1>5. Append(<<>>, "ack") = Acked
  BY DEF Acked
<1>6. QED
  <2>1. Len(Acked) = 1 /\ Len(Talking) = 2 /\ Len(Dropped) = 2 /\ Len(Ended) = 3
    BY <1>1, <1>2, <1>3, <1>4
  <2>2. Acked # <<>> /\ Talking # <<>> /\ Dropped # <<>> /\ Ended # <<>>
    BY <2>1
  <2>3. Acked # Talking /\ Acked # Dropped /\ Acked # Ended
    BY <2>1
  <2>4. Talking # Ended /\ Dropped # Ended
    BY <2>1
  <2>5. Talking # Dropped
    BY <1>2, <1>3
  <2>6. QED BY <1>1, <1>2, <1>3, <1>4, <1>5, <2>2, <2>3, <2>4, <2>5

Queues == Seq({"connected", "remote_hangup"})

(* What posting and taking an event does to Pending and Once.              *)
LEMMA EmptyQueue ==
  /\ <<>> \in Queues /\ ~Pending(<<>>) /\ Once(<<>>)
  /\ <<"remote_hangup">> \in Queues
  /\ ~Pending(<<"remote_hangup">>) /\ Once(<<"remote_hangup">>)
BY DEF Queues, Pending, Once

(* The modem's hangup event is queued.                                     *)
LEMMA PostHangup ==
  ASSUME NEW q \in Queues
  PROVE  /\ Append(q, "remote_hangup") \in Queues
         /\ Pending(Append(q, "remote_hangup")) => Pending(q)
         /\ Once(q) => Once(Append(q, "remote_hangup"))
<1> DEFINE p == Append(q, "remote_hangup")
<1>1. /\ p \in Queues /\ Len(p) = Len(q) + 1 /\ p[Len(q) + 1] = "remote_hangup"
      /\ \A i \in 1 .. Len(q) : p[i] = q[i]
  BY AppendProperties DEF Queues
<1>2. Len(q) \in Nat
  BY DEF Queues
<1> HIDE DEF p
<1>3. \A i \in 1 .. Len(p) : p[i] = "connected" => i \in 1 .. Len(q) /\ q[i] = "connected"
  BY <1>1, <1>2
<1>4. p \in Queues /\ (Pending(p) => Pending(q)) /\ (Once(q) => Once(p))
  BY <1>1, <1>3 DEF Pending, Once
<1>5. QED BY <1>4 DEF p

(* The modem's answer event is queued.                                     *)
LEMMA PostConnected ==
  ASSUME NEW q \in Queues
  PROVE  /\ Append(q, "connected") \in Queues
         /\ ~Pending(q) => Once(Append(q, "connected"))
<1> DEFINE p == Append(q, "connected")
<1>1. /\ p \in Queues /\ Len(p) = Len(q) + 1
      /\ \A i \in 1 .. Len(q) : p[i] = q[i]
  BY AppendProperties DEF Queues
<1>2. Len(q) \in Nat
  BY DEF Queues
<1> HIDE DEF p
<1>3. ASSUME ~Pending(q) PROVE \A i \in 1 .. Len(p) : p[i] = "connected" => i = Len(q) + 1
  BY <1>1, <1>2, <1>3 DEF Pending
<1>4. p \in Queues /\ (~Pending(q) => Once(p))
  BY <1>1, <1>3 DEF Once
<1>5. QED BY <1>4 DEF p

(* The pump takes the first event.                                         *)
LEMMA TakeEvent ==
  ASSUME NEW q \in Queues, q # <<>>
  PROVE  /\ Tail(q) \in Queues
         /\ Once(q) => Once(Tail(q))
         /\ Pending(Tail(q)) => Pending(q)
         /\ Head(q) = "connected" => Pending(q)
         /\ Once(q) /\ Head(q) = "connected" => ~Pending(Tail(q))
<1> DEFINE p == Tail(q)
<1>1. /\ p \in Queues /\ Len(p) = Len(q) - 1
      /\ \A i \in 1 .. Len(p) : p[i] = q[i + 1]
      /\ Head(q) = q[1]
  BY DEF Queues
<1>2. Len(q) \in Nat /\ Len(q) # 0
  BY DEF Queues
<1> HIDE DEF p
<1>3. \A i \in 1 .. Len(p) : i + 1 \in 1 .. Len(q) /\ p[i] = q[i + 1]
  BY <1>1, <1>2
<1>4. 1 \in 1 .. Len(q) /\ \A i \in 1 .. Len(p) : i + 1 # 1
  BY <1>1, <1>2
<1>5. Once(q) => Once(p)
  BY <1>3, <1>1, <1>2 DEF Once
<1>6. Pending(p) => Pending(q)
  BY <1>3 DEF Pending
<1>7. (Head(q) = "connected" => Pending(q))
  BY <1>1, <1>4 DEF Pending
<1>8. Once(q) /\ Head(q) = "connected" => ~Pending(p)
  BY <1>1, <1>3, <1>4 DEF Pending, Once
<1>9. QED BY <1>1, <1>5, <1>6, <1>7, <1>8 DEF p

-----------------------------------------------------------------------------
(* Types                                                                   *)

(* TypeOK without the sequences, and the sequences.                        *)
PlainType ==
  /\ daemon \in {"up", "stopping", "closing", "down"} /\ launches \in Nat
  /\ stopKeys \subseteq Calls /\ stopping \in Slots
  /\ handler \in {"idle", "dialing", "hanging"} /\ handling \in Slots
  /\ linkUp \in BOOLEAN /\ swaps \in Nat
  /\ slot \in Slots /\ polling \in BOOLEAN
  /\ leg \in [Attempts -> {"none", "ringing", "active"}]
  /\ modemPcm \in BOOLEAN /\ urcs \in Nat
  /\ calls \in [Calls -> Slots]
  /\ pump \in [Attempts -> PumpStates]
  /\ held \in [Attempts -> SUBSET Resources] /\ terminated \subseteq Attempts
  /\ fault \in [Attempts -> {"none", "pcm", "join", "raised"}]

SeqType ==
  /\ queue \in [Attempts -> Queues]
  /\ callOf \in Seq(Calls) /\ Len(callOf) <= MaxDials
  /\ sent \in [Attempts -> Seq(CallEvents)]

(* Together they are TypeOK.                                               *)
LEMMA TypeParts == TypeOK <=> PlainType /\ SeqType
BY DEF TypeOK, PlainType, SeqType, Queues

(* Telling the cloud keeps the type of what it was told.                   *)
LEMMA TellType ==
  ASSUME SeqType, NEW a, NEW e \in CallEvents, Tell(a, e)
  PROVE  sent' \in [Attempts -> Seq(CallEvents)]
<1>1. \A s \in Seq(CallEvents) : Append(s, e) \in Seq(CallEvents)
  BY AppendProperties
<1>2. QED BY <1>1 DEF SeqType, Tell

(* So does queueing an event.                                              *)
LEMMA PostType ==
  ASSUME SeqType, NEW a, NEW e \in {"connected", "remote_hangup"}, Post(a, e)
  PROVE  queue' \in [Attempts -> Queues]
<1>1. \A q \in Queues : Append(q, e) \in Queues
  BY AppendProperties DEF Queues
<1>2. QED BY <1>1 DEF SeqType, Post

(* So does taking one.                                                     *)
LEMMA TakeType ==
  ASSUME SeqType, NEW a \in Attempts, NEW e, Event(a, e)
  PROVE  queue' \in [Attempts -> Queues]
<1>1. queue[a] \in Queues /\ queue[a] # <<>>
  BY DEF SeqType, Event
<1>2. Tail(queue[a]) \in Queues
  BY <1>1, TakeEvent
<1>3. QED BY <1>2 DEF SeqType, Event

(* What the queues, the histories and the list of ATDs become.             *)
LEMMA StepKeepsSeqType ==
  ASSUME SeqType, Next
  PROVE  SeqType'
<1> USE DEF procVars, cloudVars, atVars, modemVars, ctxVars, histVars
<1>e. {"ack", "connected", "remote_hangup"} \subseteq CallEvents
  BY DEF CallEvents
<1>1. queue' \in [Attempts -> Queues]
  <2>1. CASE UNCHANGED queue
    BY <2>1 DEF SeqType
  <2>4. CASE \E a : Drained(a)
    BY <2>4, EmptyQueue DEF SeqType, Drained
  <2>5. CASE HandlerStep
    <3>1. CASE DialSucceeds
      BY <2>1, <3>1 DEF DialSucceeds
    <3>2. ASSUME NEW onLine \in BOOLEAN, DialFails(onLine) PROVE queue' \in [Attempts -> Queues]
      BY <3>2, EmptyQueue DEF DialFails, SeqType
    <3>3. CASE CancelDone
      BY <3>3, PostType DEF CancelDone
    <3>4. QED BY <2>5, <3>1, <3>2, <3>3 DEF HandlerStep
  <2>6. CASE ProcessGone
    BY <2>6, EmptyQueue DEF ProcessGone
  <2>7. CASE CloudStep
    BY <2>1, <2>7 DEF CloudStep, DialDuplicate, DialRefused, DialIssued, CancelIgnored,
       CancelIssued, LinkFlips, TokenSwapped, vars
  <2>8. ASSUME NEW a \in Attempts, PumpStep(a) \/ Answered(a) \/ LineDrops(a)
        PROVE  queue' \in [Attempts -> Queues]
    <3>1. CASE PumpConnected(a) \/ PumpHangup(a)
      BY <3>1, TakeType DEF PumpConnected, PumpHangup
    <3>2. CASE PumpHungUp(a)
      BY <3>2, PostType DEF PumpHungUp
    <3>3. CASE ~(PumpConnected(a) \/ PumpHangup(a) \/ PumpHungUp(a))
      BY <2>1, <2>8, <3>3 DEF PumpStep, PcmEnabled, PcmFails, PumpRaises, Joined,
         JoinFails, Left, PcmDisabled, Answered, LineDrops
    <3>4. QED BY <3>1, <3>2, <3>3
  <2>9. CASE PollSeesActive \/ UrcDispatched
    BY <2>1, <2>9, PostType DEF PollSeesActive, UrcDispatched
  <2>10. CASE StreamFinalized
    BY <2>4, <2>10 DEF StreamFinalized
  <2>11. CASE StopBegins \/ Launch
    BY <2>1, <2>11 DEF StopBegins, Launch
  <2>12. CASE StopStep
    BY <2>1, <2>4, <2>12 DEF StopStep, StopReturns, StopCall
  <2>13. QED
    BY <2>5, <2>6, <2>7, <2>8, <2>9, <2>10, <2>11, <2>12 DEF Next, Exit, Crash
<1>2. sent' \in [Attempts -> Seq(CallEvents)]
  <2>1. CASE UNCHANGED sent
    BY <2>1 DEF SeqType
  <2>3. ASSUME NEW a \in Attempts, PumpStep(a) PROVE sent' \in [Attempts -> Seq(CallEvents)]
    BY <1>e, <2>1, TellType, <2>3
       DEF PumpStep, PumpConnected, PumpHangup, PumpHungUp, PcmEnabled, PcmFails,
           PumpRaises, Joined, JoinFails, Left, PcmDisabled, RemoteHangup
  <2>4. CASE HandlerStep
    BY <1>e, <2>1, TellType, <2>4
       DEF HandlerStep, DialSucceeds, DialFails, Accepted, CancelDone
  <2>5. CASE ~HandlerStep /\ \A a \in Attempts : ~PumpStep(a)
    BY <2>1, <2>5 DEF Next, CloudStep, DialDuplicate, DialRefused, DialIssued, CancelIgnored,
       CancelIssued, LinkFlips, TokenSwapped, vars, Answered, LineDrops, PollSeesActive,
       UrcDispatched, StreamFinalized, StopBegins, StopStep, StopReturns, StopCall, Exit,
       Crash, ProcessGone, Launch
  <2>6. QED BY <2>3, <2>4, <2>5
<1>3. callOf' \in Seq(Calls) /\ Len(callOf') <= MaxDials
  <2>1. CASE UNCHANGED callOf
    BY <2>1 DEF SeqType
  <2>2. ASSUME NEW c \in Calls, DialIssued(c)
        PROVE  callOf' \in Seq(Calls) /\ Len(callOf') <= MaxDials
    <3>1. callOf \in Seq(Calls) /\ Len(callOf) < MaxDials /\ callOf' = Append(callOf, c)
      BY <2>2 DEF SeqType, DialIssued
    <3>2. callOf' \in Seq(Calls) /\ Len(callOf') = Len(callOf) + 1
      BY <3>1, AppendProperties
    <3>3. Len(callOf) \in Nat /\ MaxDials \in Nat
      BY <3>1, CallAssumption
    <3>4. QED BY <3>1, <3>2, <3>3
  <2>3. CASE \A c \in Calls : ~DialIssued(c)
    BY <2>1, <2>3 DEF Next, CloudStep, DialDuplicate, DialRefused, CancelIgnored,
       CancelIssued, LinkFlips, TokenSwapped, vars, HandlerStep, DialSucceeds, DialFails,
       Accepted, CancelDone, PumpStep, PumpConnected, PumpHangup, PumpHungUp, PcmEnabled,
       PcmFails, PumpRaises, Joined, JoinFails, Left, PcmDisabled, Answered, LineDrops,
       PollSeesActive, UrcDispatched, StreamFinalized, StopBegins, StopStep, StopReturns,
       StopCall, Exit, Crash, ProcessGone, Launch
  <2>4. QED BY <2>2, <2>3
<1>4. QED BY <1>1, <1>2, <1>3 DEF SeqType

(* Plain data.                                                             *)
LEMMA StepKeepsPlainType ==
  ASSUME PlainType, SeqType, Next
  PROVE  PlainType'
<1> USE CallAssumption
<1> USE DEF PlainType, Slots, procVars, cloudVars, atVars, modemVars, ctxVars, histVars,
            FreeSlot, None
<1>1. CASE CloudStep
  <2>1. ASSUME NEW c \in Calls, DialIssued(c) PROVE PlainType'
    <3>1. callOf \in Seq(Calls) /\ Len(callOf) < MaxDials /\ callOf' = Append(callOf, c)
      BY <2>1 DEF SeqType, DialIssued
    <3>2. Len(callOf') = Len(callOf) + 1 /\ Len(callOf) \in Nat
      BY <3>1, AppendProperties
    <3>3. Len(callOf') \in Attempts
      BY <3>1, <3>2 DEF Attempts
    <3>4. QED BY <2>1, <3>3 DEF DialIssued
  <2>2. ASSUME NEW c \in Calls, CancelIssued(c) PROVE PlainType'
    BY <2>2 DEF CancelIssued
  <2>3. CASE LinkFlips
    BY <2>3 DEF LinkFlips
  <2>4. CASE TokenSwapped
    BY <2>4 DEF TokenSwapped, CutShort
  <2>5. CASE UNCHANGED vars
    BY <2>5 DEF vars
  <2>6. QED
    BY <1>1, <2>1, <2>2, <2>3, <2>4, <2>5
       DEF CloudStep, DialDuplicate, DialRefused, CancelIgnored
<1>2. CASE HandlerStep
  <2>1. CASE DialSucceeds
    BY <2>1 DEF DialSucceeds, Accepted, PumpStates
  <2>2. ASSUME NEW onLine \in BOOLEAN, DialFails(onLine) PROVE PlainType'
    BY <2>2 DEF DialFails, Accepted, PumpStates
  <2>3. CASE CancelDone
    BY <2>3 DEF CancelDone, HangUpLine
  <2>4. QED BY <1>2, <2>1, <2>2, <2>3 DEF HandlerStep
<1>3. ASSUME NEW a \in Attempts, PumpStep(a) PROVE PlainType'
  <2> USE DEF PumpUnchanged, PumpStates, Resources
  <2>1. CASE PumpConnected(a)
    BY <2>1 DEF PumpConnected
  <2>2. CASE PumpHangup(a)
    BY <2>2 DEF PumpHangup, RemoteHangup, Forget, Teardown, Stage
  <2>3. CASE PumpHungUp(a)
    BY <2>3 DEF PumpHungUp, HangUpLine
  <2>4. ASSUME NEW record \in BOOLEAN, PcmEnabled(a, record) PROVE PlainType'
    BY <2>4 DEF PcmEnabled, CpcmregEnable
  <2>5. CASE PcmFails(a)
    BY <2>5 DEF PcmFails, CpcmregEnable, RemoteHangup, Forget, Teardown, Stage
  <2>6. CASE PumpRaises(a)
    BY <2>6 DEF PumpRaises, CpcmregEnable, Forget
  <2>7. CASE Joined(a)
    BY <2>7 DEF Joined
  <2>8. CASE JoinFails(a)
    BY <2>8 DEF JoinFails, RemoteHangup, Forget, Teardown, Stage
  <2>9. CASE Left(a)
    BY <2>9 DEF Left, Stage, AfterTeardown
  <2>10. CASE PcmDisabled(a)
    BY <2>10 DEF PcmDisabled, AfterTeardown
  <2>11. QED
    BY <1>3, <2>1, <2>2, <2>3, <2>4, <2>5, <2>6, <2>7, <2>8, <2>9, <2>10 DEF PumpStep
<1>4. ASSUME NEW a \in Attempts, Answered(a) \/ LineDrops(a) PROVE PlainType'
  BY <1>4 DEF Answered, LineDrops
<1>5. CASE PollSeesActive \/ StreamFinalized \/ StopBegins \/ Launch
  <2>1. CASE PollSeesActive
    BY <2>1 DEF PollSeesActive
  <2>2. CASE StreamFinalized
    BY <2>2 DEF StreamFinalized
  <2>3. CASE StopBegins
    BY <2>3 DEF StopBegins
  <2>4. CASE Launch
    BY <2>4 DEF Launch
  <2>5. QED BY <1>5, <2>1, <2>2, <2>3, <2>4
<1>6. CASE UrcDispatched
  BY <1>6 DEF UrcDispatched
<1>7. CASE StopReturns
  BY <1>7 DEF StopReturns, CutShort
<1>8. ASSUME NEW c \in Calls, StopCall(c) PROVE PlainType'
  <2>1. CASE calls[c] = None
    BY <1>8, <2>1 DEF StopCall
  <2>2. CASE calls[c] # None
    <3>1. calls[c] \in Attempts
      BY <2>2
    <3>2. /\ pump' \in [Attempts -> PumpStates]
          /\ held' \in [Attempts -> SUBSET Resources]
      BY <1>8, <2>2, <3>1 DEF StopCall, Teardown, Stage, PumpStates
    <3>3. modemPcm' \in BOOLEAN
      BY <1>8, <2>2 DEF StopCall
    <3>4. /\ stopKeys' \subseteq Calls /\ stopping' \in Slots
          /\ calls' \in [Calls -> Slots]
      BY <1>8, <2>2 DEF StopCall, Forget
    <3>5. slot' \in Slots /\ polling' \in BOOLEAN
      BY <1>8, <2>2 DEF StopCall
    <3>6. UNCHANGED <<daemon, launches, cloudVars, leg, urcs, terminated, fault>>
      BY <1>8 DEF StopCall
    <3>7. QED BY <3>2, <3>3, <3>4, <3>5, <3>6
  <2>3. QED BY <2>1, <2>2
<1>9. CASE ProcessGone
  BY <1>9 DEF ProcessGone, CutShort, PumpStates
<1>10. QED
  BY <1>1, <1>2, <1>3, <1>4, <1>5, <1>6, <1>7, <1>8, <1>9 DEF Next, StopStep, Exit, Crash

-----------------------------------------------------------------------------
(* The inductive invariant                                                 *)

(* Init establishes CallInv.                                               *)
LEMMA InitCallInv == Init => CallInv
<1> SUFFICES ASSUME Init PROVE CallInv
  OBVIOUS
<1> USE DEF Init, None
<1>1. PlainType
  BY DEF PlainType, Slots, PumpStates, Resources
<1>2. SeqType
  BY EmptyQueue, CallAssumption DEF SeqType
<1>3. TypeOK
  BY <1>1, <1>2, TypeParts
<1>4. SentInv /\ HeldInv /\ SlotInv /\ StopInv /\ UpInv
  BY DEF SentInv, HeldInv, SlotInv, StopInv, UpInv
<1>5. QueueInv
  BY EmptyQueue DEF QueueInv
<1>6. OneAttemptPerCall
  BY DEF OneAttemptPerCall
<1>7. QED BY <1>3, <1>4, <1>5, <1>6 DEF CallInv

(* The stages of teardown() are none of the stages before it.              *)
LEMMA StageValues ==
  ASSUME NEW h, NEW then
  PROVE  /\ "rtc" \in h => Stage(h, then) = "leaving"
         /\ "rtc" \notin h /\ "pcm" \in h => Stage(h, then) = "disabling"
         /\ "rtc" \notin h /\ "pcm" \notin h => Stage(h, then) = then
BY DEF Stage

(* Where teardown() takes the pump, and what is left then.                 *)
LEMMA TeardownEffect ==
  ASSUME NEW a, NEW then, Teardown(a, then)
  PROVE  \/ /\ "rtc" \in held[a]
            /\ pump' = [pump EXCEPT ![a] = "leaving"] /\ held' = held
         \/ /\ "rtc" \notin held[a] /\ "pcm" \in held[a]
            /\ pump' = [pump EXCEPT ![a] = "disabling"]
            /\ held' = [held EXCEPT ![a] = held[a] \ {"recording"}]
         \/ /\ "rtc" \notin held[a] /\ "pcm" \notin held[a]
            /\ pump' = [pump EXCEPT ![a] = then]
            /\ held' = [held EXCEPT ![a] = held[a] \ {"recording"}]
BY DEF Teardown, Stage

(* Where a pump goes after the audio bridge has been left.                 *)
LEMMA LeftEffect ==
  ASSUME PlainType, NEW a \in Attempts, Left(a)
  PROVE  \E s \in {"disabling", "waiting", "ended"} :
           /\ pump' = [pump EXCEPT ![a] = s]
           /\ held' = [held EXCEPT ![a] = held[a] \intersect {"pcm"}]
           /\ s = "disabling" <=> "pcm" \in held[a]
           /\ s = "waiting" => fault[a] = "join"
<1>1. held' = [held EXCEPT ![a] = held[a] \intersect {"pcm"}]
  BY DEF Left
<1>2. held'[a] = held[a] \intersect {"pcm"}
  BY <1>1 DEF PlainType
<1>3. pump' = [pump EXCEPT ![a] = Stage(held[a] \intersect {"pcm"}, AfterTeardown(a))]
  BY <1>2 DEF Left
<1>4. AfterTeardown(a) \in {"waiting", "ended"} /\ (AfterTeardown(a) = "waiting" => fault[a] = "join")
  BY DEF AfterTeardown
<1>5. CASE "pcm" \in held[a]
  <2>1. Stage(held[a] \intersect {"pcm"}, AfterTeardown(a)) = "disabling"
    BY <1>5, StageValues
  <2>2. QED BY <1>1, <1>3, <1>5, <2>1
<1>6. CASE "pcm" \notin held[a]
  <2>1. Stage(held[a] \intersect {"pcm"}, AfterTeardown(a)) = AfterTeardown(a)
    BY <1>6, StageValues
  <2>2. QED BY <1>1, <1>3, <1>4, <1>6, <2>1
<1>7. QED BY <1>5, <1>6

(* Steps keep SentInv: of those that tell the cloud something, DialAck is  *)
(* the first, connected comes from the one such event in the queue, and    *)
(* remote_hangup is told by a call not yet terminated.                     *)
LEMMA StepKeepsSentInv ==
  ASSUME CallInv, Next
  PROVE  SentInv'
<1> USE DEF procVars, cloudVars, atVars, modemVars, ctxVars, histVars
<1>t. PlainType /\ SeqType
  BY TypeParts DEF CallInv
<1>s. sent \in [Attempts -> Seq(CallEvents)] /\ pump \in [Attempts -> PumpStates]
  BY <1>t DEF SeqType, PlainType
<1>i. SentInv
  BY DEF CallInv
<1>1. CASE UNCHANGED <<pump, sent, terminated>>
  BY <1>1, <1>i DEF SentInv
<1>2. CASE handler = "dialing" /\ Accepted(handling)
  <2>1. handling \in Attempts /\ pump[handling] = "none"
    BY <1>2, <1>t, CallAssumption DEF CallInv, SlotInv, PlainType, Slots, SeqType, Attempts, None
  <2>2. sent[handling] = <<>> /\ handling \notin terminated
    BY <1>i, <2>1 DEF SentInv
  <2>3. sent' = [sent EXCEPT ![handling] = Acked]
    BY <1>2, <2>2, Histories DEF Accepted, Tell
  <2>4. pump' = [pump EXCEPT ![handling] = "waiting"] /\ UNCHANGED terminated
    BY <1>2 DEF Accepted
  <2>5. QED BY <1>i, <1>s, <2>1, <2>2, <2>3, <2>4 DEF SentInv
<1>3. ASSUME NEW a \in Attempts, PumpConnected(a) PROVE SentInv'
  <2>1. queue[a] \in Queues /\ pump[a] = "waiting" /\ queue[a] # <<>> /\ Head(queue[a]) = "connected"
    BY <1>3, <1>t DEF PumpConnected, Event, SeqType
  <2>2. sent[a] = Acked
    BY <2>1, TakeEvent DEF CallInv, QueueInv
  <2>3. sent' = [sent EXCEPT ![a] = Talking]
    BY <1>3, <2>2 DEF PumpConnected, Tell, Talking
  <2>4. pump' = [pump EXCEPT ![a] = "enabling"] /\ UNCHANGED terminated
    BY <1>3 DEF PumpConnected
  <2>5. QED BY <1>i, <1>s, <2>1, <2>2, <2>3, <2>4, Histories DEF SentInv
<1>4. ASSUME NEW a \in Attempts, NEW then \in {"waiting", "hanging", "ended"},
             a \notin terminated, pump[a] # "none", RemoteHangup(a, then)
      PROVE  SentInv'
  <2>1. sent[a] \in {Acked, Talking}
    BY <1>4, <1>i DEF SentInv
  <2>2. Append(sent[a], "remote_hangup") \in {Dropped, Ended}
    BY <2>1 DEF Dropped, Ended
  <2>3. PICK s \in {"leaving", "disabling", "waiting", "hanging", "ended"} :
          pump' = [pump EXCEPT ![a] = s]
    BY <1>4, StageValues DEF RemoteHangup, Teardown
  <2>4. terminated' = terminated \union {a}
        /\ sent' = [sent EXCEPT ![a] = Append(sent[a], "remote_hangup")]
    BY <1>4 DEF RemoteHangup, Tell
  <2>5. QED BY <1>i, <1>s, <2>2, <2>3, <2>4 DEF SentInv
<1>5. ASSUME NEW a \in Attempts, NEW s \in PumpStates \ {"none", "enabling"},
             pump[a] # "none", s = "joining" => pump[a] = "enabling",
             pump' = [pump EXCEPT ![a] = s], UNCHANGED <<sent, terminated>>
      PROVE  SentInv'
  BY <1>5, <1>i, <1>s DEF SentInv
<1>6. ASSUME NEW a \in Attempts, PumpStep(a) PROVE SentInv'
  <2> USE DEF PumpStates, Running
  <2>1. CASE PumpConnected(a)
    BY <1>3, <2>1
  <2>2. CASE PumpHangup(a)
    BY <1>4, <1>5, <2>2 DEF PumpHangup, Event
  <2>3. CASE PumpHungUp(a)
    BY <1>5, <2>3 DEF PumpHungUp
  <2>4. ASSUME NEW record \in BOOLEAN, PcmEnabled(a, record) PROVE SentInv'
    BY <1>5, <2>4 DEF PcmEnabled
  <2>5. CASE PcmFails(a)
    <3>1. a \notin terminated /\ pump[a] = "enabling"
      BY <1>i, <2>5, Histories DEF PcmFails, SentInv
    <3>2. CASE linkUp
      BY <1>4, <2>5, <3>1, <3>2 DEF PcmFails
    <3>3. CASE ~linkUp
      <4>1. PICK s \in {"leaving", "disabling", "ended"} : pump' = [pump EXCEPT ![a] = s]
        BY <2>5, <3>3, StageValues DEF PcmFails, Teardown
      <4>2. QED BY <1>5, <2>5, <3>1, <3>3, <4>1 DEF PcmFails
    <3>4. QED BY <3>2, <3>3
  <2>6. CASE PumpRaises(a)
    BY <1>5, <2>6 DEF PumpRaises
  <2>7. CASE Joined(a)
    BY <1>5, <2>7 DEF Joined
  <2>8. CASE JoinFails(a)
    <3>1. a \notin terminated /\ pump[a] = "joining"
      BY <1>i, <2>8, Histories DEF JoinFails, SentInv
    <3>2. QED BY <1>4, <2>8, <3>1 DEF JoinFails
  <2>9. CASE Left(a)
    <3>1. PICK s \in {"disabling", "waiting", "ended"} : pump' = [pump EXCEPT ![a] = s]
      BY <1>t, <2>9, LeftEffect
    <3>2. QED BY <1>5, <2>9, <3>1 DEF Left
  <2>10. CASE PcmDisabled(a)
    BY <1>5, <2>10 DEF PcmDisabled, AfterTeardown
  <2>11. QED
    BY <1>6, <2>1, <2>2, <2>3, <2>4, <2>5, <2>6, <2>7, <2>8, <2>9, <2>10 DEF PumpStep
<1>7. ASSUME NEW c \in Calls, StopCall(c) PROVE SentInv'
  <2>1. CASE calls[c] = None
    BY <1>1, <1>7, <2>1 DEF StopCall
  <2>2. CASE calls[c] # None
    <3>1. calls[c] \in Attempts /\ pump[calls[c]] # "none"
      BY <1>t, <2>2 DEF PlainType, Slots, CallInv, SlotInv
    <3>2. PICK s \in {"leaving", "disabling", "ended"} : pump' = [pump EXCEPT ![calls[c]] = s]
      BY <1>7, <2>2, StageValues DEF StopCall, Teardown
    <3>3. QED BY <1>5, <1>7, <3>1, <3>2 DEF StopCall, PumpStates
  <2>3. QED BY <2>1, <2>2
<1>8. CASE ProcessGone
  BY <1>8, <1>i, <1>s DEF ProcessGone, SentInv
<1>9. CASE HandlerStep
  BY <1>1, <1>2, <1>9 DEF HandlerStep, DialSucceeds, DialFails, CancelDone
<1>10. CASE /\ ~HandlerStep /\ ~ProcessGone /\ \A a \in Attempts : ~PumpStep(a)
            /\ \A c \in Calls : ~StopCall(c)
  BY <1>1, <1>10 DEF Next, CloudStep, DialDuplicate, DialRefused, DialIssued, CancelIgnored,
     CancelIssued, LinkFlips, TokenSwapped, vars, Answered, LineDrops, PollSeesActive,
     UrcDispatched, StreamFinalized, StopBegins, StopStep, StopReturns, Exit, Crash, Launch
<1>11. QED BY <1>6, <1>7, <1>8, <1>9, <1>10

(* Steps keep HeldInv: PCM is taken first and given back last.             *)
LEMMA StepKeepsHeldInv ==
  ASSUME CallInv, Next
  PROVE  HeldInv'
<1> USE DEF procVars, cloudVars, atVars, modemVars, ctxVars, histVars, PumpUnchanged
<1>t. PlainType /\ SeqType
  BY TypeParts DEF CallInv
<1>s. /\ sent \in [Attempts -> Seq(CallEvents)] /\ pump \in [Attempts -> PumpStates]
      /\ held \in [Attempts -> SUBSET Resources]
  BY <1>t DEF SeqType, PlainType
<1>i. HeldInv /\ SentInv
  BY DEF CallInv
<1>1. CASE UNCHANGED <<pump, held, sent, terminated>>
  BY <1>1, <1>i DEF HeldInv
<1>2. CASE handler = "dialing" /\ Accepted(handling)
  <2>1. handling \in Attempts /\ pump[handling] = "none"
    BY <1>2, <1>t, CallAssumption DEF CallInv, SlotInv, PlainType, Slots, SeqType, Attempts, None
  <2>2. PICK e : sent' = [sent EXCEPT ![handling] = e]
    BY <1>2 DEF Accepted, Tell
  <2>3. pump' = [pump EXCEPT ![handling] = "waiting"] /\ UNCHANGED <<held, terminated>>
    BY <1>2 DEF Accepted
  <2>4. held[handling] = {}
    BY <1>i, <2>1 DEF HeldInv
  <2>5. QED BY <1>i, <1>s, <2>1, <2>2, <2>3, <2>4 DEF HeldInv
<1>3. ASSUME NEW a \in Attempts, PumpConnected(a) PROVE HeldInv'
  <2>1. queue[a] \in Queues /\ pump[a] = "waiting" /\ queue[a] # <<>> /\ Head(queue[a]) = "connected"
    BY <1>3, <1>t DEF PumpConnected, Event, SeqType
  <2>2. held[a] = {}
    BY <1>i, <2>1, TakeEvent DEF CallInv, QueueInv, HeldInv
  <2>3. PICK e : sent' = [sent EXCEPT ![a] = e]
    BY <1>3 DEF PumpConnected, Tell
  <2>4. pump' = [pump EXCEPT ![a] = "enabling"] /\ UNCHANGED <<held, terminated>>
    BY <1>3 DEF PumpConnected
  <2>5. QED BY <1>i, <1>s, <2>2, <2>3, <2>4 DEF HeldInv
<1>4. ASSUME NEW a \in Attempts, NEW then \in {"waiting", "hanging", "ended"}, Teardown(a, then),
             \A b \in Attempts \ {a} : sent'[b] = sent[b] /\ (b \in terminated' <=> b \in terminated)
      PROVE  HeldInv'
  <2>1. CASE "rtc" \in held[a]
    <3>1. pump' = [pump EXCEPT ![a] = "leaving"] /\ held' = held
      BY <1>4, <2>1, TeardownEffect
    <3>2. QED BY <1>4, <1>i, <1>s, <2>1, <3>1 DEF HeldInv
  <2>2. CASE "rtc" \notin held[a] /\ "pcm" \in held[a]
    <3>1. held[a] \ {"recording"} = {"pcm"}
      BY <1>i, <1>s, <2>2 DEF HeldInv, Resources
    <3>2. pump' = [pump EXCEPT ![a] = "disabling"] /\ held' = [held EXCEPT ![a] = {"pcm"}]
      BY <1>4, <2>2, <3>1, TeardownEffect
    <3>3. QED BY <1>4, <1>i, <1>s, <3>2 DEF HeldInv
  <2>3. CASE "rtc" \notin held[a] /\ "pcm" \notin held[a]
    <3>1. held[a] \ {"recording"} = {}
      BY <1>i, <1>s, <2>3 DEF HeldInv
    <3>2. pump' = [pump EXCEPT ![a] = then] /\ held' = [held EXCEPT ![a] = {}]
      BY <1>4, <2>3, <3>1, TeardownEffect
    <3>3. QED BY <1>4, <1>i, <1>s, <3>2 DEF HeldInv
  <2>4. QED BY <2>1, <2>2, <2>3
<1>5. ASSUME NEW a \in Attempts, PumpStep(a) PROVE HeldInv'
  <2> USE DEF PumpStates, Running
  <2>1. CASE PumpConnected(a)
    BY <1>3, <2>1
  <2>2. CASE PumpHangup(a)
    <3>1. CASE a \in terminated
      <4>1. held[a] = {} /\ UNCHANGED <<held, sent, terminated>> /\ pump' = [pump EXCEPT ![a] = "ended"]
        BY <1>i, <2>2, <3>1 DEF PumpHangup, Event, HeldInv
      <4>2. QED BY <1>i, <1>s, <4>1 DEF HeldInv
    <3>2. CASE a \notin terminated
      BY <1>4, <1>s, <2>2, <3>2 DEF PumpHangup, RemoteHangup, Tell
    <3>3. QED BY <3>1, <3>2
  <2>3. CASE PumpHungUp(a)
    BY <1>i, <1>s, <2>3 DEF PumpHungUp, HeldInv
  <2>4. ASSUME NEW record \in BOOLEAN, PcmEnabled(a, record) PROVE HeldInv'
    <3>1. PICK h \in {{"pcm"}, {"pcm", "recording"}} : held' = [held EXCEPT ![a] = h]
      BY <2>4 DEF PcmEnabled
    <3>2. pump' = [pump EXCEPT ![a] = "joining"] /\ UNCHANGED <<sent, terminated>>
      BY <2>4 DEF PcmEnabled
    <3>3. QED BY <1>i, <1>s, <3>1, <3>2 DEF HeldInv
  <2>5. CASE PcmFails(a)
    BY <1>4, <1>s, <2>5 DEF PcmFails, RemoteHangup, Tell
  <2>6. CASE PumpRaises(a)
    BY <1>i, <1>s, <2>6 DEF PumpRaises, HeldInv
  <2>7. CASE Joined(a)
    <3>1. pump[a] = "joining" /\ "pcm" \in held[a] /\ sent[a] = Talking /\ a \notin terminated
      BY <1>i, <2>7, Histories DEF Joined, HeldInv, SentInv
    <3>2. QED BY <1>i, <1>s, <2>7, <3>1, Histories DEF Joined, HeldInv
  <2>8. CASE JoinFails(a)
    BY <1>4, <1>s, <2>8 DEF JoinFails, RemoteHangup, Tell
  <2>9. CASE Left(a)
    <3>1. pump[a] = "leaving" /\ "pcm" \in held[a]
      BY <1>i, <2>9 DEF Left, HeldInv
    <3>2. /\ pump' = [pump EXCEPT ![a] = "disabling"]
          /\ held' = [held EXCEPT ![a] = {"pcm"}]
      <4>1. held[a] \intersect {"pcm"} = {"pcm"}
        BY <3>1
      <4>2. QED BY <1>t, <2>9, <3>1, <4>1, LeftEffect
    <3>3. QED BY <1>i, <1>s, <2>9, <3>2 DEF Left, HeldInv
  <2>10. CASE PcmDisabled(a)
    BY <1>i, <1>s, <2>10 DEF PcmDisabled, AfterTeardown, HeldInv
  <2>11. QED
    BY <1>5, <2>1, <2>2, <2>3, <2>4, <2>5, <2>6, <2>7, <2>8, <2>9, <2>10 DEF PumpStep
<1>6. ASSUME NEW c \in Calls, StopCall(c) PROVE HeldInv'
  <2>1. CASE calls[c] = None
    BY <1>1, <1>6, <2>1 DEF StopCall
  <2>2. CASE calls[c] # None
    <3>1. calls[c] \in Attempts
      BY <1>t, <2>2 DEF PlainType, Slots
    <3>2. QED BY <1>4, <1>6, <2>2, <3>1 DEF StopCall
  <2>3. QED BY <2>1, <2>2
<1>7. CASE ProcessGone
  BY <1>7, <1>i, <1>s DEF ProcessGone, HeldInv
<1>8. CASE HandlerStep
  BY <1>1, <1>2, <1>8 DEF HandlerStep, DialSucceeds, DialFails, CancelDone
<1>9. CASE /\ ~HandlerStep /\ ~ProcessGone /\ \A a \in Attempts : ~PumpStep(a)
           /\ \A c \in Calls : ~StopCall(c)
  BY <1>1, <1>9 DEF Next, CloudStep, DialDuplicate, DialRefused, DialIssued, CancelIgnored,
     CancelIssued, LinkFlips, TokenSwapped, vars, Answered, LineDrops, PollSeesActive,
     UrcDispatched, StreamFinalized, StopBegins, StopStep, StopReturns, Exit, Crash, Launch
<1>10. QED BY <1>5, <1>6, <1>7, <1>8, <1>9

(* The pump of a moves on to s, perhaps leaving the slot, and no call id   *)
(* leads to a any more.                                                    *)
Moves(a, s) ==
  /\ pump[a] # "none" /\ s \notin {"none", "enabling", "joining"}
  /\ s = "hanging" => slot' = a
  /\ slot' = slot \/ (slot = a /\ slot' = None)
  /\ pump' = [pump EXCEPT ![a] = s] /\ Forget(a)
  /\ \A b \in Attempts : b # a => fault'[b] = fault[b]
  /\ \A b \in Attempts : b # a => (b \in terminated' <=> b \in terminated)
  /\ callOf' = callOf /\ handler' = handler /\ handling' = handling

(* Such a step keeps the slot and the pumps in agreement.                  *)
LEMMA MoveKeepsSlotInv ==
  ASSUME PlainType, SeqType, SlotInv, NEW a \in Attempts, NEW s, Moves(a, s)
  PROVE  SlotInv'
<1>1. /\ pump \in [Attempts -> PumpStates] /\ calls \in [Calls -> Slots]
      /\ Slots = Attempts \union {None} /\ None \notin Attempts
  BY DEF PlainType, Slots, None, Attempts
<1>2. /\ pump'[a] = s /\ \A b \in Attempts : b # a => pump'[b] = pump[b]
      /\ \A c \in Calls : calls'[c] = IF calls[c] = a THEN None ELSE calls[c]
  BY <1>1 DEF Moves, Forget
<1>3. \A c \in Calls : calls[c] # None => calls[c] \in Attempts
  BY <1>1
<1>4. \A c \in Calls : calls'[c] # None => calls'[c] # a /\ calls'[c] = calls[c]
  BY <1>1, <1>2
<1>5. \A c \in Calls : calls'[c] # None =>
       /\ pump'[calls'[c]] \in {"waiting", "enabling", "joining"}
       /\ callOf'[calls'[c]] = c /\ calls'[c] \notin terminated' /\ fault'[calls'[c]] = "none"
  BY <1>2, <1>3, <1>4 DEF Moves, SlotInv
<1>6. \A b \in Attempts : pump'[b] \in {"enabling", "joining", "hanging"} => slot' = b
  BY <1>2 DEF Moves, SlotInv
<1>7. \A b \in Attempts : pump'[b] = "none" => fault'[b] = "none"
  BY <1>2 DEF Moves, SlotInv
<1>8. \A b \in Attempts : pump'[b] # "none" => b =< Len(callOf')
  BY <1>2 DEF Moves, SlotInv
<1>9. ASSUME handler' = "dialing"
      PROVE  /\ handling' \in 1 .. Len(callOf') /\ slot' = handling' /\ pump'[handling'] = "none"
             /\ calls'[callOf'[handling']] = None
  <2>1. /\ handling \in 1 .. Len(callOf) /\ slot = handling /\ pump[handling] = "none"
        /\ calls[callOf[handling]] = None
    BY <1>9 DEF Moves, SlotInv
  <2>2. handling # a
    BY <2>1 DEF Moves
  <2>3. pump'[handling] = "none"
    BY <2>1, <2>2 DEF Moves
  <2>4. calls'[callOf[handling]] = None
    <3>1. callOf[handling] \in Calls
      BY <2>1 DEF SeqType
    <3>2. QED BY <1>2, <2>1, <3>1
  <2>5. QED BY <2>1, <2>3, <2>4 DEF Moves
<1>10. handler' = "hanging" => handling' # None /\ slot' \in {handling', None}
  BY DEF Moves, SlotInv
<1>11. QED BY <1>5, <1>6, <1>7, <1>8, <1>9, <1>10 DEF SlotInv

(* A call id leads to no attempt that it does not lead to.                 *)
LEMMA NothingToForget ==
  ASSUME PlainType, NEW a, \A c \in Calls : calls[c] # a, calls' = calls
  PROVE  Forget(a)
BY DEF PlainType, Forget

(* Steps keep SlotInv.                                                     *)
LEMMA StepKeepsSlotInv ==
  ASSUME CallInv, Next
  PROVE  SlotInv'
<1> USE DEF procVars, cloudVars, atVars, modemVars, ctxVars, histVars, PumpUnchanged
<1>t. PlainType /\ SeqType
  BY TypeParts DEF CallInv
<1>i. SlotInv
  BY DEF CallInv
<1>p. /\ pump \in [Attempts -> PumpStates] /\ calls \in [Calls -> Slots]
      /\ fault \in [Attempts -> {"none", "pcm", "join", "raised"}] /\ slot \in Slots
      /\ Slots = Attempts \union {None} /\ None \notin Attempts
  BY <1>t DEF PlainType, Slots, None, Attempts
<1>1. CASE UNCHANGED <<calls, pump, callOf, terminated, fault, slot, handler, handling>>
  BY <1>1, <1>i DEF SlotInv
<1>2. ASSUME NEW c \in Calls, DialIssued(c) PROVE SlotInv'
  <2> DEFINE n == Len(callOf) + 1
  <2>1. callOf \in Seq(Calls) /\ callOf' = Append(callOf, c) /\ Len(callOf) < MaxDials
    BY <1>2, <1>t DEF DialIssued, SeqType
  <2>2. /\ Len(callOf) \in Nat /\ Len(callOf') = n /\ callOf'[n] = c
        /\ \A i \in 1 .. Len(callOf) : callOf'[i] = callOf[i]
    BY <2>1, AppendProperties
  <2>3. n \in Attempts /\ 1 .. Len(callOf) \subseteq 1 .. n
    BY <2>1, <2>2, CallAssumption DEF Attempts
  <2>4. /\ slot = None /\ calls[c] = None /\ slot' = n /\ handler' = "dialing" /\ handling' = n
        /\ UNCHANGED <<calls, pump, fault, terminated>>
    BY <1>2, <2>2 DEF DialIssued
  <2>5. pump[n] = "none"
    BY <1>i, <1>p, <2>2, <2>3 DEF SlotInv
  <2>6. \A b \in Attempts : pump[b] # "none" => b \in 1 .. Len(callOf)
    BY <1>i, <2>2 DEF SlotInv, Attempts
  <2>7. \A b \in Attempts : pump[b] \notin {"enabling", "joining", "hanging"}
    BY <1>i, <1>p, <2>4 DEF SlotInv
  <2>8. \A d \in Calls : calls[d] # None =>
          /\ pump[calls[d]] \in {"waiting", "enabling", "joining"}
          /\ callOf'[calls[d]] = d /\ calls[d] \notin terminated /\ fault[calls[d]] = "none"
    BY <1>i, <1>p, <2>2, <2>6 DEF SlotInv
  <2>9. \A b \in Attempts : pump[b] # "none" => b =< n
    BY <2>2, <2>6 DEF Attempts
  <2>10. n \in 1 .. n
    BY <2>2
  <2> HIDE DEF n
  <2>11. QED BY <1>i, <2>2, <2>4, <2>5, <2>7, <2>8, <2>9, <2>10 DEF SlotInv
<1>3. ASSUME NEW c \in Calls, CancelIssued(c) PROVE SlotInv'
  BY <1>3, <1>i DEF CancelIssued, SlotInv
<1>4. CASE handler = "dialing" /\ Accepted(handling) /\ slot' \in {slot, None}
  <2>1. handling \in Attempts /\ pump[handling] = "none" /\ slot = handling
    BY <1>4, <1>t, CallAssumption DEF CallInv, SlotInv, PlainType, Slots, SeqType, Attempts, None
  <2>2. handling \notin terminated /\ fault[handling] = "none"
    BY <1>i, <2>1 DEF CallInv, SentInv, SlotInv
  <2>3. /\ calls' = [calls EXCEPT ![callOf[handling]] = handling]
        /\ pump' = [pump EXCEPT ![handling] = "waiting"]
        /\ handler' = "idle" /\ UNCHANGED <<terminated, fault, callOf>>
    BY <1>4 DEF Accepted
  <2>4. \A b \in Attempts : pump'[b] \notin {"enabling", "joining", "hanging"}
    BY <1>i, <1>p, <2>1, <2>3 DEF SlotInv
  <2>5. handling =< Len(callOf)
    BY <1>4, <1>i DEF SlotInv
  <2>6. QED BY <1>i, <1>p, <2>1, <2>2, <2>3, <2>4, <2>5 DEF SlotInv
<1>5. CASE handler' = "idle" /\ UNCHANGED <<calls, pump, callOf, terminated, fault, slot>>
  BY <1>5, <1>i DEF SlotInv
<1>6. ASSUME NEW a \in Attempts, PumpStep(a) PROVE SlotInv'
  <2>0. ASSUME NEW s, Moves(a, s) PROVE SlotInv'
    BY <1>t, <1>i, <2>0, MoveKeepsSlotInv
  <2>1. CASE PumpConnected(a)
    <3>1. queue[a] \in Queues /\ pump[a] = "waiting" /\ queue[a] # <<>> /\ Head(queue[a]) = "connected"
      BY <1>t, <2>1 DEF PumpConnected, Event, SeqType
    <3>2. slot = a
      BY <3>1, TakeEvent DEF CallInv, QueueInv
    <3>3. QED BY <1>i, <1>p, <2>1, <3>1, <3>2 DEF PumpConnected, SlotInv
  <2>2. CASE PumpHangup(a)
    <3>1. CASE a \in terminated
      <4>1. Forget(a)
        BY <1>i, <1>t, <1>p, <2>2, <3>1, NothingToForget DEF PumpHangup, SlotInv
      <4>2. QED BY <2>0, <2>2, <3>1, <4>1 DEF PumpHangup, Event, Moves
    <3>2. CASE a \notin terminated
      <4>1. PICK s \in {"leaving", "disabling", "ended"} : pump' = [pump EXCEPT ![a] = s]
        BY <2>2, <3>2, TeardownEffect DEF PumpHangup, RemoteHangup
      <4>2. Moves(a, s)
        BY <2>2, <3>2, <4>1 DEF PumpHangup, Event, RemoteHangup, Moves
      <4>3. QED BY <2>0, <4>2
    <3>3. QED BY <3>1, <3>2
  <2>3. CASE PumpHungUp(a)
    <3>1. pump[a] = "hanging" /\ \A c \in Calls : calls[c] # a
      BY <1>i, <1>p, <2>3 DEF PumpHungUp, SlotInv
    <3>2. Forget(a)
      BY <1>t, <2>3, <3>1, NothingToForget DEF PumpHungUp
    <3>3. QED BY <2>0, <2>3, <3>2 DEF PumpHungUp, Moves
  <2>4. ASSUME NEW record \in BOOLEAN, PcmEnabled(a, record) PROVE SlotInv'
    BY <1>i, <1>p, <2>4 DEF PcmEnabled, SlotInv
  <2>5. CASE PcmFails(a)
    <3>1. slot = a /\ pump[a] = "enabling"
      BY <1>i, <2>5 DEF PcmFails, SlotInv
    <3>2. PICK s \in {"leaving", "disabling", "hanging", "ended"} : pump' = [pump EXCEPT ![a] = s]
      <4>1. PICK then \in {"hanging", "ended"} : Teardown(a, then)
        BY <2>5 DEF PcmFails, RemoteHangup
      <4>2. QED BY <4>1, TeardownEffect
    <3>3. Forget(a) /\ \A b \in Attempts : b # a => (b \in terminated' <=> b \in terminated)
      BY <2>5 DEF PcmFails, RemoteHangup
    <3>4. \A b \in Attempts : b # a => fault'[b] = fault[b]
      BY <1>p, <2>5 DEF PcmFails
    <3>5. Moves(a, s)
      BY <2>5, <3>1, <3>2, <3>3, <3>4 DEF PcmFails, Moves
    <3>6. QED BY <2>0, <3>5
  <2>6. CASE PumpRaises(a)
    <3>1. Moves(a, "disabling")
      BY <1>p, <2>6 DEF PumpRaises, Moves
    <3>2. QED BY <2>0, <3>1
  <2>7. CASE Joined(a)
    BY <1>i, <1>p, <2>7 DEF Joined, SlotInv
  <2>8. CASE JoinFails(a)
    <3>1. PICK s \in {"leaving", "disabling", "waiting"} : pump' = [pump EXCEPT ![a] = s]
      BY <2>8, TeardownEffect DEF JoinFails, RemoteHangup
    <3>2. \A b \in Attempts : b # a => fault'[b] = fault[b]
      BY <1>p, <2>8 DEF JoinFails
    <3>3. Moves(a, s)
      BY <2>8, <3>1, <3>2 DEF JoinFails, RemoteHangup, Moves
    <3>4. QED BY <2>0, <3>3
  <2>9. CASE Left(a) \/ PcmDisabled(a)
    <3>1. PICK s \in {"disabling", "waiting", "ended"} : pump' = [pump EXCEPT ![a] = s]
      BY <1>t, <2>9, LeftEffect DEF PcmDisabled, AfterTeardown
    <3>2. pump[a] \in {"leaving", "disabling"} /\ \A c \in Calls : calls[c] # a
      BY <1>i, <1>p, <2>9 DEF Left, PcmDisabled, SlotInv
    <3>3. Forget(a)
      BY <1>t, <2>9, <3>2, NothingToForget DEF Left, PcmDisabled
    <3>4. Moves(a, s)
      BY <2>9, <3>1, <3>2, <3>3 DEF Left, PcmDisabled, Moves
    <3>5. QED BY <2>0, <3>4
  <2>10. QED
    BY <1>6, <2>1, <2>2, <2>3, <2>4, <2>5, <2>6, <2>7, <2>8, <2>9 DEF PumpStep
<1>7. CASE StreamFinalized
  <2>1. slot \in Attempts /\ pump[slot] \in {"leaving", "disabling", "ended"}
    BY <1>7, <1>p DEF StreamFinalized, CallInv, StopInv
  <2>2. QED BY <1>7, <1>i, <1>p, <2>1 DEF StreamFinalized, FreeSlot, SlotInv
<1>8. ASSUME NEW c \in Calls, StopCall(c) PROVE SlotInv'
  <2>1. CASE calls[c] = None
    BY <1>1, <1>8, <2>1 DEF StopCall
  <2>2. CASE calls[c] # None
    <3>1. calls[c] \in Attempts /\ pump[calls[c]] \in {"waiting", "enabling", "joining"}
      BY <1>i, <1>p, <2>2 DEF SlotInv
    <3>2. PICK s \in {"leaving", "disabling", "ended"} : pump' = [pump EXCEPT ![calls[c]] = s]
      BY <1>8, <2>2, TeardownEffect DEF StopCall
    <3>3. slot' = slot \/ (slot = calls[c] /\ slot' = None)
      BY <1>8, <2>2 DEF StopCall, FreeSlot
    <3>4. /\ Forget(calls[c]) /\ UNCHANGED <<terminated, fault, callOf, handler, handling>>
      BY <1>8, <2>2 DEF StopCall
    <3>5. Moves(calls[c], s)
      BY <3>1, <3>2, <3>3, <3>4 DEF Moves
    <3>6. QED BY <1>t, <1>i, <3>1, <3>5, MoveKeepsSlotInv
  <2>3. QED BY <2>1, <2>2
<1>9. CASE ProcessGone
  <2>1. /\ handler' = "idle" /\ UNCHANGED <<terminated, fault, callOf>>
        /\ pump' = [a \in Attempts |-> IF pump[a] \in {"none", "ended"} THEN pump[a] ELSE "killed"]
        /\ calls' = [c \in Calls |-> None]
    BY <1>9 DEF ProcessGone, CutShort
  <2>2. QED BY <1>i, <1>p, <2>1 DEF SlotInv
<1>10. CASE HandlerStep
  BY <1>4, <1>5, <1>10 DEF HandlerStep, DialSucceeds, DialFails, CancelDone, FreeSlot
<1>11. CASE TokenSwapped \/ StopReturns
  BY <1>5, <1>11 DEF TokenSwapped, StopReturns, CutShort
<1>12. CASE /\ ~HandlerStep /\ ~ProcessGone /\ ~StreamFinalized /\ ~TokenSwapped /\ ~StopReturns
            /\ \A a \in Attempts : ~PumpStep(a)
            /\ \A c \in Calls : ~StopCall(c) /\ ~DialIssued(c) /\ ~CancelIssued(c)
  BY <1>1, <1>12 DEF Next, CloudStep, DialDuplicate, DialRefused, CancelIgnored, LinkFlips,
     vars, Answered, LineDrops, PollSeesActive, UrcDispatched, StopBegins, StopStep, Exit,
     Crash, Launch
<1>13. QED BY <1>2, <1>3, <1>6, <1>7, <1>8, <1>9, <1>10, <1>11, <1>12

(* Steps keep StopInv: the call stop() tears down had no failure, so its   *)
(* pump ends when teardown() does.                                         *)
LEMMA StepKeepsStopInv ==
  ASSUME CallInv, Next
  PROVE  StopInv'
<1> USE DEF procVars, cloudVars, atVars, modemVars, ctxVars, histVars, PumpUnchanged
<1>t. PlainType /\ SeqType
  BY TypeParts DEF CallInv
<1>i. StopInv /\ SlotInv
  BY DEF CallInv
<1>p. /\ pump \in [Attempts -> PumpStates] /\ calls \in [Calls -> Slots]
      /\ fault \in [Attempts -> {"none", "pcm", "join", "raised"}] /\ slot \in Slots
      /\ stopping \in Slots /\ Slots = Attempts \union {None} /\ None \notin Attempts
  BY <1>t DEF PlainType, Slots, None, Attempts
<1>1. CASE UNCHANGED <<stopping, daemon, fault, pump, handler, slot, polling>>
  BY <1>1, <1>i DEF StopInv
<1>2. CASE daemon # "down" /\ UNCHANGED <<stopping, daemon, fault, pump>>
  BY <1>2, <1>i DEF StopInv
<1>3. CASE HandlerStep
  <2>1. CASE handler = "dialing" /\ Accepted(handling)
    <3>1. daemon # "down" /\ pump[handling] = "none"
      BY <1>i, <2>1 DEF StopInv, SlotInv
    <3>2. pump' = [pump EXCEPT ![handling] = "waiting"] /\ UNCHANGED <<stopping, daemon, fault>>
      BY <2>1 DEF Accepted
    <3>3. QED BY <1>i, <1>p, <3>1, <3>2 DEF StopInv
  <2>2. CASE CancelDone
    BY <1>2, <1>i, <2>2 DEF CancelDone, StopInv
  <2>3. QED BY <1>3, <2>1, <2>2 DEF HandlerStep, DialSucceeds, DialFails
<1>4. ASSUME NEW a \in Attempts, PumpStep(a) PROVE StopInv'
  <2>0. daemon # "down" /\ UNCHANGED <<daemon, stopping>>
    BY <1>4 DEF PumpStep, PumpConnected, PumpHangup, PumpHungUp, PcmEnabled, PcmFails,
       PumpRaises, Joined, JoinFails, Left, PcmDisabled, Event, Running
  <2>1. CASE a # stopping
    <3>1. ASSUME stopping # None PROVE pump'[stopping] = pump[stopping] /\ fault'[stopping] = fault[stopping]
      <4>1. \A b \in Attempts : b # a => pump'[b] = pump[b]
        BY <1>4, <1>p DEF PumpStep, PumpConnected, PumpHangup, PumpHungUp, PcmEnabled, PcmFails,
           PumpRaises, Joined, JoinFails, Left, PcmDisabled, RemoteHangup, Teardown
      <4>2. \A b \in Attempts : b # a => fault'[b] = fault[b]
        BY <1>4, <1>p DEF PumpStep, PumpConnected, PumpHangup, PumpHungUp, PcmEnabled, PcmFails,
           PumpRaises, Joined, JoinFails, Left, PcmDisabled
      <4>3. QED BY <1>p, <2>1, <3>1, <4>1, <4>2
    <3>2. QED BY <1>i, <2>0, <3>1 DEF StopInv
  <2>2. CASE a = stopping
    <3>1. pump[a] \in {"leaving", "disabling", "ended"} /\ fault[a] = "none"
      BY <1>i, <1>p, <2>2 DEF StopInv
    <3>2. CASE Left(a)
      <4>1. PICK s \in {"disabling", "waiting", "ended"} :
              pump' = [pump EXCEPT ![a] = s] /\ (s = "waiting" => fault[a] = "join")
        BY <1>t, <3>2, LeftEffect
      <4>2. fault' = fault
        BY <3>2 DEF Left
      <4>3. QED BY <1>i, <1>p, <2>0, <2>2, <3>1, <4>1, <4>2 DEF StopInv
    <3>3. CASE PcmDisabled(a)
      BY <1>i, <1>p, <2>0, <2>2, <3>1, <3>3 DEF StopInv, PcmDisabled, AfterTeardown
    <3>4. QED
      BY <1>4, <3>1, <3>2, <3>3 DEF PumpStep, PumpConnected, PumpHangup, PumpHungUp, PcmEnabled,
         PcmFails, PumpRaises, Joined, JoinFails, Event
  <2>3. QED BY <2>1, <2>2
<1>5. ASSUME NEW c \in Calls, StopCall(c) PROVE StopInv'
  <2>1. CASE calls[c] = None
    BY <1>1, <1>5, <2>1 DEF StopCall
  <2>2. CASE calls[c] # None
    <3>1. calls[c] \in Attempts /\ fault[calls[c]] = "none"
      BY <1>i, <1>p, <2>2 DEF SlotInv
    <3>2. PICK s \in {"leaving", "disabling", "ended"} : pump' = [pump EXCEPT ![calls[c]] = s]
      BY <1>5, <2>2, TeardownEffect DEF StopCall
    <3>3. daemon' = "stopping" /\ stopping' = calls[c] /\ fault' = fault
      BY <1>5, <2>2 DEF StopCall, StopFree
    <3>4. QED BY <1>p, <3>1, <3>2, <3>3 DEF StopInv
  <2>3. QED BY <2>1, <2>2
<1>6. CASE StopBegins \/ Launch
  BY <1>6, <1>i DEF StopBegins, Launch, StopInv
<1>7. CASE StopReturns
  BY <1>7, <1>i DEF StopReturns, StopFree, StopInv
<1>8. CASE ProcessGone
  <2>1. /\ daemon' = "down" /\ stopping' = None /\ handler' = "idle" /\ slot' = None /\ polling' = FALSE
        /\ pump' = [a \in Attempts |-> IF pump[a] \in {"none", "ended"} THEN pump[a] ELSE "killed"]
    BY <1>8 DEF ProcessGone, CutShort, FreeSlot
  <2>2. QED BY <1>p, <2>1 DEF StopInv
<1>9. ASSUME NEW c \in Calls, DialIssued(c) \/ CancelIssued(c) PROVE StopInv'
  BY <1>2, <1>9 DEF DialIssued, CancelIssued, MayHandle, Running
<1>10. CASE TokenSwapped \/ PollSeesActive \/ StreamFinalized
  BY <1>2, <1>10 DEF TokenSwapped, PollSeesActive, StreamFinalized, Running
<1>11. CASE /\ ~HandlerStep /\ ~ProcessGone /\ ~StreamFinalized /\ ~TokenSwapped /\ ~StopReturns
            /\ ~PollSeesActive /\ ~StopBegins /\ ~Launch
            /\ \A a \in Attempts : ~PumpStep(a)
            /\ \A c \in Calls : ~StopCall(c) /\ ~DialIssued(c) /\ ~CancelIssued(c)
  BY <1>1, <1>11 DEF Next, CloudStep, DialDuplicate, DialRefused, CancelIgnored, LinkFlips,
     vars, Answered, LineDrops, UrcDispatched, StopStep, Exit, Crash
<1>12. QED BY <1>3, <1>4, <1>5, <1>6, <1>7, <1>8, <1>9, <1>10, <1>11

(* A step of one pump keeps UpInv when it keeps it for its own attempt,    *)
(* and switches PCM only while it has the slot.                            *)
LEMMA PumpKeepsUpInv ==
  ASSUME PlainType, SeqType, SlotInv, UpInv, daemon = "up", NEW a \in Attempts,
         \A b \in Attempts : b # a => held'[b] = held[b] /\ pump'[b] = pump[b],
         slot' = slot, callOf' = callOf, calls' = calls \/ Forget(a),
         modemPcm' = modemPcm \/ slot = a,
         held'[a] # {} => slot = a,
         pump'[a] = "joining" \/ "audio" \in held'[a] => modemPcm',
         pump'[a] \notin {"none", "ended", "killed"} => slot = a \/ calls'[callOf[a]] = a
  PROVE  UpInv'
<1> SUFFICES ASSUME NEW b \in Attempts, b # a
             PROVE  /\ held'[b] # {} => slot' = b
                    /\ pump'[b] = "joining" \/ "audio" \in held'[b] => modemPcm'
                    /\ pump'[b] \notin {"none", "ended", "killed"} =>
                         slot' = b \/ calls'[callOf'[b]] = b
  BY DEF UpInv
<1>1. held'[b] # {} => slot' = b
  BY DEF UpInv
<1>2. ASSUME pump'[b] = "joining" \/ "audio" \in held'[b] PROVE modemPcm'
  <2>1. modemPcm
    BY <1>2 DEF UpInv
  <2>2. slot = b
    BY <1>2 DEF UpInv, SlotInv
  <2>3. QED BY <2>1, <2>2
<1>3. ASSUME pump'[b] \notin {"none", "ended", "killed"}, slot' # b PROVE calls'[callOf'[b]] = b
  <2>1. calls[callOf[b]] = b
    BY <1>3 DEF UpInv
  <2>2. callOf[b] \in Calls
    BY <1>3 DEF SeqType, SlotInv, Attempts
  <2>3. QED BY <2>1, <2>2 DEF Forget, PlainType
<1>4. QED BY <1>1, <1>2, <1>3

(* Steps keep UpInv.                                                       *)
LEMMA StepKeepsUpInv ==
  ASSUME CallInv, Next
  PROVE  UpInv'
<1> USE DEF procVars, cloudVars, atVars, modemVars, ctxVars, histVars, PumpUnchanged
<1>t. PlainType /\ SeqType
  BY TypeParts DEF CallInv
<1>i. UpInv /\ SlotInv /\ HeldInv /\ StopInv /\ SentInv
  BY DEF CallInv
<1>p. /\ pump \in [Attempts -> PumpStates] /\ calls \in [Calls -> Slots]
      /\ held \in [Attempts -> SUBSET Resources] /\ slot \in Slots
      /\ stopping \in Slots /\ Slots = Attempts \union {None} /\ None \notin Attempts
  BY <1>t DEF PlainType, Slots, None, Attempts
<1> SUFFICES ASSUME daemon' = "up" PROVE UpInv'
  BY DEF UpInv
<1>1. CASE UNCHANGED <<daemon, held, slot, pump, modemPcm, calls, callOf>>
  BY <1>1, <1>i DEF UpInv
<1>2. CASE Launch
  <2>1. daemon = "down" /\ UNCHANGED <<held, slot, pump, modemPcm, calls, callOf>>
    BY <1>2 DEF Launch
  <2>2. \A a \in Attempts : pump[a] \in {"none", "ended", "killed"} /\ held[a] = {}
    BY <1>i, <2>1 DEF StopInv, HeldInv
  <2>3. QED BY <2>1, <2>2 DEF UpInv
<1>3. ASSUME NEW c \in Calls, DialIssued(c) PROVE UpInv'
  <2>1. callOf \in Seq(Calls) /\ callOf' = Append(callOf, c)
    BY <1>3, <1>t DEF DialIssued, SeqType
  <2>2. Len(callOf) \in Nat /\ \A b \in 1 .. Len(callOf) : callOf'[b] = callOf[b]
    BY <2>1, AppendProperties
  <2>3. \A b \in Attempts : pump[b] # "none" => callOf'[b] = callOf[b]
    BY <1>i, <2>2 DEF SlotInv, Attempts
  <2>4. slot = None /\ daemon = "up" /\ UNCHANGED <<held, pump, modemPcm, calls>>
    BY <1>3 DEF DialIssued
  <2>5. QED BY <1>i, <1>p, <2>3, <2>4 DEF UpInv, SlotInv
<1>4. CASE handler = "dialing" /\ Accepted(handling) /\ slot' \in {slot, None} /\ modemPcm' = modemPcm
  <2>1. handling \in Attempts /\ pump[handling] = "none" /\ slot = handling
    BY <1>4, <1>t, CallAssumption DEF CallInv, SlotInv, PlainType, Slots, SeqType, Attempts, None
  <2>2. callOf[handling] \in Calls /\ calls[callOf[handling]] = None /\ held[handling] = {}
    BY <1>4, <1>i, <1>t, <2>1 DEF SlotInv, SeqType, HeldInv
  <2>3. /\ calls' = [calls EXCEPT ![callOf[handling]] = handling]
        /\ pump' = [pump EXCEPT ![handling] = "waiting"] /\ daemon = "up"
        /\ UNCHANGED <<held, modemPcm, callOf>>
    BY <1>4 DEF Accepted
  <2>4. \A b \in Attempts : b # handling =>
          /\ held[b] = {} /\ pump[b] # "joining"
          /\ pump[b] \notin {"none", "ended", "killed"} => calls[callOf[b]] = b
    BY <1>i, <2>1, <2>3 DEF UpInv, SlotInv
  <2>5. \A b \in Attempts : b # handling =>
          (pump'[b] \notin {"none", "ended", "killed"} => calls'[callOf'[b]] = b)
    <3> SUFFICES ASSUME NEW b \in Attempts, b # handling, pump'[b] \notin {"none", "ended", "killed"}
                 PROVE  calls'[callOf'[b]] = b
      OBVIOUS
    <3>1. calls[callOf[b]] = b
      BY <1>p, <2>3, <2>4
    <3>2. callOf[b] # callOf[handling]
      BY <1>p, <2>2, <3>1
    <3>3. QED BY <1>p, <2>3, <3>1, <3>2
  <2>6. calls'[callOf'[handling]] = handling /\ pump'[handling] = "waiting" /\ held'[handling] = {}
    BY <1>p, <2>1, <2>2, <2>3
  <2>7. \A b \in Attempts : b # handling => held'[b] = {} /\ pump'[b] # "joining"
    BY <1>p, <2>3, <2>4
  <2>8. QED BY <2>5, <2>6, <2>7 DEF UpInv
<1>5. ASSUME NEW a \in Attempts, PumpStep(a) PROVE UpInv'
  <2>0. daemon = "up"
    BY <1>5 DEF PumpStep, PumpConnected, PumpHangup, PumpHungUp, PcmEnabled, PcmFails,
       PumpRaises, Joined, JoinFails, Left, PcmDisabled
  <2>u. /\ held[a] # {} => slot = a
        /\ pump[a] = "joining" \/ "audio" \in held[a] => modemPcm
        /\ pump[a] \notin {"none", "ended", "killed"} => slot = a \/ calls[callOf[a]] = a
    BY <1>i, <2>0 DEF UpInv
  <2>k. /\ pump[a] \in {"enabling", "joining", "hanging"} => slot = a
        /\ pump[a] = "disabling" => held[a] = {"pcm"}
        /\ "audio" \in held[a] => "rtc" \in held[a]
        /\ held[a] # {} => "pcm" \in held[a]
    BY <1>i DEF SlotInv, HeldInv
  <2>g. ASSUME \A b \in Attempts : b # a => held'[b] = held[b] /\ pump'[b] = pump[b],
               slot' = slot, callOf' = callOf, calls' = calls \/ Forget(a),
               modemPcm' = modemPcm \/ slot = a,
               held'[a] # {} => slot = a,
               pump'[a] = "joining" \/ "audio" \in held'[a] => modemPcm',
               pump'[a] \notin {"none", "ended", "killed"} => slot = a \/ calls'[callOf[a]] = a
        PROVE  UpInv'
    BY <1>i, <1>t, <2>0, <2>g, PumpKeepsUpInv
  <2>1. CASE PumpConnected(a)
    BY <1>p, <2>1, <2>u, <2>g DEF PumpConnected, Event
  <2>2. CASE PumpHangup(a)
    <3>1. CASE a \in terminated
      BY <1>p, <2>2, <2>u, <2>g, <3>1 DEF PumpHangup, Event
    <3>2. CASE a \notin terminated
      <4>1. Teardown(a, "ended") /\ Forget(a) /\ UNCHANGED <<slot, callOf, modemPcm>>
        BY <2>2, <3>2 DEF PumpHangup, RemoteHangup
      <4>2. CASE held[a] = {}
        BY <1>p, <2>g, <4>1, <4>2, TeardownEffect
      <4>3. CASE held[a] # {}
        BY <1>p, <2>g, <2>k, <2>u, <4>1, <4>3, TeardownEffect
      <4>4. QED BY <4>2, <4>3
    <3>3. QED BY <3>1, <3>2
  <2>3. CASE PumpHungUp(a)
    BY <1>p, <2>3, <2>u, <2>k, <2>g DEF PumpHungUp
  <2>4. ASSUME NEW record \in BOOLEAN, PcmEnabled(a, record) PROVE UpInv'
    BY <1>p, <2>4, <2>k, <2>g DEF PcmEnabled, CpcmregEnable
  <2>5. CASE PcmFails(a)
    <3>1. held[a] = {} /\ slot = a
      BY <1>i, <2>5, <2>k DEF PcmFails, HeldInv
    <3>2. PICK then \in {"hanging", "ended"} : Teardown(a, then)
      BY <2>5 DEF PcmFails, RemoteHangup
    <3>3. Forget(a) /\ UNCHANGED <<slot, callOf>>
      BY <2>5 DEF PcmFails, RemoteHangup
    <3>4. QED BY <1>p, <2>g, <3>1, <3>2, <3>3, TeardownEffect
  <2>6. CASE PumpRaises(a)
    BY <1>p, <2>6, <2>k, <2>g DEF PumpRaises, CpcmregEnable
  <2>7. CASE Joined(a)
    BY <1>p, <2>7, <2>k, <2>u, <2>g DEF Joined
  <2>8. CASE JoinFails(a)
    <3>1. Teardown(a, "waiting") /\ Forget(a) /\ slot = a /\ modemPcm /\ UNCHANGED <<slot, callOf, modemPcm>>
      BY <2>8, <2>k, <2>u DEF JoinFails, RemoteHangup
    <3>2. QED BY <1>p, <2>g, <3>1, TeardownEffect
  <2>9. CASE Left(a)
    <3>1. PICK s \in {"disabling", "waiting", "ended"} :
            /\ pump' = [pump EXCEPT ![a] = s]
            /\ held' = [held EXCEPT ![a] = held[a] \intersect {"pcm"}]
      BY <1>t, <2>9, LeftEffect
    <3>2. slot = a
      BY <1>i, <2>9, <2>u DEF Left, HeldInv
    <3>3. QED BY <1>p, <2>9, <2>g, <3>1, <3>2 DEF Left
  <2>10. CASE PcmDisabled(a)
    <3>1. slot = a
      BY <2>10, <2>u, <2>k DEF PcmDisabled
    <3>2. PICK s \in {"waiting", "ended"} : pump' = [pump EXCEPT ![a] = s]
      BY <2>10 DEF PcmDisabled, AfterTeardown
    <3>3. QED BY <1>p, <2>10, <2>g, <3>1, <3>2 DEF PcmDisabled
  <2>11. QED
    BY <1>5, <2>1, <2>2, <2>3, <2>4, <2>5, <2>6, <2>7, <2>8, <2>9, <2>10 DEF PumpStep
<1>6. CASE StreamFinalized
  <2>1. slot \in Attempts /\ pump[slot] = "ended" /\ daemon = "up"
    BY <1>6, <1>i, <1>p DEF StreamFinalized, StopInv
  <2>2. QED BY <1>6, <1>i, <2>1 DEF StreamFinalized, UpInv, HeldInv
<1>7. CASE HandlerStep
  BY <1>1, <1>4, <1>7 DEF HandlerStep, DialSucceeds, DialFails, CancelDone, FreeSlot, Accepted
<1>8. CASE StopStep \/ StopBegins \/ ProcessGone
  BY <1>8 DEF StopStep, StopReturns, StopCall, StopFree, StopBegins, ProcessGone
<1>9. CASE /\ ~HandlerStep /\ ~ProcessGone /\ ~StreamFinalized /\ ~StopStep /\ ~StopBegins /\ ~Launch
           /\ \A a \in Attempts : ~PumpStep(a)
           /\ \A c \in Calls : ~DialIssued(c)
  BY <1>1, <1>9 DEF Next, CloudStep, DialDuplicate, DialRefused, CancelIgnored, CancelIssued,
     LinkFlips, TokenSwapped, vars, Answered, LineDrops, PollSeesActive, UrcDispatched, Exit,
     Crash
<1>10. QED BY <1>2, <1>3, <1>5, <1>6, <1>7, <1>8, <1>9

(* A step of one pump keeps QueueInv when it keeps it for its own attempt. *)
LEMMA PumpKeepsQueueInv ==
  ASSUME PlainType, QueueInv, NEW a \in Attempts,
         \A b \in Attempts : b # a => /\ queue'[b] = queue[b] /\ pump'[b] = pump[b]
                                      /\ sent'[b] = sent[b],
         slot' = slot, polling' = polling,
         pump'[a] \notin {"ended", "killed"} =>
           /\ Once(queue'[a])
           /\ Pending(queue'[a]) => sent'[a] = Acked /\ slot = a /\ ~polling,
         polling /\ slot = a => pump'[a] = "ended"
  PROVE  QueueInv'
BY DEF QueueInv, PlainType, Slots

(* Steps keep QueueInv: the poller posts its one connected and stops.      *)
LEMMA StepKeepsQueueInv ==
  ASSUME CallInv, Next
  PROVE  QueueInv'
<1> USE DEF procVars, cloudVars, atVars, modemVars, ctxVars, histVars, PumpUnchanged
<1>t. PlainType /\ SeqType
  BY TypeParts DEF CallInv
<1>i. QueueInv /\ SlotInv /\ HeldInv /\ StopInv /\ SentInv
  BY DEF CallInv
<1>p. /\ pump \in [Attempts -> PumpStates] /\ calls \in [Calls -> Slots]
      /\ held \in [Attempts -> SUBSET Resources] /\ slot \in Slots /\ polling \in BOOLEAN
      /\ queue \in [Attempts -> Queues] /\ sent \in [Attempts -> Seq(CallEvents)]
      /\ Slots = Attempts \union {None} /\ None \notin Attempts
  BY <1>t DEF PlainType, SeqType, Slots, None, Attempts
<1>1. CASE UNCHANGED <<pump, queue, sent, slot, polling>>
  BY <1>1, <1>i DEF QueueInv
<1>2. ASSUME NEW c \in Calls, DialIssued(c) PROVE QueueInv'
  <2>1. slot = None /\ UNCHANGED <<pump, queue, sent, polling>>
    BY <1>2 DEF DialIssued
  <2>2. ~polling /\ \A b \in Attempts : pump[b] \notin {"ended", "killed"} => ~Pending(queue[b])
    BY <1>i, <1>p, <2>1 DEF QueueInv
  <2>3. QED BY <1>i, <2>1, <2>2 DEF QueueInv
<1>3. CASE DialSucceeds \/ \E onLine \in BOOLEAN : DialFails(onLine)
  <2>0. handler = "dialing" /\ Accepted(handling)
    BY <1>3 DEF DialSucceeds, DialFails
  <2>1. handling \in Attempts /\ pump[handling] = "none" /\ slot = handling
    BY <2>0, <1>t, CallAssumption DEF CallInv, SlotInv, PlainType, Slots, SeqType, Attempts, None
  <2>2. sent[handling] = <<>>
    BY <1>i, <2>1 DEF SentInv
  <2>3. \A b \in Attempts : pump[b] \notin {"ended", "killed"} => ~Pending(queue[b]) /\ Once(queue[b])
    BY <1>i, <2>1, <2>2, Histories DEF QueueInv
  <2>4. sent' = [sent EXCEPT ![handling] = Acked] /\ pump' = [pump EXCEPT ![handling] = "waiting"]
    BY <2>0, <2>2, Histories DEF Accepted, Tell
  <2>5. CASE DialSucceeds
    <3>1. queue' = queue /\ slot' = handling
      BY <2>1, <2>5 DEF DialSucceeds
    <3>2. pump'[slot'] = "waiting" /\ sent'[slot'] = Acked
      BY <1>p, <2>1, <2>4, <3>1
    <3>3. \A b \in Attempts : pump'[b] \notin {"ended", "killed"} => ~Pending(queue'[b]) /\ Once(queue'[b])
      BY <1>p, <2>1, <2>3, <2>4, <3>1
    <3>4. QED BY <1>p, <2>1, <3>1, <3>2, <3>3 DEF QueueInv
  <2>6. ASSUME NEW onLine \in BOOLEAN, DialFails(onLine) PROVE QueueInv'
    <3>1. queue' = [queue EXCEPT ![handling] = <<"remote_hangup">>] /\ polling' = FALSE
      BY <2>6 DEF DialFails, FreeSlot
    <3>2. \A b \in Attempts : pump'[b] \notin {"ended", "killed"} => ~Pending(queue'[b]) /\ Once(queue'[b])
      BY <1>p, <2>1, <2>3, <2>4, <3>1, EmptyQueue
    <3>3. QED BY <3>1, <3>2 DEF QueueInv
  <2>7. QED BY <1>3, <2>5, <2>6
<1>4. ASSUME NEW b \in Slots, Post(b, "remote_hangup"), UNCHANGED <<pump, sent, slot, polling>>
      PROVE  QueueInv'
  <2>1. ASSUME NEW a \in Attempts
        PROVE  /\ Pending(queue'[a]) => Pending(queue[a])
               /\ Once(queue[a]) => Once(queue'[a])
    <3>1. queue[a] \in Queues
      BY <1>p
    <3>2. queue'[a] \in {queue[a], Append(queue[a], "remote_hangup")}
      BY <1>4, <1>p DEF Post
    <3>3. QED BY <3>1, <3>2, PostHangup
  <2>2. QED BY <1>4, <1>i, <2>1 DEF QueueInv
<1>5. ASSUME NEW a \in Attempts, PumpStep(a) PROVE QueueInv'
  <2>q. /\ queue[a] \in Queues
        /\ pump[a] \notin {"ended", "killed"} =>
             /\ Once(queue[a])
             /\ Pending(queue[a]) => sent[a] = Acked /\ slot = a /\ ~polling
        /\ polling /\ slot = a => pump[a] \in {"waiting", "ended"}
        /\ polling /\ slot = a /\ pump[a] = "waiting" => sent[a] = Acked
    BY <1>i, <1>p DEF QueueInv
  <2>g. ASSUME \A b \in Attempts : b # a => /\ queue'[b] = queue[b] /\ pump'[b] = pump[b]
                                            /\ sent'[b] = sent[b],
               slot' = slot, polling' = polling,
               pump'[a] \notin {"ended", "killed"} =>
                 /\ Once(queue'[a])
                 /\ Pending(queue'[a]) => sent'[a] = Acked /\ slot = a /\ ~polling,
               polling /\ slot = a => pump'[a] = "ended"
        PROVE  QueueInv'
    BY <1>i, <1>t, <2>g, PumpKeepsQueueInv
  <2>o. \A b \in Attempts : b # a => /\ queue'[b] = queue[b] /\ pump'[b] = pump[b]
                                     /\ sent'[b] = sent[b]
    <3>1. \A b \in Attempts : b # a => pump'[b] = pump[b]
      BY <1>5, <1>p DEF PumpStep, PumpConnected, PumpHangup, PumpHungUp, PcmEnabled, PcmFails,
         PumpRaises, Joined, JoinFails, Left, PcmDisabled, RemoteHangup, Teardown
    <3>2. \A b \in Attempts : b # a => queue'[b] = queue[b]
      BY <1>5, <1>p DEF PumpStep, PumpConnected, PumpHangup, PumpHungUp, PcmEnabled, PcmFails,
         PumpRaises, Joined, JoinFails, Left, PcmDisabled, Event, Post
    <3>3. \A b \in Attempts : b # a => sent'[b] = sent[b]
      BY <1>5, <1>p DEF PumpStep, PumpConnected, PumpHangup, PumpHungUp, PcmEnabled, PcmFails,
         PumpRaises, Joined, JoinFails, Left, PcmDisabled, RemoteHangup, Tell
    <3>4. QED BY <3>1, <3>2, <3>3
  <2>1. CASE PumpConnected(a)
    <3>1. /\ pump[a] = "waiting" /\ queue[a] # <<>> /\ Head(queue[a]) = "connected"
          /\ queue' = [queue EXCEPT ![a] = Tail(queue[a])] /\ UNCHANGED <<slot, polling>>
      BY <2>1 DEF PumpConnected, Event
    <3>2. Once(Tail(queue[a])) /\ ~Pending(Tail(queue[a])) /\ ~(polling /\ slot = a)
      BY <2>q, <3>1, TakeEvent
    <3>3. queue'[a] = Tail(queue[a])
      BY <1>p, <3>1
    <3>4. QED BY <2>g, <2>o, <3>1, <3>2, <3>3
  <2>2. CASE PumpHangup(a)
    <3>1. /\ pump[a] = "waiting" /\ queue[a] # <<>>
          /\ queue' = [queue EXCEPT ![a] = Tail(queue[a])] /\ UNCHANGED <<slot, polling>>
      BY <2>2 DEF PumpHangup, Event
    <3>2. queue'[a] = Tail(queue[a])
      BY <1>p, <3>1
    <3>3. Once(queue'[a]) /\ (Pending(queue'[a]) => sent[a] = Acked)
      BY <2>q, <3>1, <3>2, TakeEvent
    <3>4. CASE a \in terminated \/ sent[a] = Acked
      <4>1. held[a] = {}
        BY <1>i, <3>1, <3>4 DEF HeldInv
      <4>2. pump' = [pump EXCEPT ![a] = "ended"]
        BY <2>2, <4>1, TeardownEffect DEF PumpHangup, RemoteHangup
      <4>3. pump'[a] = "ended"
        BY <1>p, <4>2
      <4>4. QED BY <2>g, <2>o, <3>1, <4>3
    <3>5. CASE a \notin terminated /\ sent[a] # Acked
      <4>1. ~Pending(queue'[a]) /\ ~(polling /\ slot = a)
        BY <2>q, <3>1, <3>3, <3>5
      <4>2. QED BY <2>g, <2>o, <3>1, <3>3, <4>1
    <3>6. QED BY <3>4, <3>5
  <2>3. CASE PumpHungUp(a)
    <3>1. /\ pump[a] = "hanging" /\ queue' = [queue EXCEPT ![a] = Append(queue[a], "remote_hangup")]
          /\ UNCHANGED <<sent, slot, polling>>
      BY <2>3 DEF PumpHungUp, Post
    <3>2. queue'[a] = Append(queue[a], "remote_hangup")
      BY <1>p, <3>1
    <3>3. /\ Once(queue'[a]) /\ ~(polling /\ slot = a)
          /\ Pending(queue'[a]) => sent[a] = Acked /\ slot = a /\ ~polling
      BY <2>q, <3>1, <3>2, PostHangup
    <3>4. QED BY <2>g, <2>o, <3>1, <3>3
  <2>4. CASE pump[a] \in {"enabling", "joining"} /\ UNCHANGED <<queue, slot, polling>>
    <3>1. sent[a] # Acked
      BY <1>i, <2>4, Histories DEF SentInv
    <3>2. Once(queue'[a]) /\ ~Pending(queue'[a]) /\ ~(polling /\ slot = a)
      BY <2>4, <2>q, <3>1
    <3>3. QED BY <2>g, <2>o, <2>4, <3>2
  <2>5. CASE pump[a] \in {"leaving", "disabling"} /\ UNCHANGED <<queue, sent, slot, polling>>
    BY <2>g, <2>o, <2>5, <2>q
  <2>6. QED
    BY <1>5, <2>1, <2>2, <2>3, <2>4, <2>5
       DEF PumpStep, PcmEnabled, PcmFails, PumpRaises, Joined, JoinFails, Left, PcmDisabled
<1>6. CASE PollSeesActive
  <2>1. /\ polling /\ slot \in Attempts /\ queue' = [queue EXCEPT ![slot] = Append(queue[slot], "connected")]
        /\ polling' = FALSE /\ UNCHANGED <<pump, sent, slot>>
    BY <1>6, <1>i, <1>p DEF PollSeesActive, Post, QueueInv
  <2>2. \A b \in Attempts : pump[b] \notin {"ended", "killed"} => ~Pending(queue[b])
    BY <1>i, <2>1 DEF QueueInv
  <2>3. pump[slot] \in {"waiting", "ended"} /\ (pump[slot] = "waiting" => sent[slot] = Acked)
    BY <1>i, <2>1 DEF QueueInv
  <2>4. \A b \in Attempts : b # slot => queue'[b] = queue[b]
    BY <1>p, <2>1
  <2>5. pump[slot] = "waiting" => Once(queue'[slot])
    BY <1>p, <2>1, <2>2, PostConnected
  <2>6. QED BY <1>i, <2>1, <2>2, <2>3, <2>4, <2>5 DEF QueueInv
<1>7. CASE StreamFinalized
  <2>1. /\ polling' = FALSE /\ queue' = [queue EXCEPT ![slot] = <<>>]
        /\ slot \in Attempts /\ UNCHANGED <<pump, sent>>
    BY <1>7, <1>p DEF StreamFinalized, FreeSlot, Drained
  <2>2. \A b \in Attempts : pump[b] \notin {"ended", "killed"} => Once(queue'[b]) /\ ~Pending(queue'[b])
    BY <1>i, <1>p, <2>1, EmptyQueue DEF QueueInv
  <2>3. QED BY <2>1, <2>2 DEF QueueInv
<1>8. ASSUME NEW c \in Calls, StopCall(c) PROVE QueueInv'
  <2> DEFINE a == calls[c]
  <2>1. CASE a = None
    BY <1>1, <1>8, <2>1 DEF StopCall
  <2>2. CASE a # None
    <3>1. a \in Attempts /\ pump[a] \in {"waiting", "enabling", "joining"}
      BY <1>i, <1>p, <2>2 DEF SlotInv
    <3>2. PICK s \in {"leaving", "disabling", "ended"} : pump' = [pump EXCEPT ![a] = s]
      BY <1>8, <2>2, TeardownEffect DEF StopCall
    <3>3. CASE pump[a] = "waiting" /\ slot = a
      <4>1. polling' = FALSE /\ queue' = [queue EXCEPT ![a] = <<>>] /\ sent' = sent
        BY <1>8, <2>2, <3>3 DEF StopCall, FreeSlot, Drained
      <4>2. \A b \in Attempts : pump'[b] \notin {"ended", "killed"} => Once(queue'[b]) /\ ~Pending(queue'[b])
        BY <1>i, <1>p, <3>1, <3>2, <3>3, <4>1, EmptyQueue DEF QueueInv
      <4>3. QED BY <4>1, <4>2 DEF QueueInv
    <3>4. CASE ~(pump[a] = "waiting" /\ slot = a)
      <4>1. UNCHANGED <<slot, polling, queue, sent>>
        BY <1>8, <2>2, <3>4 DEF StopCall
      <4>2. ~(polling /\ slot = a)
        BY <1>i, <3>1, <3>4 DEF QueueInv
      <4> HIDE DEF a
      <4>3. \A b \in Attempts : b # a => pump'[b] = pump[b]
        BY <1>p, <3>2
      <4>4. Once(queue[a]) /\ (Pending(queue[a]) => sent[a] = Acked /\ slot = a /\ ~polling)
        BY <1>i, <3>1 DEF QueueInv
      <4>5. QED BY <1>t, <1>i, <3>1, <4>1, <4>2, <4>3, <4>4, PumpKeepsQueueInv
    <3>5. QED BY <3>3, <3>4
  <2>3. QED BY <2>1, <2>2
<1>9. CASE ProcessGone
  <2>1. queue' = [a \in Attempts |-> <<>>] /\ polling' = FALSE
    BY <1>9 DEF ProcessGone, FreeSlot
  <2>2. QED BY <2>1, EmptyQueue DEF QueueInv
<1>10. CASE CancelDone
  BY <1>4, <1>10, <1>t DEF CancelDone, PlainType
<1>11. CASE UrcDispatched
  BY <1>1, <1>4, <1>11, <1>p DEF UrcDispatched
<1>12. CASE /\ ~HandlerStep /\ ~ProcessGone /\ ~StreamFinalized /\ ~PollSeesActive /\ ~UrcDispatched
            /\ \A a \in Attempts : ~PumpStep(a)
            /\ \A c \in Calls : ~StopCall(c) /\ ~DialIssued(c)
  BY <1>1, <1>12 DEF Next, CloudStep, DialDuplicate, DialRefused, CancelIgnored, CancelIssued,
     LinkFlips, TokenSwapped, vars, Answered, LineDrops, StopBegins, StopStep, StopReturns,
     Exit, Crash, Launch
<1>13. QED
  BY <1>2, <1>3, <1>5, <1>6, <1>7, <1>8, <1>9, <1>10, <1>11, <1>12 DEF HandlerStep

(* Steps keep OneAttemptPerCall: a dial is issued only when no attempt has *)
(* the slot and the call id has no context, and UpInv leaves no third kind *)
(* of attempt that runs.                                                   *)
LEMMA StepKeepsOneAttempt ==
  ASSUME CallInv, Next
  PROVE  OneAttemptPerCall'
<1> USE DEF procVars, cloudVars, atVars, modemVars, ctxVars, histVars, PumpUnchanged
<1>t. PlainType /\ SeqType
  BY TypeParts DEF CallInv
<1>i. OneAttemptPerCall /\ UpInv /\ SlotInv /\ StopInv
  BY DEF CallInv
<1>p. /\ pump \in [Attempts -> PumpStates] /\ calls \in [Calls -> Slots]
      /\ Slots = Attempts \union {None} /\ None \notin Attempts
  BY <1>t DEF PlainType, Slots, None, Attempts
<1> SUFFICES ASSUME daemon' = "up" PROVE OneAttemptPerCall'
  BY DEF OneAttemptPerCall
<1>n. Len(callOf) \in Nat /\ 1 .. Len(callOf) \subseteq Attempts
  BY <1>t, CallAssumption DEF SeqType, Attempts
<1>1. ASSUME daemon = "up", callOf' = callOf, \A a \in 1 .. Len(callOf) : Busy(a)' => Busy(a)
      PROVE  OneAttemptPerCall'
  BY <1>1, <1>i DEF OneAttemptPerCall
<1>2. CASE UNCHANGED <<daemon, callOf, handler, handling, pump>>
  <2>1. \A a \in 1 .. Len(callOf) : Busy(a)' => Busy(a)
    BY <1>2 DEF Busy
  <2>2. QED BY <1>1, <1>2, <2>1
<1>3. CASE Launch
  <2>1. daemon = "down" /\ UNCHANGED <<pump, handler>>
    BY <1>3 DEF Launch
  <2>2. \A a \in Attempts : ~Busy(a)'
    BY <1>i, <2>1 DEF StopInv, Busy
  <2>3. callOf' = callOf
    BY <1>3 DEF Launch
  <2>4. QED BY <1>n, <2>2, <2>3 DEF OneAttemptPerCall
<1>4. ASSUME NEW c \in Calls, DialIssued(c) PROVE OneAttemptPerCall'
  <2> DEFINE n == Len(callOf) + 1
  <2>1. callOf \in Seq(Calls) /\ callOf' = Append(callOf, c)
    BY <1>4, <1>t DEF DialIssued, SeqType
  <2>2. /\ Len(callOf') = n /\ callOf'[n] = c
        /\ \A b \in 1 .. Len(callOf) : callOf'[b] = callOf[b]
    BY <2>1, AppendProperties
  <2>3. /\ slot = None /\ calls[c] = None /\ daemon = "up" /\ pump' = pump
        /\ handler = "idle" /\ handling' = n
    BY <1>4, <2>2 DEF DialIssued, MayHandle
  <2>4. \A b \in 1 .. Len(callOf) : Busy(b)' => Busy(b) /\ callOf[b] # c
    <3> SUFFICES ASSUME NEW b \in 1 .. Len(callOf), Busy(b)'
                 PROVE  Busy(b) /\ callOf[b] # c
      OBVIOUS
    <3>1. b \in Attempts /\ b # n
      BY <1>n
    <3>2. pump[b] \notin {"none", "ended", "killed"}
      BY <2>3, <3>1 DEF Busy
    <3>3. calls[callOf[b]] = b
      BY <1>i, <1>p, <2>3, <3>1, <3>2 DEF UpInv
    <3>4. QED BY <1>p, <2>3, <3>1, <3>2, <3>3 DEF Busy
  <2>5. \A b \in 1 .. Len(callOf') : b = n \/ b \in 1 .. Len(callOf)
    BY <1>n, <2>2
  <2> HIDE DEF n
  <2>6. SUFFICES ASSUME NEW a \in 1 .. Len(callOf'), NEW b \in 1 .. Len(callOf'),
                        Busy(a)', Busy(b)', callOf'[a] = callOf'[b]
                 PROVE  a = b
    BY DEF OneAttemptPerCall
  <2>7. CASE a = n \/ b = n
    BY <2>2, <2>4, <2>5, <2>6, <2>7
  <2>8. CASE a # n /\ b # n
    <3>1. a \in 1 .. Len(callOf) /\ b \in 1 .. Len(callOf)
      BY <2>5, <2>8
    <3>2. QED BY <1>i, <2>2, <2>3, <2>4, <2>6, <3>1 DEF OneAttemptPerCall
  <2>9. QED BY <2>7, <2>8
<1>5. CASE HandlerStep
  <2>1. CASE handler = "dialing" /\ Accepted(handling)
    <3>1. daemon = "up" /\ callOf' = callOf /\ handler' = "idle" /\ pump' = [pump EXCEPT ![handling] = "waiting"]
      BY <2>1 DEF Accepted
    <3>2. \A a \in Attempts : Busy(a)' => Busy(a)
      BY <1>p, <2>1, <3>1 DEF Busy
    <3>3. QED BY <1>1, <1>n, <3>1, <3>2
  <2>2. CASE CancelDone
    <3>1. daemon = "up" /\ callOf' = callOf /\ handler' = "idle" /\ pump' = pump
      BY <2>2 DEF CancelDone
    <3>2. QED BY <1>1, <3>1 DEF Busy
  <2>3. QED BY <1>5, <2>1, <2>2 DEF HandlerStep, DialSucceeds, DialFails
<1>6. ASSUME NEW a \in Attempts, PumpStep(a) PROVE OneAttemptPerCall'
  <2>1. daemon = "up" /\ UNCHANGED <<callOf, handler, handling>>
    BY <1>6 DEF PumpStep, PumpConnected, PumpHangup, PumpHungUp, PcmEnabled, PcmFails,
       PumpRaises, Joined, JoinFails, Left, PcmDisabled
  <2>2. \A b \in Attempts : b # a => pump'[b] = pump[b]
    BY <1>6, <1>p DEF PumpStep, PumpConnected, PumpHangup, PumpHungUp, PcmEnabled, PcmFails,
       PumpRaises, Joined, JoinFails, Left, PcmDisabled, RemoteHangup, Teardown
  <2>3. pump[a] \in {"waiting", "enabling", "joining", "hanging", "leaving", "disabling"}
    BY <1>6 DEF PumpStep, PumpConnected, PumpHangup, PumpHungUp, PcmEnabled, PcmFails,
       PumpRaises, Joined, JoinFails, Left, PcmDisabled, Event
  <2>4. \A b \in Attempts : Busy(b)' => Busy(b)
    BY <2>1, <2>2, <2>3 DEF Busy
  <2>5. QED BY <1>1, <1>n, <2>1, <2>4
<1>7. CASE TokenSwapped
  <2>1. daemon = "up" /\ callOf' = callOf /\ handler' = "idle" /\ pump' = pump
    BY <1>7 DEF TokenSwapped, CutShort
  <2>2. QED BY <1>1, <2>1 DEF Busy
<1>8. ASSUME NEW c \in Calls, CancelIssued(c) PROVE OneAttemptPerCall'
  <2>1. daemon = "up" /\ callOf' = callOf /\ handler' = "hanging" /\ pump' = pump
    BY <1>8 DEF CancelIssued
  <2>2. QED BY <1>1, <2>1 DEF Busy
<1>9. CASE StopStep \/ StopBegins \/ ProcessGone
  BY <1>9 DEF StopStep, StopReturns, StopCall, StopFree, StopBegins, ProcessGone
<1>10. CASE /\ ~HandlerStep /\ ~ProcessGone /\ ~StopStep /\ ~StopBegins /\ ~Launch /\ ~TokenSwapped
            /\ \A a \in Attempts : ~PumpStep(a)
            /\ \A c \in Calls : ~DialIssued(c) /\ ~CancelIssued(c)
  BY <1>2, <1>10 DEF Next, CloudStep, DialDuplicate, DialRefused, CancelIgnored, LinkFlips,
     vars, Answered, LineDrops, PollSeesActive, UrcDispatched, StreamFinalized, Exit, Crash
<1>11. QED BY <1>3, <1>4, <1>5, <1>6, <1>7, <1>8, <1>9, <1>10

(* CallInv is inductive.                                                   *)
LEMMA StepCallInv == CallInv /\ [Next]_vars => CallInv'
<1> SUFFICES ASSUME CallInv, [Next]_vars PROVE CallInv'
  OBVIOUS
<1>1. CASE UNCHANGED vars
  BY <1>1 DEF CallInv, TypeOK, SentInv, HeldInv, QueueInv, SlotInv, StopInv, UpInv,
     OneAttemptPerCall, Busy, vars, procVars, cloudVars, atVars, modemVars, ctxVars, histVars
<1>2. CASE Next
  <2>1. TypeOK'
    <3>1. PlainType /\ SeqType
      BY TypeParts DEF CallInv
    <3>2. PlainType' /\ SeqType'
      BY <1>2, <3>1, StepKeepsPlainType, StepKeepsSeqType
    <3>3. QED BY <3>2 DEF TypeOK, PlainType, SeqType, Queues
  <2>2. QED
    BY <1>2, <2>1, StepKeepsSentInv, StepKeepsHeldInv, StepKeepsQueueInv, StepKeepsSlotInv,
       StepKeepsStopInv, StepKeepsUpInv, StepKeepsOneAttempt DEF CallInv
<1>3. QED BY <1>1, <1>2

(* The inductive invariant of the orchestrator and the AT client holds in  *)
(* every reachable state, for any calls, dials, restarts and token swaps.  *)
THEOREM CallInvariant == Spec => []CallInv
BY InitCallInv, StepCallInv, PTL DEF Spec

-----------------------------------------------------------------------------
(* What follows from it                                                    *)

(* Every variable of the call model keeps its type.                        *)
THEOREM CallTypeCorrect == Spec => []TypeOK
<1>1. CallInv => TypeOK
  BY DEF CallInv
<1>2. QED BY <1>1, CallInvariant, PTL

(* The cloud hears DialAck, then at most one connected, then at most one   *)
(* remote_hangup, and nothing after it, however cancel, URC, poller and    *)
(* failure paths race to end the call.                                     *)
THEOREM CloudHearsInOrder == Spec => []EventsInOrder
<1>0. {"ack", "connected", "remote_hangup"} \subseteq CallEvents
  BY DEF CallEvents
<1>1. /\ Acked = <<"ack">> \o <<>> \o <<>>
      /\ Talking = <<"ack">> \o <<"connected">> \o <<>>
      /\ Dropped = <<"ack">> \o <<>> \o <<"remote_hangup">>
      /\ Ended = <<"ack">> \o <<"connected">> \o <<"remote_hangup">>
  <2>1. Acked \o <<>> = Acked /\ Talking \o <<>> = Talking
    BY Histories, ConcatEmptySeq
  <2>2. Talking = <<"ack">> \o <<"connected">>
    BY <1>0, Histories, AppendIsConcat DEF Talking, Acked
  <2>3. Dropped = <<"ack">> \o <<"remote_hangup">>
    BY <1>0, Histories, AppendIsConcat DEF Dropped, Acked
  <2>4. Ended = Talking \o <<"remote_hangup">>
    BY <1>0, Histories, AppendIsConcat DEF Ended
  <2>5. Acked = <<"ack">>
    BY DEF Acked
  <2>6. QED BY <2>1, <2>2, <2>3, <2>4, <2>5
<1>2. CallInv => EventsInOrder
  <2> SUFFICES ASSUME CallInv, NEW a \in Attempts
               PROVE  \E conn \in {<<>>, <<"connected">>}, hang \in {<<>>, <<"remote_hangup">>} :
                        sent[a] \in {<<>>, <<"ack">> \o conn \o hang}
    BY DEF EventsInOrder
  <2>1. sent[a] \in {<<>>, Acked, Talking, Dropped, Ended}
    BY DEF CallInv, SentInv
  <2>2. QED BY <1>1, <2>1
<1>3. QED BY <1>2, CallInvariant, PTL

(* While the process is up at most one attempt holds PCM, a recording, RTC *)
(* or audio tasks, and the modem's PCM stream is on while audio runs: the  *)
(* teardown of an old call never cuts the next one's audio.                *)
THEOREM AudioIsExclusive == Spec => []AudioExclusive
<1>1. CallInv => AudioExclusive
  BY DEF CallInv, UpInv, AudioExclusive
<1>2. QED BY <1>1, CallInvariant, PTL

(* However a pump ended, its attempt holds nothing and no call id leads to *)
(* it.                                                                     *)
THEOREM EndedCallsHoldNothing == Spec => []ReleasedAtEnd
<1>1. CallInv => ReleasedAtEnd
  BY DEF CallInv, HeldInv, SlotInv, ReleasedAtEnd, InCalls, None, Attempts
<1>2. QED BY <1>1, CallInvariant, PTL

(* A repeated DialCommand never starts a second attempt of a call that is  *)
(* still being dialled or processed.                                       *)
THEOREM RedialStartsNothing == Spec => []OneAttemptPerCall
<1>1. CallInv => OneAttemptPerCall
  BY DEF CallInv
<1>2. QED BY <1>1, CallInvariant, PTL

(* While a hangup is on the wire no other call has taken the modem, so ATH *)
(* drops the line it was meant for.                                        *)
THEOREM HangupHitsOwnCall == Spec => []HangupHitsItsOwnCall
<1>1. CallInv => HangupHitsItsOwnCall
  BY DEF CallInv, SlotInv, HangupHitsItsOwnCall
<1>2. QED BY <1>1, CallInvariant, PTL
=============================================================================
