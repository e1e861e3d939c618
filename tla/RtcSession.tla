----------------------------- MODULE RtcSession -----------------------------
(***************************************************************************)
(* The RTC sessions under an AudioBridge: WindowsDingRtcSession on its     *)
(* pybind11 binding, MacosDingRtcPyObjCSession, and the in-memory          *)
(* MacosRtcSession.  Each call has a session of its own; the teardown of   *)
(* one overlaps the join of the next.                                      *)
(*                                                                         *)
(* Three kinds of threads meet here: the event loop, the SDK's event       *)
(* thread (it needs the GIL) and the SDK's audio thread (it does not).     *)
(* A step is the code of one of them between two suspension points.        *)
(* Windows sessions own an engine each, macOS sessions share engine 0.     *)
(***************************************************************************)
EXTENDS Integers, Sequences, FiniteSets

CONSTANTS
  Backends,    \* subset of {"windows", "macos", "mock"}
  Sessions,    \* number of sessions, used one after the other
  RingSize,    \* FrameRingBuffer capacity
  QueueSize,   \* _frame_queue maxsize
  Batch,       \* _DRAIN_BATCH_SIZE
  Slices,      \* 10 ms frames of one push_audio()
  MaxFrames,   \* bound: frames from the peers of any two sessions
  MaxPosted    \* bound: callbacks waiting in the loop, per session

ASSUME RtcAssumption ==
  /\ Backends \subseteq {"windows", "macos", "mock"}
  /\ Sessions \in Nat \ {0} /\ RingSize \in Nat \ {0} /\ QueueSize \in Nat \ {0}
  /\ Batch \in Nat \ {0} /\ Slices \in Nat \ {0} /\ MaxFrames \in Nat
  /\ MaxPosted \in Nat

VARIABLES
  backend,     \* the factory's choice
  joining,     \* where join() is
  leaving,     \* where leave(), and the bridge's wait for its pumps, is
  teardown,    \* where _teardown_partial() is
  joined, closed,
  future,      \* _join_future
  engine       \* _engine is not None

VARIABLES
  alive,       \* the engines the SDK has
  sdk,         \* the SDK's view of the channel
  calling,     \* the event an SDK thread is about to report
  posted       \* call_soon_threadsafe() callbacks, in order

VARIABLES
  ring,        \* FrameRingBuffer
  queue,       \* _frame_queue / _inbound
  reader,      \* the consumer of audio_frames()
  pushing,     \* slices the push_audio() in progress has left
  crashed,     \* a destroyed engine was used
  sent, got    \* history: frames the remote user sent, and those read

sessionVars == <<joining, leaving, teardown, joined, closed, future, engine>>
sdkVars == <<alive, sdk, calling, posted>>
frameVars == <<ring, queue, reader, sent, got>>
pushVars == <<pushing, crashed>>
vars == <<backend, sessionVars, sdkVars, frameVars, pushVars>>

S == 1..Sessions

(* _DRAINER_SENTINEL; frames are numbered from 1.                          *)
End == 0

Posted(event, frame) == [event |-> event, frame |-> frame]

EngineOf(s) == IF backend = "macos" THEN 0 ELSE s

(* Destroy() blocks the event loop's thread.                               *)
LoopFree == \A s \in S : teardown[s] # "destroy"

-----------------------------------------------------------------------------
(* FrameRingBuffer, written by the SDK's audio thread under its mutex      *)

(* Mutant: a full ring keeps its tail.                                     *)
RingPushKeepingTail(r, f) ==
  [slot |-> [r.slot EXCEPT ![r.head] = f],
   head |-> (r.head + 1) % RingSize,
   tail |-> r.tail,
   size |-> IF r.size = RingSize THEN RingSize ELSE r.size + 1]

(* push(): a full ring gives up its oldest frame.                          *)
RingPush(r, f) ==
  LET full == r.size = RingSize
  IN  [slot |-> [r.slot EXCEPT ![r.head] = f],
       head |-> (r.head + 1) % RingSize,
       tail |-> IF full THEN (r.tail + 1) % RingSize ELSE r.tail,
       size |-> IF full THEN RingSize ELSE r.size + 1]

(* The first n frames of a ring.                                           *)
RingFrames(r, n) == [i \in 1..n |-> r.slot[(r.tail + i - 1) % RingSize]]

(* drain(): at most Batch frames leave the ring.                           *)
Drained(r) == IF r.size < Batch THEN r.size ELSE Batch

RingDrain(r) ==
  [r EXCEPT !.tail = (r.tail + Drained(r)) % RingSize, !.size = r.size - Drained(r)]

EmptyRing == [slot |-> [i \in 0..RingSize - 1 |-> 0], head |-> 0, tail |-> 0, size |-> 0]

-----------------------------------------------------------------------------
(* The asyncio queue between the SDK and audio_frames()                    *)

(* A full queue gives up its oldest entry, whatever that is.               *)
Enqueue(q, f) == Append(IF Len(q) < QueueSize THEN q ELSE Tail(q), f)

EnqueueAll(q, frames) ==
  LET upTo[i \in 0..Len(frames)] ==
        IF i = 0 THEN q ELSE Enqueue(upTo[i - 1], frames[i])
  IN  upTo[Len(frames)]

(* The sentinel is left out when it does not fit.                          *)
PutEnd(q) == IF Len(q) < QueueSize THEN Append(q, End) ELSE q

-----------------------------------------------------------------------------
(* join()                                                                  *)

(* The modem has one call: the next session starts when the call before it *)
(* is being torn down.                                                     *)
MayStart(s) ==
  /\ joining[s] = "none" /\ LoopFree
  /\ s > 1 => \/ leaving[s - 1] # "none"
              \/ joining[s - 1] \in {"raised", "cancelled"}

(* Engine, listener and observer are set up, the channel is asked for; the *)
(* next step is the wait for the SDK's answer.                             *)
AskForChannel(s) ==
  /\ joining' = [joining EXCEPT ![s] = "waiting"]
  /\ future' = [future EXCEPT ![s] = "pending"]
  /\ engine' = [engine EXCEPT ![s] = TRUE]
  /\ alive' = alive \union {EngineOf(s)}
  /\ sdk' = [sdk EXCEPT ![s] = "connecting"]
  /\ UNCHANGED <<backend, leaving, teardown, joined, closed, calling, posted>>
  /\ UNCHANGED <<frameVars, pushVars>>

WindowsJoinBegins(s) == MayStart(s) /\ backend = "windows" /\ AskForChannel(s)

(* sharedInstance:extras: returns the engine every session shares.         *)
MacosJoinBegins(s) == MayStart(s) /\ backend = "macos" /\ AskForChannel(s)

JoinRaises(s) ==
  /\ joining' = [joining EXCEPT ![s] = "raised"]
  /\ UNCHANGED <<backend, leaving, teardown, joined, closed, future, engine>>
  /\ UNCHANGED <<sdk, calling, posted, frameVars, pushVars>>

(* A DingRtcError of the set-up: the new engine is destroyed again.        *)
WindowsSetupFails(s) ==
  MayStart(s) /\ backend = "windows" /\ JoinRaises(s) /\ UNCHANGED alive

(* No usable DingRTC.framework: nothing has been created yet.              *)
FrameworkMissing(s) ==
  MayStart(s) /\ backend = "macos" /\ JoinRaises(s) /\ UNCHANGED alive

(* The observer or the audio source is refused: the shared engine goes.    *)
MacosSetupFails(s) ==
  MayStart(s) /\ backend = "macos" /\ JoinRaises(s) /\ alive' = {}

(* The SDK answers the join, or reports an error, on its event thread.     *)
SdkReports(s, event) ==
  /\ EngineOf(s) \in alive /\ calling[s] = "none" /\ Len(posted[s]) < MaxPosted
  /\ \/ sdk[s] = "connecting"
     \/ sdk[s] = "in" /\ event = "error"
  /\ calling' = [calling EXCEPT ![s] = event]
  /\ sdk' = [sdk EXCEPT ![s] = IF @ = "connecting" /\ event = "ok" THEN "in" ELSE @]
  /\ UNCHANGED <<backend, sessionVars, alive, posted, frameVars, pushVars>>

(* Mutant: Destroy() keeps the GIL.                                        *)
GilKept == LoopFree

(* A callback into Python needs the GIL.  The loop's thread gives it up    *)
(* between steps, and inside Destroy().                                    *)
GilAvailable == TRUE

(* _on_join, _on_error and the Cocoa delegate hand over to the loop.       *)
CallbackPosts(s) ==
  /\ calling[s] # "none" /\ GilAvailable
  /\ posted' = [posted EXCEPT ![s] = Append(@, Posted(calling[s], 0))]
  /\ calling' = [calling EXCEPT ![s] = "none"]
  /\ UNCHANGED <<backend, sessionVars, alive, sdk, frameVars, pushVars>>

(* The loop runs a posted callback; a future that is done stays as it is.  *)
JoinCallbackRuns(s) ==
  /\ LoopFree /\ posted[s] # <<>> /\ Head(posted[s]).event # "frame"
  /\ future' = [future EXCEPT ![s] = IF @ = "pending" THEN Head(posted[s]).event ELSE @]
  /\ posted' = [posted EXCEPT ![s] = Tail(@)]
  /\ UNCHANGED <<backend, joining, leaving, teardown, joined, closed, engine>>
  /\ UNCHANGED <<alive, sdk, calling, frameVars, pushVars>>

(* The bridge starts the pumps as soon as join() returns.                  *)
JoinReturns(s) ==
  /\ LoopFree /\ joining[s] = "waiting" /\ future[s] = "ok"
  /\ joining' = [joining EXCEPT ![s] = "returned"]
  /\ joined' = [joined EXCEPT ![s] = TRUE]
  /\ reader' = [reader EXCEPT ![s] = "start"]
  /\ UNCHANGED <<backend, leaving, teardown, closed, future, engine, sdkVars>>
  /\ UNCHANGED <<ring, queue, sent, got, pushVars>>

MockJoins(s) ==
  /\ MayStart(s) /\ backend = "mock"
  /\ joining' = [joining EXCEPT ![s] = "returned"]
  /\ joined' = [joined EXCEPT ![s] = TRUE]
  /\ reader' = [reader EXCEPT ![s] = "start"]
  /\ sdk' = [sdk EXCEPT ![s] = "in"]
  /\ UNCHANGED <<backend, leaving, teardown, closed, future, engine>>
  /\ UNCHANGED <<alive, calling, posted, ring, queue, sent, got, pushVars>>

(* The task in join() is cancelled; nothing tears the engine down, and     *)
(* AudioBridge.leave() sees a session that is not joined.                  *)
JoinCancelled(s) ==
  /\ LoopFree /\ joining[s] = "waiting"
  /\ joining' = [joining EXCEPT ![s] = "cancelled"]
  /\ future' = [future EXCEPT ![s] = "cancelled"]
  /\ UNCHANGED <<backend, leaving, teardown, joined, closed, engine, sdkVars>>
  /\ UNCHANGED <<frameVars, pushVars>>

-----------------------------------------------------------------------------
(* _teardown_partial()                                                     *)

(* macOS: +destroy takes the shared engine away, from every session.       *)
MacosTeardown(s) ==
  /\ alive' = IF engine[s] THEN {} ELSE alive
  /\ engine' = [engine EXCEPT ![s] = FALSE]
  /\ sdk' = [sdk EXCEPT ![s] = "off"]
  /\ queue' = [queue EXCEPT ![s] = PutEnd(@)]

(* The wait is over without an answer, or with a failure.                  *)
NoGoodAnswer(s) ==
  /\ LoopFree /\ joining[s] = "waiting" /\ future[s] \in {"pending", "error"}
  /\ future' = [future EXCEPT ![s] = IF @ = "pending" THEN "cancelled" ELSE @]

(* Mutant: raises without tearing the engine down.                         *)
WindowsJoinFailsUntidy(s) ==
  /\ backend = "windows" /\ NoGoodAnswer(s)
  /\ joining' = [joining EXCEPT ![s] = "raised"]
  /\ UNCHANGED <<backend, leaving, teardown, joined, closed, engine, sdkVars>>
  /\ UNCHANGED <<frameVars, pushVars>>

WindowsJoinFails(s) ==
  /\ backend = "windows" /\ NoGoodAnswer(s)
  /\ joining' = [joining EXCEPT ![s] = "failing"]
  /\ teardown' = [teardown EXCEPT ![s] = "destroy"]
  /\ UNCHANGED <<backend, leaving, joined, closed, engine, sdkVars>>
  /\ UNCHANGED <<frameVars, pushVars>>

MacosJoinFails(s) ==
  /\ backend = "macos" /\ NoGoodAnswer(s)
  /\ joining' = [joining EXCEPT ![s] = "raised"]
  /\ MacosTeardown(s)
  /\ UNCHANGED <<backend, leaving, teardown, joined, closed, calling, posted>>
  /\ UNCHANGED <<ring, reader, sent, got, pushVars>>

(* The cancelled drainer is gone; unregister, then Destroy().              *)
DrainerStopped(s) ==
  /\ LoopFree /\ teardown[s] = "drainer"
  /\ teardown' = [teardown EXCEPT ![s] = "destroy"]
  /\ UNCHANGED <<backend, joining, leaving, joined, closed, future, engine>>
  /\ UNCHANGED <<sdkVars, frameVars, pushVars>>

(* Destroy() joins the SDK's threads.  Then join() raises or leave() ends. *)
EngineDestroyed(s) ==
  /\ teardown[s] = "destroy" /\ calling[s] = "none"
  /\ teardown' = [teardown EXCEPT ![s] = "none"]
  /\ alive' = alive \ {s} /\ engine' = [engine EXCEPT ![s] = FALSE]
  /\ sdk' = [sdk EXCEPT ![s] = "off"]
  /\ \/ /\ joining[s] = "failing"
        /\ joining' = [joining EXCEPT ![s] = "raised"]
        /\ UNCHANGED <<leaving, joined, closed, queue>>
     \/ /\ leaving[s] = "begun"
        /\ leaving' = [leaving EXCEPT ![s] = "left"]
        /\ joined' = [joined EXCEPT ![s] = FALSE]
        /\ closed' = [closed EXCEPT ![s] = TRUE]
        /\ queue' = [queue EXCEPT ![s] = PutEnd(@)]
        /\ UNCHANGED joining
  /\ UNCHANGED <<backend, future, calling, posted, ring, reader, sent, got, pushVars>>

-----------------------------------------------------------------------------
(* leave()                                                                 *)

WindowsLeave(s) ==
  /\ leaving' = [leaving EXCEPT ![s] = "begun"]
  /\ teardown' = [teardown EXCEPT ![s] = "drainer"]
  /\ sdk' = [sdk EXCEPT ![s] = "off"]
  /\ UNCHANGED <<joined, closed, engine, alive, queue>>

MacosLeave(s) ==
  /\ leaving' = [leaving EXCEPT ![s] = "left"]
  /\ joined' = [joined EXCEPT ![s] = FALSE]
  /\ closed' = [closed EXCEPT ![s] = TRUE]
  /\ MacosTeardown(s) /\ UNCHANGED teardown

MockLeave(s) ==
  /\ leaving' = [leaving EXCEPT ![s] = "begun"]
  /\ joined' = [joined EXCEPT ![s] = FALSE]
  /\ sdk' = [sdk EXCEPT ![s] = "off"]
  /\ UNCHANGED <<teardown, closed, engine, alive, queue>>

(* AudioBridge.leave() leaves a joined session only.                       *)
BridgeLeaves(s) ==
  /\ LoopFree /\ joining[s] = "returned" /\ leaving[s] = "none" /\ joined[s]
  /\ \/ backend = "windows" /\ WindowsLeave(s)
     \/ backend = "macos" /\ MacosLeave(s)
     \/ backend = "mock" /\ MockLeave(s)
  /\ UNCHANGED <<backend, joining, future, calling, posted>>
  /\ UNCHANGED <<ring, reader, sent, got, pushVars>>

(* The mock waits until the sentinel fits into the queue.                  *)
MockLeft(s) ==
  /\ backend = "mock" /\ leaving[s] = "begun" /\ Len(queue[s]) < QueueSize
  /\ leaving' = [leaving EXCEPT ![s] = "left"]
  /\ queue' = [queue EXCEPT ![s] = Append(@, End)]
  /\ UNCHANGED <<backend, joining, teardown, joined, closed, future, engine>>
  /\ UNCHANGED <<sdkVars, ring, reader, sent, got, pushVars>>

(* AudioBridge.leave() cancels the pumps that are still there.             *)
PumpsCancelled(s) ==
  /\ LoopFree /\ leaving[s] = "left"
  /\ leaving' = [leaving EXCEPT ![s] = "over"]
  /\ reader' = [reader EXCEPT ![s] = "done"]
  /\ pushing' = [pushing EXCEPT ![s] = 0]
  /\ UNCHANGED <<backend, joining, teardown, joined, closed, future, engine>>
  /\ UNCHANGED <<sdkVars, ring, queue, sent, got, crashed>>

-----------------------------------------------------------------------------
(* Inbound audio                                                           *)

(* The remote user speaks.                                                 *)
Speaks(s) ==
  /\ sdk[s] = "in" /\ sent[s] < MaxFrames
  /\ \A t \in S \ {s} : sent[s] + sent[t] < MaxFrames
  /\ sent' = [sent EXCEPT ![s] = @ + 1]

(* The observer copies the frame into the ring, without the GIL.           *)
WindowsFrame(s) ==
  /\ backend = "windows" /\ s \in alive /\ Speaks(s)
  /\ ring' = [ring EXCEPT ![s] = RingPush(@, sent'[s])]
  /\ UNCHANGED <<backend, sessionVars, sdkVars, queue, reader, got, pushVars>>

(* The delegate posts a copy to the loop, where it may arrive after the    *)
(* teardown.                                                               *)
MacosFrame(s) ==
  /\ backend = "macos" /\ 0 \in alive /\ Len(posted[s]) < MaxPosted /\ Speaks(s)
  /\ posted' = [posted EXCEPT ![s] = Append(@, Posted("frame", sent'[s]))]
  /\ UNCHANGED <<backend, sessionVars, alive, sdk, calling, ring, queue, reader, got>>
  /\ UNCHANGED pushVars

(* A peer's push_audio() drops the frame when the queue is full.  The      *)
(* reader's first step precedes what is scheduled after join().            *)
MockFrame(s) ==
  /\ backend = "mock" /\ reader[s] # "start" /\ Speaks(s)
  /\ queue' = [queue EXCEPT ![s] = IF Len(@) < QueueSize THEN Append(@, sent'[s]) ELSE @]
  /\ UNCHANGED <<backend, sessionVars, sdkVars, ring, reader, got, pushVars>>

(* macOS: _on_audio_frame() in the loop.                                   *)
FrameCallbackRuns(s) ==
  /\ LoopFree /\ posted[s] # <<>> /\ Head(posted[s]).event = "frame"
  /\ queue' = [queue EXCEPT ![s] = Enqueue(@, Head(posted[s]).frame)]
  /\ posted' = [posted EXCEPT ![s] = Tail(@)]
  /\ UNCHANGED <<backend, sessionVars, alive, sdk, calling, ring, reader, sent, got>>
  /\ UNCHANGED pushVars

(* Windows: one round of _drain_loop().                                    *)
Drain(s) ==
  /\ LoopFree /\ backend = "windows" /\ joined[s] /\ teardown[s] = "none"
  /\ ring[s].size > 0
  /\ queue' = [queue EXCEPT ![s] = EnqueueAll(@, RingFrames(ring[s], Drained(ring[s])))]
  /\ ring' = [ring EXCEPT ![s] = RingDrain(@)]
  /\ UNCHANGED <<backend, sessionVars, sdkVars, reader, sent, got, pushVars>>

(* audio_frames() refuses a session that has been left meanwhile.          *)
ReaderStarts(s) ==
  /\ LoopFree /\ reader[s] = "start"
  /\ reader' = [reader EXCEPT ![s] = IF joined[s] THEN "get" ELSE "done"]
  /\ UNCHANGED <<backend, sessionVars, sdkVars, ring, queue, sent, got, pushVars>>

ReaderGets(s) ==
  /\ LoopFree /\ reader[s] = "get" /\ queue[s] # <<>>
  /\ queue' = [queue EXCEPT ![s] = Tail(@)]
  /\ IF Head(queue[s]) = End
     THEN reader' = [reader EXCEPT ![s] = "done"] /\ UNCHANGED got
     ELSE got' = [got EXCEPT ![s] = Append(@, Head(queue[s]))] /\ UNCHANGED reader
  /\ UNCHANGED <<backend, sessionVars, sdkVars, ring, sent, pushVars>>

-----------------------------------------------------------------------------
(* Outbound audio                                                          *)

(* Mutant: the handle does not look.                                       *)
AssumeAlive(s) == TRUE

(* require_alive_locked(): a Windows handle knows that its engine is gone; *)
(* a macOS session only knows about its own teardown.                      *)
RequireAlive(s) == backend = "windows" => s \in alive

(* One slice: into the SDK, or an RtcError that ends the push.             *)
PushSlice(s, rest) ==
  /\ pushing' = [pushing EXCEPT ![s] = IF RequireAlive(s) THEN rest ELSE 0]
  /\ crashed' = (crashed \/ (RequireAlive(s) /\ EngineOf(s) \notin alive))

(* push_audio() sends the first slice at once and keeps the handle it      *)
(* started with across its pauses.                                         *)
WindowsPush(s) ==
  /\ LoopFree /\ backend = "windows" /\ joined[s] /\ engine[s] /\ pushing[s] = 0
  /\ PushSlice(s, Slices - 1)
  /\ UNCHANGED <<backend, sessionVars, sdkVars, frameVars>>

MacosPush(s) ==
  /\ LoopFree /\ backend = "macos" /\ joined[s] /\ engine[s]
  /\ PushSlice(s, 0)
  /\ UNCHANGED <<backend, sessionVars, sdkVars, frameVars>>

PushGoesOn(s) ==
  /\ LoopFree /\ pushing[s] > 0
  /\ PushSlice(s, pushing[s] - 1)
  /\ UNCHANGED <<backend, sessionVars, sdkVars, frameVars>>

-----------------------------------------------------------------------------
InitWith(b) ==
  /\ backend = b
  /\ joining = [s \in S |-> "none"] /\ leaving = [s \in S |-> "none"]
  /\ teardown = [s \in S |-> "none"]
  /\ joined = [s \in S |-> FALSE] /\ closed = [s \in S |-> FALSE]
  /\ future = [s \in S |-> "none"] /\ engine = [s \in S |-> FALSE]
  /\ alive = {} /\ sdk = [s \in S |-> "off"] /\ calling = [s \in S |-> "none"]
  /\ posted = [s \in S |-> <<>>]
  /\ ring = [s \in S |-> EmptyRing] /\ queue = [s \in S |-> <<>>]
  /\ reader = [s \in S |-> "off"] /\ pushing = [s \in S |-> 0] /\ crashed = FALSE
  /\ sent = [s \in S |-> 0] /\ got = [s \in S |-> <<>>]

Init == \E b \in Backends : InitWith(b)

(* What the SDK and the loop do with a session by themselves.              *)
SessionStep(s) ==
  \/ SdkReports(s, "ok") \/ SdkReports(s, "error") \/ CallbackPosts(s)
  \/ JoinCallbackRuns(s) \/ JoinReturns(s) \/ WindowsJoinFails(s) \/ MacosJoinFails(s)
  \/ DrainerStopped(s) \/ EngineDestroyed(s) \/ MockLeft(s)
  \/ WindowsFrame(s) \/ MacosFrame(s) \/ MockFrame(s) \/ FrameCallbackRuns(s) \/ Drain(s)
  \/ ReaderStarts(s) \/ ReaderGets(s)
  \/ WindowsPush(s) \/ MacosPush(s) \/ PushGoesOn(s)

(* What the bridge asks of it.                                             *)
BridgeStep(s) ==
  \/ WindowsJoinBegins(s) \/ MacosJoinBegins(s) \/ MockJoins(s) \/ JoinCancelled(s)
  \/ WindowsSetupFails(s) \/ FrameworkMissing(s) \/ MacosSetupFails(s)
  \/ BridgeLeaves(s) \/ PumpsCancelled(s)

Next == \E s \in S : SessionStep(s) \/ BridgeStep(s)

Spec == Init /\ [][Next]_vars

(* The loop runs what is ready and its timers fire; SDK threads run.       *)
SessionFairness ==
  \A s \in S :
    /\ WF_vars(CallbackPosts(s)) /\ WF_vars(JoinCallbackRuns(s))
    /\ WF_vars(JoinReturns(s))
    /\ WF_vars(WindowsJoinFails(s)) /\ WF_vars(MacosJoinFails(s))
    /\ WF_vars(DrainerStopped(s)) /\ WF_vars(EngineDestroyed(s))
    /\ WF_vars(MockLeft(s)) /\ WF_vars(ReaderStarts(s)) /\ WF_vars(ReaderGets(s))
    /\ WF_vars(PumpsCancelled(s))

FairSpec == Spec /\ SessionFairness

-----------------------------------------------------------------------------
(* Properties                                                              *)

(* Every variable keeps its type, ring and queue their capacity.           *)
TypeOK ==
  /\ backend \in Backends
  /\ joining \in [S -> {"none", "waiting", "failing", "returned", "raised", "cancelled"}]
  /\ leaving \in [S -> {"none", "begun", "left", "over"}]
  /\ teardown \in [S -> {"none", "drainer", "destroy"}]
  /\ joined \in [S -> BOOLEAN] /\ closed \in [S -> BOOLEAN] /\ engine \in [S -> BOOLEAN]
  /\ future \in [S -> {"none", "pending", "ok", "error", "cancelled"}]
  /\ alive \subseteq S \union {0}
  /\ sdk \in [S -> {"off", "connecting", "in"}]
  /\ calling \in [S -> {"none", "ok", "error"}]
  /\ \A s \in S :
       /\ ring[s].head \in 0..RingSize - 1 /\ ring[s].tail \in 0..RingSize - 1
       /\ ring[s].size \in 0..RingSize
       /\ (ring[s].tail + ring[s].size) % RingSize = ring[s].head
       /\ Len(queue[s]) <= QueueSize
  /\ reader \in [S -> {"off", "start", "get", "done"}]
  /\ pushing \in [S -> 0..Slices] /\ crashed \in BOOLEAN
  /\ sent \in [S -> 0..MaxFrames]

(* A session its bridge is finished with holds no engine, however join()   *)
(* ended and whatever the SDK reported meanwhile; only a join() cancelled  *)
(* half-way keeps one.                                                     *)
EngineReleased ==
  \A s \in S :
    joining[s] = "raised" \/ leaving[s] \in {"left", "over"} =>
      ~engine[s] /\ (backend = "windows" => s \notin alive)

(* No slice of a paced push goes into an engine that a concurrent leave()  *)
(* has destroyed.  On macOS it may: the engine is shared (crashed).        *)
NoPushIntoDestroyedEngine == backend # "macos" => ~crashed

(* Remote audio is a lossy FIFO from the SDK's thread to the reader (of    *)
(* the first session; the second one's comes and goes beside it): the      *)
(* wrap-around of the ring, both drop-oldest queues and the sentinel never *)
(* reorder or repeat a frame.                                              *)
InTransit(s) ==
  ({ring[s].slot[(ring[s].tail + i - 1) % RingSize] : i \in 1..ring[s].size}
    \union {queue[s][i] : i \in 1..Len(queue[s])}
    \union {posted[s][i].frame : i \in 1..Len(posted[s])}) \ {End}

Remote == INSTANCE OrderedDelivery WITH
  next <- sent[1] + 1, inTransit <- InTransit(1), delivered <- got[1]

ImplementsOrderedDelivery == Remote!ASpec

(* join() and leave() return: the SDK's silence, a report that arrives     *)
(* while Destroy() waits for the SDK's threads, and a sentinel that finds  *)
(* the queue full do not keep them.                                        *)
JoinAndLeaveEnd ==
  \A s \in S :
    /\ joining[s] = "waiting" ~> joining[s] \in {"returned", "raised", "cancelled"}
    /\ leaving[s] = "begun" ~> leaving[s] = "over"
=============================================================================
