-------------------------- MODULE RtcSessionProofs --------------------------
(***************************************************************************)
(* Proofs about the RTC sessions: engines are given back, no push reaches  *)
(* a destroyed one, remote audio is a lossy FIFO; and about the calls of   *)
(* the dev-no-modem path built on them.                                    *)
(***************************************************************************)
EXTENDS DevCall, SequenceTheorems, WellFoundedInduction, TLAPS

-----------------------------------------------------------------------------
(* Engines                                                                 *)

SessionType ==
  /\ backend \in {"windows", "macos", "mock"}
  /\ joining \in [S -> {"none", "waiting", "failing", "returned", "raised", "cancelled"}]
  /\ leaving \in [S -> {"none", "begun", "left", "over"}]
  /\ teardown \in [S -> {"none", "drainer", "destroy"}]
  /\ joined \in [S -> BOOLEAN] /\ closed \in [S -> BOOLEAN] /\ engine \in [S -> BOOLEAN]
  /\ pushing \in [S -> Nat] /\ crashed \in BOOLEAN

(* The session's own engine is gone.                                       *)
NoEngine(s) == ~engine[s] /\ (backend = "windows" => s \notin alive)

(* Only join() creates an engine, and nothing follows a join() that raised *)
(* or a leave() that is over.                                              *)
OwnEngine(s) ==
  /\ joining[s] \in {"none", "raised"} => NoEngine(s)
  /\ leaving[s] \in {"left", "over"} => NoEngine(s)
  /\ leaving[s] # "none" => joining[s] = "returned"
  /\ backend = "mock" => ~engine[s] /\ pushing[s] = 0

EngineInv == \A s \in S : OwnEngine(s)

SessionInv == SessionType /\ EngineInv /\ NoPushIntoDestroyedEngine

(* No engine exists at first.                                              *)
LEMMA InitSessionInv == Init => SessionInv
<1> SUFFICES ASSUME Init PROVE SessionInv
  OBVIOUS
<1>1. PICK b \in Backends : InitWith(b)
  BY DEF Init
<1>2. QED
  BY <1>1, RtcAssumption DEF InitWith, SessionInv, SessionType, EngineInv, OwnEngine, NoEngine,
     NoPushIntoDestroyedEngine

(* A step of one session leaves the engines of the others alone.           *)
LEMMA OthersKeepTheirEngines ==
  ASSUME SessionInv, NEW s \in S, SessionType', backend' = backend,
         \A t \in S \ {s} : /\ joining'[t] = joining[t] /\ leaving'[t] = leaving[t]
                            /\ engine'[t] = engine[t] /\ pushing'[t] = pushing[t],
         backend = "windows" => alive' \subseteq alive \union {s},
         OwnEngine(s)', NoPushIntoDestroyedEngine'
  PROVE  SessionInv'
<1>1. ASSUME NEW t \in S PROVE OwnEngine(t)'
  <2>1. CASE t = s
    BY <2>1
  <2>2. CASE t # s
    <3>1. OwnEngine(t)
      BY DEF SessionInv, EngineInv
    <3>2. t \in S \ {s}
      BY <2>2
    <3>3. NoEngine(t) => NoEngine(t)'
      BY <2>2, <3>2 DEF NoEngine
    <3>4. QED BY <3>1, <3>2, <3>3 DEF OwnEngine
  <2>3. QED BY <2>1, <2>2
<1>2. EngineInv'
  BY <1>1 DEF EngineInv
<1>3. QED BY <1>2 DEF SessionInv

(* One step keeps track of every session's engine.                         *)
LEMMA NextSessionInv == SessionInv /\ [Next]_vars => SessionInv'
<1> SUFFICES ASSUME SessionInv, [Next]_vars PROVE SessionInv'
  OBVIOUS
<1>0. CASE UNCHANGED vars
  BY <1>0 DEF vars, sessionVars, sdkVars, pushVars, SessionInv, SessionType, EngineInv, OwnEngine, NoEngine,
              NoPushIntoDestroyedEngine
<1> SUFFICES ASSUME NEW s \in S, SessionStep(s) \/ BridgeStep(s) PROVE SessionInv'
  BY <1>0 DEF Next
<1>a. SessionType /\ OwnEngine(s) /\ NoPushIntoDestroyedEngine
  BY DEF SessionInv, EngineInv
<1>1. CASE WindowsJoinBegins(s) \/ MacosJoinBegins(s)
  <2>1. /\ joining[s] = "none" /\ backend \in {"windows", "macos"} /\ AskForChannel(s)
    BY <1>1 DEF WindowsJoinBegins, MacosJoinBegins, MayStart
  <2>2. SessionType'
    BY <1>a, <2>1 DEF AskForChannel, SessionType, pushVars
  <2>3. joining'[s] = "waiting" /\ leaving'[s] = "none" /\ backend' = backend
    BY <1>a, <2>1 DEF AskForChannel, SessionType, OwnEngine
  <2>4. OwnEngine(s)' /\ NoPushIntoDestroyedEngine'
    BY <1>a, <2>1, <2>3 DEF OwnEngine, NoPushIntoDestroyedEngine, AskForChannel, pushVars
  <2>5. QED
    BY <1>a, <2>1, <2>2, <2>3, <2>4, OthersKeepTheirEngines
       DEF AskForChannel, EngineOf, SessionType, pushVars
<1>2. CASE WindowsSetupFails(s) \/ FrameworkMissing(s) \/ MacosSetupFails(s)
  <2>1. joining[s] = "none" /\ JoinRaises(s) /\ alive' \subseteq alive
    BY <1>2 DEF WindowsSetupFails, FrameworkMissing, MacosSetupFails, MayStart
  <2>2. SessionType'
    BY <1>a, <2>1 DEF JoinRaises, SessionType, pushVars
  <2>3. OwnEngine(s)' /\ NoPushIntoDestroyedEngine'
    BY <1>a, <2>1 DEF OwnEngine, NoEngine, SessionType, NoPushIntoDestroyedEngine, JoinRaises, pushVars
  <2>4. QED
    BY <1>a, <2>1, <2>2, <2>3, OthersKeepTheirEngines DEF JoinRaises, SessionType, pushVars
<1>3. CASE JoinReturns(s) \/ JoinCancelled(s) \/ WindowsJoinFails(s) \/ MockJoins(s)
  <2>1. /\ joining[s] \in {"none", "waiting"}
        /\ joining' \in {[joining EXCEPT ![s] = "returned"], [joining EXCEPT ![s] = "cancelled"],
                         [joining EXCEPT ![s] = "failing"]}
        /\ joined' \in {joined, [joined EXCEPT ![s] = TRUE]}
        /\ teardown' \in {teardown, [teardown EXCEPT ![s] = "destroy"]}
        /\ UNCHANGED <<backend, leaving, closed, engine, alive, pushing, crashed>>
    BY <1>3 DEF JoinReturns, JoinCancelled, WindowsJoinFails, MockJoins, NoGoodAnswer, MayStart,
                sdkVars, pushVars
  <2>2. SessionType'
    BY <1>a, <2>1 DEF SessionType
  <2>3. OwnEngine(s)' /\ NoPushIntoDestroyedEngine'
    BY <1>a, <2>1 DEF OwnEngine, NoEngine, SessionType, NoPushIntoDestroyedEngine
  <2>4. QED BY <1>a, <2>1, <2>2, <2>3, OthersKeepTheirEngines DEF SessionType
<1>4. CASE MacosJoinFails(s)
  <2>1. /\ joining[s] = "waiting" /\ joining' = [joining EXCEPT ![s] = "raised"]
        /\ engine' = [engine EXCEPT ![s] = FALSE] /\ backend = "macos"
        /\ UNCHANGED <<backend, leaving, teardown, joined, closed, pushing, crashed>>
    BY <1>4 DEF MacosJoinFails, NoGoodAnswer, MacosTeardown, pushVars
  <2>2. SessionType'
    BY <1>a, <2>1 DEF SessionType
  <2>3. OwnEngine(s)' /\ NoPushIntoDestroyedEngine'
    BY <1>a, <2>1 DEF OwnEngine, NoEngine, SessionType, NoPushIntoDestroyedEngine
  <2>4. QED BY <1>a, <2>1, <2>2, <2>3, OthersKeepTheirEngines DEF SessionType
<1>5. CASE EngineDestroyed(s)
  <2>1. /\ engine' = [engine EXCEPT ![s] = FALSE] /\ alive' = alive \ {s}
        /\ teardown' = [teardown EXCEPT ![s] = "none"]
        /\ UNCHANGED <<backend, pushing, crashed>>
        /\ \/ /\ joining[s] = "failing" /\ joining' = [joining EXCEPT ![s] = "raised"]
              /\ UNCHANGED <<leaving, joined, closed>>
           \/ /\ leaving[s] = "begun" /\ leaving' = [leaving EXCEPT ![s] = "left"]
              /\ joined' = [joined EXCEPT ![s] = FALSE] /\ closed' = [closed EXCEPT ![s] = TRUE]
              /\ UNCHANGED joining
    BY <1>5 DEF EngineDestroyed, pushVars
  <2>2. SessionType'
    BY <1>a, <2>1 DEF SessionType
  <2>3. OwnEngine(s)' /\ NoPushIntoDestroyedEngine'
    BY <1>a, <2>1 DEF OwnEngine, NoEngine, SessionType, NoPushIntoDestroyedEngine
  <2>4. QED BY <1>a, <2>1, <2>2, <2>3, OthersKeepTheirEngines DEF SessionType
<1>6. CASE BridgeLeaves(s)
  <2>1. /\ joining[s] = "returned" /\ leaving[s] = "none" /\ UNCHANGED <<backend, joining, pushing, crashed>>
        /\ \/ /\ backend # "macos" /\ leaving' = [leaving EXCEPT ![s] = "begun"]
              /\ teardown' \in {teardown, [teardown EXCEPT ![s] = "drainer"]}
              /\ joined' \in {joined, [joined EXCEPT ![s] = FALSE]}
              /\ UNCHANGED <<closed, engine, alive>>
           \/ /\ backend = "macos" /\ leaving' = [leaving EXCEPT ![s] = "left"]
              /\ joined' = [joined EXCEPT ![s] = FALSE] /\ closed' = [closed EXCEPT ![s] = TRUE]
              /\ engine' = [engine EXCEPT ![s] = FALSE] /\ UNCHANGED teardown
    BY <1>6 DEF BridgeLeaves, WindowsLeave, MacosLeave, MockLeave, MacosTeardown, pushVars
  <2>2. SessionType'
    BY <1>a, <2>1 DEF SessionType
  <2>3. OwnEngine(s)' /\ NoPushIntoDestroyedEngine'
    BY <1>a, <2>1 DEF OwnEngine, NoEngine, SessionType, NoPushIntoDestroyedEngine
  <2>4. QED BY <1>a, <2>1, <2>2, <2>3, OthersKeepTheirEngines DEF SessionType
<1>7. CASE MockLeft(s) \/ PumpsCancelled(s)
  <2>1. /\ \/ backend = "mock" /\ leaving[s] = "begun" /\ leaving' = [leaving EXCEPT ![s] = "left"]
           \/ leaving[s] = "left" /\ leaving' = [leaving EXCEPT ![s] = "over"]
        /\ pushing' \in {pushing, [pushing EXCEPT ![s] = 0]}
        /\ UNCHANGED <<backend, joining, teardown, joined, closed, engine, alive, crashed>>
    BY <1>7 DEF MockLeft, PumpsCancelled, sdkVars, pushVars
  <2>2. SessionType'
    BY <1>a, <2>1 DEF SessionType
  <2>3. OwnEngine(s)' /\ NoPushIntoDestroyedEngine'
    BY <1>a, <2>1 DEF OwnEngine, NoEngine, SessionType, NoPushIntoDestroyedEngine
  <2>4. QED BY <1>a, <2>1, <2>2, <2>3, OthersKeepTheirEngines DEF SessionType
<1>8. CASE WindowsPush(s) \/ MacosPush(s) \/ PushGoesOn(s)
  <2>1. PICK rest \in Nat :
          /\ PushSlice(s, rest) /\ UNCHANGED <<backend, sessionVars, sdkVars>>
          /\ backend \in {"windows", "macos"} \/ pushing[s] > 0
    <3>1. Slices - 1 \in Nat /\ 0 \in Nat /\ (pushing[s] > 0 => pushing[s] - 1 \in Nat)
      BY <1>a, RtcAssumption DEF SessionType
    <3>2. QED BY <1>8, <3>1 DEF WindowsPush, MacosPush, PushGoesOn
  <2>2. backend \in {"windows", "macos"}
    BY <1>a, <2>1 DEF OwnEngine, SessionType
  <2>3. /\ pushing' \in {[pushing EXCEPT ![s] = rest], [pushing EXCEPT ![s] = 0]}
        /\ crashed' \in BOOLEAN
        /\ UNCHANGED <<backend, joining, leaving, teardown, joined, closed, engine, alive>>
    BY <2>1 DEF PushSlice, sessionVars, sdkVars
  <2>4. backend = "windows" => crashed' = crashed
    BY <1>a, <2>1 DEF PushSlice, RequireAlive, EngineOf, SessionType
  <2>5. SessionType'
    BY <1>a, <2>3 DEF SessionType
  <2>6. OwnEngine(s)' /\ NoPushIntoDestroyedEngine'
    BY <1>a, <2>2, <2>3, <2>4 DEF OwnEngine, NoEngine, NoPushIntoDestroyedEngine
  <2>7. QED BY <1>a, <2>3, <2>5, <2>6, OthersKeepTheirEngines DEF SessionType
<1>9. CASE \/ SdkReports(s, "ok") \/ SdkReports(s, "error") \/ CallbackPosts(s)
           \/ JoinCallbackRuns(s) \/ DrainerStopped(s)
           \/ WindowsFrame(s) \/ MacosFrame(s) \/ MockFrame(s) \/ FrameCallbackRuns(s) \/ Drain(s)
           \/ ReaderStarts(s) \/ ReaderGets(s)
  <2>1. /\ UNCHANGED <<backend, joining, leaving, joined, closed, engine, alive, pushing, crashed>>
        /\ teardown' \in {teardown, [teardown EXCEPT ![s] = "destroy"]}
    BY <1>9 DEF SdkReports, CallbackPosts, JoinCallbackRuns, DrainerStopped, WindowsFrame, MacosFrame,
       MockFrame, FrameCallbackRuns, Drain, ReaderStarts, ReaderGets, sessionVars, sdkVars, pushVars
  <2>2. SessionType'
    BY <1>a, <2>1 DEF SessionType
  <2>3. OwnEngine(s)' /\ NoPushIntoDestroyedEngine'
    BY <1>a, <2>1 DEF OwnEngine, NoEngine, NoPushIntoDestroyedEngine
  <2>4. QED BY <1>a, <2>1, <2>2, <2>3, OthersKeepTheirEngines
<1>10. QED
  BY <1>1, <1>2, <1>3, <1>4, <1>5, <1>6, <1>7, <1>8, <1>9 DEF SessionStep, BridgeStep

(* The invariant the results about engines follow from.                    *)
THEOREM SessionInvariant == Spec => []SessionInv
BY InitSessionInv, NextSessionInv, PTL DEF Spec

(* A join() that raised and a leave() that ended have destroyed the        *)
(* session's engine, whatever the SDK's threads reported meanwhile and     *)
(* whatever the neighbouring sessions do.                                  *)
THEOREM EnginesAreReleased == Spec => []EngineReleased
<1>1. SessionInv => EngineReleased
  BY DEF SessionInv, EngineInv, OwnEngine, NoEngine, EngineReleased
<1>2. QED BY <1>1, SessionInvariant, PTL

(* A push that is paced over several frames never writes to an engine that *)
(* leave() destroyed underneath, but for the shared engine of macOS.       *)
THEOREM PushesMeetALiveEngine == Spec => []NoPushIntoDestroyedEngine
<1>1. SessionInv => NoPushIntoDestroyedEngine
  BY DEF SessionInv
<1>2. QED BY <1>1, SessionInvariant, PTL

-----------------------------------------------------------------------------
(* Calls without a modem (DevCall)                                         *)

DevType ==
  /\ joining \in [S -> {"none", "waiting", "failing", "returned", "raised", "cancelled"}]
  /\ joined \in [S -> BOOLEAN] /\ closed \in [S -> BOOLEAN] /\ engine \in [S -> BOOLEAN]
  /\ terminated \in [S -> BOOLEAN] /\ hangups \in [S -> Nat]
  /\ ending \in [S -> {"none", "cancelling", "over"}]
  /\ recording \in [S -> {"off", "open", "final"}]

(* A call is hung up when it is marked terminated, and only a call whose   *)
(* dial has begun is registered or ends.                                   *)
OwnCall(s) ==
  /\ hangups[s] = IF terminated[s] THEN 1 ELSE 0
  /\ joining[s] = "none" => ~terminated[s] /\ s \notin calls /\ ending[s] = "none"
  /\ ending[s] = "over" => /\ ~engine[s] /\ closed[s]
                           /\ recording[s] = "open" => joined[s]

DevInv == DevType /\ \A s \in S : OwnCall(s)

(* No call at first.                                                       *)
LEMMA InitDevInv == DevInit => DevInv
BY DEF DevInit, InitWith, DevInv, DevType, OwnCall

(* A step of one call leaves the others as they are.                       *)
LEMMA OtherCallsStay ==
  ASSUME DevInv, NEW s \in S, DevType', OwnCall(s)', calls' \subseteq calls \union {s},
         \A t \in S \ {s} :
           /\ hangups'[t] = hangups[t] /\ terminated'[t] = terminated[t]
           /\ joining'[t] = joining[t] /\ ending'[t] = ending[t] /\ engine'[t] = engine[t]
           /\ closed'[t] = closed[t] /\ recording'[t] = recording[t] /\ joined'[t] = joined[t]
  PROVE  DevInv'
<1>1. ASSUME NEW t \in S PROVE OwnCall(t)'
  <2>1. CASE t = s
    BY <2>1
  <2>2. CASE t # s
    <3>1. OwnCall(t) /\ t \in S \ {s} /\ (t \in calls' => t \in calls)
      BY <2>2 DEF DevInv
    <3>2. QED BY <3>1 DEF OwnCall
  <2>3. QED BY <2>1, <2>2
<1>2. QED BY <1>1 DEF DevInv

(* What teardown() changes, whether it has pumps to wait for or not.       *)
LEMMA TearDownEffect ==
  ASSUME DevInv, NEW s \in S, NEW who, TearDown(s, who)
  PROVE  \/ /\ ending' = [ending EXCEPT ![s] = "cancelling"]
            /\ UNCHANGED <<recording, joined, closed, engine>>
         \/ /\ ending' = [ending EXCEPT ![s] = "over"]
            /\ recording' = [recording EXCEPT ![s] = IF @ = "open" THEN "final" ELSE @]
            /\ joined' = [joined EXCEPT ![s] = FALSE]
            /\ closed' = [closed EXCEPT ![s] = TRUE]
            /\ engine' = [engine EXCEPT ![s] = FALSE]
BY DEF TearDown, Release, MacosLeave, MacosTeardown

(* One step of the dev-no-modem path keeps every call's account.           *)
LEMMA NextDevInv == DevInv /\ [DevNext]_allVars => DevInv'
<1> SUFFICES ASSUME DevInv, [DevNext]_allVars PROVE DevInv'
  OBVIOUS
<1>0. DevType /\ \A s \in S : OwnCall(s)
  BY DEF DevInv
<1>1. ASSUME UNCHANGED <<joining, joined, closed, engine, terminated, hangups, ending, recording,
                         calls>>
      PROVE  DevInv'
  BY <1>1 DEF DevInv, DevType, OwnCall
<1>2. CASE UNCHANGED allVars \/ Signal \/ StopBegins
  <2>1. UNCHANGED <<joining, joined, closed, engine, terminated, hangups, ending, recording, calls>>
    BY <1>2 DEF allVars, vars, sessionVars, devVars, ctxVars, Signal, StopBegins
  <2>2. QED BY <1>1, <2>1
<1>3. CASE ProcessEnds
  <2>1. /\ joining' = [s \in S |-> IF joining[s] = "waiting" THEN "cancelled" ELSE joining[s]]
        /\ UNCHANGED <<joined, closed, engine, terminated, hangups, ending, recording, calls>>
    BY <1>3 DEF ProcessEnds
  <2>2. DevType'
    BY <1>0, <2>1 DEF DevType
  <2>3. ASSUME NEW s \in S PROVE OwnCall(s)'
    <3>1. OwnCall(s) /\ (joining'[s] = "none" => joining[s] = "none")
      BY <1>0, <2>1
    <3>2. QED BY <2>1, <3>1 DEF OwnCall
  <2>4. QED BY <2>2, <2>3 DEF DevInv
<1>4. CASE \E s \in S : SdkThreads(s) \/ LoopStep(s) \/ MainTerminates(s) \/ MainStops(s)
  <2> SUFFICES ASSUME NEW s \in S,
                      SdkThreads(s) \/ LoopStep(s) \/ MainTerminates(s) \/ MainStops(s)
               PROVE  DevInv'
    BY <1>4
  <2>0. DevType /\ OwnCall(s)
    BY <1>0
  <2>1. CASE SdkThreads(s) \/ SessionCallbacks(s)
    <3>1. UNCHANGED <<joining, joined, closed, engine, terminated, hangups, ending, recording, calls>>
      BY <2>1 DEF SdkThreads, SessionCallbacks, SdkReports, CallbackPosts, MacosFrame,
         JoinCallbackRuns, FrameCallbackRuns, ReaderStarts, sessionVars, devVars, ctxVars
    <3>2. QED BY <1>1, <3>1
  <2>2. CASE MicChunk(s) \/ MicFails(s) \/ RecordFrame(s)
    <3>1. UNCHANGED <<joining, joined, closed, engine, terminated, hangups, ending, recording, calls>>
      BY <2>2 DEF MicChunk, MicFails, RecordFrame, vars, sessionVars, devVars, ctxVars
    <3>2. QED BY <1>1, <3>1
  <2>3. CASE Dial(s)
    <3>1. /\ joining[s] = "none" /\ joining' = [joining EXCEPT ![s] = "waiting"]
          /\ engine' = [engine EXCEPT ![s] = TRUE] /\ calls' = calls \union {s}
          /\ UNCHANGED <<joined, closed, terminated, hangups, ending, recording>>
      BY <2>3 DEF Dial, AskForChannel
    <3>2. DevType' /\ OwnCall(s)'
      BY <2>0, <3>1 DEF DevType, OwnCall
    <3>3. QED BY <2>0, <3>1, <3>2, OtherCallsStay DEF DevType
  <2>4. ASSUME NEW who, Hangup(s, who), ~terminated[s],
               \/ joining' = [joining EXCEPT ![s] = "raised"]
               \/ UNCHANGED joining /\ joining[s] # "none"
        PROVE  DevInv'
    <3>1. /\ terminated' = [terminated EXCEPT ![s] = TRUE]
          /\ hangups' = [hangups EXCEPT ![s] = @ + 1]
          /\ calls' = calls \ {s} /\ TearDown(s, who)
      BY <2>4 DEF Hangup
    <3>2. CASE /\ ending' = [ending EXCEPT ![s] = "cancelling"]
               /\ UNCHANGED <<recording, joined, closed, engine>>
      <4>1. DevType' /\ OwnCall(s)'
        BY <2>0, <2>4, <3>1, <3>2 DEF DevType, OwnCall
      <4>2. QED BY <2>0, <2>4, <3>1, <3>2, <4>1, OtherCallsStay DEF DevType
    <3>3. CASE /\ ending' = [ending EXCEPT ![s] = "over"]
               /\ recording' = [recording EXCEPT ![s] = IF @ = "open" THEN "final" ELSE @]
               /\ joined' = [joined EXCEPT ![s] = FALSE]
               /\ closed' = [closed EXCEPT ![s] = TRUE]
               /\ engine' = [engine EXCEPT ![s] = FALSE]
      <4>1. DevType' /\ OwnCall(s)'
        BY <2>0, <2>4, <3>1, <3>3 DEF DevType, OwnCall
      <4>2. QED BY <2>0, <2>4, <3>1, <3>3, <4>1, OtherCallsStay DEF DevType
    <3>4. QED BY <3>1, <3>2, <3>3, TearDownEffect
  <2>5. CASE DialFails(s)
    <3>1. /\ joining[s] = "none" /\ joining' = [joining EXCEPT ![s] = "raised"]
          /\ Hangup(s, "cloud")
      BY <2>5 DEF DialFails
    <3>2. ~terminated[s]
      BY <2>0, <3>1 DEF OwnCall
    <3>3. QED BY <2>4, <3>1, <3>2
  <2>6. CASE DialGoesOn(s)
    <3>1. /\ joining' = [joining EXCEPT ![s] = "returned"] /\ joined' = [joined EXCEPT ![s] = TRUE]
          /\ recording' \in {[recording EXCEPT ![s] = "open"], [recording EXCEPT ![s] = recording[s]]}
          /\ UNCHANGED <<closed, engine, terminated, hangups, ending, calls>>
      BY <2>6 DEF DialGoesOn
    <3>2. DevType' /\ OwnCall(s)'
      BY <2>0, <3>1 DEF DevType, OwnCall
    <3>3. QED BY <2>0, <3>1, <3>2, OtherCallsStay DEF DevType
  <2>7. CASE JoinFailed(s)
    <3>1. joining' = [joining EXCEPT ![s] = "raised"]
      BY <2>7 DEF JoinFailed
    <3>2. CASE ~terminated[s] /\ Hangup(s, "cloud")
      BY <2>4, <3>1, <3>2
    <3>3. CASE /\ terminated[s] /\ MacosTeardown(s)
               /\ UNCHANGED <<teardown, leaving, joined, closed, terminated, hangups>>
               /\ UNCHANGED <<calls, by, ending, recording>>
      <4>1. engine' = [engine EXCEPT ![s] = FALSE]
        BY <3>3 DEF MacosTeardown
      <4>2. DevType' /\ OwnCall(s)'
        BY <2>0, <3>1, <3>3, <4>1 DEF DevType, OwnCall
      <4>3. QED BY <2>0, <3>1, <3>3, <4>1, <4>2, OtherCallsStay DEF DevType
    <3>4. QED BY <2>7, <3>2, <3>3 DEF JoinFailed
  <2>8. CASE Cancel(s)
    <3>1. s \in calls /\ ~terminated[s] /\ Hangup(s, "cloud") /\ UNCHANGED joining
      BY <2>8 DEF Cancel
    <3>2. joining[s] # "none"
      BY <2>0, <3>1 DEF OwnCall
    <3>3. QED BY <2>4, <3>1, <3>2
  <2>9. CASE PumpsEnded(s)
    <3>1. /\ ending[s] = "cancelling" /\ ending' = [ending EXCEPT ![s] = "over"]
          /\ recording' = [recording EXCEPT ![s] = IF @ = "open" THEN "final" ELSE @]
          /\ joined' = [joined EXCEPT ![s] = FALSE] /\ closed' = [closed EXCEPT ![s] = TRUE]
          /\ engine' = [engine EXCEPT ![s] = FALSE]
          /\ UNCHANGED <<joining, calls, terminated, hangups>>
      BY <2>9 DEF PumpsEnded, Release, MacosLeave, MacosTeardown
    <3>2. DevType' /\ OwnCall(s)'
      BY <2>0, <3>1 DEF DevType, OwnCall
    <3>3. QED BY <2>0, <3>1, <3>2, OtherCallsStay DEF DevType
  <2>10. CASE MainTerminates(s)
    <3>1. CASE s \in calls /\ ~terminated[s] /\ Hangup(s, "main") /\ UNCHANGED joining
      <4>1. joining[s] # "none"
        BY <2>0, <3>1 DEF OwnCall
      <4>2. QED BY <2>4, <3>1, <4>1
    <3>2. CASE UNCHANGED <<vars, ctxVars, hangups>>
      BY <1>1, <3>2 DEF vars, sessionVars, ctxVars
    <3>3. QED BY <2>10, <3>1, <3>2 DEF MainTerminates
  <2>11. CASE MainStops(s)
    <3>1. CASE UNCHANGED <<vars, ctxVars, hangups>>
      BY <1>1, <3>1 DEF vars, sessionVars, ctxVars
    <3>2. CASE /\ s \in calls /\ calls' = calls \ {s} /\ TearDown(s, "main")
               /\ UNCHANGED <<joining, terminated, hangups>>
      <4>1. joining[s] # "none"
        BY <2>0, <3>2 DEF OwnCall
      <4>2. CASE /\ ending' = [ending EXCEPT ![s] = "cancelling"]
                 /\ UNCHANGED <<recording, joined, closed, engine>>
        <5>1. DevType' /\ OwnCall(s)'
          BY <2>0, <3>2, <4>1, <4>2 DEF DevType, OwnCall
        <5>2. QED BY <2>0, <3>2, <4>2, <5>1, OtherCallsStay DEF DevType
      <4>3. CASE /\ ending' = [ending EXCEPT ![s] = "over"]
                 /\ recording' = [recording EXCEPT ![s] = IF @ = "open" THEN "final" ELSE @]
                 /\ joined' = [joined EXCEPT ![s] = FALSE]
                 /\ closed' = [closed EXCEPT ![s] = TRUE]
                 /\ engine' = [engine EXCEPT ![s] = FALSE]
        <5>1. DevType' /\ OwnCall(s)'
          BY <2>0, <3>2, <4>1, <4>3 DEF DevType, OwnCall
        <5>2. QED BY <2>0, <3>2, <4>3, <5>1, OtherCallsStay DEF DevType
      <4>4. QED BY <3>2, <4>2, <4>3, TearDownEffect
    <3>3. QED BY <2>11, <3>1, <3>2 DEF MainStops
  <2>12. QED
    BY <2>1, <2>2, <2>3, <2>5, <2>6, <2>7, <2>8, <2>9, <2>10, <2>11 DEF LoopStep
<1>5. QED BY <1>2, <1>3, <1>4 DEF DevNext

(* The invariant the results about these calls follow from.                *)
THEOREM DevInvariant == DevSpec => []DevInv
BY InitDevInv, NextDevInv, PTL DEF DevSpec

(* The cloud hears once that a call ended, whichever of the failing dial,  *)
(* the cancel and the shutdown comes first.                                *)
THEOREM CallEndsOnce == DevSpec => []OneHangup
<1>1. DevInv => OneHangup
  BY DEF DevInv, DevType, OwnCall, OneHangup
<1>2. QED BY <1>1, DevInvariant, PTL

(* A call that was torn down holds no engine, and only a join() that       *)
(* returned too late can have opened its recording again.                  *)
THEOREM TornDownCallsRelease == DevSpec => []ReleasedOnTeardown
<1>1. DevInv => ReleasedOnTeardown
  BY DEF DevInv, DevType, OwnCall, ReleasedOnTeardown
<1>2. QED BY <1>1, DevInvariant, PTL

-----------------------------------------------------------------------------
(* Induction and recursion without operator parameters                     *)

(* A set of numbers has a least element: induction by smallest             *)
(* counterexample.                                                         *)
LEMMA LeastNumber ==
  ASSUME NEW T, T \subseteq Nat, T # {}
  PROVE  \E n \in T : \A m \in T : n <= m
<1> DEFINE R == {ss \in Nat \X Nat : ss[1] < ss[2]}
<1>1. IsWellFoundedOn(R, Nat)
  BY NatLessThanWellFounded DEF OpToRel
<1> HIDE DEF R
<1>2. PICK n \in T : \A m \in T : ~ (<<m, n>> \in R)
  BY <1>1, WFMin
<1>3. ASSUME NEW m \in T PROVE n <= m
  <2>1. n \in Nat /\ m \in Nat
    OBVIOUS
  <2>2. ~(m < n)
    BY <1>2, <2>1 DEF R
  <2>3. QED BY <2>1, <2>2
<1>4. QED BY <1>3

(* Induction up to n, for a property given as the set of numbers it has.   *)
LEMMA SetInduction ==
  ASSUME NEW n \in Nat, NEW G, 0 \in G, \A m \in 1..n : m - 1 \in G => m \in G
  PROVE  \A m \in 0..n : m \in G
<1> DEFINE Bad == {m \in 0..n : m \notin G}
<1> SUFFICES ASSUME Bad # {} PROVE FALSE
  OBVIOUS
<1>1. Bad \subseteq Nat
  OBVIOUS
<1>2. PICK m \in Bad : \A other \in Bad : m <= other
  BY <1>1, LeastNumber
<1>3. m \in 0..n /\ m # 0 /\ m \notin G
  OBVIOUS
<1>4. m \in 1..n /\ m - 1 \in 0..n /\ ~(m <= m - 1)
  BY <1>3
<1>5. m - 1 \in G
  BY <1>2, <1>4
<1>6. QED BY <1>3, <1>4, <1>5

(* A function on 0..n can be defined by its value at 0 and a step.         *)
Recurs(f, n, v0, step) == f[0] = v0 /\ \A i \in 1..n : f[i] = step[<<i, f[i - 1]>>]

(* A recursive function on 0..n exists: by induction on its length.        *)
LEMMA Recursion ==
  ASSUME NEW n \in Nat, NEW V, NEW v0 \in V, NEW step \in [(1..n) \X V -> V]
  PROVE  \E f \in [0..n -> V] : Recurs(f, n, v0, step)
<1> DEFINE Good(m) == \E f \in [0..m -> V] :
                        f[0] = v0 /\ \A i \in 1..m : f[i] = step[<<i, f[i - 1]>>]
<1>1. Good(0)
  <2> DEFINE f == [i \in 0..0 |-> v0]
  <2>1. f \in [0..0 -> V] /\ f[0] = v0 /\ 1..0 = {}
    OBVIOUS
  <2>2. QED BY <2>1
<1>2. ASSUME NEW m \in 1..n, Good(m - 1) PROVE Good(m)
  <2>1. PICK f \in [0..(m - 1) -> V] :
          f[0] = v0 /\ \A i \in 1..(m - 1) : f[i] = step[<<i, f[i - 1]>>]
    BY <1>2
  <2> DEFINE h == [i \in 0..m |-> IF i = m THEN step[<<m, f[m - 1]>>] ELSE f[i]]
  <2>2. m - 1 \in 0..(m - 1) /\ f[m - 1] \in V
    OBVIOUS
  <2>3. step[<<m, f[m - 1]>>] \in V
    BY <2>2
  <2>4. \A i \in 0..m : i # m => i \in 0..(m - 1)
    OBVIOUS
  <2>5. h \in [0..m -> V]
    BY <2>3, <2>4
  <2>6. h[0] = v0 /\ h[m] = step[<<m, f[m - 1]>>] /\ \A i \in 0..(m - 1) : h[i] = f[i]
    BY <2>1
  <2> HIDE DEF h
  <2>7. ASSUME NEW i \in 1..m PROVE h[i] = step[<<i, h[i - 1]>>]
    <3>1. i - 1 \in 0..(m - 1) /\ h[i - 1] = f[i - 1]
      BY <2>6
    <3>2. CASE i = m
      BY <2>6, <3>1, <3>2
    <3>3. CASE i # m
      <4>1. i \in 1..(m - 1) /\ i \in 0..(m - 1)
        BY <3>3
      <4>2. QED BY <2>1, <2>6, <3>1, <4>1
    <3>4. QED BY <3>2, <3>3
  <2>8. QED BY <2>5, <2>6, <2>7
<1> HIDE DEF Good
<1> DEFINE G == {m \in 0..n : Good(m)}
<1>3. 0 \in G /\ \A m \in 1..n : m - 1 \in G => m \in G
  BY <1>1, <1>2
<1> HIDE DEF G
<1>4. n \in G
  BY <1>3, SetInduction
<1>5. QED BY <1>4 DEF Good, G, Recurs

-----------------------------------------------------------------------------
(* Numbered frames in a sequence; 0 is no frame                            *)

Nums(q) == {q[i] : i \in 1..Len(q)} \ {0}
Rising(q) == \A i, j \in 1..Len(q) : i < j /\ q[i] # 0 /\ q[j] # 0 => q[i] < q[j]

(* The empty queue.                                                        *)
LEMMA EmptyRises == <<>> \in Seq(Nat) /\ Nums(<<>>) = {} /\ Rising(<<>>)
<1>1. Len(<<>>) = 0 /\ <<>> \in Seq(Nat) /\ 1..0 = {}
  OBVIOUS
<1>2. QED BY <1>1 DEF Nums, Rising

(* A newer frame, or the sentinel, at the end of a queue.                  *)
LEMMA AppendRises ==
  ASSUME NEW q \in Seq(Nat), NEW f \in Nat
  PROVE  /\ Append(q, f) \in Seq(Nat)
         /\ Nums(Append(q, f)) = Nums(q) \union ({f} \ {0})
         /\ Rising(q) /\ (f # 0 => \A n \in Nums(q) : n < f) => Rising(Append(q, f))
<1> DEFINE a == Append(q, f)
<1>1. /\ a \in Seq(Nat) /\ Len(a) = Len(q) + 1 /\ a[Len(q) + 1] = f /\ Len(q) \in Nat
      /\ \A i \in 1..Len(q) : a[i] = q[i]
  BY AppendProperties
<1> HIDE DEF a
<1>2. /\ \A i \in 1..Len(a) : i = Len(q) + 1 \/ i \in 1..Len(q)
      /\ \A i \in 1..Len(q) : i \in 1..Len(a)
      /\ Len(q) + 1 \in 1..Len(a)
  BY <1>1
<1>3. Nums(a) = Nums(q) \union ({f} \ {0})
  BY <1>1, <1>2 DEF Nums
<1>4. ASSUME Rising(q), f # 0 => \A n \in Nums(q) : n < f,
             NEW i \in 1..Len(a), NEW j \in 1..Len(a), i < j, a[i] # 0, a[j] # 0
      PROVE  a[i] < a[j]
  <2>1. i \in 1..Len(q) /\ a[i] = q[i]
    BY <1>1, <1>4
  <2>2. CASE j = Len(q) + 1
    <3>1. a[j] = f /\ q[i] \in Nums(q)
      BY <1>1, <1>4, <2>1, <2>2 DEF Nums
    <3>2. QED BY <1>4, <2>1, <3>1
  <2>3. CASE j \in 1..Len(q)
    BY <1>1, <1>4, <2>1, <2>3 DEF Rising
  <2>4. QED BY <1>2, <2>2, <2>3
<1>5. Rising(q) /\ (f # 0 => \A n \in Nums(q) : n < f) => Rising(a)
  BY <1>4 DEF Rising
<1>6. QED BY <1>1, <1>3, <1>5 DEF a

(* Dropping a number of entries from the front.                            *)
LEMMA DropRises ==
  ASSUME NEW q \in Seq(Nat), Rising(q), NEW d \in 0..Len(q), NEW t \in Seq(Nat),
         Len(t) = Len(q) - d, \A i \in 1..Len(t) : t[i] = q[i + d]
  PROVE  /\ Rising(t) /\ Nums(t) \subseteq Nums(q)
         /\ \A i \in 1..d : q[i] # 0 => \A n \in Nums(t) : q[i] < n
<1>1. Len(q) \in Nat /\ Len(t) \in Nat
  OBVIOUS
<1>2. \A i \in 1..Len(t) : i + d \in 1..Len(q) /\ t[i] = q[i + d]
  BY <1>1
<1>3. Nums(t) \subseteq Nums(q)
  BY <1>2 DEF Nums
<1>4. ASSUME NEW i \in 1..Len(t), NEW j \in 1..Len(t), i < j, t[i] # 0, t[j] # 0 PROVE t[i] < t[j]
  <2>1. i + d < j + d
    BY <1>1, <1>4
  <2>2. QED BY <1>2, <1>4, <2>1 DEF Rising
<1>5. ASSUME NEW i \in 1..d, q[i] # 0, NEW n \in Nums(t) PROVE q[i] < n
  <2>1. PICK j \in 1..Len(t) : t[j] = n /\ n # 0
    BY DEF Nums
  <2>2. i \in 1..Len(q) /\ i < j + d
    BY <1>1
  <2>3. QED BY <1>2, <1>5, <2>1, <2>2 DEF Rising
<1>6. Rising(t)
  BY <1>4 DEF Rising
<1>7. QED BY <1>3, <1>5, <1>6

(* The oldest entry leaves a queue.                                        *)
LEMMA TailRises ==
  ASSUME NEW q \in Seq(Nat), Rising(q), q # <<>>
  PROVE  /\ Tail(q) \in Seq(Nat) /\ Rising(Tail(q)) /\ Head(q) \in Nat
         /\ Nums(q) = Nums(Tail(q)) \union ({Head(q)} \ {0})
         /\ Head(q) # 0 => \A n \in Nums(Tail(q)) : Head(q) < n
<1> DEFINE t == Tail(q)
<1>1. /\ t \in Seq(Nat) /\ Len(t) = Len(q) - 1 /\ Head(q) = q[1] /\ Head(q) \in Nat
      /\ Len(q) \in Nat \ {0} /\ \A i \in 1..Len(t) : t[i] = q[i + 1]
  BY HeadTailProperties, EmptySeq
<1> HIDE DEF t
<1>2. 1 \in 0..Len(q) /\ 1 \in 1..1 /\ 1 \in 1..Len(q)
  BY <1>1
<1>3. /\ Rising(t) /\ Nums(t) \subseteq Nums(q)
      /\ \A i \in 1..1 : q[i] # 0 => \A n \in Nums(t) : q[i] < n
  BY <1>1, <1>2, DropRises
<1>4. Nums(q) = Nums(t) \union ({Head(q)} \ {0})
  <2>1. ASSUME NEW i \in 1..Len(q), q[i] # 0 PROVE q[i] \in Nums(t) \union ({Head(q)} \ {0})
    <3>1. CASE i = 1
      BY <1>1, <2>1, <3>1
    <3>2. CASE i # 1
      <4>1. i - 1 \in 1..Len(t) /\ t[i - 1] = q[i]
        BY <1>1, <3>2
      <4>2. QED BY <2>1, <4>1 DEF Nums
    <3>3. QED BY <3>1, <3>2
  <2>2. ({Head(q)} \ {0}) \subseteq Nums(q)
    BY <1>1, <1>2 DEF Nums
  <2>3. QED BY <1>3, <2>1, <2>2 DEF Nums
<1>5. QED BY <1>1, <1>2, <1>3, <1>4 DEF t

(* A bounded queue that gives up its oldest entry.                         *)
LEMMA EnqueueRises ==
  ASSUME NEW q \in Seq(Nat), Rising(q), NEW f \in Nat, f # 0 => \A n \in Nums(q) : n < f
  PROVE  /\ Enqueue(q, f) \in Seq(Nat) /\ Rising(Enqueue(q, f))
         /\ Nums(Enqueue(q, f)) \subseteq Nums(q) \union ({f} \ {0})
<1>1. CASE Len(q) < QueueSize
  BY <1>1, AppendRises DEF Enqueue
<1>2. CASE ~(Len(q) < QueueSize)
  <2>1. q # <<>>
    BY <1>2, RtcAssumption
  <2>2. Tail(q) \in Seq(Nat) /\ Rising(Tail(q)) /\ Nums(Tail(q)) \subseteq Nums(q)
    BY <2>1, TailRises
  <2>3. f # 0 => \A n \in Nums(Tail(q)) : n < f
    BY <2>2
  <2>4. /\ Append(Tail(q), f) \in Seq(Nat) /\ Rising(Append(Tail(q), f))
        /\ Nums(Append(Tail(q), f)) = Nums(Tail(q)) \union ({f} \ {0})
    BY <2>2, <2>3, AppendRises
  <2>5. Enqueue(q, f) = Append(Tail(q), f)
    BY <1>2 DEF Enqueue
  <2>6. QED BY <2>2, <2>4, <2>5
<1>3. QED BY <1>1, <1>2

(* The sentinel does not disturb the frames.                               *)
LEMMA EndRises ==
  ASSUME NEW q \in Seq(Nat), Rising(q)
  PROVE  /\ Append(q, End) \in Seq(Nat) /\ Rising(Append(q, End)) /\ Nums(Append(q, End)) = Nums(q)
         /\ PutEnd(q) \in Seq(Nat) /\ Rising(PutEnd(q)) /\ Nums(PutEnd(q)) = Nums(q)
<1>1. End \in Nat /\ End = 0
  BY DEF End
<1>2. /\ Append(q, End) \in Seq(Nat) /\ Rising(Append(q, End)) /\ Nums(Append(q, End)) = Nums(q)
  <2>1. /\ Append(q, 0) \in Seq(Nat) /\ Rising(Append(q, 0))
        /\ Nums(Append(q, 0)) = Nums(q) \union ({0} \ {0})
    <3>1. 0 \in Nat /\ (0 # 0 => \A n \in Nums(q) : n < 0)
      OBVIOUS
    <3>2. QED BY <3>1, AppendRises
  <2>2. QED BY <1>1, <2>1
<1>3. QED BY <1>2 DEF PutEnd

(* What EnqueueAll() computes, one frame at a time.                        *)
LEMMA EnqueueAllIs ==
  ASSUME NEW q \in Seq(Nat), NEW fs \in Seq(Nat)
  PROVE  \E g : /\ g[0] = q /\ \A i \in 1..Len(fs) : g[i] = Enqueue(g[i - 1], fs[i])
                /\ EnqueueAll(q, fs) = g[Len(fs)]
<1> DEFINE n == Len(fs)
           V == Seq(Nat)
           step == [a \in (1..n) \X V |-> Enqueue(a[2], fs[a[1]])]
           upTo == CHOOSE g : g = [i \in 0..Len(fs) |->
                                     IF i = 0 THEN q ELSE Enqueue(g[i - 1], fs[i])]
<1>1. n \in Nat /\ q \in V
  OBVIOUS
<1>2. ASSUME NEW i \in 1..n, NEW v \in V PROVE Enqueue(v, fs[i]) \in V
  <2>1. fs[i] \in Nat
    OBVIOUS
  <2>2. CASE Len(v) < QueueSize
    BY <2>1, <2>2 DEF Enqueue
  <2>3. CASE ~(Len(v) < QueueSize)
    <3>1. v # <<>>
      BY <2>3, RtcAssumption
    <3>2. Tail(v) \in Seq(Nat)
      BY <3>1
    <3>3. QED BY <2>1, <2>3, <3>2 DEF Enqueue
  <2>4. QED BY <2>2, <2>3
<1>3. EnqueueAll(q, fs) = upTo[n]
  BY DEF EnqueueAll
<1> HIDE DEF n, V, upTo
<1>4. step \in [(1..n) \X V -> V]
  <2> SUFFICES ASSUME NEW a \in (1..n) \X V PROVE Enqueue(a[2], fs[a[1]]) \in V
    OBVIOUS
  <2>1. a[1] \in 1..n /\ a[2] \in V
    OBVIOUS
  <2>2. QED BY <1>2, <2>1
<1>5. \A i \in 1..n, v \in V : step[<<i, v>>] = Enqueue(v, fs[i])
  OBVIOUS
<1> HIDE DEF step
<1>6. PICK g \in [0..n -> V] : Recurs(g, n, q, step)
  BY <1>1, <1>4, Recursion
<1>7. \A i \in 1..n : g[i] = Enqueue(g[i - 1], fs[i])
  <2> SUFFICES ASSUME NEW i \in 1..n PROVE g[i] = Enqueue(g[i - 1], fs[i])
    OBVIOUS
  <2>1. i - 1 \in 0..n /\ g[i - 1] \in V
    BY <1>1
  <2>2. QED BY <1>5, <1>6, <2>1 DEF Recurs
<1>8. g = [i \in 0..n |-> IF i = 0 THEN q ELSE Enqueue(g[i - 1], fs[i])]
  <2>1. \A i \in 0..n : i # 0 => i \in 1..n
    BY <1>1
  <2>2. QED BY <1>6, <1>7, <2>1 DEF Recurs
<1>9. upTo = [i \in 0..n |-> IF i = 0 THEN q ELSE Enqueue(upTo[i - 1], fs[i])]
  BY <1>8 DEF upTo, n
<1>10. 0 \in 0..n /\ \A i \in 1..n : i \in 0..n /\ i # 0
  BY <1>1
<1>11. upTo[0] = q /\ \A i \in 1..n : upTo[i] = Enqueue(upTo[i - 1], fs[i])
  BY <1>9, <1>10
<1>12. QED BY <1>3, <1>11 DEF n

(* A batch of newer frames goes through the queue in order.                *)
LEMMA EnqueueAllRises ==
  ASSUME NEW q \in Seq(Nat), Rising(q), NEW fs \in Seq(Nat), Rising(fs),
         \A n \in Nums(q), m \in Nums(fs) : n < m
  PROVE  /\ EnqueueAll(q, fs) \in Seq(Nat) /\ Rising(EnqueueAll(q, fs))
         /\ Nums(EnqueueAll(q, fs)) \subseteq Nums(q) \union Nums(fs)
<1>1. PICK g : /\ g[0] = q /\ \A i \in 1..Len(fs) : g[i] = Enqueue(g[i - 1], fs[i])
               /\ EnqueueAll(q, fs) = g[Len(fs)]
  BY EnqueueAllIs
<1> DEFINE First(m) == {fs[i] : i \in 1..m} \ {0}
           Good(m) == g[m] \in Seq(Nat) /\ Rising(g[m]) /\ Nums(g[m]) \subseteq Nums(q) \union First(m)
           G == {m \in 0..Len(fs) : Good(m)}
<1>2. Len(fs) \in Nat
  OBVIOUS
<1>3. 0 \in G
  BY <1>1, <1>2
<1>4. ASSUME NEW m \in 1..Len(fs), m - 1 \in G PROVE m \in G
  <2>1. fs[m] \in Nat /\ m \in 0..Len(fs) /\ Good(m - 1)
    BY <1>2, <1>4
  <2>2. ASSUME fs[m] # 0, NEW n \in Nums(g[m - 1]) PROVE n < fs[m]
    <3>1. fs[m] \in Nums(fs)
      BY <2>2 DEF Nums
    <3>2. CASE n \in Nums(q)
      BY <3>1, <3>2
    <3>3. CASE n \in First(m - 1)
      <4>1. PICK i \in 1..(m - 1) : n = fs[i] /\ n # 0
        BY <3>3
      <4>2. i \in 1..Len(fs) /\ i < m
        BY <1>2
      <4>3. QED BY <2>2, <4>1, <4>2 DEF Rising
    <3>4. QED BY <2>1, <2>2, <3>2, <3>3
  <2>3. g[m] = Enqueue(g[m - 1], fs[m])
    BY <1>1
  <2> HIDE DEF First
  <2>4. /\ g[m] \in Seq(Nat) /\ Rising(g[m])
        /\ Nums(g[m]) \subseteq Nums(g[m - 1]) \union ({fs[m]} \ {0})
    BY <2>1, <2>2, <2>3, EnqueueRises
  <2>5. First(m - 1) \subseteq First(m) /\ ({fs[m]} \ {0}) \subseteq First(m)
    <3>1. m \in 1..m /\ \A i \in 1..(m - 1) : i \in 1..m
      BY <1>2
    <3>2. QED BY <3>1 DEF First
  <2>6. QED BY <2>1, <2>4, <2>5
<1> HIDE DEF G
<1>5. \A m \in 0..Len(fs) : m \in G
  BY <1>2, <1>3, <1>4, SetInduction
<1>6. Len(fs) \in G
  BY <1>2, <1>5
<1>7. QED BY <1>1, <1>6 DEF G, Nums

-----------------------------------------------------------------------------
(* FrameRingBuffer is a queue                                              *)

Ring(sl, h, t, n) == [slot |-> sl, head |-> h, tail |-> t, size |-> n]

Rings ==
  [slot : [0..(RingSize - 1) -> Nat], head : 0..(RingSize - 1), tail : 0..(RingSize - 1),
   size : 0..RingSize]

Contents(r) == RingFrames(r, r.size)
WellFormed(r) == r \in Rings /\ r.head = (r.tail + r.size) % RingSize

(* An index below twice the capacity wraps around once at most.            *)
LEMMA WrapOnce ==
  ASSUME NEW t \in 0..(RingSize - 1), NEW i \in 0..RingSize
  PROVE  /\ (t + i) % RingSize = IF t + i < RingSize THEN t + i ELSE t + i - RingSize
         /\ (t + i) % RingSize \in 0..(RingSize - 1)
<1>1. RingSize \in Nat \ {0}
  BY RtcAssumption
<1>2. (t + i) % RingSize = IF t + i < RingSize THEN t + i ELSE t + i - RingSize
  BY <1>1
<1>3. QED BY <1>1, <1>2

(* The same for the slot of the i-th frame.                                *)
LEMMA SlotIs ==
  ASSUME NEW t \in 0..(RingSize - 1), NEW i \in 1..RingSize
  PROVE  /\ (t + i - 1) % RingSize =
              IF t + i - 1 < RingSize THEN t + i - 1 ELSE t + i - 1 - RingSize
         /\ (t + i - 1) % RingSize \in 0..(RingSize - 1)
<1>1. RingSize \in Nat \ {0}
  BY RtcAssumption
<1>2. (t + i - 1) % RingSize = IF t + i - 1 < RingSize THEN t + i - 1 ELSE t + i - 1 - RingSize
  BY <1>1
<1>3. QED BY <1>1, <1>2

(* A ring in its four parts.                                               *)
LEMMA RingParts ==
  ASSUME NEW r, WellFormed(r)
  PROVE  \E sl \in [0..(RingSize - 1) -> Nat], h \in 0..(RingSize - 1),
            t \in 0..(RingSize - 1), n \in 0..RingSize :
           r = Ring(sl, h, t, n) /\ h = (t + n) % RingSize
<1>1. /\ r.slot \in [0..(RingSize - 1) -> Nat] /\ r.head \in 0..(RingSize - 1)
      /\ r.tail \in 0..(RingSize - 1) /\ r.size \in 0..RingSize
      /\ r = Ring(r.slot, r.head, r.tail, r.size)
      /\ r.head = (r.tail + r.size) % RingSize
  BY DEF WellFormed, Rings, Ring
<1>2. QED BY <1>1

(* c is what the k slots from t on hold.                                   *)
Holds(c, sl, t, k) ==
  c \in Seq(Nat) /\ Len(c) = k /\ \A i \in 1..k : c[i] = sl[(t + i - 1) % RingSize]

(* What a ring holds.                                                      *)
LEMMA FramesOf ==
  ASSUME NEW sl \in [0..(RingSize - 1) -> Nat], NEW h \in 0..(RingSize - 1),
         NEW t \in 0..(RingSize - 1), NEW n \in 0..RingSize, NEW k \in 0..RingSize
  PROVE  /\ Ring(sl, h, t, n) \in Rings
         /\ Holds(RingFrames(Ring(sl, h, t, n), k), sl, t, k)
         /\ Contents(Ring(sl, h, t, n)) = RingFrames(Ring(sl, h, t, n), n)
<1> DEFINE g == [i \in 1..k |-> sl[(t + i - 1) % RingSize]]
<1>1. RingSize \in Nat \ {0} /\ k \in Nat
  BY RtcAssumption
<1>2. ASSUME NEW i \in 1..k PROVE sl[(t + i - 1) % RingSize] \in Nat
  <2>1. i \in 1..RingSize
    BY <1>1
  <2>2. (t + i - 1) % RingSize \in 0..(RingSize - 1)
    BY <2>1, SlotIs
  <2>3. QED BY <2>2
<1>3. RingFrames(Ring(sl, h, t, n), k) = g
  BY DEF RingFrames, Ring
<1>4. g \in [1..k -> Nat]
  BY <1>2
<1>5. \A i \in 1..k : g[i] = sl[(t + i - 1) % RingSize]
  OBVIOUS
<1> HIDE DEF g
<1>6. g \in Seq(Nat) /\ Len(g) = k
  BY <1>1, <1>4, SeqDef, LenProperties
<1>7. Ring(sl, h, t, n) \in Rings /\ Contents(Ring(sl, h, t, n)) = RingFrames(Ring(sl, h, t, n), n)
  BY DEF Ring, Rings, Contents
<1>8. QED BY <1>3, <1>5, <1>6, <1>7 DEF Holds

(* The indices of push(): where the frame goes, and the wrapped slots of   *)
(* what stays.                                                             *)
Pushes(h, t, n) ==
  /\ (h + 1) % RingSize \in 0..(RingSize - 1)
  /\ (t + 1) % RingSize \in 0..(RingSize - 1)
  /\ n # RingSize =>
       /\ (h + 1) % RingSize = (t + (n + 1)) % RingSize
       /\ \A i \in 1..(n + 1) : (t + i - 1) % RingSize = h <=> i = n + 1
  /\ n = RingSize =>
       /\ h = t /\ (h + 1) % RingSize = (((t + 1) % RingSize) + RingSize) % RingSize
       /\ \A i \in 1..RingSize :
            /\ (((t + 1) % RingSize) + i - 1) % RingSize = (t + (i + 1) - 1) % RingSize
            /\ (((t + 1) % RingSize) + i - 1) % RingSize = h <=> i = RingSize

(* They are right for every head, tail and size that fit together.         *)
LEMMA PushIndices ==
  ASSUME NEW h \in 0..(RingSize - 1), NEW t \in 0..(RingSize - 1), NEW n \in 0..RingSize,
         h = (t + n) % RingSize
  PROVE  Pushes(h, t, n)
<1>1. RingSize \in Nat \ {0}
  BY RtcAssumption
<1>2. /\ (t + n) % RingSize = IF t + n < RingSize THEN t + n ELSE t + n - RingSize
      /\ (h + 1) % RingSize = IF h + 1 < RingSize THEN h + 1 ELSE 0
      /\ (t + 1) % RingSize = IF t + 1 < RingSize THEN t + 1 ELSE 0
  BY <1>1
<1>3. CASE n # RingSize
  <2>1. (h + 1) % RingSize = (t + (n + 1)) % RingSize
    BY <1>1, <1>2, <1>3
  <2>2. ASSUME NEW i \in 1..(n + 1) PROVE (t + i - 1) % RingSize = h <=> i = n + 1
    <3>1. i \in 1..RingSize
      BY <1>1, <1>3
    <3>2. QED BY <1>1, <1>2, <1>3, <3>1, SlotIs
  <2>3. QED BY <1>1, <1>2, <1>3, <2>1, <2>2 DEF Pushes
<1>4. CASE n = RingSize
  <2>1. h = t
    BY <1>1, <1>2, <1>4
  <2>2. PICK t2 \in 0..(RingSize - 1) : t2 = (t + 1) % RingSize
    BY <1>1, <1>2
  <2>3. t2 = IF t + 1 < RingSize THEN t + 1 ELSE 0
    BY <1>2, <2>2
  <2>4. (t2 + RingSize) % RingSize = t2
    BY <1>1
  <2>5. ASSUME NEW i \in 1..RingSize
        PROVE  /\ (t2 + i - 1) % RingSize = (t + (i + 1) - 1) % RingSize
               /\ (t2 + i - 1) % RingSize = h <=> i = RingSize
    <3>1. (t2 + i - 1) % RingSize =
            IF t2 + i - 1 < RingSize THEN t2 + i - 1 ELSE t2 + i - 1 - RingSize
      BY SlotIs
    <3>2. (t + (i + 1) - 1) % RingSize =
            IF t + i < RingSize THEN t + i ELSE t + i - RingSize
      BY <1>1
    <3>3. QED BY <1>1, <2>1, <2>3, <3>1, <3>2
  <2>6. QED BY <1>1, <1>2, <1>4, <2>1, <2>2, <2>3, <2>4, <2>5 DEF Pushes
<1>5. QED BY <1>3, <1>4

(* push() appends, after giving up the oldest frame of a full ring.        *)
LEMMA PushContents ==
  ASSUME NEW r, WellFormed(r), NEW f \in Nat
  PROVE  /\ WellFormed(RingPush(r, f))
         /\ Contents(r) \in Seq(Nat) /\ Len(Contents(r)) = r.size
         /\ Contents(RingPush(r, f)) =
              Append(IF r.size = RingSize THEN Tail(Contents(r)) ELSE Contents(r), f)
<1>1. RingSize \in Nat \ {0}
  BY RtcAssumption
<1>2. PICK sl \in [0..(RingSize - 1) -> Nat], h \in 0..(RingSize - 1),
           t \in 0..(RingSize - 1), n \in 0..RingSize :
        r = Ring(sl, h, t, n) /\ h = (t + n) % RingSize
  BY RingParts
<1>3. r.slot = sl /\ r.head = h /\ r.tail = t /\ r.size = n
  BY <1>2 DEF Ring
<1>4. /\ Contents(r) \in Seq(Nat) /\ Len(Contents(r)) = n
      /\ \A i \in 1..n : Contents(r)[i] = sl[(t + i - 1) % RingSize]
  <2>1. Holds(Contents(r), sl, t, n)
    BY <1>2, FramesOf
  <2>2. QED BY <2>1 DEF Holds
<1>4a. Pushes(h, t, n)
  BY <1>2, PushIndices
<1>5. PICK sl2 \in [0..(RingSize - 1) -> Nat] : sl2 = [sl EXCEPT ![h] = f]
  OBVIOUS
<1>6. \A j \in 0..(RingSize - 1) : sl2[j] = IF j = h THEN f ELSE sl[j]
  BY <1>5
<1>7. PICK h2 \in 0..(RingSize - 1) : h2 = (h + 1) % RingSize
  BY <1>4a DEF Pushes
<1>8. CASE n # RingSize
  <2>1. PICK n2 \in 1..RingSize : n2 = n + 1
    BY <1>1, <1>8
  <2>2. RingPush(r, f) = Ring(sl2, h2, t, n2)
    BY <1>3, <1>5, <1>7, <1>8, <2>1 DEF RingPush, Ring
  <2>3. /\ Ring(sl2, h2, t, n2) \in Rings /\ Contents(Ring(sl2, h2, t, n2)) \in Seq(Nat)
        /\ Len(Contents(Ring(sl2, h2, t, n2))) = n2
        /\ \A i \in 1..n2 : Contents(Ring(sl2, h2, t, n2))[i] = sl2[(t + i - 1) % RingSize]
    <3>1. n2 \in 0..RingSize
      BY <1>1
    <3>2. Ring(sl2, h2, t, n2) \in Rings /\ Holds(Contents(Ring(sl2, h2, t, n2)), sl2, t, n2)
      BY <3>1, FramesOf
    <3>3. QED BY <3>2 DEF Holds
  <2>4. WellFormed(Ring(sl2, h2, t, n2))
    <3>1. h2 = (t + n2) % RingSize
      BY <1>4a, <1>7, <1>8, <2>1 DEF Pushes
    <3>2. QED BY <2>3, <3>1 DEF WellFormed, Ring
  <2>5. /\ Append(Contents(r), f) \in Seq(Nat) /\ Len(Append(Contents(r), f)) = n + 1
        /\ Append(Contents(r), f)[n + 1] = f
        /\ \A i \in 1..n : Append(Contents(r), f)[i] = Contents(r)[i]
    BY <1>4, AppendProperties
  <2>6. ASSUME NEW i \in 1..n2
        PROVE  sl2[(t + i - 1) % RingSize] = Append(Contents(r), f)[i]
    <3>1. (t + i - 1) % RingSize = h <=> i = n2
      BY <1>4a, <1>8, <2>1 DEF Pushes
    <3>2. (t + i - 1) % RingSize \in 0..(RingSize - 1)
      <4>1. i \in 1..RingSize
        BY <1>1
      <4>2. QED BY <4>1, SlotIs
    <3>3. CASE i = n2
      BY <1>6, <2>1, <2>5, <3>1, <3>2, <3>3
    <3>4. CASE i # n2
      <4>1. i \in 1..n
        BY <2>1, <3>4
      <4>2. QED BY <1>4, <1>6, <2>5, <3>1, <3>2, <3>4, <4>1
    <3>5. QED BY <3>3, <3>4
  <2>7. Contents(Ring(sl2, h2, t, n2)) = Append(Contents(r), f)
    BY <2>1, <2>3, <2>5, <2>6, SeqEqual
  <2>8. QED BY <1>3, <1>4, <1>8, <2>2, <2>4, <2>7
<1>9. CASE n = RingSize
  <2>1. PICK t2 \in 0..(RingSize - 1) : t2 = (t + 1) % RingSize
    BY <1>4a DEF Pushes
  <2>2. RingPush(r, f) = Ring(sl2, h2, t2, n)
    BY <1>3, <1>5, <1>7, <1>9, <2>1 DEF RingPush, Ring
  <2>3. /\ Ring(sl2, h2, t2, n) \in Rings /\ Contents(Ring(sl2, h2, t2, n)) \in Seq(Nat)
        /\ Len(Contents(Ring(sl2, h2, t2, n))) = n
        /\ \A i \in 1..n : Contents(Ring(sl2, h2, t2, n))[i] = sl2[(t2 + i - 1) % RingSize]
    <3>1. n \in 0..RingSize
      BY <1>1
    <3>2. Ring(sl2, h2, t2, n) \in Rings /\ Holds(Contents(Ring(sl2, h2, t2, n)), sl2, t2, n)
      BY <3>1, FramesOf
    <3>3. QED BY <3>2 DEF Holds
  <2>4. WellFormed(Ring(sl2, h2, t2, n))
    <3>1. h2 = (t2 + n) % RingSize
      BY <1>4a, <1>7, <1>9, <2>1 DEF Pushes
    <3>2. QED BY <2>3, <3>1 DEF WellFormed, Ring
  <2>5. Contents(r) # <<>>
    BY <1>1, <1>4, <1>9, EmptySeq
  <2>6. /\ Tail(Contents(r)) \in Seq(Nat) /\ Len(Tail(Contents(r))) = n - 1
        /\ \A i \in 1..(n - 1) : Tail(Contents(r))[i] = Contents(r)[i + 1]
    BY <1>4, <2>5, HeadTailProperties
  <2>7. /\ Append(Tail(Contents(r)), f) \in Seq(Nat) /\ Len(Append(Tail(Contents(r)), f)) = n
        /\ Append(Tail(Contents(r)), f)[n] = f
        /\ \A i \in 1..(n - 1) : Append(Tail(Contents(r)), f)[i] = Tail(Contents(r))[i]
    BY <2>6, AppendProperties
  <2>8. ASSUME NEW i \in 1..n
        PROVE  sl2[(t2 + i - 1) % RingSize] = Append(Tail(Contents(r)), f)[i]
    <3>1. /\ (t2 + i - 1) % RingSize = h <=> i = n
          /\ (t2 + i - 1) % RingSize = (t + (i + 1) - 1) % RingSize
      BY <1>4a, <1>9, <2>1 DEF Pushes
    <3>2. (t2 + i - 1) % RingSize \in 0..(RingSize - 1)
      BY <1>9, SlotIs
    <3>3. CASE i = n
      BY <1>6, <2>7, <3>1, <3>2, <3>3
    <3>4. CASE i # n
      <4>1. i \in 1..(n - 1) /\ i + 1 \in 1..n
        BY <3>4
      <4>2. Contents(r)[i + 1] = sl[(t + (i + 1) - 1) % RingSize]
        BY <1>4, <4>1
      <4>3. Append(Tail(Contents(r)), f)[i] = Contents(r)[i + 1]
        BY <2>6, <2>7, <4>1
      <4>4. QED BY <1>6, <3>1, <3>2, <3>4, <4>2, <4>3
    <3>5. QED BY <3>3, <3>4
  <2>9. Contents(Ring(sl2, h2, t2, n)) = Append(Tail(Contents(r)), f)
    BY <2>3, <2>7, <2>8, SeqEqual
  <2>10. QED BY <1>3, <1>4, <1>9, <2>2, <2>4, <2>9
<1>10. QED BY <1>8, <1>9

(* The indices of drain(): the slots of what stays are those it had.       *)
Drains(t, n, d) ==
  /\ (t + d) % RingSize \in 0..(RingSize - 1)
  /\ (t + n) % RingSize = (((t + d) % RingSize) + (n - d)) % RingSize
  /\ \A i \in 1..(n - d) :
       (((t + d) % RingSize) + i - 1) % RingSize = (t + (i + d) - 1) % RingSize

(* They are right however many frames are drained.                         *)
LEMMA DrainIndices ==
  ASSUME NEW t \in 0..(RingSize - 1), NEW n \in 0..RingSize, NEW d \in 0..n
  PROVE  Drains(t, n, d)
<1>1. RingSize \in Nat \ {0}
  BY RtcAssumption
<1>2. d \in 0..RingSize
  BY <1>1
<1>3. PICK t2 \in 0..(RingSize - 1) : t2 = (t + d) % RingSize
  BY <1>2, WrapOnce
<1>4. t2 = IF t + d < RingSize THEN t + d ELSE t + d - RingSize
  BY <1>2, <1>3, WrapOnce
<1>5. (t + n) % RingSize = (t2 + (n - d)) % RingSize
  <2>1. PICK m \in 0..RingSize : m = n - d
    BY <1>1
  <2>2. /\ (t + n) % RingSize = IF t + n < RingSize THEN t + n ELSE t + n - RingSize
        /\ (t2 + m) % RingSize = IF t2 + m < RingSize THEN t2 + m ELSE t2 + m - RingSize
    BY WrapOnce
  <2>3. (t + n) % RingSize = (t2 + m) % RingSize
    BY <1>1, <1>2, <1>4, <2>1, <2>2
  <2>4. QED BY <2>1, <2>3
<1>6. ASSUME NEW i \in 1..(n - d)
      PROVE  (t2 + i - 1) % RingSize = (t + (i + d) - 1) % RingSize
  <2>1. i \in 1..RingSize
    BY <1>1
  <2>2. PICK j \in 1..RingSize : j = i + d
    BY <1>1
  <2>3. /\ (t2 + i - 1) % RingSize =
             IF t2 + i - 1 < RingSize THEN t2 + i - 1 ELSE t2 + i - 1 - RingSize
        /\ (t + j - 1) % RingSize =
             IF t + j - 1 < RingSize THEN t + j - 1 ELSE t + j - 1 - RingSize
    BY <2>1, SlotIs
  <2>4. (t2 + i - 1) % RingSize = (t + j - 1) % RingSize
    BY <1>1, <1>2, <1>4, <2>2, <2>3
  <2>5. QED BY <2>2, <2>4
<1>7. QED BY <1>3, <1>5, <1>6 DEF Drains

(* rest is what stays of c when taken, its first k entries, leave.         *)
Splits(c, taken, rest, k) ==
  /\ c \in Seq(Nat) /\ taken \in Seq(Nat) /\ rest \in Seq(Nat) /\ k \in 0..Len(c)
  /\ Len(taken) = k /\ Len(rest) = Len(c) - k
  /\ \A i \in 1..k : taken[i] = c[i]
  /\ \A i \in 1..Len(rest) : rest[i] = c[i + k]

(* drain() takes the oldest frames.                                        *)
LEMMA DrainContents ==
  ASSUME NEW r, WellFormed(r)
  PROVE  /\ WellFormed(RingDrain(r)) /\ RingDrain(r).size = r.size - Drained(r)
         /\ Drained(r) \in 0..r.size /\ r.size \in Nat
         /\ Splits(Contents(r), RingFrames(r, Drained(r)), Contents(RingDrain(r)), Drained(r))
<1>1. RingSize \in Nat \ {0} /\ Batch \in Nat \ {0}
  BY RtcAssumption
<1>2. PICK sl \in [0..(RingSize - 1) -> Nat], h \in 0..(RingSize - 1),
           t \in 0..(RingSize - 1), n \in 0..RingSize :
        r = Ring(sl, h, t, n) /\ h = (t + n) % RingSize
  BY RingParts
<1>3. r.slot = sl /\ r.head = h /\ r.tail = t /\ r.size = n
  BY <1>2 DEF Ring
<1>4. PICK d \in 0..n : d = Drained(r)
  BY <1>1, <1>3 DEF Drained
<1>5. Drains(t, n, d)
  BY DrainIndices
<1>6. PICK t2 \in 0..(RingSize - 1) : t2 = (t + d) % RingSize
  BY <1>5 DEF Drains
<1>7. PICK n2 \in 0..RingSize : n2 = n - d
  BY <1>1
<1>8. RingDrain(r) = Ring(sl, h, t2, n2)
  <2>1. RingDrain(r) = [r EXCEPT !.tail = t2, !.size = n2]
    BY <1>3, <1>4, <1>6, <1>7 DEF RingDrain
  <2>2. QED BY <1>2, <2>1 DEF Ring
<1>9. /\ Holds(Contents(r), sl, t, n) /\ Ring(sl, h, t2, n2) \in Rings
      /\ Holds(Contents(Ring(sl, h, t2, n2)), sl, t2, n2)
  BY <1>2, FramesOf
<1>10. Holds(RingFrames(r, d), sl, t, d)
  <2>1. d \in 0..RingSize
    BY <1>1
  <2>2. QED BY <1>2, <2>1, FramesOf
<1>11. WellFormed(Ring(sl, h, t2, n2))
  <2>1. h = (t2 + n2) % RingSize
    BY <1>2, <1>5, <1>6, <1>7 DEF Drains
  <2>2. QED BY <1>9, <2>1 DEF WellFormed, Ring
<1>12. ASSUME NEW i \in 1..n2
       PROVE  Contents(Ring(sl, h, t2, n2))[i] = Contents(r)[i + d]
  <2>1. PICK j \in 1..n : j = i + d
    BY <1>7
  <2>2. Contents(r)[j] = sl[(t + j - 1) % RingSize]
    BY <1>9 DEF Holds
  <2>3. Contents(Ring(sl, h, t2, n2))[i] = sl[(t2 + i - 1) % RingSize]
    BY <1>9 DEF Holds
  <2>4. (t2 + i - 1) % RingSize = (t + j - 1) % RingSize
    BY <1>5, <1>6, <1>7, <2>1 DEF Drains
  <2>5. QED BY <2>1, <2>2, <2>3, <2>4
<1>13. \A i \in 1..d : RingFrames(r, d)[i] = Contents(r)[i]
  <2>1. \A i \in 1..d : i \in 1..n
    OBVIOUS
  <2>2. QED BY <1>9, <1>10, <2>1 DEF Holds
<1>14. Splits(Contents(r), RingFrames(r, d), Contents(Ring(sl, h, t2, n2)), d)
  BY <1>7, <1>9, <1>10, <1>12, <1>13 DEF Splits, Holds
<1>15. Ring(sl, h, t2, n2).size = n - d
  BY <1>7 DEF Ring
<1>16. QED BY <1>3, <1>4, <1>8, <1>11, <1>14, <1>15

-----------------------------------------------------------------------------
(* The way of one session's remote audio                                   *)

Posts == [event : {"none", "ok", "error", "frame"}, frame : Nat]
FramesIn(p) == [i \in 1..Len(p) |-> p[i].frame]

(* The frames of the posted callbacks, one by one.                         *)
LEMMA FramesInIs ==
  ASSUME NEW p \in Seq(Posts)
  PROVE  /\ FramesIn(p) \in Seq(Nat) /\ Len(FramesIn(p)) = Len(p)
         /\ \A i \in 1..Len(p) : FramesIn(p)[i] = p[i].frame
<1>1. \A i \in 1..Len(p) : p[i] \in Posts
  OBVIOUS
<1>2. \A i \in 1..Len(p) : p[i].frame \in Nat
  BY <1>1 DEF Posts
<1>3. QED BY <1>2 DEF FramesIn

(* A callback is posted.                                                   *)
LEMMA FramesInAppend ==
  ASSUME NEW p \in Seq(Posts), NEW e \in Posts
  PROVE  /\ Append(p, e) \in Seq(Posts) /\ e.frame \in Nat
         /\ FramesIn(Append(p, e)) = Append(FramesIn(p), e.frame)
<1>1. /\ Append(p, e) \in Seq(Posts) /\ Len(Append(p, e)) = Len(p) + 1
      /\ Append(p, e)[Len(p) + 1] = e /\ \A i \in 1..Len(p) : Append(p, e)[i] = p[i]
  BY AppendProperties
<1>2. e.frame \in Nat
  BY DEF Posts
<1>3. /\ FramesIn(p) \in Seq(Nat) /\ Len(FramesIn(p)) = Len(p)
      /\ \A i \in 1..Len(p) : FramesIn(p)[i] = p[i].frame
  BY FramesInIs
<1>4. /\ FramesIn(Append(p, e)) \in Seq(Nat) /\ Len(FramesIn(Append(p, e))) = Len(p) + 1
      /\ \A i \in 1..(Len(p) + 1) : FramesIn(Append(p, e))[i] = Append(p, e)[i].frame
  BY <1>1, FramesInIs
<1> DEFINE a == Append(FramesIn(p), e.frame)
<1>5. /\ a \in Seq(Nat) /\ Len(a) = Len(p) + 1
      /\ a[Len(p) + 1] = e.frame /\ \A i \in 1..Len(p) : a[i] = FramesIn(p)[i]
  BY <1>2, <1>3, AppendProperties
<1> HIDE DEF a
<1>6. ASSUME NEW i \in 1..(Len(p) + 1) PROVE FramesIn(Append(p, e))[i] = a[i]
  <2>1. CASE i = Len(p) + 1
    BY <1>1, <1>4, <1>5, <2>1
  <2>2. CASE i # Len(p) + 1
    <3>1. i \in 1..Len(p)
      BY <2>2
    <3>2. QED BY <1>1, <1>3, <1>4, <1>5, <3>1
  <2>3. QED BY <2>1, <2>2
<1>7. FramesIn(Append(p, e)) = a
  BY <1>4, <1>5, <1>6, SeqEqual
<1>8. QED BY <1>1, <1>2, <1>7 DEF a

(* The first callback has run.                                             *)
LEMMA FramesInTail ==
  ASSUME NEW p \in Seq(Posts), p # <<>>
  PROVE  /\ Tail(p) \in Seq(Posts) /\ FramesIn(p) # <<>>
         /\ Head(FramesIn(p)) = Head(p).frame /\ FramesIn(Tail(p)) = Tail(FramesIn(p))
<1>1. /\ Tail(p) \in Seq(Posts) /\ Len(Tail(p)) = Len(p) - 1 /\ Head(p) = p[1]
      /\ Len(p) \in Nat \ {0} /\ \A i \in 1..(Len(p) - 1) : Tail(p)[i] = p[i + 1]
  BY HeadTailProperties, EmptySeq
<1>2. /\ FramesIn(p) \in Seq(Nat) /\ Len(FramesIn(p)) = Len(p)
      /\ \A i \in 1..Len(p) : FramesIn(p)[i] = p[i].frame
  BY FramesInIs
<1>3. FramesIn(p) # <<>>
  BY <1>1, <1>2
<1>4. /\ FramesIn(Tail(p)) \in Seq(Nat) /\ Len(FramesIn(Tail(p))) = Len(p) - 1
      /\ \A i \in 1..(Len(p) - 1) : FramesIn(Tail(p))[i] = Tail(p)[i].frame
  BY <1>1, FramesInIs
<1> DEFINE t == Tail(FramesIn(p))
<1>5. /\ t \in Seq(Nat) /\ Len(t) = Len(p) - 1 /\ Head(FramesIn(p)) = FramesIn(p)[1]
      /\ \A i \in 1..(Len(p) - 1) : t[i] = FramesIn(p)[i + 1]
  BY <1>2, <1>3, HeadTailProperties
<1> HIDE DEF t
<1>6. Head(FramesIn(p)) = Head(p).frame
  BY <1>1, <1>2, <1>5
<1>7. ASSUME NEW i \in 1..(Len(p) - 1) PROVE FramesIn(Tail(p))[i] = t[i]
  <2>1. i + 1 \in 1..Len(p)
    BY <1>1
  <2>2. QED BY <1>1, <1>2, <1>4, <1>5, <2>1
<1>8. FramesIn(Tail(p)) = t
  BY <1>4, <1>5, <1>7, SeqEqual
<1>9. QED BY <1>1, <1>3, <1>6, <1>8 DEF t

(* Frame numbers are positive.                                             *)
LEMMA NumsType == ASSUME NEW q \in Seq(Nat) PROVE Nums(q) \subseteq Nat /\ 0 \notin Nums(q)
BY DEF Nums

(* Both parts of a split sequence rise, the first one below the other.     *)
LEMMA SplitRises ==
  ASSUME NEW c, NEW taken, NEW rest, NEW k, Splits(c, taken, rest, k), Rising(c)
  PROVE  /\ Rising(taken) /\ Rising(rest)
         /\ Nums(taken) \subseteq Nums(c) /\ Nums(rest) \subseteq Nums(c)
         /\ \A a \in Nums(taken), b \in Nums(rest) : a < b
<1>1. /\ c \in Seq(Nat) /\ taken \in Seq(Nat) /\ rest \in Seq(Nat) /\ k \in 0..Len(c)
      /\ Len(taken) = k /\ Len(rest) = Len(c) - k
      /\ (\A i \in 1..k : taken[i] = c[i]) /\ \A i \in 1..Len(rest) : rest[i] = c[i + k]
  BY DEF Splits
<1>2. /\ Rising(rest) /\ Nums(rest) \subseteq Nums(c)
      /\ \A i \in 1..k : c[i] # 0 => \A n \in Nums(rest) : c[i] < n
  BY <1>1, DropRises
<1>3. \A i \in 1..k : i \in 1..Len(c)
  BY <1>1
<1>4. Rising(taken) /\ Nums(taken) \subseteq Nums(c)
  BY <1>1, <1>3 DEF Rising, Nums
<1>5. ASSUME NEW a \in Nums(taken), NEW b \in Nums(rest) PROVE a < b
  <2>1. PICK i \in 1..k : taken[i] = a /\ a # 0
    BY <1>1 DEF Nums
  <2>2. QED BY <1>1, <1>2, <2>1
<1>6. QED BY <1>2, <1>4, <1>5

(* The frames of a session in transit: in the ring, in the queue, posted.  *)
Moving(r, q, p) == Nums(Contents(r)) \union Nums(q) \union Nums(FramesIn(p))

(* Every station keeps the order of the remote user's frames, the queue    *)
(* has older ones than the station before it, which is the ring on Windows *)
(* and the loop's callbacks on macOS.                                      *)
InFlow(k, r, q, p, m) ==
  /\ WellFormed(r) /\ q \in Seq(Nat) /\ p \in Seq(Posts) /\ m \in Nat
  /\ Rising(Contents(r)) /\ Rising(q) /\ Rising(FramesIn(p))
  /\ \A a \in Nums(q), b \in Nums(Contents(r)) : a < b
  /\ \A a \in Nums(q), b \in Nums(FramesIn(p)) : a < b
  /\ \A a \in Moving(r, q, p) : a <= m
  /\ k # "windows" => Nums(Contents(r)) = {}
  /\ k # "macos" => Nums(FramesIn(p)) = {}

(* The types that the order of the frames rests on.                        *)
LEMMA FlowType ==
  ASSUME NEW k, NEW r, NEW q, NEW p, NEW m, InFlow(k, r, q, p, m)
  PROVE  /\ Contents(r) \in Seq(Nat) /\ FramesIn(p) \in Seq(Nat)
         /\ Nums(Contents(r)) \subseteq Nat /\ Nums(q) \subseteq Nat
         /\ Nums(FramesIn(p)) \subseteq Nat /\ Moving(r, q, p) \subseteq Nat /\ m \in Nat
<1>1. Contents(r) \in Seq(Nat)
  BY DrainContents DEF InFlow, Splits
<1>2. FramesIn(p) \in Seq(Nat)
  BY FramesInIs DEF InFlow
<1>3. QED BY <1>1, <1>2, NumsType DEF InFlow, Moving

(* The remote user's next frame is pushed into the ring.                   *)
LEMMA FlowPush ==
  ASSUME NEW r, NEW q, NEW p, NEW m, InFlow("windows", r, q, p, m)
  PROVE  /\ InFlow("windows", RingPush(r, m + 1), q, p, m + 1)
         /\ Moving(RingPush(r, m + 1), q, p) \subseteq Moving(r, q, p) \union {m + 1}
<1>1. /\ Contents(r) \in Seq(Nat) /\ Nums(Contents(r)) \subseteq Nat /\ Nums(q) \subseteq Nat
      /\ m \in Nat /\ m + 1 \in Nat /\ m + 1 # 0 /\ Moving(r, q, p) \subseteq Nat
      /\ WellFormed(r) /\ Rising(Contents(r))
  <2>1. /\ Contents(r) \in Seq(Nat) /\ Nums(Contents(r)) \subseteq Nat /\ Nums(q) \subseteq Nat
        /\ m \in Nat /\ Moving(r, q, p) \subseteq Nat
    BY FlowType
  <2>2. WellFormed(r) /\ Rising(Contents(r))
    BY DEF InFlow
  <2>3. m + 1 \in Nat /\ m + 1 # 0
    BY <2>1
  <2>4. QED BY <2>1, <2>2, <2>3
<1>2. \A a \in Moving(r, q, p) : a < m + 1
  BY <1>1 DEF InFlow
<1> DEFINE c == Contents(r)
           b == IF r.size = RingSize THEN Tail(c) ELSE c
           c2 == Contents(RingPush(r, m + 1))
<1>3. WellFormed(RingPush(r, m + 1)) /\ c2 = Append(b, m + 1)
  BY <1>1, PushContents
<1>4. b \in Seq(Nat) /\ Rising(b) /\ Nums(b) \subseteq Nums(c)
  <2>1. CASE r.size = RingSize
    <3>1. c # <<>>
      <4>1. Len(c) = r.size
        BY <1>1, PushContents
      <4>2. QED BY <2>1, <4>1, RtcAssumption, EmptySeq
    <3>2. QED BY <1>1, <2>1, <3>1, TailRises
  <2>2. CASE r.size # RingSize
    BY <1>1, <2>2
  <2>3. QED BY <2>1, <2>2
<1> HIDE DEF b, c, c2
<1>5. \A n \in Nums(b) : n < m + 1
  BY <1>2, <1>4 DEF Moving, c
<1>6. /\ c2 \in Seq(Nat) /\ Rising(c2) /\ Nums(c2) = Nums(b) \union {m + 1}
  <2>1. /\ Append(b, m + 1) \in Seq(Nat) /\ Nums(Append(b, m + 1)) = Nums(b) \union ({m + 1} \ {0})
        /\ Rising(Append(b, m + 1))
    BY <1>1, <1>4, <1>5, AppendRises
  <2>2. QED BY <1>1, <1>3, <2>1
<1>7. Nums(c2) \subseteq Nums(c) \union {m + 1}
  BY <1>4, <1>6
<1>8. Moving(RingPush(r, m + 1), q, p) \subseteq Moving(r, q, p) \union {m + 1}
  BY <1>7 DEF Moving, c, c2
<1>9. \A a \in Moving(RingPush(r, m + 1), q, p) : a <= m + 1
  <2>1. \A a \in Moving(r, q, p) : a <= m + 1
    BY <1>1, <1>2
  <2>2. m + 1 <= m + 1
    BY <1>1
  <2>3. QED BY <1>8, <2>1, <2>2
<1>10. \A a \in Nums(q), d \in Nums(c2) : a < d
  <2>1. \A a \in Nums(q) : a < m + 1
    BY <1>2 DEF Moving
  <2>2. QED BY <1>7, <2>1 DEF InFlow, c
<1>11. QED BY <1>1, <1>3, <1>6, <1>8, <1>9, <1>10 DEF InFlow, c2

(* It is posted to the loop.                                               *)
LEMMA FlowPost ==
  ASSUME NEW r, NEW q, NEW p, NEW m, InFlow("macos", r, q, p, m),
         NEW e \in Posts, e.frame = m + 1
  PROVE  /\ InFlow("macos", r, q, Append(p, e), m + 1)
         /\ Moving(r, q, Append(p, e)) \subseteq Moving(r, q, p) \union {m + 1}
<1>1. FramesIn(p) \in Seq(Nat) /\ m \in Nat /\ Moving(r, q, p) \subseteq Nat
  BY FlowType
<1>2. /\ WellFormed(r) /\ q \in Seq(Nat) /\ p \in Seq(Posts)
      /\ Rising(Contents(r)) /\ Rising(q) /\ Rising(FramesIn(p))
      /\ \A a \in Nums(q), b \in Nums(Contents(r)) : a < b
      /\ \A a \in Nums(q), b \in Nums(FramesIn(p)) : a < b
      /\ Nums(Contents(r)) = {}
  BY DEF InFlow
<1>3. m + 1 \in Nat /\ m + 1 # 0 /\ m + 1 <= m + 1
  BY <1>1
<1>4. \A a \in Moving(r, q, p) : a < m + 1 /\ a <= m + 1
  BY <1>1 DEF InFlow
<1> DEFINE f == FramesIn(p)
           f2 == FramesIn(Append(p, e))
<1>5. Append(p, e) \in Seq(Posts) /\ f2 = Append(f, m + 1)
  BY <1>2, FramesInAppend
<1> HIDE DEF f, f2
<1>6. \A n \in Nums(f) \union Nums(q) : n < m + 1
  BY <1>4 DEF Moving, f
<1>7. f2 \in Seq(Nat) /\ Rising(f2) /\ Nums(f2) = Nums(f) \union {m + 1}
  <2>1. f \in Seq(Nat) /\ Rising(f)
    BY <1>1, <1>2 DEF f
  <2>2. /\ Append(f, m + 1) \in Seq(Nat) /\ Rising(Append(f, m + 1))
        /\ Nums(Append(f, m + 1)) = Nums(f) \union ({m + 1} \ {0})
    BY <1>3, <1>6, <2>1, AppendRises
  <2>3. QED BY <1>3, <1>5, <2>2
<1>8. Moving(r, q, Append(p, e)) \subseteq Moving(r, q, p) \union {m + 1}
  BY <1>7 DEF Moving, f, f2
<1>9. \A a \in Moving(r, q, Append(p, e)) : a <= m + 1
  BY <1>3, <1>4, <1>8
<1>10. \A a \in Nums(q), d \in Nums(f2) : a < d
  BY <1>2, <1>6, <1>7 DEF f
<1>11. QED BY <1>2, <1>3, <1>5, <1>7, <1>8, <1>9, <1>10 DEF InFlow, f2

(* It goes into the queue of the in-memory session, or is dropped.         *)
LEMMA FlowDirect ==
  ASSUME NEW r, NEW q, NEW p, NEW m, InFlow("mock", r, q, p, m)
  PROVE  /\ InFlow("mock", r, Append(q, m + 1), p, m + 1) /\ InFlow("mock", r, q, p, m + 1)
         /\ Moving(r, Append(q, m + 1), p) \subseteq Moving(r, q, p) \union {m + 1}
<1>1. m \in Nat /\ Moving(r, q, p) \subseteq Nat
  BY FlowType
<1>2. /\ WellFormed(r) /\ q \in Seq(Nat) /\ p \in Seq(Posts)
      /\ Rising(Contents(r)) /\ Rising(q) /\ Rising(FramesIn(p))
      /\ Nums(Contents(r)) = {} /\ Nums(FramesIn(p)) = {}
  BY DEF InFlow
<1>3. m + 1 \in Nat /\ m + 1 # 0 /\ m + 1 <= m + 1
  BY <1>1
<1>4. \A a \in Moving(r, q, p) : a < m + 1 /\ a <= m + 1
  BY <1>1 DEF InFlow
<1>5. InFlow("mock", r, q, p, m + 1)
  BY <1>2, <1>3, <1>4 DEF InFlow
<1> DEFINE q2 == Append(q, m + 1)
<1>6. q2 \in Seq(Nat) /\ Rising(q2) /\ Nums(q2) = Nums(q) \union {m + 1}
  <2>1. \A n \in Nums(q) : n < m + 1
    BY <1>4 DEF Moving
  <2>2. /\ Append(q, m + 1) \in Seq(Nat) /\ Rising(Append(q, m + 1))
        /\ Nums(Append(q, m + 1)) = Nums(q) \union ({m + 1} \ {0})
    BY <1>2, <1>3, <2>1, AppendRises
  <2>3. QED BY <1>3, <2>2
<1> HIDE DEF q2
<1>7. Moving(r, q2, p) \subseteq Moving(r, q, p) \union {m + 1}
  BY <1>6 DEF Moving
<1>8. \A a \in Moving(r, q2, p) : a <= m + 1
  BY <1>3, <1>4, <1>7
<1>9. InFlow("mock", r, q2, p, m + 1)
  BY <1>2, <1>3, <1>6, <1>8 DEF InFlow
<1>10. QED BY <1>5, <1>7, <1>9 DEF q2

(* Another queue with no new frames is as good, if it is in order.         *)
LEMMA FlowQueue ==
  ASSUME NEW k, NEW r, NEW q, NEW p, NEW m, InFlow(k, r, q, p, m),
         NEW q2 \in Seq(Nat), Rising(q2), Nums(q2) \subseteq Nums(q)
  PROVE  InFlow(k, r, q2, p, m) /\ Moving(r, q2, p) \subseteq Moving(r, q, p)
<1>1. Moving(r, q2, p) \subseteq Moving(r, q, p)
  BY DEF Moving
<1>2. QED BY <1>1 DEF InFlow

(* What other events leave in the loop are no frames.                      *)
LEMMA FlowEvent ==
  ASSUME NEW k, NEW r, NEW q, NEW p, NEW m, InFlow(k, r, q, p, m),
         NEW e \in Posts, e.frame = 0
  PROVE  /\ InFlow(k, r, q, Append(p, e), m)
         /\ Moving(r, q, Append(p, e)) \subseteq Moving(r, q, p)
<1>1. FramesIn(p) \in Seq(Nat)
  BY FlowType
<1>2. p \in Seq(Posts) /\ Rising(FramesIn(p))
  BY DEF InFlow
<1> DEFINE f == FramesIn(p)
           f2 == FramesIn(Append(p, e))
<1>3. Append(p, e) \in Seq(Posts) /\ f2 = Append(f, 0)
  BY <1>2, FramesInAppend
<1>4. f \in Seq(Nat) /\ Rising(f)
  BY <1>1, <1>2
<1> HIDE DEF f, f2
<1>5. f2 \in Seq(Nat) /\ Rising(f2) /\ Nums(f2) = Nums(f)
  BY <1>3, <1>4, EndRises DEF End
<1>6. Moving(r, q, Append(p, e)) = Moving(r, q, p)
  BY <1>5 DEF Moving, f, f2
<1>7. Rising(FramesIn(Append(p, e))) /\ Nums(FramesIn(Append(p, e))) = Nums(FramesIn(p))
  BY <1>5 DEF f, f2
<1>8. QED BY <1>3, <1>6, <1>7 DEF InFlow

(* The loop runs a posted callback: its frame goes into the queue.         *)
LEMMA FlowRun ==
  ASSUME NEW k, NEW r, NEW q, NEW p, NEW m, InFlow(k, r, q, p, m), p # <<>>
  PROVE  /\ InFlow(k, r, q, Tail(p), m) /\ Moving(r, q, Tail(p)) \subseteq Moving(r, q, p)
         /\ InFlow(k, r, Enqueue(q, Head(p).frame), Tail(p), m)
         /\ Moving(r, Enqueue(q, Head(p).frame), Tail(p)) \subseteq Moving(r, q, p)
<1>1. /\ WellFormed(r) /\ q \in Seq(Nat) /\ p \in Seq(Posts) /\ m \in Nat
      /\ Rising(Contents(r)) /\ Rising(q) /\ Rising(FramesIn(p))
      /\ \A a \in Nums(q), b \in Nums(Contents(r)) : a < b
      /\ \A a \in Nums(q), b \in Nums(FramesIn(p)) : a < b
      /\ \A a \in Moving(r, q, p) : a <= m
      /\ k # "windows" => Nums(Contents(r)) = {}
      /\ k # "macos" => Nums(FramesIn(p)) = {}
  BY DEF InFlow
<1>2. FramesIn(p) \in Seq(Nat)
  BY FlowType
<1> DEFINE f == FramesIn(p)
           f2 == FramesIn(Tail(p))
           h == Head(p).frame
           q2 == Enqueue(q, h)
<1>3. Tail(p) \in Seq(Posts) /\ f # <<>> /\ Head(f) = h /\ f2 = Tail(f)
  BY <1>1, FramesInTail
<1>4. /\ f2 \in Seq(Nat) /\ Rising(f2) /\ h \in Nat /\ Nums(f) = Nums(f2) \union ({h} \ {0})
      /\ h # 0 => \A n \in Nums(f2) : h < n
  <2>1. f \in Seq(Nat) /\ Rising(f)
    BY <1>1, <1>2
  <2> HIDE DEF f, f2, h
  <2>2. QED BY <1>3, <2>1, TailRises
<1> HIDE DEF f2, h
<1>5. Moving(r, q, Tail(p)) \subseteq Moving(r, q, p)
  BY <1>4 DEF Moving, f2
<1>6. InFlow(k, r, q, Tail(p), m)
  BY <1>1, <1>3, <1>4, <1>5 DEF InFlow, f2
<1>7. h # 0 => \A n \in Nums(q) : n < h
  BY <1>1, <1>4
<1>8. q2 \in Seq(Nat) /\ Rising(q2) /\ Nums(q2) \subseteq Nums(q) \union ({h} \ {0})
  BY <1>1, <1>4, <1>7, EnqueueRises
<1> HIDE DEF q2
<1>9. Moving(r, q2, Tail(p)) \subseteq Moving(r, q, p)
  BY <1>4, <1>8 DEF Moving, f2
<1>10. \A a \in Nums(q2), b \in Nums(f2) : a < b
  BY <1>1, <1>4, <1>8
<1>11. \A a \in Nums(q2), b \in Nums(Contents(r)) : a < b
  <2>1. CASE h = 0
    BY <1>1, <1>8, <2>1
  <2>2. CASE h # 0
    <3>1. h \in Nums(f)
      BY <1>4, <2>2
    <3>2. k = "macos"
      BY <1>1, <3>1
    <3>3. Nums(Contents(r)) = {}
      BY <1>1, <3>2
    <3>4. QED BY <3>3
  <2>3. QED BY <2>1, <2>2
<1>12. k # "macos" => Nums(f2) = {}
  BY <1>1, <1>4
<1>13. \A a \in Moving(r, q2, Tail(p)) : a <= m
  BY <1>1, <1>9
<1>14. InFlow(k, r, q2, Tail(p), m)
  BY <1>1, <1>3, <1>4, <1>8, <1>10, <1>11, <1>12, <1>13 DEF InFlow, f2
<1>15. QED BY <1>5, <1>6, <1>9, <1>14 DEF q2, h

(* The drainer moves a batch from the ring to the queue.                   *)
LEMMA FlowDrain ==
  ASSUME NEW r, NEW q, NEW p, NEW m, InFlow("windows", r, q, p, m)
  PROVE  LET q2 == EnqueueAll(q, RingFrames(r, Drained(r)))
         IN  /\ InFlow("windows", RingDrain(r), q2, p, m)
             /\ Moving(RingDrain(r), q2, p) \subseteq Moving(r, q, p)
<1> DEFINE c == Contents(r)
           taken == RingFrames(r, Drained(r))
           rest == Contents(RingDrain(r))
           q2 == EnqueueAll(q, taken)
<1>1. /\ WellFormed(r) /\ q \in Seq(Nat) /\ p \in Seq(Posts) /\ m \in Nat
      /\ Rising(c) /\ Rising(q) /\ Rising(FramesIn(p))
      /\ \A a \in Nums(q), b \in Nums(c) : a < b
      /\ \A a \in Moving(r, q, p) : a <= m
      /\ Nums(FramesIn(p)) = {}
  BY DEF InFlow
<1>2. WellFormed(RingDrain(r)) /\ Splits(c, taken, rest, Drained(r))
  BY <1>1, DrainContents
<1> HIDE DEF c, taken, rest
<1>3. /\ Rising(taken) /\ Rising(rest) /\ taken \in Seq(Nat)
      /\ Nums(taken) \subseteq Nums(c) /\ Nums(rest) \subseteq Nums(c)
      /\ \A a \in Nums(taken), b \in Nums(rest) : a < b
  BY <1>1, <1>2, SplitRises DEF Splits
<1>4. \A a \in Nums(q), b \in Nums(taken) : a < b
  BY <1>1, <1>3
<1>5. q2 \in Seq(Nat) /\ Rising(q2) /\ Nums(q2) \subseteq Nums(q) \union Nums(taken)
  BY <1>1, <1>3, <1>4, EnqueueAllRises
<1> HIDE DEF q2
<1>6. Moving(RingDrain(r), q2, p) \subseteq Moving(r, q, p)
  BY <1>3, <1>5 DEF Moving, c, rest
<1>7. \A a \in Moving(RingDrain(r), q2, p) : a <= m
  BY <1>1, <1>6
<1>8. \A a \in Nums(q2), b \in Nums(rest) : a < b
  BY <1>1, <1>3, <1>5
<1>9. InFlow("windows", RingDrain(r), q2, p, m)
  BY <1>1, <1>2, <1>3, <1>5, <1>7, <1>8 DEF InFlow, rest
<1>10. QED BY <1>6, <1>9 DEF q2, taken

(* The reader takes the oldest entry; a frame is older than all the rest.  *)
LEMMA FlowGet ==
  ASSUME NEW k, NEW r, NEW q, NEW p, NEW m, InFlow(k, r, q, p, m), q # <<>>
  PROVE  /\ InFlow(k, r, Tail(q), p, m) /\ Head(q) \in Nat
         /\ Moving(r, Tail(q), p) \subseteq Moving(r, q, p)
         /\ Head(q) # 0 => /\ Head(q) \in Moving(r, q, p)
                           /\ \A a \in Moving(r, q, p) : Head(q) <= a
                           /\ Moving(r, Tail(q), p) = Moving(r, q, p) \ {Head(q)}
<1> DEFINE h == Head(q)
           q2 == Tail(q)
<1>1. /\ Nums(Contents(r)) \subseteq Nat /\ Nums(q) \subseteq Nat /\ Nums(FramesIn(p)) \subseteq Nat
  BY FlowType
<1>2. q \in Seq(Nat) /\ Rising(q)
  BY DEF InFlow
<1>3. /\ q2 \in Seq(Nat) /\ Rising(q2) /\ h \in Nat /\ Nums(q) = Nums(q2) \union ({h} \ {0})
      /\ h # 0 => \A n \in Nums(q2) : h < n
  BY <1>2, TailRises
<1> HIDE DEF h, q2
<1>4. InFlow(k, r, q2, p, m) /\ Moving(r, q2, p) \subseteq Moving(r, q, p)
  BY <1>3, FlowQueue
<1>5. ASSUME h # 0
      PROVE  /\ h \in Moving(r, q, p) /\ \A a \in Moving(r, q, p) : h <= a
             /\ Moving(r, q2, p) = Moving(r, q, p) \ {h}
  <2>1. h \in Nums(q)
    BY <1>3, <1>5
  <2>2. /\ \A a \in Nums(Contents(r)) : h < a
        /\ \A a \in Nums(FramesIn(p)) : h < a
    BY <2>1 DEF InFlow
  <2>3. \A a \in Nums(q2) : h < a
    BY <1>3, <1>5
  <2>4. /\ h \notin Nums(Contents(r)) /\ h \notin Nums(FramesIn(p)) /\ h \notin Nums(q2)
    BY <1>3, <2>2, <2>3
  <2>5. Moving(r, q2, p) = Moving(r, q, p) \ {h}
    BY <1>3, <2>4 DEF Moving
  <2>6. ASSUME NEW a \in Moving(r, q, p) PROVE h <= a
    <3>1. a \in Nat /\ (a = h \/ h < a)
      BY <1>1, <1>3, <2>2, <2>3 DEF Moving
    <3>2. QED BY <1>3, <3>1
  <2>7. h \in Moving(r, q, p)
    BY <2>1 DEF Moving
  <2>8. QED BY <2>5, <2>6, <2>7
<1>6. QED BY <1>3, <1>4, <1>5 DEF h, q2

-----------------------------------------------------------------------------
(* Remote audio is a lossy FIFO                                            *)

RemoteType ==
  /\ ring \in [S -> Rings] /\ queue \in [S -> Seq(Nat)] /\ posted \in [S -> Seq(Posts)]
  /\ sent \in [S -> Nat] /\ got \in [S -> Seq(Nat)]
  /\ calling \in [S -> {"none", "ok", "error"}]

(* Every session's audio is in order wherever it is.                       *)
RemoteInv ==
  RemoteType /\ \A s \in S : InFlow(backend, ring[s], queue[s], posted[s], sent[s])

(* One more frame is in transit or lost, frames are lost, or the oldest    *)
(* one arrives.                                                            *)
Moved(m, M, g, m2, M2, g2) ==
  \/ m2 = m + 1 /\ g2 = g /\ M2 \subseteq M \union {m + 1}
  \/ m2 = m /\ g2 = g /\ M2 \subseteq M
  \/ /\ m2 = m
     /\ \E id \in M : (\A a \in M : id <= a) /\ M2 = M \ {id} /\ g2 = Append(g, id)

Flows(s) ==
  Moved(sent[s], Moving(ring[s], queue[s], posted[s]), got[s],
        sent'[s], Moving(ring'[s], queue'[s], posted'[s]), got'[s])

(* A step of one session's audio leaves the others' alone.                 *)
Changes(s, r, q, p, m, g, c) ==
  /\ ring' = [ring EXCEPT ![s] = r] /\ queue' = [queue EXCEPT ![s] = q]
  /\ posted' = [posted EXCEPT ![s] = p] /\ sent' = [sent EXCEPT ![s] = m]
  /\ got' = [got EXCEPT ![s] = g] /\ calling' = [calling EXCEPT ![s] = c]
  /\ backend' = backend

(* If that session's frames stay in order, and move as a lossy FIFO's do,  *)
(* then so do those of all.                                                *)
LEMMA ChangeFlows ==
  ASSUME RemoteInv, NEW s \in S, NEW r, NEW q, NEW p, NEW m, NEW g \in Seq(Nat),
         NEW c \in {"none", "ok", "error"}, Changes(s, r, q, p, m, g, c),
         InFlow(backend, r, q, p, m),
         Moved(sent[s], Moving(ring[s], queue[s], posted[s]), got[s], m, Moving(r, q, p), g)
  PROVE  RemoteInv' /\ \A t \in S : Flows(t)
<1>1. r \in Rings /\ q \in Seq(Nat) /\ p \in Seq(Posts) /\ m \in Nat
  BY DEF InFlow, WellFormed
<1>2. RemoteType'
  BY <1>1 DEF RemoteInv, RemoteType, Changes
<1>3. /\ ring'[s] = r /\ queue'[s] = q /\ posted'[s] = p /\ sent'[s] = m /\ got'[s] = g
      /\ \A t \in S : t # s => /\ ring'[t] = ring[t] /\ queue'[t] = queue[t]
                               /\ posted'[t] = posted[t] /\ sent'[t] = sent[t]
                               /\ got'[t] = got[t]
      /\ backend' = backend
  BY DEF RemoteInv, RemoteType, Changes
<1>4. ASSUME NEW t \in S
      PROVE  InFlow(backend', ring'[t], queue'[t], posted'[t], sent'[t]) /\ Flows(t)
  <2>1. CASE t = s
    BY <1>3, <2>1 DEF Flows
  <2>2. CASE t # s
    <3>1. InFlow(backend', ring'[t], queue'[t], posted'[t], sent'[t])
      BY <1>3, <2>2 DEF RemoteInv
    <3>2. Flows(t)
      BY <1>3, <2>2 DEF Flows, Moved
    <3>3. QED BY <3>1, <3>2
  <2>3. QED BY <2>1, <2>2
<1>5. QED BY <1>2, <1>4 DEF RemoteInv

(* What leaves the audio alone, and what only changes the queue.           *)
LEMMA QueueFlows ==
  ASSUME RemoteInv, NEW s \in S, NEW q \in Seq(Nat), Rising(q), Nums(q) \subseteq Nums(queue[s]),
         queue' = [queue EXCEPT ![s] = q],
         UNCHANGED <<backend, ring, posted, sent, got, calling>>
  PROVE  RemoteInv' /\ \A t \in S : Flows(t)
<1>1. InFlow(backend, ring[s], queue[s], posted[s], sent[s])
  BY DEF RemoteInv
<1>2. /\ InFlow(backend, ring[s], q, posted[s], sent[s])
      /\ Moving(ring[s], q, posted[s]) \subseteq Moving(ring[s], queue[s], posted[s])
  BY <1>1, FlowQueue
<1>3. /\ Changes(s, ring[s], q, posted[s], sent[s], got[s], calling[s])
      /\ got[s] \in Seq(Nat) /\ calling[s] \in {"none", "ok", "error"}
  BY DEF Changes, RemoteInv, RemoteType
<1>4. Moved(sent[s], Moving(ring[s], queue[s], posted[s]), got[s],
            sent[s], Moving(ring[s], q, posted[s]), got[s])
  BY <1>2 DEF Moved
<1>5. QED BY <1>2, <1>3, <1>4, ChangeFlows

(* An SDK thread's report does not touch the audio.                        *)
LEMMA StillFlows ==
  ASSUME RemoteInv, NEW s \in S, NEW c \in {"none", "ok", "error"},
         calling' = [calling EXCEPT ![s] = c],
         UNCHANGED <<backend, ring, queue, posted, sent, got>>
  PROVE  RemoteInv' /\ \A t \in S : Flows(t)
<1>1. InFlow(backend, ring[s], queue[s], posted[s], sent[s])
  BY DEF RemoteInv
<1>2. /\ Changes(s, ring[s], queue[s], posted[s], sent[s], got[s], c)
      /\ got[s] \in Seq(Nat)
  BY DEF Changes, RemoteInv, RemoteType
<1>3. Moved(sent[s], Moving(ring[s], queue[s], posted[s]), got[s],
            sent[s], Moving(ring[s], queue[s], posted[s]), got[s])
  BY DEF Moved
<1>4. QED BY <1>1, <1>2, <1>3, ChangeFlows

(* Ring, queue and callbacks are empty at first.                           *)
LEMMA InitRemoteInv == Init => RemoteInv
<1> SUFFICES ASSUME Init PROVE RemoteInv
  OBVIOUS
<1>1. RingSize \in Nat \ {0}
  BY RtcAssumption
<1>2. PICK sl \in [0..(RingSize - 1) -> Nat] : sl = [i \in 0..RingSize - 1 |-> 0]
  OBVIOUS
<1>3. EmptyRing = Ring(sl, 0, 0, 0) /\ 0 \in 0..(RingSize - 1) /\ 0 \in 0..RingSize
  BY <1>1, <1>2 DEF EmptyRing, Ring
<1>4. EmptyRing \in Rings /\ Holds(Contents(EmptyRing), sl, 0, 0)
  BY <1>3, FramesOf
<1>5. Contents(EmptyRing) = <<>>
  BY <1>4 DEF Holds
<1>6. WellFormed(EmptyRing)
  <2>1. (0 + 0) % RingSize = 0
    BY <1>1
  <2>2. QED BY <1>3, <1>4, <2>1 DEF WellFormed, Ring
<1>7. FramesIn(<<>>) = <<>> /\ <<>> \in Seq(Posts) /\ <<>> \in Seq(Nat)
  <2>1. <<>> \in Seq(Posts) /\ <<>> \in Seq(Nat) /\ Len(<<>>) = 0
    OBVIOUS
  <2>2. FramesIn(<<>>) \in Seq(Nat) /\ Len(FramesIn(<<>>)) = 0
    BY <2>1, FramesInIs
  <2>3. QED BY <2>1, <2>2
<1>8. InFlow(backend, EmptyRing, <<>>, <<>>, 0)
  BY <1>5, <1>6, <1>7, EmptyRises DEF InFlow, Moving
<1>9. RemoteType /\ \A s \in S : /\ ring[s] = EmptyRing /\ queue[s] = <<>>
                                 /\ posted[s] = <<>> /\ sent[s] = 0
  BY <1>4, <1>7 DEF Init, InitWith, RemoteType
<1>10. QED BY <1>8, <1>9 DEF RemoteInv

(* What no session does to the audio.                                      *)
AudioStill == UNCHANGED <<backend, ring, queue, posted, sent, got, calling>>

(* Then everybody's frames stay where they are.                            *)
LEMMA AudioStillFlows ==
  ASSUME RemoteInv, AudioStill
  PROVE  RemoteInv' /\ \A t \in S : Flows(t)
BY DEF RemoteInv, RemoteType, AudioStill, Flows, Moved

(* What the bridge asks of a session at most puts the sentinel into its    *)
(* queue.                                                                  *)
LEMMA BridgeFlows ==
  ASSUME RemoteInv, NEW s \in S, BridgeStep(s)
  PROVE  RemoteInv' /\ \A t \in S : Flows(t)
<1>1. CASE \/ WindowsJoinBegins(s) \/ MacosJoinBegins(s) \/ MockJoins(s) \/ JoinCancelled(s)
           \/ WindowsSetupFails(s) \/ FrameworkMissing(s) \/ MacosSetupFails(s)
           \/ PumpsCancelled(s)
  <2>1. AudioStill
    BY <1>1 DEF WindowsJoinBegins, MacosJoinBegins, MockJoins, JoinCancelled, AskForChannel,
                WindowsSetupFails, FrameworkMissing, MacosSetupFails, JoinRaises,
                PumpsCancelled, AudioStill, sdkVars, frameVars
  <2>2. QED BY <2>1, AudioStillFlows
<1>2. CASE BridgeLeaves(s)
  <2>1. UNCHANGED <<backend, ring, posted, sent, got, calling>>
    BY <1>2 DEF BridgeLeaves
  <2>2. CASE UNCHANGED queue
    BY <2>1, <2>2, AudioStillFlows DEF AudioStill
  <2>3. CASE MacosLeave(s)
    <3>1. queue' = [queue EXCEPT ![s] = PutEnd(queue[s])]
      BY <2>3 DEF MacosLeave, MacosTeardown
    <3>2. queue[s] \in Seq(Nat) /\ Rising(queue[s])
      BY DEF RemoteInv, InFlow
    <3>3. QED BY <2>1, <3>1, <3>2, EndRises, QueueFlows
  <2>4. QED BY <1>2, <2>2, <2>3 DEF BridgeLeaves, WindowsLeave, MockLeave
<1>3. QED BY <1>1, <1>2 DEF BridgeStep

(* What the SDK, the loop and the reader do moves frames as a lossy FIFO   *)
(* does.                                                                   *)
LEMMA SessionFlows ==
  ASSUME RemoteInv, NEW s \in S, SessionStep(s)
  PROVE  RemoteInv' /\ \A t \in S : Flows(t)
<1> DEFINE r == ring[s]
           q == queue[s]
           p == posted[s]
           m == sent[s]
           g == got[s]
           c == calling[s]
<1>1. InFlow(backend, r, q, p, m)
  BY DEF RemoteInv
<1>2. /\ ring = [ring EXCEPT ![s] = r] /\ queue = [queue EXCEPT ![s] = q]
      /\ posted = [posted EXCEPT ![s] = p] /\ sent = [sent EXCEPT ![s] = m]
      /\ got = [got EXCEPT ![s] = g] /\ calling = [calling EXCEPT ![s] = c]
      /\ g \in Seq(Nat) /\ c \in {"none", "ok", "error"} /\ m \in Nat
      /\ q \in Seq(Nat) /\ Rising(q)
  BY DEF RemoteInv, RemoteType, InFlow
<1> HIDE DEF r, q, p, m, g, c
<1>3. CASE \/ JoinReturns(s) \/ WindowsJoinFails(s) \/ DrainerStopped(s) \/ ReaderStarts(s)
           \/ WindowsPush(s) \/ MacosPush(s) \/ PushGoesOn(s)
  <2>1. AudioStill
    BY <1>3 DEF JoinReturns, WindowsJoinFails, DrainerStopped, ReaderStarts, WindowsPush,
                MacosPush, PushGoesOn, AudioStill, sdkVars, frameVars
  <2>2. QED BY <2>1, AudioStillFlows
<1>4. CASE SdkReports(s, "ok") \/ SdkReports(s, "error")
  <2>1. PICK event \in {"none", "ok", "error"} : SdkReports(s, event)
    BY <1>4
  <2>2. QED BY <2>1, StillFlows DEF SdkReports, frameVars
<1>5. CASE CallbackPosts(s)
  <2> DEFINE e == Posted(c, 0)
  <2>1. e \in Posts /\ e.frame = 0
    BY <1>2 DEF Posted, Posts
  <2>2. Changes(s, r, q, Append(p, e), m, g, "none")
    BY <1>2, <1>5 DEF CallbackPosts, Changes, frameVars, p, c
  <2> HIDE DEF e
  <2>3. /\ InFlow(backend, r, q, Append(p, e), m)
        /\ Moving(r, q, Append(p, e)) \subseteq Moving(r, q, p)
    BY <1>1, <2>1, FlowEvent
  <2>4. Moved(m, Moving(r, q, p), g, m, Moving(r, q, Append(p, e)), g)
    BY <2>3 DEF Moved
  <2>5. QED BY <1>2, <2>2, <2>3, <2>4, ChangeFlows DEF r, q, p, m, g
<1>6. CASE JoinCallbackRuns(s)
  <2>1. Changes(s, r, q, Tail(p), m, g, c) /\ p # <<>>
    BY <1>2, <1>6 DEF JoinCallbackRuns, Changes, frameVars, p
  <2>2. InFlow(backend, r, q, Tail(p), m) /\ Moving(r, q, Tail(p)) \subseteq Moving(r, q, p)
    BY <1>1, <2>1, FlowRun
  <2>3. Moved(m, Moving(r, q, p), g, m, Moving(r, q, Tail(p)), g)
    BY <2>2 DEF Moved
  <2>4. QED BY <1>2, <2>1, <2>2, <2>3, ChangeFlows DEF r, q, p, m, g
<1>7. CASE MacosJoinFails(s)
  <2>1. /\ queue' = [queue EXCEPT ![s] = PutEnd(q)]
        /\ UNCHANGED <<backend, ring, posted, sent, got, calling>>
    BY <1>7 DEF MacosJoinFails, MacosTeardown, q
  <2>2. QED BY <1>2, <2>1, EndRises, QueueFlows DEF q
<1>8. CASE EngineDestroyed(s)
  <2>1. UNCHANGED <<backend, ring, posted, sent, got, calling>>
    BY <1>8 DEF EngineDestroyed
  <2>2. CASE UNCHANGED queue
    BY <2>1, <2>2, AudioStillFlows DEF AudioStill
  <2>3. CASE queue' = [queue EXCEPT ![s] = PutEnd(q)]
    BY <1>2, <2>1, <2>3, EndRises, QueueFlows DEF q
  <2>4. QED BY <1>8, <2>2, <2>3 DEF EngineDestroyed, q
<1>9. CASE MockLeft(s)
  <2>1. /\ queue' = [queue EXCEPT ![s] = Append(q, End)]
        /\ UNCHANGED <<backend, ring, posted, sent, got, calling>>
    BY <1>9 DEF MockLeft, sdkVars, q
  <2>2. QED BY <1>2, <2>1, EndRises, QueueFlows DEF q
<1>10. CASE WindowsFrame(s)
  <2>1. sent' = [sent EXCEPT ![s] = m + 1] /\ sent'[s] = m + 1
    BY <1>10 DEF WindowsFrame, Speaks, m, RemoteInv, RemoteType
  <2>2. Changes(s, RingPush(r, m + 1), q, p, m + 1, g, c)
    BY <1>2, <1>10, <2>1 DEF WindowsFrame, Changes, sdkVars, r
  <2>3. backend = "windows"
    BY <1>10 DEF WindowsFrame
  <2>4. /\ InFlow(backend, RingPush(r, m + 1), q, p, m + 1)
        /\ Moving(RingPush(r, m + 1), q, p) \subseteq Moving(r, q, p) \union {m + 1}
    BY <1>1, <2>3, FlowPush
  <2>5. Moved(m, Moving(r, q, p), g, m + 1, Moving(RingPush(r, m + 1), q, p), g)
    BY <2>4 DEF Moved
  <2>6. QED BY <1>2, <2>2, <2>4, <2>5, ChangeFlows DEF r, q, p, m, g
<1>11. CASE MacosFrame(s)
  <2> DEFINE e == Posted("frame", m + 1)
  <2>1. sent' = [sent EXCEPT ![s] = m + 1] /\ sent'[s] = m + 1
    BY <1>11 DEF MacosFrame, Speaks, m, RemoteInv, RemoteType
  <2>2. e \in Posts /\ e.frame = m + 1
    BY <1>2 DEF Posted, Posts
  <2>3. Changes(s, r, q, Append(p, e), m + 1, g, c)
    BY <1>2, <1>11, <2>1 DEF MacosFrame, Changes, p
  <2> HIDE DEF e
  <2>4. backend = "macos"
    BY <1>11 DEF MacosFrame
  <2>5. /\ InFlow(backend, r, q, Append(p, e), m + 1)
        /\ Moving(r, q, Append(p, e)) \subseteq Moving(r, q, p) \union {m + 1}
    BY <1>1, <2>2, <2>4, FlowPost
  <2>6. Moved(m, Moving(r, q, p), g, m + 1, Moving(r, q, Append(p, e)), g)
    BY <2>5 DEF Moved
  <2>7. QED BY <1>2, <2>3, <2>5, <2>6, ChangeFlows DEF r, q, p, m, g
<1>12. CASE MockFrame(s)
  <2>1. sent' = [sent EXCEPT ![s] = m + 1] /\ sent'[s] = m + 1
    BY <1>12 DEF MockFrame, Speaks, m, RemoteInv, RemoteType
  <2>2. PICK q2 : /\ q2 \in {q, Append(q, m + 1)}
                  /\ queue' = [queue EXCEPT ![s] = q2]
    BY <1>12, <2>1 DEF MockFrame, q
  <2>3. Changes(s, r, q2, p, m + 1, g, c)
    BY <1>2, <1>12, <2>1, <2>2 DEF MockFrame, Changes, sdkVars
  <2>4. backend = "mock"
    BY <1>12 DEF MockFrame
  <2>5. /\ InFlow(backend, r, Append(q, m + 1), p, m + 1) /\ InFlow(backend, r, q, p, m + 1)
        /\ Moving(r, Append(q, m + 1), p) \subseteq Moving(r, q, p) \union {m + 1}
    BY <1>1, <2>4, FlowDirect
  <2>6. /\ InFlow(backend, r, q2, p, m + 1)
        /\ Moving(r, q2, p) \subseteq Moving(r, q, p) \union {m + 1}
    BY <2>2, <2>5
  <2>7. Moved(m, Moving(r, q, p), g, m + 1, Moving(r, q2, p), g)
    BY <2>6 DEF Moved
  <2>8. QED BY <1>2, <2>3, <2>6, <2>7, ChangeFlows DEF r, q, p, m, g
<1>13. CASE FrameCallbackRuns(s)
  <2> DEFINE q2 == Enqueue(q, Head(p).frame)
  <2>1. Changes(s, r, q2, Tail(p), m, g, c) /\ p # <<>>
    BY <1>2, <1>13 DEF FrameCallbackRuns, Changes, p, q
  <2>2. /\ InFlow(backend, r, q2, Tail(p), m)
        /\ Moving(r, q2, Tail(p)) \subseteq Moving(r, q, p)
    BY <1>1, <2>1, FlowRun
  <2> HIDE DEF q2
  <2>3. Moved(m, Moving(r, q, p), g, m, Moving(r, q2, Tail(p)), g)
    BY <2>2 DEF Moved
  <2>4. QED BY <1>2, <2>1, <2>2, <2>3, ChangeFlows DEF r, q, p, m, g
<1>14. CASE Drain(s)
  <2> DEFINE q2 == EnqueueAll(q, RingFrames(r, Drained(r)))
  <2>1. Changes(s, RingDrain(r), q2, p, m, g, c)
    BY <1>2, <1>14 DEF Drain, Changes, sdkVars, q, r
  <2>2. backend = "windows"
    BY <1>14 DEF Drain
  <2>3. /\ InFlow(backend, RingDrain(r), q2, p, m)
        /\ Moving(RingDrain(r), q2, p) \subseteq Moving(r, q, p)
    BY <1>1, <2>2, FlowDrain
  <2> HIDE DEF q2
  <2>4. Moved(m, Moving(r, q, p), g, m, Moving(RingDrain(r), q2, p), g)
    BY <2>3 DEF Moved
  <2>5. QED BY <1>2, <2>1, <2>3, <2>4, ChangeFlows DEF r, q, p, m, g
<1>15. CASE ReaderGets(s)
  <2>1. /\ queue' = [queue EXCEPT ![s] = Tail(q)] /\ q # <<>>
        /\ UNCHANGED <<backend, ring, posted, sent, calling>>
    BY <1>15 DEF ReaderGets, sdkVars, q
  <2>2. /\ InFlow(backend, r, Tail(q), p, m) /\ Head(q) \in Nat
        /\ Moving(r, Tail(q), p) \subseteq Moving(r, q, p)
        /\ Head(q) # 0 => /\ Head(q) \in Moving(r, q, p)
                          /\ \A a \in Moving(r, q, p) : Head(q) <= a
                          /\ Moving(r, Tail(q), p) = Moving(r, q, p) \ {Head(q)}
    BY <1>1, <2>1, FlowGet
  <2>3. CASE Head(q) = 0
    <3>1. UNCHANGED got
      BY <1>15, <2>3 DEF ReaderGets, End, q
    <3>2. Changes(s, r, Tail(q), p, m, g, c)
      BY <1>2, <2>1, <3>1 DEF Changes
    <3>3. Moved(m, Moving(r, q, p), g, m, Moving(r, Tail(q), p), g)
      BY <2>2 DEF Moved
    <3>4. QED BY <1>2, <2>2, <3>2, <3>3, ChangeFlows DEF r, q, p, m, g
  <2>4. CASE Head(q) # 0
    <3>1. got' = [got EXCEPT ![s] = Append(g, Head(q))]
      BY <1>15, <2>4 DEF ReaderGets, End, q, g
    <3> DEFINE g2 == Append(g, Head(q))
               q2 == Tail(q)
    <3>2. Changes(s, r, q2, p, m, g2, c)
      BY <1>2, <2>1, <3>1 DEF Changes
    <3>3. Moved(m, Moving(r, q, p), g, m, Moving(r, q2, p), g2)
      BY <2>2, <2>4 DEF Moved
    <3>4. g2 \in Seq(Nat) /\ InFlow(backend, r, q2, p, m)
      BY <1>2, <2>2
    <3> HIDE DEF g2, q2
    <3>5. QED BY <1>2, <3>2, <3>3, <3>4, ChangeFlows DEF r, q, p, m, g
  <2>5. QED BY <2>3, <2>4
<1>16. QED
  BY <1>3, <1>4, <1>5, <1>6, <1>7, <1>8, <1>9, <1>10, <1>11, <1>12, <1>13, <1>14, <1>15
     DEF SessionStep

(* One step keeps the order, and is a lossy FIFO's for every session.      *)
LEMMA NextRemoteInv == RemoteInv /\ [Next]_vars => RemoteInv' /\ \A t \in S : Flows(t)
<1> SUFFICES ASSUME RemoteInv, [Next]_vars PROVE RemoteInv' /\ \A t \in S : Flows(t)
  OBVIOUS
<1>1. CASE UNCHANGED vars
  BY <1>1, AudioStillFlows DEF vars, sdkVars, frameVars, AudioStill
<1>2. CASE Next
  BY <1>2, BridgeFlows, SessionFlows DEF Next
<1>3. QED BY <1>1, <1>2

(* In every session the stations between the SDK's thread and the reader   *)
(* hold the remote user's frames in order, and the ring is the queue its   *)
(* head, tail and size describe.                                           *)
THEOREM RemoteInvariant == Spec => []RemoteInv
<1>1. Init => RemoteInv
  BY InitRemoteInv
<1>2. RemoteInv /\ [Next]_vars => RemoteInv'
  BY NextRemoteInv
<1>3. QED BY <1>1, <1>2, PTL DEF Spec

(* The frames in transit, as the refinement mapping writes them.           *)
LEMMA TransitIsMoving ==
  ASSUME NEW r, NEW q, NEW p, WellFormed(r), q \in Seq(Nat), p \in Seq(Posts)
  PROVE  Moving(r, q, p) =
           ({r.slot[(r.tail + i - 1) % RingSize] : i \in 1..r.size}
             \union {q[i] : i \in 1..Len(q)}
             \union {p[i].frame : i \in 1..Len(p)}) \ {End}
<1> DEFINE c == Contents(r)
<1>1. Len(c) = r.size /\ \A i \in 1..r.size : c[i] = r.slot[(r.tail + i - 1) % RingSize]
  <2>1. Len(c) = r.size
    <3>1. 0 \in Nat
      OBVIOUS
    <3>2. QED BY <3>1, PushContents
  <2>2. QED BY <2>1 DEF Contents, RingFrames
<1>2. /\ Len(FramesIn(p)) = Len(p) /\ \A i \in 1..Len(p) : FramesIn(p)[i] = p[i].frame
  BY FramesInIs
<1> HIDE DEF c
<1>3. Nums(c) = {r.slot[(r.tail + i - 1) % RingSize] : i \in 1..r.size} \ {0}
  BY <1>1 DEF Nums
<1>4. Nums(FramesIn(p)) = {p[i].frame : i \in 1..Len(p)} \ {0}
  BY <1>2 DEF Nums
<1>5. QED BY <1>3, <1>4 DEF Moving, Nums, End, c

(* From the SDK's thread to audio_frames(), on Windows through the ring    *)
(* and the drainer, on macOS through the loop's callbacks, in memory       *)
(* directly, a session is a lossy FIFO for any capacity of ring and queue  *)
(* and any batch: no step reorders or repeats a frame.                     *)
THEOREM RemoteAudioImplementsOrderedDelivery == Spec => ImplementsOrderedDelivery
<1> DEFINE AStep == [Remote!ANext]_(Remote!avars)
<1>1. 1 \in S
  BY RtcAssumption DEF S
<1>2. RemoteInv => InTransit(1) = Moving(ring[1], queue[1], posted[1])
  <2> SUFFICES ASSUME RemoteInv PROVE InTransit(1) = Moving(ring[1], queue[1], posted[1])
    OBVIOUS
  <2>1. WellFormed(ring[1]) /\ queue[1] \in Seq(Nat) /\ posted[1] \in Seq(Posts)
    BY <1>1 DEF RemoteInv, InFlow
  <2>2. QED BY <1>1, <2>1, TransitIsMoving DEF InTransit
<1>3. Init => Remote!AInit
  <2> SUFFICES ASSUME Init PROVE Remote!AInit
    OBVIOUS
  <2>1. RemoteInv
    BY InitRemoteInv
  <2>2. sent[1] = 0 /\ got[1] = <<>>
    BY <1>1 DEF Init, InitWith
  <2>3. /\ Moving(ring[1], queue[1], posted[1]) \subseteq Nat
        /\ \A a \in Moving(ring[1], queue[1], posted[1]) : a <= 0 /\ a # 0
    <3>1. InFlow(backend, ring[1], queue[1], posted[1], sent[1])
      BY <1>1, <2>1 DEF RemoteInv
    <3>2. Moving(ring[1], queue[1], posted[1]) \subseteq Nat
      BY <3>1, FlowType
    <3>3. \A a \in Moving(ring[1], queue[1], posted[1]) : a <= 0
      BY <2>2, <3>1 DEF InFlow
    <3>4. QED BY <3>2, <3>3 DEF Moving, Nums
  <2>4. Moving(ring[1], queue[1], posted[1]) = {}
    BY <2>3
  <2>5. InTransit(1) = {}
    BY <1>2, <2>1, <2>4
  <2>6. QED BY <2>2, <2>5 DEF Remote!AInit
<1>4. RemoteInv /\ [Next]_vars => AStep
  <2> SUFFICES ASSUME RemoteInv, [Next]_vars PROVE AStep
    OBVIOUS
  <2>1. RemoteInv' /\ Flows(1)
    BY <1>1, NextRemoteInv
  <2> DEFINE M == Moving(ring[1], queue[1], posted[1])
             M2 == Moving(ring'[1], queue'[1], posted'[1])
  <2>2. InTransit(1) = M
    BY <1>2
  <2>3. InTransit(1)' = M2
    <3>1. WellFormed(ring'[1]) /\ queue'[1] \in Seq(Nat) /\ posted'[1] \in Seq(Posts)
      BY <1>1, <2>1 DEF RemoteInv, InFlow
    <3>2. QED BY <1>1, <3>1, TransitIsMoving DEF InTransit
  <2>4. Moved(sent[1], M, got[1], sent'[1], M2, got'[1])
    BY <2>1 DEF Flows
  <2>5. sent[1] \in Nat
    BY <1>1 DEF RemoteInv, RemoteType
  <2> HIDE DEF M, M2
  <2>6. CASE sent'[1] = sent[1] + 1 /\ got'[1] = got[1] /\ M2 \subseteq M \union {sent[1] + 1}
    <3>1. Remote!Offer
      BY <2>2, <2>3, <2>5, <2>6 DEF Remote!Offer
    <3>2. QED BY <3>1 DEF Remote!ANext
  <2>7. CASE sent'[1] = sent[1] /\ got'[1] = got[1] /\ M2 \subseteq M
    <3>1. Remote!Lose
      BY <2>2, <2>3, <2>5, <2>7 DEF Remote!Lose
    <3>2. QED BY <3>1 DEF Remote!ANext
  <2>8. CASE /\ sent'[1] = sent[1]
             /\ \E id \in M : /\ \A a \in M : id <= a
                              /\ M2 = M \ {id} /\ got'[1] = Append(got[1], id)
    <3>1. Remote!Deliver
      BY <2>2, <2>3, <2>5, <2>8 DEF Remote!Deliver
    <3>2. QED BY <3>1 DEF Remote!ANext
  <2>9. QED BY <2>4, <2>6, <2>7, <2>8 DEF Moved
<1>5. QED
  BY <1>3, <1>4, RemoteInvariant, PTL DEF Spec, ImplementsOrderedDelivery, Remote!ASpec

-----------------------------------------------------------------------------
(* Types and capacities                                                    *)

LoopType ==
  /\ backend \in Backends
  /\ future \in [S -> {"none", "pending", "ok", "error", "cancelled"}]
  /\ alive \subseteq S \union {0} /\ sdk \in [S -> {"off", "connecting", "in"}]
  /\ reader \in [S -> {"off", "start", "get", "done"}]
  /\ pushing \in [S -> 0..Slices] /\ sent \in [S -> 0..MaxFrames]

QueuesFit == \A s \in S : Len(queue[s]) <= QueueSize

(* A queue within its capacity stays there, whatever is put into it.       *)
LEMMA QueueOpsFit ==
  ASSUME NEW q \in Seq(Nat), Len(q) <= QueueSize, NEW f \in Nat
  PROVE  /\ Enqueue(q, f) \in Seq(Nat) /\ Len(Enqueue(q, f)) <= QueueSize
         /\ Len(PutEnd(q)) <= QueueSize
         /\ Len(q) < QueueSize => Len(Append(q, f)) <= QueueSize
         /\ q # <<>> => Len(Tail(q)) <= QueueSize
<1>1. QueueSize \in Nat \ {0} /\ Len(q) \in Nat
  BY RtcAssumption
<1>2. Append(q, f) \in Seq(Nat) /\ Len(Append(q, f)) = Len(q) + 1
      /\ Len(Append(q, End)) = Len(q) + 1
  BY DEF End
<1>3. q # <<>> => Tail(q) \in Seq(Nat) /\ Len(Tail(q)) = Len(q) - 1
  BY HeadTailProperties
<1>4. Enqueue(q, f) \in Seq(Nat) /\ Len(Enqueue(q, f)) <= QueueSize
  <2>1. CASE Len(q) < QueueSize
    BY <1>1, <1>2, <2>1 DEF Enqueue
  <2>2. CASE ~(Len(q) < QueueSize)
    <3>1. q # <<>>
      BY <1>1, <2>2
    <3>2. Enqueue(q, f) = Append(Tail(q), f)
      BY <2>2 DEF Enqueue
    <3>3. Tail(q) \in Seq(Nat) /\ Len(Tail(q)) = Len(q) - 1
      BY <1>3, <3>1
    <3>4. Append(Tail(q), f) \in Seq(Nat) /\ Len(Append(Tail(q), f)) = Len(Tail(q)) + 1
      BY <3>3, AppendProperties
    <3>5. QED BY <1>1, <3>2, <3>3, <3>4
  <2>3. QED BY <2>1, <2>2
<1>5. QED BY <1>1, <1>2, <1>3, <1>4 DEF PutEnd

(* A drained batch does not make a queue outgrow its capacity.             *)
LEMMA EnqueueAllFits ==
  ASSUME NEW q \in Seq(Nat), Len(q) <= QueueSize, NEW fs \in Seq(Nat)
  PROVE  Len(EnqueueAll(q, fs)) <= QueueSize
<1>1. PICK g : /\ g[0] = q /\ \A i \in 1..Len(fs) : g[i] = Enqueue(g[i - 1], fs[i])
               /\ EnqueueAll(q, fs) = g[Len(fs)]
  BY EnqueueAllIs
<1> DEFINE G == {m \in 0..Len(fs) : g[m] \in Seq(Nat) /\ Len(g[m]) <= QueueSize}
<1>2. Len(fs) \in Nat /\ 0 \in 0..Len(fs)
  OBVIOUS
<1>3. 0 \in G
  BY <1>1, <1>2
<1>4. ASSUME NEW m \in 1..Len(fs), m - 1 \in G PROVE m \in G
  <2>1. g[m - 1] \in Seq(Nat) /\ Len(g[m - 1]) <= QueueSize /\ fs[m] \in Nat
    BY <1>4
  <2>2. g[m] = Enqueue(g[m - 1], fs[m])
    BY <1>1
  <2>3. g[m] \in Seq(Nat) /\ Len(g[m]) <= QueueSize
    BY <2>1, <2>2, QueueOpsFit
  <2>4. QED BY <1>2, <2>3
<1> HIDE DEF G
<1>5. \A m \in 0..Len(fs) : m \in G
  BY <1>2, <1>3, <1>4, SetInduction
<1>6. Len(fs) \in G
  BY <1>2, <1>5
<1>7. QED BY <1>1, <1>6 DEF G

(* One step keeps the queues within their capacity.                        *)
LEMMA NextQueuesFit == RemoteInv /\ QueuesFit /\ [Next]_vars => QueuesFit'
<1> SUFFICES ASSUME RemoteInv, QueuesFit, [Next]_vars PROVE QueuesFit'
  OBVIOUS
<1>1. CASE UNCHANGED queue
  BY <1>1 DEF QueuesFit
<1> SUFFICES ASSUME NEW s \in S, SessionStep(s) \/ BridgeStep(s), ~UNCHANGED queue PROVE QueuesFit'
  BY <1>1 DEF Next, vars, frameVars
<1> DEFINE q == queue[s]
<1>2. /\ q \in Seq(Nat) /\ Len(q) <= QueueSize /\ queue \in [S -> Seq(Nat)] /\ sent \in [S -> Nat]
      /\ InFlow(backend, ring[s], q, posted[s], sent[s])
  BY DEF RemoteInv, RemoteType, QueuesFit
<1>3. ASSUME NEW q2, queue' = [queue EXCEPT ![s] = q2], Len(q2) <= QueueSize PROVE QueuesFit'
  BY <1>2, <1>3 DEF QueuesFit
<1>4. CASE MacosJoinFails(s) \/ EngineDestroyed(s) \/ BridgeLeaves(s)
  <2>1. queue' = [queue EXCEPT ![s] = PutEnd(q)]
    BY <1>4 DEF MacosJoinFails, EngineDestroyed, BridgeLeaves, MacosLeave, MacosTeardown,
                WindowsLeave, MockLeave
  <2>2. 0 \in Nat
    OBVIOUS
  <2> HIDE DEF q
  <2>3. Len(PutEnd(q)) <= QueueSize
    BY <1>2, <2>2, QueueOpsFit
  <2>4. QED BY <1>3, <2>1, <2>3
<1>5. CASE MockLeft(s)
  <2>1. queue' = [queue EXCEPT ![s] = Append(q, 0)] /\ Len(q) < QueueSize
    BY <1>5 DEF MockLeft, End
  <2>2. 0 \in Nat
    OBVIOUS
  <2> HIDE DEF q
  <2>3. Len(Append(q, 0)) <= QueueSize
    BY <1>2, <2>1, <2>2, QueueOpsFit
  <2>4. QED BY <1>3, <2>1, <2>3
<1>6. CASE MockFrame(s)
  <2>1. sent'[s] = sent[s] + 1 /\ sent[s] + 1 \in Nat
    BY <1>2, <1>6 DEF MockFrame, Speaks
  <2>2. /\ queue' = [queue EXCEPT ![s] = IF Len(q) < QueueSize THEN Append(q, sent[s] + 1) ELSE q]
    BY <1>6, <2>1 DEF MockFrame
  <2> HIDE DEF q
  <2>3. Len(q) < QueueSize => Len(Append(q, sent[s] + 1)) <= QueueSize
    BY <1>2, <2>1, QueueOpsFit
  <2>4. QED BY <1>2, <1>3, <2>2, <2>3
<1>7. CASE FrameCallbackRuns(s)
  <2> DEFINE f == Head(posted[s]).frame
  <2>1. queue' = [queue EXCEPT ![s] = Enqueue(q, f)] /\ posted[s] # <<>>
    BY <1>7 DEF FrameCallbackRuns
  <2>2. posted[s] \in Seq(Posts)
    BY DEF RemoteInv, RemoteType
  <2>3. f \in Nat
    <3>1. Head(posted[s]) \in Posts
      BY <2>1, <2>2, HeadTailProperties
    <3>2. QED BY <3>1 DEF Posts
  <2> HIDE DEF q, f
  <2>4. Len(Enqueue(q, f)) <= QueueSize
    BY <1>2, <2>3, QueueOpsFit
  <2>5. QED BY <1>3, <2>1, <2>4
<1>8. CASE Drain(s)
  <2> DEFINE fs == RingFrames(ring[s], Drained(ring[s]))
  <2>1. queue' = [queue EXCEPT ![s] = EnqueueAll(q, fs)]
    BY <1>8 DEF Drain
  <2>2. WellFormed(ring[s])
    BY <1>2 DEF InFlow
  <2>3. fs \in Seq(Nat)
    BY <2>2, DrainContents DEF Splits
  <2> HIDE DEF q, fs
  <2>4. Len(EnqueueAll(q, fs)) <= QueueSize
    BY <1>2, <2>3, EnqueueAllFits
  <2>5. QED BY <1>3, <2>1, <2>4
<1>9. CASE ReaderGets(s)
  <2>1. queue' = [queue EXCEPT ![s] = Tail(q)] /\ q # <<>>
    BY <1>9 DEF ReaderGets
  <2>2. 0 \in Nat
    OBVIOUS
  <2> HIDE DEF q
  <2>3. Len(Tail(q)) <= QueueSize
    BY <1>2, <2>1, <2>2, QueueOpsFit
  <2>4. QED BY <1>3, <2>1, <2>3
<1>10. QED
  BY <1>4, <1>5, <1>6, <1>7, <1>8, <1>9
     DEF SessionStep, BridgeStep, SdkReports, CallbackPosts, JoinCallbackRuns, JoinReturns,
         WindowsJoinFails, DrainerStopped, WindowsFrame, MacosFrame, ReaderStarts, WindowsPush,
         MacosPush, PushGoesOn, WindowsJoinBegins, MacosJoinBegins, MockJoins, JoinCancelled,
         AskForChannel, WindowsSetupFails, FrameworkMissing, MacosSetupFails, JoinRaises,
         PumpsCancelled, frameVars

(* One step keeps the other types.                                         *)
LEMMA NextLoopType == SessionInv /\ RemoteInv /\ LoopType /\ [Next]_vars => LoopType'
<1> SUFFICES ASSUME SessionInv, RemoteInv, LoopType, [Next]_vars PROVE LoopType'
  OBVIOUS
<1>1. CASE UNCHANGED vars
  BY <1>1 DEF LoopType, vars, sessionVars, sdkVars, frameVars, pushVars
<1> SUFFICES ASSUME NEW s \in S, SessionStep(s) \/ BridgeStep(s) PROVE LoopType'
  BY <1>1 DEF Next
<1>2. Slices \in Nat \ {0} /\ MaxFrames \in Nat /\ S \subseteq Nat
  BY RtcAssumption DEF S
<1>3. CASE WindowsJoinBegins(s) \/ MacosJoinBegins(s)
  BY <1>3 DEF WindowsJoinBegins, MacosJoinBegins, AskForChannel, EngineOf, LoopType, frameVars,
              pushVars
<1>4. CASE WindowsSetupFails(s) \/ FrameworkMissing(s) \/ MacosSetupFails(s)
  BY <1>4 DEF WindowsSetupFails, FrameworkMissing, MacosSetupFails, JoinRaises, LoopType,
              frameVars, pushVars
<1>5. CASE MockJoins(s) \/ JoinCancelled(s) \/ JoinReturns(s) \/ DrainerStopped(s)
  BY <1>5 DEF MockJoins, JoinCancelled, JoinReturns, DrainerStopped, LoopType, sdkVars,
              frameVars, pushVars
<1>6. CASE WindowsJoinFails(s) \/ MacosJoinFails(s)
  BY <1>6 DEF WindowsJoinFails, MacosJoinFails, NoGoodAnswer, MacosTeardown, LoopType, sdkVars,
              frameVars, pushVars
<1>7. CASE SdkReports(s, "ok") \/ SdkReports(s, "error") \/ CallbackPosts(s)
  BY <1>7 DEF SdkReports, CallbackPosts, LoopType, sessionVars, frameVars, pushVars
<1>8. CASE JoinCallbackRuns(s)
  <2>1. posted[s] \in Seq(Posts) /\ posted[s] # <<>> /\ Head(posted[s]).event # "frame"
    BY <1>8 DEF JoinCallbackRuns, RemoteInv, RemoteType
  <2>2. Head(posted[s]) \in Posts
    BY <2>1, HeadTailProperties
  <2>3. Head(posted[s]).event \in {"none", "ok", "error"}
    BY <2>1, <2>2 DEF Posts
  <2>4. QED BY <1>8, <2>3 DEF JoinCallbackRuns, LoopType, frameVars, pushVars
<1>9. CASE EngineDestroyed(s)
  BY <1>9 DEF EngineDestroyed, LoopType, pushVars
<1>10. CASE BridgeLeaves(s)
  BY <1>10 DEF BridgeLeaves, WindowsLeave, MacosLeave, MockLeave, MacosTeardown, LoopType,
               pushVars
<1>11. CASE MockLeft(s)
  BY <1>11 DEF MockLeft, LoopType, sdkVars, pushVars
<1>11a. CASE PumpsCancelled(s)
  <2>1. 0 \in 0..Slices
    BY <1>2
  <2>2. QED BY <1>11a, <2>1 DEF PumpsCancelled, LoopType, sdkVars
<1>12. CASE WindowsFrame(s) \/ MacosFrame(s) \/ MockFrame(s)
  <2>1. Speaks(s) /\ UNCHANGED <<backend, future, alive, sdk, reader, pushing>>
    BY <1>12 DEF WindowsFrame, MacosFrame, MockFrame, sessionVars, sdkVars, pushVars
  <2>2. sent' \in [S -> 0..MaxFrames]
    BY <1>2, <2>1 DEF Speaks, LoopType
  <2>3. QED BY <2>1, <2>2 DEF LoopType
<1>13. CASE FrameCallbackRuns(s) \/ Drain(s) \/ ReaderStarts(s) \/ ReaderGets(s)
  BY <1>13 DEF FrameCallbackRuns, Drain, ReaderStarts, ReaderGets, LoopType, sessionVars,
               sdkVars, pushVars
<1>14. CASE WindowsPush(s) \/ MacosPush(s) \/ PushGoesOn(s)
  <2>1. UNCHANGED <<backend, future, alive, sdk, reader, sent>>
    BY <1>14 DEF WindowsPush, MacosPush, PushGoesOn, sessionVars, sdkVars, frameVars
  <2>2. PICK rest \in 0..Slices : PushSlice(s, rest)
    BY <1>2, <1>14 DEF WindowsPush, MacosPush, PushGoesOn, LoopType
  <2>3. pushing' \in [S -> 0..Slices]
    BY <1>2, <2>2 DEF PushSlice, LoopType
  <2>4. QED BY <2>1, <2>3 DEF LoopType
<1>15. QED
  BY <1>3, <1>4, <1>5, <1>6, <1>7, <1>8, <1>9, <1>10, <1>11, <1>11a, <1>12, <1>13,
     <1>14 DEF SessionStep, BridgeStep

(* Types, and the capacities of ring and queue: the ring's head is where   *)
(* tail and size say, and no queue outgrows its maxsize, whichever of the  *)
(* drainer, the callbacks, the peer and the sentinel fills it.             *)
THEOREM RtcTypeCorrect == Spec => []TypeOK
<1>1. Init => LoopType /\ QueuesFit
  <2> SUFFICES ASSUME Init PROVE LoopType /\ QueuesFit
    OBVIOUS
  <2>1. PICK b \in Backends : InitWith(b)
    BY DEF Init
  <2>2. LoopType
    BY <2>1, RtcAssumption DEF InitWith, LoopType
  <2>3. \A s \in S : queue[s] = <<>>
    BY <2>1 DEF InitWith
  <2>4. QED BY <2>2, <2>3, RtcAssumption DEF QueuesFit
<1>2. SessionInv /\ RemoteInv /\ LoopType /\ QueuesFit /\ [Next]_vars => LoopType' /\ QueuesFit'
  BY NextLoopType, NextQueuesFit
<1>3. SessionInv /\ RemoteInv /\ LoopType /\ QueuesFit => TypeOK
  <2> SUFFICES ASSUME SessionInv, RemoteInv, LoopType, QueuesFit PROVE TypeOK
    OBVIOUS
  <2>1. ASSUME NEW s \in S
        PROVE  /\ ring[s].head \in 0..RingSize - 1 /\ ring[s].tail \in 0..RingSize - 1
               /\ ring[s].size \in 0..RingSize
               /\ (ring[s].tail + ring[s].size) % RingSize = ring[s].head
    BY DEF RemoteInv, InFlow, WellFormed, Rings
  <2>2. QED BY <2>1 DEF SessionInv, SessionType, RemoteInv, RemoteType, LoopType, QueuesFit, TypeOK
<1>4. QED BY <1>1, <1>2, <1>3, SessionInvariant, RemoteInvariant, PTL DEF Spec
=============================================================================
