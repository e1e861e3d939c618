------------------------------- MODULE DevCall ------------------------------
(***************************************************************************)
(* The orchestrator's dev-no-modem path on top of the macOS RTC session:   *)
(* no modem, no AudioBridge; the call context owns the session, a pump     *)
(* from the Mac's microphone and, when the call is recorded, a pump that   *)
(* reads audio_frames().  The daemon's shutdown runs beside the cloud's    *)
(* messages, which the gRPC client hands over one at a time.               *)
(***************************************************************************)
EXTENDS RtcSession

VARIABLES
  calls,       \* _calls
  terminated,  \* ctx.terminated
  ending,      \* where ctx.teardown() is
  by,          \* who runs it
  recording,   \* the recorder's track for the call
  mic,         \* _dev_no_modem_mic_capture_pump
  main,        \* _arun_dev_no_modem
  todo,        \* calls its current loop has still to visit
  hangups      \* remote_hangup events sent, per call

ctxVars == <<calls, terminated, ending, by, recording, mic>>
mainVars == <<main, todo>>
devVars == <<ctxVars, mainVars, hangups>>
allVars == <<vars, devVars>>

(* The gRPC client delivers the next message when the last callback is     *)
(* done; it stops delivering when the daemon stops it.                     *)
CloudIdle ==
  /\ main # "stopped"
  /\ \A s \in S : joining[s] # "waiting" /\ ~(ending[s] = "cancelling" /\ by[s] = "cloud")

-----------------------------------------------------------------------------
(* MacMicCapture                                                           *)

(* read_chunk() has a block for its pump.                                  *)
MicReads(s) == mic[s] = "read"

(* stop(), which the pump calls however it ends.                           *)
MicStopped(s) == mic' = [mic EXCEPT ![s] = "done"]

-----------------------------------------------------------------------------
(* _CallContext.teardown()                                                 *)

HasTasks(s) == mic[s] # "off" \/ reader[s] # "off"

(* Finalize the recording, then leave the session.                         *)
Release(s) ==
  /\ recording' = [recording EXCEPT ![s] = IF @ = "open" THEN "final" ELSE @]
  /\ MacosLeave(s)
  /\ ending' = [ending EXCEPT ![s] = "over"]

(* The pumps are cancelled and awaited first; without pumps teardown() has *)
(* nothing to wait for.                                                    *)
TearDown(s, who) ==
  /\ by' = [by EXCEPT ![s] = who]
  /\ IF HasTasks(s)
     THEN /\ ending' = [ending EXCEPT ![s] = "cancelling"]
          /\ UNCHANGED <<recording, leaving, joined, closed, teardown>>
          /\ UNCHANGED <<alive, engine, sdk, queue>>
     ELSE Release(s)

(* Mutant: awaits the pumps without cancelling them.                       *)
PumpsAwaited(s) ==
  /\ ending[s] = "cancelling" /\ mic[s] # "read" /\ reader[s] \notin {"start", "get"}
  /\ MicStopped(s) /\ reader' = [reader EXCEPT ![s] = "done"]
  /\ Release(s)
  /\ UNCHANGED <<backend, joining, future, calling, posted, ring, sent, got, pushVars>>
  /\ UNCHANGED <<calls, terminated, by, mainVars, hangups>>

(* Mutant: forgets the session.                                            *)
PumpsEndedOnly(s) ==
  /\ ending[s] = "cancelling"
  /\ MicStopped(s) /\ reader' = [reader EXCEPT ![s] = "done"]
  /\ ending' = [ending EXCEPT ![s] = "over"]
  /\ UNCHANGED <<vars, calls, terminated, by, recording, mainVars, hangups>>

PumpsEnded(s) ==
  /\ ending[s] = "cancelling"
  /\ MicStopped(s) /\ reader' = [reader EXCEPT ![s] = "done"]
  /\ Release(s)
  /\ UNCHANGED <<backend, joining, future, calling, posted, ring, sent, got, pushVars>>
  /\ UNCHANGED <<calls, terminated, by, mainVars, hangups>>

(* _handle_remote_hangup() for a call that is not terminated yet.          *)
Hangup(s, who) ==
  /\ terminated' = [terminated EXCEPT ![s] = TRUE]
  /\ hangups' = [hangups EXCEPT ![s] = @ + 1]
  /\ calls' = calls \ {s}
  /\ TearDown(s, who)

-----------------------------------------------------------------------------
(* Cloud2Edge messages                                                     *)

(* DialCommand: register, DialAck, connected, and join() up to its wait.   *)
Dial(s) ==
  /\ CloudIdle /\ joining[s] = "none"
  /\ s > 1 => joining[s - 1] # "none"
  /\ AskForChannel(s)
  /\ calls' = calls \union {s}
  /\ UNCHANGED <<terminated, ending, by, recording, mic, mainVars, hangups>>

(* The framework cannot be loaded: the call ends where it began.           *)
DialFails(s) ==
  /\ CloudIdle /\ joining[s] = "none"
  /\ s > 1 => joining[s - 1] # "none"
  /\ joining' = [joining EXCEPT ![s] = "raised"]
  /\ Hangup(s, "cloud")
  /\ UNCHANGED <<backend, future, calling, posted, ring, reader, sent, got, pushVars>>
  /\ UNCHANGED <<mic, mainVars>>

(* join() returned.  Recording is on unless it is disabled or the disk is  *)
(* full, the microphone unless ISALES_DEV_NO_MIC_CAPTURE is set; whether   *)
(* the call was terminated meanwhile is not looked at.                     *)
DialGoesOn(s) ==
  /\ joining[s] = "waiting" /\ future[s] = "ok"
  /\ joining' = [joining EXCEPT ![s] = "returned"]
  /\ joined' = [joined EXCEPT ![s] = TRUE]
  /\ \E record, capture \in BOOLEAN :
       /\ recording' = [recording EXCEPT ![s] = IF record THEN "open" ELSE @]
       /\ reader' = [reader EXCEPT ![s] = IF record THEN "start" ELSE @]
       /\ mic' = [mic EXCEPT ![s] = IF capture THEN "read" ELSE @]
  /\ UNCHANGED <<backend, leaving, teardown, closed, future, engine, sdkVars>>
  /\ UNCHANGED <<ring, queue, sent, got, pushVars>>
  /\ UNCHANGED <<calls, terminated, ending, by, mainVars, hangups>>

(* Mutant: ends the call a second time.                                    *)
JoinFailedAgain(s) ==
  /\ joining[s] = "waiting" /\ future[s] \in {"pending", "error"}
  /\ joining' = [joining EXCEPT ![s] = "raised"]
  /\ future' = [future EXCEPT ![s] = IF @ = "pending" THEN "cancelled" ELSE @]
  /\ Hangup(s, "cloud")
  /\ UNCHANGED <<backend, calling, posted, ring, reader, sent, got, pushVars>>
  /\ UNCHANGED <<mic, mainVars>>

(* join() raised: the call is hung up, unless the shutdown was first.      *)
JoinFailed(s) ==
  /\ joining[s] = "waiting" /\ future[s] \in {"pending", "error"}
  /\ joining' = [joining EXCEPT ![s] = "raised"]
  /\ future' = [future EXCEPT ![s] = IF @ = "pending" THEN "cancelled" ELSE @]
  /\ \/ ~terminated[s] /\ Hangup(s, "cloud")
     \/ /\ terminated[s] /\ MacosTeardown(s)
        /\ UNCHANGED <<teardown, leaving, joined, closed, terminated, hangups>>
        /\ UNCHANGED <<calls, by, ending, recording>>
  /\ UNCHANGED <<backend, calling, posted, ring, reader, sent, got, pushVars>>
  /\ UNCHANGED <<mic, mainVars>>

(* CancelCommand                                                           *)
Cancel(s) ==
  /\ CloudIdle /\ s \in calls /\ ~terminated[s]
  /\ Hangup(s, "cloud")
  /\ UNCHANGED <<backend, joining, future, calling, posted, ring, reader, sent, got>>
  /\ UNCHANGED <<pushVars, mic, mainVars>>

-----------------------------------------------------------------------------
(* The pumps                                                               *)

(* A chunk is pushed; errors are logged.  The pump looks at terminated     *)
(* before the next one.                                                    *)
MicChunk(s) ==
  /\ MicReads(s)
  /\ \/ terminated[s] /\ MicStopped(s) /\ UNCHANGED crashed
     \/ /\ ~terminated[s] /\ UNCHANGED mic
        /\ crashed' = (crashed \/ (joined[s] /\ engine[s] /\ EngineOf(s) \notin alive))
  /\ UNCHANGED <<backend, sessionVars, sdkVars, frameVars, pushing>>
  /\ UNCHANGED <<calls, terminated, ending, by, recording, mainVars, hangups>>

(* The microphone cannot be opened or read.                                *)
MicFails(s) ==
  /\ MicReads(s) /\ MicStopped(s)
  /\ UNCHANGED <<vars, calls, terminated, ending, by, recording, mainVars, hangups>>

(* The recording pump stops at the first frame after the call's end.       *)
RecordFrame(s) ==
  /\ reader[s] = "get" /\ queue[s] # <<>>
  /\ queue' = [queue EXCEPT ![s] = Tail(@)]
  /\ IF Head(queue[s]) = End \/ terminated[s] \/ recording[s] # "open"
     THEN reader' = [reader EXCEPT ![s] = "done"] /\ UNCHANGED got
     ELSE got' = [got EXCEPT ![s] = Append(@, Head(queue[s]))] /\ UNCHANGED reader
  /\ UNCHANGED <<backend, sessionVars, sdkVars, ring, sent, pushVars, devVars>>

-----------------------------------------------------------------------------
(* SIGINT / SIGTERM: dev_terminate_active_calls(), stop(), the client's    *)
(* stop(), and the end of the process                                      *)

MainBusy == \E s \in S : ending[s] = "cancelling" /\ by[s] = "main"

Signal ==
  /\ main = "run"
  /\ main' = "terminating" /\ todo' = calls
  /\ UNCHANGED <<vars, ctxVars, hangups>>

MainTerminates(s) ==
  /\ main = "terminating" /\ ~MainBusy /\ s \in todo
  /\ todo' = todo \ {s} /\ UNCHANGED main
  /\ \/ /\ s \in calls /\ ~terminated[s] /\ Hangup(s, "main")
        /\ UNCHANGED <<backend, joining, future, calling, posted, ring, reader, sent, got>>
        /\ UNCHANGED <<pushVars, mic>>
     \/ s \notin calls /\ UNCHANGED <<vars, ctxVars, hangups>>

StopBegins ==
  /\ main = "terminating" /\ ~MainBusy /\ todo = {}
  /\ main' = "stopping" /\ todo' = calls
  /\ UNCHANGED <<vars, ctxVars, hangups>>

(* stop() sends no event.                                                  *)
MainStops(s) ==
  /\ main = "stopping" /\ ~MainBusy /\ s \in todo
  /\ todo' = todo \ {s} /\ UNCHANGED <<main, hangups>>
  /\ \/ /\ s \in calls /\ calls' = calls \ {s} /\ TearDown(s, "main")
        /\ UNCHANGED <<backend, joining, future, calling, posted, ring, reader, sent, got>>
        /\ UNCHANGED <<pushVars, mic, terminated>>
     \/ s \notin calls /\ UNCHANGED <<vars, ctxVars>>

(* Stopping the client cancels a dial that waits for its join; the end of  *)
(* asyncio.run() cancels the pumps that are left.                          *)
ProcessEnds ==
  /\ main = "stopping" /\ ~MainBusy /\ todo = {}
  /\ main' = "stopped"
  /\ joining' = [s \in S |-> IF joining[s] = "waiting" THEN "cancelled" ELSE joining[s]]
  /\ mic' = [s \in S |-> IF mic[s] = "read" THEN "done" ELSE mic[s]]
  /\ reader' = [s \in S |-> IF reader[s] = "off" THEN "off" ELSE "done"]
  /\ UNCHANGED <<backend, leaving, teardown, joined, closed, future, engine, sdkVars>>
  /\ UNCHANGED <<ring, queue, sent, got, pushVars>>
  /\ UNCHANGED <<calls, terminated, ending, by, recording, todo, hangups>>

-----------------------------------------------------------------------------
DevInit ==
  /\ InitWith("macos")
  /\ calls = {} /\ terminated = [s \in S |-> FALSE]
  /\ ending = [s \in S |-> "none"] /\ by = [s \in S |-> "none"]
  /\ recording = [s \in S |-> "off"] /\ mic = [s \in S |-> "off"]
  /\ main = "run" /\ todo = {} /\ hangups = [s \in S |-> 0]

(* Once its shutdown code runs, the main task gives up the loop only to    *)
(* wait for the pumps of a call.                                           *)
MainRuns == main \in {"terminating", "stopping"} /\ ~MainBusy

(* The SDK's threads run beside the loop.                                  *)
SdkThreads(s) ==
  /\ main # "stopped"
  /\ SdkReports(s, "ok") \/ SdkReports(s, "error") \/ CallbackPosts(s) \/ MacosFrame(s)
  /\ UNCHANGED devVars

SessionCallbacks(s) ==
  /\ main # "stopped"
  /\ JoinCallbackRuns(s) \/ FrameCallbackRuns(s) \/ ReaderStarts(s)
  /\ UNCHANGED devVars

LoopStep(s) ==
  /\ ~MainRuns
  /\ \/ SessionCallbacks(s)
     \/ Dial(s) \/ DialFails(s) \/ DialGoesOn(s) \/ JoinFailed(s) \/ Cancel(s)
     \/ PumpsEnded(s) \/ MicChunk(s) \/ MicFails(s) \/ RecordFrame(s)

DevNext ==
  \/ \E s \in S : SdkThreads(s) \/ LoopStep(s) \/ MainTerminates(s) \/ MainStops(s)
  \/ Signal \/ StopBegins \/ ProcessEnds

(* The loop runs what is ready; the cloud's messages, the SDK, the         *)
(* microphone and the signal may stay away for ever.                       *)
DevSpec ==
  /\ DevInit /\ [][DevNext]_allVars
  /\ WF_allVars(StopBegins) /\ WF_allVars(ProcessEnds)
  /\ \A s \in S :
       /\ WF_allVars(PumpsEnded(s)) /\ WF_allVars(MainTerminates(s))
       /\ WF_allVars(MainStops(s))

-----------------------------------------------------------------------------
(* Properties                                                              *)

(* The cloud is told once that a call ended, although the failing dial,    *)
(* CancelCommand and the shutdown may all get to say it.                   *)
OneHangup == \A s \in S : hangups[s] <= 1

(* A call that was torn down has given its engine back, its pumps do not   *)
(* feed it, and a recording it still has open was begun by a join() that   *)
(* returned after the teardown.                                            *)
ReleasedOnTeardown ==
  \A s \in S : ending[s] = "over" =>
    /\ ~engine[s]
    /\ recording[s] = "open" => closed[s] /\ joined[s]

(* The shutdown ends, whatever dials, answers and pumps it meets.          *)
StopCompletes == main = "terminating" ~> main = "stopped"
=============================================================================
