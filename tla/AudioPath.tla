----------------------------- MODULE AudioPath ------------------------------
(***************************************************************************)
(* The audio path of a call: the modem's audio backends, the two PCM       *)
(* rings, the pumps on both sides of them, the RTC session as the bridge   *)
(* sees it, and the recorder, from _handle_connected() to the end of       *)
(* _CallContext.teardown().  Calls follow one another and share the        *)
(* backends and the recorder.                                              *)
(*                                                                         *)
(* On Windows one task drives both directions of one serial handle; on the *)
(* other platforms capture and playback have a pump each.  Blocking reads  *)
(* run in threads: cancelling the task does not stop the thread.           *)
(*                                                                         *)
(* A step is the code between two suspension points; put() on a ring never *)
(* suspends.  A chunk is [call, n, len]: the n-th of its stream.           *)
(***************************************************************************)
EXTENDS Integers, Sequences

CONSTANTS
  Platforms,    \* subset of {"win32", "posix"}
  Capacity,     \* ring capacity, bytes
  ChunkBytes,   \* bytes of one modem frame (320)
  FrameSizes,   \* bytes of RTC frames after conversion for the modem
  MaxEmpty,     \* empty serial reads before read_chunk() reports EOF (50)
  Keep,         \* max_recordings
  MaxReads,     \* bound: reads that return data
  MaxFrames,    \* bound: RTC frames
  MaxCalls      \* bound: calls

ASSUME AudioAssumption ==
  /\ Platforms \subseteq {"win32", "posix"}
  /\ Capacity \in Nat \ {0} /\ ChunkBytes \in Nat \ {0}
  /\ FrameSizes \subseteq Nat \ {0}
  /\ MaxEmpty \in Nat \ {0} /\ Keep \in Nat \ {0}
  /\ MaxReads \in Nat /\ MaxFrames \in Nat /\ MaxCalls \in Nat

VARIABLES
  platform,    \* sys.platform, fixed
  port,        \* the backends' device is open
  call,        \* number of the latest call
  stage,       \* where the call's set-up or teardown is suspended
  joined,      \* rtc_session.is_joined
  up, down,    \* the rings' chunks, oldest first
  capture,     \* the capture pump, or on Windows the duplex pump
  empty,       \* empty reads inside the current read_chunk()
  orphans,     \* serial reads whose task has been cancelled
  playback,    \* the playback pump
  accum,       \* _accum / pending: the bytes <<n, i>> taken off `down`
  frame,       \* what the write in progress writes (<<>>: silence)
  upstream,    \* _upstream_loop
  held,        \* the chunk it is pushing
  downstream   \* _downstream_loop

VARIABLES
  recording,   \* _tracks has an entry for the call
  user, ai,    \* numbers of the chunks in its two tracks
  files        \* the recordings on disk, oldest first

VARIABLES      \* history
  reads,       \* reads that returned data
  frames,      \* frames the RTC session delivered
  pushed,      \* chunks pushed to the RTC session
  heard,       \* frames accepted from the peer
  played       \* bytes written to the modem

callVars == <<platform, port, call, stage, joined>>
pumpVars == <<capture, empty, orphans, playback, accum, frame>>
bridgeVars == <<upstream, held, downstream>>
recVars == <<recording, user, ai, files>>
histVars == <<frames, pushed, heard, played>>
vars == <<callVars, up, down, pumpVars, bridgeVars, recVars, reads, histVars>>

NoChunk == [call |-> 0, n |-> 0, len |-> 0]

-----------------------------------------------------------------------------
(* PcmRingBuffer                                                           *)

(* _size: the bytes of the chunks in the ring.                             *)
Bytes(ring) ==
  LET upTo[i \in 0..Len(ring)] == IF i = 0 THEN 0 ELSE upTo[i - 1] + ring[i].len
  IN  upTo[Len(ring)]

(* The ring after k chunks were dropped from its old end.                  *)
DropOldest(ring, k) == SubSeq(ring, k + 1, Len(ring))

(* put() drops the oldest chunks, and no more than needed, to make room.   *)
MakeRoom(ring, len) ==
  LET fits == {k \in 0..Len(ring) : Bytes(DropOldest(ring, k)) + len <= Capacity}
  IN  DropOldest(ring, CHOOSE k \in fits : \A other \in fits : k <= other)

(* Mutant: newest first.                                                   *)
PutFront(ring, chunk) ==
  IF chunk.len > Capacity THEN ring ELSE <<chunk>> \o MakeRoom(ring, chunk.len)

(* A chunk larger than the whole ring is dropped instead.                  *)
Put(ring, chunk) ==
  IF chunk.len > Capacity THEN ring ELSE Append(MakeRoom(ring, chunk.len), chunk)

(* The bytes of a chunk, and of a ring's chunks in order.                  *)
BytesOf(chunk) == [i \in 1..chunk.len |-> <<chunk.n, i>>]

Drained(ring) ==
  LET upTo[i \in 0..Len(ring)] ==
        IF i = 0 THEN <<>> ELSE upTo[i - 1] \o BytesOf(ring[i])
  IN  upTo[Len(ring)]

-----------------------------------------------------------------------------
(* _handle_connected(): rings, recorder, bridge.join(), pumps              *)

NewRings == up' = <<>> /\ down' = <<>>

(* begin_call() may find the disk full; the call goes on without recording.*)
BeginRecording == recording' \in BOOLEAN /\ user' = <<>> /\ ai' = <<>>

Connect ==
  /\ stage = "idle" /\ call < MaxCalls
  /\ call' = call + 1 /\ stage' = "joining"
  /\ NewRings /\ BeginRecording
  /\ UNCHANGED <<platform, port, joined, files, pumpVars, bridgeVars>>
  /\ UNCHANGED <<reads, histVars>>

(* One pump for both directions on Windows, two elsewhere.                 *)
StartModemPumps ==
  /\ capture' = "reading" /\ empty' = 0
  /\ playback' = IF platform = "win32" THEN "off" ELSE "get"
  /\ accum' = <<>> /\ frame' = <<>>

StartBridgePumps == upstream' = "get" /\ downstream' = "frames"

(* The pumps of both sides start before anything else runs.                *)
JoinSucceeds ==
  /\ stage = "joining"
  /\ stage' = "live" /\ joined' = TRUE
  /\ StartBridgePumps /\ StartModemPumps
  /\ UNCHANGED <<platform, port, call, orphans, held, up, down, recVars, reads>>
  /\ UNCHANGED histVars

JoinFails ==
  /\ stage = "joining"
  /\ stage' = "cancelling"
  /\ UNCHANGED <<platform, port, call, joined, up, down, pumpVars, bridgeVars>>
  /\ UNCHANGED <<recVars, reads, histVars>>

-----------------------------------------------------------------------------
(* Capture side: run_capture_pump(), run_duplex_pump(), read_chunk()       *)

(* A serial read returns when its 20 ms are over, full or not.             *)
ReadSizes == IF platform = "win32" THEN 1..ChunkBytes ELSE {ChunkBytes}

(* The pump of a platform with two devices goes on reading; the duplex     *)
(* pump drains the downstream ring and starts to write one frame, silence  *)
(* if it has less than one.                                                *)
ReadReturns(len) ==
  /\ capture = "reading" /\ port /\ reads < MaxReads
  /\ reads' = reads + 1 /\ empty' = 0
  /\ up' = Put(up, [call |-> call, n |-> reads', len |-> len])
  /\ IF platform = "win32"
     THEN LET pending == accum \o Drained(down)
              full == Len(pending) >= ChunkBytes
          IN  /\ capture' = "writing" /\ down' = <<>>
              /\ frame' = IF full THEN SubSeq(pending, 1, ChunkBytes) ELSE <<>>
              /\ accum' = IF full
                          THEN SubSeq(pending, ChunkBytes + 1, Len(pending))
                          ELSE pending
     ELSE UNCHANGED <<capture, down, accum, frame>>
  /\ UNCHANGED <<callVars, orphans, playback, bridgeVars, recVars, histVars>>

(* An empty read is tried again; enough of them are taken for EOF, which   *)
(* ends the pump for the rest of the call.                                 *)
ReadEmpty ==
  /\ capture = "reading" /\ port /\ platform = "win32"
  /\ IF empty + 1 < MaxEmpty
     THEN empty' = empty + 1 /\ capture' = capture
     ELSE empty' = 0 /\ capture' = "off"
  /\ UNCHANGED <<callVars, up, down, orphans, playback, accum, frame>>
  /\ UNCHANGED <<bridgeVars, recVars, reads, histVars>>

(* An exception of the backend ends the pump, too: the device is gone, or  *)
(* closed.                                                                 *)
ReadFails ==
  /\ capture = "reading" /\ capture' = "off"
  /\ UNCHANGED <<callVars, up, down, empty, orphans, playback, accum, frame>>
  /\ UNCHANGED <<bridgeVars, recVars, reads, histVars>>

(* A write timeout or a short write is logged and the frame is gone.       *)
DuplexWritten ==
  /\ capture = "writing" /\ capture' = "reading"
  /\ played' \in {played, played \o frame} /\ frame' = <<>>
  /\ UNCHANGED <<callVars, up, down, empty, orphans, playback, accum>>
  /\ UNCHANGED <<bridgeVars, recVars, reads, frames, pushed, heard>>

(* A thread nobody waits for ends; what it read is lost.                   *)
OrphanReads ==
  /\ orphans > 0 /\ orphans' = orphans - 1
  /\ reads' \in {reads, reads + 1} /\ reads' <= MaxReads
  /\ port \/ reads' = reads
  /\ UNCHANGED <<callVars, up, down, capture, empty, playback, accum, frame>>
  /\ UNCHANGED <<bridgeVars, recVars, histVars>>

-----------------------------------------------------------------------------
(* Playback side: run_playback_pump()                                      *)

(* Takes a frame off `bytes` if there is one, else waits for more.         *)
NextFrame(bytes) ==
  IF Len(bytes) >= ChunkBytes
  THEN /\ playback' = "write"
       /\ frame' = SubSeq(bytes, 1, ChunkBytes)
       /\ accum' = SubSeq(bytes, ChunkBytes + 1, Len(bytes))
  ELSE playback' = "get" /\ frame' = <<>> /\ accum' = bytes

PlaybackGets ==
  /\ playback = "get" /\ down # <<>>
  /\ down' = Tail(down)
  /\ NextFrame(accum \o BytesOf(Head(down)))
  /\ UNCHANGED <<callVars, up, capture, empty, orphans, bridgeVars, recVars>>
  /\ UNCHANGED <<reads, histVars>>

(* Mutant: flushes what is left as a short frame, and keeps it.            *)
PlaybackWritesTwice ==
  /\ playback = "write" /\ port
  /\ played' = played \o frame \o accum
  /\ NextFrame(accum)
  /\ UNCHANGED <<callVars, up, down, capture, empty, orphans, bridgeVars>>
  /\ UNCHANGED <<recVars, reads, frames, pushed, heard>>

PlaybackWrites ==
  /\ playback = "write" /\ port
  /\ played' = played \o frame
  /\ NextFrame(accum)
  /\ UNCHANGED <<callVars, up, down, capture, empty, orphans, bridgeVars>>
  /\ UNCHANGED <<recVars, reads, frames, pushed, heard>>

PlaybackFails ==
  /\ playback = "write" /\ playback' = "off"
  /\ frame' = <<>> /\ accum' = <<>>
  /\ UNCHANGED <<callVars, up, down, capture, empty, orphans, bridgeVars>>
  /\ UNCHANGED <<recVars, reads, histVars>>

-----------------------------------------------------------------------------
(* AudioBridge: _upstream_loop() and _downstream_loop()                    *)

(* The resampler refuses half a sample.                                    *)
Resamples(chunk) == chunk.len % 2 = 0

(* Its exception ends the loop.                                            *)
UpstreamGets ==
  /\ upstream = "get" /\ up # <<>>
  /\ up' = Tail(up)
  /\ IF Resamples(Head(up))
     THEN upstream' = "push" /\ held' = Head(up)
     ELSE upstream' = "off" /\ held' = NoChunk
  /\ UNCHANGED <<callVars, down, pumpVars, downstream, recVars, reads>>
  /\ UNCHANGED histVars

(* append_user() and append_ai(): the call's track, if it has one.         *)
Tap(track, chunk) == IF recording THEN Append(track, chunk.n) ELSE track

(* push_audio() accepts the chunk; the user track gets it, too.  The stop  *)
(* event is only looked at between two chunks.                             *)
PushAccepted ==
  /\ upstream = "push" /\ joined
  /\ pushed' = Append(pushed, held) /\ held' = NoChunk
  /\ user' = Tap(user, held)
  /\ upstream' = IF stage \in {"leaving", "stopping"} THEN "off" ELSE "get"
  /\ UNCHANGED <<callVars, up, down, pumpVars, downstream>>
  /\ UNCHANGED <<recording, ai, files, reads, frames, heard, played>>

(* RtcPushBackpressure: the chunk is kept and tried again after a pause.   *)
PushStalls ==
  /\ upstream = "push" /\ joined /\ upstream' = "pause"
  /\ UNCHANGED <<callVars, up, down, pumpVars, held, downstream, recVars>>
  /\ UNCHANGED <<reads, histVars>>

PauseOver ==
  /\ upstream = "pause" /\ upstream' = "push"
  /\ UNCHANGED <<callVars, up, down, pumpVars, held, downstream, recVars>>
  /\ UNCHANGED <<reads, histVars>>

(* RtcNotJoined: leave() ran underneath.                                   *)
PushNotJoined ==
  /\ upstream = "push" /\ ~joined
  /\ upstream' = "off" /\ held' = NoChunk
  /\ UNCHANGED <<callVars, up, down, pumpVars, downstream, recVars, reads>>
  /\ UNCHANGED histVars

(* A frame that names nobody is taken for the peer's.                      *)
FromPeer(sender) == sender # "other"

(* A frame of the peer goes to the recording and to the modem's ring; a    *)
(* third party's is dropped.  The session may still hand out queued frames *)
(* while leave() waits.                                                    *)
FrameArrives(sender, len) ==
  /\ downstream = "frames" /\ frames < MaxFrames
  /\ frames' = frames + 1
  /\ LET chunk == [call |-> call, n |-> frames', len |-> len]
     IN  IF FromPeer(sender)
         THEN /\ down' = Put(down, chunk)
              /\ heard' = Append(heard, chunk)
              /\ ai' = Tap(ai, chunk)
         ELSE UNCHANGED <<down, heard, ai>>
  /\ UNCHANGED <<callVars, up, pumpVars, bridgeVars, recording, user, files>>
  /\ UNCHANGED <<reads, pushed, played>>

FramesEnd ==
  /\ downstream = "frames" /\ ~joined
  /\ downstream' = "off"
  /\ UNCHANGED <<callVars, up, down, pumpVars, upstream, held, recVars>>
  /\ UNCHANGED <<reads, histVars>>

-----------------------------------------------------------------------------
(* _CallContext.teardown(): pumps, bridge.leave(), recorder, rings         *)

(* A hangup, a cancel or stop() ends the call.  The modem-side pumps are   *)
(* cancelled; a serial read in progress goes on without them.              *)
TeardownBegins ==
  /\ stage = "live"
  /\ stage' = "cancelling"
  /\ orphans' = IF capture = "reading" THEN orphans + 1 ELSE orphans
  /\ capture' = "off" /\ playback' = "off" /\ empty' = 0
  /\ accum' = <<>> /\ frame' = <<>>
  /\ UNCHANGED <<platform, port, call, joined, up, down, bridgeVars, recVars>>
  /\ UNCHANGED <<reads, histVars>>

(* Mutant: the recording is finalized before the bridge is left.           *)
LeaveAfterFinalize ==
  /\ stage = "cancelling"
  /\ stage' = IF joined THEN "leaving" ELSE "stopping"
  /\ recording' = FALSE /\ user' = <<>> /\ ai' = <<>>
  /\ files' = IF recording
              THEN Append(files, [call |-> call, user |-> user, ai |-> ai])
              ELSE files
  /\ UNCHANGED <<platform, port, call, joined, up, down, pumpVars, bridgeVars>>
  /\ UNCHANGED <<reads, histVars>>

(* bridge.leave() sets the stop event and awaits rtc_session.leave(), if   *)
(* the session is joined.                                                  *)
LeaveBegins ==
  /\ stage = "cancelling"
  /\ stage' = IF joined THEN "leaving" ELSE "stopping"
  /\ UNCHANGED <<platform, port, call, joined, up, down, pumpVars, bridgeVars>>
  /\ UNCHANGED <<recVars, reads, histVars>>

RtcLeft ==
  /\ stage = "leaving"
  /\ stage' = "stopping" /\ joined' = FALSE
  /\ UNCHANGED <<platform, port, call, up, down, pumpVars, bridgeVars, recVars>>
  /\ UNCHANGED <<reads, histVars>>

(* prune(): the newest Keep recordings stay.                               *)
Prune(wavs) == IF Len(wavs) > Keep THEN SubSeq(wavs, Len(wavs) - Keep + 1, Len(wavs)) ELSE wavs

(* Mutant: the pump that waits for frames is forgotten.                    *)
PumpsStoppedButOne ==
  /\ stage = "stopping"
  /\ stage' = "disabling"
  /\ upstream' = "off" /\ held' = NoChunk
  /\ recording' = FALSE /\ user' = <<>> /\ ai' = <<>>
  /\ UNCHANGED <<platform, port, call, joined, up, down, pumpVars, downstream, files>>
  /\ UNCHANGED <<reads, histVars>>

(* Mutant: the pumps are awaited without being cancelled.                  *)
PumpsAwaited ==
  /\ stage = "stopping" /\ upstream = "off" /\ downstream = "off"
  /\ stage' = "disabling"
  /\ recording' = FALSE /\ user' = <<>> /\ ai' = <<>>
  /\ UNCHANGED <<platform, port, call, joined, up, down, pumpVars, bridgeVars, files>>
  /\ UNCHANGED <<reads, histVars>>

(* The tracks are taken first; writing the file may fail and lose them.    *)
Finalize ==
  /\ recording' = FALSE /\ user' = <<>> /\ ai' = <<>>
  /\ IF recording
     THEN \/ files' = Prune(Append(files, [call |-> call, user |-> user, ai |-> ai]))
          \/ files' = Prune(files)
     ELSE files' = files

StopBridgePumps == upstream' = "off" /\ downstream' = "off" /\ held' = NoChunk

(* The bridge's pumps are cancelled and gone; then, without a suspension,  *)
(* finalize() and prune() run.                                             *)
PumpsStopped ==
  /\ stage = "stopping"
  /\ stage' = "disabling"
  /\ StopBridgePumps /\ Finalize
  /\ UNCHANGED <<platform, port, call, joined, up, down, pumpVars, reads, histVars>>

(* After AT+CPCMREG=0 the rings are closed and dropped.                    *)
RingsClosed ==
  /\ stage = "disabling"
  /\ stage' = "idle" /\ up' = <<>> /\ down' = <<>>
  /\ UNCHANGED <<platform, port, call, joined, pumpVars, bridgeVars, recVars>>
  /\ UNCHANGED <<reads, histVars>>

(* stop() closes the backends after the teardown of the calls it knows of; *)
(* a call accepted meanwhile, or one tearing itself down, may be at any    *)
(* stage (the owner of a shared handle closes it).                         *)
BackendsClosed ==
  /\ port /\ port' = FALSE
  /\ UNCHANGED <<platform, call, stage, joined, up, down, pumpVars, bridgeVars>>
  /\ UNCHANGED <<recVars, reads, histVars>>

-----------------------------------------------------------------------------
(* The capture backend opens the device, on Windows the playback backend   *)
(* adopts its handle.                                                      *)
Init ==
  /\ platform \in Platforms /\ port = TRUE /\ call = 0 /\ stage = "idle" /\ joined = FALSE
  /\ up = <<>> /\ down = <<>>
  /\ capture = "off" /\ empty = 0 /\ orphans = 0
  /\ playback = "off" /\ accum = <<>> /\ frame = <<>>
  /\ upstream = "off" /\ held = NoChunk /\ downstream = "off"
  /\ recording = FALSE /\ user = <<>> /\ ai = <<>> /\ files = <<>>
  /\ reads = 0
  /\ frames = 0
  /\ pushed = <<>> /\ heard = <<>> /\ played = <<>>

Teardown ==
  TeardownBegins \/ LeaveBegins \/ RtcLeft \/ PumpsStopped \/ RingsClosed

Next ==
  \/ Connect \/ JoinSucceeds \/ JoinFails \/ Teardown \/ BackendsClosed
  \/ \E len \in ReadSizes : ReadReturns(len)
  \/ ReadEmpty \/ ReadFails \/ DuplexWritten \/ OrphanReads
  \/ PlaybackGets \/ PlaybackWrites \/ PlaybackFails
  \/ UpstreamGets \/ PushAccepted \/ PushStalls \/ PauseOver \/ PushNotJoined
  \/ \E sender \in {"peer", "unknown", "other"}, len \in FrameSizes :
       FrameArrives(sender, len)
  \/ FramesEnd

Spec == Init /\ [][Next]_vars

(* The event loop resumes every task whose wait is over; leave() and       *)
(* AT+CPCMREG=0 have timeouts.                                             *)
TaskFairness ==
  /\ WF_vars(LeaveBegins) /\ WF_vars(RtcLeft) /\ WF_vars(PumpsStopped)
  /\ WF_vars(RingsClosed)

FairSpec == Spec /\ TaskFairness

-----------------------------------------------------------------------------
(* Properties                                                              *)

Chunks == [call : Nat, n : Nat, len : Nat]

(* Every variable keeps its type, and the rings their capacity.            *)
TypeOK ==
  /\ platform \in Platforms /\ port \in BOOLEAN /\ call \in 0..MaxCalls /\ joined \in BOOLEAN
  /\ stage \in {"idle", "joining", "live", "cancelling", "leaving", "stopping",
                "disabling"}
  /\ up \in Seq(Chunks) /\ Bytes(up) <= Capacity
  /\ down \in Seq(Chunks) /\ Bytes(down) <= Capacity /\ held \in Chunks
  /\ capture \in {"off", "reading", "writing"} /\ empty \in 0..MaxEmpty - 1
  /\ orphans \in Nat /\ playback \in {"off", "get", "write"}
  /\ accum \in Seq(Nat \X Nat) /\ frame \in Seq(Nat \X Nat)
  /\ upstream \in {"off", "get", "push", "pause"}
  /\ downstream \in {"off", "frames"}
  /\ recording \in BOOLEAN /\ user \in Seq(Nat) /\ ai \in Seq(Nat)
  /\ files \in Seq([call : Nat, user : Seq(Nat), ai : Seq(Nat)])
  /\ reads \in 0..MaxReads /\ frames \in 0..MaxFrames
  /\ pushed \in Seq(Chunks) /\ heard \in Seq(Chunks) /\ played \in Seq(Nat \X Nat)

(* What the peer says is played in order and at most once: not the rings'  *)
(* drops, the collecting of partial frames, write timeouts, nor the change *)
(* from one call to the next repeat or reorder a byte.                     *)
PlayedInOrder ==
  \A i, j \in 1..Len(played) : i < j =>
    \/ played[i][1] < played[j][1]
    \/ played[i][1] = played[j][1] /\ played[i][2] < played[j][2]

(* No audio crosses from one call to the next: what waits anywhere in the  *)
(* path belongs to the call that is up, although both calls share the      *)
(* serial handle and a reader thread may outlive its call; and before a    *)
(* call is joined no pump of the call before it is left.                   *)
NoCrosstalk ==
  /\ \A i \in 1..Len(up) : up[i].call = call
  /\ \A i \in 1..Len(down) : down[i].call = call
  /\ held # NoChunk => held.call = call
  /\ stage \in {"idle", "joining"} =>
       {capture, playback, upstream, downstream} = {"off"} /\ ~joined

(* Numbers of a history's chunks, and of those that belong to call c.      *)
Numbers(history) == [i \in 1..Len(history) |-> history[i].n]

NumbersOf(history, c) ==
  LET upTo[i \in 0..Len(history)] ==
        IF i = 0 THEN <<>>
        ELSE IF history[i].call = c THEN Append(upTo[i - 1], history[i].n) ELSE upTo[i - 1]
  IN  upTo[Len(history)]

(* A recording on disk holds all the call pushed and all it heard: the     *)
(* pumps are gone before finalize() writes the file.                       *)
RecordingComplete ==
  \A i \in 1..Len(files) :
    /\ files[i].user = NumbersOf(pushed, files[i].call)
    /\ files[i].ai = NumbersOf(heard, files[i].call)

(* The microphone direction is a lossy FIFO: of the chunks the modem       *)
(* produced, those that reach the RTC session do so in order and once.     *)
Abstract == INSTANCE OrderedDelivery WITH
  next <- reads + 1,
  inTransit <- {up[i].n : i \in 1..Len(up)} \union ({held.n} \ {0}),
  delivered <- Numbers(pushed)

ImplementsOrderedDelivery == Abstract!ASpec

(* Every teardown ends, whatever the pumps are doing.                      *)
TeardownEnds == stage = "cancelling" ~> stage = "idle"
=============================================================================
