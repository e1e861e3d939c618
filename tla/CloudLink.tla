----------------------------- MODULE CloudLink -----------------------------
(***************************************************************************)
(* The edge daemon's control link to the cloud: CloudEdgeGrpcClient        *)
(* (transport/grpc_client.py) with the event buffer behind it              *)
(* (transport/sqlite_buffer.py, or the in-memory deque), driven through    *)
(* start-up and shutdown by edge/main.py::_arun_real.                      *)
(*                                                                         *)
(* One asyncio loop runs everything, so a step of this module is the code  *)
(* between two suspension points.  Putting on the unbounded outbound       *)
(* asyncio.Queue never suspends: setting `connected`, draining the buffer  *)
(* and deleting its rows is therefore a single step.                       *)
(*                                                                         *)
(* A frame is a number (the order in which send() was called) and a kind.  *)
(***************************************************************************)
EXTENDS Integers, Sequences

CONSTANTS
  Durable,         \* BOOLEAN: SqliteEventBuffer, or the in-memory deque
  Capacity,        \* capacity_rows / memory_buffer_limit
  PageSize,        \* rows per SELECT of iter_pending (256 in the code)
  InitialBackoff,  \* initial_backoff_s
  MaxBackoff,      \* max_backoff_s
  Producers,       \* the kinds of frame the daemon sends
  MaxSends,        \* bound: calls of send()
  MaxInbound,      \* bound: cloud messages read from the wire, not dispatched
  MaxFaults,       \* bound: SQLite errors during a flush
  MaxRestarts      \* bound: launches of the daemon

Kinds == {"heartbeat", "dial_ack", "call_event", "hardware_alert"}

ASSUME LinkAssumption ==
  /\ Durable \in BOOLEAN
  /\ Capacity \in Nat \ {0} /\ PageSize \in Nat \ {0}
  /\ InitialBackoff \in Nat \ {0} /\ MaxBackoff \in Nat
  /\ InitialBackoff <= MaxBackoff
  /\ Producers \subseteq Kinds
  /\ MaxSends \in Nat /\ MaxInbound \in Nat
  /\ MaxFaults \in Nat /\ MaxRestarts \in Nat

VARIABLES
  daemon,       \* where _arun_real stands
  sigterm,      \* stop_event of _arun_real
  launches,     \* number of times the process was started
  pc,           \* where the connect task is suspended ("none": no task)
  established,  \* the waiter in start() has been woken by _connected
  connected,    \* _connected
  stream,       \* the bidi stream as the transport knows it
  inbound,      \* cloud messages received and not yet read by the client
  outbound,     \* the current stream's _outbound queue
  orphans,      \* queues of streams left running by a failed flush
  buffer,       \* pending rows, oldest first
  nextSeq,      \* the AUTOINCREMENT counter
  backoff,      \* backoff of _connect_loop
  faults,       \* SQLite errors so far
  nextId,       \* number of the next frame
  received,     \* history: frames the cloud read, in order
  evicted,      \* history: frames dropped by the capacity limit
  stranded,     \* history: frames that died with their stream or process
  refused       \* history: frames whose send() raised

procVars == <<daemon, sigterm, launches>>
loopVars == <<pc, established, connected, stream, inbound, backoff>>
dataVars == <<outbound, orphans, buffer, nextSeq, faults, nextId>>
histVars == <<received, evicted, stranded, refused>>
vars == <<procVars, loopVars, dataVars, histVars>>

Frames == [id : Nat, kind : Kinds]
Rows == [seq : Nat, frame : Frames]

-----------------------------------------------------------------------------
(* Helpers                                                                 *)

FramesOf(rows) == [i \in 1..Len(rows) |-> rows[i].frame]
IdsOf(frames) == {frames[i].id : i \in DOMAIN frames}

(* What each call site passes as critical=.                                *)
Critical(kind) == kind = "hardware_alert"

(* The rows over the capacity once one more is inserted.                   *)
Excess(rows) == IF Len(rows) < Capacity THEN 0 ELSE Len(rows) + 1 - Capacity

(* Mutant: one row too many is evicted.                                    *)
InsertEvictingOneMore(rows, row) ==
  SubSeq(Append(rows, row), Excess(rows) + 2, Len(rows) + 1)

(* INSERT, then evict the oldest rows beyond the capacity; a deque with a  *)
(* maxlen drops its oldest element the same way.                           *)
Insert(rows, row) == SubSeq(Append(rows, row), Excess(rows) + 1, Len(rows) + 1)
EvictedBy(rows) == IdsOf(FramesOf(SubSeq(rows, 1, Excess(rows))))

(* Mutants: WHERE seq < s; no WHERE at all.                                *)
DeleteBefore(rows, s) ==
  LET n == CHOOSE n \in 0..Len(rows) :
             \A i \in 1..Len(rows) : rows[i].seq < s <=> i <= n
  IN  SubSeq(rows, n + 1, Len(rows))
DeleteEverything(rows, s) == <<>>

(* DELETE ... WHERE seq <= s: the rows, kept in seq order, lose a prefix.  *)
DeleteThrough(rows, s) ==
  LET n == CHOOSE n \in 0..Len(rows) :
             \A i \in 1..Len(rows) : rows[i].seq <= s <=> i <= n
  IN  SubSeq(rows, n + 1, Len(rows))

(* Mutant: replayed rows are not deleted.                                  *)
FlushKeepsRows(rows, k) == rows

(* The buffer after the first k rows were put on a queue and deleted.      *)
AfterFlushing(rows, k) ==
  IF k = 0 THEN rows ELSE DeleteThrough(rows, rows[k].seq)

OrphanIds == UNION {IdsOf(orphans[i]) : i \in DOMAIN orphans}

-----------------------------------------------------------------------------
(* Process life: _arun_real                                                *)

(* grpc_client.start() creates the connect task, which opens the first     *)
(* stream on a fresh outbound queue.  Durable rows of an earlier run are   *)
(* still there.                                                            *)
Launch ==
  /\ daemon = "down" /\ launches < MaxRestarts
  /\ daemon' = "starting" /\ sigterm' = FALSE /\ launches' = launches + 1
  /\ pc' = "opening" /\ backoff' = InitialBackoff /\ established' = FALSE
  /\ UNCHANGED <<connected, stream, inbound>>
  /\ UNCHANGED <<dataVars, histVars>>

(* start() returns once its waiter was woken; orchestrator.start() then    *)
(* registers the cloud callback.                                           *)
StartReturns ==
  /\ daemon = "starting" /\ established
  /\ daemon' = "running"
  /\ UNCHANGED <<sigterm, launches, loopVars, dataVars, histVars>>

(* The signal handler only sets stop_event.                                *)
Signal ==
  /\ daemon \in {"starting", "running"} /\ ~sigterm
  /\ sigterm' = TRUE
  /\ UNCHANGED <<daemon, launches, loopVars, dataVars, histVars>>

(* stop_event.wait() returns: heartbeat cancelled, orchestrator.stop().    *)
BeginShutdown ==
  /\ daemon = "running" /\ sigterm
  /\ daemon' = "stopping"
  /\ UNCHANGED <<sigterm, launches, loopVars, dataVars, histVars>>

(* grpc_client.stop(): the sentinel goes behind whatever is queued and the *)
(* connect task is cancelled; the cancellation lands at a later step.      *)
StopLink ==
  /\ daemon = "stopping"
  /\ daemon' = "closing"
  /\ UNCHANGED <<sigterm, launches, loopVars, dataVars, histVars>>

(* What a process that ends takes with it: streams, queues, deque.         *)
ProcessGone ==
  /\ daemon' = "down" /\ sigterm' = FALSE
  /\ pc' = "none" /\ connected' = FALSE /\ stream' = "none"
  /\ established' = FALSE /\ inbound' = 0
  /\ outbound' = <<>> /\ orphans' = <<>>
  /\ buffer' = IF Durable THEN buffer ELSE <<>>
  /\ stranded' = stranded \union IdsOf(outbound) \union OrphanIds
                   \union (IF Durable THEN {} ELSE IdsOf(FramesOf(buffer)))
  /\ UNCHANGED <<launches, backoff, nextSeq, faults, nextId>>
  /\ UNCHANGED <<received, evicted, refused>>

(* Mutant: only a stream that is still up is shut down.                    *)
CancelLandsIfUp ==
  /\ daemon = "closing" /\ connected /\ stream = "up"
  /\ pc' = "closing" /\ connected' = FALSE /\ stream' = "none" /\ inbound' = 0
  /\ outbound' = <<>>
  /\ stranded' = stranded \union IdsOf(outbound)
  /\ UNCHANGED <<procVars, established, backoff>>
  /\ UNCHANGED <<orphans, buffer, nextSeq, faults, nextId>>
  /\ UNCHANGED <<received, evicted, refused>>

(* The cancellation reaches _run_one_stream: its finally block runs, the   *)
(* queue is abandoned.  Call tasks that still run may send after this.     *)
CancelLands ==
  /\ daemon = "closing" /\ connected
  /\ pc' = "closing" /\ connected' = FALSE /\ stream' = "none" /\ inbound' = 0
  /\ outbound' = <<>>
  /\ stranded' = stranded \union IdsOf(outbound)
  /\ UNCHANGED <<procVars, established, backoff>>
  /\ UNCHANGED <<orphans, buffer, nextSeq, faults, nextId>>
  /\ UNCHANGED <<received, evicted, refused>>

(* The connect task has ended, the channel and the buffer are closed.      *)
LinkStopped == daemon = "closing" /\ ~connected /\ ProcessGone

(* The process is killed.  Committed rows survive.                         *)
Crash == daemon # "down" /\ ProcessGone

-----------------------------------------------------------------------------
(* The connect task: _connect_loop and _run_one_stream                     *)

(* Mutant: connected without replaying the buffer.                         *)
AcceptedWithoutFlush ==
  /\ pc = "opening"
  /\ pc' = "reading" /\ connected' = TRUE /\ established' = TRUE
  /\ stream' = "up" /\ inbound' = 0
  /\ UNCHANGED <<procVars, backoff, dataVars, histVars>>

(* initial_metadata() returned: connected, and the buffer moves onto the   *)
(* outbound queue row by row, each row deleted once it is queued.          *)
StreamAccepted ==
  /\ pc = "opening"
  /\ pc' = "reading" /\ connected' = TRUE /\ established' = TRUE
  /\ stream' = "up" /\ inbound' = 0
  /\ outbound' = outbound \o FramesOf(buffer)
  /\ buffer' = AfterFlushing(buffer, Len(buffer))
  /\ UNCHANGED <<procVars, backoff, orphans, nextSeq, faults, nextId, histVars>>

(* A read of the next page fails with k rows queued and deleted, or        *)
(* delete_through fails with row k queued and not deleted.  The exception  *)
(* leaves _run_one_stream before its try block: the channel is not closed, *)
(* so the stream goes on sending what its queue already holds.             *)
FlushFails(k, deleted) ==
  /\ pc = "opening" /\ Durable /\ faults < MaxFaults
  /\ \/ deleted = k /\ (k = Len(buffer) \/ k % PageSize = 0)
     \/ k > 0 /\ deleted = k - 1
  /\ pc' = "backoff" /\ established' = TRUE
  /\ orphans' = IF k = 0 THEN orphans
                ELSE Append(orphans, FramesOf(SubSeq(buffer, 1, k)))
  /\ buffer' = AfterFlushing(buffer, deleted)
  /\ faults' = faults + 1
  /\ UNCHANGED <<procVars, connected, stream, inbound, backoff>>
  /\ UNCHANGED <<outbound, nextSeq, nextId, histVars>>

(* initial_metadata() raised: connection refused, UNAUTHENTICATED.         *)
StreamRefused ==
  /\ pc = "opening"
  /\ pc' = "backoff"
  /\ UNCHANGED <<established, connected, stream, inbound, backoff>>
  /\ UNCHANGED <<procVars, dataVars, histVars>>

(* The reader takes the next message.  Without a callback it is skipped.   *)
Dispatch ==
  /\ pc = "reading" /\ inbound > 0
  /\ inbound' = inbound - 1
  /\ pc' = IF daemon = "starting" THEN "reading" ELSE "callback"
  /\ UNCHANGED <<procVars, established, connected, stream, backoff>>
  /\ UNCHANGED <<dataVars, histVars>>

(* The awaited callback returned or raised; the reader goes on.            *)
CallbackReturns ==
  /\ pc = "callback"
  /\ pc' = "reading"
  /\ UNCHANGED <<procVars, established, connected, stream, inbound, backoff>>
  /\ UNCHANGED <<dataVars, histVars>>

(* Only the reader learns that the stream is over.  Its finally block      *)
(* clears `connected`; frames still queued are on no list any more.        *)
EndNoticed ==
  /\ pc = "reading" /\ stream # "up"
  /\ stream = "ended" => inbound = 0
  /\ pc' = "closing" /\ connected' = FALSE /\ inbound' = 0
  /\ outbound' = <<>>
  /\ stranded' = stranded \union IdsOf(outbound)
  /\ UNCHANGED <<procVars, established, stream, backoff>>
  /\ UNCHANGED <<orphans, buffer, nextSeq, faults, nextId>>
  /\ UNCHANGED <<received, evicted, refused>>

(* channel.close() returned; only a clean end resets the backoff.          *)
ChannelClosed ==
  /\ pc = "closing"
  /\ pc' = "backoff" /\ stream' = "none"
  /\ backoff' = IF stream = "ended" THEN InitialBackoff ELSE backoff
  /\ UNCHANGED <<procVars, established, connected, inbound, dataVars, histVars>>

(* The sleep is over: the delay doubles up to its limit, a new stream is   *)
(* opened on a fresh queue.                                                *)
BackoffElapsed ==
  /\ pc = "backoff"
  /\ pc' = "opening"
  /\ backoff' = IF 2 * backoff < MaxBackoff THEN 2 * backoff ELSE MaxBackoff
  /\ UNCHANGED <<procVars, established, connected, stream, inbound>>
  /\ UNCHANGED <<dataVars, histVars>>

-----------------------------------------------------------------------------
(* send(), as the daemon's producers call it                               *)

(* Heartbeats come from grpc_heartbeat_loop while the daemon runs; acks    *)
(* from the dial handler, inside the cloud callback; the other kinds from  *)
(* the call tasks.                                                         *)
MaySend(kind) ==
  /\ daemon \in {"running", "stopping", "closing"}
  /\ kind = "heartbeat" => daemon = "running"
  /\ kind = "dial_ack" => pc = "callback"

NewFrame(kind) ==
  /\ MaySend(kind) /\ nextId <= MaxSends
  /\ nextId' = nextId + 1
  /\ UNCHANGED <<procVars, loopVars, orphans, faults, received>>

(* After stop() queued its sentinel nothing behind it is ever read.        *)
SendQueued(kind) ==
  /\ NewFrame(kind) /\ connected
  /\ IF daemon = "closing"
     THEN stranded' = stranded \union {nextId} /\ outbound' = outbound
     ELSE /\ outbound' = Append(outbound, [id |-> nextId, kind |-> kind])
          /\ stranded' = stranded
  /\ UNCHANGED <<buffer, nextSeq, evicted, refused>>

SendRefused(kind) ==
  /\ NewFrame(kind) /\ ~connected /\ Critical(kind)
  /\ refused' = refused \union {[id |-> nextId, kind |-> kind]}
  /\ UNCHANGED <<outbound, buffer, nextSeq, evicted, stranded>>

SendBuffered(kind) ==
  /\ NewFrame(kind) /\ ~connected /\ ~Critical(kind)
  /\ buffer' = Insert(buffer, [seq |-> nextSeq,
                               frame |-> [id |-> nextId, kind |-> kind]])
  /\ evicted' = evicted \union EvictedBy(buffer)
  /\ nextSeq' = nextSeq + 1
  /\ UNCHANGED <<outbound, stranded, refused>>

(* SQLite fails inside append(): at the INSERT, or (stored) in the query   *)
(* that enforces the capacity, when the row is already committed.          *)
SendFails(kind, stored) ==
  /\ MaySend(kind) /\ nextId <= MaxSends
  /\ ~connected /\ ~Critical(kind) /\ Durable /\ faults < MaxFaults
  /\ LET frame == [id |-> nextId, kind |-> kind]
     IN  IF stored
         THEN /\ buffer' = Append(buffer, [seq |-> nextSeq, frame |-> frame])
              /\ nextSeq' = nextSeq + 1 /\ refused' = refused
         ELSE /\ refused' = refused \union {frame}
              /\ UNCHANGED <<buffer, nextSeq>>
  /\ nextId' = nextId + 1 /\ faults' = faults + 1
  /\ UNCHANGED <<procVars, loopVars, outbound, orphans>>
  /\ UNCHANGED <<received, evicted, stranded>>

Send(kind) == SendQueued(kind) \/ SendRefused(kind) \/ SendBuffered(kind)

-----------------------------------------------------------------------------
(* The transport and the cloud, as the client uses them                    *)

(* _outbound_iter hands the next frame to the stream and it arrives.       *)
Transmit ==
  /\ stream = "up" /\ outbound # <<>>
  /\ outbound' = Tail(outbound)
  /\ received' = Append(received, Head(outbound))
  /\ UNCHANGED <<procVars, loopVars, orphans, buffer, nextSeq, faults, nextId>>
  /\ UNCHANGED <<evicted, stranded, refused>>

(* A stream left behind by a failed flush sends its head frame, or dies.   *)
OrphanTransmit(i) ==
  /\ i \in DOMAIN orphans /\ orphans[i] # <<>>
  /\ orphans' = [orphans EXCEPT ![i] = Tail(@)]
  /\ received' = Append(received, Head(orphans[i]))
  /\ UNCHANGED <<procVars, loopVars, outbound, buffer, nextSeq, faults, nextId>>
  /\ UNCHANGED <<evicted, stranded, refused>>

OrphanDies(i) ==
  /\ i \in DOMAIN orphans /\ orphans[i] # <<>>
  /\ orphans' = [orphans EXCEPT ![i] = <<>>]
  /\ stranded' = stranded \union IdsOf(orphans[i])
  /\ UNCHANGED <<procVars, loopVars, outbound, buffer, nextSeq, faults, nextId>>
  /\ UNCHANGED <<received, evicted, refused>>

CloudSends ==
  /\ stream = "up" /\ inbound < MaxInbound
  /\ inbound' = inbound + 1
  /\ UNCHANGED <<procVars, pc, established, connected, stream, backoff>>
  /\ UNCHANGED <<dataVars, histVars>>

(* The server closes the stream ("ended") or the connection is lost.       *)
StreamOver(how) ==
  /\ stream = "up"
  /\ stream' = how
  /\ UNCHANGED <<procVars, pc, established, connected, inbound, backoff>>
  /\ UNCHANGED <<dataVars, histVars>>

-----------------------------------------------------------------------------
Init ==
  /\ daemon = "down" /\ sigterm = FALSE /\ launches = 0
  /\ pc = "none" /\ established = FALSE /\ connected = FALSE
  /\ stream = "none" /\ inbound = 0 /\ backoff = InitialBackoff
  /\ outbound = <<>> /\ orphans = <<>> /\ buffer = <<>>
  /\ nextSeq = 1 /\ faults = 0 /\ nextId = 1
  /\ received = <<>> /\ evicted = {} /\ stranded = {} /\ refused = {}

ProcessStep ==
  \/ Launch \/ StartReturns \/ Signal \/ BeginShutdown
  \/ StopLink \/ CancelLands \/ LinkStopped \/ Crash

(* A cancelled task takes no further step of its own.                      *)
LoopStep ==
  /\ daemon # "closing"
  /\ \/ StreamAccepted \/ StreamRefused \/ Dispatch \/ CallbackReturns
     \/ EndNoticed \/ ChannelClosed \/ BackoffElapsed
     \/ \E k, d \in 0..Len(buffer) : FlushFails(k, d)

TransportStep ==
  \/ Transmit \/ CloudSends
  \/ \E how \in {"ended", "broken"} : StreamOver(how)
  \/ \E i \in DOMAIN orphans : OrphanTransmit(i) \/ OrphanDies(i)

Next ==
  \/ ProcessStep \/ LoopStep \/ TransportStep
  \/ \E kind \in Producers : Send(kind)
  \/ \E kind \in Producers, stored \in BOOLEAN : SendFails(kind, stored)

Spec == Init /\ [][Next]_vars

(* The tasks of the event loop run: every suspended coroutine whose wait   *)
(* is over is resumed.  CloudReachable is the environment's part: a client *)
(* that keeps dialling is accepted in the end.                             *)
TaskFairness ==
  /\ WF_vars(StartReturns) /\ WF_vars(BeginShutdown) /\ WF_vars(StopLink)
  /\ WF_vars(CancelLands) /\ WF_vars(LinkStopped)
  /\ WF_vars(LoopStep /\ Dispatch) /\ WF_vars(LoopStep /\ CallbackReturns)
  /\ WF_vars(LoopStep /\ EndNoticed) /\ WF_vars(LoopStep /\ ChannelClosed)
  /\ WF_vars(LoopStep /\ BackoffElapsed)
  /\ WF_vars(LoopStep /\ (StreamAccepted \/ StreamRefused))
  /\ WF_vars(Transmit)
  /\ \A i \in 1..MaxFaults : WF_vars(OrphanTransmit(i) \/ OrphanDies(i))

CloudReachable == SF_vars(LoopStep /\ StreamAccepted)

FairSpec == Spec /\ TaskFairness /\ CloudReachable

-----------------------------------------------------------------------------
(* Properties                                                              *)

FlagType == sigterm \in BOOLEAN /\ established \in BOOLEAN /\ connected \in BOOLEAN
LoopType ==
  /\ daemon \in {"down", "starting", "running", "stopping", "closing"}
  /\ pc \in {"none", "opening", "reading", "callback", "closing", "backoff"}
  /\ stream \in {"none", "up", "ended", "broken"}
  /\ launches \in Nat /\ inbound \in Nat
  /\ backoff \in InitialBackoff..MaxBackoff
DataType ==
  /\ outbound \in Seq(Frames) /\ orphans \in Seq(Seq(Frames))
  /\ buffer \in Seq(Rows) /\ received \in Seq(Frames)
  /\ nextSeq \in Nat /\ faults \in Nat /\ nextId \in Nat \ {0}
HistType ==
  evicted \subseteq Nat /\ stranded \subseteq Nat /\ refused \subseteq Frames

(* Every variable keeps its type; the backoff delay stays between its      *)
(* initial value and its limit.                                            *)
TypeOK == FlagType /\ LoopType /\ DataType /\ HistType

Increasing(frames) ==
  \A i, j \in 1..Len(frames) : i < j => frames[i].id < frames[j].id

(* Across disconnects, replays and restarts the cloud reads the frames in  *)
(* the order send() was called, none twice, unless SQLite failed.          *)
InOrderOnce == faults = 0 => Increasing(received)

(* While the link is up no frame waits in the buffer: the flush is         *)
(* complete before any later send() can overtake it.                       *)
FlushedWhileConnected == connected => buffer = <<>>

BufferIds == IdsOf(FramesOf(buffer))
RefusedIds == {f.id : f \in refused}

(* A frame send() accepted is delivered, on its way, stored, or dropped    *)
(* for one of two reasons: capacity, or the end of its stream or process.  *)
(* This includes flushes and appends that SQLite interrupts.               *)
NothingVanishes ==
  \A id \in 1..(nextId - 1) \ RefusedIds :
    id \in IdsOf(received) \union IdsOf(outbound) \union BufferIds
            \union OrphanIds \union evicted \union stranded

(* Without SQLite errors a frame has one fate: none is both delivered and  *)
(* still pending, or dropped and delivered later.                          *)
OneFate ==
  faults = 0 =>
    LET dropped == evicted \union stranded
        pending == IdsOf(outbound) \union BufferIds
    IN  /\ evicted \intersect stranded = {}
        /\ IdsOf(outbound) \intersect BufferIds = {}
        /\ (dropped \union RefusedIds) \intersect
             (pending \union IdsOf(received)) = {}
        /\ pending \intersect IdsOf(received) = {}

(* A DialAck is only ever sent while a cloud message is being handled, and *)
(* then it goes on the stream that carried the message: although its call  *)
(* site passes critical=False it is never stored and replayed late.        *)
AckNeverStored == \A i \in 1..Len(buffer) : buffer[i].frame.kind # "dial_ack"

(* A durable row disappears only onto a stream's queue or by eviction: a   *)
(* crash, a shutdown or a failed flush never takes one.                    *)
DurableRowsKept ==
  [][Durable =>
       BufferIds \subseteq BufferIds' \union IdsOf(outbound')
                             \union OrphanIds' \union evicted']_vars

-----------------------------------------------------------------------------
(* The inductive invariant behind the properties above                     *)

(* `connected` is set exactly while the reader runs, and only then can the *)
(* queue hold anything.                                                    *)
LoopInv ==
  /\ connected <=> pc \in {"reading", "callback"}
  /\ stream = "up" => connected
  /\ ~connected => outbound = <<>>
  /\ daemon = "down" => pc = "none"

(* Rows are in seq order and the counter is ahead of them.                 *)
RowsOrdered(rows) ==
  \A i, j \in 1..Len(rows) : i < j => rows[i].seq < rows[j].seq

RowInv ==
  /\ RowsOrdered(buffer)
  /\ \A i \in 1..Len(buffer) : buffer[i].seq < nextSeq

Below(frames, n) == \A i \in 1..Len(frames) : frames[i].id < n

Before(first, second) ==
  \A i \in 1..Len(first) : \A j \in 1..Len(second) :
    first[i].id < second[j].id

(* Delivered frames precede the queued ones, and the stored ones, each in  *)
(* its own order.                                                          *)
PipelineInv ==
  /\ orphans = <<>>
  /\ Increasing(received) /\ Increasing(outbound)
  /\ Increasing(FramesOf(buffer))
  /\ Before(received, outbound) /\ Before(received, FramesOf(buffer))
  /\ Below(received, nextId) /\ Below(outbound, nextId)
  /\ Below(FramesOf(buffer), nextId)

(* Inductive: what the link keeps true across every step.                  *)
LinkInv ==
  /\ TypeOK /\ LoopInv /\ FlushedWhileConnected /\ RowInv
  /\ AckNeverStored /\ (faults = 0 => PipelineInv)

-----------------------------------------------------------------------------
Ids(frames) == [i \in DOMAIN frames |-> frames[i].id]

Abstract == INSTANCE OrderedDelivery WITH
  next <- nextId,
  inTransit <- IdsOf(outbound) \union BufferIds,
  delivered <- Ids(received)

(* The link implements a lossy FIFO as long as SQLite does not fail: the   *)
(* outbound queue followed by the buffer is the abstract queue, and a      *)
(* flush, a reconnect or a restart is invisible or loses frames.           *)
ImplementsOrderedDelivery == Abstract!ASpec

(* A frame that is pending while the daemon lives is eventually delivered  *)
(* or dropped for a recorded reason.                                       *)
PendingSettles ==
  \A id \in 1..MaxSends :
    id \in IdsOf(outbound) \union BufferIds
      ~> \/ id \in IdsOf(received) \union evicted \union stranded
         \/ daemon = "down"

(* SIGTERM ends the daemon (edge/main.py:45-47).                           *)
ShutdownCompletes == sigterm ~> daemon = "down"

=============================================================================
