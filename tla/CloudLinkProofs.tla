-------------------------- MODULE CloudLinkProofs --------------------------
(***************************************************************************)
(* Theorems about CloudLink, for every capacity, page size, bound and      *)
(* backend: type correctness, the flush/connected invariant, and delivery  *)
(* in order and at most once.                                              *)
(***************************************************************************)
EXTENDS CloudLink, SequenceTheorems, TLAPS

-----------------------------------------------------------------------------
(* Operators on rows                                                       *)

(* FramesOf maps a sequence of rows to the sequence of their frames.       *)
LEMMA FramesOfType ==
  ASSUME NEW rows \in Seq(Rows)
  PROVE  /\ FramesOf(rows) \in Seq(Frames)
         /\ Len(FramesOf(rows)) = Len(rows)
         /\ DOMAIN FramesOf(rows) = 1..Len(rows)
         /\ \A i \in 1..Len(rows) : FramesOf(rows)[i] = rows[i].frame
<1>1. Len(rows) \in Nat /\ \A i \in 1..Len(rows) : rows[i] \in Rows
  OBVIOUS
<1>2. FramesOf(rows) \in [1..Len(rows) -> Frames]
  BY <1>1 DEF FramesOf, Rows
<1>3. FramesOf(rows) \in Seq(Frames)
  BY <1>1, <1>2, SeqDef
<1>4. QED BY <1>1, <1>2, <1>3 DEF FramesOf

(* Insert keeps a sequence of rows, and its last row is the new one; the   *)
(* rows before it are rows of the old buffer in the same order.            *)
LEMMA InsertType ==
  ASSUME NEW rows \in Seq(Rows), NEW row \in Rows
  PROVE  /\ Excess(rows) \in 0..Len(rows)
         /\ Insert(rows, row) \in Seq(Rows)
         /\ Len(Insert(rows, row)) = Len(rows) + 1 - Excess(rows)
         /\ \A i \in 1..Len(Insert(rows, row)) :
              Insert(rows, row)[i] = IF i + Excess(rows) = Len(rows) + 1
                                     THEN row ELSE rows[i + Excess(rows)]
<1> DEFINE e == Excess(rows)
           a == Append(rows, row)
<1>1. e \in 0..Len(rows)
  BY LinkAssumption DEF Excess
<1>2. /\ a \in Seq(Rows) /\ Len(a) = Len(rows) + 1
      /\ \A i \in 1..Len(a) : a[i] = IF i = Len(rows) + 1 THEN row ELSE rows[i]
  OBVIOUS
<1>3. \A i \in (e + 1)..(Len(rows) + 1) : a[i] \in Rows
  BY <1>1, <1>2
<1> HIDE DEF a, e
<1>4. /\ SubSeq(a, e + 1, Len(rows) + 1) \in Seq(Rows)
      /\ Len(SubSeq(a, e + 1, Len(rows) + 1)) = Len(rows) + 1 - e
      /\ \A i \in 1..(Len(rows) + 1 - e) :
           SubSeq(a, e + 1, Len(rows) + 1)[i] = a[e + i]
  <2>1. Len(rows) \in Nat
    OBVIOUS
  <2>2. /\ SubSeq(a, e + 1, Len(rows) + 1) \in Seq(Rows)
        /\ Len(SubSeq(a, e + 1, Len(rows) + 1)) =
             IF e + 1 <= Len(rows) + 1 THEN Len(rows) + 1 - (e + 1) + 1 ELSE 0
        /\ \A i \in 1..(Len(rows) + 1 - (e + 1) + 1) :
             SubSeq(a, e + 1, Len(rows) + 1)[i] = a[e + 1 + i - 1]
    BY <1>1, <1>3, <2>1, SubSeqProperties
  <2>3. ASSUME NEW i \in 1..(Len(rows) + 1 - e)
        PROVE  SubSeq(a, e + 1, Len(rows) + 1)[i] = a[e + i]
    <3>1. e + 1 + i - 1 = e + i /\ i \in 1..(Len(rows) + 1 - (e + 1) + 1)
      BY <1>1, <2>1
    <3>2. QED BY <2>2, <3>1
  <2>4. Len(SubSeq(a, e + 1, Len(rows) + 1)) = Len(rows) + 1 - e
    BY <1>1, <2>1, <2>2
  <2>5. QED BY <2>2, <2>3, <2>4
<1>5. Insert(rows, row) = SubSeq(a, e + 1, Len(rows) + 1)
  BY DEF Insert, a, e
<1>6. ASSUME NEW i \in 1..(Len(rows) + 1 - e)
      PROVE  a[e + i] = IF i + e = Len(rows) + 1 THEN row ELSE rows[i + e]
  BY <1>1, <1>2
<1>7. QED
  <2> USE <1>1, <1>4, <1>5, <1>6 DEF e
  <2>1. Len(Insert(rows, row)) = Len(rows) + 1 - e
    OBVIOUS
  <2>2. QED BY <2>1

(* Deleting through the k-th row of an ordered buffer drops k rows.        *)
LEMMA AfterFlushingIsSuffix ==
  ASSUME NEW rows \in Seq(Rows), RowsOrdered(rows), NEW k \in 0..Len(rows)
  PROVE  AfterFlushing(rows, k) = SubSeq(rows, k + 1, Len(rows))
<1>1. CASE k = 0
  BY <1>1, SubSeqFull DEF AfterFlushing
<1>2. CASE k # 0
  <2> DEFINE P(n) == \A i \in 1..Len(rows) : rows[i].seq <= rows[k].seq <=> i <= n
             m == CHOOSE n \in 0..Len(rows) : P(n)
  <2>1. \A i \in 1..Len(rows) : rows[i].seq \in Nat
    <3>1. \A i \in 1..Len(rows) : rows[i] \in Rows
      OBVIOUS
    <3>2. QED BY <3>1 DEF Rows
  <2>2. P(k)
    BY <1>2, <2>1 DEF RowsOrdered
  <2>3. m \in 0..Len(rows) /\ P(m)
    BY <2>2
  <2>4. m = k
    <3> HIDE DEF m
    <3> QED BY <1>2, <2>2, <2>3
  <2>5. QED BY <1>2, <2>4 DEF AfterFlushing, DeleteThrough
<1>3. QED BY <1>1, <1>2

(* The suffix of a sequence of rows is a sequence of rows.                 *)
LEMMA SuffixType ==
  ASSUME NEW S, NEW s \in Seq(S), NEW k \in 0..Len(s)
  PROVE  /\ SubSeq(s, k + 1, Len(s)) \in Seq(S)
         /\ Len(SubSeq(s, k + 1, Len(s))) = Len(s) - k
         /\ \A i \in 1..(Len(s) - k) : SubSeq(s, k + 1, Len(s))[i] = s[k + i]
         /\ SubSeq(s, 1, k) \in Seq(S)
         /\ Len(SubSeq(s, 1, k)) = k
         /\ \A i \in 1..k : SubSeq(s, 1, k)[i] = s[i]
<1>1. Len(s) \in Nat /\ \A i \in 1..Len(s) : s[i] \in S
  OBVIOUS
<1>2. /\ SubSeq(s, k + 1, Len(s)) \in Seq(S)
      /\ Len(SubSeq(s, k + 1, Len(s))) =
           IF k + 1 <= Len(s) THEN Len(s) - (k + 1) + 1 ELSE 0
      /\ \A i \in 1..(Len(s) - (k + 1) + 1) :
           SubSeq(s, k + 1, Len(s))[i] = s[k + 1 + i - 1]
  BY <1>1, SubSeqProperties
<1>3. /\ SubSeq(s, 1, k) \in Seq(S)
      /\ Len(SubSeq(s, 1, k)) = IF 1 <= k THEN k - 1 + 1 ELSE 0
      /\ \A i \in 1..(k - 1 + 1) : SubSeq(s, 1, k)[i] = s[1 + i - 1]
  BY <1>1, SubSeqProperties
<1>4. QED BY <1>1, <1>2, <1>3

-----------------------------------------------------------------------------
(* The inductive invariant                                                 *)

(* The initial state satisfies the invariant.                              *)
LEMMA InitLinkInv == Init => LinkInv
<1> SUFFICES ASSUME Init PROVE LinkInv
  OBVIOUS
<1>1. TypeOK
  <2>1. FlagType
    BY DEF Init, FlagType
  <2>2. LoopType
    BY LinkAssumption DEF Init, LoopType
  <2>3. DataType
    BY DEF Init, DataType
  <2>4. QED BY <2>1, <2>2, <2>3 DEF Init, TypeOK, HistType
<1>2. LoopInv /\ FlushedWhileConnected
  BY DEF Init, LoopInv, FlushedWhileConnected
<1>3. RowInv /\ AckNeverStored
  BY DEF Init, RowInv, RowsOrdered, AckNeverStored
<1>4. PipelineInv
  <2>1. Len(FramesOf(buffer)) = 0
    BY FramesOfType, <1>1 DEF Init, TypeOK, DataType
  <2>2. QED BY <2>1 DEF Init, PipelineInv, Increasing, Before, Below
<1>5. QED BY <1>1, <1>2, <1>3, <1>4 DEF LinkInv

(* Steps that leave queue, buffer and history alone only have to keep the  *)
(* flags, the loop's types and the loop's own invariant.                   *)
LEMMA DataUnchanged ==
  ASSUME LinkInv, UNCHANGED <<dataVars, histVars>>,
         connected' => connected,
         FlagType', LoopType', LoopInv'
  PROVE  LinkInv'
<1>1. TypeOK'
  BY DEF LinkInv, TypeOK, DataType, HistType, dataVars, histVars
<1>2. QED
  BY <1>1 DEF LinkInv, FlushedWhileConnected, RowInv, RowsOrdered,
              AckNeverStored, PipelineInv, Increasing, Before, Below, FramesOf,
              dataVars, histVars

(* The steps of the process and of the connect task that move no frame.    *)
LEMMA QuietSteps ==
  ASSUME LinkInv,
         \/ Launch \/ StartReturns \/ Signal \/ BeginShutdown \/ StopLink
         \/ StreamRefused \/ Dispatch \/ CallbackReturns \/ ChannelClosed
         \/ BackoffElapsed \/ CloudSends \/ StreamOver("ended")
         \/ StreamOver("broken")
  PROVE  LinkInv'
<1>1. UNCHANGED <<dataVars, histVars>>
  BY DEF Launch, StartReturns, Signal, BeginShutdown, StopLink, StreamRefused,
         Dispatch, CallbackReturns, ChannelClosed, BackoffElapsed, CloudSends,
         StreamOver
<1>2. UNCHANGED connected
  BY DEF Launch, StartReturns, Signal, BeginShutdown, StopLink, StreamRefused,
         Dispatch, CallbackReturns, ChannelClosed, BackoffElapsed, CloudSends,
         StreamOver, loopVars
<1>3. FlagType'
  <2> USE DEF LinkInv, TypeOK, FlagType
  <2>1. CASE Launch BY <2>1 DEF Launch
  <2>2. CASE StartReturns \/ BeginShutdown \/ StopLink
    BY <2>2 DEF StartReturns, BeginShutdown, StopLink, loopVars
  <2>3. CASE Signal BY <2>3 DEF Signal, loopVars
  <2>4. CASE StreamRefused \/ Dispatch \/ CallbackReturns \/ ChannelClosed
               \/ BackoffElapsed \/ CloudSends
    BY <2>4 DEF StreamRefused, Dispatch, CallbackReturns, ChannelClosed,
                BackoffElapsed, CloudSends, procVars
  <2>5. CASE StreamOver("ended") \/ StreamOver("broken")
    BY <2>5 DEF StreamOver, procVars
  <2>6. QED BY <2>1, <2>2, <2>3, <2>4, <2>5
<1>4. LoopType'
  <2> USE LinkAssumption DEF LinkInv, TypeOK, LoopType
  <2>1. CASE Launch BY <2>1 DEF Launch
  <2>2. CASE StartReturns \/ BeginShutdown \/ StopLink \/ Signal
    BY <2>2 DEF StartReturns, BeginShutdown, StopLink, Signal, loopVars
  <2>3. CASE StreamRefused \/ CallbackReturns \/ ChannelClosed
    BY <2>3 DEF StreamRefused, CallbackReturns, ChannelClosed, procVars
  <2>4. CASE Dispatch \/ CloudSends
    BY <2>4 DEF Dispatch, CloudSends, procVars
  <2>5. CASE BackoffElapsed
    BY <2>5 DEF BackoffElapsed, procVars
  <2>6. CASE StreamOver("ended") \/ StreamOver("broken")
    BY <2>6 DEF StreamOver, procVars
  <2>7. QED BY <2>1, <2>2, <2>3, <2>4, <2>5, <2>6
<1>5. LoopInv'
  <2> USE <1>2 DEF LinkInv, LoopInv, dataVars
  <2>1. CASE Launch BY <2>1 DEF Launch
  <2>2. CASE StartReturns \/ BeginShutdown \/ StopLink \/ Signal
    BY <2>2 DEF StartReturns, BeginShutdown, StopLink, Signal, loopVars
  <2>3. CASE StreamRefused \/ CallbackReturns \/ ChannelClosed
    BY <2>3 DEF StreamRefused, CallbackReturns, ChannelClosed, procVars
  <2>4. CASE Dispatch \/ CloudSends
    BY <2>4 DEF Dispatch, CloudSends, procVars
  <2>5. CASE BackoffElapsed
    BY <2>5 DEF BackoffElapsed, procVars
  <2>6. CASE StreamOver("ended") \/ StreamOver("broken")
    BY <2>6 DEF StreamOver, procVars
  <2>7. QED BY <2>1, <2>2, <2>3, <2>4, <2>5, <2>6
<1>6. QED BY <1>1, <1>2, <1>3, <1>4, <1>5, DataUnchanged

(* Frame numbers are natural numbers.                                      *)
LEMMA IdsAreNat ==
  ASSUME NEW frames \in Seq(Frames)
  PROVE  IdsOf(frames) \subseteq Nat
<1>1. \A i \in DOMAIN frames : frames[i] \in Frames
  OBVIOUS
<1>2. QED BY <1>1 DEF IdsOf, Frames

(* Frame numbers of the streams a failed flush left running are natural    *)
(* numbers.                                                                *)
LEMMA OrphanIdsAreNat == DataType => OrphanIds \subseteq Nat
<1> SUFFICES ASSUME DataType PROVE OrphanIds \subseteq Nat
  OBVIOUS
<1>1. \A i \in DOMAIN orphans : orphans[i] \in Seq(Frames)
  BY DEF DataType
<1>2. QED BY <1>1, IdsAreNat DEF OrphanIds

(* Ends of a stream or of the process: the queue is emptied, the buffer    *)
(* stays or (in-memory, process gone) is emptied too.                      *)
LEMMA QueueDropped ==
  ASSUME LinkInv, outbound' = <<>>, orphans' \in {orphans, <<>>},
         buffer' \in {buffer, <<>>}, connected' = FALSE,
         UNCHANGED <<nextSeq, faults, nextId, received, evicted, refused>>,
         FlagType', LoopType', LoopInv', stranded' \subseteq Nat
  PROVE  LinkInv'
<1>1. DataType' /\ HistType'
  <2>0. DataType
    BY DEF LinkInv, TypeOK
  <2>1. buffer' \in Seq(Rows)
    BY <2>0, EmptySeq DEF DataType
  <2>2. orphans' \in Seq(Seq(Frames))
    BY <2>0, EmptySeq DEF DataType
  <2>3. outbound' \in Seq(Frames)
    BY <2>0, EmptySeq DEF DataType
  <2>4. QED BY <2>1, <2>2, <2>3 DEF LinkInv, TypeOK, DataType, HistType
<1>2. FlushedWhileConnected'
  BY DEF FlushedWhileConnected
<1>3. RowInv' /\ AckNeverStored'
  BY DEF LinkInv, RowInv, RowsOrdered, AckNeverStored
<1>4. ASSUME faults' = 0 PROVE PipelineInv'
  <2>1. PipelineInv
    BY <1>4 DEF LinkInv
  <2>2. CASE buffer' = buffer
    <3>1. FramesOf(buffer)' = FramesOf(buffer)
      BY <2>2 DEF FramesOf
    <3>2. orphans' = <<>> /\ Len(outbound') = 0
      BY <2>1 DEF PipelineInv
    <3>3. QED
      BY <2>1, <3>1, <3>2 DEF PipelineInv, Increasing, Before, Below
  <2>3. CASE buffer' = <<>>
    <3>1. Len(FramesOf(buffer)') = 0
      BY <1>1, <2>3, FramesOfType DEF DataType, FramesOf
    <3>2. QED BY <2>1, <3>1 DEF PipelineInv, Increasing, Before, Below
  <2>4. QED BY <2>2, <2>3
<1>5. QED BY <1>1, <1>2, <1>3, <1>4 DEF LinkInv, TypeOK

(* The steps that abandon a queue (a cancelled or finished stream, the     *)
(* end of the process) keep the invariant.                                 *)
LEMMA DroppingSteps ==
  ASSUME LinkInv, CancelLands \/ EndNoticed \/ LinkStopped \/ Crash
  PROVE  LinkInv'
<1>0. /\ IdsOf(outbound) \subseteq Nat /\ OrphanIds \subseteq Nat
      /\ IdsOf(FramesOf(buffer)) \subseteq Nat
  BY IdsAreNat, OrphanIdsAreNat, FramesOfType DEF LinkInv, TypeOK, DataType
<1>1. CASE CancelLands
  <2>1. FlagType' BY <1>1 DEF CancelLands, LinkInv, TypeOK, FlagType, procVars
  <2>2. LoopType' BY <1>1 DEF CancelLands, LinkInv, TypeOK, LoopType, procVars
  <2>3. LoopInv' BY <1>1 DEF CancelLands, LinkInv, LoopInv, procVars
  <2>4. stranded' \subseteq Nat
    BY <1>0, <1>1 DEF CancelLands, LinkInv, TypeOK, HistType
  <2>5. QED BY <1>1, <2>1, <2>2, <2>3, <2>4, QueueDropped DEF CancelLands
<1>2. CASE EndNoticed
  <2>1. FlagType' BY <1>2 DEF EndNoticed, LinkInv, TypeOK, FlagType, procVars
  <2>2. LoopType' BY <1>2 DEF EndNoticed, LinkInv, TypeOK, LoopType, procVars
  <2>3. LoopInv' BY <1>2 DEF EndNoticed, LinkInv, LoopInv, procVars
  <2>4. stranded' \subseteq Nat
    BY <1>0, <1>2 DEF EndNoticed, LinkInv, TypeOK, HistType
  <2>5. QED BY <1>2, <2>1, <2>2, <2>3, <2>4, QueueDropped DEF EndNoticed
<1>3. CASE ProcessGone
  <2>1. FlagType' BY <1>3 DEF ProcessGone, FlagType
  <2>2. LoopType' BY <1>3 DEF ProcessGone, LinkInv, TypeOK, LoopType
  <2>3. LoopInv' BY <1>3 DEF ProcessGone, LoopInv
  <2>4. stranded' \subseteq Nat
    BY <1>0, <1>3 DEF ProcessGone, LinkInv, TypeOK, HistType
  <2>5. buffer' \in {buffer, <<>>}
    BY <1>3 DEF ProcessGone
  <2>6. QED BY <1>3, <2>1, <2>2, <2>3, <2>4, <2>5, QueueDropped DEF ProcessGone
<1>4. QED BY <1>1, <1>2, <1>3 DEF LinkStopped, Crash

(* The flush: the buffer, in order, becomes the queue of the new stream.   *)
LEMMA FlushStep ==
  ASSUME LinkInv, StreamAccepted
  PROVE  LinkInv'
<1>1. outbound = <<>> /\ ~connected
  BY DEF LinkInv, LoopInv, StreamAccepted
<1>2. outbound \o FramesOf(buffer) = FramesOf(buffer)
  BY <1>1, FramesOfType, ConcatEmptySeq DEF LinkInv, TypeOK, DataType
<1>3. buffer' = <<>>
  <2>1. Len(buffer) \in 0..Len(buffer)
    BY DEF LinkInv, TypeOK, DataType
  <2>2. buffer' = SubSeq(buffer, Len(buffer) + 1, Len(buffer))
    BY <2>1, AfterFlushingIsSuffix DEF LinkInv, RowInv, TypeOK, DataType,
                                       StreamAccepted
  <2>3. QED BY <2>1, <2>2, SubSeqEmpty
<1>4. FlagType' BY DEF LinkInv, TypeOK, FlagType, StreamAccepted, procVars
<1>5. LoopType' BY DEF LinkInv, TypeOK, LoopType, StreamAccepted, procVars
<1>6. DataType'
  BY <1>2, <1>3, FramesOfType DEF LinkInv, TypeOK, DataType, StreamAccepted, histVars
<1>7. HistType'
  BY DEF LinkInv, TypeOK, HistType, StreamAccepted, histVars
<1>8. LoopInv' /\ FlushedWhileConnected'
  BY <1>3 DEF LinkInv, LoopInv, FlushedWhileConnected, StreamAccepted, procVars
<1>9. RowInv' /\ AckNeverStored'
  BY <1>3 DEF RowInv, RowsOrdered, AckNeverStored
<1>10. ASSUME faults' = 0 PROVE PipelineInv'
  <2>1. PipelineInv
    BY <1>10 DEF LinkInv, StreamAccepted
  <2>2. outbound' = FramesOf(buffer)
    BY <1>2 DEF StreamAccepted
  <2>3. Len(FramesOf(buffer)') = 0
    BY <1>3, <1>6, FramesOfType DEF DataType, FramesOf
  <2>4. QED
    BY <2>1, <2>2, <2>3 DEF PipelineInv, Increasing, Before, Below,
                            StreamAccepted, histVars
<1>11. QED BY <1>4, <1>5, <1>6, <1>7, <1>8, <1>9, <1>10 DEF LinkInv, TypeOK

(* A flush that SQLite interrupts: a prefix of the rows goes to a stream   *)
(* nobody owns any more, the rest stays in order.                          *)
LEMMA FlushFailsStep ==
  ASSUME LinkInv, NEW k \in 0..Len(buffer), NEW d \in 0..Len(buffer),
         FlushFails(k, d)
  PROVE  LinkInv'
<1>1. buffer \in Seq(Rows) /\ RowsOrdered(buffer) /\ Len(buffer) \in Nat
  BY DEF LinkInv, TypeOK, DataType, RowInv
<1>2. buffer' = SubSeq(buffer, d + 1, Len(buffer))
  BY <1>1, AfterFlushingIsSuffix DEF FlushFails
<1>3. /\ buffer' \in Seq(Rows) /\ Len(buffer') = Len(buffer) - d
      /\ \A i \in 1..Len(buffer') : buffer'[i] = buffer[d + i]
  BY <1>1, <1>2, SuffixType
<1>4. orphans' \in Seq(Seq(Frames))
  <2>1. SubSeq(buffer, 1, k) \in Seq(Rows)
    BY <1>1, SuffixType
  <2>2. FramesOf(SubSeq(buffer, 1, k)) \in Seq(Frames)
    BY <2>1, FramesOfType
  <2>3. orphans \in Seq(Seq(Frames))
    BY DEF LinkInv, TypeOK, DataType
  <2>4. QED BY <2>2, <2>3 DEF FlushFails
<1>5. FlagType'
  BY DEF LinkInv, TypeOK, FlagType, FlushFails, procVars
<1>6. LoopType'
  BY DEF LinkInv, TypeOK, LoopType, FlushFails, procVars
<1>7. DataType'
  BY <1>3, <1>4 DEF LinkInv, TypeOK, DataType, FlushFails, histVars
<1>8. HistType'
  BY DEF LinkInv, TypeOK, HistType, FlushFails, histVars
<1>9. LoopInv' /\ FlushedWhileConnected'
  BY DEF LinkInv, LoopInv, FlushedWhileConnected, FlushFails, procVars
<1>10. RowInv' /\ AckNeverStored'
  <2>1. \A i \in 1..Len(buffer') : d + i \in 1..Len(buffer)
    BY <1>1, <1>3
  <2>2. \A i, j \in 1..Len(buffer') : i < j => d + i < d + j
    BY <1>1, <1>3
  <2>3. QED
    BY <1>3, <2>1, <2>2 DEF LinkInv, RowInv, RowsOrdered, AckNeverStored, FlushFails
<1>11. faults' # 0
  BY DEF LinkInv, TypeOK, DataType, FlushFails
<1>12. QED
  BY <1>5, <1>6, <1>7, <1>8, <1>9, <1>10, <1>11 DEF LinkInv, TypeOK

(* The head of the queue arrives: it follows everything delivered before   *)
(* and precedes everything still queued.                                   *)
LEMMA TransmitStep ==
  ASSUME LinkInv, Transmit
  PROVE  LinkInv'
<1>1. /\ outbound \in Seq(Frames) /\ outbound # <<>> /\ received \in Seq(Frames)
      /\ connected /\ buffer = <<>>
  BY DEF LinkInv, TypeOK, DataType, LoopInv, FlushedWhileConnected, Transmit
<1>2. /\ outbound' \in Seq(Frames) /\ Len(outbound') = Len(outbound) - 1
      /\ Len(outbound) \in Nat \ {0}
      /\ \A i \in 1..Len(outbound') : outbound'[i] = outbound[i + 1]
  BY <1>1, HeadTailProperties, EmptySeq DEF Transmit
<1>3. /\ received' \in Seq(Frames) /\ Len(received') = Len(received) + 1
      /\ Len(received) \in Nat
      /\ \A i \in 1..Len(received') :
           received'[i] = IF i = Len(received') THEN outbound[1] ELSE received[i]
  BY <1>1 DEF Transmit
<1>4. FlagType' /\ LoopType'
  BY DEF LinkInv, TypeOK, FlagType, LoopType, Transmit, procVars, loopVars
<1>5. DataType'
  BY <1>2, <1>3 DEF LinkInv, TypeOK, DataType, Transmit
<1>6. HistType'
  BY DEF LinkInv, TypeOK, HistType, Transmit
<1>7. LoopInv' /\ FlushedWhileConnected'
  BY <1>1 DEF LinkInv, LoopInv, FlushedWhileConnected, Transmit, procVars, loopVars
<1>8. RowInv' /\ AckNeverStored'
  BY DEF LinkInv, RowInv, RowsOrdered, AckNeverStored, Transmit
<1>9. ASSUME faults' = 0 PROVE PipelineInv'
  <2>1. PipelineInv
    BY <1>9 DEF LinkInv, Transmit
  <2>2. Increasing(outbound')
    <3> SUFFICES ASSUME NEW i \in 1..Len(outbound'), NEW j \in 1..Len(outbound'),
                        i < j
                 PROVE  outbound'[i].id < outbound'[j].id
      BY DEF Increasing
    <3>1. i + 1 \in 1..Len(outbound) /\ j + 1 \in 1..Len(outbound) /\ i + 1 < j + 1
      BY <1>2
    <3>2. QED BY <1>2, <2>1, <3>1 DEF PipelineInv, Increasing
  <2>3. Increasing(received')
    <3>0. 1 \in 1..Len(outbound)
      BY <1>2
    <3> SUFFICES ASSUME NEW i \in 1..Len(received'), NEW j \in 1..Len(received'),
                        i < j
                 PROVE  received'[i].id < received'[j].id
      BY DEF Increasing
    <3>1. i \in 1..Len(received) /\ received'[i] = received[i]
      BY <1>3
    <3>2. CASE j = Len(received')
      BY <1>3, <2>1, <3>0, <3>1, <3>2 DEF PipelineInv, Before
    <3>3. CASE j # Len(received')
      <4>1. j \in 1..Len(received) /\ received'[j] = received[j]
        BY <1>3, <3>3
      <4>2. QED BY <2>1, <3>1, <4>1 DEF PipelineInv, Increasing
    <3>4. QED BY <3>2, <3>3
  <2>4. Before(received', outbound')
    <3>0. 1 \in 1..Len(outbound)
      BY <1>2
    <3> SUFFICES ASSUME NEW i \in 1..Len(received'), NEW j \in 1..Len(outbound')
                 PROVE  received'[i].id < outbound'[j].id
      BY DEF Before
    <3>1. j + 1 \in 1..Len(outbound) /\ outbound'[j] = outbound[j + 1] /\ 1 < j + 1
      BY <1>2
    <3>2. CASE i = Len(received')
      BY <1>3, <2>1, <3>0, <3>1, <3>2 DEF PipelineInv, Increasing
    <3>3. CASE i # Len(received')
      <4>1. i \in 1..Len(received) /\ received'[i] = received[i]
        BY <1>3, <3>3
      <4>2. QED BY <2>1, <3>1, <4>1 DEF PipelineInv, Before
    <3>4. QED BY <3>2, <3>3
  <2>5. Below(received', nextId') /\ Below(outbound', nextId')
    <3>1. 1 \in 1..Len(outbound)
      BY <1>2
    <3>2. \A i \in 1..Len(outbound') : i + 1 \in 1..Len(outbound)
      BY <1>2
    <3>3. \A i \in 1..Len(received') :
            i # Len(received') => i \in 1..Len(received)
      BY <1>3
    <3>4. QED
      BY <1>2, <1>3, <2>1, <3>1, <3>2, <3>3 DEF PipelineInv, Below, Transmit
  <2>6. Len(FramesOf(buffer)) = 0 /\ FramesOf(buffer)' = FramesOf(buffer)
    <3>1. buffer' = buffer /\ buffer \in Seq(Rows) /\ Len(buffer) = 0
      BY <1>1 DEF Transmit, LinkInv, TypeOK, DataType
    <3>2. QED BY <3>1, FramesOfType DEF FramesOf
  <2>7. QED
    BY <2>1, <2>2, <2>3, <2>4, <2>5, <2>6
    DEF PipelineInv, Transmit, Increasing, Before, Below
<1>10. QED BY <1>4, <1>5, <1>6, <1>7, <1>8, <1>9 DEF LinkInv, TypeOK

(* Steps of a stream left behind by a failed flush: SQLite has failed, so  *)
(* only types are at stake.                                                *)
LEMMA OrphanSteps ==
  ASSUME LinkInv, NEW i \in DOMAIN orphans, OrphanTransmit(i) \/ OrphanDies(i)
  PROVE  LinkInv'
<1>1. orphans \in Seq(Seq(Frames)) /\ orphans[i] \in Seq(Frames) /\ orphans # <<>>
  BY DEF LinkInv, TypeOK, DataType
<1>2. faults # 0
  BY <1>1 DEF LinkInv, PipelineInv
<1>3. orphans' \in Seq(Seq(Frames)) /\ received' \in Seq(Frames)
  <2>1. CASE OrphanTransmit(i)
    <3>1. orphans[i] # <<>>
      BY <2>1 DEF OrphanTransmit
    <3>2. Tail(orphans[i]) \in Seq(Frames) /\ Head(orphans[i]) \in Frames
      BY <1>1, <3>1, HeadTailProperties
    <3>3. QED
      BY <1>1, <2>1, <3>2 DEF OrphanTransmit, LinkInv, TypeOK, DataType
  <2>2. CASE OrphanDies(i)
    BY <1>1, <2>2 DEF OrphanDies, LinkInv, TypeOK, DataType
  <2>3. QED BY <2>1, <2>2
<1>4. FlagType' /\ LoopType'
  BY DEF LinkInv, TypeOK, FlagType, LoopType, OrphanTransmit, OrphanDies,
         procVars, loopVars
<1>5. DataType'
  BY <1>3 DEF LinkInv, TypeOK, DataType, OrphanTransmit, OrphanDies
<1>6. HistType'
  BY <1>1, IdsAreNat DEF LinkInv, TypeOK, HistType, OrphanTransmit, OrphanDies
<1>7. LoopInv' /\ FlushedWhileConnected'
  BY DEF LinkInv, LoopInv, FlushedWhileConnected, OrphanTransmit, OrphanDies,
         procVars, loopVars
<1>8. RowInv' /\ AckNeverStored' /\ faults' # 0
  BY <1>2 DEF LinkInv, RowInv, RowsOrdered, AckNeverStored, OrphanTransmit,
              OrphanDies
<1>9. QED BY <1>4, <1>5, <1>6, <1>7, <1>8 DEF LinkInv, TypeOK

(* The new frame carries the highest number so far.                        *)
LEMMA SendQueuedStep ==
  ASSUME LinkInv, NEW kind \in Producers, SendQueued(kind)
  PROVE  LinkInv'
<1> DEFINE f == [id |-> nextId, kind |-> kind]
<1>1. /\ f \in Frames /\ f.id = nextId /\ nextId \in Nat \ {0}
      /\ outbound \in Seq(Frames) /\ received \in Seq(Frames)
  BY LinkAssumption DEF LinkInv, TypeOK, DataType, Frames
<1>2. connected /\ buffer = <<>>
  BY DEF LinkInv, FlushedWhileConnected, SendQueued
<1> HIDE DEF f
<1>3. outbound' = outbound \/ outbound' = Append(outbound, f)
  BY DEF SendQueued, f
<1>4. outbound' \in Seq(Frames)
  BY <1>1, <1>3
<1>5. FlagType' /\ LoopType'
  BY DEF LinkInv, TypeOK, FlagType, LoopType, SendQueued, NewFrame, procVars,
         loopVars
<1>6. DataType'
  BY <1>1, <1>4 DEF LinkInv, TypeOK, DataType, SendQueued, NewFrame
<1>7. HistType'
  BY <1>1 DEF LinkInv, TypeOK, HistType, SendQueued, NewFrame
<1>8. LoopInv' /\ FlushedWhileConnected'
  BY <1>2 DEF LinkInv, LoopInv, FlushedWhileConnected, SendQueued, NewFrame,
              procVars, loopVars
<1>9. RowInv' /\ AckNeverStored'
  BY DEF LinkInv, RowInv, RowsOrdered, AckNeverStored, SendQueued
<1>10. ASSUME faults' = 0 PROVE PipelineInv'
  <2>1. PipelineInv
    BY <1>10 DEF LinkInv, SendQueued, NewFrame
  <2>2. nextId' = nextId + 1 /\ received' = received /\ orphans' = orphans
    BY DEF SendQueued, NewFrame
  <2>3. FramesOf(buffer)' = FramesOf(buffer) /\ Len(FramesOf(buffer)) = 0
    <3>1. buffer' = buffer /\ buffer \in Seq(Rows) /\ Len(buffer) = 0
      BY <1>2 DEF SendQueued, LinkInv, TypeOK, DataType
    <3>2. QED BY <3>1, FramesOfType DEF FramesOf
  <2>4. /\ \A i \in 1..Len(outbound) : outbound[i].id \in Nat
        /\ \A i \in 1..Len(received) : received[i].id \in Nat
    <3>1. /\ \A i \in 1..Len(outbound) : outbound[i] \in Frames
          /\ \A i \in 1..Len(received) : received[i] \in Frames
      BY <1>1
    <3>2. QED BY <3>1 DEF Frames
  <2>5. Increasing(outbound') /\ Before(received, outbound')
          /\ Below(outbound', nextId')
    <3>1. CASE outbound' = outbound
      BY <1>1, <2>1, <2>2, <2>4, <3>1 DEF PipelineInv, Increasing, Before, Below
    <3>2. CASE outbound' = Append(outbound, f)
      <4>1. /\ Len(outbound') = Len(outbound) + 1 /\ Len(outbound) \in Nat
            /\ \A i \in 1..Len(outbound') :
                 /\ i # Len(outbound') =>
                      i \in 1..Len(outbound) /\ outbound'[i] = outbound[i]
                 /\ i = Len(outbound') => outbound'[i] = f
        BY <1>1, <3>2
      <4>2. Increasing(outbound')
        BY <1>1, <2>1, <4>1 DEF PipelineInv, Increasing, Below
      <4>3. Before(received, outbound')
        BY <1>1, <2>1, <4>1 DEF PipelineInv, Before, Below
      <4>4. Below(outbound', nextId')
        BY <1>1, <2>1, <2>2, <2>4, <4>1 DEF PipelineInv, Below
      <4>5. QED BY <4>2, <4>3, <4>4
    <3>3. QED BY <1>3, <3>1, <3>2
  <2>6. Below(received, nextId')
    BY <1>1, <2>1, <2>2, <2>4 DEF PipelineInv, Below
  <2>7. QED
    BY <2>1, <2>2, <2>3, <2>5, <2>6 DEF PipelineInv, Increasing, Before, Below
<1>11. QED BY <1>5, <1>6, <1>7, <1>8, <1>9, <1>10 DEF LinkInv, TypeOK

(* A buffer that loses old rows and gains the new frame at its end stays   *)
(* ordered by row number and by frame number.                              *)
LEMMA BufferGrows ==
  ASSUME LinkInv, ~connected, NEW kind \in Kinds \ {"dial_ack"},
         NEW e \in 0..Len(buffer),
         NEW row, row = [seq |-> nextSeq, frame |-> [id |-> nextId, kind |-> kind]],
         buffer' \in Seq(Rows),
         Len(buffer') = Len(buffer) + 1 - e,
         \A i \in 1..Len(buffer') :
           buffer'[i] = IF i + e = Len(buffer) + 1 THEN row ELSE buffer[i + e],
         nextSeq' = nextSeq + 1, nextId' = nextId + 1,
         UNCHANGED <<outbound, orphans, received>>
  PROVE  /\ RowInv' /\ AckNeverStored'
         /\ PipelineInv => PipelineInv'
<1>1. /\ row.seq = nextSeq /\ row.frame.id = nextId /\ row.frame.kind = kind
      /\ nextSeq \in Nat /\ nextId \in Nat \ {0} /\ Len(buffer) \in Nat
      /\ buffer \in Seq(Rows) /\ received \in Seq(Frames) /\ outbound = <<>>
  BY DEF LinkInv, TypeOK, DataType, LoopInv
<1>2. \A i \in 1..Len(buffer) : buffer[i].seq \in Nat /\ buffer[i].frame.id \in Nat
  <2>1. \A i \in 1..Len(buffer) : buffer[i] \in Rows
    BY <1>1
  <2>2. QED BY <2>1 DEF Rows, Frames
<1>3. \A i \in 1..Len(received) : received[i].id \in Nat
  <2>1. \A i \in 1..Len(received) : received[i] \in Frames
    BY <1>1
  <2>2. QED BY <2>1 DEF Frames
<1>4. \A i \in 1..Len(buffer') :
        \/ i + e = Len(buffer) + 1 /\ i = Len(buffer') /\ buffer'[i] = row
        \/ i + e \in 1..Len(buffer) /\ i # Len(buffer') /\ buffer'[i] = buffer[i + e]
  BY <1>1
<1>5. \A i, j \in 1..Len(buffer') : i < j => i + e < j + e /\ i # Len(buffer')
  BY <1>1
<1>6. RowInv'
  <2>1. RowsOrdered(buffer')
    BY <1>1, <1>2, <1>4, <1>5 DEF LinkInv, RowInv, RowsOrdered
  <2>2. \A i \in 1..Len(buffer') : buffer'[i].seq < nextSeq'
    BY <1>1, <1>2, <1>4 DEF LinkInv, RowInv
  <2>3. QED BY <2>1, <2>2 DEF RowInv, RowsOrdered
<1>7. AckNeverStored'
  BY <1>1, <1>4 DEF LinkInv, AckNeverStored
<1>8. ASSUME PipelineInv PROVE PipelineInv'
  <2>1. /\ Len(FramesOf(buffer)) = Len(buffer)
        /\ \A i \in 1..Len(buffer) : FramesOf(buffer)[i] = buffer[i].frame
    BY <1>1, FramesOfType
  <2>2. /\ Len(FramesOf(buffer')) = Len(buffer')
        /\ \A i \in 1..Len(buffer') : FramesOf(buffer')[i] = buffer'[i].frame
    BY FramesOfType
  <2>3. \A i \in 1..Len(buffer) : buffer[i].frame.id < nextId
    BY <1>8, <2>1 DEF PipelineInv, Below
  <2>4. Increasing(FramesOf(buffer'))
    <3> DEFINE F == FramesOf(buffer')
    <3> SUFFICES ASSUME NEW i \in 1..Len(F), NEW j \in 1..Len(F), i < j
                 PROVE  F[i].id < F[j].id
      BY DEF Increasing
    <3> HIDE DEF F
    <3>0. /\ i \in 1..Len(buffer') /\ j \in 1..Len(buffer')
          /\ F[i] = buffer'[i].frame /\ F[j] = buffer'[j].frame
      BY <2>2 DEF F
    <3> SUFFICES buffer'[i].frame.id < buffer'[j].frame.id
      BY <3>0
    <3>1. i + e \in 1..Len(buffer) /\ buffer'[i] = buffer[i + e] /\ i + e < j + e
      BY <1>4, <1>5, <3>0
    <3>2. CASE buffer'[j] = row
      <4>1. buffer[i + e].frame.id < nextId
        BY <2>3, <3>1
      <4>2. QED BY <1>1, <3>1, <3>2, <4>1
    <3>3. CASE j + e \in 1..Len(buffer) /\ buffer'[j] = buffer[j + e]
      BY <1>8, <2>1, <3>1, <3>3 DEF PipelineInv, Increasing
    <3>4. QED BY <1>4, <3>0, <3>2, <3>3
  <2>5. Before(received, FramesOf(buffer'))
    <3> SUFFICES ASSUME NEW i \in 1..Len(received), NEW j \in 1..Len(buffer')
                 PROVE  received[i].id < buffer'[j].frame.id
      BY <2>2 DEF Before
    <3>1. received[i].id < nextId
      BY <1>8 DEF PipelineInv, Below
    <3>2. CASE buffer'[j] = row
      BY <1>1, <3>1, <3>2
    <3>3. CASE j + e \in 1..Len(buffer) /\ buffer'[j] = buffer[j + e]
      BY <1>8, <2>1, <3>3 DEF PipelineInv, Before
    <3>4. QED BY <1>4, <3>2, <3>3
  <2>6. Below(FramesOf(buffer'), nextId') /\ Below(received, nextId')
    <3>1. Below(received, nextId')
      BY <1>1, <1>3, <1>8 DEF PipelineInv, Below
    <3>2. ASSUME NEW i \in 1..Len(buffer')
          PROVE  buffer'[i].frame.id < nextId + 1
      <4>1. CASE buffer'[i] = row
        BY <1>1, <4>1
      <4>2. CASE i + e \in 1..Len(buffer) /\ buffer'[i] = buffer[i + e]
        <5>1. buffer[i + e].frame.id \in Nat /\ buffer[i + e].frame.id < nextId
          BY <1>2, <2>3, <4>2
        <5>2. QED BY <1>1, <4>2, <5>1
      <4>3. QED BY <1>4, <4>1, <4>2
    <3>3. QED BY <2>2, <3>1, <3>2 DEF Below
  <2>7. Increasing(outbound) /\ Before(received, outbound) /\ Below(outbound, nextId')
    BY <1>1 DEF Increasing, Before, Below
  <2>8. FramesOf(buffer)' = FramesOf(buffer')
    BY DEF FramesOf
  <2>9. QED
    BY <1>8, <2>4, <2>5, <2>6, <2>7, <2>8
    DEF PipelineInv, Increasing, Before, Below
<1>9. QED BY <1>6, <1>7, <1>8

(* send() while disconnected, not critical: the new row closes the buffer, *)
(* the oldest rows make room for it.                                       *)
LEMMA SendBufferedStep ==
  ASSUME LinkInv, NEW kind \in Producers, SendBuffered(kind)
  PROVE  LinkInv'
<1> DEFINE row == [seq |-> nextSeq, frame |-> [id |-> nextId, kind |-> kind]]
<1>1. /\ row \in Rows /\ buffer \in Seq(Rows)
      /\ nextId \in Nat \ {0} /\ nextSeq \in Nat
  BY LinkAssumption DEF LinkInv, TypeOK, DataType, Rows, Frames
<1>2. ~connected /\ kind \in Kinds \ {"dial_ack"}
  BY LinkAssumption DEF LinkInv, LoopInv, SendBuffered, NewFrame, MaySend
<1>3. /\ buffer' = Insert(buffer, row) /\ nextSeq' = nextSeq + 1
      /\ nextId' = nextId + 1 /\ UNCHANGED <<outbound, orphans, received, faults>>
  BY DEF SendBuffered, NewFrame
<1> HIDE DEF row
<1>4. /\ Excess(buffer) \in 0..Len(buffer) /\ buffer' \in Seq(Rows)
      /\ Len(buffer') = Len(buffer) + 1 - Excess(buffer)
      /\ \A i \in 1..Len(buffer') :
           buffer'[i] = IF i + Excess(buffer) = Len(buffer) + 1
                        THEN row ELSE buffer[i + Excess(buffer)]
  BY <1>1, <1>3, InsertType
<1>5. RowInv' /\ AckNeverStored' /\ (PipelineInv => PipelineInv')
  <2>1. row = [seq |-> nextSeq, frame |-> [id |-> nextId, kind |-> kind]]
    BY DEF row
  <2> DEFINE e == Excess(buffer)
  <2>2. /\ e \in 0..Len(buffer) /\ Len(buffer') = Len(buffer) + 1 - e
        /\ \A i \in 1..Len(buffer') :
             buffer'[i] = IF i + e = Len(buffer) + 1 THEN row ELSE buffer[i + e]
    BY <1>4
  <2> HIDE DEF e
  <2>3. /\ UNCHANGED <<outbound, orphans, received>> /\ buffer' \in Seq(Rows)
        /\ nextSeq' = nextSeq + 1 /\ nextId' = nextId + 1
    BY <1>3, <1>4
  <2>4. QED BY <1>2, <2>1, <2>2, <2>3, BufferGrows
<1>6. FlagType' /\ LoopType'
  BY DEF LinkInv, TypeOK, FlagType, LoopType, SendBuffered, NewFrame, procVars,
         loopVars
<1>7. DataType'
  BY <1>1, <1>3, <1>4 DEF LinkInv, TypeOK, DataType
<1>8. HistType'
  <2>1. SubSeq(buffer, 1, Excess(buffer)) \in Seq(Rows)
    BY <1>1, <1>4, SuffixType
  <2>2. EvictedBy(buffer) \subseteq Nat
    BY <2>1, FramesOfType, IdsAreNat DEF EvictedBy
  <2>3. QED BY <2>2 DEF LinkInv, TypeOK, HistType, SendBuffered
<1>9. LoopInv' /\ FlushedWhileConnected'
  BY <1>2 DEF LinkInv, LoopInv, FlushedWhileConnected, SendBuffered, NewFrame,
              procVars, loopVars
<1>10. QED
  BY <1>3, <1>5, <1>6, <1>7, <1>8, <1>9 DEF LinkInv, TypeOK

(* send() while disconnected, critical: only the numbering moves on.       *)
LEMMA SendRefusedStep ==
  ASSUME LinkInv, NEW kind \in Producers, SendRefused(kind)
  PROVE  LinkInv'
<1>1. /\ [id |-> nextId, kind |-> kind] \in Frames /\ nextId \in Nat \ {0}
      /\ received \in Seq(Frames) /\ outbound \in Seq(Frames)
      /\ FramesOf(buffer) \in Seq(Frames)
  BY LinkAssumption, FramesOfType DEF LinkInv, TypeOK, DataType, Frames
<1>2. /\ nextId' = nextId + 1
      /\ UNCHANGED <<procVars, loopVars, outbound, orphans, buffer, nextSeq,
                     faults, received, evicted, stranded>>
  BY DEF SendRefused, NewFrame
<1>3. FlagType' /\ LoopType'
  BY <1>2 DEF LinkInv, TypeOK, FlagType, LoopType, procVars, loopVars
<1>4. DataType' /\ HistType'
  <2>1. DataType'
    BY <1>1, <1>2 DEF LinkInv, TypeOK, DataType
  <2>2. HistType'
    BY <1>1, <1>2 DEF LinkInv, TypeOK, HistType, SendRefused
  <2>3. QED BY <2>1, <2>2
<1>5. LoopInv' /\ FlushedWhileConnected' /\ RowInv' /\ AckNeverStored'
  BY <1>2 DEF LinkInv, LoopInv, FlushedWhileConnected, RowInv, RowsOrdered,
              AckNeverStored, procVars, loopVars
<1>6. ASSUME PipelineInv PROVE PipelineInv'
  <2>1. ASSUME NEW s \in Seq(Frames), Below(s, nextId) PROVE Below(s, nextId + 1)
    <3>1. \A i \in 1..Len(s) : s[i] \in Frames
      OBVIOUS
    <3>2. QED BY <1>1, <2>1, <3>1 DEF Below, Frames
  <2>2. FramesOf(buffer)' = FramesOf(buffer)
    BY <1>2 DEF FramesOf
  <2>3. Below(received, nextId + 1) /\ Below(outbound, nextId + 1)
          /\ Below(FramesOf(buffer), nextId + 1)
    BY <1>1, <1>6, <2>1 DEF PipelineInv
  <2>4. QED
    BY <1>2, <1>6, <2>2, <2>3 DEF PipelineInv, Increasing, Before, Below
<1>7. QED
  BY <1>2, <1>3, <1>4, <1>5, <1>6 DEF LinkInv, TypeOK

(* append() failed: either nothing is stored, or the row is and eviction   *)
(* is left to the next append.                                             *)
LEMMA SendFailsStep ==
  ASSUME LinkInv, NEW kind \in Producers, NEW stored \in BOOLEAN,
         SendFails(kind, stored)
  PROVE  LinkInv'
<1> DEFINE f == [id |-> nextId, kind |-> kind]
           row == [seq |-> nextSeq, frame |-> f]
<1>1. /\ row \in Rows /\ f \in Frames /\ buffer \in Seq(Rows)
      /\ nextId \in Nat \ {0} /\ nextSeq \in Nat /\ faults \in Nat
  BY LinkAssumption DEF LinkInv, TypeOK, DataType, Rows, Frames
<1>2. ~connected /\ kind \in Kinds \ {"dial_ack"}
  BY LinkAssumption DEF LinkInv, LoopInv, SendFails, MaySend
<1>3. /\ nextId' = nextId + 1 /\ faults' = faults + 1
      /\ UNCHANGED <<procVars, loopVars, outbound, orphans, received, evicted, stranded>>
      /\ \/ /\ buffer' = Append(buffer, row) /\ nextSeq' = nextSeq + 1
            /\ refused' = refused
         \/ /\ UNCHANGED <<buffer, nextSeq>>
            /\ refused' = refused \union {f}
  BY DEF SendFails
<1>4. FlagType' /\ LoopType'
  BY <1>3 DEF LinkInv, TypeOK, FlagType, LoopType, procVars, loopVars
<1>5. LoopInv' /\ FlushedWhileConnected'
  BY <1>2, <1>3 DEF LinkInv, LoopInv, FlushedWhileConnected, procVars, loopVars
<1>6. CASE buffer' = Append(buffer, row) /\ nextSeq' = nextSeq + 1 /\ refused' = refused
  <2>1. row = [seq |-> nextSeq, frame |-> [id |-> nextId, kind |-> kind]]
    OBVIOUS
  <2> HIDE DEF row, f
  <2>2. /\ 0 \in 0..Len(buffer) /\ buffer' \in Seq(Rows)
        /\ Len(buffer') = Len(buffer) + 1 - 0
        /\ \A i \in 1..Len(buffer') :
             buffer'[i] = IF i + 0 = Len(buffer) + 1 THEN row ELSE buffer[i + 0]
    BY <1>1, <1>6
  <2>3. RowInv' /\ AckNeverStored'
    BY <1>2, <1>3, <1>6, <2>1, <2>2, BufferGrows
  <2>4. DataType' /\ HistType'
    BY <1>1, <1>3, <1>6, <2>2 DEF LinkInv, TypeOK, DataType, HistType
  <2>5. QED
    BY <1>1, <1>3, <1>4, <1>5, <2>3, <2>4 DEF LinkInv, TypeOK
<1>7. CASE UNCHANGED <<buffer, nextSeq>> /\ refused' = refused \union {f}
  <2> HIDE DEF row, f
  <2>1. RowInv' /\ AckNeverStored'
    BY <1>7 DEF LinkInv, RowInv, RowsOrdered, AckNeverStored
  <2>2. DataType' /\ HistType'
    BY <1>1, <1>3, <1>7 DEF LinkInv, TypeOK, DataType, HistType
  <2>3. QED
    BY <1>1, <1>3, <1>4, <1>5, <2>1, <2>2 DEF LinkInv, TypeOK
<1>8. QED BY <1>3, <1>6, <1>7

(* No step breaks the invariant.                                           *)
LEMMA NextLinkInv == LinkInv /\ [Next]_vars => LinkInv'
<1> SUFFICES ASSUME LinkInv, [Next]_vars PROVE LinkInv'
  OBVIOUS
<1>1. CASE ProcessStep
  BY <1>1, QuietSteps, DroppingSteps DEF ProcessStep
<1>2. CASE LoopStep
  <2>1. CASE \E k, d \in 0..Len(buffer) : FlushFails(k, d)
    BY <2>1, FlushFailsStep
  <2>2. QED BY <1>2, <2>1, QuietSteps, DroppingSteps, FlushStep DEF LoopStep
<1>3. CASE TransportStep
  <2>1. CASE \E how \in {"ended", "broken"} : StreamOver(how)
    BY <2>1, QuietSteps
  <2>2. QED BY <1>3, <2>1, QuietSteps, TransmitStep, OrphanSteps DEF TransportStep
<1>4. CASE \E kind \in Producers : Send(kind)
  BY <1>4, SendQueuedStep, SendRefusedStep, SendBufferedStep DEF Send
<1>5. CASE \E kind \in Producers, stored \in BOOLEAN : SendFails(kind, stored)
  BY <1>5, SendFailsStep
<1>6. CASE UNCHANGED vars
  <2>1. UNCHANGED <<dataVars, histVars, procVars, loopVars>>
    BY <1>6 DEF vars
  <2>2. FlagType' /\ LoopType' /\ LoopInv'
    BY <2>1 DEF LinkInv, TypeOK, FlagType, LoopType, LoopInv, procVars, loopVars,
               dataVars
  <2>3. connected' = connected
    BY <2>1 DEF loopVars
  <2>4. QED BY <2>1, <2>2, <2>3, DataUnchanged
<1>7. QED BY <1>1, <1>2, <1>3, <1>4, <1>5, <1>6 DEF Next

-----------------------------------------------------------------------------
(* Every reachable state of the link, for any capacity, page size, backoff *)
(* limits and number of sends, restarts and SQLite errors, satisfies the   *)
(* inductive invariant.                                                    *)
THEOREM LinkInvariant == Spec => []LinkInv
  BY InitLinkInv, NextLinkInv, PTL DEF Spec

(* Type correctness of the link (transport/grpc_client.py).                *)
THEOREM TypeCorrect == Spec => []TypeOK
<1>1. LinkInv => TypeOK
  BY DEF LinkInv
<1>2. QED BY <1>1, LinkInvariant, PTL

(* The cloud reads frames in the order of the send() calls and none twice, *)
(* across reconnects, replays, evictions and restarts, while SQLite works. *)
THEOREM DeliveryInOrder == Spec => []InOrderOnce
<1>1. LinkInv => InOrderOnce
  BY DEF LinkInv, PipelineInv, InOrderOnce
<1>2. QED BY <1>1, LinkInvariant, PTL

(* No frame is left behind in the buffer while the link is up: the drain   *)
(* of _flush_buffer leaves nothing a later send could overtake.            *)
THEOREM BufferEmptyWhileConnected == Spec => []FlushedWhileConnected
<1>1. LinkInv => FlushedWhileConnected
  BY DEF LinkInv
<1>2. QED BY <1>1, LinkInvariant, PTL

(* A DialAck is never stored for a later replay, although it is sent with  *)
(* critical=False (edge/orchestrator.py::_send_dial_ack).                  *)
THEOREM AckNeverReplayed == Spec => []AckNeverStored
<1>1. LinkInv => AckNeverStored
  BY DEF LinkInv
<1>2. QED BY <1>1, LinkInvariant, PTL

-----------------------------------------------------------------------------
(* Where each frame number is                                              *)

(* The frame numbers of a sequence of rows.                                *)
RowIds(rows) == IdsOf(FramesOf(rows))

(* The numbers in the rows, read off them directly.                        *)
LEMMA RowIdsAre ==
  ASSUME NEW rows \in Seq(Rows)
  PROVE  RowIds(rows) = {rows[i].frame.id : i \in 1..Len(rows)}
<1>1. /\ DOMAIN FramesOf(rows) = 1..Len(rows)
      /\ \A i \in 1..Len(rows) : FramesOf(rows)[i] = rows[i].frame
  BY FramesOfType
<1>2. QED BY <1>1 DEF RowIds, IdsOf

(* No frames, no numbers.                                                  *)
LEMMA EmptyIds == IdsOf(<<>>) = {} /\ RowIds(<<>>) = {}
<1>1. IdsOf(<<>>) = {}
  BY DEF IdsOf
<1>2. <<>> \in Seq(Rows) /\ Len(<<>>) = 0
  OBVIOUS
<1>3. RowIds(<<>>) = {}
  <2>1. PICK rows \in Seq(Rows) : rows = <<>>
    BY <1>2
  <2>2. Len(rows) = 0
    BY <1>2, <2>1
  <2>3. RowIds(rows) = {rows[i].frame.id : i \in 1..Len(rows)}
    BY RowIdsAre
  <2>4. 1..Len(rows) = {}
    BY <2>2
  <2>5. RowIds(rows) = {}
    BY <2>3, <2>4
  <2>6. QED BY <2>1, <2>5
<1>4. QED BY <1>1, <1>3

(* Appending a frame adds its number.                                      *)
LEMMA AppendIds ==
  ASSUME NEW s \in Seq(Frames), NEW f \in Frames
  PROVE  IdsOf(Append(s, f)) = IdsOf(s) \union {f.id}
<1> DEFINE p == Append(s, f)
<1>1. /\ p \in Seq(Frames) /\ Len(p) = Len(s) + 1 /\ p[Len(s) + 1] = f
      /\ \A i \in 1..Len(s) : p[i] = s[i]
  BY AppendProperties
<1>2. Len(s) \in Nat /\ DOMAIN s = 1..Len(s) /\ DOMAIN p = 1..Len(p)
  BY <1>1
<1> HIDE DEF p
<1>3. DOMAIN p = DOMAIN s \union {Len(s) + 1}
  BY <1>1, <1>2
<1>4. IdsOf(p) = IdsOf(s) \union {f.id}
  BY <1>1, <1>2, <1>3 DEF IdsOf
<1>5. QED BY <1>4 DEF p

(* Taking a frame off removes its number at most.                          *)
LEMMA TailIds ==
  ASSUME NEW s \in Seq(Frames), s # <<>>
  PROVE  /\ Head(s) \in Frames /\ Tail(s) \in Seq(Frames)
         /\ IdsOf(s) = {Head(s).id} \union IdsOf(Tail(s))
<1> DEFINE t == Tail(s)
<1>1. /\ t \in Seq(Frames) /\ Len(t) = Len(s) - 1 /\ Head(s) = s[1] /\ Head(s) \in Frames
      /\ \A i \in 1..Len(t) : t[i] = s[i + 1]
  OBVIOUS
<1>2. Len(s) \in Nat \ {0} /\ DOMAIN s = 1..Len(s) /\ DOMAIN t = 1..Len(t)
  BY <1>1
<1> HIDE DEF t
<1>3. IdsOf(s) \subseteq {Head(s).id} \union IdsOf(t)
  <2> SUFFICES ASSUME NEW i \in 1..Len(s) PROVE s[i].id \in {Head(s).id} \union IdsOf(t)
    BY <1>2 DEF IdsOf
  <2>1. CASE i = 1
    BY <1>1, <2>1
  <2>2. CASE i # 1
    <3>1. i - 1 \in 1..Len(t) /\ t[i - 1] = s[i]
      BY <1>1, <1>2, <2>2
    <3>2. QED BY <1>2, <3>1 DEF IdsOf
  <2>3. QED BY <2>1, <2>2
<1>4. {Head(s).id} \union IdsOf(t) \subseteq IdsOf(s)
  <2>1. Head(s).id \in IdsOf(s)
    BY <1>1, <1>2 DEF IdsOf
  <2>2. ASSUME NEW i \in 1..Len(t) PROVE t[i].id \in IdsOf(s)
    <3>1. i + 1 \in 1..Len(s) /\ t[i] = s[i + 1]
      BY <1>1, <1>2
    <3>2. QED BY <1>2, <3>1 DEF IdsOf
  <2>3. QED BY <1>2, <2>1, <2>2 DEF IdsOf
<1>5. /\ t \in Seq(Frames) /\ IdsOf(s) = {Head(s).id} \union IdsOf(t)
  BY <1>1, <1>3, <1>4
<1>6. QED BY <1>1, <1>5 DEF t

(* A row that is inserted joins the stored ones; those it displaces are    *)
(* the evicted ones, and no others go.                                     *)
LEMMA InsertIds ==
  ASSUME NEW rows \in Seq(Rows), NEW row \in Rows
  PROVE  /\ row.frame.id \in RowIds(Insert(rows, row))
         /\ RowIds(Insert(rows, row)) \subseteq RowIds(rows) \union {row.frame.id}
         /\ RowIds(rows) \subseteq RowIds(Insert(rows, row)) \union EvictedBy(rows)
         /\ EvictedBy(rows) \subseteq RowIds(rows)
         /\ Increasing(FramesOf(rows)) /\ Below(FramesOf(rows), row.frame.id) =>
              EvictedBy(rows) \intersect RowIds(Insert(rows, row)) = {}
<1> DEFINE e == Excess(rows)
           p == Insert(rows, row)
           q == SubSeq(rows, 1, e)
<1>1. /\ e \in 0..Len(rows) /\ p \in Seq(Rows) /\ Len(p) = Len(rows) + 1 - e
      /\ \A i \in 1..Len(p) : p[i] = IF i + e = Len(rows) + 1 THEN row ELSE rows[i + e]
  BY InsertType
<1>2. q \in Seq(Rows) /\ Len(q) = e /\ \A i \in 1..e : q[i] = rows[i]
  BY <1>1, SuffixType
<1>3. Len(rows) \in Nat
  OBVIOUS
<1> HIDE DEF e, p, q
<1>4. /\ RowIds(p) = {p[i].frame.id : i \in 1..Len(p)}
      /\ RowIds(q) = {q[i].frame.id : i \in 1..Len(q)}
      /\ RowIds(rows) = {rows[i].frame.id : i \in 1..Len(rows)}
  BY <1>1, <1>2, RowIdsAre
<1>5. row.frame.id \in RowIds(p)
  <2>1. Len(rows) + 1 - e \in 1..Len(p) /\ p[Len(rows) + 1 - e] = row
    BY <1>1, <1>3
  <2>2. QED BY <1>4, <2>1
<1>6. RowIds(p) \subseteq RowIds(rows) \union {row.frame.id}
  <2> SUFFICES ASSUME NEW i \in 1..Len(p)
               PROVE  p[i].frame.id \in RowIds(rows) \union {row.frame.id}
    BY <1>4
  <2>1. p[i] = row \/ (i + e \in 1..Len(rows) /\ p[i] = rows[i + e])
    BY <1>1, <1>3
  <2>2. QED BY <1>4, <2>1
<1>7. RowIds(rows) \subseteq RowIds(p) \union RowIds(q)
  <2> SUFFICES ASSUME NEW i \in 1..Len(rows)
               PROVE  rows[i].frame.id \in RowIds(p) \union RowIds(q)
    BY <1>4
  <2>1. CASE i =< e
    BY <1>1, <1>2, <1>3, <1>4, <2>1
  <2>2. CASE i > e
    <3>1. i - e \in 1..Len(p) /\ p[i - e] = rows[i]
      BY <1>1, <1>3, <2>2
    <3>2. QED BY <1>4, <3>1
  <2>3. QED BY <1>1, <1>3, <2>1, <2>2
<1>8. RowIds(q) \subseteq RowIds(rows)
  <2>1. \A i \in 1..Len(q) : i \in 1..Len(rows) /\ q[i] = rows[i]
    BY <1>1, <1>2, <1>3
  <2>2. QED BY <1>4, <2>1
<1>9. ASSUME Increasing(FramesOf(rows)), Below(FramesOf(rows), row.frame.id)
      PROVE  RowIds(q) \intersect RowIds(p) = {}
  <2>1. /\ Len(FramesOf(rows)) = Len(rows)
        /\ \A i \in 1..Len(rows) : FramesOf(rows)[i] = rows[i].frame
    BY FramesOfType
  <2>2. \A i \in 1..Len(rows) : rows[i].frame.id \in Nat /\ rows[i].frame.id < row.frame.id
    <3>1. \A i \in 1..Len(rows) : rows[i] \in Rows
      OBVIOUS
    <3>2. QED BY <1>9, <2>1, <3>1 DEF Below, Rows, Frames
  <2>3. \A i, j \in 1..Len(rows) : i < j => rows[i].frame.id < rows[j].frame.id
    BY <1>9, <2>1 DEF Increasing
  <2> SUFFICES ASSUME NEW i \in 1..Len(q), NEW j \in 1..Len(p)
               PROVE  q[i].frame.id # p[j].frame.id
    BY <1>4
  <2>4. i \in 1..Len(rows) /\ q[i] = rows[i]
    BY <1>1, <1>2, <1>3
  <2>5. p[j] = row \/ (j + e \in 1..Len(rows) /\ i < j + e /\ p[j] = rows[j + e])
    BY <1>1, <1>2, <1>3
  <2>6. CASE p[j] = row
    BY <2>2, <2>4, <2>6
  <2>7. CASE j + e \in 1..Len(rows) /\ i < j + e /\ p[j] = rows[j + e]
    BY <2>2, <2>3, <2>4, <2>7
  <2>8. QED BY <2>5, <2>6, <2>7
<1>10. EvictedBy(rows) = RowIds(q)
  BY DEF EvictedBy, RowIds, q, e
<1>11. QED BY <1>5, <1>6, <1>7, <1>8, <1>9, <1>10 DEF p

(* What a flush that queued k rows and deleted at most as many leaves      *)
(* behind, on the stream's queue and in the buffer.                        *)
LEMMA FlushIds ==
  ASSUME NEW rows \in Seq(Rows), RowsOrdered(rows), NEW k \in 0..Len(rows), NEW d \in 0..k
  PROVE  RowIds(rows) \subseteq RowIds(SubSeq(rows, 1, k)) \union RowIds(AfterFlushing(rows, d))
<1> DEFINE p == SubSeq(rows, d + 1, Len(rows))
           q == SubSeq(rows, 1, k)
<1>0. Len(rows) \in Nat /\ d \in 0..Len(rows)
  OBVIOUS
<1>1. AfterFlushing(rows, d) = p
  BY <1>0, AfterFlushingIsSuffix
<1>2. /\ p \in Seq(Rows) /\ Len(p) = Len(rows) - d /\ \A i \in 1..(Len(rows) - d) : p[i] = rows[d + i]
      /\ q \in Seq(Rows) /\ Len(q) = k /\ \A i \in 1..k : q[i] = rows[i]
  BY <1>0, SuffixType
<1> HIDE DEF p, q
<1>3. /\ RowIds(p) = {p[i].frame.id : i \in 1..Len(p)}
      /\ RowIds(q) = {q[i].frame.id : i \in 1..Len(q)}
      /\ RowIds(rows) = {rows[i].frame.id : i \in 1..Len(rows)}
  BY <1>2, RowIdsAre
<1>4. RowIds(rows) \subseteq RowIds(q) \union RowIds(p)
  <2> SUFFICES ASSUME NEW i \in 1..Len(rows)
               PROVE  rows[i].frame.id \in RowIds(q) \union RowIds(p)
    BY <1>3
  <2>1. CASE i =< k
    BY <1>2, <1>3, <2>1
  <2>2. CASE i > k
    <3>1. i - d \in 1..Len(p) /\ p[i - d] = rows[i]
      BY <1>0, <1>2, <2>2
    <3>2. QED BY <1>3, <3>1
  <2>3. QED BY <2>1, <2>2
<1>5. QED BY <1>1, <1>4 DEF q

(* Frames that are neither delivered nor dropped.                          *)
Queued == IdsOf(outbound)
Read == IdsOf(received)
Pending == Queued \union BufferIds

(* Numbers that are accounted for: NothingVanishes is about these.         *)
Accounted == Read \union Queued \union BufferIds \union OrphanIds \union evicted \union stranded

(* A step that delivers nothing: some of the pending and new frames, and   *)
(* of those on orphaned streams, are evicted (E), stranded (S) or refused  *)
(* (R), the others stay where they are or move from buffer to queue.       *)
Settles(new, E, S, R) ==
  /\ received' = received
  /\ evicted' = evicted \union E /\ stranded' = stranded \union S
  /\ RefusedIds' = RefusedIds \union R
  /\ E \subseteq Pending /\ S \subseteq Pending \union new \union OrphanIds /\ R \subseteq new
  /\ Pending' \subseteq Pending \union new
  /\ Pending \subseteq Pending' \union E \union S
  /\ new \subseteq Pending' \union E \union S \union R
  /\ OrphanIds \subseteq OrphanIds' \union S
  /\ Durable => BufferIds \subseteq Pending' \union E
  /\ \/ new = {} /\ nextId' = nextId
     \/ new = {nextId} /\ nextId' = nextId + 1
  /\ PipelineInv => (E \union S \union R) \intersect Pending' = {} /\ E \intersect S = {}

(* A step that delivers the oldest queued frame.                           *)
Delivers ==
  \E f \in Frames :
    /\ received' = Append(received, f)
    /\ BufferIds = {} /\ BufferIds' = {}
    /\ Queued = {f.id} \union Queued' /\ \A id \in Queued' : f.id < id
    /\ UNCHANGED <<nextId, evicted, stranded, refused>>

(* A stored frame is pending.                                              *)
LEMMA StoredArePending == BufferIds \subseteq Pending
BY DEF Pending

(* What the account of the frames needs of the invariant.                  *)
LEMMA IdTypes ==
  ASSUME LinkInv
  PROVE  /\ outbound \in Seq(Frames) /\ buffer \in Seq(Rows) /\ received \in Seq(Frames)
         /\ nextId \in Nat \ {0} /\ BufferIds = RowIds(buffer) /\ faults \in Nat
         /\ \A i \in DOMAIN orphans : orphans[i] \in Seq(Frames)
         /\ ~connected => outbound = <<>>
         /\ connected => buffer = <<>>
BY DEF LinkInv, TypeOK, DataType, LoopInv, FlushedWhileConnected, BufferIds, RowIds

(* Without SQLite errors every number in the pipeline is one already used, *)
(* and what is delivered is pending no more.                               *)
LEMMA PipelineIds ==
  ASSUME LinkInv, PipelineInv
  PROVE  /\ OrphanIds = {}
         /\ \A id \in Pending \union Read : id \in Nat /\ id < nextId
         /\ Pending \intersect Read = {}
<1>1. /\ outbound \in Seq(Frames) /\ buffer \in Seq(Rows) /\ received \in Seq(Frames)
      /\ BufferIds = IdsOf(FramesOf(buffer))
  BY IdTypes DEF BufferIds
<1>2. FramesOf(buffer) \in Seq(Frames)
  BY <1>1, FramesOfType
<1>3. ASSUME NEW s \in Seq(Frames), Below(s, nextId)
      PROVE  \A id \in IdsOf(s) : id \in Nat /\ id < nextId
  <2>1. DOMAIN s = 1..Len(s) /\ \A i \in 1..Len(s) : s[i] \in Frames
    OBVIOUS
  <2>2. QED BY <1>3, <2>1 DEF Below, IdsOf, Frames
<1>4. ASSUME NEW s \in Seq(Frames), NEW t \in Seq(Frames), Before(s, t)
      PROVE  IdsOf(s) \intersect IdsOf(t) = {}
  <2>1. /\ DOMAIN s = 1..Len(s) /\ \A i \in 1..Len(s) : s[i] \in Frames
        /\ DOMAIN t = 1..Len(t) /\ \A i \in 1..Len(t) : t[i] \in Frames
    OBVIOUS
  <2>2. ASSUME NEW i \in DOMAIN s, NEW j \in DOMAIN t PROVE s[i].id # t[j].id
    BY <1>4, <2>1 DEF Before, Frames
  <2>3. QED BY <2>2 DEF IdsOf
<1>5. OrphanIds = {}
  BY DEF PipelineInv, OrphanIds
<1>6. QED
  BY <1>1, <1>2, <1>3, <1>4, <1>5 DEF PipelineInv, Pending, Queued, Read

(* Every number accounted for stays so, and a new number is accounted for  *)
(* or its send() raised.                                                   *)
KeepsAccount ==
  /\ Accounted \subseteq Accounted' /\ RefusedIds \subseteq RefusedIds'
  /\ \/ nextId' = nextId
     \/ nextId' = nextId + 1 /\ nextId \in Accounted' \union RefusedIds'

(* A step that moves frames between stores and fates forgets none.         *)
LEMMA SettlingKeepsAccount ==
  ASSUME NEW new, NEW E, NEW S, NEW R, Settles(new, E, S, R)
  PROVE  KeepsAccount
<1>1. Read' = Read
  BY DEF Settles, Read
<1>2. Accounted = Read \union Pending \union OrphanIds \union evicted \union stranded
  BY DEF Accounted, Pending
<1>3. Accounted' = Read' \union Pending' \union OrphanIds' \union evicted' \union stranded'
  BY DEF Accounted, Pending
<1>4. QED BY <1>1, <1>2, <1>3 DEF Settles, KeepsAccount

(* The steps that move no frame settle nothing.                            *)
LEMMA QuietSettles ==
  ASSUME UNCHANGED <<dataVars, histVars>>
  PROVE  Settles({}, {}, {}, {})
<1>1. UNCHANGED <<outbound, orphans, buffer, nextId, received, evicted, stranded, refused>>
  BY DEF dataVars, histVars
<1>2. Pending' = Pending /\ OrphanIds' = OrphanIds /\ RefusedIds' = RefusedIds
  BY <1>1 DEF Pending, Queued, BufferIds, FramesOf, IdsOf, OrphanIds, RefusedIds
<1>3. QED BY <1>1, <1>2, StoredArePending DEF Settles

(* A complete flush moves every row to the queue.                          *)
LEMMA FlushSettles ==
  ASSUME LinkInv, StreamAccepted
  PROVE  Settles({}, {}, {}, {})
<1>1. outbound = <<>>
  BY DEF LinkInv, LoopInv, StreamAccepted
<1>2. /\ outbound' = FramesOf(buffer)
      /\ UNCHANGED <<orphans, nextId, received, evicted, stranded, refused>>
  BY <1>1, FramesOfType, ConcatEmptySeq
     DEF LinkInv, TypeOK, DataType, StreamAccepted, histVars
<1>3. buffer' = <<>>
  BY FlushStep DEF LinkInv, FlushedWhileConnected, StreamAccepted
<1>4. BufferIds' = RowIds(<<>>) /\ Queued = IdsOf(<<>>) /\ Queued' = BufferIds
  BY <1>1, <1>2, <1>3 DEF BufferIds, RowIds, Queued
<1>5. Pending' = Pending
  BY <1>4, EmptyIds DEF Pending
<1>6. OrphanIds' = OrphanIds /\ RefusedIds' = RefusedIds
  BY <1>2 DEF OrphanIds, RefusedIds
<1>7. QED BY <1>2, <1>5, <1>6, StoredArePending DEF Settles

(* The end of a stream strands what its queue held.                        *)
LEMMA StreamEndSettles ==
  ASSUME LinkInv, CancelLands \/ EndNoticed
  PROVE  Settles({}, {}, Queued, {})
<1>1. /\ outbound' = <<>> /\ stranded' = stranded \union Queued /\ connected
      /\ UNCHANGED <<orphans, buffer, nextId, received, evicted, refused>>
  BY DEF CancelLands, EndNoticed, Queued, LinkInv, LoopInv
<1>2. /\ Queued' = IdsOf(<<>>) /\ BufferIds' = BufferIds /\ BufferIds = RowIds(<<>>)
      /\ OrphanIds' = OrphanIds /\ RefusedIds' = RefusedIds
  BY <1>1, IdTypes DEF Queued, BufferIds, FramesOf, IdsOf, OrphanIds, RefusedIds
<1>3. QED BY <1>1, <1>2, EmptyIds DEF Settles, Pending

(* The end of the process strands every queue, and the deque.              *)
LEMMA ProcessEndSettles ==
  ASSUME LinkInv, ProcessGone
  PROVE  Settles({}, {}, Queued \union OrphanIds \union (IF Durable THEN {} ELSE BufferIds), {})
<1>1. /\ outbound' = <<>> /\ orphans' = <<>> /\ buffer' = IF Durable THEN buffer ELSE <<>>
      /\ stranded' = stranded \union (Queued \union OrphanIds
                                         \union (IF Durable THEN {} ELSE BufferIds))
      /\ UNCHANGED <<nextId, received, evicted, refused>>
  BY DEF ProcessGone, Queued, BufferIds
<1>2. Queued' = {} /\ RefusedIds' = RefusedIds
  BY <1>1, EmptyIds DEF Queued, RefusedIds
<1>3. BufferIds' = IF Durable THEN BufferIds ELSE {}
  BY <1>1, EmptyIds DEF BufferIds, RowIds
<1>4. Queued = {} \/ BufferIds = {}
  BY IdTypes, EmptyIds DEF Queued
<1>5. PipelineInv => OrphanIds = {}
  BY DEF PipelineInv, OrphanIds
<1>6. QED BY <1>1, <1>2, <1>3, <1>4, <1>5 DEF Settles, Pending

(* A stream left behind by a failed flush dies with its queue.             *)
LEMMA OrphanEndSettles ==
  ASSUME LinkInv, NEW i \in DOMAIN orphans, OrphanDies(i)
  PROVE  Settles({}, {}, IdsOf(orphans[i]), {})
<1>1. /\ orphans' = [orphans EXCEPT ![i] = <<>>] /\ stranded' = stranded \union IdsOf(orphans[i])
      /\ UNCHANGED <<outbound, buffer, nextId, received, evicted, refused>>
  BY DEF OrphanDies
<1>2. Pending' = Pending /\ RefusedIds' = RefusedIds
  BY <1>1 DEF Pending, Queued, BufferIds, FramesOf, IdsOf, RefusedIds
<1>3. DOMAIN orphans' = DOMAIN orphans /\ \A j \in DOMAIN orphans : j # i => orphans'[j] = orphans[j]
  BY <1>1
<1>4. OrphanIds \subseteq OrphanIds' \union IdsOf(orphans[i])
  BY <1>3 DEF OrphanIds
<1>5. IdsOf(orphans[i]) \subseteq OrphanIds
  BY DEF OrphanIds
<1>6. ~PipelineInv
  BY DEF PipelineInv
<1>7. QED BY <1>1, <1>2, <1>4, <1>5, <1>6, StoredArePending DEF Settles

(* send() settles the frame it was given, and those it displaces.          *)
LEMMA SendSettles ==
  ASSUME LinkInv, NEW kind \in Producers,
         Send(kind) \/ \E stored \in BOOLEAN : SendFails(kind, stored)
  PROVE  \E E, S, R \in SUBSET Nat : Settles({nextId}, E, S, R)
<1> DEFINE f == [id |-> nextId, kind |-> kind]
           row == [seq |-> nextSeq, frame |-> f]
<1>1. /\ outbound \in Seq(Frames) /\ buffer \in Seq(Rows) /\ nextId \in Nat
      /\ f \in Frames /\ row \in Rows /\ f.id = nextId /\ row.frame = f
      /\ BufferIds = RowIds(buffer)
  BY IdTypes, LinkAssumption DEF LinkInv, TypeOK, DataType, Rows, Frames
<1>2. /\ nextId' = nextId + 1 /\ UNCHANGED <<orphans, received>>
  BY DEF Send, SendQueued, SendRefused, SendBuffered, NewFrame, SendFails
<1>3. OrphanIds' = OrphanIds
  BY <1>2 DEF OrphanIds
<1>4. PipelineInv => nextId \notin Pending
  BY <1>1, PipelineIds
<1> HIDE DEF f, row
<1>5. CASE SendQueued(kind)
  <2>1. UNCHANGED <<buffer, evicted, refused>>
    BY <1>5 DEF SendQueued
  <2>2. BufferIds' = BufferIds /\ RefusedIds' = RefusedIds
    BY <2>1 DEF BufferIds, FramesOf, IdsOf, RefusedIds
  <2>3. CASE daemon = "closing"
    <3>1. outbound' = outbound /\ stranded' = stranded \union {nextId}
      BY <1>5, <2>3 DEF SendQueued
    <3>2. Pending' = Pending
      BY <2>2, <3>1 DEF Pending, Queued
    <3>3. Settles({nextId}, {}, {nextId}, {})
      BY <1>2, <1>3, <1>4, <2>1, <2>2, <3>1, <3>2, StoredArePending DEF Settles
    <3>4. QED BY <1>1, <3>3
  <2>4. CASE daemon # "closing"
    <3>1. outbound' = Append(outbound, f) /\ stranded' = stranded
      BY <1>5, <2>4 DEF SendQueued, f
    <3>2. Queued' = Queued \union {nextId}
      BY <1>1, <3>1, AppendIds DEF Queued
    <3>3. Settles({nextId}, {}, {}, {})
      BY <1>2, <1>3, <2>1, <2>2, <3>1, <3>2 DEF Settles, Pending
    <3>4. QED BY <3>3
  <2>5. QED BY <2>3, <2>4
<1>6. CASE refused' = refused \union {f} /\ UNCHANGED <<outbound, buffer, evicted, stranded>>
  <2>1. Pending' = Pending
    BY <1>6 DEF Pending, Queued, BufferIds, FramesOf, IdsOf
  <2>2. RefusedIds' = RefusedIds \union {nextId}
    BY <1>1, <1>6 DEF RefusedIds
  <2>3. Settles({nextId}, {}, {}, {nextId})
    BY <1>2, <1>3, <1>4, <1>6, <2>1, <2>2, StoredArePending DEF Settles
  <2>4. QED BY <1>1, <2>3
<1>7. CASE SendBuffered(kind)
  <2>1. /\ buffer' = Insert(buffer, row) /\ evicted' = evicted \union EvictedBy(buffer)
        /\ UNCHANGED <<outbound, stranded, refused>>
    BY <1>7 DEF SendBuffered, row, f
  <2>2. BufferIds' = RowIds(Insert(buffer, row)) /\ Queued' = Queued /\ RefusedIds' = RefusedIds
    BY <2>1 DEF BufferIds, RowIds, Queued, RefusedIds
  <2>3. /\ nextId \in BufferIds' /\ BufferIds' \subseteq BufferIds \union {nextId}
        /\ BufferIds \subseteq BufferIds' \union EvictedBy(buffer)
        /\ EvictedBy(buffer) \subseteq BufferIds
    BY <1>1, <2>2, InsertIds
  <2>4. PipelineInv => EvictedBy(buffer) \intersect BufferIds' = {}
    BY <1>1, <2>2, InsertIds DEF PipelineInv
  <2>5. Queued = {}
    BY <1>7, IdTypes, EmptyIds DEF SendBuffered, Queued
  <2>6. EvictedBy(buffer) \subseteq Nat
    BY <1>1, <2>3, FramesOfType, IdsAreNat DEF RowIds
  <2>7. Settles({nextId}, EvictedBy(buffer), {}, {})
    BY <1>2, <1>3, <2>1, <2>2, <2>3, <2>4, <2>5 DEF Settles, Pending
  <2>8. QED BY <2>6, <2>7
<1>8. CASE /\ buffer' = Append(buffer, row) /\ UNCHANGED <<outbound, evicted, stranded, refused>>
  <2>1. buffer' \in Seq(Rows) /\ BufferIds' = RowIds(buffer')
    BY <1>1, <1>8 DEF BufferIds, RowIds
  <2>2. RowIds(buffer') = RowIds(buffer) \union {nextId}
    <3>1. /\ RowIds(buffer') = {buffer'[i].frame.id : i \in 1..Len(buffer')}
          /\ RowIds(buffer) = {buffer[i].frame.id : i \in 1..Len(buffer)}
      BY <1>1, <2>1, RowIdsAre
    <3>2. /\ Len(buffer) \in Nat /\ Len(buffer') = Len(buffer) + 1 /\ buffer'[Len(buffer) + 1] = row
          /\ \A i \in 1..Len(buffer) : buffer'[i] = buffer[i]
      BY <1>1, <1>8, AppendProperties
    <3>3. 1..Len(buffer') = 1..Len(buffer) \union {Len(buffer) + 1}
      BY <3>2
    <3>4. QED BY <1>1, <3>1, <3>2, <3>3
  <2>3. Queued' = Queued /\ RefusedIds' = RefusedIds
    BY <1>8 DEF Queued, RefusedIds
  <2>4. Settles({nextId}, {}, {}, {})
    BY <1>1, <1>2, <1>3, <1>8, <2>1, <2>2, <2>3 DEF Settles, Pending
  <2>5. QED BY <2>4
<1>9. QED
  BY <1>5, <1>6, <1>7, <1>8 DEF Send, SendRefused, SendFails, row, f

(* The head of the queue is the oldest frame that is pending.              *)
LEMMA TransmitDelivers ==
  ASSUME LinkInv, PipelineInv, Transmit
  PROVE  Delivers
<1>1. /\ outbound \in Seq(Frames) /\ outbound # <<>> /\ outbound' = Tail(outbound)
      /\ received' = Append(received, Head(outbound))
      /\ UNCHANGED <<buffer, nextId, evicted, stranded, refused>> /\ buffer = <<>>
  BY IdTypes DEF Transmit, LinkInv, LoopInv
<1>2. /\ Head(outbound) \in Frames
      /\ Queued = {Head(outbound).id} \union Queued'
  BY <1>1, TailIds DEF Queued
<1>3. BufferIds = {} /\ BufferIds' = {}
  BY <1>1, EmptyIds DEF BufferIds, RowIds
<1>4. \A id \in Queued' : Head(outbound).id < id
  <2> DEFINE t == Tail(outbound)
  <2>1. /\ Len(t) = Len(outbound) - 1 /\ DOMAIN t = 1..Len(t) /\ Head(outbound) = outbound[1]
        /\ \A i \in 1..Len(t) : t[i] = outbound[i + 1]
        /\ Len(outbound) \in Nat \ {0}
    BY <1>1
  <2>2. Queued' = IdsOf(t)
    BY <1>1 DEF Queued
  <2> HIDE DEF t
  <2>3. ASSUME NEW i \in 1..Len(t) PROVE Head(outbound).id < t[i].id
    <3>1. 1 \in 1..Len(outbound) /\ i + 1 \in 1..Len(outbound) /\ 1 < i + 1
      BY <2>1
    <3>2. outbound[1].id < outbound[i + 1].id
      BY <3>1 DEF PipelineInv, Increasing
    <3>3. QED BY <2>1, <3>2
  <2>4. QED BY <2>1, <2>2, <2>3 DEF IdsOf
<1>5. QED BY <1>1, <1>2, <1>3, <1>4 DEF Delivers

(* A frame that leaves a queue for the cloud is accounted for there.       *)
LEMMA TransmitKeepsAccount ==
  ASSUME LinkInv, Transmit
  PROVE  KeepsAccount
<1>1. /\ outbound \in Seq(Frames) /\ received \in Seq(Frames)
      /\ outbound # <<>> /\ outbound' = Tail(outbound)
      /\ received' = Append(received, Head(outbound))
      /\ UNCHANGED <<buffer, orphans, nextId, evicted, stranded, refused>>
  BY IdTypes DEF Transmit
<1>2. Head(outbound) \in Frames /\ Queued = {Head(outbound).id} \union Queued'
  BY <1>1, TailIds DEF Queued
<1>3. Read' = Read \union {Head(outbound).id}
  BY <1>1, <1>2, AppendIds DEF Read
<1>4. BufferIds' = BufferIds /\ OrphanIds' = OrphanIds /\ RefusedIds' = RefusedIds
  BY <1>1 DEF BufferIds, FramesOf, IdsOf, OrphanIds, RefusedIds
<1>5. QED BY <1>1, <1>2, <1>3, <1>4 DEF KeepsAccount, Accounted

(* A stream the client has given up may still deliver.                     *)
LEMMA OrphanTransmitKeepsAccount ==
  ASSUME LinkInv, NEW i \in DOMAIN orphans, OrphanTransmit(i)
  PROVE  KeepsAccount
<1>1. /\ orphans[i] \in Seq(Frames) /\ received \in Seq(Frames) /\ orphans[i] # <<>>
      /\ orphans' = [orphans EXCEPT ![i] = Tail(orphans[i])]
      /\ received' = Append(received, Head(orphans[i]))
      /\ UNCHANGED <<buffer, outbound, nextId, evicted, stranded, refused>>
  BY IdTypes DEF OrphanTransmit
<1>2. /\ Head(orphans[i]) \in Frames
      /\ IdsOf(orphans[i]) = {Head(orphans[i]).id} \union IdsOf(Tail(orphans[i]))
  BY <1>1, TailIds
<1>3. Read' = Read \union {Head(orphans[i]).id}
  BY <1>1, <1>2, AppendIds DEF Read
<1>4. /\ DOMAIN orphans' = DOMAIN orphans /\ orphans'[i] = Tail(orphans[i])
      /\ \A j \in DOMAIN orphans : j # i => orphans'[j] = orphans[j]
  BY <1>1
<1>5. OrphanIds \subseteq OrphanIds' \union {Head(orphans[i]).id}
  <2> SUFFICES ASSUME NEW j \in DOMAIN orphans
               PROVE  IdsOf(orphans[j]) \subseteq OrphanIds' \union {Head(orphans[i]).id}
    BY DEF OrphanIds
  <2>1. IdsOf(orphans'[j]) \subseteq OrphanIds'
    BY <1>4 DEF OrphanIds
  <2>2. QED BY <1>2, <1>4, <2>1
<1>6. BufferIds' = BufferIds /\ Queued' = Queued /\ RefusedIds' = RefusedIds
  BY <1>1 DEF BufferIds, FramesOf, IdsOf, Queued, RefusedIds
<1>7. QED BY <1>1, <1>3, <1>5, <1>6 DEF KeepsAccount, Accounted

(* A flush that SQLite interrupts leaves every row in the buffer, on the   *)
(* queue of the stream it leaves behind, or on both.                       *)
LEMMA FlushFailsKeepsRows ==
  ASSUME LinkInv, NEW k \in 0..Len(buffer), NEW d \in 0..Len(buffer), FlushFails(k, d)
  PROVE  /\ BufferIds \subseteq BufferIds' \union OrphanIds'
         /\ OrphanIds \subseteq OrphanIds'
<1> DEFINE q == FramesOf(SubSeq(buffer, 1, k))
<1>1. /\ buffer \in Seq(Rows) /\ BufferIds = RowIds(buffer) /\ RowsOrdered(buffer)
      /\ Len(buffer) \in Nat
  BY IdTypes DEF LinkInv, RowInv
<1>2. d \in 0..k /\ (k = 0 => d = 0)
  BY <1>1 DEF FlushFails
<1>3. buffer' = AfterFlushing(buffer, d) /\ BufferIds' = RowIds(AfterFlushing(buffer, d))
  BY DEF FlushFails, BufferIds, RowIds
<1>4. CASE k = 0
  <2>1. buffer' = buffer /\ orphans' = orphans
    BY <1>2, <1>3, <1>4 DEF FlushFails, AfterFlushing
  <2>2. QED BY <2>1 DEF BufferIds, OrphanIds, FramesOf, IdsOf
<1>5. CASE k # 0
  <2>1. orphans' = Append(orphans, q) /\ orphans \in Seq(Seq(Frames))
    BY <1>5 DEF FlushFails, LinkInv, TypeOK, DataType
  <2>2. IdsOf(q) = RowIds(SubSeq(buffer, 1, k))
    BY DEF RowIds
  <2>3. q \in Seq(Frames)
    BY <1>1, SuffixType, FramesOfType
  <2> HIDE DEF q
  <2>4. /\ Len(orphans) + 1 \in DOMAIN orphans' /\ orphans'[Len(orphans) + 1] = q
        /\ \A i \in DOMAIN orphans : i \in DOMAIN orphans' /\ orphans'[i] = orphans[i]
    BY <2>1, <2>3
  <2>5. IdsOf(q) \subseteq OrphanIds'
    BY <2>4 DEF OrphanIds
  <2>6. OrphanIds \subseteq OrphanIds'
    BY <2>4 DEF OrphanIds
  <2>7. QED BY <1>1, <1>2, <1>3, <2>2, <2>5, <2>6, FlushIds
<1>6. QED BY <1>4, <1>5

(* A flush that fails half-way keeps what it has not deleted.              *)
LEMMA FlushFailsKeepsAccount ==
  ASSUME LinkInv, NEW k \in 0..Len(buffer), NEW d \in 0..Len(buffer), FlushFails(k, d)
  PROVE  KeepsAccount
<1>1. UNCHANGED <<outbound, nextId, received, evicted, stranded, refused>>
  BY DEF FlushFails, histVars
<1>2. Queued' = Queued /\ Read' = Read /\ RefusedIds' = RefusedIds
  BY <1>1 DEF Queued, Read, RefusedIds
<1>3. QED BY <1>1, <1>2, FlushFailsKeepsRows DEF KeepsAccount, Accounted

(* What a step can do to frames: settle some, deliver one, or fail to      *)
(* replay the buffer.                                                      *)
LEMMA StepEffects ==
  ASSUME LinkInv, [Next]_vars
  PROVE  \/ \E new, E, S, R : Settles(new, E, S, R)
         \/ Transmit
         \/ \E i \in DOMAIN orphans : OrphanTransmit(i)
         \/ \E k, d \in 0..Len(buffer) : FlushFails(k, d)
<1>1. CASE UNCHANGED <<dataVars, histVars>>
  BY <1>1, QuietSettles
<1>2. CASE StreamAccepted
  BY <1>2, FlushSettles
<1>3. CASE CancelLands \/ EndNoticed
  BY <1>3, StreamEndSettles
<1>4. CASE ProcessGone
  BY <1>4, ProcessEndSettles
<1>5. CASE \E i \in DOMAIN orphans : OrphanDies(i)
  BY <1>5, OrphanEndSettles
<1>6. CASE \E kind \in Producers : Send(kind) \/ \E stored \in BOOLEAN : SendFails(kind, stored)
  BY <1>6, SendSettles
<1>7. CASE ProcessStep
  BY <1>1, <1>3, <1>4, <1>7
  DEF ProcessStep, Launch, StartReturns, Signal, BeginShutdown, StopLink, LinkStopped, Crash
<1>8. CASE LoopStep
  BY <1>1, <1>2, <1>3, <1>8
  DEF LoopStep, StreamRefused, Dispatch, CallbackReturns, ChannelClosed, BackoffElapsed
<1>9. CASE TransportStep
  BY <1>1, <1>5, <1>9 DEF TransportStep, CloudSends, StreamOver
<1>10. CASE UNCHANGED vars
  BY <1>1, <1>10 DEF vars
<1>11. QED BY <1>6, <1>7, <1>8, <1>9, <1>10 DEF Next

(* No step forgets a frame.                                                *)
LEMMA StepKeepsAccount ==
  ASSUME LinkInv, [Next]_vars
  PROVE  KeepsAccount
BY StepEffects, SettlingKeepsAccount, TransmitKeepsAccount, OrphanTransmitKeepsAccount,
   FlushFailsKeepsAccount

(* Every frame that send() accepted is delivered, on its way, stored, or   *)
(* dropped by the capacity limit or with its stream or process, whatever   *)
(* SQLite does in the middle of a flush or an append.                      *)
THEOREM NothingIsLost == Spec => []NothingVanishes
<1>1. Init => NothingVanishes
  BY DEF Init, NothingVanishes
<1>2. LinkInv /\ NothingVanishes /\ [Next]_vars => NothingVanishes'
  <2> SUFFICES ASSUME LinkInv, NothingVanishes, [Next]_vars,
                      NEW id \in (1..(nextId - 1) \ RefusedIds)'
               PROVE  id \in Accounted'
    BY DEF NothingVanishes, Accounted, Read, Queued
  <2>1. KeepsAccount /\ nextId \in Nat \ {0}
    BY StepKeepsAccount, IdTypes
  <2>2. id = nextId \/ id \in 1..(nextId - 1)
    BY <2>1 DEF KeepsAccount
  <2>3. CASE id \in 1..(nextId - 1)
    <3>1. id \notin RefusedIds
      BY <2>1 DEF KeepsAccount
    <3>2. id \in Accounted
      BY <2>3, <3>1 DEF NothingVanishes, Accounted, Read, Queued
    <3>3. QED BY <2>1, <3>2 DEF KeepsAccount
  <2>4. CASE id \notin 1..(nextId - 1)
    BY <2>1, <2>2, <2>4 DEF KeepsAccount
  <2>5. QED BY <2>3, <2>4
<1>3. QED BY <1>1, <1>2, LinkInvariant, PTL DEF Spec

(* While SQLite works, dropped and refused frames stay out of the pipeline *)
(* for good: their numbers are used and never pending or delivered.        *)
FateInv ==
  faults = 0 =>
    /\ evicted \intersect stranded = {}
    /\ \A id \in evicted \union stranded \union RefusedIds :
         id \in Nat /\ id < nextId /\ id \notin Pending \union Read

(* SQLite errors are never forgotten.                                      *)
LEMMA FaultsStay ==
  ASSUME LinkInv, [Next]_vars, faults' = 0
  PROVE  /\ faults = 0 /\ PipelineInv
         /\ ~\E k, d \in 0..Len(buffer) : FlushFails(k, d)
         /\ ~\E i \in DOMAIN orphans : OrphanTransmit(i)
<1>1. faults \in Nat
  BY IdTypes
<1>2. \/ faults' = faults
      \/ \E k, d \in 0..Len(buffer) : FlushFails(k, d)
      \/ faults' = faults + 1
  <2>1. CASE ProcessStep
    BY <2>1 DEF ProcessStep, Launch, StartReturns, Signal, BeginShutdown, StopLink, LinkStopped,
                Crash, CancelLands, ProcessGone, dataVars
  <2>2. CASE LoopStep
    BY <2>2 DEF LoopStep, StreamAccepted, EndNoticed, StreamRefused, Dispatch, CallbackReturns,
                ChannelClosed, BackoffElapsed, dataVars
  <2>3. CASE TransportStep
    BY <2>3 DEF TransportStep, Transmit, OrphanTransmit, OrphanDies, CloudSends, StreamOver, dataVars
  <2>4. CASE \E kind \in Producers : Send(kind)
    BY <2>4 DEF Send, SendQueued, SendRefused, SendBuffered, NewFrame
  <2>5. CASE \E kind \in Producers, stored \in BOOLEAN : SendFails(kind, stored)
    BY <2>5 DEF SendFails
  <2>6. CASE UNCHANGED vars
    BY <2>6 DEF vars, dataVars
  <2>7. QED BY <2>1, <2>2, <2>3, <2>4, <2>5, <2>6 DEF Next
<1>3. ~\E k, d \in 0..Len(buffer) : FlushFails(k, d)
  BY <1>1 DEF FlushFails
<1>4. faults = 0 /\ PipelineInv
  BY <1>1, <1>2, <1>3 DEF LinkInv
<1>5. DOMAIN orphans = {}
  BY <1>4 DEF PipelineInv
<1>6. QED BY <1>3, <1>4, <1>5

(* Hence, without SQLite errors, a step settles frames or delivers one.    *)
LEMMA SoundStepEffects ==
  ASSUME LinkInv, [Next]_vars, faults' = 0
  PROVE  \/ \E new, E, S, R : Settles(new, E, S, R)
         \/ Delivers
BY StepEffects, FaultsStay, TransmitDelivers

(* While SQLite works no step gives a frame a second fate.                 *)
LEMMA StepFateInv ==
  ASSUME LinkInv, FateInv, [Next]_vars
  PROVE  FateInv'
<1> SUFFICES ASSUME faults' = 0
             PROVE  /\ evicted' \intersect stranded' = {}
                    /\ \A id \in evicted' \union stranded' \union RefusedIds' :
                         id \in Nat /\ id < nextId' /\ id \notin Pending' \union Read'
  BY DEF FateInv
<1>1. faults = 0 /\ PipelineInv /\ nextId \in Nat /\ received \in Seq(Frames)
  BY FaultsStay, IdTypes
<1>2. /\ OrphanIds = {} /\ Pending \intersect Read = {}
      /\ \A id \in Pending \union Read : id \in Nat /\ id < nextId
  BY <1>1, PipelineIds
<1>3. /\ evicted \intersect stranded = {}
      /\ \A id \in evicted \union stranded \union RefusedIds :
           id \in Nat /\ id < nextId /\ id \notin Pending \union Read
  BY <1>1 DEF FateInv
<1>4. CASE \E new, E, S, R : Settles(new, E, S, R)
  <2>1. PICK new, E, S, R : Settles(new, E, S, R)
    BY <1>4
  <2>2. Read' = Read
    BY <2>1 DEF Settles, Read
  <2>3. \A id \in new : id = nextId /\ id \notin Pending \union Read
    BY <1>1, <1>2, <2>1 DEF Settles
  <2>4. /\ E \subseteq Pending /\ S \subseteq Pending \union new /\ R \subseteq new
        /\ Pending' \subseteq Pending \union new
        /\ (E \union S \union R) \intersect Pending' = {} /\ E \intersect S = {}
        /\ evicted' = evicted \union E /\ stranded' = stranded \union S
        /\ RefusedIds' = RefusedIds \union R
    BY <1>1, <1>2, <2>1 DEF Settles
  <2>5. evicted' \intersect stranded' = {}
    <3>1. evicted \intersect S = {} /\ E \intersect stranded = {}
      BY <1>1, <1>3, <2>3, <2>4
    <3>2. QED BY <1>3, <2>4, <3>1
  <2>6. nextId' \in Nat /\ nextId =< nextId' /\ (new # {} => nextId' = nextId + 1)
    BY <1>1, <2>1 DEF Settles
  <2>7. \A id \in E \union S \union R : id \in Nat /\ id < nextId' /\ id \notin Pending' \union Read'
    <3> SUFFICES ASSUME NEW id \in E \union S \union R
                 PROVE  id \in Nat /\ id < nextId' /\ id \notin Read
      BY <2>2, <2>4
    <3>1. CASE id \in Pending
      BY <1>1, <1>2, <2>6, <3>1
    <3>2. CASE id \in new
      BY <1>1, <2>3, <2>6, <3>2
    <3>3. QED BY <2>4, <3>1, <3>2
  <2>8. ASSUME NEW id \in evicted \union stranded \union RefusedIds
        PROVE  id \in Nat /\ id < nextId' /\ id \notin Pending' \union Read'
    <3>1. id \in Nat /\ id < nextId /\ id \notin Pending \union Read
      BY <1>3
    <3>2. id \notin new
      BY <1>1, <2>3, <3>1
    <3>3. QED BY <1>1, <2>2, <2>4, <2>6, <3>1, <3>2
  <2>9. QED BY <2>4, <2>5, <2>7, <2>8
<1>5. CASE Delivers
  <2>1. PICK f \in Frames :
          /\ received' = Append(received, f) /\ BufferIds = {} /\ BufferIds' = {}
          /\ Queued = {f.id} \union Queued'
          /\ UNCHANGED <<nextId, evicted, stranded, refused>>
    BY <1>5 DEF Delivers
  <2>2. Read' = Read \union {f.id}
    BY <1>1, <2>1, AppendIds DEF Read
  <2>3. Pending' \union Read' = Pending \union Read
    BY <2>1, <2>2 DEF Pending
  <2>4. RefusedIds' = RefusedIds
    BY <2>1 DEF RefusedIds
  <2>5. QED BY <1>3, <2>1, <2>3, <2>4
<1>6. QED BY <1>4, <1>5, SoundStepEffects

(* While SQLite works a frame has one fate: what was evicted, stranded or  *)
(* refused is never delivered later, and what was delivered is not kept    *)
(* for a replay.                                                           *)
THEOREM FrameHasOneFate == Spec => []OneFate
<1>1. Init => FateInv
  BY DEF Init, FateInv, RefusedIds
<1>2. LinkInv /\ FateInv /\ [Next]_vars => FateInv'
  BY StepFateInv
<1>3. LinkInv /\ FateInv => OneFate
  <2> SUFFICES ASSUME LinkInv, FateInv, faults = 0 PROVE OneFate
    BY DEF OneFate
  <2>1. Queued = {} \/ BufferIds = {}
    BY IdTypes, EmptyIds DEF Queued
  <2>2. Pending \intersect Read = {}
    BY PipelineIds DEF LinkInv
  <2>3. QED BY <2>1, <2>2 DEF OneFate, FateInv, Pending, Queued, Read
<1>4. QED BY <1>1, <1>2, <1>3, LinkInvariant, PTL DEF Spec

(* No crash, shutdown or interrupted flush takes a durable row: it stays,  *)
(* goes onto a queue, is delivered from there, or is evicted.              *)
THEOREM DurableRowsSurvive == Spec => DurableRowsKept
<1>1. LinkInv /\ [Next]_vars =>
        [Durable => BufferIds \subseteq BufferIds' \union IdsOf(outbound')
                                          \union OrphanIds' \union evicted']_vars
  <2> SUFFICES ASSUME LinkInv, [Next]_vars, Durable
               PROVE  BufferIds \subseteq BufferIds' \union IdsOf(outbound')
                                            \union OrphanIds' \union evicted'
    OBVIOUS
  <2>1. CASE \E new, E, S, R : Settles(new, E, S, R)
    BY <2>1 DEF Settles, Pending, Queued
  <2>2. CASE Transmit \/ \E i \in DOMAIN orphans : OrphanTransmit(i)
    <3>1. buffer' = buffer
      BY <2>2 DEF Transmit, OrphanTransmit
    <3>2. QED BY <3>1 DEF BufferIds, FramesOf, IdsOf
  <2>3. CASE \E k, d \in 0..Len(buffer) : FlushFails(k, d)
    BY <2>3, FlushFailsKeepsRows
  <2>4. QED BY <2>1, <2>2, <2>3, StepEffects
<1>2. QED BY <1>1, LinkInvariant, PTL DEF Spec, DurableRowsKept

-----------------------------------------------------------------------------
(* The link implements OrderedDelivery                                     *)

LEMMA IdsAppend ==
  ASSUME NEW s \in Seq(Frames), NEW f \in Frames
  PROVE  Ids(Append(s, f)) = Append(Ids(s), f.id)
<1> DEFINE p == Append(s, f)
           a == Ids(s)
           b == Ids(p)
<1>1. /\ p \in Seq(Frames) /\ Len(p) = Len(s) + 1 /\ p[Len(s) + 1] = f
      /\ \A i \in 1..Len(s) : p[i] = s[i]
  BY AppendProperties
<1>2. /\ Len(s) \in Nat /\ DOMAIN s = 1..Len(s) /\ DOMAIN p = 1..Len(p)
      /\ \A i \in 1..Len(s) : s[i].id \in Nat
      /\ \A i \in 1..Len(p) : p[i].id \in Nat
      /\ f.id \in Nat
  <2>1. /\ Len(s) \in Nat /\ DOMAIN s = 1..Len(s) /\ DOMAIN p = 1..Len(p)
        /\ \A i \in 1..Len(s) : s[i] \in Frames
        /\ \A i \in 1..Len(p) : p[i] \in Frames
    BY <1>1
  <2>2. QED BY <2>1 DEF Frames
<1> HIDE DEF p
<1>3. /\ a = [i \in 1..Len(s) |-> s[i].id] /\ b = [i \in 1..Len(p) |-> p[i].id]
  BY <1>2 DEF Ids
<1> HIDE DEF a, b
<1>4. /\ a \in Seq(Nat) /\ Len(a) = Len(s) /\ b \in Seq(Nat) /\ Len(b) = Len(s) + 1
      /\ \A i \in 1..Len(s) : a[i] = s[i].id
      /\ \A i \in 1..(Len(s) + 1) : b[i] = p[i].id
  BY <1>1, <1>2, <1>3
<1>5. /\ Append(a, f.id) \in Seq(Nat) /\ Len(Append(a, f.id)) = Len(a) + 1
      /\ \A i \in 1..Len(a) : Append(a, f.id)[i] = a[i]
      /\ Append(a, f.id)[Len(a) + 1] = f.id
  BY <1>2, <1>4, AppendProperties
<1>6. \A i \in 1..Len(b) : b[i] = Append(a, f.id)[i]
  <2> SUFFICES ASSUME NEW i \in 1..Len(b) PROVE b[i] = Append(a, f.id)[i]
    OBVIOUS
  <2>1. CASE i = Len(s) + 1
    BY <1>1, <1>2, <1>4, <1>5, <2>1
  <2>2. CASE i # Len(s) + 1
    <3>1. i \in 1..Len(s)
      BY <1>2, <1>4, <2>2
    <3>2. b[i] = p[i].id /\ p[i] = s[i] /\ a[i] = s[i].id /\ Append(a, f.id)[i] = a[i]
      BY <1>1, <1>4, <1>5, <3>1
    <3>3. QED BY <3>2
  <2>3. QED BY <2>1, <2>2
<1>7. b = Append(a, f.id)
  BY <1>4, <1>5, <1>6, SeqEqual
<1>8. QED BY <1>7 DEF a, b, p

(* A step that settles frames hands one over or loses some; a step that    *)
(* delivers one delivers the oldest in transit.                            *)
LEMMA StepRefines ==
  ASSUME LinkInv, [Next]_vars, faults' = 0
  PROVE  Abstract!ANext
<1>1. received \in Seq(Frames)
  BY IdTypes
<1>2. CASE \E new, E, S, R : Settles(new, E, S, R)
  <2>1. PICK new, E, S, R : Settles(new, E, S, R)
    BY <1>2
  <2>2. /\ received' = received /\ Pending' \subseteq Pending \union new
        /\ \/ new = {} /\ nextId' = nextId
           \/ new = {nextId} /\ nextId' = nextId + 1
    BY <2>1 DEF Settles
  <2>3. Ids(received)' = Ids(received)
    BY <2>2 DEF Ids
  <2>4. CASE new = {} /\ nextId' = nextId
    <3>1. Abstract!Lose
      BY <2>2, <2>3, <2>4 DEF Abstract!Lose, Pending, Queued
    <3>2. QED BY <3>1 DEF Abstract!ANext
  <2>5. CASE new = {nextId} /\ nextId' = nextId + 1
    <3>1. Abstract!Offer
      BY <2>2, <2>3, <2>5 DEF Abstract!Offer, Pending, Queued
    <3>2. QED BY <3>1 DEF Abstract!ANext
  <2>6. QED BY <2>2, <2>4, <2>5
<1>3. CASE Delivers
  <2>1. PICK f \in Frames :
          /\ received' = Append(received, f) /\ BufferIds = {} /\ BufferIds' = {}
          /\ Queued = {f.id} \union Queued' /\ \A id \in Queued' : f.id < id
          /\ nextId' = nextId
    BY <1>3 DEF Delivers
  <2>2. f.id \in Nat
    BY DEF Frames
  <2>3. f.id \notin Queued'
    BY <2>1, <2>2
  <2>4. Pending' = Pending \ {f.id} /\ f.id \in Pending
    BY <2>1, <2>3 DEF Pending
  <2>5. ASSUME NEW id \in Pending PROVE f.id <= id
    <3>1. id \in Nat
      BY FaultsStay, PipelineIds
    <3>2. id = f.id \/ f.id < id
      BY <2>1 DEF Pending
    <3>3. QED BY <2>2, <3>1, <3>2
  <2>6. Ids(received)' = Append(Ids(received), f.id)
    <3>1. Ids(received)' = Ids(received')
      BY DEF Ids
    <3>2. QED BY <1>1, <2>1, <3>1, IdsAppend
  <2>7. Abstract!Deliver
    BY <2>1, <2>4, <2>5, <2>6 DEF Abstract!Deliver, Pending, Queued
  <2>8. QED BY <2>7 DEF Abstract!ANext
<1>4. QED BY <1>2, <1>3, SoundStepEffects

(* Every behaviour of the link in which SQLite does not fail is one of a   *)
(* lossy FIFO: reconnects, replays, crashes and restarts reorder nothing   *)
(* and deliver nothing twice.                                              *)
THEOREM LinkImplementsOrderedDelivery ==
  Spec /\ [](faults = 0) => ImplementsOrderedDelivery
<1>1. Init => Abstract!AInit
  <2> SUFFICES ASSUME Init PROVE Abstract!AInit
    OBVIOUS
  <2>1. nextId = 1 /\ outbound = <<>> /\ buffer = <<>> /\ received = <<>>
    BY DEF Init
  <2>2. IdsOf(outbound) \union BufferIds = {}
    BY <2>1, EmptyIds DEF BufferIds, RowIds
  <2>3. Ids(received) = <<>>
    BY <2>1 DEF Ids
  <2>4. QED BY <2>1, <2>2, <2>3 DEF Abstract!AInit
<1>2. LinkInv /\ [Next]_vars /\ (faults = 0)' => [Abstract!ANext]_(Abstract!avars)
  BY StepRefines
<1>3. QED
  BY <1>1, <1>2, LinkInvariant, PTL DEF Spec, ImplementsOrderedDelivery, Abstract!ASpec

=============================================================================
