-------------------------- MODULE AtChannelProofs ---------------------------
(***************************************************************************)
(* Proof that a send() lags at most one reply behind for each send() that  *)
(* was abandoned before it (LagBounded of AtChannel).                      *)
(***************************************************************************)
EXTENDS AtChannel, SequenceTheorems, TLAPS

(* The invariant holds when the client is constructed.                     *)
LEMMA InitChannelInv == Init => ChannelInv
<1> SUFFICES ASSUME Init PROVE ChannelInv
  OBVIOUS
<1>1. /\ Len(modem) = 0 /\ Len(lines) = 0 /\ Len(responses) = 0 /\ Len(got) = 0
  BY DEF Init
<1>2. FlagType
  BY DEF Init, FlagType
<1>3. CountType /\ CountInv
  BY <1>1 DEF Init, CountType, CountInv, Free
<1>4. PipeType
  BY EmptySeq DEF Init, PipeType
<1>5. EofInv /\ FreshInv /\ LagBounded
  BY <1>1 DEF Init, EofInv, FreshInv, LagBounded
<1>6. QueueOrder /\ LineOrder /\ ModemOrder /\ StageOrder
  BY <1>1 DEF QueueOrder, LineOrder, ModemOrder, StageOrder
<1>7. QED BY <1>2, <1>3, <1>4, <1>5, <1>6 DEF ChannelInv, TypeOK

(* Replies are numbered.                                                   *)
LEMMA CommandsAreNat ==
  ASSUME PipeType
  PROVE  /\ \A i \in 1..Len(responses) : responses[i].cmd \in Nat
         /\ \A i \in 1..Len(lines) : lines[i].cmd \in Nat
         /\ \A i \in 1..Len(modem) : modem[i] \in Nat
         /\ Len(responses) \in Nat /\ Len(lines) \in Nat
         /\ Len(modem) \in Nat /\ Len(got) \in Nat
<1>1. /\ \A i \in 1..Len(responses) : responses[i] \in Response
      /\ \A i \in 1..Len(lines) : lines[i] \in Lines
      /\ \A i \in 1..Len(modem) : modem[i] \in Nat
  BY ElementOfSeq DEF PipeType
<1>2. QED BY <1>1, LenProperties DEF PipeType, Response, Lines

(* Steps that leave the pipeline of replies alone.                         *)
LEMMA QuietSteps ==
  ASSUME ChannelInv, \/ SendCalled \/ SendWithdrawn \/ SendFails
                     \/ SendAbandoned \/ UNCHANGED vars
  PROVE  ChannelInv'
<1>1. UNCHANGED <<reader, written, modem, lines, responses, got>>
      /\ pending' \in {pending, <<>>}
  BY DEF SendCalled, SendWithdrawn, SendFails, SendAbandoned, vars
<1>2. TypeOK' /\ CountInv'
  <2>1. FlagType'
    BY DEF ChannelInv, TypeOK, FlagType, SendCalled, SendWithdrawn, SendFails,
           SendAbandoned, vars
  <2>2. PipeType'
    <3>1. PipeType /\ <<>> \in Seq(Nat)
      BY EmptySeq DEF ChannelInv, TypeOK
    <3>2. pending' \in Seq(Nat)
      BY <1>1, <3>1 DEF PipeType
    <3>3. QED BY <1>1, <3>1, <3>2 DEF PipeType
  <2>3. Len(got) \in Nat /\ CountType /\ CountInv
    BY DEF ChannelInv, TypeOK, PipeType
  <2>4. CountType' /\ CountInv'
    BY <1>1, <2>3 DEF CountType, CountInv, SendCalled, SendWithdrawn, SendFails,
                      SendAbandoned, vars, Free
  <2>5. QED BY <2>1, <2>2, <2>4 DEF TypeOK
<1>3. EofInv' /\ FreshInv' /\ LagBounded'
  BY <1>1 DEF ChannelInv, EofInv, FreshInv, LagBounded
<1>4. QueueOrder' /\ LineOrder' /\ ModemOrder' /\ StageOrder'
  BY <1>1 DEF ChannelInv, QueueOrder, LineOrder, ModemOrder, StageOrder
<1>5. QED BY <1>2, <1>3, <1>4 DEF ChannelInv

(* The end of the reader empties the line and the modem.                   *)
LEMMA ReaderEnds ==
  ASSUME ChannelInv, ReadBreaks \/ Close
  PROVE  ChannelInv'
<1>1. /\ UNCHANGED <<queued, waiting, written, responses, abandoned, got, pending>>
      /\ ~reader' /\ lines' = <<>> /\ modem' = <<>>
  BY DEF ReadBreaks, Close
<1>2. TypeOK' /\ CountInv'
  <2>1. FlagType'
    BY DEF ChannelInv, TypeOK, FlagType, ReadBreaks, Close
  <2>2. PipeType'
    BY <1>1, EmptySeq DEF ChannelInv, TypeOK, PipeType
  <2>3. CountType' /\ CountInv'
    BY <1>1 DEF ChannelInv, TypeOK, CountType, CountInv
  <2>4. QED BY <2>1, <2>2, <2>3 DEF TypeOK
<1>3. EofInv' /\ FreshInv' /\ LagBounded'
  BY <1>1 DEF ChannelInv, EofInv, FreshInv, LagBounded
<1>4. QueueOrder' /\ LineOrder' /\ ModemOrder' /\ StageOrder'
  BY <1>1 DEF ChannelInv, QueueOrder, LineOrder, ModemOrder, StageOrder
<1>5. QED BY <1>2, <1>3, <1>4 DEF ChannelInv

(* End of file: the error entry goes behind every reply.                   *)
LEMMA EofStep ==
  ASSUME ChannelInv, ReadEof
  PROVE  ChannelInv'
<1> DEFINE entry == [cmd |-> Eof, body |-> <<>>, hasBody |-> FALSE]
<1>1. /\ UNCHANGED <<closed, queued, waiting, written, abandoned, got, pending>>
      /\ ~reader' /\ lines' = <<>> /\ modem' = <<>> /\ reader
  BY DEF ReadEof
<1>2. responses \in Seq(Response) /\ entry \in Response
  BY EmptySeq DEF ChannelInv, TypeOK, PipeType, Response, Eof
<1>0. FlagType' /\ CountType' /\ CountInv'
  <2>1. FlagType'
    BY DEF ChannelInv, TypeOK, FlagType, ReadEof
  <2>2. CountType' /\ CountInv'
    BY <1>1 DEF ChannelInv, TypeOK, CountType, CountInv
  <2>3. QED BY <2>1, <2>2
<1>3. CASE waiting = Free
  <2>1. responses' = responses
    BY <1>3 DEF ReadEof
  <2>2. TypeOK' /\ CountInv'
    BY <1>0, <1>1, <2>1, EmptySeq DEF ChannelInv, TypeOK, PipeType
  <2>3. EofInv' /\ FreshInv' /\ LagBounded'
    BY <1>1, <2>1 DEF ChannelInv, EofInv, FreshInv, LagBounded
  <2>4. QueueOrder' /\ LineOrder' /\ ModemOrder' /\ StageOrder'
    BY <1>1, <2>1 DEF ChannelInv, QueueOrder, LineOrder, ModemOrder, StageOrder
  <2>5. QED BY <2>2, <2>3, <2>4 DEF ChannelInv
<1>4. CASE waiting # Free
  <2>1. responses' = Append(responses, entry)
    BY <1>4 DEF ReadEof
  <2>2. /\ responses' \in Seq(Response) /\ Len(responses') = Len(responses) + 1
        /\ Len(responses) \in Nat
        /\ \A i \in 1..Len(responses) : responses'[i] = responses[i]
        /\ responses'[Len(responses) + 1] = entry
    BY <1>2, <2>1, AppendProperties
  <2>3. /\ entry.cmd = Eof
        /\ \A i \in 1..Len(responses) : responses[i].cmd # Eof
    BY <1>1 DEF ChannelInv, EofInv
  <2>4. TypeOK' /\ CountInv'
    BY <1>0, <1>1, <2>2, EmptySeq DEF ChannelInv, TypeOK, PipeType
  <2> HIDE DEF entry
  <2>a. \A i \in 1..Len(responses') :
          \/ i \in 1..Len(responses) /\ responses'[i] = responses[i]
          \/ i = Len(responses') /\ responses'[i] = entry
    BY <2>2
  <2>5. EofInv' /\ FreshInv' /\ LagBounded'
    <3>1. \A i \in 1..Len(responses') :
            responses'[i].cmd = Eof => i = Len(responses')
      BY <2>3, <2>a
    <3>2. EofInv'
      BY <1>1, <3>1 DEF EofInv
    <3>3. \A i \in 1..Len(responses') : responses'[i].cmd # Eof =>
            responses'[i].cmd \in (Len(got) + 1)..written
      BY <2>3, <2>a DEF ChannelInv, FreshInv
    <3>4. 1..Len(lines') = {} /\ 1..Len(modem') = {}
      BY <1>1, EmptySeq
    <3>5. FreshInv'
      BY <1>1, <3>3, <3>4 DEF FreshInv
    <3>6. LagBounded'
      BY <1>1 DEF ChannelInv, LagBounded
    <3>7. QED BY <3>2, <3>5, <3>6
  <2>6. QueueOrder' /\ LineOrder' /\ ModemOrder' /\ StageOrder'
    <3>1. ASSUME NEW i \in 1..Len(responses'), NEW j \in 1..Len(responses'),
                 i < j, responses'[j].cmd # Eof
          PROVE  responses'[i].cmd < responses'[j].cmd
      <4>1. j \in 1..Len(responses) /\ responses'[j] = responses[j]
        BY <2>3, <2>a, <3>1
      <4>2. i \in 1..Len(responses) /\ responses'[i] = responses[i]
        BY <2>2, <3>1, <4>1
      <4>3. QED BY <3>1, <4>1, <4>2 DEF ChannelInv, QueueOrder
    <3>2. 1..Len(lines') = {} /\ 1..Len(modem') = {}
      BY <1>1, EmptySeq
    <3>3. QED BY <3>1, <3>2 DEF QueueOrder, LineOrder, ModemOrder, StageOrder
  <2>7. QED BY <2>4, <2>5, <2>6 DEF ChannelInv
<1>5. QED BY <1>3, <1>4

(* A new command has the highest number of all.                            *)
LEMMA SendStartsStep ==
  ASSUME ChannelInv, SendStarts
  PROVE  ChannelInv'
<1>1. /\ UNCHANGED <<closed, reader, lines, responses, abandoned, got>>
      /\ written \in Nat /\ written' = written + 1 /\ waiting' = written + 1
      /\ waiting = Free /\ modem \in Seq(Nat) /\ pending' = <<>>
      /\ queued \in Nat /\ queued' = queued - 1 /\ queued > 0
      /\ got \in Seq(Result)
  BY DEF SendStarts, ChannelInv, TypeOK, PipeType, CountType
<1>2. /\ modem' \in Seq(Nat)
      /\ Len(modem) \in Nat
      /\ \A i \in 1..Len(modem') :
           \/ i \in 1..Len(modem) /\ modem'[i] = modem[i]
           \/ i = Len(modem) + 1 /\ i = Len(modem') /\ modem'[i] = written + 1 /\ reader
  <2>1. CASE ~reader
    BY <1>1, <2>1 DEF SendStarts
  <2>2. CASE reader
    BY <1>1, <2>2, AppendProperties DEF SendStarts
  <2>3. QED BY <2>1, <2>2
<1>3. Len(got) \in Nat
  BY <1>1
<1>4. TypeOK'
  <2>1. FlagType'
    BY <1>1 DEF ChannelInv, TypeOK, FlagType
  <2>2. CountType'
    BY <1>1 DEF ChannelInv, TypeOK, CountType
  <2>3. PipeType'
    BY <1>1, <1>2, EmptySeq DEF ChannelInv, TypeOK, PipeType
  <2>4. QED BY <2>1, <2>2, <2>3 DEF TypeOK
<1>5. CountInv'
  BY <1>1, <1>3 DEF ChannelInv, TypeOK, CountType, CountInv, Free
<1>6. Len(got) <= written
  BY <1>1, <1>3 DEF ChannelInv, TypeOK, CountType, CountInv
<1>7. EofInv'
  BY <1>1 DEF ChannelInv, EofInv, SendStarts
<1>8. FreshInv'
  <2>1. \A n \in (Len(got) + 1)..written : n \in (Len(got') + 1)..written'
    BY <1>1, <1>3
  <2>2. \A i \in 1..Len(modem') : modem'[i] \in (Len(got') + 1)..written'
    <3> SUFFICES ASSUME NEW i \in 1..Len(modem')
                 PROVE  modem'[i] \in (Len(got') + 1)..written'
      OBVIOUS
    <3>1. CASE i \in 1..Len(modem) /\ modem'[i] = modem[i]
      BY <2>1, <3>1 DEF ChannelInv, FreshInv
    <3>2. CASE modem'[i] = written + 1
      BY <1>1, <1>3, <1>6, <3>2
    <3>3. QED BY <1>2, <3>1, <3>2
  <2>3. QED BY <1>1, <2>1, <2>2 DEF ChannelInv, FreshInv
<1>9. LagBounded' /\ QueueOrder' /\ LineOrder'
  BY <1>1 DEF ChannelInv, LagBounded, QueueOrder, LineOrder
<1>10. ModemOrder'
  <2> SUFFICES ASSUME NEW i \in 1..Len(modem'), NEW j \in 1..Len(modem'), i < j
               PROVE  modem'[i] < modem'[j]
    BY DEF ModemOrder
  <2>1. i \in 1..Len(modem) /\ modem'[i] = modem[i]
    BY <1>2
  <2>2. CASE j \in 1..Len(modem) /\ modem'[j] = modem[j]
    BY <2>1, <2>2 DEF ChannelInv, ModemOrder
  <2>3. CASE modem'[j] = written + 1
    <3>1. modem[i] \in (Len(got) + 1)..written
      BY <2>1 DEF ChannelInv, FreshInv
    <3>2. QED BY <1>1, <1>3, <2>1, <2>3, <3>1
  <2>4. QED BY <1>2, <2>2, <2>3
<1>11. StageOrder'
  <2>1. \A i \in 1..Len(responses) : responses[i].cmd < written + 1
    BY <1>1, <1>3, CommandsAreNat DEF ChannelInv, TypeOK, FreshInv, Eof
  <2>2. \A i \in 1..Len(lines) :
          lines[i].kind = "final" => lines[i].cmd < written + 1
    BY <1>1, <1>3, CommandsAreNat DEF ChannelInv, TypeOK, FreshInv
  <2>3. QED BY <1>1, <1>2, <2>1, <2>2 DEF ChannelInv, StageOrder
<1>12. QED
  BY <1>4, <1>5, <1>7, <1>8, <1>9, <1>10, <1>11 DEF ChannelInv

(* The oldest reply is handed out.  It is not newer than the command asked *)
(* last, and at least as new as the count of replies so far.               *)
LEMMA SendReturnsStep ==
  ASSUME ChannelInv, SendReturns
  PROVE  ChannelInv'
<1> DEFINE result == [asked |-> waiting, abandoned |-> abandoned,
                      response |-> Head(responses)]
<1>1. /\ UNCHANGED <<closed, reader, queued, written, modem, lines, pending, abandoned>>
      /\ waiting # Free /\ waiting' = Free /\ responses # <<>>
      /\ responses \in Seq(Response) /\ got \in Seq(Result)
      /\ waiting \in Nat /\ abandoned \in Nat /\ written \in Nat
      /\ Len(got) \in Nat
  BY DEF SendReturns, ChannelInv, TypeOK, PipeType, CountType
<1>2. /\ responses' \in Seq(Response) /\ Len(responses') = Len(responses) - 1
      /\ Len(responses) \in Nat \ {0}
      /\ \A i \in 1..Len(responses') : responses'[i] = responses[i + 1]
      /\ Head(responses) = responses[1] /\ Head(responses) \in Response
  BY <1>1, HeadTailProperties, EmptySeq DEF SendReturns
<1>3. result \in Result
  BY <1>1, <1>2 DEF Result
<1>4. /\ got' \in Seq(Result) /\ Len(got') = Len(got) + 1
      /\ \A i \in 1..Len(got) : got'[i] = got[i]
      /\ got'[Len(got) + 1] = result
  BY <1>1, <1>3, AppendProperties DEF SendReturns
<1>5. TypeOK'
  <2>1. FlagType'
    BY <1>1 DEF ChannelInv, TypeOK, FlagType
  <2>2. CountType'
    BY <1>1 DEF ChannelInv, TypeOK, CountType, Free
  <2>3. PipeType'
    BY <1>1, <1>2, <1>4 DEF ChannelInv, TypeOK, PipeType
  <2>4. QED BY <2>1, <2>2, <2>3 DEF TypeOK
<1>6. CountInv' /\ waiting = written /\ written = Len(got) + abandoned + 1
  BY <1>1, <1>4 DEF ChannelInv, CountInv, Free
<1>7. 1 \in 1..Len(responses) /\ \A i \in 1..Len(responses') : i + 1 \in 1..Len(responses)
  BY <1>2
<1>8. EofInv'
  BY <1>1, <1>2, <1>7 DEF ChannelInv, EofInv
<1>9. LagBounded'
  <2>1. responses[1].cmd # Eof =>
          /\ responses[1].cmd <= waiting
          /\ waiting - abandoned <= responses[1].cmd
    BY <1>1, <1>6, <1>7 DEF ChannelInv, FreshInv
  <2>2. LagBounded
    BY DEF ChannelInv
  <2>3. SUFFICES ASSUME NEW i \in 1..Len(got'), got'[i].response.cmd # Eof
                 PROVE  /\ got'[i].response.cmd <= got'[i].asked
                        /\ got'[i].asked - got'[i].abandoned <= got'[i].response.cmd
    BY DEF LagBounded
  <2>4. CASE i \in 1..Len(got)
    BY <1>4, <2>2, <2>3, <2>4 DEF LagBounded
  <2>5. CASE i = Len(got) + 1
    BY <1>2, <1>4, <2>1, <2>3, <2>5
  <2>6. QED BY <1>1, <1>4, <2>4, <2>5
<1>10. FreshInv'
  <2>1. CASE responses[1].cmd = Eof
    BY <1>1, <1>2, <1>7, <2>1 DEF ChannelInv, EofInv, FreshInv
  <2>2. CASE responses[1].cmd # Eof
    <3>1. responses[1].cmd \in (Len(got) + 1)..written
      BY <1>7, <2>2 DEF ChannelInv, FreshInv
    <3>2. \A i \in 1..Len(responses') :
            responses'[i].cmd # Eof => responses[1].cmd < responses'[i].cmd
      BY <1>2, <1>7 DEF ChannelInv, QueueOrder
    <3>3. \A i \in 1..Len(responses') : responses'[i].cmd # Eof =>
            responses'[i].cmd \in (Len(got') + 1)..written
      <4> SUFFICES ASSUME NEW i \in 1..Len(responses'), responses'[i].cmd # Eof
                   PROVE  responses'[i].cmd \in (Len(got') + 1)..written
        OBVIOUS
      <4>1. responses'[i].cmd \in (Len(got) + 1)..written
        BY <1>2, <1>7 DEF ChannelInv, FreshInv
      <4>2. QED BY <1>1, <1>4, <3>1, <3>2, <4>1
    <3>4. \A i \in 1..Len(lines) : lines[i].kind = "final" =>
            lines[i].cmd \in (Len(got') + 1)..written
      BY <1>1, <1>4, <1>7, <3>1 DEF ChannelInv, FreshInv, StageOrder
    <3>5. \A i \in 1..Len(modem) : modem[i] \in (Len(got') + 1)..written
      BY <1>1, <1>4, <1>7, <3>1 DEF ChannelInv, FreshInv, StageOrder
    <3>6. QED BY <1>1, <3>3, <3>4, <3>5 DEF FreshInv
  <2>3. QED BY <2>1, <2>2
<1>11. QueueOrder'
  BY <1>2, <1>7 DEF ChannelInv, QueueOrder
<1>12. LineOrder' /\ ModemOrder' /\ StageOrder'
  BY <1>1, <1>2, <1>7 DEF ChannelInv, LineOrder, ModemOrder, StageOrder
<1>13. QED
  BY <1>5, <1>6, <1>8, <1>9, <1>10, <1>11, <1>12 DEF ChannelInv

(* Appending a line.                                                       *)
LEMMA AppendLine ==
  ASSUME NEW s \in Seq(Lines), NEW e \in Lines
  PROVE  /\ Append(s, e) \in Seq(Lines)
         /\ Len(Append(s, e)) = Len(s) + 1 /\ Len(s) \in Nat
         /\ \A i \in 1..Len(s) : Append(s, e)[i] = s[i]
         /\ Append(s, e)[Len(s) + 1] = e
  BY AppendProperties, LenProperties

(* The modem answers: the lines of its oldest command go behind the lines  *)
(* of earlier ones.                                                        *)
LEMMA ReplyStep ==
  ASSUME ChannelInv,
         (\E hasBody \in BOOLEAN : Replies(hasBody)) \/ RepliesWithUrc
  PROVE  ChannelInv'
<1>1. /\ UNCHANGED <<closed, reader, queued, waiting, written, pending>>
      /\ UNCHANGED <<responses, abandoned, got>>
      /\ reader /\ modem # <<>> /\ modem' = Tail(modem)
      /\ modem \in Seq(Nat) /\ lines \in Seq(Lines) /\ written \in Nat
      /\ Len(got) \in Nat /\ Len(responses) \in Nat /\ Len(lines) \in Nat
  <2>1. /\ modem \in Seq(Nat) /\ lines \in Seq(Lines) /\ written \in Nat
        /\ Len(got) \in Nat /\ Len(responses) \in Nat /\ Len(lines) \in Nat
    BY CommandsAreNat DEF ChannelInv, TypeOK, PipeType, CountType
  <2>2. CASE \E hasBody \in BOOLEAN : Replies(hasBody)
    BY <2>1, <2>2 DEF Replies
  <2>3. CASE RepliesWithUrc
    BY <2>1, <2>3 DEF RepliesWithUrc
  <2>4. QED BY <2>2, <2>3
<1>2. /\ modem' \in Seq(Nat) /\ Len(modem') = Len(modem) - 1
      /\ Len(modem) \in Nat \ {0}
      /\ \A i \in 1..Len(modem') : modem'[i] = modem[i + 1]
      /\ Head(modem) = modem[1] /\ Head(modem) \in Nat
  BY <1>1, HeadTailProperties, EmptySeq
<1>3. 1 \in 1..Len(modem) /\ \A i \in 1..Len(modem') : i + 1 \in 1..Len(modem)
  BY <1>2
<1>4. /\ lines' \in Seq(Lines) /\ Len(lines') \in Nat
      /\ \A i \in 1..Len(lines') :
           \/ i \in 1..Len(lines) /\ lines'[i] = lines[i]
           \/ lines'[i].kind # "final"
           \/ i = Len(lines') /\ i > Len(lines) /\ lines'[i].cmd = modem[1]
  <2>1. \A hasBody \in BOOLEAN : \A kind \in {"body", "final", "urc"} :
          Line(kind, Head(modem), hasBody) \in Lines
    BY <1>2 DEF Line, Lines
  <2>2. ASSUME NEW hasBody \in BOOLEAN, Replies(hasBody)
        PROVE  <1>4!1 /\ <1>4!2
    <3> DEFINE body == Line("body", Head(modem), TRUE)
               final == Line("final", Head(modem), hasBody)
    <3>0. body \in Lines /\ final \in Lines /\ body.kind = "body"
          /\ final.cmd = modem[1]
      BY <1>2, <2>1 DEF Line
    <3>1. CASE hasBody
      <4>1. /\ Append(lines, body) \in Seq(Lines)
            /\ Len(Append(lines, body)) = Len(lines) + 1
            /\ \A i \in 1..Len(lines) : Append(lines, body)[i] = lines[i]
            /\ Append(lines, body)[Len(lines) + 1] = body
        BY <1>1, <3>0, AppendLine
      <4>2. lines' = Append(Append(lines, body), final)
        BY <2>2, <3>1 DEF Replies
      <4> HIDE DEF body, final
      <4>3. /\ lines' \in Seq(Lines) /\ Len(lines') = Len(lines) + 2
            /\ \A i \in 1..(Len(lines) + 1) : lines'[i] = Append(lines, body)[i]
            /\ lines'[Len(lines) + 2] = final
        BY <1>1, <3>0, <4>1, <4>2, AppendLine
      <4>4. Len(lines) \in Nat /\ Len(lines') = Len(lines) + 2
        BY <1>1, <4>3
      <4>a. \A i \in 1..Len(lines) : i \in 1..(Len(lines) + 1)
        BY <4>4
      <4>5. ASSUME NEW i \in 1..Len(lines')
            PROVE  \/ i \in 1..Len(lines) /\ lines'[i] = lines[i]
                   \/ lines'[i].kind # "final"
                   \/ i = Len(lines') /\ i > Len(lines)
                      /\ lines'[i].cmd = modem[1]
        <5>1. CASE i \in 1..Len(lines)
          <6>1. lines'[i] = lines[i]
            BY <4>1, <4>3, <4>a, <5>1
          <6>2. QED BY <5>1, <6>1
        <5>2. CASE i = Len(lines) + 1
          <6>1. lines'[i] = body
            BY <4>1, <4>3, <4>4, <5>2
          <6>2. lines'[i].kind # "final"
            BY <3>0, <6>1
          <6>3. QED BY <6>2
        <5>3. CASE i = Len(lines) + 2
          <6>1. lines'[i].cmd = modem[1]
            BY <3>0, <4>3, <5>3
          <6>2. QED BY <4>4, <5>3, <6>1
        <5>4. \/ i \in 1..Len(lines) \/ i = Len(lines) + 1
              \/ i = Len(lines) + 2
          BY <4>4
        <5>5. QED BY <5>1, <5>2, <5>3, <5>4
      <4>6. QED BY <1>1, <4>3, <4>5
    <3>2. CASE ~hasBody
      <4>1. lines' = Append(lines, final)
        BY <2>2, <3>2 DEF Replies
      <4> HIDE DEF body, final
      <4>2. /\ lines' \in Seq(Lines) /\ Len(lines') = Len(lines) + 1
            /\ \A i \in 1..Len(lines) : lines'[i] = lines[i]
            /\ lines'[Len(lines) + 1] = final
        BY <1>1, <3>0, <4>1, AppendLine
      <4>3. QED BY <1>1, <3>0, <4>2
    <3>3. QED BY <3>1, <3>2
  <2>3. ASSUME RepliesWithUrc
        PROVE  <1>4!1 /\ <1>4!2
    <3> DEFINE urc == Line("urc", Head(modem), FALSE)
    <3>1. urc \in Lines /\ lines' = Append(lines, urc) /\ urc.kind = "urc"
      BY <2>1, <2>3 DEF RepliesWithUrc, Line
    <3> HIDE DEF urc
    <3>2. /\ lines' \in Seq(Lines) /\ Len(lines') = Len(lines) + 1
          /\ \A i \in 1..Len(lines) : lines'[i] = lines[i]
          /\ lines'[Len(lines) + 1] = urc
      BY <1>1, <3>1, AppendLine
    <3>3. QED BY <1>1, <3>1, <3>2
  <2>4. QED BY <2>2, <2>3
<1>5. TypeOK' /\ CountInv'
  <2>1. FlagType'
    BY <1>1 DEF ChannelInv, TypeOK, FlagType
  <2>2. CountType' /\ CountInv'
    BY <1>1 DEF ChannelInv, TypeOK, CountType, CountInv
  <2>3. PipeType'
    BY <1>1, <1>2, <1>4 DEF ChannelInv, TypeOK, PipeType
  <2>4. QED BY <2>1, <2>2, <2>3 DEF TypeOK
<1>6. EofInv' /\ LagBounded' /\ QueueOrder'
  BY <1>1 DEF ChannelInv, EofInv, LagBounded, QueueOrder
<1>7. FreshInv'
  <2>1. \A i \in 1..Len(modem') : modem'[i] \in (Len(got) + 1)..written
    BY <1>2, <1>3 DEF ChannelInv, FreshInv
  <2>2. \A i \in 1..Len(lines') :
          lines'[i].kind = "final" => lines'[i].cmd \in (Len(got) + 1)..written
    <3> SUFFICES ASSUME NEW i \in 1..Len(lines'), lines'[i].kind = "final"
                 PROVE  lines'[i].cmd \in (Len(got) + 1)..written
      OBVIOUS
    <3>1. CASE i \in 1..Len(lines) /\ lines'[i] = lines[i]
      BY <3>1 DEF ChannelInv, FreshInv
    <3>2. CASE lines'[i].cmd = modem[1]
      BY <1>3, <3>2 DEF ChannelInv, FreshInv
    <3>3. QED BY <1>4, <3>1, <3>2
  <2>3. QED BY <1>1, <2>1, <2>2 DEF ChannelInv, FreshInv
<1>8. ModemOrder'
  <2> SUFFICES ASSUME NEW i \in 1..Len(modem'), NEW j \in 1..Len(modem'), i < j
               PROVE  modem'[i] < modem'[j]
    BY DEF ModemOrder
  <2>1. /\ i + 1 \in 1..Len(modem) /\ j + 1 \in 1..Len(modem) /\ i + 1 < j + 1
        /\ modem'[i] = modem[i + 1] /\ modem'[j] = modem[j + 1]
    <3>1. modem'[i] = modem[i + 1] /\ modem'[j] = modem[j + 1]
      BY <1>2
    <3>2. i + 1 \in 1..Len(modem) /\ j + 1 \in 1..Len(modem)
      BY <1>3
    <3>3. QED BY <3>1, <3>2
  <2>2. QED BY <2>1 DEF ChannelInv, ModemOrder
<1>9. LineOrder'
  <2> SUFFICES ASSUME NEW i \in 1..Len(lines'), NEW j \in 1..Len(lines'), i < j,
                      lines'[i].kind = "final", lines'[j].kind = "final"
               PROVE  lines'[i].cmd < lines'[j].cmd
    BY DEF LineOrder
  <2>1. i \in 1..Len(lines) /\ lines'[i] = lines[i]
    BY <1>4
  <2>2. CASE j \in 1..Len(lines) /\ lines'[j] = lines[j]
    BY <2>1, <2>2 DEF ChannelInv, LineOrder
  <2>3. CASE lines'[j].cmd = modem[1]
    BY <1>3, <2>1, <2>3 DEF ChannelInv, StageOrder
  <2>4. QED BY <1>4, <2>2, <2>3
<1>10. StageOrder'
  <2>1. ASSUME NEW i \in 1..Len(responses), NEW j \in 1..Len(lines'),
               lines'[j].kind = "final"
        PROVE  responses[i].cmd < lines'[j].cmd
    BY <1>3, <1>4, <2>1 DEF ChannelInv, StageOrder
  <2>2. ASSUME NEW i \in 1..Len(responses), NEW j \in 1..Len(modem')
        PROVE  responses[i].cmd < modem'[j]
    BY <1>2, <1>3 DEF ChannelInv, StageOrder
  <2>3. ASSUME NEW i \in 1..Len(lines'), NEW j \in 1..Len(modem'),
               lines'[i].kind = "final"
        PROVE  lines'[i].cmd < modem'[j]
    <3>1. j + 1 \in 1..Len(modem) /\ modem'[j] = modem[j + 1] /\ 1 < j + 1
      BY <1>2
    <3>2. CASE i \in 1..Len(lines) /\ lines'[i] = lines[i]
      BY <2>3, <3>1, <3>2 DEF ChannelInv, StageOrder
    <3>3. CASE lines'[i].cmd = modem[1]
      BY <1>3, <3>1, <3>3 DEF ChannelInv, ModemOrder
    <3>4. QED BY <1>4, <2>3, <3>2, <3>3
  <2>4. QED BY <1>1, <2>1, <2>2, <2>3 DEF StageOrder
<1>11. QED BY <1>5, <1>6, <1>7, <1>8, <1>9, <1>10 DEF ChannelInv

(* The reader moves a terminal line's reply to the end of the queue.       *)
LEMMA ReadLineStep ==
  ASSUME ChannelInv, ReadLine
  PROVE  ChannelInv'
<1> DEFINE line == Head(lines)
           reply == [cmd |-> line.cmd, body |-> pending, hasBody |-> line.hasBody]
<1>1. /\ UNCHANGED <<closed, reader, queued, waiting, written, modem, abandoned, got>>
      /\ reader /\ lines # <<>> /\ lines' = Tail(lines)
      /\ lines \in Seq(Lines) /\ responses \in Seq(Response)
      /\ pending \in Seq(Nat)
      /\ Len(got) \in Nat /\ Len(responses) \in Nat /\ Len(modem) \in Nat
  BY DEF ReadLine, ChannelInv, TypeOK, PipeType
<1>2. /\ lines' \in Seq(Lines) /\ Len(lines') = Len(lines) - 1
      /\ Len(lines) \in Nat \ {0}
      /\ \A i \in 1..Len(lines') : lines'[i] = lines[i + 1]
      /\ line = lines[1] /\ line \in Lines
  BY <1>1, HeadTailProperties, EmptySeq
<1>3. 1 \in 1..Len(lines) /\ \A i \in 1..Len(lines') : i + 1 \in 1..Len(lines)
  BY <1>2
<1>4. line.kind \in {"body", "final", "urc"} /\ line.cmd \in Nat /\ line.hasBody \in BOOLEAN
  BY <1>2 DEF Lines
<1>5. /\ FlagType' /\ CountType' /\ CountInv' /\ LagBounded' /\ LineOrder'
      /\ ModemOrder'
  <2>1. FlagType'
    BY <1>1 DEF ChannelInv, TypeOK, FlagType
  <2>2. CountType' /\ CountInv' /\ LagBounded' /\ ModemOrder'
    BY <1>1 DEF ChannelInv, TypeOK, CountType, CountInv, LagBounded, ModemOrder
  <2>3. LineOrder'
    BY <1>2, <1>3 DEF ChannelInv, LineOrder
  <2>4. QED BY <2>1, <2>2, <2>3
<1>6. \A i \in 1..Len(responses) : responses[i].cmd # Eof
  BY <1>1 DEF ChannelInv, EofInv
<1>7. CASE line.kind # "final"
  <2>1. responses' = responses /\ pending' \in Seq(Nat)
    <3>1. CASE line.kind = "body"
      <4>1. responses' = responses /\ pending' = Append(pending, line.cmd)
        BY <3>1 DEF ReadLine
      <4>2. Append(pending, line.cmd) \in Seq(Nat)
        BY <1>1, <1>4, AppendProperties
      <4>3. QED BY <4>1, <4>2
    <3>2. CASE line.kind = "urc"
      BY <1>1, <1>4, <3>2 DEF ReadLine
    <3>3. QED BY <1>4, <1>7, <3>1, <3>2
  <2>2. TypeOK'
    BY <1>1, <1>2, <1>5, <2>1 DEF ChannelInv, TypeOK, PipeType
  <2>3. EofInv' /\ QueueOrder'
    BY <1>1, <2>1 DEF ChannelInv, EofInv, QueueOrder
  <2>4. FreshInv'
    BY <1>1, <1>2, <1>3, <2>1 DEF ChannelInv, FreshInv
  <2>5. StageOrder'
    BY <1>1, <1>2, <1>3, <2>1 DEF ChannelInv, StageOrder
  <2>6. QED BY <1>5, <2>2, <2>3, <2>4, <2>5 DEF ChannelInv
<1>8. CASE line.kind = "final"
  <2>1. responses' = Append(responses, reply) /\ pending' = <<>>
    BY <1>8 DEF ReadLine
  <2>2. reply \in Response /\ reply.cmd = lines[1].cmd
    BY <1>1, <1>2, <1>4 DEF Response
  <2>3. /\ responses' \in Seq(Response) /\ Len(responses') = Len(responses) + 1
        /\ \A i \in 1..Len(responses) : responses'[i] = responses[i]
        /\ responses'[Len(responses) + 1] = reply
    BY <1>1, <2>1, <2>2, AppendProperties
  <2>4. lines[1].kind = "final" /\ lines[1].cmd \in (Len(got) + 1)..written
    BY <1>2, <1>3, <1>8 DEF ChannelInv, FreshInv
  <2>5. \A i \in 1..Len(responses') :
          \/ i \in 1..Len(responses) /\ responses'[i] = responses[i]
          \/ i = Len(responses') /\ responses'[i].cmd = lines[1].cmd
    BY <1>1, <2>2, <2>3
  <2>6. PipeType'
    BY <1>1, <1>2, <2>1, <2>3, EmptySeq DEF ChannelInv, TypeOK, PipeType
  <2>7. lines[1].cmd # Eof
    BY <1>1, <2>4 DEF Eof
  <2>8. EofInv'
    BY <1>1, <1>6, <2>5, <2>7 DEF ChannelInv, EofInv
  <2>9. FreshInv'
    <3>1. \A i \in 1..Len(responses') : responses'[i].cmd # Eof =>
            responses'[i].cmd \in (Len(got) + 1)..written
      BY <2>4, <2>5 DEF ChannelInv, FreshInv
    <3>2. \A i \in 1..Len(lines') : lines'[i].kind = "final" =>
            lines'[i].cmd \in (Len(got) + 1)..written
      BY <1>2, <1>3 DEF ChannelInv, FreshInv
    <3>3. QED BY <1>1, <3>1, <3>2 DEF ChannelInv, FreshInv
  <2>10. QueueOrder'
    <3> SUFFICES ASSUME NEW i \in 1..Len(responses'), NEW j \in 1..Len(responses'),
                        i < j, responses'[j].cmd # Eof
                 PROVE  responses'[i].cmd < responses'[j].cmd
      BY DEF QueueOrder
    <3>1. i \in 1..Len(responses) /\ responses'[i] = responses[i]
      BY <1>1, <2>3
    <3>2. CASE j \in 1..Len(responses) /\ responses'[j] = responses[j]
      BY <3>1, <3>2 DEF ChannelInv, QueueOrder
    <3>3. CASE responses'[j].cmd = lines[1].cmd
      BY <1>3, <2>4, <3>1, <3>3 DEF ChannelInv, StageOrder
    <3>4. QED BY <2>5, <3>2, <3>3
  <2>11. StageOrder'
    <3>1. ASSUME NEW i \in 1..Len(responses'), NEW j \in 1..Len(lines'),
                 lines'[j].kind = "final"
          PROVE  responses'[i].cmd < lines'[j].cmd
      <4>1. j + 1 \in 1..Len(lines) /\ lines'[j] = lines[j + 1] /\ 1 < j + 1
        BY <1>2
      <4>2. CASE i \in 1..Len(responses) /\ responses'[i] = responses[i]
        BY <3>1, <4>1, <4>2 DEF ChannelInv, StageOrder
      <4>3. CASE responses'[i].cmd = lines[1].cmd
        BY <1>3, <2>4, <3>1, <4>1, <4>3 DEF ChannelInv, LineOrder
      <4>4. QED BY <2>5, <4>2, <4>3
    <3>2. ASSUME NEW i \in 1..Len(responses'), NEW j \in 1..Len(modem)
          PROVE  responses'[i].cmd < modem[j]
      BY <1>3, <2>4, <2>5 DEF ChannelInv, StageOrder
    <3>3. ASSUME NEW i \in 1..Len(lines'), NEW j \in 1..Len(modem),
                 lines'[i].kind = "final"
          PROVE  lines'[i].cmd < modem[j]
      BY <1>2, <1>3, <3>3 DEF ChannelInv, StageOrder
    <3>4. QED BY <1>1, <3>1, <3>2, <3>3 DEF StageOrder
  <2>12. QED
    BY <1>5, <2>6, <2>8, <2>9, <2>10, <2>11 DEF ChannelInv, TypeOK
<1>9. QED BY <1>7, <1>8

(* Every step of the client, its callers and the modem keeps the invariant. *)
LEMMA NextChannelInv == ChannelInv /\ [Next]_vars => ChannelInv'
<1> SUFFICES ASSUME ChannelInv, [Next]_vars PROVE ChannelInv'
  OBVIOUS
<1>1. CASE \/ SendCalled \/ SendWithdrawn \/ SendFails
           \/ SendAbandoned \/ UNCHANGED vars
  BY <1>1, QuietSteps
<1>2. CASE SendStarts
  BY <1>2, SendStartsStep
<1>3. CASE SendReturns
  BY <1>3, SendReturnsStep
<1>4. CASE (\E hasBody \in BOOLEAN : Replies(hasBody)) \/ RepliesWithUrc
  BY <1>4, ReplyStep
<1>5. CASE ReadLine
  BY <1>5, ReadLineStep
<1>6. CASE ReadEof
  BY <1>6, EofStep
<1>7. CASE ReadBreaks \/ Close
  BY <1>7, ReaderEnds
<1>8. QED
  BY <1>1, <1>2, <1>3, <1>4, <1>5, <1>6, <1>7 DEF Next

(* For any number of commands, callers and abandoned sends the invariant   *)
(* of the AT channel holds.                                                *)
THEOREM ChannelInvariant == Spec => []ChannelInv
<1>1. QED BY InitChannelInv, NextChannelInv, PTL DEF Spec

(* A reply never comes from a later command, and lags at most one command  *)
(* behind per abandoned send(); if none was abandoned, every send() got    *)
(* its own reply.                                                          *)
THEOREM LagIsBounded == Spec => []LagBounded
<1>1. ChannelInv => LagBounded
  BY DEF ChannelInv
<1>2. QED BY <1>1, ChannelInvariant, PTL

-----------------------------------------------------------------------------
(* The body of a reply                                                     *)

(* On the wire a body line is followed by its terminal line, and a         *)
(* terminal line that announces a body has it in front.                    *)
Framed(ls) ==
  /\ \A i \in 1..Len(ls) : ls[i].kind = "body" =>
       /\ i + 1 \in 1..Len(ls) /\ ls[i + 1].kind = "final"
       /\ ls[i + 1].cmd = ls[i].cmd /\ ls[i + 1].hasBody
  /\ \A i \in 1..Len(ls) : i # 1 /\ ls[i].kind = "final" /\ ls[i].hasBody =>
       ls[i - 1].kind = "body"

ExpectsBody(ls) == Len(ls) > 0 /\ ls[1].kind = "final" /\ ls[1].hasBody

(* A reply whose body is its own, and complete if complete holds.          *)
OwnBody(r, complete) ==
  /\ \A j \in 1..Len(r.body) : r.body[j] = r.cmd
  /\ complete => Len(r.body) = (IF r.hasBody THEN 1 ELSE 0)

(* The collected line, if any, belongs to the terminal line read next; it  *)
(* can only have been dropped if a send() was abandoned, since otherwise   *)
(* no command is written while a reply is still under way.                 *)
CollectedInv ==
  /\ closed => ~reader
  /\ Framed(lines)
  /\ reader => Len(pending) \in {0, 1}
  /\ reader /\ Len(pending) = 1 => ExpectsBody(lines) /\ pending[1] = lines[1].cmd
  /\ abandoned = 0 /\ ExpectsBody(lines) => Len(pending) = 1

BodiesInv ==
  /\ \A i \in 1..Len(responses) : OwnBody(responses[i], abandoned = 0)
  /\ \A i \in 1..Len(got) : OwnBody(got[i].response, abandoned = 0)

BodyInv == CollectedInv /\ BodiesInv

(* No reply and no line at first.                                          *)
LEMMA InitBodyInv == Init => BodyInv
<1> SUFFICES ASSUME Init PROVE BodyInv
  OBVIOUS
<1>1. Len(lines) = 0 /\ Len(pending) = 0 /\ Len(responses) = 0 /\ Len(got) = 0 /\ ~closed
  BY DEF Init
<1>2. QED BY <1>1 DEF BodyInv, CollectedInv, BodiesInv, Framed, ExpectsBody

(* A line written by the modem goes behind complete replies.               *)
LEMMA ReplyIsFramed ==
  ASSUME NEW ls \in Seq(Lines), Framed(ls), NEW c \in Nat
  PROVE  /\ Framed(Append(ls, Line("urc", c, FALSE)))
         /\ Framed(Append(ls, Line("final", c, FALSE)))
         /\ Framed(Append(Append(ls, Line("body", c, TRUE)), Line("final", c, TRUE)))
<1>0. /\ Len(ls) \in Nat
      /\ Line("urc", c, FALSE) \in Lines /\ Line("final", c, FALSE) \in Lines
      /\ Line("body", c, TRUE) \in Lines /\ Line("final", c, TRUE) \in Lines
  BY DEF Line, Lines
<1>1. ASSUME NEW e \in Lines, e.kind # "body", e.kind = "final" => ~e.hasBody
      PROVE  Framed(Append(ls, e))
  <2> DEFINE p == Append(ls, e)
  <2>1. /\ Len(p) = Len(ls) + 1 /\ p[Len(ls) + 1] = e /\ \A i \in 1..Len(ls) : p[i] = ls[i]
    BY AppendLine
  <2> HIDE DEF p
  <2>2. \A i \in 1..Len(p) : i = Len(ls) + 1 \/ i \in 1..Len(ls)
    BY <1>0, <2>1
  <2>3. ASSUME NEW i \in 1..Len(p), p[i].kind = "body"
        PROVE  /\ i + 1 \in 1..Len(p) /\ p[i + 1].kind = "final"
               /\ p[i + 1].cmd = p[i].cmd /\ p[i + 1].hasBody
    <3>1. i \in 1..Len(ls) /\ ls[i].kind = "body" /\ p[i] = ls[i]
      BY <1>1, <2>1, <2>2, <2>3
    <3>2. i + 1 \in 1..Len(ls) /\ ls[i + 1].kind = "final" /\ ls[i + 1].cmd = ls[i].cmd
            /\ ls[i + 1].hasBody
      BY <3>1 DEF Framed
    <3>3. QED BY <1>0, <2>1, <3>1, <3>2
  <2>4. ASSUME NEW i \in 1..Len(p), i # 1, p[i].kind = "final", p[i].hasBody
        PROVE  p[i - 1].kind = "body"
    <3>1. i \in 1..Len(ls) /\ p[i] = ls[i]
      BY <1>1, <2>1, <2>2, <2>4
    <3>2. ls[i - 1].kind = "body" /\ i - 1 \in 1..Len(ls)
      BY <1>0, <2>4, <3>1 DEF Framed
    <3>3. QED BY <2>1, <3>2
  <2>5. Framed(p)
    BY <2>3, <2>4 DEF Framed
  <2>6. QED BY <2>5 DEF p
<1>2. Framed(Append(Append(ls, Line("body", c, TRUE)), Line("final", c, TRUE)))
  <2> DEFINE b == Line("body", c, TRUE)
             e == Line("final", c, TRUE)
             q == Append(ls, b)
             p == Append(q, e)
  <2>0. /\ b.kind = "body" /\ b.cmd = c /\ e.kind = "final" /\ e.cmd = c /\ e.hasBody
        /\ b \in Lines /\ e \in Lines
    BY <1>0 DEF Line
  <2> HIDE DEF b, e
  <2>1. /\ q \in Seq(Lines) /\ Len(q) = Len(ls) + 1 /\ q[Len(ls) + 1] = b
        /\ \A i \in 1..Len(ls) : q[i] = ls[i]
    BY <2>0, AppendLine
  <2>2. /\ Len(p) = Len(q) + 1 /\ p[Len(q) + 1] = e /\ \A i \in 1..Len(q) : p[i] = q[i]
    BY <2>0, <2>1, AppendLine
  <2> HIDE DEF p, q
  <2>3. /\ Len(p) = Len(ls) + 2 /\ p[Len(ls) + 1] = b /\ p[Len(ls) + 2] = e
        /\ \A i \in 1..Len(ls) : p[i] = ls[i]
        /\ \A i \in 1..Len(p) : i = Len(ls) + 2 \/ i = Len(ls) + 1 \/ i \in 1..Len(ls)
    BY <1>0, <2>1, <2>2
  <2>4. ASSUME NEW i \in 1..Len(p), p[i].kind = "body"
        PROVE  /\ i + 1 \in 1..Len(p) /\ p[i + 1].kind = "final"
               /\ p[i + 1].cmd = p[i].cmd /\ p[i + 1].hasBody
    <3>1. CASE i \in 1..Len(ls)
      <4>1. /\ i + 1 \in 1..Len(ls) /\ ls[i + 1].kind = "final" /\ ls[i + 1].cmd = ls[i].cmd
            /\ ls[i + 1].hasBody
        BY <2>3, <2>4, <3>1 DEF Framed
      <4>2. QED BY <1>0, <2>3, <3>1, <4>1
    <3>2. CASE i = Len(ls) + 1
      <4>1. i + 1 \in 1..Len(p) /\ i + 1 = Len(ls) + 2
        BY <1>0, <2>3, <3>2
      <4>2. QED BY <2>0, <2>3, <3>2, <4>1
    <3>3. QED BY <2>0, <2>3, <2>4, <3>1, <3>2
  <2>5. ASSUME NEW i \in 1..Len(p), i # 1, p[i].kind = "final", p[i].hasBody
        PROVE  p[i - 1].kind = "body"
    <3>1. CASE i \in 1..Len(ls)
      <4>1. ls[i - 1].kind = "body" /\ i - 1 \in 1..Len(ls)
        BY <1>0, <2>3, <2>5, <3>1 DEF Framed
      <4>2. QED BY <2>3, <4>1
    <3>2. CASE i = Len(ls) + 2
      <4>1. i - 1 = Len(ls) + 1
        BY <1>0, <3>2
      <4>2. QED BY <2>0, <2>3, <4>1
    <3>3. QED BY <2>0, <2>3, <2>5, <3>1, <3>2
  <2>6. Framed(p)
    BY <2>4, <2>5 DEF Framed
  <2>7. QED BY <2>6 DEF p, q, b, e
<1>3. QED
  <2>1. /\ Line("urc", c, FALSE).kind = "urc" /\ Line("final", c, FALSE).kind = "final"
        /\ ~Line("final", c, FALSE).hasBody
    BY DEF Line
  <2>2. Framed(Append(ls, Line("urc", c, FALSE)))
    BY <1>0, <1>1, <2>1
  <2>3. Framed(Append(ls, Line("final", c, FALSE)))
    BY <1>0, <1>1, <2>1
  <2>4. QED BY <1>2, <2>2, <2>3

(* Reading a line leaves complete replies behind it; the terminal line of  *)
(* a body comes right after it, and no other one expects a body then.      *)
LEMMA TailIsFramed ==
  ASSUME NEW ls \in Seq(Lines), ls # <<>>, Framed(ls)
  PROVE  /\ Framed(Tail(ls)) /\ Len(ls) > 0
         /\ ls[1].kind = "body" => ExpectsBody(Tail(ls)) /\ Tail(ls)[1].cmd = ls[1].cmd
         /\ ls[1].kind # "body" => ~ExpectsBody(Tail(ls))
<1> DEFINE t == Tail(ls)
<1>1. /\ Len(t) = Len(ls) - 1 /\ Len(ls) \in Nat \ {0} /\ Len(t) \in Nat
      /\ \A i \in 1..Len(t) : t[i] = ls[i + 1]
  BY HeadTailProperties, EmptySeq
<1> HIDE DEF t
<1>2. \A i \in 1..Len(t) : i + 1 \in 1..Len(ls) /\ i + 1 # 1
  BY <1>1
<1>3. Framed(t)
  <2>1. ASSUME NEW i \in 1..Len(t), t[i].kind = "body"
        PROVE  /\ i + 1 \in 1..Len(t) /\ t[i + 1].kind = "final"
               /\ t[i + 1].cmd = t[i].cmd /\ t[i + 1].hasBody
    <3>1. /\ i + 1 + 1 \in 1..Len(ls) /\ ls[i + 1 + 1].kind = "final"
          /\ ls[i + 1 + 1].cmd = ls[i + 1].cmd /\ ls[i + 1 + 1].hasBody
      BY <1>1, <1>2, <2>1 DEF Framed
    <3>2. i + 1 \in 1..Len(t)
      BY <1>1, <3>1
    <3>3. QED BY <1>1, <3>1, <3>2
  <2>2. ASSUME NEW i \in 1..Len(t), i # 1, t[i].kind = "final", t[i].hasBody
        PROVE  t[i - 1].kind = "body"
    <3>1. ls[i + 1 - 1].kind = "body"
      BY <1>1, <1>2, <2>2 DEF Framed
    <3>2. i - 1 \in 1..Len(t) /\ i - 1 + 1 = i + 1 - 1
      BY <1>1, <2>2
    <3>3. QED BY <1>1, <3>1, <3>2
  <2>3. QED BY <2>1, <2>2 DEF Framed
<1>4. 1 \in 1..Len(ls)
  BY <1>1
<1>5. ASSUME ls[1].kind = "body" PROVE ExpectsBody(t) /\ t[1].cmd = ls[1].cmd
  <2>1. 1 + 1 \in 1..Len(ls) /\ ls[1 + 1].kind = "final" /\ ls[1 + 1].cmd = ls[1].cmd
          /\ ls[1 + 1].hasBody
    BY <1>4, <1>5 DEF Framed
  <2>2. 1 \in 1..Len(t)
    BY <1>1, <2>1
  <2>3. QED BY <1>1, <2>1, <2>2 DEF ExpectsBody
<1>6. ASSUME ls[1].kind # "body" PROVE ~ExpectsBody(t)
  <2> SUFFICES ASSUME ExpectsBody(t) PROVE FALSE
    OBVIOUS
  <2>1. 1 \in 1..Len(t) /\ 1 + 1 - 1 = 1
    BY <1>1 DEF ExpectsBody
  <2>2. ls[1 + 1].kind = "final" /\ ls[1 + 1].hasBody
    BY <1>1, <2>1 DEF ExpectsBody
  <2>3. ls[1 + 1 - 1].kind = "body"
    BY <1>2, <2>1, <2>2 DEF Framed
  <2>4. QED BY <1>6, <2>1, <2>3
<1>7. /\ Framed(t) /\ Len(ls) > 0
      /\ ls[1].kind = "body" => ExpectsBody(t) /\ t[1].cmd = ls[1].cmd
      /\ ls[1].kind # "body" => ~ExpectsBody(t)
  BY <1>1, <1>3, <1>5, <1>6
<1>8. QED BY <1>7 DEF t

(* Replies already read keep their bodies; what is asked of them weakens   *)
(* when a send() is abandoned.                                             *)
LEMMA BodiesStay ==
  ASSUME ChannelInv, BodiesInv, UNCHANGED <<responses, got>>, abandoned' = 0 => abandoned = 0
  PROVE  BodiesInv'
BY DEF BodiesInv, OwnBody

(* One step keeps body lines with their command.                           *)
LEMMA NextBodyInv == ChannelInv /\ BodyInv /\ [Next]_vars => BodyInv'
<1> SUFFICES ASSUME ChannelInv, BodyInv, [Next]_vars PROVE BodyInv'
  OBVIOUS
<1>0. /\ lines \in Seq(Lines) /\ pending \in Seq(Nat) /\ responses \in Seq(Response)
      /\ got \in Seq(Result) /\ modem \in Seq(Nat) /\ Len(pending) \in Nat /\ Len(got) \in Nat
      /\ abandoned \in Nat /\ written \in Nat /\ reader \in BOOLEAN
  BY DEF ChannelInv, TypeOK, PipeType, CountType, FlagType
<1>1. CASE SendCalled \/ SendWithdrawn \/ UNCHANGED vars
  <2>1. UNCHANGED <<closed, reader, lines, pending, responses, abandoned, got>>
    BY <1>1 DEF SendCalled, SendWithdrawn, vars
  <2>2. CollectedInv'
    BY <2>1 DEF BodyInv, CollectedInv, Framed, ExpectsBody
  <2>3. QED BY <2>1, <2>2, BodiesStay DEF BodyInv
<1>2. CASE SendAbandoned
  <2>1. UNCHANGED <<closed, reader, lines, pending, responses, got>> /\ abandoned' # 0
    BY <1>0, <1>2 DEF SendAbandoned
  <2>2. CollectedInv'
    BY <2>1 DEF BodyInv, CollectedInv, Framed, ExpectsBody
  <2>3. QED BY <2>1, <2>2, BodiesStay DEF BodyInv
<1>3. CASE SendFails \/ ReadBreaks \/ Close
  <2>1. UNCHANGED <<responses, abandoned, got>> /\ ~reader' /\ lines' = <<>>
    BY <1>3 DEF SendFails, ReadBreaks, Close, BodyInv, CollectedInv, ChannelInv, EofInv
  <2>2. Len(lines') = 0
    BY <2>1
  <2>3. CollectedInv'
    BY <2>1, <2>2 DEF CollectedInv, Framed, ExpectsBody
  <2>4. QED BY <2>1, <2>3, BodiesStay DEF BodyInv
<1>4. CASE SendStarts
  <2>1. /\ UNCHANGED <<closed, reader, lines, responses, abandoned, got>>
        /\ pending' = <<>> /\ Len(pending') = 0 /\ waiting = Free
    BY <1>4 DEF SendStarts
  <2>2. ~(abandoned = 0 /\ ExpectsBody(lines))
    <3> SUFFICES ASSUME abandoned = 0, ExpectsBody(lines) PROVE FALSE
      OBVIOUS
    <3>1. written = Len(got)
      BY <1>0, <2>1 DEF ChannelInv, CountInv
    <3>2. 1 \in 1..Len(lines) /\ lines[1].kind = "final"
      BY <1>0 DEF ExpectsBody
    <3>3. lines[1].cmd \in (Len(got) + 1)..written
      BY <3>2 DEF ChannelInv, FreshInv
    <3>4. QED BY <1>0, <3>1, <3>3
  <2>3. CollectedInv'
    BY <2>1, <2>2 DEF BodyInv, CollectedInv, Framed, ExpectsBody
  <2>4. QED BY <2>1, <2>3, BodiesStay DEF BodyInv
<1>5. CASE SendReturns
  <2> DEFINE e == [asked |-> waiting, abandoned |-> abandoned, response |-> Head(responses)]
  <2>1. /\ UNCHANGED <<closed, reader, lines, pending, abandoned>>
        /\ responses # <<>> /\ responses' = Tail(responses) /\ got' = Append(got, e)
    BY <1>5 DEF SendReturns
  <2>2. CollectedInv'
    BY <2>1 DEF BodyInv, CollectedInv, Framed, ExpectsBody
  <2>3. /\ Len(responses) \in Nat \ {0} /\ Head(responses) = responses[1]
        /\ Len(responses') = Len(responses) - 1
        /\ \A i \in 1..Len(responses') : responses'[i] = responses[i + 1]
        /\ e.response = responses[1]
    BY <1>0, <2>1, HeadTailProperties, EmptySeq
  <2> HIDE DEF e
  <2>4. /\ Len(got') = Len(got) + 1 /\ got'[Len(got) + 1] = e
        /\ \A i \in 1..Len(got) : got'[i] = got[i]
    <3>1. ASSUME NEW s, s \in Seq(Result)
          PROVE  /\ Len(Append(s, e)) = Len(s) + 1 /\ Append(s, e)[Len(s) + 1] = e
                 /\ \A i \in 1..Len(s) : Append(s, e)[i] = s[i]
      BY <3>1
    <3>2. QED BY <1>0, <2>1, <3>1
  <2>5. \A i \in 1..Len(responses') : i + 1 \in 1..Len(responses)
    BY <2>3
  <2>6. \A i \in 1..Len(got') : i \in 1..Len(got) \/ i = Len(got) + 1
    BY <1>0, <2>4
  <2>7. 1 \in 1..Len(responses)
    BY <2>3
  <2>8. BodiesInv'
    <3>1. \A i \in 1..Len(responses') : OwnBody(responses'[i], abandoned' = 0)
      BY <2>1, <2>3, <2>5 DEF BodyInv, BodiesInv
    <3>2. \A i \in 1..Len(got') : OwnBody(got'[i].response, abandoned' = 0)
      BY <2>1, <2>3, <2>4, <2>6, <2>7 DEF BodyInv, BodiesInv
    <3>3. QED BY <3>1, <3>2 DEF BodiesInv, OwnBody
  <2>9. QED BY <2>2, <2>8 DEF BodyInv
<1>6. CASE (\E hasBody \in BOOLEAN : Replies(hasBody)) \/ RepliesWithUrc
  <2>1. /\ UNCHANGED <<closed, reader, pending, responses, abandoned, got>>
        /\ reader /\ modem # <<>>
    BY <1>6 DEF Replies, RepliesWithUrc
  <2> DEFINE c == Head(modem)
  <2>2. c \in Nat
    BY <1>0, <2>1, HeadTailProperties
  <2>3. \/ lines' = Append(lines, Line("urc", c, FALSE))
        \/ lines' = Append(lines, Line("final", c, FALSE))
        \/ lines' = Append(Append(lines, Line("body", c, TRUE)), Line("final", c, TRUE))
    BY <1>6 DEF Replies, RepliesWithUrc
  <2> HIDE DEF c
  <2>4. Framed(lines')
    BY <1>0, <2>2, <2>3, ReplyIsFramed DEF BodyInv, CollectedInv
  <2>5. /\ Line("urc", c, FALSE) \in Lines /\ Line("final", c, FALSE) \in Lines
        /\ Line("body", c, TRUE) \in Lines /\ Line("final", c, TRUE) \in Lines
        /\ Line("urc", c, FALSE).kind = "urc" /\ ~Line("final", c, FALSE).hasBody
        /\ Line("body", c, TRUE).kind = "body"
    BY <2>2 DEF Line, Lines
  <2>6. ASSUME NEW e \in Lines, NEW g \in Lines
        PROVE  /\ Len(lines) \in Nat /\ Append(lines, e)[1] = IF Len(lines) = 0 THEN e ELSE lines[1]
               /\ Append(Append(lines, e), g)[1] = Append(lines, e)[1]
    <3>1. /\ Append(lines, e) \in Seq(Lines) /\ Len(Append(lines, e)) = Len(lines) + 1
          /\ Len(lines) \in Nat
          /\ \A i \in 1..Len(lines) : Append(lines, e)[i] = lines[i]
          /\ Append(lines, e)[Len(lines) + 1] = e
      BY <1>0, AppendLine
    <3>2. \A i \in 1..Len(Append(lines, e)) : Append(Append(lines, e), g)[i] = Append(lines, e)[i]
      BY <3>1, AppendLine
    <3>3. 1 \in 1..Len(Append(lines, e))
      BY <3>1
    <3>4. QED BY <3>1, <3>2, <3>3
  <2>7. IF Len(lines) = 0 THEN ~ExpectsBody(lines') ELSE lines'[1] = lines[1]
    <3>1. CASE lines' = Append(lines, Line("urc", c, FALSE))
      BY <2>5, <2>6, <3>1 DEF ExpectsBody
    <3>2. CASE lines' = Append(lines, Line("final", c, FALSE))
      BY <2>5, <2>6, <3>2 DEF ExpectsBody
    <3>3. CASE lines' = Append(Append(lines, Line("body", c, TRUE)), Line("final", c, TRUE))
      <4>1. lines'[1] = IF Len(lines) = 0 THEN Line("body", c, TRUE) ELSE lines[1]
        BY <2>5, <2>6, <3>3
      <4>2. QED BY <2>5, <4>1 DEF ExpectsBody
    <3>4. QED BY <2>3, <3>1, <3>2, <3>3
  <2>8. ExpectsBody(lines') <=> ExpectsBody(lines)
    <3>1. Len(lines) \in Nat
      BY <1>0
    <3>2. Len(lines') \in Nat \ {0}
      <4>1. ASSUME NEW s \in Seq(Lines), NEW e \in Lines
            PROVE  Append(s, e) \in Seq(Lines) /\ Len(Append(s, e)) \in Nat \ {0}
        BY AppendLine
      <4>2. Append(lines, Line("body", c, TRUE)) \in Seq(Lines)
        BY <1>0, <2>5, <4>1
      <4>3. QED BY <1>0, <2>3, <2>5, <4>1, <4>2
    <3>3. QED BY <2>7, <3>1, <3>2 DEF ExpectsBody
  <2>9. ExpectsBody(lines) => lines'[1] = lines[1]
    BY <1>0, <2>7 DEF ExpectsBody
  <2>10. CollectedInv'
    BY <2>1, <2>4, <2>8, <2>9 DEF BodyInv, CollectedInv, Framed, ExpectsBody
  <2>11. QED BY <2>1, <2>10, BodiesStay DEF BodyInv
<1>7. CASE ReadLine
  <2> DEFINE line == lines[1]
             reply == [cmd |-> line.cmd, body |-> pending, hasBody |-> line.hasBody]
  <2>1. /\ UNCHANGED <<closed, reader, abandoned, got>> /\ reader
        /\ lines # <<>> /\ lines' = Tail(lines) /\ Head(lines) = lines[1]
    BY <1>0, <1>7, HeadTailProperties DEF ReadLine
  <2>2. /\ Framed(lines') /\ Len(lines) > 0
        /\ lines[1].kind = "body" => ExpectsBody(lines') /\ lines'[1].cmd = lines[1].cmd
        /\ lines[1].kind # "body" => ~ExpectsBody(lines')
    BY <1>0, <2>1, TailIsFramed DEF BodyInv, CollectedInv
  <2>3. line \in Lines /\ Len(lines) \in Nat
    BY <1>0, <2>2
  <2>4. line.kind \in {"body", "final", "urc"} /\ line.cmd \in Nat /\ line.hasBody \in BOOLEAN
    BY <2>3 DEF Lines
  <2>5. CASE line.kind = "body"
    <3>1. responses' = responses /\ pending' = Append(pending, line.cmd)
      BY <1>7, <2>1, <2>5 DEF ReadLine
    <3>2. Len(pending) = 0
      BY <1>0, <2>1, <2>5 DEF BodyInv, CollectedInv, ExpectsBody
    <3>3. Len(pending') = 1 /\ pending'[1] = line.cmd
      BY <1>0, <2>4, <3>1, <3>2, AppendProperties
    <3>4. CollectedInv'
      BY <2>1, <2>2, <2>5, <3>3 DEF BodyInv, CollectedInv, Framed, ExpectsBody
    <3>5. QED BY <2>1, <3>1, <3>4, BodiesStay DEF BodyInv
  <2>6. CASE line.kind = "urc"
    <3>1. responses' = responses /\ pending' = pending
      BY <1>7, <2>1, <2>6 DEF ReadLine
    <3>2. Len(pending) = 0
      BY <1>0, <2>1, <2>6 DEF BodyInv, CollectedInv, ExpectsBody
    <3>3. CollectedInv'
      BY <2>1, <2>2, <2>6, <3>1, <3>2 DEF BodyInv, CollectedInv, Framed, ExpectsBody
    <3>4. QED BY <2>1, <3>1, <3>3, BodiesStay DEF BodyInv
  <2>7. CASE line.kind = "final"
    <3>1. responses' = Append(responses, reply) /\ pending' = <<>> /\ Len(pending') = 0
      <4>1. Head(lines).kind = "final"
        BY <2>1, <2>7
      <4>2. /\ pending' = <<>>
            /\ responses' = Append(responses, [cmd |-> Head(lines).cmd, body |-> pending,
                                              hasBody |-> Head(lines).hasBody])
        BY <1>7, <4>1 DEF ReadLine
      <4>3. QED BY <2>1, <4>2
    <3>2. CollectedInv'
      BY <2>1, <2>2, <2>7, <3>1 DEF BodyInv, CollectedInv, Framed, ExpectsBody
    <3>3. OwnBody(reply, abandoned = 0)
      <4>1. reply.body = pending /\ reply.cmd = line.cmd /\ reply.hasBody = line.hasBody
        OBVIOUS
      <4>2. Len(pending) \in {0, 1} /\ (Len(pending) = 1 => ExpectsBody(lines) /\ pending[1] = line.cmd)
              /\ (abandoned = 0 /\ ExpectsBody(lines) => Len(pending) = 1)
        BY <2>1 DEF BodyInv, CollectedInv
      <4>3. ExpectsBody(lines) <=> line.hasBody
        BY <2>2, <2>7 DEF ExpectsBody
      <4>4. \A j \in 1..Len(pending) : pending[j] = line.cmd
        BY <4>2
      <4>5. QED BY <2>4, <4>1, <4>2, <4>3, <4>4 DEF OwnBody
    <3>4. reply \in Response
      BY <1>0, <2>4 DEF Response
    <3> HIDE DEF reply, line
    <3>5. /\ Len(responses') = Len(responses) + 1 /\ Len(responses) \in Nat
          /\ \A i \in 1..Len(responses) : responses'[i] = responses[i]
          /\ responses'[Len(responses) + 1] = reply
      BY <1>0, <3>1, <3>4, AppendProperties
    <3>6. \A i \in 1..Len(responses') : i \in 1..Len(responses) \/ i = Len(responses) + 1
      BY <3>5
    <3>7. \A i \in 1..Len(responses') : OwnBody(responses'[i], abandoned' = 0)
      BY <2>1, <3>3, <3>5, <3>6 DEF BodyInv, BodiesInv
    <3>8. BodiesInv'
      BY <2>1, <3>7 DEF BodyInv, BodiesInv, OwnBody
    <3>9. QED BY <3>2, <3>8 DEF BodyInv
  <2>8. QED BY <2>4, <2>5, <2>6, <2>7
<1>8. CASE ReadEof
  <2> DEFINE eof == [cmd |-> Eof, body |-> <<>>, hasBody |-> FALSE]
  <2>1. /\ ~reader' /\ lines' = <<>> /\ Len(lines') = 0 /\ UNCHANGED <<abandoned, got>>
        /\ responses' = responses \/ responses' = Append(responses, eof)
    BY <1>8 DEF ReadEof
  <2>2. CollectedInv'
    BY <2>1 DEF CollectedInv, Framed, ExpectsBody
  <2>3. OwnBody(eof, abandoned = 0) /\ eof \in Response
    <3>1. eof.body = <<>> /\ ~eof.hasBody /\ Len(<<>>) = 0 /\ <<>> \in Seq(Nat)
      BY EmptySeq
    <3>2. eof \in Response
      BY <3>1 DEF Response, Eof
    <3>3. QED BY <3>1, <3>2 DEF OwnBody
  <2> HIDE DEF eof
  <2>4. CASE responses' = responses
    BY <2>1, <2>2, <2>4, BodiesStay DEF BodyInv
  <2>5. CASE responses' = Append(responses, eof)
    <3>1. /\ Len(responses') = Len(responses) + 1 /\ Len(responses) \in Nat
          /\ \A i \in 1..Len(responses) : responses'[i] = responses[i]
          /\ responses'[Len(responses) + 1] = eof
      BY <1>0, <2>3, <2>5, AppendProperties
    <3>2. \A i \in 1..Len(responses') : i \in 1..Len(responses) \/ i = Len(responses) + 1
      BY <3>1
    <3>3. \A i \in 1..Len(responses') : OwnBody(responses'[i], abandoned' = 0)
      BY <2>1, <2>3, <3>1, <3>2 DEF BodyInv, BodiesInv
    <3>4. BodiesInv'
      BY <2>1, <3>3 DEF BodyInv, BodiesInv, OwnBody
    <3>5. QED BY <2>2, <3>4 DEF BodyInv
  <2>6. QED BY <2>1, <2>4, <2>5
<1>9. QED
  BY <1>1, <1>2, <1>3, <1>4, <1>5, <1>6, <1>7, <1>8 DEF Next

(* A reply's body holds lines of that reply only, also when sends were     *)
(* abandoned before it; with none abandoned it is complete.                *)
THEOREM BodiesBelong == Spec => []BodyBelongsToReply
<1>1. BodyInv => BodyBelongsToReply
  BY DEF BodyInv, BodiesInv, OwnBody, BodyBelongsToReply
<1>2. QED BY <1>1, InitBodyInv, NextBodyInv, ChannelInvariant, PTL DEF Spec

=============================================================================
