-------------------------- MODULE AudioPathProofs ---------------------------
(***************************************************************************)
(* Proofs about the audio path: no audio crosses from one call to the      *)
(* next, the microphone direction is a lossy FIFO, what the peer says is   *)
(* played in order and once, and recordings are complete.                  *)
(***************************************************************************)
EXTENDS AudioPath, SequenceTheorems, WellFoundedInduction, TLAPS

-----------------------------------------------------------------------------
(* Induction and recursion without operator parameters                     *)

(* A set of numbers has a least element: induction by smallest             *)
(* counterexample.                                                         *)
LEMMA LeastNumber ==
  ASSUME NEW T, T \subseteq Nat, T # {}
  PROVE  \E n \in T : \A m \in T : n <= m
<1> DEFINE R == {ss \in Nat \X Nat : ss[1] < ss[2]}
<1>1. IsWellFoundedOn(R, Nat)
  BY NatLessThanWellFounded DEF OpToRel
<1> HIDE DEF R
<1>2. PICK n \in T : \A m \in T : ~ (<<m, n>> \in R)
  BY <1>1, WFMin
<1>3. ASSUME NEW m \in T PROVE n <= m
  <2>1. n \in Nat /\ m \in Nat
    OBVIOUS
  <2>2. ~(m < n)
    BY <1>2, <2>1 DEF R
  <2>3. QED BY <2>1, <2>2
<1>4. QED BY <1>3

(* Induction up to n, for a property given as the set of numbers it has.   *)
LEMMA SetInduction ==
  ASSUME NEW n \in Nat, NEW G, 0 \in G, \A m \in 1..n : m - 1 \in G => m \in G
  PROVE  \A m \in 0..n : m \in G
<1> DEFINE Bad == {m \in 0..n : m \notin G}
<1> SUFFICES ASSUME Bad # {} PROVE FALSE
  OBVIOUS
<1>1. Bad \subseteq Nat
  OBVIOUS
<1>2. PICK m \in Bad : \A other \in Bad : m <= other
  BY <1>1, LeastNumber
<1>3. m \in 0..n /\ m # 0 /\ m \notin G
  OBVIOUS
<1>4. m \in 1..n /\ m - 1 \in 0..n /\ ~(m <= m - 1)
  BY <1>3
<1>5. m - 1 \in G
  BY <1>2, <1>4
<1>6. QED BY <1>3, <1>4, <1>5

(* A function on 0..n can be defined by its value at 0 and a step.         *)
Recurs(f, n, v0, step) == f[0] = v0 /\ \A i \in 1..n : f[i] = step[<<i, f[i - 1]>>]

(* A recursive function on 0..n exists: by induction on its length.        *)
LEMMA Recursion ==
  ASSUME NEW n \in Nat, NEW V, NEW v0 \in V, NEW step \in [(1..n) \X V -> V]
  PROVE  \E f \in [0..n -> V] : Recurs(f, n, v0, step)
<1> DEFINE Good(m) == \E f \in [0..m -> V] :
                        f[0] = v0 /\ \A i \in 1..m : f[i] = step[<<i, f[i - 1]>>]
<1>1. Good(0)
  <2> DEFINE f == [i \in 0..0 |-> v0]
  <2>1. f \in [0..0 -> V] /\ f[0] = v0 /\ 1..0 = {}
    OBVIOUS
  <2>2. QED BY <2>1
<1>2. ASSUME NEW m \in 1..n, Good(m - 1) PROVE Good(m)
  <2>1. PICK f \in [0..(m - 1) -> V] :
          f[0] = v0 /\ \A i \in 1..(m - 1) : f[i] = step[<<i, f[i - 1]>>]
    BY <1>2
  <2> DEFINE h == [i \in 0..m |-> IF i = m THEN step[<<m, f[m - 1]>>] ELSE f[i]]
  <2>2. m - 1 \in 0..(m - 1) /\ f[m - 1] \in V
    OBVIOUS
  <2>3. step[<<m, f[m - 1]>>] \in V
    BY <2>2
  <2>4. \A i \in 0..m : i # m => i \in 0..(m - 1)
    OBVIOUS
  <2>5. h \in [0..m -> V]
    BY <2>3, <2>4
  <2>6. h[0] = v0 /\ h[m] = step[<<m, f[m - 1]>>] /\ \A i \in 0..(m - 1) : h[i] = f[i]
    BY <2>1
  <2> HIDE DEF h
  <2>7. ASSUME NEW i \in 1..m PROVE h[i] = step[<<i, h[i - 1]>>]
    <3>1. i - 1 \in 0..(m - 1) /\ h[i - 1] = f[i - 1]
      BY <2>6
    <3>2. CASE i = m
      BY <2>6, <3>1, <3>2
    <3>3. CASE i # m
      <4>1. i \in 1..(m - 1) /\ i \in 0..(m - 1)
        BY <3>3
      <4>2. QED BY <2>1, <2>6, <3>1, <4>1
    <3>4. QED BY <3>2, <3>3
  <2>8. QED BY <2>5, <2>6, <2>7
<1> HIDE DEF Good
<1> DEFINE G == {m \in 0..n : Good(m)}
<1>3. 0 \in G /\ \A m \in 1..n : m - 1 \in G => m \in G
  BY <1>1, <1>2
<1> HIDE DEF G
<1>4. n \in G
  BY <1>3, SetInduction
<1>5. QED BY <1>4 DEF Good, G, Recurs

-----------------------------------------------------------------------------
(* PcmRingBuffer                                                           *)

(* An empty ring holds no bytes.                                           *)
LEMMA EmptyRingBytes == ASSUME NEW r, Len(r) = 0 PROVE Bytes(r) = 0
<1> DEFINE upTo == CHOOSE f : f = [i \in 0..Len(r) |-> IF i = 0 THEN 0 ELSE f[i - 1] + r[i].len]
<1>1. \E f : f = [i \in 0..Len(r) |-> IF i = 0 THEN 0 ELSE f[i - 1] + r[i].len]
  <2> DEFINE z == [i \in 0..0 |-> 0]
  <2>1. z = [i \in 0..0 |-> IF i = 0 THEN 0 ELSE z[i - 1] + r[i].len]
    OBVIOUS
  <2>2. QED BY <2>1
<1>2. upTo = [i \in 0..Len(r) |-> IF i = 0 THEN 0 ELSE upTo[i - 1] + r[i].len]
  BY <1>1
<1>3. Bytes(r) = upTo[Len(r)]
  BY DEF Bytes
<1> HIDE DEF upTo
<1>4. QED BY <1>2, <1>3

(* Room can always be made for a chunk that fits into the ring.            *)
LEMMA RoomIsMade ==
  ASSUME NEW r \in Seq(Chunks), NEW len \in Nat, len <= Capacity
  PROVE  \E k \in 0..Len(r) : /\ MakeRoom(r, len) = DropOldest(r, k)
                              /\ Bytes(DropOldest(r, k)) + len <= Capacity
<1> DEFINE fits == {k \in 0..Len(r) : Bytes(DropOldest(r, k)) + len <= Capacity}
           k == CHOOSE k \in fits : \A other \in fits : k <= other
<1>0. Len(r) \in Nat /\ Capacity \in Nat
  BY AudioAssumption
<1>1. Len(r) \in fits
  <2>1. Len(DropOldest(r, Len(r))) = 0
    BY <1>0 DEF DropOldest
  <2>2. Bytes(DropOldest(r, Len(r))) = 0
    BY <2>1, EmptyRingBytes
  <2>3. QED BY <1>0, <2>2
<1>2. fits \subseteq Nat
  OBVIOUS
<1>3. k \in fits
  BY <1>1, <1>2, LeastNumber
<1>4. MakeRoom(r, len) = DropOldest(r, k)
  BY DEF MakeRoom
<1> HIDE DEF k
<1>5. QED BY <1>3, <1>4

(* put() drops some of the oldest chunks and appends the new one, or does  *)
(* nothing.                                                                *)
LEMMA PutIs ==
  ASSUME NEW r \in Seq(Chunks), NEW c \in Chunks
  PROVE  /\ Put(r, c) \in Seq(Chunks)
         /\ \E k \in 0..Len(r) : \E e \in {0, 1} :
              /\ Len(Put(r, c)) = Len(r) - k + e
              /\ \A i \in 1..Len(Put(r, c)) :
                   Put(r, c)[i] = IF i + k = Len(r) + 1 THEN c ELSE r[i + k]
<1>0. Len(r) \in Nat /\ c.len \in Nat /\ Capacity \in Nat
  BY AudioAssumption DEF Chunks
<1>1. CASE c.len > Capacity
  <2>1. Put(r, c) = r
    BY <1>1 DEF Put
  <2>2. \A i \in 1..Len(r) : i + 0 = i /\ i # Len(r) + 1
    BY <1>0
  <2>3. /\ Len(r) = Len(r) - 0 + 0 /\ 0 \in 0..Len(r)
        /\ \A i \in 1..Len(r) : r[i] = IF i + 0 = Len(r) + 1 THEN c ELSE r[i + 0]
    BY <1>0, <2>2
  <2>4. QED BY <2>1, <2>3
<1>2. CASE ~(c.len > Capacity)
  <2>1. c.len <= Capacity
    BY <1>0, <1>2
  <2>4. PICK k \in 0..Len(r) : MakeRoom(r, c.len) = DropOldest(r, k)
    BY <1>0, <2>1, RoomIsMade
  <2> DEFINE q == SubSeq(r, k + 1, Len(r))
             p == Append(q, c)
  <2>5. Put(r, c) = p
    BY <1>2, <2>4 DEF Put, DropOldest
  <2>6. /\ q \in Seq(Chunks) /\ Len(q) = Len(r) - k
        /\ \A i \in 1..(Len(r) - k) : q[i] = r[i + k]
    BY <1>0, <2>4
  <2> HIDE DEF q
  <2>7. /\ p \in Seq(Chunks) /\ Len(p) = Len(q) + 1 /\ p[Len(q) + 1] = c
        /\ \A i \in 1..Len(q) : p[i] = q[i]
    BY <2>6, AppendProperties
  <2> HIDE DEF p
  <2>8. Len(p) = Len(r) - k + 1
    BY <2>6, <2>7
  <2>9. ASSUME NEW i \in 1..Len(p)
        PROVE  p[i] = IF i + k = Len(r) + 1 THEN c ELSE r[i + k]
    <3>1. CASE i = Len(q) + 1
      BY <1>0, <2>4, <2>6, <2>7, <3>1
    <3>2. CASE i # Len(q) + 1
      <4>1. i \in 1..Len(q) /\ i \in 1..(Len(r) - k) /\ i + k # Len(r) + 1
        BY <1>0, <2>4, <2>6, <2>7, <3>2
      <4>2. QED BY <2>6, <2>7, <4>1
    <3>3. QED BY <3>1, <3>2
  <2>10. QED BY <2>4, <2>5, <2>7, <2>8, <2>9
<1>3. QED BY <1>1, <1>2

(* The numbers of a ring's chunks, and that they ascend.                   *)
NumbersIn(r) == {r[i].n : i \in 1..Len(r)}
Ascending(r) == \A i, j \in 1..Len(r) : i < j => r[i].n < r[j].n
OwnedBy(r, c) == \A i \in 1..Len(r) : r[i].call = c

(* What put() keeps: the owner of the chunks and their order.              *)
LEMMA PutKeeps ==
  ASSUME NEW r \in Seq(Chunks), NEW c \in Chunks
  PROVE  /\ Put(r, c) \in Seq(Chunks)
         /\ NumbersIn(Put(r, c)) \subseteq NumbersIn(r) \union {c.n}
         /\ OwnedBy(r, c.call) => OwnedBy(Put(r, c), c.call)
         /\ Ascending(r) /\ (\A n \in NumbersIn(r) : n < c.n) => Ascending(Put(r, c))
<1> DEFINE p == Put(r, c)
<1>1. p \in Seq(Chunks)
  BY PutIs
<1>2. PICK k \in 0..Len(r), e \in {0, 1} :
        /\ Len(p) = Len(r) - k + e
        /\ \A i \in 1..Len(p) : p[i] = IF i + k = Len(r) + 1 THEN c ELSE r[i + k]
  BY PutIs
<1> HIDE DEF p
<1>3. Len(r) \in Nat
  OBVIOUS
<1>4. \A i \in 1..Len(p) :
        \/ i + k = Len(r) + 1 /\ p[i] = c
        \/ i + k \in 1..Len(r) /\ p[i] = r[i + k]
  BY <1>2, <1>3
<1>5. NumbersIn(p) \subseteq NumbersIn(r) \union {c.n}
  BY <1>4 DEF NumbersIn
<1>6. OwnedBy(r, c.call) => OwnedBy(p, c.call)
  BY <1>4 DEF OwnedBy
<1>7. ASSUME Ascending(r), \A n \in NumbersIn(r) : n < c.n PROVE Ascending(p)
  <2> SUFFICES ASSUME NEW i \in 1..Len(p), NEW j \in 1..Len(p), i < j
               PROVE  p[i].n < p[j].n
    BY DEF Ascending
  <2>1. i + k \in 1..Len(r) /\ p[i] = r[i + k] /\ i + k < j + k
    BY <1>2, <1>3, <1>4
  <2>2. CASE p[j] = c
    BY <1>7, <2>1, <2>2 DEF NumbersIn
  <2>3. CASE j + k \in 1..Len(r) /\ p[j] = r[j + k]
    BY <1>7, <2>1, <2>3 DEF Ascending
  <2>4. QED BY <1>4, <2>2, <2>3
<1>8. QED BY <1>1, <1>5, <1>6, <1>7 DEF p

(* An empty ring has every property of rings.                              *)
LEMMA EmptyRingKeeps ==
  /\ <<>> \in Seq(Chunks) /\ NumbersIn(<<>>) = {} /\ Ascending(<<>>)
  /\ \A c : OwnedBy(<<>>, c)
<1>1. Len(<<>>) = 0 /\ <<>> \in Seq(Chunks) /\ 1..0 = {}
  OBVIOUS
<1>2. QED BY <1>1 DEF NumbersIn, Ascending, OwnedBy

(* Taking the oldest chunk off a ring.                                     *)
LEMMA TailKeeps ==
  ASSUME NEW r \in Seq(Chunks), r # <<>>
  PROVE  /\ Tail(r) \in Seq(Chunks) /\ Head(r) \in Chunks
         /\ NumbersIn(r) = {Head(r).n} \union NumbersIn(Tail(r))
         /\ \A c : OwnedBy(r, c) => OwnedBy(Tail(r), c) /\ Head(r).call = c
         /\ Ascending(r) => Ascending(Tail(r)) /\ \A n \in NumbersIn(Tail(r)) : Head(r).n < n
<1> DEFINE t == Tail(r)
<1>1. /\ t \in Seq(Chunks) /\ Len(t) = Len(r) - 1 /\ Head(r) = r[1] /\ Head(r) \in Chunks
      /\ Len(r) \in Nat \ {0} /\ \A i \in 1..Len(t) : t[i] = r[i + 1]
  BY HeadTailProperties, EmptySeq
<1> HIDE DEF t
<1>2. 1 \in 1..Len(r) /\ \A i \in 1..Len(t) : i + 1 \in 1..Len(r) /\ 1 < i + 1
  BY <1>1
<1>3. NumbersIn(r) = {Head(r).n} \union NumbersIn(t)
  <2>1. ASSUME NEW i \in 1..Len(r) PROVE r[i].n \in {Head(r).n} \union NumbersIn(t)
    <3>1. CASE i = 1
      BY <1>1, <3>1
    <3>2. CASE i # 1
      <4>1. i - 1 \in 1..Len(t) /\ t[i - 1] = r[i]
        BY <1>1, <3>2
      <4>2. QED BY <4>1 DEF NumbersIn
    <3>3. QED BY <3>1, <3>2
  <2>2. \A i \in 1..Len(t) : t[i].n \in NumbersIn(r)
    BY <1>1, <1>2 DEF NumbersIn
  <2>3. Head(r).n \in NumbersIn(r)
    BY <1>1, <1>2 DEF NumbersIn
  <2>4. QED BY <2>1, <2>2, <2>3 DEF NumbersIn
<1>4. ASSUME NEW c, OwnedBy(r, c) PROVE OwnedBy(t, c) /\ Head(r).call = c
  BY <1>1, <1>2, <1>4 DEF OwnedBy
<1>5. ASSUME Ascending(r) PROVE Ascending(t) /\ \A n \in NumbersIn(t) : Head(r).n < n
  <2>1. Ascending(t)
    <3> SUFFICES ASSUME NEW i \in 1..Len(t), NEW j \in 1..Len(t), i < j PROVE t[i].n < t[j].n
      BY DEF Ascending
    <3>1. i + 1 < j + 1
      BY <1>1
    <3>2. QED BY <1>1, <1>2, <1>5, <3>1 DEF Ascending
  <2>2. QED BY <1>1, <1>2, <1>5, <2>1 DEF Ascending, NumbersIn
<1>6. /\ t \in Seq(Chunks) /\ Head(r) \in Chunks
      /\ NumbersIn(r) = {Head(r).n} \union NumbersIn(t)
      /\ \A c : OwnedBy(r, c) => OwnedBy(t, c) /\ Head(r).call = c
      /\ Ascending(r) => Ascending(t) /\ \A n \in NumbersIn(t) : Head(r).n < n
  BY <1>1, <1>3, <1>4, <1>5
<1>7. QED BY <1>6 DEF t

-----------------------------------------------------------------------------
(* Calls do not mix                                                        *)

RingType ==
  /\ call \in Nat /\ reads \in Nat /\ frames \in Nat
  /\ up \in Seq(Chunks) /\ down \in Seq(Chunks) /\ held \in Chunks
  /\ pushed \in Seq(Chunks) /\ heard \in Seq(Chunks)
  /\ joined \in BOOLEAN

(* Which pumps can be running at which stage of the call.                  *)
StageInv ==
  /\ stage # "live" => capture = "off" /\ playback = "off"
  /\ stage \in {"idle", "joining", "disabling"} => upstream = "off" /\ downstream = "off"
  /\ stage \in {"idle", "joining", "stopping", "disabling"} => ~joined
  /\ upstream \notin {"push", "pause"} => held = NoChunk

OwnerInv ==
  /\ OwnedBy(up, call) /\ OwnedBy(down, call)
  /\ held # NoChunk => held.call = call

PathInv == RingType /\ StageInv /\ OwnerInv

(* Nothing runs at first.                                                  *)
LEMMA InitPathInv == Init => PathInv
<1> SUFFICES ASSUME Init PROVE PathInv
  OBVIOUS
<1>1. NoChunk \in Chunks
  BY DEF NoChunk, Chunks
<1>2. QED
  BY <1>1, EmptyRingKeeps DEF Init, PathInv, RingType, StageInv, OwnerInv

(* A chunk carries the number of the call that is up.                      *)
LEMMA NewChunk ==
  ASSUME NEW c \in Nat, NEW n \in Nat, NEW len \in Nat
  PROVE  /\ [call |-> c, n |-> n, len |-> len] \in Chunks
         /\ [call |-> c, n |-> n, len |-> len].call = c
         /\ [call |-> c, n |-> n, len |-> len].n = n
BY DEF Chunks

(* One step of the bridge keeps stages and owners.                         *)
LEMMA NextPathInv == PathInv /\ [Next]_vars => PathInv'
<1> SUFFICES ASSUME PathInv, [Next]_vars PROVE PathInv'
  OBVIOUS
<1> USE DEF PathInv
<1>0. NoChunk \in Chunks /\ <<>> \in Seq(Chunks)
  BY EmptyRingKeeps DEF NoChunk, Chunks
<1>1. CASE Connect
  BY <1>1, EmptyRingKeeps DEF Connect, NewRings, RingType, StageInv, OwnerInv, pumpVars,
                              bridgeVars, histVars
<1>2. CASE JoinSucceeds
  <2>1. /\ stage = "joining" /\ stage' = "live" /\ joined' = TRUE /\ upstream' = "get"
        /\ UNCHANGED <<call, up, down, held, reads, frames, pushed, heard>>
    BY <1>2 DEF JoinSucceeds, StartBridgePumps, histVars
  <2>2. held = NoChunk
    BY <2>1 DEF StageInv
  <2>3. QED BY <2>1, <2>2 DEF RingType, StageInv, OwnerInv
<1>3. CASE JoinFails \/ BackendsClosed \/ LeaveBegins \/ RtcLeft
  <2>1. UNCHANGED <<call, up, down, held, reads, frames, pushed, heard>> /\ joined' \in BOOLEAN
    BY <1>3 DEF JoinFails, BackendsClosed, LeaveBegins, RtcLeft, RingType, bridgeVars, histVars
  <2>2. StageInv'
    <3>1. CASE JoinFails \/ BackendsClosed
      BY <3>1 DEF JoinFails, BackendsClosed, StageInv, pumpVars, bridgeVars
    <3>2. CASE LeaveBegins
      BY <3>2 DEF LeaveBegins, StageInv, pumpVars, bridgeVars
    <3>3. CASE RtcLeft
      BY <3>3 DEF RtcLeft, StageInv, pumpVars, bridgeVars
    <3>4. QED BY <1>3, <3>1, <3>2, <3>3
  <2>3. QED BY <2>1, <2>2 DEF RingType, OwnerInv
<1>4. CASE TeardownBegins
  BY <1>4 DEF TeardownBegins, RingType, StageInv, OwnerInv, bridgeVars, histVars
<1>5. CASE PumpsStopped
  BY <1>0, <1>5 DEF PumpsStopped, StopBridgePumps, RingType, StageInv, OwnerInv, pumpVars, histVars
<1>6. CASE RingsClosed
  BY <1>6, EmptyRingKeeps DEF RingsClosed, RingType, StageInv, OwnerInv, pumpVars, bridgeVars, histVars
<1>7. CASE \E len \in ReadSizes : ReadReturns(len)
  <2>1. PICK len \in ReadSizes : ReadReturns(len)
    BY <1>7
  <2>2. len \in Nat
    BY AudioAssumption DEF ReadSizes
  <2> DEFINE c == [call |-> call, n |-> reads + 1, len |-> len]
  <2>3. c \in Chunks /\ c.call = call
    BY <2>2, NewChunk DEF RingType
  <2>4. /\ reads' = reads + 1 /\ up' = Put(up, c) /\ down' \in {down, <<>>}
        /\ capture = "reading"
        /\ UNCHANGED <<callVars, playback, bridgeVars, recVars, histVars>>
    BY <2>1 DEF ReadReturns
  <2> HIDE DEF c
  <2>5. up' \in Seq(Chunks) /\ OwnedBy(up', call)
    BY <2>3, <2>4, PutKeeps DEF RingType, OwnerInv
  <2>6. down' \in Seq(Chunks) /\ OwnedBy(down', call)
    BY <2>4, EmptyRingKeeps DEF RingType, OwnerInv
  <2>7. RingType'
    BY <2>4, <2>5, <2>6 DEF RingType, callVars, bridgeVars, histVars
  <2>8. StageInv'
    BY <2>4 DEF StageInv, callVars, bridgeVars
  <2>9. QED BY <2>4, <2>5, <2>6, <2>7, <2>8 DEF OwnerInv, callVars, bridgeVars
<1>8. CASE ReadEmpty \/ ReadFails
  BY <1>8 DEF ReadEmpty, ReadFails, RingType, StageInv, OwnerInv, callVars, bridgeVars, histVars
<1>9. CASE DuplexWritten
  BY <1>9 DEF DuplexWritten, RingType, StageInv, OwnerInv, callVars, bridgeVars
<1>10. CASE OrphanReads
  BY <1>10 DEF OrphanReads, RingType, StageInv, OwnerInv, callVars, bridgeVars, histVars
<1>11. CASE PlaybackGets
  <2>1. /\ down # <<>> /\ down' = Tail(down) /\ playback = "get"
        /\ UNCHANGED <<callVars, up, capture, bridgeVars, reads, histVars>>
    BY <1>11 DEF PlaybackGets
  <2>2. down' \in Seq(Chunks) /\ OwnedBy(down', call)
    BY <2>1, TailKeeps DEF RingType, OwnerInv
  <2>3. QED BY <2>1, <2>2 DEF RingType, StageInv, OwnerInv, callVars, bridgeVars, histVars
<1>12. CASE PlaybackWrites \/ PlaybackFails
  <2>1. /\ playback = "write"
        /\ UNCHANGED <<callVars, up, down, capture, bridgeVars, reads, frames, pushed, heard>>
    BY <1>12 DEF PlaybackWrites, PlaybackFails, histVars
  <2>2. QED BY <2>1 DEF RingType, StageInv, OwnerInv, callVars, bridgeVars
<1>13. CASE UpstreamGets
  <2>1. /\ upstream = "get" /\ up # <<>> /\ up' = Tail(up)
        /\ \/ upstream' = "push" /\ held' = Head(up)
           \/ upstream' = "off" /\ held' = NoChunk
        /\ UNCHANGED <<callVars, down, pumpVars, downstream, reads, histVars>>
    BY <1>13 DEF UpstreamGets
  <2>2. up' \in Seq(Chunks) /\ OwnedBy(up', call) /\ Head(up) \in Chunks /\ Head(up).call = call
    BY <2>1, TailKeeps DEF RingType, OwnerInv
  <2>3. RingType' /\ OwnerInv'
    BY <1>0, <2>1, <2>2 DEF RingType, OwnerInv, callVars, histVars
  <2>4. StageInv'
    BY <2>1 DEF StageInv, callVars, pumpVars
  <2>5. QED BY <2>3, <2>4
<1>14. CASE PushAccepted
  <2>1. /\ upstream = "push" /\ upstream' \in {"off", "get"} /\ held' = NoChunk
        /\ pushed' = Append(pushed, held)
        /\ UNCHANGED <<callVars, up, down, pumpVars, downstream, reads, frames, heard, played>>
    BY <1>14 DEF PushAccepted
  <2>2. pushed' \in Seq(Chunks)
    BY <2>1 DEF RingType
  <2>3. QED BY <1>0, <2>1, <2>2 DEF RingType, StageInv, OwnerInv, callVars, pumpVars
<1>15. CASE PushStalls \/ PauseOver
  BY <1>15 DEF PushStalls, PauseOver, RingType, StageInv, OwnerInv, callVars, pumpVars, histVars
<1>16. CASE PushNotJoined
  BY <1>0, <1>16 DEF PushNotJoined, RingType, StageInv, OwnerInv, callVars, pumpVars, histVars
<1>17. CASE \E sender \in {"peer", "unknown", "other"}, len \in FrameSizes : FrameArrives(sender, len)
  <2>1. PICK sender \in {"peer", "unknown", "other"}, len \in FrameSizes : FrameArrives(sender, len)
    BY <1>17
  <2>2. len \in Nat
    BY AudioAssumption
  <2> DEFINE c == [call |-> call, n |-> frames + 1, len |-> len]
  <2>3. c \in Chunks /\ c.call = call
    BY <2>2, NewChunk DEF RingType
  <2>4. /\ frames' = frames + 1 /\ downstream = "frames"
        /\ \/ down' = Put(down, c) /\ heard' = Append(heard, c)
           \/ down' = down /\ heard' = heard
        /\ UNCHANGED <<callVars, up, pumpVars, bridgeVars, reads, pushed>>
    BY <2>1 DEF FrameArrives
  <2> HIDE DEF c
  <2>5. down' \in Seq(Chunks) /\ OwnedBy(down', call) /\ heard' \in Seq(Chunks)
    <3>1. down \in Seq(Chunks) /\ heard \in Seq(Chunks) /\ OwnedBy(down, call)
      BY DEF RingType, OwnerInv
    <3>2. Put(down, c) \in Seq(Chunks) /\ OwnedBy(Put(down, c), call)
      BY <2>3, <3>1, PutKeeps
    <3>3. Append(heard, c) \in Seq(Chunks)
      BY <2>3, <3>1
    <3>4. QED BY <2>4, <3>1, <3>2, <3>3
  <2>6. RingType' /\ OwnerInv'
    BY <2>4, <2>5 DEF RingType, OwnerInv, callVars, bridgeVars
  <2>7. StageInv'
    BY <2>4 DEF StageInv, callVars, bridgeVars, pumpVars
  <2>8. QED BY <2>6, <2>7
<1>18. CASE FramesEnd
  BY <1>18 DEF FramesEnd, RingType, StageInv, OwnerInv, callVars, pumpVars, histVars
<1>19. CASE UNCHANGED vars
  BY <1>19 DEF vars, RingType, StageInv, OwnerInv, callVars, pumpVars, bridgeVars, histVars
<1>20. QED
  BY <1>1, <1>2, <1>3, <1>4, <1>5, <1>6, <1>7, <1>8, <1>9, <1>10, <1>11, <1>12, <1>13, <1>14,
     <1>15, <1>16, <1>17, <1>18, <1>19 DEF Next, Teardown

(* The audio in both rings and in push_audio() is the current call's, the  *)
(* modem's pumps run while the call is live only, and no pump is left once *)
(* the bridge has been left.                                               *)
THEOREM PathInvariant == Spec => []PathInv
BY InitPathInv, NextPathInv, PTL DEF Spec

(* No audio of one call is left, queued or being pushed in another, and no *)
(* pump of a call outlives its teardown.                                   *)
THEOREM CallsDoNotMix == Spec => []NoCrosstalk
<1>1. PathInv => NoCrosstalk
  BY DEF PathInv, StageInv, OwnerInv, OwnedBy, NoCrosstalk
<1>2. QED BY <1>1, PathInvariant, PTL

-----------------------------------------------------------------------------
(* The microphone direction implements OrderedDelivery                     *)

Pushing == upstream \in {"push", "pause"}
Transit == NumbersIn(up) \union ({held.n} \ {0})

(* What waits in the ring is newer than the chunk being pushed.            *)
MicInv ==
  /\ Ascending(up) /\ \A n \in NumbersIn(up) : n \in 1..reads
  /\ Pushing => held.n \in 1..reads /\ \A n \in NumbersIn(up) : held.n < n

(* The numbers of a history grow by that of its new chunk.                 *)
LEMMA NumbersAppend ==
  ASSUME NEW s \in Seq(Chunks), NEW c \in Chunks
  PROVE  Numbers(Append(s, c)) = Append(Numbers(s), c.n)
<1> DEFINE p == Append(s, c)
           a == Numbers(s)
           b == Numbers(p)
<1>1. /\ p \in Seq(Chunks) /\ Len(p) = Len(s) + 1 /\ p[Len(s) + 1] = c
      /\ Len(s) \in Nat /\ \A i \in 1..Len(s) : p[i] = s[i]
  BY AppendProperties
<1> HIDE DEF p
<1>2. /\ \A i \in 1..Len(s) : s[i].n \in Nat
      /\ \A i \in 1..Len(p) : p[i].n \in Nat
      /\ c.n \in Nat
  <2>1. /\ \A i \in 1..Len(s) : s[i] \in Chunks
        /\ \A i \in 1..Len(p) : p[i] \in Chunks
    BY <1>1
  <2>2. QED BY <2>1 DEF Chunks
<1>3. /\ a \in Seq(Nat) /\ Len(a) = Len(s) /\ b \in Seq(Nat) /\ Len(b) = Len(s) + 1
      /\ \A i \in 1..Len(s) : a[i] = s[i].n
      /\ \A i \in 1..(Len(s) + 1) : b[i] = p[i].n
  BY <1>1, <1>2 DEF Numbers
<1> HIDE DEF a, b
<1>4. /\ Append(a, c.n) \in Seq(Nat) /\ Len(Append(a, c.n)) = Len(a) + 1
      /\ \A i \in 1..Len(a) : Append(a, c.n)[i] = a[i]
      /\ Append(a, c.n)[Len(a) + 1] = c.n
  BY <1>2, <1>3, AppendProperties
<1>5. ASSUME NEW i \in 1..Len(b) PROVE b[i] = Append(a, c.n)[i]
  <2>1. CASE i = Len(s) + 1
    BY <1>1, <1>3, <1>4, <2>1
  <2>2. CASE i # Len(s) + 1
    <3>1. i \in 1..Len(s)
      BY <1>1, <1>3, <2>2
    <3>2. QED BY <1>1, <1>3, <1>4, <3>1
  <2>3. QED BY <2>1, <2>2
<1>6. b = Append(a, c.n)
  BY <1>3, <1>4, <1>5, SeqEqual
<1>7. QED BY <1>6 DEF a, b, p

(* A chunk enters the ring, or a read is lost with its orphaned thread.    *)
Captures ==
  /\ reads' = reads + 1 /\ pushed' = pushed
  /\ Transit' \subseteq Transit \union {reads + 1}

Forgets ==
  /\ reads' = reads /\ pushed' = pushed
  /\ Transit' \subseteq Transit

(* The oldest chunk of all reaches the RTC session.                        *)
Hands ==
  /\ reads' = reads /\ pushed' = Append(pushed, held)
  /\ held.n \in Transit /\ Transit' = Transit \ {held.n}
  /\ \A n \in Transit : held.n <= n

(* What a step does to the microphone's chunks: one more, fewer, or the    *)
(* oldest is pushed.                                                       *)
LEMMA MicStep ==
  ASSUME PathInv, MicInv, [Next]_vars
  PROVE  MicInv' /\ (Captures \/ Forgets \/ Hands)
<1>0. /\ reads \in Nat /\ held \in Chunks /\ held.n \in Nat /\ NoChunk.n = 0
      /\ up \in Seq(Chunks) /\ (~Pushing => held.n = 0)
  BY DEF PathInv, RingType, StageInv, Pushing, Chunks, NoChunk
<1>1. CASE /\ UNCHANGED <<reads, pushed, up>>
           /\ \/ UNCHANGED held /\ (Pushing' => Pushing)
              \/ held' = NoChunk /\ ~Pushing'
  BY <1>0, <1>1 DEF MicInv, Forgets, Transit
<1>2. CASE /\ UNCHANGED <<reads, pushed>> /\ up' = <<>>
           /\ UNCHANGED held /\ ~Pushing /\ ~Pushing'
  BY <1>0, <1>2, EmptyRingKeeps DEF MicInv, Forgets, Transit
<1>3. CASE \E len \in ReadSizes : ReadReturns(len)
  <2>1. PICK len \in ReadSizes : ReadReturns(len)
    BY <1>3
  <2>2. len \in Nat
    BY AudioAssumption DEF ReadSizes
  <2> DEFINE c == [call |-> call, n |-> reads + 1, len |-> len]
  <2>3. c \in Chunks /\ c.n = reads + 1
    BY <2>2, NewChunk DEF PathInv, RingType
  <2>4. /\ reads' = reads + 1 /\ up' = Put(up, c) /\ pushed' = pushed
        /\ held' = held /\ upstream' = upstream
    BY <2>1 DEF ReadReturns, bridgeVars, histVars
  <2> HIDE DEF c
  <2>5. \A n \in NumbersIn(up) : n < c.n
    BY <1>0, <2>3 DEF MicInv
  <2>6. Ascending(up') /\ NumbersIn(up') \subseteq NumbersIn(up) \union {reads + 1}
    BY <1>0, <2>3, <2>4, <2>5, PutKeeps DEF MicInv
  <2>7. Captures
    BY <2>4, <2>6 DEF Captures, Transit
  <2>8. MicInv'
    <3>1. \A n \in NumbersIn(up') : n \in 1..reads'
      BY <1>0, <2>4, <2>6 DEF MicInv
    <3>2. Pushing' = Pushing
      BY <2>4 DEF Pushing
    <3>3. Pushing => held.n \in 1..reads' /\ \A n \in NumbersIn(up') : held.n < n
      BY <1>0, <2>4, <2>6 DEF MicInv
    <3>4. QED BY <2>4, <2>6, <3>1, <3>2, <3>3 DEF MicInv
  <2>9. QED BY <2>7, <2>8
<1>4. CASE OrphanReads
  <2>1. /\ reads' \in {reads, reads + 1}
        /\ UNCHANGED <<up, held, upstream, pushed>>
    BY <1>4 DEF OrphanReads, bridgeVars, histVars
  <2>2. MicInv'
    BY <1>0, <2>1 DEF MicInv, Pushing
  <2>3. Captures \/ Forgets
    BY <2>1 DEF Captures, Forgets, Transit
  <2>4. QED BY <2>2, <2>3
<1>5. CASE UpstreamGets
  <2>1. /\ upstream = "get" /\ up # <<>> /\ up' = Tail(up)
        /\ \/ upstream' = "push" /\ held' = Head(up)
           \/ upstream' = "off" /\ held' = NoChunk
        /\ UNCHANGED <<reads, pushed>>
    BY <1>5 DEF UpstreamGets, histVars
  <2>2. /\ NumbersIn(up) = {Head(up).n} \union NumbersIn(up') /\ Ascending(up')
        /\ \A n \in NumbersIn(up') : Head(up).n < n
    BY <1>0, <2>1, TailKeeps DEF MicInv
  <2>3. MicInv'
    BY <2>1, <2>2 DEF MicInv, Pushing
  <2>4. Forgets
    BY <1>0, <2>1, <2>2 DEF Forgets, Transit
  <2>5. QED BY <2>3, <2>4
<1>6. CASE PushAccepted
  <2>1. /\ Pushing /\ ~Pushing' /\ held' = NoChunk /\ pushed' = Append(pushed, held)
        /\ UNCHANGED <<reads, up>>
    BY <1>6 DEF PushAccepted, Pushing
  <2>2. MicInv'
    BY <2>1 DEF MicInv
  <2>3. held.n \in Nat \ {0} /\ \A n \in NumbersIn(up) : n \in Nat /\ held.n < n
    BY <1>0, <2>1 DEF MicInv
  <2>4. Transit' = NumbersIn(up) /\ Transit = NumbersIn(up) \union {held.n}
    BY <1>0, <2>1, <2>3 DEF Transit
  <2>5. held.n \notin NumbersIn(up)
    BY <2>3
  <2>6. \A n \in Transit : held.n <= n
    BY <2>3, <2>4
  <2>7. QED BY <2>1, <2>2, <2>4, <2>5, <2>6 DEF Hands
<1>7. CASE Connect \/ RingsClosed
  <2>1. /\ UNCHANGED <<reads, pushed, held, upstream>> /\ up' = <<>> /\ upstream = "off"
    BY <1>7 DEF Connect, RingsClosed, NewRings, bridgeVars, histVars, PathInv, StageInv
  <2>2. QED BY <1>2, <2>1 DEF Pushing
<1>8. CASE PumpsStopped \/ PushNotJoined
  <2>1. UNCHANGED <<reads, pushed, up>> /\ held' = NoChunk /\ ~Pushing'
    BY <1>8 DEF PumpsStopped, StopBridgePumps, PushNotJoined, histVars, Pushing
  <2>2. QED BY <1>1, <2>1
<1>9. CASE JoinSucceeds \/ PushStalls \/ PauseOver
  <2>1. UNCHANGED <<reads, pushed, up, held>> /\ (Pushing' => Pushing)
    BY <1>9 DEF JoinSucceeds, StartBridgePumps, PushStalls, PauseOver, histVars, Pushing
  <2>2. QED BY <1>1, <2>1
<1>10. CASE \/ JoinFails \/ TeardownBegins \/ LeaveBegins \/ RtcLeft \/ BackendsClosed
            \/ ReadEmpty \/ ReadFails \/ DuplexWritten \/ PlaybackGets \/ PlaybackWrites
            \/ PlaybackFails \/ FramesEnd
            \/ \E sender \in {"peer", "unknown", "other"}, len \in FrameSizes :
                 FrameArrives(sender, len)
            \/ UNCHANGED vars
  <2>1. UNCHANGED <<reads, pushed, up, held, upstream>>
    BY <1>10 DEF JoinFails, TeardownBegins, LeaveBegins, RtcLeft, BackendsClosed, ReadEmpty,
       ReadFails, DuplexWritten, PlaybackGets, PlaybackWrites, PlaybackFails, FramesEnd,
       FrameArrives, vars, bridgeVars, histVars
  <2>2. QED BY <1>1, <2>1 DEF Pushing
<1>11. QED
  BY <1>3, <1>4, <1>5, <1>6, <1>7, <1>8, <1>9, <1>10 DEF Next, Teardown

(* The microphone's chunks are in ascending order in the ring, and the     *)
(* chunk in push_audio() is older than all of them.                        *)
THEOREM MicInvariant == Spec => []MicInv
<1>1. Init => MicInv
  BY EmptyRingKeeps DEF Init, MicInv, Pushing
<1>2. PathInv /\ MicInv /\ [Next]_vars => MicInv'
  BY MicStep
<1>3. QED BY <1>1, <1>2, PathInvariant, PTL DEF Spec

(* Of the chunks the modem produced, those that reach the RTC session do   *)
(* so in order and once, whatever the ring drops, however often a push is  *)
(* retried after backpressure and across calls.                            *)
THEOREM MicrophoneImplementsOrderedDelivery == Spec => ImplementsOrderedDelivery
<1> DEFINE AStep == [Abstract!ANext]_(Abstract!avars)
<1>1. Init => Abstract!AInit
  <2> SUFFICES ASSUME Init PROVE Abstract!AInit
    OBVIOUS
  <2>1. up = <<>> /\ held = NoChunk /\ pushed = <<>> /\ reads = 0 /\ upstream = "off"
    BY DEF Init
  <2>2. Numbers(pushed) = <<>>
    BY <2>1 DEF Numbers
  <2>3. {up[i].n : i \in 1..Len(up)} \union ({held.n} \ {0}) = {}
    BY <2>1, EmptyRingKeeps DEF NumbersIn, NoChunk
  <2>4. QED BY <2>1, <2>2, <2>3 DEF Abstract!AInit
<1>2. PathInv /\ MicInv /\ [Next]_vars => AStep
  <2> SUFFICES ASSUME PathInv, MicInv, [Next]_vars PROVE Abstract!ANext
    OBVIOUS
  <2>1. Captures \/ Forgets \/ Hands
    BY MicStep
  <2>2. /\ reads \in Nat /\ pushed \in Seq(Chunks) /\ held \in Chunks
    BY DEF PathInv, RingType
  <2>3. CASE Captures
    <3>1. reads' + 1 = (reads + 1) + 1 /\ Numbers(pushed)' = Numbers(pushed)
      BY <2>3 DEF Captures, Numbers
    <3>2. Abstract!Offer
      BY <2>3, <3>1 DEF Abstract!Offer, Captures, Transit, NumbersIn
    <3>3. QED BY <3>2 DEF Abstract!ANext
  <2>4. CASE Forgets
    <3>1. Numbers(pushed)' = Numbers(pushed)
      BY <2>4 DEF Forgets, Numbers
    <3>2. Abstract!Lose
      BY <2>4, <3>1 DEF Abstract!Lose, Forgets, Transit, NumbersIn
    <3>3. QED BY <3>2 DEF Abstract!ANext
  <2>5. CASE Hands
    <3>1. Numbers(pushed') = Append(Numbers(pushed), held.n)
      BY <2>2, <2>5, NumbersAppend DEF Hands
    <3>2. Numbers(pushed)' = Append(Numbers(pushed), held.n)
      BY <3>1 DEF Numbers
    <3>3. Abstract!Deliver
      BY <2>5, <3>2 DEF Abstract!Deliver, Hands, Transit, NumbersIn
    <3>4. QED BY <3>3 DEF Abstract!ANext
  <2>6. QED BY <2>1, <2>3, <2>4, <2>5
<1>3. QED
  BY <1>1, <1>2, PathInvariant, MicInvariant, PTL
     DEF Spec, ImplementsOrderedDelivery, Abstract!ASpec


-----------------------------------------------------------------------------
(* What the peer says is played in order and once                          *)

Byte == Nat \X Nat

(* A byte <<n, i>> comes before another one in the peer's stream.          *)
Before(a, b) ==
  \/ a[1] < b[1]
  \/ a[1] = b[1] /\ a[2] < b[2]

Elements(s) == {s[i] : i \in 1..Len(s)}
Sorted(s) == \A i, j \in 1..Len(s) : i < j => Before(s[i], s[j])
Precedes(s, t) == \A a \in Elements(s), b \in Elements(t) : Before(a, b)

(* Two sorted pieces of the stream, one before the other, make a sorted    *)
(* piece.                                                                  *)
LEMMA ConcatElements ==
  ASSUME NEW s \in Seq(Byte), NEW t \in Seq(Byte)
  PROVE  /\ s \o t \in Seq(Byte)
         /\ Elements(s \o t) = Elements(s) \union Elements(t)
         /\ Sorted(s) /\ Sorted(t) /\ Precedes(s, t) => Sorted(s \o t)
<1> DEFINE c == s \o t
<1>1. /\ c \in Seq(Byte) /\ Len(c) = Len(s) + Len(t) /\ Len(s) \in Nat /\ Len(t) \in Nat
      /\ \A i \in 1..(Len(s) + Len(t)) : c[i] = IF i <= Len(s) THEN s[i] ELSE t[i - Len(s)]
  BY ConcatProperties
<1> HIDE DEF c
<1>2. \A i \in 1..Len(c) : \/ i \in 1..Len(s) /\ c[i] = s[i]
                           \/ i - Len(s) \in 1..Len(t) /\ c[i] = t[i - Len(s)]
  BY <1>1
<1>3. /\ \A i \in 1..Len(s) : i \in 1..Len(c) /\ c[i] = s[i]
      /\ \A i \in 1..Len(t) : \E j \in 1..Len(c) : c[j] = t[i]
  <2>1. ASSUME NEW i \in 1..Len(t) PROVE \E j \in 1..Len(c) : c[j] = t[i]
    <3> DEFINE j == i + Len(s)
    <3>1. j \in 1..Len(c) /\ j \in 1..(Len(s) + Len(t)) /\ ~(j <= Len(s)) /\ j - Len(s) = i
      BY <1>1
    <3> HIDE DEF j
    <3>2. QED BY <1>1, <3>1
  <2>2. QED BY <1>1, <2>1
<1>4. Elements(c) = Elements(s) \union Elements(t)
  <2>1. Elements(c) \subseteq Elements(s) \union Elements(t)
    BY <1>2 DEF Elements
  <2>2. Elements(s) \subseteq Elements(c)
    BY <1>3 DEF Elements
  <2>3. Elements(t) \subseteq Elements(c)
    BY <1>3 DEF Elements
  <2>4. QED BY <2>1, <2>2, <2>3
<1>5. ASSUME Sorted(s), Sorted(t), Precedes(s, t),
             NEW i \in 1..Len(c), NEW j \in 1..Len(c), i < j
      PROVE  Before(c[i], c[j])
  <2>1. CASE j \in 1..Len(s) /\ c[j] = s[j]
    <3>1. i \in 1..Len(s) /\ c[i] = s[i]
      BY <1>1, <1>5, <2>1
    <3>2. QED BY <1>5, <2>1, <3>1 DEF Sorted
  <2>2. CASE j - Len(s) \in 1..Len(t) /\ c[j] = t[j - Len(s)]
    <3>1. CASE i \in 1..Len(s) /\ c[i] = s[i]
      BY <1>5, <2>2, <3>1 DEF Precedes, Elements
    <3>2. CASE i - Len(s) \in 1..Len(t) /\ c[i] = t[i - Len(s)]
      <4>1. i - Len(s) < j - Len(s)
        BY <1>1, <1>5
      <4>2. QED BY <1>5, <2>2, <3>2, <4>1 DEF Sorted
    <3>3. QED BY <1>2, <3>1, <3>2
  <2>3. QED BY <1>2, <2>1, <2>2
<1>6. Sorted(s) /\ Sorted(t) /\ Precedes(s, t) => Sorted(c)
  BY <1>5 DEF Sorted
<1>7. QED BY <1>1, <1>4, <1>6 DEF c

(* Nothing is sorted.                                                      *)
LEMMA EmptyElements ==
  <<>> \in Seq(Byte) /\ Elements(<<>>) = {} /\ Sorted(<<>>)
<1>1. Len(<<>>) = 0 /\ <<>> \in Seq(Byte) /\ 1..0 = {}
  OBVIOUS
<1>2. QED BY <1>1 DEF Elements, Sorted

(* Cutting a frame off the front.                                          *)
LEMMA CutElements ==
  ASSUME NEW s \in Seq(Byte), Sorted(s), NEW k \in Nat, k <= Len(s)
  PROVE  /\ SubSeq(s, 1, k) \in Seq(Byte) /\ SubSeq(s, k + 1, Len(s)) \in Seq(Byte)
         /\ Elements(SubSeq(s, 1, k)) \subseteq Elements(s)
         /\ Elements(SubSeq(s, k + 1, Len(s))) \subseteq Elements(s)
         /\ Sorted(SubSeq(s, 1, k)) /\ Sorted(SubSeq(s, k + 1, Len(s)))
         /\ Precedes(SubSeq(s, 1, k), SubSeq(s, k + 1, Len(s)))
<1> DEFINE f == SubSeq(s, 1, k)
           a == SubSeq(s, k + 1, Len(s))
<1>1. Len(s) \in Nat /\ \A i \in 1..Len(s) : s[i] \in Byte
  OBVIOUS
<1>2. /\ f \in Seq(Byte) /\ Len(f) = k /\ \A i \in 1..k : f[i] = s[i]
  BY <1>1, SubSeqProperties
<1>3. /\ a \in Seq(Byte) /\ Len(a) = Len(s) - k /\ \A i \in 1..(Len(s) - k) : a[i] = s[i + k]
  BY <1>1, SubSeqProperties
<1> HIDE DEF f, a
<1>4. /\ \A i \in 1..Len(f) : i \in 1..Len(s) /\ i <= k /\ f[i] = s[i]
      /\ \A i \in 1..Len(a) : i + k \in 1..Len(s) /\ k < i + k /\ a[i] = s[i + k]
  BY <1>1, <1>2, <1>3
<1>5. Elements(f) \subseteq Elements(s) /\ Elements(a) \subseteq Elements(s)
  BY <1>4 DEF Elements
<1>6. Sorted(f)
  BY <1>4 DEF Sorted
<1>7. Sorted(a)
  <2> SUFFICES ASSUME NEW i \in 1..Len(a), NEW j \in 1..Len(a), i < j PROVE Before(a[i], a[j])
    BY DEF Sorted
  <2>1. i + k < j + k
    BY <1>3
  <2>2. QED BY <1>4, <2>1 DEF Sorted
<1>8. Precedes(f, a)
  <2> SUFFICES ASSUME NEW i \in 1..Len(f), NEW j \in 1..Len(a) PROVE Before(f[i], a[j])
    BY DEF Precedes, Elements
  <2>1. i < j + k
    BY <1>2, <1>3, <1>4
  <2>2. QED BY <1>4, <2>1 DEF Sorted
<1>9. QED BY <1>2, <1>3, <1>5, <1>6, <1>7, <1>8 DEF f, a

(* The bytes of a chunk.                                                   *)
LEMMA ChunkElements ==
  ASSUME NEW c \in Chunks
  PROVE  /\ BytesOf(c) \in Seq(Byte) /\ Sorted(BytesOf(c))
         /\ \A a \in Elements(BytesOf(c)) : a[1] = c.n
<1>1. c.len \in Nat /\ c.n \in Nat
  BY DEF Chunks
<1>2. /\ BytesOf(c) \in Seq(Byte) /\ Len(BytesOf(c)) = c.len
      /\ \A i \in 1..c.len : BytesOf(c)[i] = <<c.n, i>>
  BY <1>1 DEF BytesOf, Byte
<1>3. QED BY <1>1, <1>2 DEF Sorted, Elements, Before

(* Draining a ring concatenates its chunks.                                *)
LEMMA DrainedIs ==
  ASSUME NEW r \in Seq(Chunks)
  PROVE  \E f : /\ f[0] = <<>>
                /\ \A i \in 1..Len(r) : f[i] = f[i - 1] \o BytesOf(r[i])
                /\ Drained(r) = f[Len(r)]
<1> DEFINE V == Seq(Byte)
           step == [a \in (1..Len(r)) \X V |-> a[2] \o BytesOf(r[a[1]])]
           upTo == CHOOSE f : f = [i \in 0..Len(r) |-> IF i = 0 THEN <<>>
                                                       ELSE f[i - 1] \o BytesOf(r[i])]
<1>1. Len(r) \in Nat /\ <<>> \in V
  OBVIOUS
<1>2. ASSUME NEW i \in 1..Len(r), NEW v \in V
      PROVE  step[<<i, v>>] = v \o BytesOf(r[i]) /\ v \o BytesOf(r[i]) \in V
  <2>1. r[i] \in Chunks
    OBVIOUS
  <2>2. v \o BytesOf(r[i]) \in V
    BY <2>1, ChunkElements, ConcatElements
  <2>3. <<i, v>> \in (1..Len(r)) \X V
    OBVIOUS
  <2>4. QED BY <2>2, <2>3
<1>3. step \in [(1..Len(r)) \X V -> V]
  <2> SUFFICES ASSUME NEW a \in (1..Len(r)) \X V PROVE a[2] \o BytesOf(r[a[1]]) \in V
    OBVIOUS
  <2>1. a[1] \in 1..Len(r) /\ a[2] \in V
    OBVIOUS
  <2>2. QED BY <1>2, <2>1
<1> HIDE DEF V, step, upTo
<1>4. PICK f \in [0..Len(r) -> V] :
        f[0] = <<>> /\ \A i \in 1..Len(r) : f[i] = step[<<i, f[i - 1]>>]
  <2> DEFINE n == Len(r)
             none == <<>>
  <2>1. n \in Nat /\ none \in V
    BY <1>1
  <2>2. step \in [(1..n) \X V -> V]
    BY <1>3
  <2> HIDE DEF n, none
  <2>3. \E f \in [0..n -> V] : Recurs(f, n, none, step)
    BY <2>1, <2>2, Recursion
  <2>4. QED BY <2>3 DEF n, none, Recurs
<1>5. \A i \in 1..Len(r) : f[i] = f[i - 1] \o BytesOf(r[i])
  <2> SUFFICES ASSUME NEW i \in 1..Len(r) PROVE f[i] = f[i - 1] \o BytesOf(r[i])
    OBVIOUS
  <2>1. i - 1 \in 0..Len(r) /\ f[i - 1] \in V
    BY <1>1
  <2>2. QED BY <1>2, <1>4, <2>1
<1>6. f = [i \in 0..Len(r) |-> IF i = 0 THEN <<>> ELSE f[i - 1] \o BytesOf(r[i])]
  <2>1. \A i \in 0..Len(r) : i # 0 => i \in 1..Len(r)
    BY <1>1
  <2>2. QED BY <1>4, <1>5, <2>1
<1>7. upTo = [i \in 0..Len(r) |-> IF i = 0 THEN <<>> ELSE upTo[i - 1] \o BytesOf(r[i])]
  BY <1>6 DEF upTo
<1>8. Drained(r) = upTo[Len(r)]
  BY DEF Drained, upTo
<1>9. 0 \in 0..Len(r) /\ \A i \in 1..Len(r) : i \in 0..Len(r) /\ i # 0
  BY <1>1
<1>10. upTo[0] = <<>> /\ \A i \in 1..Len(r) : upTo[i] = upTo[i - 1] \o BytesOf(r[i])
  BY <1>7, <1>9
<1>11. QED BY <1>8, <1>10

(* What is drained off a ring is sorted, and comes from its chunks.        *)
LEMMA DrainedKeeps ==
  ASSUME NEW r \in Seq(Chunks), Ascending(r)
  PROVE  /\ Drained(r) \in Seq(Byte) /\ Sorted(Drained(r))
         /\ \A a \in Elements(Drained(r)) : a[1] \in NumbersIn(r)
<1>1. PICK f : /\ f[0] = <<>>
               /\ \A i \in 1..Len(r) : f[i] = f[i - 1] \o BytesOf(r[i])
               /\ Drained(r) = f[Len(r)]
  BY DrainedIs
<1> DEFINE Good(m) == /\ f[m] \in Seq(Byte) /\ Sorted(f[m])
                      /\ \A a \in Elements(f[m]) : \E i \in 1..m : a[1] = r[i].n
           G == {m \in 0..Len(r) : Good(m)}
<1>2. Len(r) \in Nat
  OBVIOUS
<1>3. 0 \in G
  <2>1. f[0] \in Seq(Byte) /\ Sorted(f[0]) /\ Elements(f[0]) = {}
    BY <1>1, EmptyElements
  <2>2. 0 \in 0..Len(r)
    BY <1>2
  <2>3. QED BY <2>1, <2>2
<1>4. ASSUME NEW m \in 1..Len(r), m - 1 \in G PROVE m \in G
  <2> DEFINE b == BytesOf(r[m])
  <2>1. r[m] \in Chunks /\ m \in 1..m /\ m \in 0..Len(r)
    BY <1>2
  <2>2. b \in Seq(Byte) /\ Sorted(b) /\ \A a \in Elements(b) : a[1] = r[m].n
    BY <2>1, ChunkElements
  <2>3. Good(m - 1)
    BY <1>4
  <2> HIDE DEF b
  <2>4. Precedes(f[m - 1], b)
    <3> SUFFICES ASSUME NEW a \in Elements(f[m - 1]), NEW c \in Elements(b) PROVE Before(a, c)
      BY DEF Precedes
    <3>1. PICK i \in 1..(m - 1) : a[1] = r[i].n
      BY <2>3
    <3>2. i \in 1..Len(r) /\ i < m
      BY <1>2
    <3>3. a[1] < c[1]
      BY <2>2, <3>1, <3>2 DEF Ascending
    <3>4. QED BY <3>3 DEF Before
  <2>5. f[m] = f[m - 1] \o b
    BY <1>1 DEF b
  <2>6. /\ f[m] \in Seq(Byte) /\ Sorted(f[m])
        /\ Elements(f[m]) = Elements(f[m - 1]) \union Elements(b)
    BY <2>2, <2>3, <2>4, <2>5, ConcatElements
  <2>7. \A i \in 1..(m - 1) : i \in 1..m
    BY <1>2
  <2>8. \A a \in Elements(f[m]) : \E i \in 1..m : a[1] = r[i].n
    BY <2>1, <2>2, <2>3, <2>6, <2>7
  <2>9. QED BY <2>1, <2>6, <2>8
<1> HIDE DEF G
<1>5. \A m \in 0..Len(r) : m \in G
  BY <1>2, <1>3, <1>4, SetInduction
<1>6. Len(r) \in G
  BY <1>2, <1>5
<1>7. QED BY <1>1, <1>6 DEF G, NumbersIn

(* The bytes written, being written and collected, and the chunks of the   *)
(* ring, follow one another in the peer's stream of m frames.              *)
Follow(p, f, a) == Precedes(p, f) /\ Precedes(p, a) /\ Precedes(f, a)
Behind(s, r, m) == \A b \in Elements(s) : b[1] <= m /\ \A n \in NumbersIn(r) : b[1] < n

InLine(p, f, a, r, m) ==
  /\ p \in Seq(Byte) /\ f \in Seq(Byte) /\ a \in Seq(Byte)
  /\ Sorted(p) /\ Sorted(f) /\ Sorted(a) /\ Follow(p, f, a)
  /\ Ascending(r) /\ (\A n \in NumbersIn(r) : n \in 1..m)
  /\ Behind(p, r, m) /\ Behind(f, r, m) /\ Behind(a, r, m)

(* Bytes, chunks or both are dropped.                                      *)
LEMMA LineForgets ==
  ASSUME NEW p, NEW f, NEW a, NEW r, NEW m, InLine(p, f, a, r, m)
  PROVE  /\ InLine(p, <<>>, a, r, m) /\ InLine(p, <<>>, <<>>, r, m)
         /\ InLine(p, f, a, <<>>, m)
BY EmptyElements, EmptyRingKeeps DEF InLine, Follow, Precedes, Behind

(* The frame is written.                                                   *)
LEMMA LineWrites ==
  ASSUME NEW p, NEW f, NEW a, NEW r, NEW m, InLine(p, f, a, r, m)
  PROVE  InLine(p \o f, <<>>, a, r, m)
<1> DEFINE q == p \o f
<1>1. /\ p \in Seq(Byte) /\ f \in Seq(Byte) /\ a \in Seq(Byte)
      /\ Sorted(p) /\ Sorted(f) /\ Sorted(a) /\ Follow(p, f, a)
  BY DEF InLine
<1>2. /\ q \in Seq(Byte) /\ Sorted(q) /\ Elements(q) = Elements(p) \union Elements(f)
  BY <1>1, ConcatElements DEF Follow
<1> HIDE DEF q
<1>3. Behind(q, r, m) /\ Behind(<<>>, r, m)
  BY <1>2, EmptyElements DEF InLine, Behind
<1>4. Follow(q, <<>>, a)
  BY <1>1, <1>2, EmptyElements DEF Follow, Precedes
<1>5. InLine(q, <<>>, a, r, m)
  BY <1>1, <1>2, <1>3, <1>4, EmptyElements DEF InLine
<1>6. QED BY <1>5 DEF q

(* Bytes of the ring's chunks are collected, and those chunks taken off.   *)
LEMMA LineCollects ==
  ASSUME NEW p, NEW f, NEW a, NEW r, NEW m \in Nat, InLine(p, f, a, r, m),
         NEW d \in Seq(Byte), Sorted(d), \A b \in Elements(d) : b[1] \in NumbersIn(r),
         NEW q, Ascending(q), NumbersIn(q) \subseteq NumbersIn(r),
         \A b \in Elements(d), n \in NumbersIn(q) : b[1] < n
  PROVE  InLine(p, <<>>, a \o d, q, m)
<1> DEFINE e == a \o d
<1>1. /\ p \in Seq(Byte) /\ a \in Seq(Byte) /\ Sorted(p) /\ Sorted(a) /\ Precedes(p, a)
      /\ \A n \in NumbersIn(r) : n \in 1..m
  BY DEF InLine, Follow
<1>2. Precedes(a, d) /\ Precedes(p, d)
  BY DEF InLine, Behind, Precedes, Before
<1>3. e \in Seq(Byte) /\ Sorted(e) /\ Elements(e) = Elements(a) \union Elements(d)
  BY <1>1, <1>2, ConcatElements
<1>4. \A b \in Elements(d) : b[1] <= m
  BY <1>1
<1> HIDE DEF e
<1>5. Behind(p, q, m) /\ Behind(a, q, m)
  BY DEF InLine, Behind
<1>6. Behind(e, q, m) /\ Behind(<<>>, q, m)
  BY <1>3, <1>4, <1>5, EmptyElements DEF Behind
<1>7. Follow(p, <<>>, e)
  BY <1>1, <1>2, <1>3, EmptyElements DEF Follow, Precedes
<1>8. InLine(p, <<>>, e, q, m)
  BY <1>1, <1>3, <1>5, <1>6, <1>7, EmptyElements DEF InLine
<1>9. QED BY <1>8 DEF e

(* A frame is cut off the collected bytes.                                 *)
LEMMA LineCuts ==
  ASSUME NEW p, NEW f, NEW a, NEW r, NEW m, InLine(p, f, a, r, m), Len(a) >= ChunkBytes
  PROVE  InLine(p, SubSeq(a, 1, ChunkBytes), SubSeq(a, ChunkBytes + 1, Len(a)), r, m)
<1> DEFINE g == SubSeq(a, 1, ChunkBytes)
           b == SubSeq(a, ChunkBytes + 1, Len(a))
<1>1. /\ p \in Seq(Byte) /\ a \in Seq(Byte) /\ Sorted(p) /\ Sorted(a) /\ Precedes(p, a)
      /\ Behind(a, r, m) /\ Len(a) \in Nat /\ ChunkBytes \in Nat
  BY AudioAssumption DEF InLine, Follow
<1>2. /\ g \in Seq(Byte) /\ b \in Seq(Byte) /\ Sorted(g) /\ Sorted(b) /\ Precedes(g, b)
      /\ Elements(g) \subseteq Elements(a) /\ Elements(b) \subseteq Elements(a)
  BY <1>1, CutElements
<1> HIDE DEF g, b
<1>3. Follow(p, g, b)
  BY <1>1, <1>2 DEF Follow, Precedes
<1>4. Behind(g, r, m) /\ Behind(b, r, m)
  BY <1>1, <1>2 DEF Behind
<1>5. InLine(p, g, b, r, m)
  BY <1>1, <1>2, <1>3, <1>4 DEF InLine
<1>6. QED BY <1>5 DEF g, b

(* The peer's next frame enters the ring.                                  *)
LEMMA LineGrows ==
  ASSUME NEW p, NEW f, NEW a, NEW r \in Seq(Chunks), NEW m \in Nat, InLine(p, f, a, r, m),
         NEW c \in Chunks, c.n = m + 1
  PROVE  InLine(p, f, a, Put(r, c), m + 1) /\ InLine(p, f, a, r, m + 1)
<1> DEFINE q == Put(r, c)
<1>1. (\A n \in NumbersIn(r) : n \in 1..m) /\ Ascending(r)
  BY DEF InLine
<1>2. \A n \in NumbersIn(r) : n < c.n
  BY <1>1
<1>3. Ascending(q) /\ NumbersIn(q) \subseteq NumbersIn(r) \union {m + 1}
  BY <1>1, <1>2, PutKeeps
<1> HIDE DEF q
<1>4. /\ \A n \in NumbersIn(q) : n \in 1..(m + 1)
      /\ \A n \in NumbersIn(r) : n \in 1..(m + 1)
  BY <1>1, <1>3
<1>5. ASSUME NEW s \in Seq(Byte), Behind(s, r, m) PROVE Behind(s, q, m + 1) /\ Behind(s, r, m + 1)
  <2>1. ASSUME NEW b \in Elements(s)
        PROVE  b[1] <= m + 1 /\ b[1] < m + 1 /\ \A n \in NumbersIn(r) : b[1] < n
    <3>1. b \in Byte
      BY DEF Elements
    <3>2. b[1] \in Nat
      BY <3>1 DEF Byte
    <3>3. QED BY <1>5, <3>2 DEF Behind
  <2>2. QED BY <1>3, <2>1 DEF Behind
<1>6. InLine(p, f, a, q, m + 1) /\ InLine(p, f, a, r, m + 1)
  BY <1>1, <1>3, <1>4, <1>5 DEF InLine
<1>7. QED BY <1>6 DEF q

LineInv == InLine(played, frame, accum, down, frames)

(* One step keeps the peer's bytes in line.                                *)
LEMMA NextLineInv == PathInv /\ LineInv /\ [Next]_vars => LineInv'
<1> SUFFICES ASSUME PathInv, LineInv, [Next]_vars PROVE LineInv'
  OBVIOUS
<1>0. down \in Seq(Chunks) /\ frames \in Nat /\ call \in Nat
  BY DEF PathInv, RingType
<1>a. ASSUME NEW p, NEW f, NEW a, NEW r, InLine(p, f, a, r, frames), NextFrame(a)
      PROVE  InLine(p, frame', accum', r, frames)
  <2>1. CASE Len(a) >= ChunkBytes
    <3>1. frame' = SubSeq(a, 1, ChunkBytes) /\ accum' = SubSeq(a, ChunkBytes + 1, Len(a))
      BY <1>a, <2>1 DEF NextFrame
    <3>2. QED BY <1>a, <2>1, <3>1, LineCuts
  <2>2. CASE ~(Len(a) >= ChunkBytes)
    <3>1. frame' = <<>> /\ accum' = a
      BY <1>a, <2>2 DEF NextFrame
    <3>2. QED BY <1>a, <3>1, LineForgets
  <2>3. QED BY <2>1, <2>2
<1>1. CASE Connect \/ RingsClosed
  <2>1. down' = <<>> /\ UNCHANGED <<played, frame, accum, frames>>
    BY <1>1 DEF Connect, RingsClosed, NewRings, pumpVars, histVars
  <2>2. QED BY <2>1, LineForgets DEF LineInv
<1>2. CASE JoinSucceeds \/ TeardownBegins \/ PlaybackFails
  <2>1. frame' = <<>> /\ accum' = <<>> /\ UNCHANGED <<played, down, frames>>
    BY <1>2 DEF JoinSucceeds, StartModemPumps, TeardownBegins, PlaybackFails, histVars
  <2>2. QED BY <2>1, LineForgets DEF LineInv
<1>3. CASE \E len \in ReadSizes : ReadReturns(len)
  <2>1. PICK len \in ReadSizes : ReadReturns(len)
    BY <1>3
  <2>2. UNCHANGED <<played, frames>>
    BY <2>1 DEF ReadReturns, histVars
  <2>3. CASE platform # "win32"
    <3>1. UNCHANGED <<down, accum, frame>>
      BY <2>1, <2>3 DEF ReadReturns
    <3>2. QED BY <2>2, <3>1 DEF LineInv
  <2>4. CASE platform = "win32"
    <3> DEFINE pending == accum \o Drained(down)
    <3>1. /\ Drained(down) \in Seq(Byte) /\ Sorted(Drained(down))
          /\ \A b \in Elements(Drained(down)) : b[1] \in NumbersIn(down)
      BY <1>0, DrainedKeeps DEF LineInv, InLine
    <3>2. InLine(played, <<>>, pending, <<>>, frames)
      BY <1>0, <3>1, EmptyRingKeeps, LineCollects DEF LineInv
    <3>3. /\ down' = <<>>
          /\ frame' = IF Len(pending) >= ChunkBytes THEN SubSeq(pending, 1, ChunkBytes) ELSE <<>>
          /\ accum' = IF Len(pending) >= ChunkBytes
                      THEN SubSeq(pending, ChunkBytes + 1, Len(pending))
                      ELSE pending
      BY <2>1, <2>4 DEF ReadReturns
    <3> HIDE DEF pending
    <3>4. InLine(played, frame', accum', <<>>, frames)
      <4>1. CASE Len(pending) >= ChunkBytes
        BY <3>2, <3>3, <4>1, LineCuts
      <4>2. CASE ~(Len(pending) >= ChunkBytes)
        BY <3>2, <3>3, <4>2
      <4>3. QED BY <4>1, <4>2
    <3>5. QED BY <2>2, <3>3, <3>4 DEF LineInv
  <2>5. QED BY <2>3, <2>4
<1>4. CASE DuplexWritten
  <2>1. /\ played' \in {played, played \o frame} /\ frame' = <<>>
        /\ UNCHANGED <<down, accum, frames>>
    BY <1>4 DEF DuplexWritten
  <2>2. QED BY <2>1, LineForgets, LineWrites DEF LineInv
<1>5. CASE PlaybackGets
  <2> DEFINE d == BytesOf(Head(down))
  <2>1. /\ down # <<>> /\ down' = Tail(down) /\ NextFrame(accum \o d)
        /\ UNCHANGED <<played, frames>>
    BY <1>5 DEF PlaybackGets, histVars
  <2>2. /\ Head(down) \in Chunks /\ NumbersIn(down) = {Head(down).n} \union NumbersIn(Tail(down))
        /\ Ascending(Tail(down)) /\ \A n \in NumbersIn(Tail(down)) : Head(down).n < n
    BY <1>0, <2>1, TailKeeps DEF LineInv, InLine
  <2>3. d \in Seq(Byte) /\ Sorted(d) /\ \A b \in Elements(d) : b[1] = Head(down).n
    BY <2>2, ChunkElements
  <2> HIDE DEF d
  <2>4. /\ \A b \in Elements(d) : b[1] \in NumbersIn(down)
        /\ \A b \in Elements(d), n \in NumbersIn(Tail(down)) : b[1] < n
    BY <2>2, <2>3
  <2>5. NumbersIn(Tail(down)) \subseteq NumbersIn(down)
    BY <2>2
  <2>6. InLine(played, <<>>, accum \o d, Tail(down), frames)
    BY <1>0, <2>2, <2>3, <2>4, <2>5, LineCollects DEF LineInv
  <2>7. InLine(played, frame', accum', Tail(down), frames)
    BY <1>a, <2>1, <2>6
  <2>8. QED BY <2>1, <2>7 DEF LineInv
<1>6. CASE PlaybackWrites
  <2>1. played' = played \o frame /\ NextFrame(accum) /\ UNCHANGED <<down, frames>>
    BY <1>6 DEF PlaybackWrites
  <2>2. InLine(played \o frame, <<>>, accum, down, frames)
    BY LineWrites DEF LineInv
  <2>3. InLine(played \o frame, frame', accum', down, frames)
    BY <1>a, <2>1, <2>2
  <2>4. QED BY <2>1, <2>3 DEF LineInv
<1>7. CASE \E sender \in {"peer", "unknown", "other"}, len \in FrameSizes : FrameArrives(sender, len)
  <2>1. PICK sender \in {"peer", "unknown", "other"}, len \in FrameSizes : FrameArrives(sender, len)
    BY <1>7
  <2> DEFINE c == [call |-> call, n |-> frames + 1, len |-> len]
  <2>2. c \in Chunks /\ c.n = frames + 1
    BY <1>0, AudioAssumption, NewChunk
  <2>3. /\ frames' = frames + 1 /\ down' \in {down, Put(down, c)}
        /\ UNCHANGED <<played, frame, accum>>
    BY <2>1 DEF FrameArrives, pumpVars
  <2> HIDE DEF c
  <2>4. QED BY <1>0, <2>2, <2>3, LineGrows DEF LineInv
<1>8. CASE \/ JoinFails \/ LeaveBegins \/ RtcLeft \/ PumpsStopped \/ BackendsClosed
           \/ ReadEmpty \/ ReadFails \/ OrphanReads
           \/ UpstreamGets \/ PushAccepted \/ PushStalls \/ PauseOver \/ PushNotJoined
           \/ FramesEnd \/ UNCHANGED vars
  <2>1. UNCHANGED <<played, frame, accum, down, frames>>
    BY <1>8 DEF JoinFails, LeaveBegins, RtcLeft, PumpsStopped, BackendsClosed, ReadEmpty,
       ReadFails, OrphanReads, UpstreamGets, PushAccepted, PushStalls, PauseOver, PushNotJoined,
       FramesEnd, vars, pumpVars, histVars
  <2>2. QED BY <2>1 DEF LineInv
<1>9. QED
  BY <1>1, <1>2, <1>3, <1>4, <1>5, <1>6, <1>7, <1>8 DEF Next, Teardown

(* What is played, the frame being written, the remainder and the ring     *)
(* hold the peer's bytes one after the other, in order.                    *)
THEOREM LineInvariant == Spec => []LineInv
<1>1. Init => LineInv
  <2> SUFFICES ASSUME Init PROVE LineInv
    OBVIOUS
  <2>1. played = <<>> /\ frame = <<>> /\ accum = <<>> /\ down = <<>> /\ frames = 0
    BY DEF Init
  <2>2. QED BY <2>1, EmptyElements, EmptyRingKeeps DEF LineInv, InLine, Follow, Precedes, Behind
<1>2. QED BY <1>1, NextLineInv, PathInvariant, PTL DEF Spec

(* What the peer says is written to the modem in order and at most once,   *)
(* on both pump designs: partial frames, the bytes left over, ring drops,  *)
(* write timeouts and a change of call repeat and reorder nothing.         *)
THEOREM PeerIsPlayedInOrder == Spec => []PlayedInOrder
<1>1. LineInv => PlayedInOrder
  BY DEF LineInv, InLine, Sorted, Before, PlayedInOrder
<1>2. QED BY <1>1, LineInvariant, PTL

-----------------------------------------------------------------------------
(* Recordings are complete                                                 *)

(* What NumbersOf() computes, position by position.                        *)
Selects(f, h, c) ==
  /\ f[0] = <<>>
  /\ \A i \in 1..Len(h) :
       f[i] = IF h[i].call = c THEN Append(f[i - 1], h[i].n) ELSE f[i - 1]

(* What NumbersOf() computes, position by position.                        *)
LEMMA NumbersOfIs ==
  ASSUME NEW h \in Seq(Chunks), NEW c
  PROVE  \E f : Selects(f, h, c) /\ NumbersOf(h, c) = f[Len(h)]
<1> DEFINE V == Seq(Nat)
           Add(i, v) == IF h[i].call = c THEN Append(v, h[i].n) ELSE v
           step == [a \in (1..Len(h)) \X V |-> Add(a[1], a[2])]
           upTo == CHOOSE f : f = [i \in 0..Len(h) |->
                     IF i = 0 THEN <<>>
                     ELSE IF h[i].call = c THEN Append(f[i - 1], h[i].n) ELSE f[i - 1]]
<1>1. Len(h) \in Nat /\ <<>> \in V
  OBVIOUS
<1>2. ASSUME NEW i \in 1..Len(h), NEW v \in V PROVE Add(i, v) \in V
  <2>1. h[i] \in Chunks
    OBVIOUS
  <2>2. h[i].n \in Nat
    BY <2>1 DEF Chunks
  <2>3. QED BY <2>2
<1> HIDE DEF Add, V, upTo
<1>3. step \in [(1..Len(h)) \X V -> V]
  <2> SUFFICES ASSUME NEW a \in (1..Len(h)) \X V PROVE Add(a[1], a[2]) \in V
    OBVIOUS
  <2>1. a[1] \in 1..Len(h) /\ a[2] \in V
    OBVIOUS
  <2>2. QED BY <1>2, <2>1
<1>4. \A i \in 1..Len(h), v \in V : step[<<i, v>>] = Add(i, v)
  OBVIOUS
<1> HIDE DEF step
<1>5. PICK f \in [0..Len(h) -> V] :
        f[0] = <<>> /\ \A i \in 1..Len(h) : f[i] = step[<<i, f[i - 1]>>]
  <2> DEFINE n == Len(h)
             none == <<>>
  <2>1. n \in Nat /\ none \in V
    BY <1>1
  <2>2. step \in [(1..n) \X V -> V]
    BY <1>3
  <2> HIDE DEF n, none
  <2>3. \E f \in [0..n -> V] : Recurs(f, n, none, step)
    BY <2>1, <2>2, Recursion
  <2>4. QED BY <2>3 DEF n, none, Recurs
<1>6. \A i \in 1..Len(h) : f[i] = Add(i, f[i - 1])
  <2> SUFFICES ASSUME NEW i \in 1..Len(h) PROVE f[i] = Add(i, f[i - 1])
    OBVIOUS
  <2>1. i - 1 \in 0..Len(h) /\ f[i - 1] \in V
    BY <1>1
  <2>2. QED BY <1>4, <1>5, <2>1
<1>7. f = [i \in 0..Len(h) |->
             IF i = 0 THEN <<>>
             ELSE IF h[i].call = c THEN Append(f[i - 1], h[i].n) ELSE f[i - 1]]
  <2>1. \A i \in 0..Len(h) : i # 0 => i \in 1..Len(h)
    BY <1>1
  <2>2. QED BY <1>5, <1>6, <2>1 DEF Add
<1>8. upTo = [i \in 0..Len(h) |->
                IF i = 0 THEN <<>>
                ELSE IF h[i].call = c THEN Append(upTo[i - 1], h[i].n) ELSE upTo[i - 1]]
  BY <1>7 DEF upTo
<1>9. NumbersOf(h, c) = upTo[Len(h)]
  BY DEF NumbersOf, upTo
<1>10. 0 \in 0..Len(h) /\ \A i \in 1..Len(h) : i \in 0..Len(h) /\ i # 0
  BY <1>1
<1>11. Selects(upTo, h, c)
  BY <1>8, <1>10 DEF Selects
<1>12. QED BY <1>9, <1>11

(* A chunk appended to a history is added for its own call only.           *)
LEMMA NumbersOfAppend ==
  ASSUME NEW h \in Seq(Chunks), NEW x \in Chunks, NEW c
  PROVE  NumbersOf(Append(h, x), c) =
           IF x.call = c THEN Append(NumbersOf(h, c), x.n) ELSE NumbersOf(h, c)
<1> DEFINE p == Append(h, x)
<1>1. /\ p \in Seq(Chunks) /\ Len(p) = Len(h) + 1 /\ p[Len(h) + 1] = x
      /\ Len(h) \in Nat /\ \A i \in 1..Len(h) : p[i] = h[i]
  BY AppendProperties
<1> HIDE DEF p
<1>2. PICK f : Selects(f, h, c) /\ NumbersOf(h, c) = f[Len(h)]
  BY NumbersOfIs
<1>3. PICK g : Selects(g, p, c) /\ NumbersOf(p, c) = g[Len(p)]
  BY <1>1, NumbersOfIs
<1> DEFINE G == {i \in 0..Len(h) : f[i] = g[i]}
<1>4. 0 \in G
  BY <1>1, <1>2, <1>3 DEF Selects
<1>5. ASSUME NEW i \in 1..Len(h), i - 1 \in G PROVE i \in G
  <2>1. i \in 1..Len(p) /\ i \in 0..Len(h) /\ p[i] = h[i] /\ f[i - 1] = g[i - 1]
    BY <1>1, <1>5
  <2>2. QED BY <1>2, <1>3, <2>1 DEF Selects
<1> HIDE DEF G
<1>6. \A i \in 0..Len(h) : i \in G
  BY <1>1, <1>4, <1>5, SetInduction
<1>7. f[Len(h)] = g[Len(h)]
  <2>1. Len(h) \in G
    BY <1>1, <1>6
  <2>2. QED BY <2>1 DEF G
<1>8. Len(p) \in 1..Len(p) /\ Len(p) - 1 = Len(h) /\ p[Len(p)] = x
  BY <1>1
<1>9. g[Len(p)] = IF x.call = c THEN Append(g[Len(h)], x.n) ELSE g[Len(h)]
  BY <1>3, <1>8 DEF Selects
<1>10. NumbersOf(p, c) = IF x.call = c THEN Append(NumbersOf(h, c), x.n) ELSE NumbersOf(h, c)
  BY <1>2, <1>3, <1>7, <1>9
<1>11. QED BY <1>10 DEF p

(* A history without chunks of a call has no numbers of it.                *)
LEMMA NumbersOfNone ==
  ASSUME NEW h \in Seq(Chunks), NEW c, \A i \in 1..Len(h) : h[i].call # c
  PROVE  NumbersOf(h, c) = <<>>
<1>1. PICK f : Selects(f, h, c) /\ NumbersOf(h, c) = f[Len(h)]
  BY NumbersOfIs
<1>2. Len(h) \in Nat
  OBVIOUS
<1> DEFINE G == {i \in 0..Len(h) : f[i] = <<>>}
<1>3. 0 \in G
  BY <1>1, <1>2 DEF Selects
<1>4. ASSUME NEW i \in 1..Len(h), i - 1 \in G PROVE i \in G
  BY <1>1, <1>2, <1>4 DEF Selects
<1> HIDE DEF G
<1>5. \A i \in 0..Len(h) : i \in G
  BY <1>2, <1>3, <1>4, SetInduction
<1>6. Len(h) \in G
  BY <1>2, <1>5
<1>7. QED BY <1>1, <1>6 DEF G

Records == [call : Nat, user : Seq(Nat), ai : Seq(Nat)]

(* prune() keeps some of the files, as they are.                           *)
LEMMA Pruned ==
  ASSUME NEW w \in Seq(Records)
  PROVE  /\ Prune(w) \in Seq(Records)
         /\ \A i \in 1..Len(Prune(w)) : \E j \in 1..Len(w) : Prune(w)[i] = w[j]
<1>1. Len(w) \in Nat /\ Keep \in Nat \ {0}
  BY AudioAssumption
<1>2. CASE Len(w) > Keep
  <2> DEFINE k == Len(w) - Keep
             q == SubSeq(w, k + 1, Len(w))
  <2>1. k \in Nat /\ k + 1 \in 1..Len(w) /\ Prune(w) = q
    BY <1>1, <1>2 DEF Prune
  <2> HIDE DEF k
  <2>2. \A i \in (k + 1)..Len(w) : w[i] \in Records
    BY <1>1, <2>1
  <2>3. /\ q \in Seq(Records) /\ Len(q) = Len(w) - k /\ \A i \in 1..(Len(w) - k) : q[i] = w[i + k]
    BY <1>1, <2>1, <2>2, SubSeqProperties
  <2> HIDE DEF q
  <2>4. \A i \in 1..Len(q) : i + k \in 1..Len(w) /\ q[i] = w[i + k]
    BY <1>1, <2>1, <2>3
  <2>5. QED BY <2>1, <2>3, <2>4
<1>3. CASE ~(Len(w) > Keep)
  BY <1>3 DEF Prune
<1>4. QED BY <1>2, <1>3

Finished == stage \in {"idle", "disabling"}

(* The recording agrees with the histories.                                *)
Complete(file, P, H) ==
  file.user = NumbersOf(P, file.call) /\ file.ai = NumbersOf(H, file.call)

RecType ==
  /\ recording \in BOOLEAN /\ user \in Seq(Nat) /\ ai \in Seq(Nat)
  /\ files \in Seq(Records)

(* The tracks of the call that is up hold all it has pushed and heard.     *)
TrackInv ==
  recording => /\ ~Finished
               /\ user = NumbersOf(pushed, call) /\ ai = NumbersOf(heard, call)

(* No file belongs to a call that may still push or hear something.        *)
FileInv ==
  \A i \in 1..Len(files) :
    /\ files[i].call <= call /\ (files[i].call = call => Finished)
    /\ Complete(files[i], pushed, heard)

PastInv ==
  /\ \A i \in 1..Len(pushed) : pushed[i].call <= call
  /\ \A i \in 1..Len(heard) : heard[i].call <= call

RecInv == RecType /\ TrackInv /\ FileInv /\ PastInv

(* One step keeps tracks and files complete.                               *)
LEMMA NextRecInv == PathInv /\ MicInv /\ RecInv /\ [Next]_vars => RecInv'
<1> SUFFICES ASSUME PathInv, MicInv, RecInv, [Next]_vars PROVE RecInv'
  OBVIOUS
<1>0. /\ call \in Nat /\ pushed \in Seq(Chunks) /\ heard \in Seq(Chunks) /\ held \in Chunks
      /\ RecType /\ TrackInv /\ FileInv /\ PastInv
      /\ Len(pushed) \in Nat /\ Len(heard) \in Nat /\ Len(files) \in Nat
  BY DEF PathInv, RingType, RecInv, RecType
<1>a. \A i \in 1..Len(files) : files[i].call \in Nat /\ files[i] \in Records
  <2>1. \A i \in 1..Len(files) : files[i] \in Records
    BY <1>0 DEF RecType
  <2>2. QED BY <2>1 DEF Records
<1>b. /\ \A i \in 1..Len(pushed) : pushed[i].call \in Nat
      /\ \A i \in 1..Len(heard) : heard[i].call \in Nat
  <2>1. /\ \A i \in 1..Len(pushed) : pushed[i] \in Chunks
        /\ \A i \in 1..Len(heard) : heard[i] \in Chunks
    BY <1>0
  <2>2. QED BY <2>1 DEF Chunks
<1>1. CASE Connect
  <2>1. /\ stage = "idle" /\ stage' = "joining" /\ call' = call + 1
        /\ recording' \in BOOLEAN /\ user' = <<>> /\ ai' = <<>>
        /\ UNCHANGED <<files, pushed, heard>>
    BY <1>1 DEF Connect, BeginRecording, histVars
  <2>2. NumbersOf(pushed, call + 1) = <<>>
    <3>1. \A i \in 1..Len(pushed) : pushed[i].call # call + 1
      BY <1>0, <1>b DEF PastInv
    <3>2. QED BY <1>0, <3>1, NumbersOfNone
  <2>3. NumbersOf(heard, call + 1) = <<>>
    <3>1. \A i \in 1..Len(heard) : heard[i].call # call + 1
      BY <1>0, <1>b DEF PastInv
    <3>2. QED BY <1>0, <3>1, NumbersOfNone
  <2>4. TrackInv'
    BY <2>1, <2>2, <2>3 DEF TrackInv, Finished
  <2>5. FileInv'
    BY <1>0, <1>a, <2>1 DEF FileInv, Complete
  <2>6. PastInv'
    BY <1>0, <1>b, <2>1 DEF PastInv
  <2>7. RecType'
    BY <1>0, <2>1 DEF RecType
  <2>8. QED BY <2>4, <2>5, <2>6, <2>7 DEF RecInv
<1>2. CASE PumpsStopped
  <2> DEFINE new == [call |-> call, user |-> user, ai |-> ai]
  <2>1. /\ stage = "stopping" /\ stage' = "disabling" /\ recording' = FALSE
        /\ user' = <<>> /\ ai' = <<>>
        /\ UNCHANGED <<call, pushed, heard>>
        /\ \/ recording /\ files' = Prune(Append(files, new))
           \/ files' = Prune(files)
           \/ files' = files
    BY <1>2 DEF PumpsStopped, Finalize, histVars
  <2>2. new \in Records /\ new.call = call /\ (recording => Complete(new, pushed, heard))
    BY <1>0 DEF RecType, Records, TrackInv, Complete
  <2> HIDE DEF new
  <2>3. /\ Append(files, new) \in Seq(Records) /\ Len(Append(files, new)) = Len(files) + 1
        /\ Append(files, new)[Len(files) + 1] = new
        /\ \A i \in 1..Len(files) : Append(files, new)[i] = files[i]
    BY <1>0, <2>2, AppendProperties DEF RecType
  <2>4. \A i \in 1..Len(Append(files, new)) :
          \/ Append(files, new)[i] = new
          \/ \E j \in 1..Len(files) : Append(files, new)[i] = files[j]
    BY <1>0, <2>3
  <2>5. /\ files' \in Seq(Records)
        /\ \A i \in 1..Len(files') : \/ recording /\ files'[i] = new
                                     \/ \E j \in 1..Len(files) : files'[i] = files[j]
    <3>1. CASE recording /\ files' = Prune(Append(files, new))
      <4> DEFINE w == Append(files, new)
      <4>1. /\ w \in Seq(Records) /\ files' = Prune(w)
            /\ \A i \in 1..Len(w) : w[i] = new \/ \E j \in 1..Len(files) : w[i] = files[j]
        BY <2>3, <2>4, <3>1
      <4> HIDE DEF w
      <4>2. /\ files' \in Seq(Records)
            /\ \A i \in 1..Len(files') : \E k \in 1..Len(w) : files'[i] = w[k]
        BY <4>1, Pruned
      <4>3. QED BY <3>1, <4>1, <4>2
    <3>2. CASE files' = Prune(files)
      BY <1>0, <3>2, Pruned DEF RecType
    <3>3. CASE files' = files
      BY <1>0, <3>3 DEF RecType
    <3>4. QED BY <2>1, <3>1, <3>2, <3>3
  <2>6. FileInv'
    <3> SUFFICES ASSUME NEW i \in 1..Len(files')
                 PROVE  files'[i].call <= call /\ Complete(files'[i], pushed, heard)
      BY <2>1 DEF FileInv, Finished, Complete
    <3>1. CASE recording /\ files'[i] = new
      BY <1>0, <2>2, <3>1
    <3>2. CASE \E j \in 1..Len(files) : files'[i] = files[j]
      BY <1>0, <3>2 DEF FileInv
    <3>3. QED BY <2>5, <3>1, <3>2
  <2>7. RecType'
    <3>1. user' \in Seq(Nat) /\ ai' \in Seq(Nat)
      BY <2>1
    <3>2. QED BY <2>1, <2>5, <3>1 DEF RecType
  <2>8. TrackInv' /\ PastInv'
    BY <1>0, <2>1 DEF TrackInv, PastInv
  <2>9. QED BY <2>6, <2>7, <2>8 DEF RecInv
<1>3. CASE PushAccepted
  <2>1. /\ upstream = "push" /\ pushed' = Append(pushed, held)
        /\ user' = IF recording THEN Append(user, held.n) ELSE user
        /\ UNCHANGED <<call, stage, recording, ai, files, heard>>
    BY <1>3 DEF PushAccepted, Tap, callVars
  <2>2. ~Finished
    BY <2>1 DEF PathInv, StageInv, Finished
  <2>3. held.call = call /\ held.n \in Nat
    <3>1. held.n # 0 /\ held.n \in Nat
      BY <2>1 DEF MicInv, Pushing, PathInv, RingType
    <3>2. held # NoChunk
      BY <3>1 DEF NoChunk
    <3>3. QED BY <3>1, <3>2 DEF PathInv, OwnerInv
  <2>4. \A c : NumbersOf(pushed', c) =
                 IF call = c THEN Append(NumbersOf(pushed, c), held.n) ELSE NumbersOf(pushed, c)
    BY <1>0, <2>1, <2>3, NumbersOfAppend
  <2>5. RecType'
    BY <1>0, <2>1, <2>3 DEF RecType
  <2>6. TrackInv'
    BY <1>0, <2>1, <2>2, <2>4 DEF TrackInv, Finished
  <2>7. FileInv'
    BY <1>0, <2>1, <2>2, <2>4 DEF FileInv, Complete, Finished
  <2>8. PastInv'
    <3>1. /\ Len(pushed') = Len(pushed) + 1 /\ pushed'[Len(pushed) + 1] = held
          /\ \A i \in 1..Len(pushed) : pushed'[i] = pushed[i]
      BY <1>0, <2>1, AppendProperties
    <3>2. \A i \in 1..Len(pushed') : i = Len(pushed) + 1 \/ i \in 1..Len(pushed)
      BY <1>0, <3>1
    <3>3. \A i \in 1..Len(pushed') : pushed'[i].call <= call
      BY <1>0, <2>3, <3>1, <3>2 DEF PastInv
    <3>4. QED BY <1>0, <2>1, <3>3 DEF PastInv
  <2>9. QED BY <2>5, <2>6, <2>7, <2>8 DEF RecInv
<1>4. CASE \E sender \in {"peer", "unknown", "other"}, len \in FrameSizes : FrameArrives(sender, len)
  <2>1. PICK sender \in {"peer", "unknown", "other"}, len \in FrameSizes : FrameArrives(sender, len)
    BY <1>4
  <2> DEFINE c == [call |-> call, n |-> frames + 1, len |-> len]
  <2>2. c \in Chunks /\ c.call = call /\ c.n = frames + 1 /\ c.n \in Nat
    <3>1. len \in Nat /\ frames \in Nat
      BY AudioAssumption DEF PathInv, RingType
    <3>2. QED BY <1>0, <3>1, NewChunk
  <2>3. /\ downstream = "frames"
        /\ UNCHANGED <<call, stage, recording, user, files, pushed>>
        /\ \/ /\ heard' = Append(heard, c)
              /\ ai' = IF recording THEN Append(ai, c.n) ELSE ai
           \/ UNCHANGED <<heard, ai>>
    BY <2>1 DEF FrameArrives, Tap, callVars
  <2> HIDE DEF c
  <2>4. ~Finished
    BY <2>3 DEF PathInv, StageInv, Finished
  <2>5. CASE UNCHANGED <<heard, ai>>
    BY <1>0, <2>3, <2>5 DEF RecInv, RecType, TrackInv, FileInv, PastInv, Complete, Finished
  <2>6. CASE heard' = Append(heard, c) /\ ai' = IF recording THEN Append(ai, c.n) ELSE ai
    <3>1. \A d : NumbersOf(heard', d) =
                   IF call = d THEN Append(NumbersOf(heard, d), c.n) ELSE NumbersOf(heard, d)
      BY <1>0, <2>2, <2>6, NumbersOfAppend
    <3>2. RecType'
      BY <1>0, <2>2, <2>3, <2>6 DEF RecType
    <3>3. TrackInv'
      BY <1>0, <2>3, <2>4, <2>6, <3>1 DEF TrackInv, Finished
    <3>4. FileInv'
      BY <1>0, <2>3, <2>4, <3>1 DEF FileInv, Complete, Finished
    <3>5. PastInv'
      <4>1. /\ Len(heard') = Len(heard) + 1 /\ heard'[Len(heard) + 1] = c
            /\ \A i \in 1..Len(heard) : heard'[i] = heard[i]
        BY <1>0, <2>2, <2>6, AppendProperties
      <4>2. \A i \in 1..Len(heard') : i = Len(heard) + 1 \/ i \in 1..Len(heard)
        BY <1>0, <4>1
      <4>3. \A i \in 1..Len(heard') : heard'[i].call <= call
        BY <1>0, <2>2, <4>1, <4>2 DEF PastInv
      <4>4. QED BY <1>0, <2>3, <4>3 DEF PastInv
    <3>6. QED BY <3>2, <3>3, <3>4, <3>5 DEF RecInv
  <2>7. QED BY <2>3, <2>5, <2>6
<1>5. CASE \/ JoinSucceeds \/ JoinFails \/ TeardownBegins \/ LeaveBegins \/ RtcLeft
           \/ RingsClosed \/ BackendsClosed
           \/ \E len \in ReadSizes : ReadReturns(len)
           \/ ReadEmpty \/ ReadFails \/ DuplexWritten \/ OrphanReads
           \/ PlaybackGets \/ PlaybackWrites \/ PlaybackFails
           \/ UpstreamGets \/ PushStalls \/ PauseOver \/ PushNotJoined
           \/ FramesEnd \/ UNCHANGED vars
  <2>1. UNCHANGED <<call, recording, user, ai, files, pushed, heard>> /\ Finished' = Finished
    <3>1. UNCHANGED <<call, recording, user, ai, files, pushed, heard>>
      BY <1>5 DEF JoinSucceeds, JoinFails, TeardownBegins, LeaveBegins, RtcLeft, RingsClosed,
         BackendsClosed, ReadReturns, ReadEmpty, ReadFails, DuplexWritten, OrphanReads, PlaybackGets,
         PlaybackWrites, PlaybackFails, UpstreamGets, PushStalls, PauseOver, PushNotJoined, FramesEnd,
         vars, callVars, recVars, histVars
    <3>2. Finished' = Finished
      <4>1. CASE JoinSucceeds \/ JoinFails \/ TeardownBegins \/ LeaveBegins \/ RtcLeft \/ RingsClosed
        <5>1. \/ Finished /\ stage' = "idle"
              \/ ~Finished /\ stage' \in {"live", "cancelling", "leaving", "stopping"}
          BY <4>1 DEF JoinSucceeds, JoinFails, TeardownBegins, LeaveBegins, RtcLeft, RingsClosed,
             Finished
        <5>2. QED BY <5>1 DEF Finished
      <4>2. CASE ~(\/ JoinSucceeds \/ JoinFails \/ TeardownBegins \/ LeaveBegins \/ RtcLeft
                   \/ RingsClosed)
        <5>1. stage' = stage
          BY <1>5, <4>2 DEF BackendsClosed, ReadReturns, ReadEmpty, ReadFails, DuplexWritten,
             OrphanReads, PlaybackGets, PlaybackWrites, PlaybackFails, UpstreamGets, PushStalls,
             PauseOver, PushNotJoined, FramesEnd, vars, callVars
        <5>2. QED BY <5>1 DEF Finished
      <4>3. QED BY <4>1, <4>2
    <3>3. QED BY <3>1, <3>2
  <2>2. QED BY <1>0, <2>1 DEF RecInv, RecType, TrackInv, FileInv, PastInv, Complete
<1>6. QED
  BY <1>1, <1>2, <1>3, <1>4, <1>5 DEF Next, Teardown

(* The tracks of the call being recorded are all it has pushed and heard   *)
(* so far, and every file on disk holds all its call has pushed and heard. *)
THEOREM RecInvariant == Spec => []RecInv
<1>1. Init => RecInv
  <2> SUFFICES ASSUME Init PROVE RecInv
    OBVIOUS
  <2>1. /\ recording = FALSE /\ user = <<>> /\ ai = <<>> /\ files = <<>>
        /\ pushed = <<>> /\ heard = <<>>
    BY DEF Init
  <2>2. Len(<<>>) = 0 /\ 1..0 = {} /\ <<>> \in Seq(Nat) /\ <<>> \in Seq(Records)
    OBVIOUS
  <2>3. RecType
    BY <2>1, <2>2 DEF RecType
  <2>4. FileInv /\ PastInv
    BY <2>1, <2>2 DEF FileInv, PastInv
  <2>5. QED BY <2>1, <2>3, <2>4 DEF RecInv, TrackInv
<1>2. QED BY <1>1, NextRecInv, PathInvariant, MicInvariant, PTL DEF Spec

(* A recording on disk holds all its call pushed to the RTC session and    *)
(* all it heard, in order: nothing is pushed or heard once finalize() has  *)
(* taken the tracks, and pruning touches whole files only.                 *)
THEOREM RecordingsComplete == Spec => []RecordingComplete
<1>1. RecInv => RecordingComplete
  BY DEF RecInv, FileInv, Complete, RecordingComplete
<1>2. QED BY <1>1, RecInvariant, PTL

-----------------------------------------------------------------------------
(* The rings keep their capacity                                           *)

(* What Bytes() computes, position by position.                            *)
Sums(f, r) == f[0] = 0 /\ \A i \in 1..Len(r) : f[i] = f[i - 1] + r[i].len

(* Bytes() is a running sum.                                               *)
LEMMA BytesIs ==
  ASSUME NEW r \in Seq(Chunks)
  PROVE  \E f \in [0..Len(r) -> Nat] : Sums(f, r) /\ Bytes(r) = f[Len(r)]
<1> DEFINE n == Len(r)
           step == [a \in (1..n) \X Nat |-> a[2] + r[a[1]].len]
           upTo == CHOOSE f : f = [i \in 0..Len(r) |-> IF i = 0 THEN 0 ELSE f[i - 1] + r[i].len]
<1>1. n \in Nat
  OBVIOUS
<1>2. \A i \in 1..n : r[i].len \in Nat
  <2>1. \A i \in 1..n : r[i] \in Chunks
    OBVIOUS
  <2>2. QED BY <2>1 DEF Chunks
<1>3. Bytes(r) = upTo[n]
  BY DEF Bytes
<1> HIDE DEF upTo, n
<1>4. step \in [(1..n) \X Nat -> Nat]
  <2> SUFFICES ASSUME NEW a \in (1..n) \X Nat PROVE a[2] + r[a[1]].len \in Nat
    OBVIOUS
  <2>1. a[1] \in 1..n /\ a[2] \in Nat
    OBVIOUS
  <2>2. QED BY <1>2, <2>1
<1>5. \A i \in 1..n, v \in Nat : step[<<i, v>>] = v + r[i].len
  OBVIOUS
<1> HIDE DEF step
<1>6. PICK f \in [0..n -> Nat] : Recurs(f, n, 0, step)
  BY <1>1, <1>4, Recursion
<1>7. \A i \in 1..n : f[i] = f[i - 1] + r[i].len
  <2> SUFFICES ASSUME NEW i \in 1..n PROVE f[i] = f[i - 1] + r[i].len
    OBVIOUS
  <2>1. i - 1 \in 0..n /\ f[i - 1] \in Nat
    BY <1>1
  <2>2. QED BY <1>5, <1>6, <2>1 DEF Recurs
<1>8. f = [i \in 0..n |-> IF i = 0 THEN 0 ELSE f[i - 1] + r[i].len]
  <2>1. \A i \in 0..n : i # 0 => i \in 1..n
    BY <1>1
  <2>2. QED BY <1>6, <1>7, <2>1 DEF Recurs
<1>9. upTo = [i \in 0..n |-> IF i = 0 THEN 0 ELSE upTo[i - 1] + r[i].len]
  BY <1>8 DEF upTo, n
<1>10. 0 \in 0..n /\ n \in 0..n /\ \A i \in 1..n : i \in 0..n /\ i # 0
  BY <1>1
<1>11. upTo[0] = 0 /\ \A i \in 1..n : upTo[i] = upTo[i - 1] + r[i].len
  BY <1>9, <1>10
<1> DEFINE G == {i \in 0..n : upTo[i] \in Nat}
<1>12. 0 \in G
  BY <1>10, <1>11
<1>13. ASSUME NEW i \in 1..n, i - 1 \in G PROVE i \in G
  <2>1. upTo[i - 1] \in Nat /\ r[i].len \in Nat /\ i \in 0..n
    BY <1>2, <1>10, <1>13
  <2>2. upTo[i] = upTo[i - 1] + r[i].len
    BY <1>11
  <2>3. QED BY <2>1, <2>2
<1> HIDE DEF G
<1>14. \A i \in 0..n : i \in G
  BY <1>1, <1>12, <1>13, SetInduction
<1>15. \A i \in 0..n : upTo[i] \in Nat
  BY <1>14 DEF G
<1>16. upTo \in [0..n -> Nat]
  BY <1>9, <1>15
<1>17. QED BY <1>3, <1>11, <1>16 DEF Sums, n

(* A chunk adds its length.                                                *)
LEMMA BytesAppend ==
  ASSUME NEW r \in Seq(Chunks), NEW c \in Chunks
  PROVE  Bytes(Append(r, c)) = Bytes(r) + c.len /\ Bytes(r) \in Nat
<1> DEFINE p == Append(r, c)
<1>1. /\ p \in Seq(Chunks) /\ Len(p) = Len(r) + 1 /\ p[Len(r) + 1] = c
      /\ Len(r) \in Nat /\ \A i \in 1..Len(r) : p[i] = r[i]
  BY AppendProperties
<1> HIDE DEF p
<1>2. PICK f \in [0..Len(r) -> Nat] : Sums(f, r) /\ Bytes(r) = f[Len(r)]
  BY BytesIs
<1>3. PICK g \in [0..Len(p) -> Nat] : Sums(g, p) /\ Bytes(p) = g[Len(p)]
  BY <1>1, BytesIs
<1> DEFINE G == {i \in 0..Len(r) : f[i] = g[i]}
<1>4. 0 \in G
  BY <1>1, <1>2, <1>3 DEF Sums
<1>5. ASSUME NEW i \in 1..Len(r), i - 1 \in G PROVE i \in G
  <2>1. i \in 1..Len(p) /\ i \in 0..Len(r) /\ p[i] = r[i] /\ f[i - 1] = g[i - 1]
    BY <1>1, <1>5
  <2>2. QED BY <1>2, <1>3, <2>1 DEF Sums
<1> HIDE DEF G
<1>6. \A i \in 0..Len(r) : i \in G
  BY <1>1, <1>4, <1>5, SetInduction
<1>7. f[Len(r)] = g[Len(r)] /\ f[Len(r)] \in Nat
  <2>1. Len(r) \in G /\ Len(r) \in 0..Len(r)
    BY <1>1, <1>6
  <2>2. QED BY <2>1 DEF G
<1>8. Len(p) \in 1..Len(p) /\ Len(p) - 1 = Len(r) /\ p[Len(p)] = c
  BY <1>1
<1>9. g[Len(p)] = g[Len(r)] + c.len
  BY <1>3, <1>8 DEF Sums
<1>10. QED BY <1>2, <1>3, <1>7, <1>9 DEF p

(* Taking a chunk off does not add bytes.                                  *)
LEMMA BytesTail ==
  ASSUME NEW r \in Seq(Chunks), r # <<>>
  PROVE  Bytes(Tail(r)) <= Bytes(r)
<1> DEFINE t == Tail(r)
           first == r[1].len
<1>1. /\ t \in Seq(Chunks) /\ Len(t) = Len(r) - 1 /\ Len(r) \in Nat \ {0} /\ Len(t) \in Nat
      /\ \A i \in 1..Len(t) : t[i] = r[i + 1]
  BY HeadTailProperties, EmptySeq
<1>2. first \in Nat
  <2>1. r[1] \in Chunks
    BY <1>1
  <2>2. QED BY <2>1 DEF Chunks
<1> HIDE DEF t
<1>3. PICK f \in [0..Len(r) -> Nat] : Sums(f, r) /\ Bytes(r) = f[Len(r)]
  BY BytesIs
<1>4. PICK g \in [0..Len(t) -> Nat] : Sums(g, t) /\ Bytes(t) = g[Len(t)]
  BY <1>1, BytesIs
<1> DEFINE G == {i \in 0..Len(t) : f[i + 1] = g[i] + first}
<1>5. 0 \in G
  <2>1. 1 \in 1..Len(r) /\ 0 \in 0..Len(t)
    BY <1>1
  <2>2. f[1] = f[1 - 1] + first /\ f[0] = 0 /\ g[0] = 0
    BY <1>3, <1>4, <2>1 DEF Sums
  <2>3. QED BY <1>2, <2>1, <2>2
<1> HIDE DEF first
<1>6. ASSUME NEW i \in 1..Len(t), i - 1 \in G PROVE i \in G
  <2>1. /\ i + 1 \in 1..Len(r) /\ (i + 1) - 1 = i /\ (i - 1) + 1 = i /\ i \in 0..Len(t)
        /\ i - 1 \in 0..Len(t) /\ t[i] = r[i + 1]
    BY <1>1
  <2>2. f[i] = g[i - 1] + first
    BY <1>6, <2>1
  <2>3. f[i + 1] = f[i] + r[i + 1].len /\ g[i] = g[i - 1] + r[i + 1].len
    BY <1>3, <1>4, <2>1 DEF Sums
  <2>4. g[i - 1] \in Nat /\ r[i + 1].len \in Nat
    <3>1. r[i + 1] \in Chunks
      BY <2>1
    <3>2. QED BY <2>1, <3>1 DEF Chunks
  <2>5. f[i + 1] = g[i] + first
    BY <1>2, <2>2, <2>3, <2>4
  <2>6. QED BY <2>1, <2>5
<1> HIDE DEF G
<1>7. \A i \in 0..Len(t) : i \in G
  BY <1>1, <1>5, <1>6, SetInduction
<1>8. Len(t) \in G /\ Len(t) + 1 = Len(r) /\ Len(t) \in 0..Len(t)
  BY <1>1, <1>7
<1>9. f[Len(r)] = g[Len(t)] + first /\ g[Len(t)] \in Nat
  BY <1>8 DEF G
<1>10. Bytes(t) <= Bytes(r)
  BY <1>2, <1>3, <1>4, <1>9
<1>11. QED BY <1>10 DEF t

(* put() makes room first, so the ring stays within its capacity.          *)
LEMMA PutFits ==
  ASSUME NEW r \in Seq(Chunks), NEW c \in Chunks, Bytes(r) <= Capacity
  PROVE  Bytes(Put(r, c)) <= Capacity
<1>0. c.len \in Nat /\ Capacity \in Nat /\ Len(r) \in Nat
  BY AudioAssumption DEF Chunks
<1>1. CASE c.len > Capacity
  BY <1>1 DEF Put
<1>2. CASE ~(c.len > Capacity)
  <2>1. c.len <= Capacity
    BY <1>0, <1>2
  <2>2. PICK k \in 0..Len(r) : /\ MakeRoom(r, c.len) = DropOldest(r, k)
                               /\ Bytes(DropOldest(r, k)) + c.len <= Capacity
    BY <1>0, <2>1, RoomIsMade
  <2>3. DropOldest(r, k) \in Seq(Chunks)
    BY <1>0 DEF DropOldest
  <2>4. Put(r, c) = Append(DropOldest(r, k), c)
    BY <1>2, <2>2 DEF Put
  <2>5. QED BY <2>2, <2>3, <2>4, BytesAppend
<1>3. QED BY <1>1, <1>2

RoomInv == Bytes(up) <= Capacity /\ Bytes(down) <= Capacity

(* One step keeps both rings within their capacity.                        *)
LEMMA NextRoomInv == PathInv /\ RoomInv /\ [Next]_vars => RoomInv'
<1> SUFFICES ASSUME PathInv, RoomInv, [Next]_vars PROVE RoomInv'
  OBVIOUS
<1>0. /\ up \in Seq(Chunks) /\ down \in Seq(Chunks) /\ call \in Nat /\ reads \in Nat
      /\ frames \in Nat /\ Capacity \in Nat
      /\ Bytes(up) \in Nat /\ Bytes(down) \in Nat
      /\ Bytes(up) <= Capacity /\ Bytes(down) <= Capacity
  <2>1. NoChunk \in Chunks
    BY DEF NoChunk, Chunks
  <2>2. QED BY <2>1, BytesAppend, AudioAssumption DEF PathInv, RingType, RoomInv
<1>1. Bytes(<<>>) = 0
  BY EmptyRingBytes
<1>2. ASSUME NEW r \in Seq(Chunks), r # <<>>, Bytes(r) <= Capacity PROVE Bytes(Tail(r)) <= Capacity
  <2>1. NoChunk \in Chunks /\ Tail(r) \in Seq(Chunks)
    BY <1>2, TailKeeps DEF NoChunk, Chunks
  <2>2. Bytes(r) \in Nat /\ Bytes(Tail(r)) \in Nat
    BY <2>1, BytesAppend
  <2>3. QED BY <1>0, <1>2, <2>2, BytesTail
<1>3. CASE \E len \in ReadSizes : ReadReturns(len)
  <2>1. PICK len \in ReadSizes : ReadReturns(len)
    BY <1>3
  <2> DEFINE c == [call |-> call, n |-> reads + 1, len |-> len]
  <2>2. len \in Nat
    BY AudioAssumption DEF ReadSizes
  <2>3. c \in Chunks
    BY <1>0, <2>2, NewChunk
  <2>4. up' = Put(up, c) /\ down' \in {down, <<>>}
    BY <2>1 DEF ReadReturns
  <2> HIDE DEF c
  <2>5. QED BY <1>0, <1>1, <2>3, <2>4, PutFits DEF RoomInv
<1>4. CASE \E sender \in {"peer", "unknown", "other"}, len \in FrameSizes : FrameArrives(sender, len)
  <2>1. PICK sender \in {"peer", "unknown", "other"}, len \in FrameSizes : FrameArrives(sender, len)
    BY <1>4
  <2> DEFINE c == [call |-> call, n |-> frames + 1, len |-> len]
  <2>2. len \in Nat
    BY AudioAssumption
  <2>3. c \in Chunks
    BY <1>0, <2>2, NewChunk
  <2>4. up' = up /\ down' \in {down, Put(down, c)}
    BY <2>1 DEF FrameArrives
  <2> HIDE DEF c
  <2>5. QED BY <1>0, <2>3, <2>4, PutFits DEF RoomInv
<1>5. CASE UpstreamGets
  BY <1>0, <1>2, <1>5 DEF UpstreamGets, RoomInv
<1>6. CASE PlaybackGets
  BY <1>0, <1>2, <1>6 DEF PlaybackGets, RoomInv
<1>7. CASE Connect \/ RingsClosed
  <2>1. up' = <<>> /\ down' = <<>>
    BY <1>7 DEF Connect, NewRings, RingsClosed
  <2>2. QED BY <1>0, <1>1, <2>1 DEF RoomInv
<1>8. CASE \/ JoinSucceeds \/ JoinFails \/ TeardownBegins \/ LeaveBegins \/ RtcLeft
           \/ PumpsStopped \/ BackendsClosed
           \/ ReadEmpty \/ ReadFails \/ DuplexWritten \/ OrphanReads
           \/ PlaybackWrites \/ PlaybackFails
           \/ PushAccepted \/ PushStalls \/ PauseOver \/ PushNotJoined
           \/ FramesEnd \/ UNCHANGED vars
  <2>1. UNCHANGED <<up, down>>
    BY <1>8 DEF JoinSucceeds, JoinFails, TeardownBegins, LeaveBegins, RtcLeft, PumpsStopped,
       BackendsClosed, ReadEmpty, ReadFails, DuplexWritten, OrphanReads, PlaybackWrites,
       PlaybackFails, PushAccepted, PushStalls, PauseOver, PushNotJoined, FramesEnd, vars
  <2>2. QED BY <2>1 DEF RoomInv
<1>9. QED
  BY <1>3, <1>4, <1>5, <1>6, <1>7, <1>8 DEF Next, Teardown

(* Whatever the sizes of the chunks, neither ring ever holds more bytes    *)
(* than its capacity.                                                      *)
THEOREM RoomInvariant == Spec => []RoomInv
<1>1. Init => RoomInv
  <2> SUFFICES ASSUME Init PROVE RoomInv
    OBVIOUS
  <2>1. up = <<>> /\ down = <<>> /\ Bytes(<<>>) = 0 /\ Capacity \in Nat
    BY EmptyRingBytes, AudioAssumption DEF Init
  <2>2. QED BY <2>1 DEF RoomInv
<1>2. QED BY <1>1, NextRoomInv, PathInvariant, PTL DEF Spec


-----------------------------------------------------------------------------
(* Type correctness                                                        *)

ModeType ==
  /\ platform \in Platforms /\ port \in BOOLEAN
  /\ stage \in {"idle", "joining", "live", "cancelling", "leaving", "stopping", "disabling"}
  /\ capture \in {"off", "reading", "writing"} /\ playback \in {"off", "get", "write"}
  /\ upstream \in {"off", "get", "push", "pause"} /\ downstream \in {"off", "frames"}

CountType ==
  /\ call \in 0..MaxCalls /\ reads \in 0..MaxReads /\ frames \in 0..MaxFrames
  /\ empty \in 0..(MaxEmpty - 1) /\ orphans \in Nat

(* One step keeps the types of the modes and flags.                        *)
LEMMA NextModeType == ModeType /\ [Next]_vars => ModeType'
<1> SUFFICES ASSUME ModeType, [Next]_vars PROVE ModeType'
  OBVIOUS
<1> USE DEF ModeType
<1>1. CASE Connect \/ JoinFails \/ LeaveBegins \/ RtcLeft \/ RingsClosed \/ BackendsClosed
  BY <1>1 DEF Connect, JoinFails, LeaveBegins, RtcLeft, RingsClosed, BackendsClosed, pumpVars,
              bridgeVars
<1>2. CASE JoinSucceeds
  BY <1>2 DEF JoinSucceeds, StartModemPumps, StartBridgePumps
<1>3. CASE TeardownBegins
  BY <1>3 DEF TeardownBegins, bridgeVars
<1>4. CASE PumpsStopped
  BY <1>4 DEF PumpsStopped, StopBridgePumps, pumpVars
<1>5. CASE \E len \in ReadSizes : ReadReturns(len)
  BY <1>5 DEF ReadReturns, callVars, bridgeVars
<1>6. CASE ReadEmpty \/ ReadFails \/ DuplexWritten \/ OrphanReads
  BY <1>6 DEF ReadEmpty, ReadFails, DuplexWritten, OrphanReads, callVars, bridgeVars
<1>7. CASE PlaybackGets \/ PlaybackWrites \/ PlaybackFails
  BY <1>7 DEF PlaybackGets, PlaybackWrites, PlaybackFails, NextFrame, callVars, bridgeVars
<1>8. CASE UpstreamGets \/ PushAccepted \/ PushStalls \/ PauseOver \/ PushNotJoined \/ FramesEnd
  BY <1>8 DEF UpstreamGets, PushAccepted, PushStalls, PauseOver, PushNotJoined, FramesEnd,
              callVars, pumpVars
<1>9. CASE \/ \E sender \in {"peer", "unknown", "other"}, len \in FrameSizes :
                FrameArrives(sender, len)
           \/ UNCHANGED vars
  BY <1>9 DEF FrameArrives, vars, callVars, pumpVars, bridgeVars
<1>10. QED
  BY <1>1, <1>2, <1>3, <1>4, <1>5, <1>6, <1>7, <1>8, <1>9 DEF Next, Teardown

(* One step keeps the counters within their bounds.                        *)
LEMMA NextCountType == CountType /\ [Next]_vars => CountType'
<1> SUFFICES ASSUME CountType, [Next]_vars PROVE CountType'
  OBVIOUS
<1> USE AudioAssumption DEF CountType
<1>1. CASE Connect
  BY <1>1 DEF Connect, pumpVars, histVars
<1>2. CASE JoinSucceeds \/ TeardownBegins
  BY <1>2 DEF JoinSucceeds, StartModemPumps, TeardownBegins, histVars
<1>3. CASE \E len \in ReadSizes : ReadReturns(len)
  BY <1>3 DEF ReadReturns, callVars, histVars
<1>4. CASE ReadEmpty
  BY <1>4 DEF ReadEmpty, callVars, histVars
<1>5. CASE OrphanReads
  BY <1>5 DEF OrphanReads, callVars, histVars
<1>6. CASE \E sender \in {"peer", "unknown", "other"}, len \in FrameSizes : FrameArrives(sender, len)
  BY <1>6 DEF FrameArrives, callVars, pumpVars
<1>7. CASE \/ JoinFails \/ LeaveBegins \/ RtcLeft \/ PumpsStopped \/ RingsClosed \/ BackendsClosed
           \/ ReadFails \/ DuplexWritten \/ PlaybackGets \/ PlaybackWrites \/ PlaybackFails
           \/ UpstreamGets \/ PushAccepted \/ PushStalls \/ PauseOver \/ PushNotJoined
           \/ FramesEnd \/ UNCHANGED vars
  BY <1>7 DEF JoinFails, LeaveBegins, RtcLeft, PumpsStopped, RingsClosed, BackendsClosed, ReadFails,
     DuplexWritten, PlaybackGets, PlaybackWrites, PlaybackFails, UpstreamGets, PushAccepted,
     PushStalls, PauseOver, PushNotJoined, FramesEnd, vars, callVars, pumpVars, histVars
<1>8. QED
  BY <1>1, <1>2, <1>3, <1>4, <1>5, <1>6, <1>7 DEF Next, Teardown

(* Every variable keeps its type, and the rings their capacity.            *)
THEOREM AudioTypeCorrect == Spec => []TypeOK
<1>1. Init => ModeType /\ CountType
  BY AudioAssumption DEF Init, ModeType, CountType
<1>2. PathInv /\ ModeType /\ CountType /\ LineInv /\ RecInv /\ RoomInv => TypeOK
  BY DEF PathInv, RingType, ModeType, CountType, LineInv, InLine, Byte, RecInv, RecType, Records,
         RoomInv, TypeOK
<1>3. QED
  BY <1>1, <1>2, NextModeType, NextCountType, PathInvariant, LineInvariant, RecInvariant,
     RoomInvariant, PTL DEF Spec
=============================================================================
