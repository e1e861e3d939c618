-------------------------- MODULE OrderedDelivery --------------------------
(***************************************************************************)
(* A lossy FIFO.  Frames are numbered in the order they are handed over;   *)
(* any of them may be lost before it is delivered, but those that arrive   *)
(* do so in order and once.  The cloud link promises it when its storage   *)
(* works (transport/grpc_client.py, "Buffered frames flush in order on     *)
(* reconnect"), and so do both directions of the audio: module AudioPath   *)
(* towards the RTC session, RtcSession from it.                            *)
(***************************************************************************)
EXTENDS Naturals, Sequences

VARIABLES
  next,       \* number of the next frame
  inTransit,  \* numbers of the frames neither delivered nor lost
  delivered   \* the numbers delivered, in order

avars == <<next, inTransit, delivered>>

AInit == next = 1 /\ inTransit = {} /\ delivered = <<>>

(* A frame is handed over; it, or older frames, may be lost right away.    *)
Offer ==
  /\ next' = next + 1
  /\ inTransit' \in SUBSET (inTransit \union {next})
  /\ UNCHANGED delivered

(* The oldest frame in transit arrives.                                    *)
Deliver ==
  \E id \in inTransit :
    /\ \A other \in inTransit : id <= other
    /\ inTransit' = inTransit \ {id}
    /\ delivered' = Append(delivered, id)
    /\ UNCHANGED next

Lose ==
  /\ inTransit' \in SUBSET inTransit
  /\ UNCHANGED <<next, delivered>>

ANext == Offer \/ Deliver \/ Lose

ASpec == AInit /\ [][ANext]_avars
=============================================================================
