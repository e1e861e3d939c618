----------------------------- MODULE AtChannel ------------------------------
(***************************************************************************)
(* AtClient (modem_controller/serial_protocol.py): AT commands over one    *)
(* serial line.  send() holds the command lock while it waits for the next *)
(* entry of the response queue; the reader task sorts incoming lines into  *)
(* response bodies, terminal lines and URCs.                               *)
(*                                                                         *)
(* Nothing in a response names its command: the n-th command written is    *)
(* the number n here, and replies carry it as history only.                *)
(***************************************************************************)
EXTENDS Integers, Sequences

CONSTANTS
  MaxCommands,   \* bound: commands written
  MaxQueued,     \* bound: tasks waiting for the command lock
  MaxAbandoned   \* bound: sends that give up

ASSUME ChannelAssumption ==
  MaxCommands \in Nat /\ MaxQueued \in Nat /\ MaxAbandoned \in Nat

VARIABLES
  closed,     \* _closed
  reader,     \* the reader task runs
  queued,     \* tasks inside send() that wait for the lock
  waiting,    \* the command whose send() holds the lock (0: lock free)
  written,    \* number of commands written
  modem,      \* commands the modem has not answered yet
  lines,      \* lines on the serial port, not read yet
  pending,    \* _pending_lines
  responses,  \* _response_queue
  abandoned,  \* sends that timed out or were cancelled
  got         \* history: what each completed send() returned

vars == <<closed, reader, queued, waiting, written, modem, lines, pending,
          responses, abandoned, got>>

Free == 0
Eof == 0

(* A reply's lines: an optional body line, then the terminal line.         *)
Line(kind, cmd, hasBody) == [kind |-> kind, cmd |-> cmd, hasBody |-> hasBody]

-----------------------------------------------------------------------------
(* send()                                                                  *)

(* Called on an open client; a closed one raises at once.                  *)
SendCalled ==
  /\ ~closed /\ queued < MaxQueued
  /\ queued' = queued + 1
  /\ UNCHANGED <<closed, reader, waiting, written, modem, lines, pending>>
  /\ UNCHANGED <<responses, abandoned, got>>

(* The lock is acquired: the collected lines are dropped, the response     *)
(* queue is left alone, the command is written.                            *)
SendStarts ==
  /\ queued > 0 /\ waiting = Free /\ ~closed /\ written < MaxCommands
  /\ queued' = queued - 1
  /\ written' = written + 1 /\ waiting' = written'
  /\ pending' = <<>>
  /\ modem' = IF reader THEN Append(modem, written') ELSE modem
  /\ UNCHANGED <<closed, reader, lines, responses, abandoned, got>>

(* A task that waited for the lock across aclose() fails at the writer.    *)
SendFails ==
  /\ queued > 0 /\ waiting = Free /\ closed
  /\ queued' = queued - 1 /\ pending' = <<>>
  /\ UNCHANGED <<closed, reader, waiting, written, modem, lines>>
  /\ UNCHANGED <<responses, abandoned, got>>

(* A task is cancelled while it waits for the lock; nothing was written.   *)
SendWithdrawn ==
  /\ queued > 0
  /\ queued' = queued - 1
  /\ UNCHANGED <<closed, reader, waiting, written, modem, lines, pending>>
  /\ UNCHANGED <<responses, abandoned, got>>

(* Mutant: the newest response instead of the oldest.                      *)
SendReturnsNewest ==
  /\ waiting # Free /\ responses # <<>>
  /\ responses' = SubSeq(responses, 1, Len(responses) - 1)
  /\ got' = Append(got, [asked |-> waiting, abandoned |-> abandoned,
                         response |-> responses[Len(responses)]])
  /\ waiting' = Free
  /\ UNCHANGED <<closed, reader, queued, written, modem, lines, pending>>
  /\ UNCHANGED abandoned

(* The first entry of the response queue is taken for the reply.           *)
SendReturns ==
  /\ waiting # Free /\ responses # <<>>
  /\ responses' = Tail(responses)
  /\ got' = Append(got, [asked |-> waiting, abandoned |-> abandoned,
                         response |-> Head(responses)])
  /\ waiting' = Free
  /\ UNCHANGED <<closed, reader, queued, written, modem, lines, pending>>
  /\ UNCHANGED abandoned

(* The wait times out, or its task is cancelled (the +CLCC poller and the  *)
(* event pump are): the lock is released, the reply is still to come.      *)
SendAbandoned ==
  /\ waiting # Free /\ abandoned < MaxAbandoned
  /\ abandoned' = abandoned + 1 /\ waiting' = Free
  /\ UNCHANGED <<closed, reader, queued, written, modem, lines, pending>>
  /\ UNCHANGED <<responses, got>>

-----------------------------------------------------------------------------
(* The modem: it answers commands in the order they were written           *)

Replies(hasBody) ==
  /\ reader /\ modem # <<>>
  /\ modem' = Tail(modem)
  /\ LET body == IF hasBody
                 THEN Append(lines, Line("body", Head(modem), TRUE)) ELSE lines
     IN  lines' = Append(body, Line("final", Head(modem), hasBody))
  /\ UNCHANGED <<closed, reader, queued, waiting, written, pending>>
  /\ UNCHANGED <<responses, abandoned, got>>

(* No terminal line: the command is lost, or its result is a URC (NO       *)
(* CARRIER after ATD).                                                     *)
RepliesWithUrc ==
  /\ reader /\ modem # <<>>
  /\ modem' = Tail(modem)
  /\ lines' = Append(lines, Line("urc", Head(modem), FALSE))
  /\ UNCHANGED <<closed, reader, queued, waiting, written, pending>>
  /\ UNCHANGED <<responses, abandoned, got>>

-----------------------------------------------------------------------------
(* The reader task: _read_loop, _dispatch_line                             *)

(* Mutant: a terminal line does not start a new body.                      *)
ReadLineKeepsBody ==
  /\ reader /\ lines # <<>>
  /\ lines' = Tail(lines)
  /\ LET line == Head(lines)
     IN  /\ pending' = IF line.kind = "body" THEN Append(pending, line.cmd)
                       ELSE pending
         /\ responses' = IF line.kind # "final" THEN responses
                         ELSE Append(responses, [cmd |-> line.cmd, body |-> pending,
                                                 hasBody |-> line.hasBody])
  /\ UNCHANGED <<closed, reader, queued, waiting, written, modem, abandoned, got>>

ReadLine ==
  /\ reader /\ lines # <<>>
  /\ lines' = Tail(lines)
  /\ LET line == Head(lines)
     IN  CASE line.kind = "body" ->
                /\ pending' = Append(pending, line.cmd)
                /\ responses' = responses
           [] line.kind = "final" ->
                /\ pending' = <<>>
                /\ responses' = Append(responses,
                     [cmd |-> line.cmd, body |-> pending, hasBody |-> line.hasBody])
           [] line.kind = "urc" -> UNCHANGED <<pending, responses>>
  /\ UNCHANGED <<closed, reader, queued, waiting, written, modem, abandoned, got>>

(* The port was closed: a waiting send() gets an error, the reader ends.   *)
ReadEof ==
  /\ reader /\ lines = <<>>
  /\ reader' = FALSE /\ modem' = <<>> /\ lines' = <<>>
  /\ responses' = IF waiting = Free THEN responses
                  ELSE Append(responses,
                              [cmd |-> Eof, body |-> <<>>, hasBody |-> FALSE])
  /\ UNCHANGED <<closed, queued, waiting, written, pending, abandoned, got>>

(* Reading raised (the device was pulled): the reader dies, nobody is told. *)
ReadBreaks ==
  /\ reader
  /\ reader' = FALSE /\ modem' = <<>> /\ lines' = <<>>
  /\ UNCHANGED <<closed, queued, waiting, written, pending, responses>>
  /\ UNCHANGED <<abandoned, got>>

(* aclose() cancels the reader and closes the port.                        *)
Close ==
  /\ ~closed
  /\ closed' = TRUE /\ reader' = FALSE /\ modem' = <<>> /\ lines' = <<>>
  /\ UNCHANGED <<queued, waiting, written, pending, responses, abandoned, got>>

-----------------------------------------------------------------------------
Init ==
  /\ closed = FALSE /\ reader = TRUE /\ queued = 0 /\ waiting = Free
  /\ written = 0 /\ modem = <<>> /\ lines = <<>> /\ pending = <<>>
  /\ responses = <<>> /\ abandoned = 0 /\ got = <<>>

Next ==
  \/ SendCalled \/ SendWithdrawn \/ SendStarts \/ SendFails
  \/ SendReturns \/ SendAbandoned
  \/ \E hasBody \in BOOLEAN : Replies(hasBody)
  \/ RepliesWithUrc \/ ReadLine \/ ReadEof \/ ReadBreaks \/ Close

Spec == Init /\ [][Next]_vars

-----------------------------------------------------------------------------
(* Properties                                                              *)

Lines == [kind : {"body", "final", "urc"}, cmd : Nat, hasBody : BOOLEAN]
Response == [cmd : Nat, body : Seq(Nat), hasBody : BOOLEAN]
Result == [asked : Nat, abandoned : Nat, response : Response]

FlagType == closed \in BOOLEAN /\ reader \in BOOLEAN
CountType ==
  queued \in Nat /\ waiting \in Nat /\ written \in Nat /\ abandoned \in Nat
PipeType ==
  /\ modem \in Seq(Nat) /\ lines \in Seq(Lines) /\ pending \in Seq(Nat)
  /\ responses \in Seq(Response) /\ got \in Seq(Result)

(* Every variable keeps its type.                                          *)
TypeOK == FlagType /\ CountType /\ PipeType

(* A send() never gets the reply of a later command, and lags at most one  *)
(* command behind for each send() abandoned so far.  With none abandoned   *)
(* replies match their commands.                                           *)
LagBounded ==
  \A i \in 1..Len(got) :
    got[i].response.cmd # Eof =>
      /\ got[i].response.cmd <= got[i].asked
      /\ got[i].asked - got[i].abandoned <= got[i].response.cmd

(* The body handed out with a reply holds lines of that reply only, and    *)
(* all of them unless a send() was abandoned.                              *)
BodyBelongsToReply ==
  \A i \in 1..Len(got) :
    LET r == got[i].response
    IN  /\ \A j \in 1..Len(r.body) : r.body[j] = r.cmd
        /\ abandoned = 0 => Len(r.body) = (IF r.hasBody THEN 1 ELSE 0)

(* Commands are answered, lost or abandoned; the one being waited for is   *)
(* the last one written.                                                   *)
CountInv ==
  /\ waiting \in {Free, written}
  /\ written = Len(got) + abandoned + (IF waiting = Free THEN 0 ELSE 1)

(* An end-of-file entry closes the queue, and nothing more arrives.        *)
EofInv ==
  /\ ~reader => lines = <<>> /\ modem = <<>>
  /\ \A i \in 1..Len(responses) :
       responses[i].cmd = Eof => i = Len(responses) /\ ~reader

(* No reply is older than the number of replies already handed out.        *)
FreshInv ==
  /\ \A i \in 1..Len(responses) :
       responses[i].cmd # Eof => responses[i].cmd \in (Len(got) + 1)..written
  /\ \A i \in 1..Len(lines) :
       lines[i].kind = "final" => lines[i].cmd \in (Len(got) + 1)..written
  /\ \A i \in 1..Len(modem) : modem[i] \in (Len(got) + 1)..written

(* Replies are in command order all the way from the modem to the queue.   *)
QueueOrder ==
  \A i, j \in 1..Len(responses) :
    i < j /\ responses[j].cmd # Eof => responses[i].cmd < responses[j].cmd
LineOrder ==
  \A i, j \in 1..Len(lines) :
    i < j /\ lines[i].kind = "final" /\ lines[j].kind = "final"
      => lines[i].cmd < lines[j].cmd
ModemOrder == \A i, j \in 1..Len(modem) : i < j => modem[i] < modem[j]
StageOrder ==
  /\ \A i \in 1..Len(responses) : \A j \in 1..Len(lines) :
       lines[j].kind = "final" => responses[i].cmd < lines[j].cmd
  /\ \A i \in 1..Len(responses) : \A j \in 1..Len(modem) :
       responses[i].cmd < modem[j]
  /\ \A i \in 1..Len(lines) : \A j \in 1..Len(modem) :
       lines[i].kind = "final" => lines[i].cmd < modem[j]

(* Inductive: why the lag is bounded.                                      *)
ChannelInv ==
  /\ TypeOK /\ CountInv /\ EofInv /\ FreshInv /\ LagBounded
  /\ QueueOrder /\ LineOrder /\ ModemOrder /\ StageOrder

=============================================================================
