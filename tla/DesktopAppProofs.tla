-------------------------- MODULE DesktopAppProofs -------------------------
(***************************************************************************)
(* Theorems about DesktopApp, for any tokens, threads, log capacity and    *)
(* bounds: no write to the state bus is lost, the token file is whole at   *)
(* every instant, and the client follows the file.                         *)
(***************************************************************************)
EXTENDS DesktopApp, SequenceTheorems, TLAPS

Links == {"awaiting_activation", "auth_rejected", "connected", "disconnected"}
Snapshots == [link : Links, error : BOOLEAN, lines : Seq(Nat)]
Files == [token : Tokens \cup {None}, knobs : {TRUE}]
SubStages == {"none", "dialog", "writing", "stopping", "starting", "done"}

(* How many lines the log keeps of n, and which.                           *)
Kept(n) == IF n < Capacity THEN n ELSE Capacity
Recent(n) == [i \in 1 .. Kept(n) |-> n - Kept(n) + i]

(* The bus holds the recent lines; while a thread is between its read and  *)
(* its write, those before the line it is about to add, like its snapshot. *)
StatusInv ==
  /\ bus \in Snapshots /\ snap \in Snapshots /\ emitted \in Nat
  /\ bus.link = link
  /\ holder = None => bus.lines = Recent(emitted)
  /\ holder # None =>
       emitted # 0 /\ bus.lines = Recent(emitted - 1) /\ snap.lines = bus.lines

(* The types that the token file's correctness rests on.                   *)
EnvType ==
  /\ app \in {"down", "boot", "asking", "connecting", "group"}
  /\ file \in Files /\ dialog \in Submitters \cup {None}
  /\ sub \in [Submitters -> SubStages] /\ tok \in [Submitters -> Tokens \cup {None}]
  /\ cancelled \in BOOLEAN /\ overlap \in BOOLEAN

(* One coroutine at a time is between the .tmp file and the rename, with   *)
(* no dialog open, and the .tmp file is complete and its own.              *)
WriterInv ==
  /\ dialog # None => sub[dialog] = "dialog"
  /\ \A s \in Submitters : sub[s] = "writing" =>
       /\ dialog = None /\ \A t \in Submitters : sub[t] = "writing" => t = s
       /\ tmp = [token |-> tok[s], knobs |-> TRUE] /\ tok[s] \in Tokens

(* Unless restarts overlapped, at most one stop() is under way; it has a   *)
(* loop to stop and will start the token of the file.                      *)
ClientInv ==
  /\ app \in {"down", "boot"} => \A s \in Submitters : sub[s] = "none"
  /\ ~overlap =>
       /\ \A s \in Stopping : Stopping = {s} /\ tok[s] = file.token /\ task # None /\ cancelled
       /\ Stopping = {} => task \in {None, file.token}

EnvInv == EnvType /\ WriterInv /\ ClientInv

-----------------------------------------------------------------------------
(* The state bus                                                           *)

(* The recent lines are a sequence of numbers.                             *)
LEMMA RecentType ==
  ASSUME NEW n \in Nat
  PROVE  /\ Kept(n) \in Nat /\ Kept(n) =< n /\ Recent(n) \in Seq(Nat)
         /\ Len(Recent(n)) = Kept(n)
         /\ \A i \in 1 .. Kept(n) : Recent(n)[i] = n - Kept(n) + i
<1>1. Kept(n) \in Nat /\ Kept(n) =< n
  BY DesktopAssumption DEF Kept
<1>2. Recent(n) \in [1 .. Kept(n) -> Nat]
  BY <1>1 DEF Recent
<1>3. Recent(n) \in Seq(Nat)
  BY <1>1, <1>2, SeqDef
<1>4. QED BY <1>1, <1>2, <1>3 DEF Recent

(* Appending a line and cutting at the capacity gives the recent lines.    *)
LEMMA AppendRecent ==
  ASSUME NEW n \in Nat \ {0}
  PROVE  LET lines == Append(Recent(n - 1), n)
             from == IF Len(lines) > Capacity THEN Len(lines) - Capacity + 1 ELSE 1
         IN  SubSeq(lines, from, Len(lines)) = Recent(n)
<1> DEFINE old == Recent(n - 1)
           lines == Append(old, n)
           from == IF Len(lines) > Capacity THEN Len(lines) - Capacity + 1 ELSE 1
           k == Kept(n - 1)
<1>1. /\ k \in Nat /\ old \in Seq(Nat) /\ Len(old) = k
      /\ \A i \in 1 .. k : old[i] = n - 1 - k + i
  <2>1. n - 1 \in Nat
    OBVIOUS
  <2>2. QED BY <2>1, RecentType
<1>2. k = IF n - 1 < Capacity THEN n - 1 ELSE Capacity
  BY DEF Kept
<1>3. Capacity \in Nat \ {0}
  BY DesktopAssumption
<1> HIDE DEF old, k
<1>4. /\ lines \in Seq(Nat) /\ Len(lines) = k + 1
      /\ \A i \in 1 .. k + 1 : lines[i] = n - 1 - k + i
  BY <1>1, AppendProperties
<1> HIDE DEF lines
<1> DEFINE hi == Len(lines)
<1>5. hi = k + 1 /\ hi \in Nat /\ from \in 1 .. hi /\ hi - from + 1 = Kept(n)
  BY <1>1, <1>2, <1>3, <1>4 DEF Kept
<1> HIDE DEF from, hi
<1>6. /\ SubSeq(lines, from, hi) \in Seq(Nat)
      /\ Len(SubSeq(lines, from, hi)) = Kept(n)
      /\ \A i \in 1 .. Kept(n) : SubSeq(lines, from, hi)[i] = lines[from + i - 1]
  <2>1. hi \in Int /\ from \in Int /\ \A i \in from .. hi : lines[i] \in Nat
    BY <1>1, <1>4, <1>5
  <2>2. /\ SubSeq(lines, from, hi) \in Seq(Nat)
        /\ Len(SubSeq(lines, from, hi)) = IF from <= hi THEN hi - from + 1 ELSE 0
        /\ \A i \in 1 .. hi - from + 1 : SubSeq(lines, from, hi)[i] = lines[from + i - 1]
    BY <2>1, SubSeqProperties
  <2>3. QED BY <1>5, <2>2
<1>7. ASSUME NEW i \in 1 .. Kept(n) PROVE lines[from + i - 1] = n - Kept(n) + i
  BY <1>1, <1>4, <1>5
<1>8. SubSeq(lines, from, hi) = Recent(n)
  BY <1>6, <1>7, RecentType, SeqEqual
<1>9. QED BY <1>8 DEF lines, from, old, hi

(* The status of a fresh process satisfies the invariant.                  *)
LEMMA EdgeStatusFresh == EdgeStatus \in Snapshots /\ EdgeStatus.lines = Recent(0)
<1>1. Recent(0) = <<>>
  <2>1. Kept(0) = 0
    BY DesktopAssumption DEF Kept
  <2>2. Recent(0) \in Seq(Nat) /\ Len(Recent(0)) = 0
    BY <2>1, RecentType
  <2>3. QED BY <2>2, EmptySeq
<1>2. QED BY <1>1, EmptySeq DEF EdgeStatus, Snapshots, Links

(* Init establishes StatusInv.                                             *)
LEMMA InitStatusInv == Init => StatusInv
BY EdgeStatusFresh DEF Init, StatusInv

(* ... and so does every start and every end of the process.               *)
LEMMA FreshStatus == Fresh => StatusInv'
BY EdgeStatusFresh DEF Fresh, StatusInv

(* Publishing changes the link state and the error only, whether a log     *)
(* record is half-way or not.                                              *)
LEMMA PublishKeepsStatus ==
  ASSUME StatusInv, NEW state \in Links, NEW error \in BOOLEAN, Publish(state, error),
         UNCHANGED logs
  PROVE  StatusInv'
BY DEF StatusInv, Publish, logs, Snapshots

(* The two halves of a log record.                                         *)
LEMMA LoggingKeepsStatus ==
  ASSUME StatusInv, NEW t \in Threads, Logging(t)
  PROVE  StatusInv'
<1>0. t # None
  BY DesktopAssumption
<1>1. CASE EmitBegins(t) /\ UNCHANGED status
  BY <1>0, <1>1 DEF EmitBegins, StatusInv, status
<1>2. CASE EmitEnds(t)
  <2> DEFINE lines == Append(snap.lines, emitted)
             from == IF Len(lines) > Capacity THEN Len(lines) - Capacity + 1 ELSE 1
             new == SubSeq(lines, from, Len(lines))
  <2>1. emitted \in Nat \ {0} /\ snap.lines = Recent(emitted - 1)
    BY <1>0, <1>2 DEF EmitEnds, StatusInv
  <2>2. new = Recent(emitted)
    BY <2>1, AppendRecent
  <2>3. bus' = [bus EXCEPT !.lines = new] /\ holder' = None /\ snap' = EdgeStatus
        /\ UNCHANGED <<link, emitted>>
    BY <1>2 DEF EmitEnds
  <2> HIDE DEF new
  <2>4. new \in Seq(Nat)
    BY <2>1, <2>2, RecentType
  <2>5. QED BY <2>1, <2>2, <2>3, <2>4, EdgeStatusFresh DEF StatusInv, Snapshots
<1>3. QED BY <1>1, <1>2 DEF Logging

(* Every step keeps StatusInv.                                             *)
LEMMA NextStatusInv == StatusInv /\ [Next]_vars => StatusInv'
<1> SUFFICES ASSUME StatusInv, [Next]_vars PROVE StatusInv'
  OBVIOUS
<1>0. bus.link \in Links /\ bus.error \in BOOLEAN
  BY DEF StatusInv, Snapshots
<1>1. CASE Fresh
  BY <1>1, FreshStatus
<1>2. CASE UNCHANGED <<status, logs>>
  BY <1>2 DEF StatusInv, status, logs
<1>3. CASE UNCHANGED logs /\ \E state \in Links, error \in BOOLEAN : Publish(state, error)
  BY <1>3, PublishKeepsStatus
<1>4. CASE \E t \in Threads : Logging(t)
  BY <1>4, LoggingKeepsStatus
<1>5. CASE Launch \/ BootFails \/ Killed \/ ForceExit
  BY <1>1, <1>5 DEF Launch, BootFails, Killed, ForceExit, Ends
<1>6. CASE Booted
  BY <1>0, <1>2, <1>3, <1>6 DEF Booted, Links
<1>7. CASE WaitStop \/ Signalled \/ MenuQuit \/ MainAsks \/ Connects \/ Disconnects
  BY <1>2, <1>7 DEF WaitStop, Signalled, MenuQuit, MainAsks, Connects, Disconnects
<1>8. CASE DialogCancelled
  BY <1>1, <1>2, <1>8 DEF DialogCancelled, Ends
<1>9. CASE SubmitRefused
  BY <1>0, <1>3, <1>9 DEF SubmitRefused
<1>10. CASE \E t \in Inputs : WriteTmp(t)
  BY <1>2, <1>10 DEF WriteTmp
<1>11. ASSUME NEW s \in Submitters, Activation(s) PROVE StatusInv'
  <2>1. CASE MenuReactivate(s) \/ StopEnds(s)
    BY <1>2, <2>1 DEF MenuReactivate, StopEnds
  <2>2. CASE Submitted(s)
    BY <1>3, <2>2 DEF Submitted, Links
  <2>3. CASE StartRefused(s)
    BY <1>3, <2>3 DEF StartRefused, Links
  <2>4. CASE StartReturns(s)
    BY <1>0, <1>3, <2>4 DEF StartReturns, Links
  <2>5. QED BY <1>11, <2>1, <2>2, <2>3, <2>4 DEF Activation
<1>12. CASE \E t \in {"watcher", "waiter", "connect"} \cup Submitters : StepLost(t)
  BY <1>2, <1>12 DEF StepLost
<1>13. CASE WatcherPolls
  BY <1>0, <1>3, <1>13 DEF WatcherPolls, Links
<1>14. CASE UNCHANGED vars
  BY <1>2, <1>14 DEF vars
<1>15. QED
  BY <1>4, <1>5, <1>6, <1>7, <1>8, <1>9, <1>10, <1>11, <1>12, <1>13, <1>14 DEF Next

(* Although log records of any number of threads are a read followed by a  *)
(* write, none of them undoes a published state, and no line is lost.      *)
THEOREM StatusWritesKept == Spec => []NoLostUpdate
<1>1. StatusInv => NoLostUpdate
  BY DEF StatusInv, NoLostUpdate, Recent, Kept
<1>2. QED BY <1>1, InitStatusInv, NextStatusInv, PTL DEF Spec

-----------------------------------------------------------------------------
(* The token file and the client                                           *)

(* Init establishes EnvInv.                                                *)
LEMMA InitEnvInv == Init => EnvInv
BY DesktopAssumption
   DEF Init, EnvInv, EnvType, WriterInv, ClientInv, Files, SubStages, Stopping, Submitters

(* A start or an end of the process leaves the file as it is.              *)
LEMMA FreshEnv ==
  ASSUME EnvInv, Fresh, UNCHANGED file, app' \in {"down", "boot"}
  PROVE  EnvInv'
<1>1. EnvType'
  BY DEF EnvInv, EnvType, Fresh, SubStages
<1>2. WriterInv'
  BY DEF Fresh, WriterInv
<1>3. ClientInv'
  BY DEF Fresh, ClientInv, Stopping
<1>4. QED BY <1>1, <1>2, <1>3 DEF EnvInv

(* Steps that touch neither the file, the coroutines nor the client's loop. *)
LEMMA EnvUnchanged ==
  ASSUME EnvInv, UNCHANGED <<env, dialog, sub, tok, task, cancelled, overlap>>,
         app' = app \/ (app \in {"asking", "connecting", "group"} /\ app' = "group")
  PROVE  EnvInv'
BY DEF EnvInv, EnvType, WriterInv, ClientInv, Stopping, env

(* Steps of one coroutine that neither write nor stop: it moves between    *)
(* stages other than "writing" and "stopping".                             *)
LEMMA CoroutineMoves ==
  ASSUME EnvInv, NEW s \in Submitters, NEW stage \in SubStages \ {"writing", "stopping"},
         sub[s] \notin {"writing", "stopping"}, sub' = [sub EXCEPT ![s] = stage],
         UNCHANGED <<file, tmp, tok, task, cancelled, overlap>>,
         app \in {"asking", "connecting", "group"}, app' \in {app, "group"},
         dialog' \in Submitters \cup {None},
         dialog' # None => sub'[dialog'] = "dialog",
         dialog' = None \/ \A t \in Submitters : sub[t] # "writing"
  PROVE  EnvInv'
<1>1. EnvType'
  BY DEF EnvInv, EnvType
<1>2. WriterInv'
  <2>1. \A t \in Submitters : sub'[t] = "writing" => sub[t] = "writing"
    BY DEF EnvInv, EnvType
  <2>2. QED BY <2>1 DEF EnvInv, WriterInv
<1>3. ClientInv'
  <2>1. Stopping' = Stopping
    BY DEF EnvInv, EnvType, Stopping
  <2>2. QED BY <2>1 DEF EnvInv, ClientInv
<1>4. QED BY <1>1, <1>2, <1>3 DEF EnvInv

(* The steps of the process.                                               *)
LEMMA ProcessKeepsEnv ==
  ASSUME EnvInv,
         \/ Launch \/ BootFails \/ Killed \/ Booted \/ WaitStop \/ Signalled \/ ForceExit
         \/ MenuQuit \/ MainAsks
  PROVE  EnvInv'
<1> USE DEF proc, env, dialogs, client
<1>1. CASE Launch \/ BootFails \/ Killed \/ ForceExit
  BY <1>1, FreshEnv DEF Launch, BootFails, Killed, ForceExit, Ends
<1>2. CASE Booted
  <2>0. (\A s \in Submitters : sub[s] = "none") /\ Stopping = {}
    BY <1>2 DEF Booted, EnvInv, ClientInv, Stopping
  <2>1. CASE file.token = None
    BY <1>2, <2>0, <2>1 DEF Booted, EnvInv, EnvType, WriterInv, ClientInv, Stopping
  <2>2. CASE file.token # None
    <3>1. /\ app' = "connecting" /\ task' = file.token /\ cancelled' = FALSE
          /\ sub' = [sub EXCEPT ![Main] = "starting"]
          /\ UNCHANGED <<file, tmp, dialog, tok, overlap>>
      BY <1>2, <2>2 DEF Booted, StartClient
    <3>2. EnvType'
      BY <3>1 DEF EnvInv, EnvType, SubStages
    <3>3. \A s \in Submitters : sub'[s] \in {"none", "starting"}
      BY <2>0, <3>1 DEF EnvInv, EnvType
    <3>4. dialog = None
      BY <2>0 DEF EnvInv, EnvType, WriterInv
    <3>5. WriterInv'
      BY <3>1, <3>3, <3>4 DEF WriterInv
    <3>6. ClientInv'
      BY <3>1, <3>3 DEF ClientInv, Stopping
    <3>7. QED BY <3>2, <3>5, <3>6 DEF EnvInv
  <2>3. QED BY <2>1, <2>2
<1>3. CASE WaitStop \/ Signalled \/ MenuQuit
  BY <1>3, EnvUnchanged DEF WaitStop, Signalled, MenuQuit
<1>4. CASE MainAsks
  <2>0. Main \in Submitters /\ \A t \in Submitters : sub[t] # "writing"
    BY <1>4 DEF MainAsks, Free, Submitters
  <2>1. CASE stop
    BY <1>4, <2>1, EnvUnchanged DEF MainAsks
  <2>2. CASE ~stop
    <3>1. /\ sub[Main] = "none" /\ sub' = [sub EXCEPT ![Main] = "dialog"] /\ dialog' = Main
          /\ app = "asking" /\ UNCHANGED <<app, file, tmp, tok, task, cancelled, overlap>>
      BY <1>4, <2>2 DEF MainAsks
    <3>2. sub'[Main] = "dialog"
      BY <2>0, <3>1 DEF EnvInv, EnvType
    <3>3. QED BY <2>0, <3>1, <3>2, CoroutineMoves DEF SubStages
  <2>3. QED BY <2>1, <2>2
<1>5. QED BY <1>1, <1>2, <1>3, <1>4

(* The dialog: cancelled, refused, or its token goes to the .tmp file.     *)
LEMMA DialogKeepsEnv ==
  ASSUME EnvInv, DialogCancelled \/ SubmitRefused \/ \E t \in Inputs : WriteTmp(t)
  PROVE  EnvInv'
<1> USE DEF proc, env, dialogs, client
<1>0. /\ dialog \in Submitters /\ dialog # None /\ sub[dialog] = "dialog"
      /\ \A t \in Submitters : sub[t] # "writing"
      /\ app \in {"asking", "connecting", "group"}
  BY DEF DialogCancelled, SubmitRefused, WriteTmp, EnvInv, EnvType, WriterInv, ClientInv
<1>1. CASE DialogCancelled /\ dialog = Main
  BY <1>1, FreshEnv DEF DialogCancelled, Ends
<1>2. CASE DialogCancelled /\ dialog # Main
  BY <1>0, <1>2, CoroutineMoves DEF DialogCancelled, SubStages
<1>3. CASE SubmitRefused
  BY <1>0, <1>3, CoroutineMoves DEF SubmitRefused, Attempted, SubStages
<1>4. ASSUME NEW t \in Inputs, WriteTmp(t) PROVE EnvInv'
  <2>1. /\ t \in Tokens /\ tmp' = [token |-> t, knobs |-> file.knobs]
        /\ tok' = [tok EXCEPT ![dialog] = t] /\ sub' = [sub EXCEPT ![dialog] = "writing"]
        /\ dialog' = None /\ UNCHANGED <<app, file, task, cancelled, overlap>>
    BY <1>4 DEF WriteTmp, ValidateToken
  <2>2. file.knobs = TRUE
    BY DEF EnvInv, EnvType, Files
  <2>3. EnvType'
    BY <1>0, <2>1 DEF EnvInv, EnvType, SubStages
  <2>4. WriterInv'
    BY <1>0, <2>1, <2>2 DEF EnvInv, EnvType, WriterInv
  <2>5. Stopping' = Stopping /\ \A s \in Stopping : tok'[s] = tok[s]
    BY <1>0, <2>1 DEF EnvInv, EnvType, Stopping
  <2>6. ClientInv'
    BY <1>0, <2>1, <2>5 DEF EnvInv, ClientInv
  <2>7. QED BY <2>3, <2>4, <2>6 DEF EnvInv
<1>5. QED BY <1>1, <1>2, <1>3, <1>4

(* The rename and the restart of the client.                               *)
LEMMA SubmittedKeepsEnv ==
  ASSUME EnvInv, NEW s \in Submitters, Submitted(s)
  PROVE  EnvInv'
<1>0. /\ sub[s] = "writing" /\ dialog = None /\ tok[s] \in Tokens
      /\ file' = [token |-> tok[s], knobs |-> TRUE]
      /\ \A t \in Submitters : sub[t] = "writing" => t = s
      /\ UNCHANGED <<app, dialog, tok>>
  BY DEF Submitted, EnvInv, WriterInv, proc
<1>1. file' \in Files /\ file'.token = tok[s]
  BY <1>0 DEF Files
<1>2. CASE task = None
  <2>1. /\ task' = tok[s] /\ cancelled' = FALSE /\ sub' = [sub EXCEPT ![s] = "starting"]
        /\ UNCHANGED overlap
    BY <1>2 DEF Submitted, Restart, StopClient, StartClient
  <2>2. EnvType'
    BY <1>0, <1>1, <2>1 DEF EnvInv, EnvType, SubStages
  <2>3. \A t \in Submitters : sub'[t] # "writing"
    BY <1>0, <2>1 DEF EnvInv, EnvType
  <2>4. WriterInv'
    BY <1>0, <2>3 DEF WriterInv
  <2>5. Stopping' = Stopping
    BY <1>0, <2>1 DEF EnvInv, EnvType, Stopping
  <2>6. ClientInv'
    BY <1>0, <1>1, <1>2, <2>1, <2>5 DEF EnvInv, ClientInv
  <2>7. QED BY <2>2, <2>4, <2>6 DEF EnvInv
<1>3. CASE task # None
  <2>1. /\ cancelled' = TRUE /\ sub' = [sub EXCEPT ![s] = "stopping"]
        /\ overlap' = (overlap \/ Stopping # {}) /\ UNCHANGED task
    BY <1>3 DEF Submitted, Restart, StopClient
  <2>2. EnvType'
    BY <1>0, <1>1, <2>1 DEF EnvInv, EnvType, SubStages
  <2>3. \A t \in Submitters : sub'[t] # "writing"
    BY <1>0, <2>1 DEF EnvInv, EnvType
  <2>4. WriterInv'
    BY <1>0, <2>3 DEF WriterInv
  <2>5. Stopping' = Stopping \cup {s}
    BY <1>0, <2>1 DEF EnvInv, EnvType, Stopping
  <2>6. ClientInv'
    BY <1>0, <1>1, <1>3, <2>1, <2>5 DEF EnvInv, ClientInv
  <2>7. QED BY <2>2, <2>4, <2>6 DEF EnvInv
<1>4. QED BY <1>2, <1>3

(* The end of stop(): the loop is started again with the file's token.     *)
LEMMA StopKeepsEnv ==
  ASSUME EnvInv, NEW s \in Submitters, StopEnds(s) \/ StartRefused(s)
  PROVE  EnvInv'
<1>0. /\ sub[s] = "stopping" /\ s \in Stopping /\ app \in {"asking", "connecting", "group"}
      /\ \A t \in Submitters : sub[t] # "writing"
  BY DEF StopEnds, StartRefused, Free, Stopping, EnvInv, EnvType, ClientInv
<1>1. PICK stage \in {"none", "starting", "done"} :
        /\ sub' = [sub EXCEPT ![s] = stage] /\ UNCHANGED <<app, file, tmp, dialog, tok, overlap>>
  BY DEF StopEnds, StartRefused, StartClient, Attempted, proc, env, client
<1>2. cancelled' \in BOOLEAN
  BY DEF StopEnds, StartRefused, StartClient, client, EnvInv, EnvType
<1>3. EnvType'
  BY <1>0, <1>1, <1>2 DEF EnvInv, EnvType, SubStages
<1>4. WriterInv'
  BY <1>0, <1>1 DEF EnvInv, EnvType, WriterInv
<1>5. Stopping' = Stopping \ {s}
  BY <1>0, <1>1 DEF EnvInv, EnvType, Stopping
<1>6. ~overlap => Stopping' = {} /\ task' = file.token
  BY <1>0, <1>5 DEF EnvInv, ClientInv, StopEnds, StartRefused, StartClient
<1>7. ClientInv'
  BY <1>0, <1>1, <1>6 DEF ClientInv
<1>8. QED BY <1>3, <1>4, <1>7 DEF EnvInv

(* Every step keeps EnvInv.                                                *)
LEMMA NextEnvInv == EnvInv /\ [Next]_vars => EnvInv'
<1> SUFFICES ASSUME EnvInv, [Next]_vars PROVE EnvInv'
  OBVIOUS
<1> USE DEF proc, env, dialogs, client
<1>1. CASE \/ Launch \/ BootFails \/ Killed \/ Booted \/ WaitStop \/ Signalled \/ ForceExit
           \/ MenuQuit \/ MainAsks
  BY <1>1, ProcessKeepsEnv
<1>2. CASE DialogCancelled \/ SubmitRefused \/ \E t \in Inputs : WriteTmp(t)
  BY <1>2, DialogKeepsEnv
<1>3. ASSUME NEW s \in Submitters, Activation(s) PROVE EnvInv'
  <2>1. CASE MenuReactivate(s)
    <3>1. /\ app \in {"asking", "connecting", "group"} /\ sub[s] = "none"
          /\ UNCHANGED <<app, file, tmp, tok, task, cancelled, overlap>>
      BY <2>1 DEF MenuReactivate, MenuPosts
    <3>2. CASE dialog = None
      <4>1. /\ dialog' = s /\ sub' = [sub EXCEPT ![s] = "dialog"]
            /\ \A t \in Submitters : sub[t] # "writing"
        BY <2>1, <3>2 DEF MenuReactivate, Free
      <4>2. sub'[s] = "dialog"
        BY <4>1 DEF EnvInv, EnvType
      <4>3. QED BY <3>1, <4>1, <4>2, CoroutineMoves DEF SubStages
    <3>3. CASE dialog # None
      <4>1. dialog' = dialog /\ sub' = [sub EXCEPT ![s] = "done"]
        BY <2>1, <3>3 DEF MenuReactivate
      <4>2. /\ dialog \in Submitters /\ sub[dialog] = "dialog" /\ sub'[dialog] = "dialog"
            /\ \A t \in Submitters : sub[t] # "writing"
        BY <3>1, <3>3, <4>1 DEF EnvInv, EnvType, WriterInv
      <4>3. QED BY <3>1, <4>1, <4>2, CoroutineMoves DEF SubStages
    <3>4. QED BY <3>2, <3>3
  <2>2. CASE Submitted(s)
    BY <2>2, SubmittedKeepsEnv
  <2>3. CASE StopEnds(s) \/ StartRefused(s)
    BY <2>3, StopKeepsEnv
  <2>4. CASE StartReturns(s)
    <3>1. /\ sub[s] = "starting" /\ dialog = None /\ app' \in {app, "group"}
          /\ UNCHANGED <<file, tmp, dialog, tok, task, cancelled, overlap>>
      BY <2>4 DEF StartReturns, Free
    <3>2. PICK stage \in {"none", "done"} : sub' = [sub EXCEPT ![s] = stage]
      BY <2>4 DEF StartReturns, Attempted
    <3>3. app \in {"asking", "connecting", "group"}
      BY <3>1 DEF EnvInv, EnvType, ClientInv
    <3>4. QED BY <3>1, <3>2, <3>3, CoroutineMoves DEF SubStages
  <2>5. QED BY <1>3, <2>1, <2>2, <2>3, <2>4 DEF Activation
<1>4. CASE \E t \in {"watcher", "waiter", "connect"} \cup Submitters : StepLost(t)
  BY <1>4, EnvUnchanged DEF StepLost
<1>5. CASE Connects \/ Disconnects \/ WatcherPolls
  BY <1>5, EnvUnchanged DEF Connects, Disconnects, WatcherPolls
<1>6. CASE \E t \in Threads : Logging(t)
  BY <1>6, EnvUnchanged DEF Logging
<1>7. CASE UNCHANGED vars
  BY <1>7, EnvUnchanged DEF vars
<1>8. QED BY <1>1, <1>2, <1>3, <1>4, <1>5, <1>6, <1>7 DEF Next

(* Unless two restarts overlapped, the client uses the token of the file   *)
(* once no attempt is under way, for any tokens and menu activations.      *)
THEOREM ClientFollowsFile == Spec => []TokenFollowsFile
<1>1. EnvInv => TokenFollowsFile
  BY DEF EnvInv, EnvType, ClientInv, TokenFollowsFile, Stopping
<1>2. QED BY <1>1, InitEnvInv, NextEnvInv, PTL DEF Spec

(* Only the rename changes the file.                                       *)
LEMMA FileStep ==
  ASSUME EnvInv, [Next]_vars
  PROVE  UNCHANGED file \/ \E s \in Submitters : Submitted(s)
BY DEF Next, vars, env, Launch, BootFails, Killed, Booted, WaitStop, Signalled, ForceExit, Ends,
       MenuQuit, MainAsks, DialogCancelled, SubmitRefused, WriteTmp, Activation, MenuReactivate,
       StopEnds, StartRefused, StartReturns, StepLost, Connects, Disconnects, WatcherPolls,
       Logging

(* Every step leaves a complete file behind, at whatever step the process  *)
(* dies: the other keys are in it and a token is never lost again.         *)
THEOREM EnvFileAlwaysWhole == Spec => EnvFileWhole
<1>1. ASSUME EnvInv, [Next]_vars
      PROVE  file'.knobs /\ (file.token # None => file'.token # None)
  <2>1. CASE UNCHANGED file
    BY <1>1, <2>1 DEF EnvInv, EnvType, Files
  <2>2. ASSUME NEW s \in Submitters, Submitted(s)
        PROVE  file'.knobs /\ (file.token # None => file'.token # None)
    <3>1. file' = [token |-> tok[s], knobs |-> TRUE] /\ tok[s] \in Tokens
      BY <1>1, <2>2 DEF Submitted, EnvInv, WriterInv
    <3>2. QED BY <3>1, DesktopAssumption
  <2>3. QED BY <1>1, <2>1, <2>2, FileStep
<1>2. QED BY <1>1, InitEnvInv, NextEnvInv, PTL DEF Spec, EnvFileWhole

=============================================================================
