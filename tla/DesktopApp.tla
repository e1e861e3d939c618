----------------------------- MODULE DesktopApp ----------------------------
(***************************************************************************)
(* The Windows desktop process (main_windows.py, ui/): start-up and its    *)
(* activation loop, the tray menu, the activation dialog, the token file,  *)
(* the state bus that several threads write, the link watcher, signals.    *)
(*                                                                         *)
(* The dialog's exec() blocks the asyncio task that opened it while Qt     *)
(* keeps firing timers.  asyncio refuses to enter a task while another one *)
(* is executing: a task that falls due during the dialog gets a            *)
(* RuntimeError instead of its step and is never resumed (StepLost).       *)
(***************************************************************************)
EXTENDS Naturals, Sequences, FiniteSets

CONSTANTS
  Tokens,      \* well-formed activation codes
  Accepted,    \* those the cloud accepts
  Threads,     \* threads that write log records
  Capacity,    \* RECENT_LOG_LINES_MAX
  MaxLines,    \* bound: log records per launch
  Menus,       \* bound: reactivations from the menu, by name
  MaxFaults,   \* bound: kills, lost links, refused inputs
  MaxLaunches, \* bound: starts of the process
  None

ASSUME DesktopAssumption ==
  /\ Accepted \subseteq Tokens /\ None \notin Tokens \cup Threads
  /\ Capacity \in Nat \ {0} /\ MaxLines \in Nat /\ IsFiniteSet(Menus)
  /\ Menus \cap {"main", "watcher", "waiter", "connect"} = {}
  /\ MaxFaults \in Nat /\ MaxLaunches \in Nat

Main == "main"
Submitters == {Main} \cup Menus   \* coroutines in run_dialog() or start()

VARIABLES
  app,       \* _arun(): "down", "boot", "asking", "connecting" or "group"
  launches, faults,
  stop,      \* stop_event
  waiter,    \* the stop_waiter task is still waiting
  quit,      \* the user chose "quit" from the menu
  signals,   \* signals since the launch
  timer,     \* the kill timer is armed
  file, tmp, \* telephony.env: [token, knobs], and its .tmp sibling
  dialog,    \* the coroutine whose dialog is open
  sub, tok,  \* where each coroutine is, the code it submits
  woken,     \* start() calls whose wait another stop() ended
  lost,      \* tasks that will never be resumed
  task,      \* token of the client's connect loop
  cancelled, \* that loop was cancelled and is ending
  halted,    \* the client's own stop event
  connected, \* is_connected
  overlap,   \* a restart began while another was stopping the client
  bus,       \* EdgeStatus: [link, error, lines]
  link,      \* the link state published last
  last,      \* the watcher's
  holder,    \* thread that holds the log handler's lock
  snap,      \* the snapshot it read
  emitted    \* log records so far

proc == <<app, launches, faults, stop, waiter, quit, signals, timer>>
env == <<file, tmp>>
dialogs == <<dialog, sub, tok, woken, lost>>
client == <<task, cancelled, halted, connected, overlap>>
status == <<bus, link>>
logs == <<holder, snap, emitted>>
vars == <<proc, env, dialogs, client, status, last, logs>>

EdgeStatus == [link |-> "awaiting_activation", error |-> FALSE, lines |-> <<>>]

-----------------------------------------------------------------------------
(* StateBus and the log handler                                            *)

(* StateBus.update(): fields are replaced in the current snapshot.         *)
Publish(state, error) ==
  /\ bus' = [bus EXCEPT !.link = state, !.error = error]
  /\ link' = state

(* _RingBufferLogHandler.emit() reads the status, under the handler's lock *)
EmitBegins(t) ==
  /\ app # "down" /\ emitted < MaxLines /\ holder = None
  /\ holder' = t /\ snap' = bus /\ emitted' = emitted + 1

(* Mutant: the handler writes back the whole snapshot it read.             *)
EmitEndsWithSnapshot(t) ==
  /\ holder = t
  /\ bus' = [snap EXCEPT !.lines = <<emitted>>]
  /\ holder' = None /\ snap' = EdgeStatus
  /\ UNCHANGED <<link, emitted>>

(* and writes back the lines only, cut to the capacity.                    *)
EmitEnds(t) ==
  LET lines == Append(snap.lines, emitted)
      from == IF Len(lines) > Capacity THEN Len(lines) - Capacity + 1 ELSE 1
  IN  /\ holder = t
      /\ bus' = [bus EXCEPT !.lines = SubSeq(lines, from, Len(lines))]
      /\ holder' = None /\ snap' = EdgeStatus
      /\ UNCHANGED <<link, emitted>>

-----------------------------------------------------------------------------
(* The process                                                             *)

Fresh ==
  /\ stop' = FALSE /\ waiter' = TRUE /\ quit' = FALSE /\ signals' = 0 /\ timer' = FALSE
  /\ dialog' = None /\ lost' = {} /\ woken' = {}
  /\ sub' = [s \in Submitters |-> "none"] /\ tok' = [s \in Submitters |-> None]
  /\ task' = None /\ cancelled' = FALSE /\ halted' = FALSE /\ connected' = FALSE
  /\ overlap' = FALSE
  /\ bus' = EdgeStatus /\ link' = EdgeStatus.link /\ last' = "none"
  /\ holder' = None /\ snap' = EdgeStatus /\ emitted' = 0

(* run(): signal handlers and tray come before anything else.              *)
Launch ==
  /\ app = "down" /\ launches < MaxLaunches
  /\ app' = "boot" /\ launches' = launches + 1
  /\ Fresh
  /\ UNCHANGED <<faults, env>>

(* However the process ends, _graceful_cleanup() has not run.              *)
Ends ==
  /\ app' = "down"
  /\ Fresh
  /\ UNCHANGED <<launches, env>>

Fault == faults < MaxFaults /\ faults' = faults + 1

(* No modem: RuntimeError out of _arun().                                  *)
BootFails == app = "boot" /\ Fault /\ Ends

(* A crash, the power, the task manager.                                   *)
Killed == app # "down" /\ Fault /\ Ends

StartClient(s, t) ==
  /\ task' = t /\ cancelled' = FALSE /\ halted' = FALSE
  /\ sub' = [sub EXCEPT ![s] = "starting"] /\ woken' = woken \ {s}

(* The modem is up.  A token in the file is used at once.                  *)
Booted ==
  /\ app = "boot"
  /\ IF file.token = None
     THEN /\ app' = "asking" /\ Publish("awaiting_activation", bus.error)
          /\ UNCHANGED <<task, cancelled, halted, sub, woken>>
     ELSE /\ app' = "connecting" /\ StartClient(Main, file.token)
          /\ UNCHANGED status
  /\ UNCHANGED <<launches, faults, stop, waiter, quit, signals, timer, env, dialog, tok, lost,
                 connected, overlap, last, logs>>

(* A coroutine can be resumed: it is not lost, and the loop's thread is    *)
(* neither inside a dialog nor inside the write of the file.               *)
Free(t) ==
  dialog = None /\ t \notin lost /\ \A s \in Submitters : sub[s] # "writing"

(* TaskGroup ignores a child that ends cancelled: the others stay.         *)
WaitStop ==
  /\ app = "group" /\ stop /\ waiter /\ Free("waiter")
  /\ waiter' = FALSE
  /\ UNCHANGED <<app, launches, faults, stop, quit, signals, timer, env, dialogs, client, status,
                 last, logs>>

-----------------------------------------------------------------------------
(* Signals and the tray menu, which Qt serves even during a dialog         *)

(* Mutant: a graceful stop is asked for, nothing enforces it.              *)
RequestStopOnly ==
  /\ stop' = TRUE /\ signals' = signals + 1
  /\ UNCHANGED timer

(* _request_stop(): the first signal also arms the kill timer, the second  *)
(* one restores the default action.                                        *)
RequestStop ==
  /\ stop' = (stop \/ signals = 0) /\ timer' = TRUE /\ signals' = signals + 1

Signalled ==
  /\ app # "down" /\ signals < 2
  /\ RequestStop
  /\ UNCHANGED <<app, launches, faults, waiter, quit, env, dialogs, client, status, last, logs>>

(* _force_exit() on the timer's own thread, or the third signal.           *)
ForceExit == app # "down" /\ (timer \/ signals = 2) /\ Ends /\ UNCHANGED faults

(* AsyncMenuBridge hands a menu item to the loop, whose handler does       *)
(* nothing before _arun() has stored its references.                       *)
MenuPosts == app \in {"asking", "connecting", "group"}

(* _menu_quit()                                                            *)
MenuQuit ==
  /\ MenuPosts /\ ~quit
  /\ stop' = TRUE /\ quit' = TRUE
  /\ UNCHANGED <<app, launches, faults, waiter, signals, timer, env, dialogs, client, status,
                 last, logs>>

(* _menu_reactivate(): a task whose first step opens the dialog.  During   *)
(* another dialog that step is lost.                                       *)
MenuReactivate(s) ==
  /\ s # Main /\ MenuPosts /\ sub[s] = "none"
  /\ dialog = None => Free(s)
  /\ dialog' = IF dialog = None THEN s ELSE dialog
  /\ sub' = [sub EXCEPT ![s] = IF dialog = None THEN "dialog" ELSE "done"]
  /\ UNCHANGED <<proc, env, tok, woken, lost, client, status, last, logs>>

-----------------------------------------------------------------------------
(* The activation flow                                                     *)

(* The start-up loop opens the dialog again until one attempt succeeds.    *)
MainAsks ==
  /\ app = "asking" /\ sub[Main] = "none" /\ Free(Main)
  /\ IF stop
     THEN app' = "group" /\ UNCHANGED <<dialog, sub>>
     ELSE /\ dialog' = Main /\ sub' = [sub EXCEPT ![Main] = "dialog"]
          /\ UNCHANGED app
  /\ UNCHANGED <<launches, faults, stop, waiter, quit, signals, timer, env, tok, woken, lost,
                 client, status, last, logs>>

(* The task whose wait ends while another one is inside exec().            *)
StepLost(t) ==
  /\ dialog \notin {None, t} /\ t \notin lost
  /\ \/ t = "watcher" /\ app = "group"
     \/ t = "waiter" /\ app = "group" /\ stop /\ waiter
     \/ t = "connect" /\ task # None
     \/ t \in Submitters /\ sub[t] \in {"stopping", "starting"}
  /\ lost' = lost \cup {t}
  /\ UNCHANGED <<proc, env, dialog, sub, tok, woken, client, status, last, logs>>

(* Cancelling the first dialog ends the process; one of the menu, nothing. *)
DialogCancelled ==
  /\ dialog # None
  /\ IF dialog = Main
     THEN Ends /\ UNCHANGED faults
     ELSE /\ sub' = [sub EXCEPT ![dialog] = "done"] /\ dialog' = None
          /\ UNCHANGED <<proc, env, tok, woken, lost, client, status, last, logs>>

Attempted(s) == [sub EXCEPT ![s] = IF s = Main THEN "none" ELSE "done"]

(* What the operator may paste, and what validate_token() lets through.    *)
Inputs == Tokens \cup {None}
ValidateToken(t) == t \in Tokens

(* The input is refused, or the file cannot be written.                    *)
SubmitRefused ==
  /\ dialog # None /\ Fault
  /\ Publish(bus.link, TRUE)
  /\ sub' = Attempted(dialog) /\ dialog' = None
  /\ UNCHANGED <<app, launches, stop, waiter, quit, signals, timer, env, tok, woken, lost, client,
                 last, logs>>

(* Mutant: the file is truncated and written in place.                     *)
WriteInPlace(t) ==
  /\ dialog # None /\ ValidateToken(t)
  /\ file' = [token |-> None, knobs |-> FALSE]
  /\ tmp' = [token |-> t, knobs |-> file.knobs]
  /\ tok' = [tok EXCEPT ![dialog] = t]
  /\ sub' = [sub EXCEPT ![dialog] = "writing"] /\ dialog' = None
  /\ UNCHANGED <<proc, woken, lost, client, status, last, logs>>

(* write_token_and_endpoint(): the new content goes to the .tmp file.      *)
WriteTmp(t) ==
  /\ dialog # None /\ ValidateToken(t)
  /\ tmp' = [token |-> t, knobs |-> file.knobs]
  /\ tok' = [tok EXCEPT ![dialog] = t]
  /\ sub' = [sub EXCEPT ![dialog] = "writing"] /\ dialog' = None
  /\ UNCHANGED <<proc, file, woken, lost, client, status, last, logs>>

Stopping == {s \in Submitters : sub[s] = "stopping"}
Starting == {s \in Submitters : sub[s] = "starting"}

(* client.stop(): with no connect loop it returns at once; otherwise the   *)
(* loop is cancelled and awaited.  Every start() that waits is woken.      *)
StopClient(s) ==
  IF task = None
  THEN StartClient(s, tok[s]) /\ UNCHANGED overlap
  ELSE /\ halted' = TRUE /\ cancelled' = TRUE
       /\ sub' = [sub EXCEPT ![s] = "stopping"]
       /\ woken' = woken \cup Starting
       /\ overlap' = (overlap \/ Stopping # {})
       /\ UNCHANGED task

(* Mutant: the new token is saved, the running client keeps the old one.   *)
KeepClient(s) ==
  /\ sub' = Attempted(s)
  /\ UNCHANGED <<task, cancelled, halted, woken, overlap>>

(* _GrpcClientRestarter.restart()                                          *)
Restart(s) == StopClient(s)

(* os.replace(), the optimistic "disconnected", and the restart begins.    *)
Submitted(s) ==
  /\ sub[s] = "writing"
  /\ file' = tmp /\ tmp' = None
  /\ Publish("disconnected", FALSE)
  /\ Restart(s)
  /\ UNCHANGED <<proc, dialog, tok, lost, connected, last, logs>>

(* The cancelled loop is over: stop() forgets it, start() makes a new one. *)
(* With an overlap it may forget the other attempt's new loop instead,     *)
(* which then runs beside this one and is not followed any further.        *)
StopEnds(s) ==
  /\ sub[s] = "stopping" /\ Free(s) /\ "connect" \notin lost
  /\ cancelled \/ overlap
  /\ connected' = FALSE
  /\ StartClient(s, tok[s])
  /\ UNCHANGED <<proc, env, dialog, tok, lost, overlap, status, last, logs>>

(* "client already started", by an attempt that overlaps.                  *)
StartRefused(s) ==
  /\ sub[s] = "stopping" /\ Free(s) /\ ~cancelled
  /\ Publish("auth_rejected", TRUE)
  /\ sub' = Attempted(s)
  /\ UNCHANGED <<proc, env, dialog, tok, woken, lost, client, last, logs>>

(* start() returns when the stream is up or its wait was ended by a stop() *)
(* of another coroutine, which it notices only while halted is set.        *)
StartReturns(s) ==
  /\ sub[s] = "starting" /\ Free(s)
  /\ connected \/ s \in woken
  /\ IF halted /\ ~connected
     THEN /\ sub' = IF app = "connecting" /\ s = Main THEN [sub EXCEPT ![s] = "done"]
                    ELSE Attempted(s)
          /\ IF app = "connecting" /\ s = Main
             THEN app' = "group" /\ Publish("disconnected", bus.error)
             ELSE Publish("auth_rejected", TRUE) /\ UNCHANGED app
     ELSE /\ sub' = [sub EXCEPT ![s] = "done"]
          /\ Publish("connected", bus.error)
          /\ app' = IF s = Main THEN "group" ELSE app
  /\ woken' = woken \ {s}
  /\ UNCHANGED <<launches, faults, stop, waiter, quit, signals, timer, env, dialog, tok, lost,
                 client, last, logs>>

-----------------------------------------------------------------------------
(* The connect loop (module CloudLink) and the watcher                     *)

(* A rejected token is retried for ever, like an unreachable cloud.        *)
Connects ==
  /\ task \in Accepted /\ ~cancelled /\ ~connected /\ Free("connect")
  /\ connected' = TRUE
  /\ UNCHANGED <<proc, env, dialogs, task, cancelled, halted, overlap, status, last, logs>>

Disconnects ==
  /\ connected /\ Fault /\ Free("connect")
  /\ connected' = FALSE
  /\ UNCHANGED <<app, launches, stop, waiter, quit, signals, timer, env, dialogs, task, cancelled,
                 halted, overlap, status, last, logs>>

(* One poll of _watch_grpc_connection().                                   *)
WatcherPolls ==
  LET now == IF connected THEN "connected"
             ELSE IF bus.link \in {"awaiting_activation", "auth_rejected"} THEN bus.link
             ELSE "disconnected"
  IN  /\ app = "group" /\ Free("watcher") /\ now # last
      /\ Publish(now, bus.error) /\ last' = now
      /\ UNCHANGED <<proc, env, dialogs, client, logs>>

-----------------------------------------------------------------------------
Init ==
  /\ app = "down" /\ launches = 0 /\ faults = 0
  /\ stop = FALSE /\ waiter = TRUE /\ quit = FALSE /\ signals = 0 /\ timer = FALSE
  /\ file \in [token : {None} \cup Accepted, knobs : {TRUE}] /\ tmp = None
  /\ dialog = None /\ lost = {} /\ woken = {}
  /\ sub = [s \in Submitters |-> "none"] /\ tok = [s \in Submitters |-> None]
  /\ task = None /\ cancelled = FALSE /\ halted = FALSE /\ connected = FALSE
  /\ overlap = FALSE
  /\ bus = EdgeStatus /\ link = EdgeStatus.link /\ last = "none"
  /\ holder = None /\ snap = EdgeStatus /\ emitted = 0

Logging(t) ==
  /\ (EmitBegins(t) /\ UNCHANGED status) \/ EmitEnds(t)
  /\ UNCHANGED <<proc, env, dialogs, client, last>>

Activation(s) ==
  \/ MenuReactivate(s) \/ Submitted(s) \/ StopEnds(s) \/ StartRefused(s) \/ StartReturns(s)

Next ==
  \/ Launch \/ BootFails \/ Killed \/ Booted \/ WaitStop
  \/ Signalled \/ ForceExit \/ MenuQuit
  \/ MainAsks \/ DialogCancelled \/ SubmitRefused \/ (\E t \in Inputs : WriteTmp(t))
  \/ (\E s \in Submitters : Activation(s))
  \/ (\E t \in {"watcher", "waiter", "connect"} \cup Submitters : StepLost(t))
  \/ Connects \/ Disconnects \/ WatcherPolls
  \/ (\E t \in Threads : Logging(t))

(* The loop resumes tasks that are ready, the cloud takes an accepted      *)
(* token, the timer thread runs.  Nobody need ever close a dialog.         *)
Fairness ==
  /\ WF_vars(Booted) /\ WF_vars(WaitStop) /\ WF_vars(ForceExit) /\ WF_vars(Connects)
  /\ WF_vars(MainAsks) /\ WF_vars(WatcherPolls)
  /\ \A s \in Submitters :
       WF_vars(Submitted(s)) /\ WF_vars(StopEnds(s)) /\ WF_vars(StartReturns(s))

Spec == Init /\ [][Next]_vars /\ Fairness

-----------------------------------------------------------------------------
(* No write to the status is lost, although log records of other threads   *)
(* are a read followed by a write: the lines are the last ones emitted, in *)
(* order, and the link state is the one published last.                    *)
NoLostUpdate ==
  /\ bus.link = link
  /\ holder = None =>
       bus.lines = [i \in 1 .. (IF emitted < Capacity THEN emitted ELSE Capacity) |->
                      emitted - (IF emitted < Capacity THEN emitted ELSE Capacity) + i]

(* Whenever the process dies, the file is a complete one: the operator's   *)
(* other keys are in it, and its token is one that was there or one that   *)
(* was submitted, never half of one.                                       *)
EnvFileWhole ==
  [][file'.knobs /\ (file.token # None => file'.token # None)]_vars

(* Unless two restarts overlapped, the client uses the token of the file   *)
(* once no attempt is under way: what works now works after a restart.     *)
TokenFollowsFile ==
  ~overlap /\ (\A s \in Submitters : sub[s] \in {"none", "dialog", "done"}) =>
    task \in {None, file.token}

(* A signal ends the process in bounded time, whatever the loop's thread   *)
(* is doing: waiting for the cloud, showing a dialog, or its tasks lost.   *)
SignalEnds == signals > 0 ~> app = "down"

(* "On quit menu -> cancel task group, leave RTC, close gRPC, quit Qt"     *)
(* (main_windows.py:25).                                                   *)
QuitEnds == quit ~> app = "down"
=============================================================================
