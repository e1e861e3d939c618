-------------------------- MODULE ModemPortProofs --------------------------
(***************************************************************************)
(* Theorems about ModemPort, for any set of modems and processes and any   *)
(* number of plugs and opens: hot-plug events replay the bus, one process  *)
(* at a time drives the modem, and a failed open leaves nothing behind.    *)
(***************************************************************************)
EXTENDS ModemPort, SequenceTheorems, TLAPS

Platforms == {"linux", "darwin", "win32"}
Events == [action : {"add", "remove"}, modem : Modems]
ProcStages == {"down", "probing", "found", "opened", "locked", "running", "closing",
               "joined", "busy", "failed"}
IdentStages == {"off", "probe", "reopen", "CGMI", "CGMM", "CGSN", "CCID", "ICCID", "audio"}

(* The parts of the type that the watchers own.                            *)
WatchType ==
  /\ platform \in Platforms /\ bus \in Modems \cup {None}
  /\ watch \in {"off", "on", "stopped"} /\ prev \in Modems \cup {None}
  /\ view \in Modems \cup {None} /\ queue \in Seq(Events)

(* ... and those of the processes and the prober.                          *)
ProcType ==
  /\ platform \in Platforms
  /\ stage \in [Procs -> ProcStages]
  /\ open \subseteq Procs \cup {Prober} /\ lock \in Procs \cup {None}
  /\ ident \in IdentStages

(* What replaying the events needs: nothing is queued before the start,    *)
(* and the observer of Linux is never behind the bus.                      *)
WatchInv ==
  /\ WatchType
  /\ watch = "off" => queue = <<>>
  /\ platform = "linux" /\ watch = "on" => prev = bus
  /\ EventsReplayTheBus

(* Stages in which a process has no descriptor.                            *)
Closed == {"down", "found", "busy", "failed", "joined"}

(* Stages in which a descriptor of a POSIX process is a locked one.        *)
Locked == {"locked", "running", "closing"}

(* On POSIX the flock belongs to the one process past its lock step; on    *)
(* Windows, where there is none, at most one handle is open at all.        *)
HandleInv ==
  /\ ProcType
  /\ \A p \in Procs : stage[p] \in Closed => p \notin open
  /\ \A p \in Procs : stage[p] \in {"probing", "found"} => ~Posix
  /\ ident # "off" => ~Posix
  /\ ident \in {"off", "reopen", "audio"} => Prober \notin open
  /\ lock # None => Posix /\ lock \in open /\ stage[lock] \in Locked
  /\ Posix => \A p \in Procs : p \in open /\ stage[p] \in Locked => lock = p
  /\ ~Posix => \A p, q \in open : p = q

-----------------------------------------------------------------------------
(* The watchers                                                            *)

(* What a consumer that believed v believes after i events of q.           *)
Belief(v, q, i) == IF i = 0 THEN v ELSE IF q[i].action = "add" THEN q[i].modem ELSE None

(* The events of q lead from v to p, and each one fits the belief before.  *)
Leads(v, q, p) ==
  /\ Belief(v, q, Len(q)) = p
  /\ \A i \in 1 .. Len(q) :
       Belief(v, q, i - 1) = IF q[i].action = "remove" THEN q[i].modem ELSE None

(* Sequences of events that lead on from each other can be joined.         *)
LEMMA LeadsConcat ==
  ASSUME NEW v, NEW p, NEW r, NEW q \in Seq(Events), NEW d \in Seq(Events),
         Leads(v, q, p), Leads(p, d, r)
  PROVE  q \o d \in Seq(Events) /\ Leads(v, q \o d, r)
<1> DEFINE n == Len(q)
           m == Len(d)
           c == q \o d
<1>1. n \in Nat /\ m \in Nat /\ c \in Seq(Events) /\ Len(c) = n + m
  OBVIOUS
<1>2. \A i \in 1 .. n + m : c[i] = IF i =< n THEN q[i] ELSE d[i - n]
  OBVIOUS
<1> HIDE DEF n, m, c
<1>3. ASSUME NEW i \in 0 .. n PROVE Belief(v, c, i) = Belief(v, q, i)
  BY <1>1, <1>2 DEF Belief
<1>4. ASSUME NEW i \in 0 .. m PROVE Belief(v, c, n + i) = Belief(p, d, i)
  <2>1. CASE i = 0
    BY <1>1, <1>3, <2>1 DEF Leads, Belief, n
  <2>2. CASE i # 0
    <3>1. n + i \in 1 .. n + m /\ ~(n + i =< n) /\ n + i - n = i /\ n + i # 0
      BY <1>1, <2>2
    <3>2. c[n + i] = d[i]
      BY <1>1, <1>2, <3>1
    <3>3. QED BY <2>2, <3>1, <3>2 DEF Belief
  <2>3. QED BY <2>1, <2>2
<1>5. Belief(v, c, n + m) = r
  BY <1>1, <1>4 DEF Leads, m
<1>6. ASSUME NEW i \in 1 .. n + m
      PROVE  Belief(v, c, i - 1) = IF c[i].action = "remove" THEN c[i].modem ELSE None
  <2>1. CASE i =< n
    <3>1. i \in 1 .. n /\ i - 1 \in 0 .. n /\ c[i] = q[i]
      BY <1>1, <1>2, <2>1
    <3>2. QED BY <1>3, <3>1 DEF Leads, n
  <2>2. CASE i > n
    <3>1. i - n \in 1 .. m /\ i - n - 1 \in 0 .. m /\ c[i] = d[i - n]
      BY <1>1, <1>2, <2>2
    <3>2. Belief(v, c, n + (i - n - 1)) = Belief(p, d, i - n - 1)
      BY <1>4, <3>1
    <3>3. n + (i - n - 1) = i - 1
      BY <1>1
    <3>4. QED BY <3>1, <3>2, <3>3 DEF Leads, m
  <2>3. QED BY <1>1, <2>1, <2>2
<1>7. QED BY <1>1, <1>5, <1>6 DEF Leads, c

(* A difference is at most one remove and one add, in this order, and it   *)
(* leads from the old scan to the new one.                                 *)
LEMMA DiffScansLeads ==
  ASSUME NEW old \in Modems \cup {None}, NEW new \in Modems \cup {None}
  PROVE  DiffScans(old, new) \in Seq(Events) /\ Leads(old, DiffScans(old, new), new)
<1> DEFINE rem == [action |-> "remove", modem |-> old]
           add == [action |-> "add", modem |-> new]
<1>1. CASE old = new
  <2>1. DiffScans(old, new) = <<>> /\ Len(<<>>) = 0
    BY <1>1 DEF DiffScans
  <2>2. QED BY <1>1, <2>1 DEF Leads, Belief
<1>2. CASE old # new
  <2>1. /\ Len(<<rem>>) = 1 /\ <<rem>>[1] = rem /\ rem.action = "remove" /\ rem.modem = old
        /\ Len(<<add>>) = 1 /\ <<add>>[1] = add /\ add.action = "add" /\ add.modem = new
    OBVIOUS
  <2>2. old # None => <<rem>> \in Seq(Events) /\ Leads(old, <<rem>>, None)
    <3>1. old # None => rem \in Events
      BY DEF Events
    <3> HIDE DEF rem
    <3>2. QED BY <2>1, <3>1 DEF Leads, Belief
  <2>3. new # None => <<add>> \in Seq(Events) /\ Leads(None, <<add>>, new)
    <3>1. new # None => add \in Events
      BY DEF Events
    <3> HIDE DEF add
    <3>2. QED BY <2>1, <3>1 DEF Leads, Belief
  <2>4. CASE old = None
    <3>1. DiffScans(old, new) = <<add>>
      BY <1>2, <2>4 DEF DiffScans
    <3>2. QED BY <1>2, <2>3, <2>4, <3>1
  <2>5. CASE new = None
    <3>1. DiffScans(old, new) = <<rem>>
      BY <1>2, <2>5 DEF DiffScans
    <3>2. QED BY <1>2, <2>2, <2>5, <3>1
  <2>6. CASE old # None /\ new # None
    <3>1. DiffScans(old, new) = <<rem>> \o <<add>>
      BY <1>2, <2>6 DEF DiffScans
    <3> HIDE DEF rem, add
    <3>2. QED BY <2>2, <2>3, <2>6, <3>1, LeadsConcat
  <2>7. QED BY <2>4, <2>5, <2>6
<1>3. QED BY <1>1, <1>2

(* Taking the first event moves the consumer one belief on.                *)
LEMMA LeadsTail ==
  ASSUME NEW v, NEW p, NEW q \in Seq(Events), q # <<>>, Leads(v, q, p)
  PROVE  Tail(q) \in Seq(Events) /\ Leads(Apply(v, Head(q)), Tail(q), p)
<1> DEFINE t == Tail(q)
           w == Apply(v, Head(q))
<1>1. /\ t \in Seq(Events) /\ Len(q) \in Nat \ {0} /\ Len(t) = Len(q) - 1
      /\ \A i \in 1 .. Len(t) : t[i] = q[i + 1]
      /\ Head(q) = q[1]
  OBVIOUS
<1>2. w = Belief(v, q, 1)
  BY <1>1 DEF Apply, Belief
<1> HIDE DEF t, w
<1>3. ASSUME NEW i \in 0 .. Len(t) PROVE Belief(w, t, i) = Belief(v, q, i + 1)
  <2>1. CASE i = 0
    BY <1>2, <2>1 DEF Belief
  <2>2. CASE i # 0
    BY <1>1, <2>2 DEF Belief
  <2>3. QED BY <2>1, <2>2
<1>4. Belief(w, t, Len(t)) = p
  BY <1>1, <1>3 DEF Leads
<1>5. ASSUME NEW i \in 1 .. Len(t)
      PROVE  Belief(w, t, i - 1) = IF t[i].action = "remove" THEN t[i].modem ELSE None
  <2>1. i - 1 \in 0 .. Len(t) /\ i + 1 \in 1 .. Len(q) /\ t[i] = q[i + 1]
    BY <1>1
  <2>2. Belief(w, t, i - 1) = Belief(v, q, i - 1 + 1) /\ i - 1 + 1 = i + 1 - 1
    BY <1>1, <1>3, <2>1
  <2>3. QED BY <2>1, <2>2 DEF Leads
<1>6. QED BY <1>1, <1>4, <1>5 DEF Leads, t, w

(* EventsReplayTheBus in terms of Leads.                                   *)
LEMMA ReplayIsLeads == EventsReplayTheBus <=> (watch # "off" => Leads(view, queue, prev))
BY DEF EventsReplayTheBus, Picture, Apply, Leads, Belief

(* Init establishes WatchInv.                                              *)
LEMMA InitWatchInv == Init => WatchInv
BY EmptySeq, ReplayIsLeads DEF Init, WatchInv, WatchType, Platforms

(* A step that leaves bus and watcher alone keeps WatchInv.                *)
LEMMA WatchUnchanged ==
  ASSUME WatchInv, UNCHANGED <<platform, bus, watcher>>
  PROVE  WatchInv'
BY DEF WatchInv, WatchType, EventsReplayTheBus, Picture, Apply, watcher

(* A change of the bus is posted at once on Linux and left to the next     *)
(* tick on the other platforms.                                            *)
LEMMA ObserveStep ==
  ASSUME WatchInv, NEW new \in Modems \cup {None}, bus' = new, Observe(bus, new),
         UNCHANGED <<platform, watch, view>>
  PROVE  WatchInv'
<1>0. watch = "off" => queue = <<>>
  BY DEF WatchInv
<1>1. CASE platform = "linux" /\ watch = "on"
  <2>1. queue' = queue \o DiffScans(prev, new) /\ prev' = new
    BY <1>1 DEF Observe, WatchInv
  <2>2. queue \in Seq(Events) /\ prev \in Modems \cup {None} /\ Leads(view, queue, prev)
    BY <1>1, ReplayIsLeads DEF WatchInv, WatchType
  <2>3. queue' \in Seq(Events) /\ Leads(view, queue', new)
    BY <2>1, <2>2, DiffScansLeads, LeadsConcat
  <2>4. EventsReplayTheBus'
    BY <2>1, <2>3 DEF EventsReplayTheBus, Picture, Apply, Leads, Belief
  <2>5. QED BY <1>1, <2>1, <2>3, <2>4 DEF WatchInv, WatchType
<1>2. CASE ~(platform = "linux" /\ watch = "on")
  <2>1. UNCHANGED <<queue, prev>>
    BY <1>2 DEF Observe
  <2>2. QED
    BY <1>2, <2>1 DEF WatchInv, WatchType, EventsReplayTheBus, Picture, Apply
<1>3. QED BY <1>1, <1>2

(* The steps of the three watchers.                                        *)
LEMMA WatcherStep ==
  ASSUME WatchInv, WindowsSerialWatcher \/ MacosIokitWatcher \/ LinuxUdevWatcher
  PROVE  WatchInv'
<1>0. bus \in Modems \cup {None} /\ prev \in Modems \cup {None} /\ queue \in Seq(Events)
  BY DEF WatchInv, WatchType
<1>1. ASSUME NEW seed \in {bus, None}, PollLoopStarts(seed), platform # "linux"
      PROVE  WatchInv'
  <2>1. queue' = <<>> /\ view' = prev' /\ UNCHANGED <<platform, bus>>
    BY <1>1 DEF PollLoopStarts, WatchInv
  <2>2. EventsReplayTheBus'
    BY <2>1 DEF EventsReplayTheBus, Picture
  <2>3. QED BY <1>0, <1>1, <2>1, <2>2 DEF PollLoopStarts, WatchInv, WatchType
<1>2. CASE ObserverStarts
  <2>1. queue' = <<>> /\ view' = prev' /\ UNCHANGED <<platform, bus>> /\ prev' = bus
    BY <1>2 DEF ObserverStarts, WatchInv
  <2>2. EventsReplayTheBus'
    BY <2>1 DEF EventsReplayTheBus, Picture
  <2>3. QED BY <1>0, <1>2, <2>1, <2>2 DEF ObserverStarts, WatchInv, WatchType
<1>3. CASE PollLoopTicks /\ platform # "linux"
  <2>1. queue' = queue \o DiffScans(prev, bus) /\ prev' = bus /\ watch = "on"
        /\ UNCHANGED <<platform, bus, watch, view>>
    BY <1>3 DEF PollLoopTicks, ScanPorts
  <2>2. Leads(view, queue, prev)
    BY <2>1, ReplayIsLeads DEF WatchInv
  <2>3. queue' \in Seq(Events) /\ Leads(view, queue', bus)
    BY <1>0, <2>1, <2>2, DiffScansLeads, LeadsConcat
  <2>4. EventsReplayTheBus'
    BY <2>1, <2>3 DEF EventsReplayTheBus, Picture, Apply, Leads, Belief
  <2>5. QED BY <1>0, <1>3, <2>1, <2>3, <2>4 DEF WatchInv, WatchType
<1>4. CASE Drain
  <2>1. /\ watch = "on" /\ queue # <<>> /\ queue' = Tail(queue)
        /\ view' = Apply(view, Head(queue)) /\ UNCHANGED <<platform, bus, watch, prev>>
    BY <1>4 DEF Drain
  <2>2. Leads(view, queue, prev)
    BY <2>1, ReplayIsLeads DEF WatchInv
  <2>3. queue' \in Seq(Events) /\ Leads(view', queue', prev)
    BY <1>0, <2>1, <2>2, LeadsTail
  <2>4. EventsReplayTheBus'
    BY <2>1, <2>3 DEF EventsReplayTheBus, Picture, Apply, Leads, Belief
  <2>5. Head(queue) \in Events
    BY <1>0, <2>1
  <2>6. view' \in Modems \cup {None}
    BY <2>1, <2>5 DEF Apply, Events
  <2>7. QED BY <2>1, <2>3, <2>4, <2>6 DEF WatchInv, WatchType
<1>5. CASE StopWatcher
  BY <1>5 DEF StopWatcher, WatchInv, WatchType, EventsReplayTheBus, Picture, Apply
<1>6. QED
  BY <1>1, <1>2, <1>3, <1>4, <1>5
     DEF WindowsSerialWatcher, MacosIokitWatcher, LinuxUdevWatcher, Polling, ScanPorts

(* Every step keeps WatchInv.                                              *)
LEMMA NextWatchInv == WatchInv /\ [Next]_vars => WatchInv'
<1> SUFFICES ASSUME WatchInv, [Next]_vars PROVE WatchInv'
  OBVIOUS
<1>1. CASE Unplug
  BY <1>1, ObserveStep DEF Unplug
<1>2. ASSUME NEW m \in Modems, Plug(m) PROVE WatchInv'
  BY <1>2, ObserveStep DEF Plug
<1>3. CASE WindowsSerialWatcher \/ MacosIokitWatcher \/ LinuxUdevWatcher
  BY <1>3, WatcherStep
<1>4. ASSUME NEW p \in Procs, Process(p) PROVE WatchInv'
  <2>1. UNCHANGED <<platform, bus, watcher>>
    BY <1>4 DEF Process, DiscoverModemSerialPaths, DiscoverProbes, DiscoverFails, ProbeAtOk,
                OpenTty, OpenFails, LockTty, InitOk, InitFails, Aclose, CloseTty, WaitClosed,
                LockReleased, ThreadEnds, DialFails
  <2>2. QED BY <2>1, WatchUnchanged
<1>5. CASE Identify
  <2>1. UNCHANGED <<platform, bus, watcher>>
    BY <1>5 DEF Identify, IdentifyStarts, IdentifyCannotOpen, CooledDown, ProbeAtChannel,
                ReadModemIdentity, RunIdentityCommand, FindAudioSerialPath
  <2>2. QED BY <2>1, WatchUnchanged
<1>6. CASE UNCHANGED vars
  BY <1>6, WatchUnchanged DEF vars
<1>7. QED BY <1>1, <1>2, <1>3, <1>4, <1>5, <1>6 DEF Next

(* The events of the watchers tell the truth about the bus, one device at  *)
(* a time, on all three platforms and for any number of replugs.           *)
THEOREM EventsTruthful == Spec => []EventsReplayTheBus
<1>1. WatchInv => EventsReplayTheBus
  BY DEF WatchInv
<1>2. QED BY <1>1, InitWatchInv, NextWatchInv, PTL DEF Spec

-----------------------------------------------------------------------------
(* Who has the port                                                        *)

(* Init establishes HandleInv.                                             *)
LEMMA InitHandleInv == Init => HandleInv
BY PortAssumption DEF Init, HandleInv, ProcType, Platforms, ProcStages, IdentStages, Closed

(* The steps that open, lock and close the port.                           *)
LEMMA ProcessStep ==
  ASSUME HandleInv, NEW p \in Procs, Process(p)
  PROVE  HandleInv'
<1> USE PortAssumption, ProberAssumption
<1> USE DEF HandleInv, ProcType, Posix, Closed, Locked
<1>1. CASE DiscoverProbes(p)
  BY <1>1 DEF DiscoverProbes, Exclusive, ProcStages, probing
<1>2. CASE DiscoverFails(p)
  BY <1>2 DEF DiscoverFails, ProcStages, probing
<1>3. ASSUME NEW ok \in BOOLEAN, ProbeAtOk(p, ok) PROVE HandleInv'
  BY <1>3 DEF ProbeAtOk, ProcStages, probing
<1>4. CASE OpenTty(p)
  BY <1>4 DEF OpenTty, ReadyToOpen, Exclusive, ProcStages, probing
<1>5. CASE OpenFails(p)
  BY <1>5 DEF OpenFails, ReadyToOpen, ProcStages, probing
<1>6. CASE LockTty(p)
  BY <1>6 DEF LockTty, AcquireExclusive, ProcStages, probing
<1>7. CASE InitOk(p)
  BY <1>7 DEF InitOk, ProcStages, probing
<1>8. CASE InitFails(p) \/ Aclose(p)
  BY <1>8 DEF InitFails, Aclose, CloseTty, ProcStages, probing
<1>9. CASE WaitClosed(p)
  BY <1>9 DEF WaitClosed, ProcStages, probing
<1>10. CASE LockReleased(p)
  BY <1>10 DEF LockReleased, ProcStages, probing
<1>11. CASE ThreadEnds(p) \/ \E i \in Codes : DialFails(p, CauseCodes[i])
  BY <1>11 DEF ThreadEnds, DialFails, process, probing
<1>12. QED
  BY <1>1, <1>2, <1>3, <1>4, <1>5, <1>6, <1>7, <1>8, <1>9, <1>10, <1>11
     DEF Process, DiscoverModemSerialPaths

(* The steps of the prober.                                                *)
LEMMA IdentifyStep ==
  ASSUME HandleInv, Identify
  PROVE  HandleInv'
<1> USE PortAssumption, ProberAssumption
<1> USE DEF HandleInv, ProcType, Posix, Closed, Locked
<1>1. CASE IdentifyStarts
  BY <1>1 DEF IdentifyStarts, Exclusive, IdentStages
<1>2. CASE IdentifyCannotOpen \/ CooledDown
  BY <1>2 DEF IdentifyCannotOpen, CooledDown, process
<1>3. ASSUME NEW ok \in BOOLEAN, ProbeAtChannel(ok) PROVE HandleInv'
  BY <1>3 DEF ProbeAtChannel, IdentifyDone, IdentStages
<1>4. CASE ReadModemIdentity
  BY <1>4 DEF ReadModemIdentity, IdentifyDone, Exclusive, IdentStages
<1>5. ASSUME NEW answer \in Answers, RunIdentityCommand(answer) PROVE HandleInv'
  BY <1>5 DEF RunIdentityCommand, NextCommand, IdentifyDone, IdentStages, Answers
<1>6. CASE FindAudioSerialPath
  BY <1>6 DEF FindAudioSerialPath, IdentifyDone, IdentStages
<1>7. QED BY <1>1, <1>2, <1>3, <1>4, <1>5, <1>6 DEF Identify

(* Every step keeps HandleInv.                                             *)
LEMMA NextHandleInv == HandleInv /\ [Next]_vars => HandleInv'
<1> SUFFICES ASSUME HandleInv, [Next]_vars PROVE HandleInv'
  OBVIOUS
<1>1. CASE Unplug
  BY <1>1, PortAssumption DEF Unplug, probing, HandleInv, ProcType, Posix, Closed, Locked
<1>2. ASSUME NEW m \in Modems, Plug(m) PROVE HandleInv'
  BY <1>2 DEF Plug, process, probing, HandleInv, ProcType, Posix, Closed, Locked
<1>3. CASE WindowsSerialWatcher \/ MacosIokitWatcher \/ LinuxUdevWatcher
  <2>1. UNCHANGED <<platform, process, probing>>
    BY <1>3 DEF WindowsSerialWatcher, MacosIokitWatcher, LinuxUdevWatcher, Polling,
                PollLoopStarts, PollLoopTicks, ObserverStarts, Drain, StopWatcher
  <2>2. QED BY <2>1 DEF process, probing, HandleInv, ProcType, Posix, Closed, Locked
<1>4. ASSUME NEW p \in Procs, Process(p) PROVE HandleInv'
  BY <1>4, ProcessStep
<1>5. CASE Identify
  BY <1>5, IdentifyStep
<1>6. CASE UNCHANGED vars
  BY <1>6 DEF vars, process, probing, HandleInv, ProcType, Posix, Closed, Locked
<1>7. QED BY <1>1, <1>2, <1>3, <1>4, <1>5, <1>6 DEF Next

(* One process at a time drives the modem, for any number of processes:    *)
(* flock on POSIX, the exclusive open on Windows, also against the prober. *)
THEOREM ModemHasOneDriver == Spec => []OneDriver
<1>1. HandleInv => OneDriver
  <2> SUFFICES ASSUME HandleInv, NEW p \in Procs \cup {Prober}, NEW q \in Procs \cup {Prober},
                      Drives(p), Drives(q)
               PROVE  p = q
    BY DEF OneDriver
  <2>1. CASE Posix
    <3>1. Prober \notin open
      BY <2>1 DEF HandleInv
    <3>2. p \in Procs /\ q \in Procs /\ p \in open /\ q \in open
      BY <3>1 DEF Drives
    <3>3. stage[p] \in Locked /\ stage[q] \in Locked
      BY <2>1, <3>1, <3>2 DEF Drives, HandleInv, Locked
    <3>4. QED BY <2>1, <3>2, <3>3 DEF HandleInv
  <2>2. CASE ~Posix
    BY <2>2 DEF HandleInv, Drives
  <2>3. QED BY <2>1, <2>2
<1>2. QED BY <1>1, InitHandleInv, NextHandleInv, PTL DEF Spec

(* An open that failed at any of its steps leaves neither a descriptor nor *)
(* a lock, and neither does the prober when it is done.                    *)
THEOREM FailedOpenIsClean == Spec => []FailedOpenLeavesNothing
<1>1. HandleInv => FailedOpenLeavesNothing
  BY PortAssumption DEF HandleInv, ProcType, FailedOpenLeavesNothing, Closed, Locked
<1>2. QED BY <1>1, InitHandleInv, NextHandleInv, PTL DEF Spec

=============================================================================
