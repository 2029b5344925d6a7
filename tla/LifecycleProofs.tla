--------------------------- MODULE LifecycleProofs ---------------------------
(***************************************************************************)
(* Proofs about the runs of the network thread, for any number of timers,  *)
(* addresses, calls, stops and events.  Users may start and stop while the *)
(* monitor does (Concurrent), but in the last part: runs are kept apart.   *)
(***************************************************************************)
EXTENDS Lifecycle, TLAPS

\* A run has a stack until it is purged, and its loop, its timers and its stop
\* from another peer until the end.
Runs == {"boot", "run", "message", "timer", "leave", "purge"}
Asking == {"boot", "run", "message", "timer"}

RunInv ==
  /\ last \in Nat /\ firing \in Nat /\ told \in Nat /\ asked \in Nat
  /\ phase \in Phases /\ external \in BOOLEAN
  /\ over \subseteq 1..last /\ ticking \subseteq 1..last /\ listed \subseteq 1..last
  /\ over \cap listed = {}
  /\ phase \in Asking => ~external
  /\ phase \in Runs => stack
  /\ phase \in {"purge", "tell"} => networkLock = Net
  /\ loop => phase \in {"run", "message", "timer", "leave"}
  /\ phase \in {"off", "boot", "tell", "ended"} => listed = {}
  /\ ~loop => ticking = {}
  /\ ToldOnce

-----------------------------------------------------------------------------
\* The invariant of the runs holds at first.
LEMMA InitRunInv == Init => RunInv
<1> SUFFICES ASSUME Init PROVE RunInv
  OBVIOUS
<1>1. /\ phase = "off" /\ stack = FALSE /\ loop = FALSE /\ external = FALSE
      /\ listed = {} /\ ticking = {} /\ over = {}
      /\ last = 0 /\ firing = 0 /\ told = 0 /\ asked = 0
  BY DEF Init
<1>2. ToldOnce
  <2>1. phase \notin {"leave", "purge", "tell"}
    BY <1>1
  <2>2. told = asked - 0
    BY <1>1
  <2> QED BY <2>1, <2>2 DEF ToldOnce
<1>3. phase \in Phases /\ phase \notin Asking /\ phase \notin Runs
  BY <1>1 DEF Phases, Asking, Runs
<1> QED BY <1>1, <1>2, <1>3 DEF RunInv

\* What RunInv looks at.
runVars == <<phase, stack, loop, listed, ticking, firing, last, over, external, told, asked, networkLock>>

\* It depends on a few variables only.
LEMMA RunFrame == RunInv /\ UNCHANGED runVars => RunInv'
  BY DEF RunInv, runVars, ToldOnce

\* Users and the monitor: most steps touch nothing of the runs.
LEMMA CallsKeepRuns ==
  ASSUME NEW w \in Threads,
         \/ StartStops(w) \/ Prepare(w) \/ PrepareIp(w) \/ PrepareBrokers(w) \/ Await(w) \/ StopActor(w) \/ Clean(w)
         \/ Ask(w) \/ Asked(w) \/ TimerAsked(w) \/ ClearContext(w)
         \/ StartMonitor(w) \/ StopMonitor(w) \/ Manage(w)
         \/ AddressChanged \/ DeviceGone \/ DeviceBack \/ Call \/ Flap
         \/ UNCHANGED vars
  PROVE  UNCHANGED <<stack, listed, ticking, firing, over, external, told, asked, networkLock>>
         /\ UNCHANGED <<phase, loop, last>>
  BY DEF StartStops, Prepare, PrepareIp, PrepareBrokers, Await, StopActor, Clean, Ask, Asked, TimerAsked, ClearContext,
         StartMonitor, StopMonitor, Manage, AddressChanged, DeviceGone, DeviceBack, Call, Flap,
         vars, network, timers, forced, watch, world

\* s_init_loop and the end of zactor_destroy.
LEMMA InitLoopKeeps ==
  ASSUME RunInv, NEW w \in Threads, InitLoop(w)
  PROVE  RunInv'
<1>1. CASE stack
  <2>1. UNCHANGED runVars
    BY <1>1 DEF InitLoop, runVars, timers
  <2> QED BY <2>1, RunFrame
<1>2. CASE ~stack
  <2>1. /\ phase' = "boot" /\ external' = FALSE /\ stack' = TRUE
        /\ UNCHANGED <<loop, last, listed, ticking, firing, over, told, asked, networkLock>>
    BY <1>2 DEF InitLoop, NewRequest, timers
  <2>2. networkLock = None /\ phase \in {"off", "ended"}
    <3>1. networkLock = None
      BY DEF InitLoop
    <3>2. phase \notin Runs /\ phase \notin {"purge", "tell"}
      BY <1>2, <3>1, LifecycleAssumption DEF RunInv
    <3> QED BY <3>1, <3>2 DEF RunInv, Phases, Runs
  <2> QED BY <2>1, <2>2 DEF RunInv, ToldOnce, Phases, Asking, Runs
<1> QED BY <1>1, <1>2

\* The end of the network thread.
LEMMA JoinKeeps ==
  ASSUME RunInv, NEW w \in Threads, Join(w)
  PROVE  RunInv'
  BY DEF RunInv, Join, ToldOnce, Phases, Asking, Runs, timers, forced

\* A new timer has a new id.
LEMMA StartTimerKeeps ==
  ASSUME RunInv, NEW w \in Threads, StartTimer(w)
  PROVE  RunInv'
<1>1. CASE ~loop
  <2>1. UNCHANGED runVars
    BY <1>1 DEF StartTimer, runVars, forced
  <2> QED BY <2>1, RunFrame
<1>2. CASE loop
  <2>1. /\ last' = last + 1 /\ listed' = listed \cup {last + 1}
        /\ ticking' = ticking \cup {last + 1}
        /\ UNCHANGED <<phase, stack, loop, firing, over, external, told, asked, networkLock>>
    BY <1>2 DEF StartTimer, forced
  <2>2. last + 1 \notin over
    BY DEF RunInv
  <2>3. phase \in {"run", "message", "timer", "leave"}
    BY <1>2 DEF RunInv
  <2>4. /\ over' \subseteq 1..last' /\ ticking' \subseteq 1..last' /\ listed' \subseteq 1..last'
        /\ over' \cap listed' = {}
    BY <2>1, <2>2 DEF RunInv
  <2> QED BY <1>2, <2>1, <2>3, <2>4 DEF RunInv, ToldOnce
<1> QED BY <1>1, <1>2

\* A timer that is stopped is no longer listed.
LEMMA StopTimerKeeps ==
  ASSUME RunInv, NEW w \in Threads, StopTimer(w)
  PROVE  RunInv'
<1> DEFINE i == Head(doing[w])[2]
<1>1. CASE i \in listed /\ ~loop
  <2>1. UNCHANGED runVars
    BY <1>1 DEF StopTimer, runVars, network, forced
  <2> QED BY <2>1, RunFrame
<1>2. CASE ~(i \in listed /\ ~loop)
  <2>1. /\ listed' = listed \ {i} /\ over' = over \cup ({i} \cap listed)
        /\ UNCHANGED <<phase, stack, loop, ticking, firing, last, external, told, asked, networkLock>>
    BY <1>2 DEF StopTimer, network, forced
  <2> HIDE DEF i
  <2>2. over' \subseteq 1..last' /\ listed' \subseteq 1..last' /\ over' \cap listed' = {}
    BY <2>1 DEF RunInv
  <2> QED BY <2>1, <2>2 DEF RunInv, ToldOnce
<1> QED BY <1>1, <1>2

\* The network thread.
LEMMA NetworkKeeps ==
  ASSUME RunInv, NetworkThread
  PROVE  RunInv'
<1> USE DEF RunInv, ToldOnce, Phases, Asking, Runs
<1>1. CASE Boot
  BY <1>1 DEF Boot, forced
<1>2. CASE Fire
  BY <1>2 DEF Fire, Running, NotCanceled, forced
<1>3. CASE Incoming
  BY <1>3 DEF Incoming, Running, timers, forced
<1>4. CASE Handle
  BY <1>4 DEF Handle, forced
<1>5. CASE StopPeer
  BY <1>5 DEF StopPeer, Running, timers
<1>6. CASE Terminated
  BY <1>6 DEF Terminated, Running, timers, forced
<1>7. CASE EndLoop
  BY <1>7 DEF EndLoop, forced
<1>8. CASE Purge
  BY <1>8 DEF Purge, NoTimers, forced
<1>9. CASE Tell
  BY <1>9 DEF Tell, timers
<1> QED BY <1>1, <1>2, <1>3, <1>4, <1>5, <1>6, <1>7, <1>8, <1>9 DEF NetworkThread

\* Every step keeps the invariant.
LEMMA NextRunInv == RunInv /\ [Next]_vars => RunInv'
<1> SUFFICES ASSUME RunInv, [Next]_vars PROVE RunInv'
  OBVIOUS
<1>1. CASE NetworkThread
  BY <1>1, NetworkKeeps
<1>2. CASE UserThread \/ MonitorThread \/ Call \/ Flap \/ UNCHANGED vars
  <2>1. User \in Threads /\ Mon \in Threads
    BY DEF Threads
  <2>2. CASE \E w \in Threads : InitLoop(w) \/ Join(w) \/ StartTimer(w) \/ StopTimer(w)
    BY <2>2, InitLoopKeeps, JoinKeeps, StartTimerKeeps, StopTimerKeeps
  <2>3. CASE ~ \E w \in Threads : InitLoop(w) \/ Join(w) \/ StartTimer(w) \/ StopTimer(w)
    <3>1. UNCHANGED runVars
      BY <1>2, <2>1, <2>3, CallsKeepRuns DEF UserThread, MonitorThread, Thread, runVars
    <3> QED BY <3>1, RunFrame
  <2> QED BY <2>2, <2>3
<1> QED BY <1>1, <1>2 DEF Next

\* The invariant of the runs.
LEMMA RunInvariant == Spec => []RunInv
<1> QED BY InitRunInv, NextRunInv, PTL DEF Spec

-----------------------------------------------------------------------------
\* Forced-stop callbacks are called once for each STOP_PEER and for nothing
\* else: s_init_loop forgets the request of the previous run.
THEOREM ForcedOnce == Spec => []ToldOnce
<1>1. RunInv => ToldOnce
  BY DEF RunInv
<1> QED BY <1>1, RunInvariant, PTL

\* s_manage_network_timer never calls a timer that igs_timer_stop ended, though
\* the loop keeps it.
THEOREM TimersSilent == Spec => StoppedIsSilent
<1>1. RunInv /\ [Next]_vars => [\A i \in over : firing' = i => firing = i]_vars
  <2> SUFFICES ASSUME RunInv, Next, NEW i \in over, firing' = i PROVE firing = i
    BY DEF vars
  <2>1. CASE Fire
    BY <2>1 DEF Fire, NotCanceled, RunInv
  <2>2. CASE Handle
    BY <2>2 DEF Handle, RunInv
  <2>3. CASE NetworkThread /\ ~Fire /\ ~Handle
    BY <2>3 DEF NetworkThread, Boot, Incoming, StopPeer, Terminated, EndLoop, Purge, Tell, timers
  <2>4. CASE ~NetworkThread
    <3>1. User \in Threads /\ Mon \in Threads
      BY DEF Threads
    <3>2. CASE \E w \in Threads : InitLoop(w) \/ Join(w) \/ StartTimer(w) \/ StopTimer(w)
      BY <3>2 DEF InitLoop, Join, StartTimer, StopTimer, timers
    <3>3. CASE ~ \E w \in Threads : InitLoop(w) \/ Join(w) \/ StartTimer(w) \/ StopTimer(w)
      BY <2>4, <3>1, <3>3, CallsKeepRuns DEF Next, UserThread, MonitorThread, Thread
    <3> QED BY <3>2, <3>3
  <2> QED BY <2>1, <2>2, <2>3, <2>4
<1> QED BY <1>1, RunInvariant, PTL DEF Spec, StoppedIsSilent
-----------------------------------------------------------------------------
(***************************************************************************)
(* Types.                                                                  *)
(***************************************************************************)
\* What threads do consists of tasks.
LEMMA Tasks ==
  /\ \A name \in Simple : Task(name) \in TaskSet /\ Task(name)[1] = name
  /\ \A a \in Addresses : <<"prepare ip", a>> \in TaskSet
  /\ \A b \in BOOLEAN : <<"monitor", b>> \in TaskSet /\ <<"manage", b>> \in TaskSet
  /\ \A i \in 1..Timers : <<"timer", i>> \in TaskSet
  /\ Task("timer") \in TaskSet
  /\ \A i : <<"timer", i>> \in TaskSet => <<"new timer", i>> \in TaskSet
BY DEF TaskSet, Task, Simple

\* What the second part of a task is.
LEMMA TaskArguments ==
  ASSUME NEW t \in TaskSet
  PROVE  /\ t[1] = "prepare ip" => t[2] \in Addresses
         /\ t[1] \in {"monitor", "manage"} => t[2] \in BOOLEAN
         /\ t[1] = "timer" => <<"new timer", t[2]>> \in TaskSet
<1>1. CASE \E name \in Simple : t = Task(name)
  <2>1. PICK name \in Simple : t = <<name, None>>
    BY <1>1 DEF Task
  <2>2. t[1] = name
    BY <2>1
  <2> QED BY <2>2 DEF Simple
<1>2. CASE t \in {"prepare ip"} \X Addresses
  BY <1>2
<1>3. CASE t \in {"monitor", "manage"} \X BOOLEAN
  BY <1>3
<1>4. CASE t \in {"timer", "new timer"} \X (1..Timers \cup {None})
  <2>1. t[1] \in {"timer", "new timer"} /\ t[2] \in 1..Timers \cup {None}
    BY <1>4
  <2>2. <<"new timer", t[2]>> \in TaskSet
    BY <2>1 DEF TaskSet
  <2> QED BY <2>1, <2>2
<1> QED BY <1>1, <1>2, <1>3, <1>4 DEF TaskSet

\* A thread at a task does it, and others may come before what it has left.
LEMMA StackTypes ==
  ASSUME NEW tasks \in Seq(TaskSet), tasks # <<>>
  PROVE  /\ Head(tasks) \in TaskSet /\ Tail(tasks) \in Seq(TaskSet)
         /\ \A s \in Seq(TaskSet) : s \o Tail(tasks) \in Seq(TaskSet)
         /\ <<>> \o Tail(tasks) = Tail(tasks)
OBVIOUS

\* The stacks that calls begin with, or that replace a task.
LEMMA StacksTyped ==
  /\ Stop \in Seq(TaskSet) /\ Start \in Seq(TaskSet) /\ <<>> \in Seq(TaskSet)
  /\ Stop \o Start \in Seq(TaskSet) /\ StartWithBrokers \in Seq(TaskSet)
  /\ \A a \in Addresses : StartWithIp(a) \in Seq(TaskSet)
  /\ Stop \o <<Task("no monitor"), Task("clear")>> \in Seq(TaskSet)
  /\ <<Task("init"), Task("await")>> \in Seq(TaskSet)
  /\ \A t \in TaskSet : <<t>> \in Seq(TaskSet)
<1>1. \A t, u \in TaskSet : <<t>> \in Seq(TaskSet) /\ <<t, u>> \in Seq(TaskSet)
  OBVIOUS
<1>2. \A s, r \in Seq(TaskSet) : s \o r \in Seq(TaskSet)
  OBVIOUS
<1>3. \A name \in Simple : Task(name) \in TaskSet
  BY Tasks
<1>4. \A a \in Addresses : <<"prepare ip", a>> \in TaskSet
  BY Tasks
<1>5. Stop \in Seq(TaskSet) /\ Start \in Seq(TaskSet) /\ <<>> \in Seq(TaskSet)
  <2>1. <<>> \in Seq(TaskSet)
    OBVIOUS
  <2>2. Stop \in Seq(TaskSet)
    BY <1>1, <1>3 DEF Stop, Simple
  <2>3. Start \in Seq(TaskSet)
    BY <1>1, <1>3 DEF Start, Simple
  <2> QED BY <2>1, <2>2, <2>3
<1>6. StartWithBrokers \in Seq(TaskSet)
  BY <1>1, <1>3 DEF StartWithBrokers, Simple
<1>7. \A a \in Addresses : StartWithIp(a) \in Seq(TaskSet)
  BY <1>1, <1>3, <1>4 DEF StartWithIp, Simple
<1>8. /\ <<Task("no monitor"), Task("clear")>> \in Seq(TaskSet)
      /\ <<Task("init"), Task("await")>> \in Seq(TaskSet)
  BY <1>1, <1>3 DEF Simple
<1> QED BY <1>1, <1>2, <1>5, <1>6, <1>7, <1>8

\* Calls of the application.
LEMMA CallsTyped == Stops \cup Others \subseteq Seq(TaskSet)
<1>1. Stops \subseteq Seq(TaskSet)
  BY StacksTyped DEF Stops
<1>2. \A name \in {"is started", "no monitor"} : Task(name) \in TaskSet
  BY Tasks DEF Simple
<1>3. Others \subseteq Seq(TaskSet)
  BY <1>2, Tasks, StacksTyped DEF Others
<1> QED BY <1>1, <1>3

\* What a step does to the stack of thread w: s is put in the place of its task.
LEMMA DoTyped ==
  ASSUME TypeOK, NEW w \in Threads, doing[w] # <<>>, NEW s \in Seq(TaskSet), Do(w, s)
  PROVE  /\ doing' \in [Threads -> Seq(TaskSet)]
         /\ doing'[w] = s \o Tail(doing[w])
         /\ \A v \in Threads : v # w => doing'[v] = doing[v]
<1>1. doing \in [Threads -> Seq(TaskSet)] /\ doing[w] \in Seq(TaskSet)
  BY DEF TypeOK
<1>2. s \o Tail(doing[w]) \in Seq(TaskSet)
  BY <1>1, StackTypes
<1>3. doing' = [doing EXCEPT ![w] = s \o Tail(doing[w])]
  BY DEF Do
<1> QED BY <1>1, <1>2, <1>3

\* The task a thread is at.
LEMMA TopTask ==
  ASSUME TypeOK, NEW w \in Threads, NEW name, At(w, name)
  PROVE  doing[w] # <<>> /\ Head(doing[w]) \in TaskSet /\ Head(doing[w])[1] = name
<1>1. doing[w] \in Seq(TaskSet) /\ doing[w] # <<>>
  BY DEF TypeOK, At
<1> QED BY <1>1, StackTypes DEF At

\* What starts and stops do.
LEMMA ThreadTyped ==
  ASSUME TypeOK, RunInv, NEW w \in Threads, Thread(w)
  PROVE  TypeOK'
<1> USE DEF network, timers, forced, watch, world
<1>0. TypeOK /\ \A s \in {Stop, <<>>, <<Task("init"), Task("await")>>, <<Task("join")>>} :
        s \in Seq(TaskSet)
  BY Tasks, StacksTyped DEF Simple
<1>1. CASE StartStops(w)
  <2>1. doing' \in [Threads -> Seq(TaskSet)]
    BY <1>0, <1>1, TopTask, DoTyped DEF StartStops
  <2> QED BY <1>0, <1>1, <2>1 DEF StartStops, TypeOK
<1>2. CASE Prepare(w)
  <2>1. doing' \in [Threads -> Seq(TaskSet)]
    BY <1>0, <1>2, TopTask, DoTyped DEF Prepare, Go, GiveUp, Locked
  <2>2. modelLock' \in Threads \cup {None}
    BY <1>0, <1>2 DEF Prepare, Go, GiveUp, TypeOK
  <2> QED BY <1>0, <1>2, <2>1, <2>2 DEF Prepare, TypeOK
<1>3. CASE PrepareIp(w)
  <2>1. doing' \in [Threads -> Seq(TaskSet)]
    BY <1>0, <1>3, TopTask, DoTyped DEF PrepareIp, Go, GiveUp, Locked
  <2>2. modelLock' \in Threads \cup {None}
    BY <1>0, <1>3 DEF PrepareIp, Go, GiveUp, TypeOK
  <2>3. ip' \in Addresses
    BY <1>0, <1>3, TopTask, TaskArguments DEF PrepareIp, Locked
  <2>4. device' \in BOOLEAN
    BY <1>0, <1>3 DEF PrepareIp, TypeOK
  <2> QED BY <1>0, <1>3, <2>1, <2>2, <2>3, <2>4 DEF PrepareIp, TypeOK
<1>4. CASE PrepareBrokers(w)
  <2>1. doing' \in [Threads -> Seq(TaskSet)]
    BY <1>0, <1>4, TopTask, DoTyped DEF PrepareBrokers, Go, Locked
  <2> QED BY <1>0, <1>4, <2>1 DEF PrepareBrokers, Go, TypeOK
<1>5. CASE InitLoop(w)
  <2>1. doing' \in [Threads -> Seq(TaskSet)]
    BY <1>0, <1>5, TopTask, DoTyped DEF InitLoop, Return, TypeOK
  <2> QED BY <1>0, <1>5, <2>1 DEF InitLoop, NewRequest, TypeOK, Phases
<1>6. CASE Await(w)
  <2>1. doing' \in [Threads -> Seq(TaskSet)]
    BY <1>0, <1>6, TopTask, DoTyped DEF Await, Return
  <2> QED BY <1>0, <1>6, <2>1 DEF Await, TypeOK
<1>7. CASE StopActor(w)
  <2>1. doing' \in [Threads -> Seq(TaskSet)]
    BY <1>0, <1>7, TopTask, DoTyped DEF StopActor, Return, TypeOK
  <2> QED BY <1>0, <1>7, <2>1 DEF StopActor, WithoutLock, TypeOK
<1>8. CASE Join(w)
  <2>1. doing' \in [Threads -> Seq(TaskSet)]
    BY <1>0, <1>8, TopTask, DoTyped DEF Join, Return
  <2> QED BY <1>0, <1>8, <2>1 DEF Join, TypeOK, Phases
<1>9. CASE Clean(w)
  <2>1. doing' \in [Threads -> Seq(TaskSet)]
    BY <1>0, <1>9, TopTask, DoTyped DEF Clean, Return, Locked
  <2> QED BY <1>0, <1>9, <2>1 DEF Clean, TypeOK
<1> QED BY <1>1, <1>2, <1>3, <1>4, <1>5, <1>6, <1>7, <1>8, <1>9 DEF Thread

\* What the other calls of the application do.
LEMMA OthersTyped ==
  ASSUME TypeOK, RunInv, NEW w \in Threads,
         \/ Ask(w) \/ Asked(w) \/ TimerAsked(w) \/ StartTimer(w) \/ StopTimer(w) \/ ClearContext(w)
         \/ StartMonitor(w) \/ StopMonitor(w) \/ Manage(w)
  PROVE  TypeOK'
<1> USE DEF network, timers, forced, watch, world
<1>0. TypeOK /\ RunInv /\ <<>> \in Seq(TaskSet) /\ \A t \in TaskSet : <<t>> \in Seq(TaskSet)
  BY StacksTyped
<1>1. CASE Ask(w)
  <2>1. doing' \in [Threads -> Seq(TaskSet)]
    BY <1>0, <1>1, TopTask, DoTyped, Tasks DEF Ask, Locked, Simple
  <2> QED BY <1>0, <1>1, <2>1 DEF Ask, TypeOK
<1>2. CASE Asked(w)
  <2>1. doing' \in [Threads -> Seq(TaskSet)]
    BY <1>0, <1>2, TopTask, DoTyped DEF Asked, Return
  <2> QED BY <1>0, <1>2, <2>1 DEF Asked, TypeOK
<1>3. CASE TimerAsked(w)
  <2>1. doing[w] # <<>> /\ <<"new timer", Head(doing[w])[2]>> \in TaskSet
    BY <1>0, <1>3, TopTask, TaskArguments DEF TimerAsked
  <2>2. doing' \in [Threads -> Seq(TaskSet)]
    BY <1>0, <1>3, <2>1, DoTyped DEF TimerAsked
  <2> QED BY <1>0, <1>3, <2>2 DEF TimerAsked, TypeOK
<1>4. CASE StartTimer(w)
  <2>1. doing' \in [Threads -> Seq(TaskSet)]
    BY <1>0, <1>4, TopTask, DoTyped DEF StartTimer, Return, Locked, TypeOK
  <2>2. last \in Nat /\ last' \in Nat /\ 1..last \subseteq 1..last'
    <3>1. last \in Nat
      BY DEF TypeOK
    <3>2. last' = last \/ last' = last + 1
      BY <1>4 DEF StartTimer
    <3> QED BY <3>1, <3>2
  <2>3. /\ over \subseteq 1..last /\ over' = over
        /\ ticking \subseteq 1..last /\ listed \subseteq 1..last
    BY <1>0, <1>4 DEF StartTimer, TypeOK
  <2>4. over' \subseteq 1..last' /\ ticking' \subseteq 1..last' /\ listed' \subseteq 1..last'
    <3>1. CASE loop
      <4>1. last' = last + 1 /\ ticking' = ticking \cup {last'} /\ listed' = listed \cup {last'}
        BY <1>4, <3>1 DEF StartTimer
      <4>2. last' \in 1..last'
        BY <2>2, <4>1
      <4> QED BY <2>2, <2>3, <4>1, <4>2
    <3>2. CASE ~loop
      BY <1>4, <2>2, <2>3, <3>2 DEF StartTimer
    <3> QED BY <3>1, <3>2
  <2> QED BY <1>0, <1>4, <2>1, <2>2, <2>4 DEF StartTimer, TypeOK
<1>5. CASE StopTimer(w)
  <2>1. doing' \in [Threads -> Seq(TaskSet)]
    BY <1>0, <1>5, TopTask, DoTyped DEF StopTimer, Return, Locked, TypeOK
  <2> QED BY <1>0, <1>5, <2>1 DEF StopTimer, TypeOK
<1>6. CASE ClearContext(w)
  <2>1. doing' \in [Threads -> Seq(TaskSet)]
    BY <1>0, <1>6, TopTask, DoTyped DEF ClearContext, Return, Locked, TypeOK
  <2> QED BY <1>0, <1>6, <2>1 DEF ClearContext, TypeOK
<1>7. CASE StartMonitor(w)
  <2>1. doing' \in [Threads -> Seq(TaskSet)]
    BY <1>0, <1>7, TopTask, DoTyped DEF StartMonitor, Return, Locked
  <2>2. Head(doing[w])[2] \in BOOLEAN
    BY <1>0, <1>7, TopTask, TaskArguments DEF StartMonitor, Locked
  <2> QED BY <1>0, <1>7, <2>1, <2>2 DEF StartMonitor, Watched, Status, TypeOK
<1>8. CASE StopMonitor(w)
  <2>1. doing' \in [Threads -> Seq(TaskSet)]
    BY <1>0, <1>8, TopTask, DoTyped DEF StopMonitor, Return, Locked
  <2> QED BY <1>0, <1>8, <2>1 DEF StopMonitor, TypeOK
<1>9. CASE Manage(w)
  <2>1. doing' \in [Threads -> Seq(TaskSet)]
    BY <1>0, <1>9, TopTask, DoTyped DEF Manage, Return, Locked
  <2>2. Head(doing[w])[2] \in BOOLEAN
    BY <1>0, <1>9, TopTask, TaskArguments DEF Manage, Locked
  <2> QED BY <1>0, <1>9, <2>1, <2>2 DEF Manage, TypeOK
<1> QED BY <1>1, <1>2, <1>3, <1>4, <1>5, <1>6, <1>7, <1>8, <1>9

\* What the monitor keeps.
LEMMA WatchedTyped ==
  \A b \in BOOLEAN : /\ Watched("ok", b) \in [status : Status, saved : BOOLEAN]
                     /\ Watched("not available", b) \in [status : Status, saved : BOOLEAN]
BY DEF Watched, Status

\* What a check of the monitor does.
LEMMA MonitorTyped ==
  ASSUME TypeOK, AddressChanged \/ DeviceGone \/ DeviceBack
  PROVE  TypeOK'
<1> USE DEF network, timers, forced, watch, world
<1>1. Mon \in Threads /\ Stop \in Seq(TaskSet) /\ Stop \o Start \in Seq(TaskSet) /\ <<>> \in Seq(TaskSet)
  BY StacksTyped DEF Threads
<1>2. \A s \in Seq(TaskSet) : Then(s) => doing' \in [Threads -> Seq(TaskSet)]
  BY <1>1 DEF Then, TypeOK
<1>3. CASE AddressChanged
  BY <1>1, <1>2, <1>3 DEF AddressChanged, TypeOK
<1>4. CASE DeviceGone
  <2>1. doing' \in [Threads -> Seq(TaskSet)]
    BY <1>1, <1>2, <1>4 DEF DeviceGone, TypeOK
  <2>2. monitor' \in [status : Status, saved : BOOLEAN] \cup {None}
    <3>1. device \in BOOLEAN
      BY DEF TypeOK
    <3>2. monitor' = Watched("not available", device) \/ monitor' = Watched("not available", TRUE)
      BY <1>4 DEF DeviceGone
    <3> QED BY <3>1, <3>2, WatchedTyped
  <2> QED BY <1>4, <2>1, <2>2 DEF DeviceGone, TypeOK
<1>5. CASE DeviceBack
  <2>1. doing' \in [Threads -> Seq(TaskSet)]
    BY <1>1, <1>2, <1>5 DEF DeviceBack, StartAgain, TypeOK
  <2>2. monitor' \in [status : Status, saved : BOOLEAN] \cup {None}
    <3>1. monitor' = Watched("ok", FALSE) \/ monitor' = monitor
      BY <1>5 DEF DeviceBack
    <3> QED BY <3>1, WatchedTyped DEF TypeOK
  <2> QED BY <1>5, <2>1, <2>2 DEF DeviceBack, TypeOK
<1> QED BY <1>3, <1>4, <1>5

\* What the network thread does.
LEMMA NetworkTyped ==
  ASSUME TypeOK, RunInv, NetworkThread
  PROVE  TypeOK'
<1> USE DEF network, timers, forced, watch, world, TypeOK, Phases
<1>1. CASE Boot
  BY <1>1 DEF Boot, RunInv
<1>2. CASE Fire
  BY <1>2 DEF Fire, Running, NotCanceled
<1>3. CASE Incoming
  BY <1>3 DEF Incoming, Running
<1>4. CASE Handle
  BY <1>4 DEF Handle
<1>5. CASE StopPeer
  BY <1>5 DEF StopPeer, Running
<1>6. CASE Terminated
  BY <1>6 DEF Terminated, Running
<1>7. CASE EndLoop
  BY <1>7 DEF EndLoop
<1>8. CASE Purge
  BY <1>8 DEF Purge, NoTimers
<1>9. CASE Tell
  BY <1>9 DEF Tell
<1> QED BY <1>1, <1>2, <1>3, <1>4, <1>5, <1>6, <1>7, <1>8, <1>9 DEF NetworkThread

\* Calls begin, and the device comes and goes.
LEMMA CallTyped ==
  ASSUME TypeOK, Call \/ Flap \/ UNCHANGED vars
  PROVE  TypeOK'
<1> USE DEF network, timers, forced, watch, world
<1>1. CASE Call
  <2>1. doing' \in [Threads -> Seq(TaskSet)]
    BY <1>1, CallsTyped DEF Call, TypeOK
  <2> QED BY <1>1, <2>1 DEF Call, TypeOK
<1>2. CASE Flap
  BY <1>2 DEF Flap, TypeOK
<1>3. CASE UNCHANGED vars
  BY <1>3 DEF vars, TypeOK
<1> QED BY <1>1, <1>2, <1>3

\* Every step keeps the types.
LEMMA NextTyped == RunInv /\ TypeOK /\ [Next]_vars => TypeOK'
<1>1. User \in Threads /\ Mon \in Threads
  BY DEF Threads
<1> QED BY <1>1, ThreadTyped, OthersTyped, MonitorTyped, NetworkTyped, CallTyped
        DEF Next, UserThread, MonitorThread

\* The types hold at first.
LEMMA InitTyped == Init => TypeOK
<1> SUFFICES ASSUME Init PROVE TypeOK
  OBVIOUS
<1>1. <<>> \in Seq(TaskSet)
  OBVIOUS
<1> QED BY <1>1 DEF Init, TypeOK, Phases

\* Types of what a process keeps of its runs, and the tasks of its threads.
THEOREM LifecycleType == Spec => []TypeOK
BY InitTyped, RunInvariant, NextTyped, PTL DEF Spec

-----------------------------------------------------------------------------
(***************************************************************************)
(* Runs are kept apart.                                                    *)
(***************************************************************************)
\* What follows what in the stack of a thread, and what ends it.
Preparing == {"prepare", "prepare ip", "prepare brokers"}
LeadsTo ==
  ({"stop", "join"} \X {"clean"}) \cup ({"start"} \X Preparing)
    \cup ({"clean"} \X (Preparing \cup {"start", "no monitor"}))
    \cup {<<"init", "await">>, <<"no monitor", "clear">>}
Continued == {"stop", "join", "start", "init"}
Link(name, rest) ==
  IF rest = <<>> THEN name \notin Continued ELSE <<name, Head(rest)[1]>> \in LeadsTo
Chain(tasks) ==
  \A i \in 1..Len(tasks) :
    IF i = Len(tasks) THEN tasks[i][1] \notin Continued
                      ELSE <<tasks[i][1], tasks[i + 1][1]>> \in LeadsTo
Chains == \A w \in Threads : Chain(doing[w])

\* The task thread w is about to do.
Top(w) == IF doing[w] = <<>> THEN "nothing" ELSE Head(doing[w])[1]

\* A thread that starts or stops the peer, which no two threads do at once.
Starting == Preparing \cup {"start", "init", "await", "stop", "join", "clean", "clear"}
Busy(w) == Top(w) \in Starting \/ Len(doing[w]) > 1
Turns ==
  /\ Busy(User) => doing[Mon] = <<>> /\ (~managed \/ monitor = None)
  /\ Top(User) = "clear" => monitor = None

\* The thread of the network is there from a start to the next stop.
Down == ~actor /\ phase = "off"
Awaited == \E w \in Threads : Top(w) = "await"
Thereby == (actor => phase # "off") /\ (phase # "off" => actor \/ Awaited)

\* What a thread has brought about with what it did before.
Ready(w) ==
  /\ Top(w) \in Preparing \cup {"init", "clean", "clear"} => Down
  /\ Top(w) = "no monitor" /\ Len(doing[w]) > 1 => Down
  /\ Top(w) = "join" => actor
  /\ Top(w) = "await" => ~actor /\ phase # "off"
  /\ Top(w) \in {"init", "await"} => device \/ ip = Brokers
AllReady == \A w \in Threads : Ready(w)

\* Who holds the model lock between two steps.
Holding == {"init", "await", "ask"}
Holders == \A w \in Threads : modelLock = w <=> Top(w) \in Holding

\* What a run leaves.
Left ==
  /\ stack => phase \in Runs \/ StartFailed
  /\ peers => phase \in {"run", "message", "timer", "leave", "purge"}

\* RunsApart, also under the model lock.
Equipped == stack => device \/ ip = Brokers \/ StartFailed
Sound == AssertsHold /\ Equipped

Apart == Chains /\ Turns /\ Thereby /\ AllReady /\ Holders /\ Left /\ Sound

ApartInv == RunInv /\ TypeOK /\ Apart

-----------------------------------------------------------------------------
\* A thread does the first task of a chain: what is left is a chain.
LEMMA PopChain ==
  ASSUME NEW tasks \in Seq(TaskSet), tasks # <<>>, Chain(tasks)
  PROVE  /\ Tail(tasks) \in Seq(TaskSet) /\ Chain(Tail(tasks))
         /\ Link(Head(tasks)[1], Tail(tasks))
         /\ Tail(tasks) = <<>> => Len(tasks) = 1
<1> DEFINE r == Tail(tasks)
<1>1. /\ r \in Seq(TaskSet) /\ Len(tasks) \in Nat \ {0} /\ Len(r) = Len(tasks) - 1
      /\ Head(tasks) = tasks[1]
  OBVIOUS
<1>2. \A i \in 1..Len(r) : r[i] = tasks[i + 1]
  OBVIOUS
<1> HIDE DEF r
<1>3. ASSUME NEW i \in 1..Len(r)
      PROVE  IF i = Len(r) THEN r[i][1] \notin Continued ELSE <<r[i][1], r[i + 1][1]>> \in LeadsTo
  <2>1. i + 1 \in 1..Len(tasks) /\ r[i] = tasks[i + 1] /\ (i + 1 = Len(tasks) <=> i = Len(r))
    BY <1>1, <1>2
  <2>2. IF i + 1 = Len(tasks) THEN tasks[i + 1][1] \notin Continued
                              ELSE <<tasks[i + 1][1], tasks[(i + 1) + 1][1]>> \in LeadsTo
    BY <2>1 DEF Chain
  <2>3. i # Len(r) => r[i + 1] = tasks[(i + 1) + 1]
    <3>1. i # Len(r) => i + 1 \in 1..Len(r)
      BY <1>1
    <3> QED BY <1>2, <3>1
  <2> QED BY <2>1, <2>2, <2>3
<1>4. Link(Head(tasks)[1], r)
  <2>1. CASE r = <<>>
    <3>1. Len(tasks) = 1
      BY <1>1, <2>1
    <3>2. tasks[1][1] \notin Continued
      BY <3>1 DEF Chain
    <3> QED BY <1>1, <2>1, <3>2 DEF Link
  <2>2. CASE r # <<>>
    <3>1. Len(r) \in Nat \ {0} /\ Head(r) = r[1] /\ r[1] = tasks[1 + 1]
      BY <1>1, <1>2, <2>2
    <3>2. 1 \in 1..Len(tasks) /\ Len(tasks) # 1
      BY <1>1, <3>1
    <3>3. <<tasks[1][1], tasks[1 + 1][1]>> \in LeadsTo
      BY <3>2 DEF Chain
    <3> QED BY <1>1, <2>2, <3>1, <3>3 DEF Link
  <2> QED BY <2>1, <2>2
<1>5. r = <<>> => Len(tasks) = 1
  BY <1>1
<1>6. Chain(r)
  BY <1>3 DEF Chain
<1> QED BY <1>1, <1>4, <1>5, <1>6 DEF r

\* A task goes before a chain that may follow it.
LEMMA PushChain ==
  ASSUME NEW t \in TaskSet, NEW r \in Seq(TaskSet), Chain(r), Link(t[1], r)
  PROVE  /\ Chain(<<t>> \o r) /\ <<t>> \o r \in Seq(TaskSet)
         /\ <<t>> \o r # <<>> /\ Head(<<t>> \o r) = t
         /\ r = <<>> => Len(<<t>> \o r) = 1
<1> DEFINE s == <<t>> \o r
<1>1. s \in Seq(TaskSet) /\ Len(s) = Len(r) + 1 /\ s # <<>> /\ Head(s) = t /\ Len(r) \in Nat
  OBVIOUS
<1>2. s[1] = t /\ \A i \in 1..Len(r) : s[i + 1] = r[i]
  OBVIOUS
<1> HIDE DEF s
<1>3. ASSUME NEW i \in 1..Len(s)
      PROVE  IF i = Len(s) THEN s[i][1] \notin Continued ELSE <<s[i][1], s[i + 1][1]>> \in LeadsTo
  <2>1. CASE i = 1
    <3>1. CASE r = <<>>
      <4>1. Len(s) = 1 /\ t[1] \notin Continued
        BY <1>1, <3>1 DEF Link
      <4> QED BY <1>2, <2>1, <4>1
    <3>2. CASE r # <<>>
      <4>1. Len(r) # 0 /\ Head(r) = r[1]
        BY <3>2
      <4>2. Len(s) # 1 /\ s[1 + 1] = r[1]
        BY <1>1, <1>2, <4>1
      <4>3. <<t[1], r[1][1]>> \in LeadsTo
        BY <3>2, <4>1 DEF Link
      <4> QED BY <1>2, <2>1, <4>2, <4>3
    <3> QED BY <3>1, <3>2
  <2>2. CASE i # 1
    <3>1. PICK k \in 1..Len(r) : i = k + 1
      <4>1. i - 1 \in 1..Len(r) /\ i = (i - 1) + 1
        BY <1>1, <2>2
      <4> QED BY <4>1
    <3>2. IF k = Len(r) THEN r[k][1] \notin Continued ELSE <<r[k][1], r[k + 1][1]>> \in LeadsTo
      BY DEF Chain
    <3>3. s[i] = r[k] /\ (i = Len(s) <=> k = Len(r)) /\ (k # Len(r) => s[i + 1] = r[k + 1])
      BY <1>1, <1>2, <3>1
    <3> QED BY <3>2, <3>3
  <2> QED BY <2>1, <2>2
<1>4. Chain(s)
  BY <1>3 DEF Chain
<1> QED BY <1>1, <1>4 DEF s

\* Two tasks go before it.
LEMMA PushTwo ==
  ASSUME NEW t \in TaskSet, NEW u \in TaskSet, NEW r \in Seq(TaskSet), Chain(r), Link(u[1], r),
         <<t[1], u[1]>> \in LeadsTo
  PROVE  Chain(<<t, u>> \o r) /\ <<t, u>> \o r # <<>> /\ Head(<<t, u>> \o r) = t
<1>1. /\ Chain(<<u>> \o r) /\ <<u>> \o r \in Seq(TaskSet) /\ <<u>> \o r # <<>> /\ Head(<<u>> \o r) = u
  BY PushChain
<1>2. Link(t[1], <<u>> \o r)
  BY <1>1 DEF Link
<1>3. Chain(<<t>> \o (<<u>> \o r)) /\ <<t>> \o (<<u>> \o r) # <<>> /\ Head(<<t>> \o (<<u>> \o r)) = t
  <2> DEFINE q == <<u>> \o r
  <2>1. q \in Seq(TaskSet) /\ Chain(q) /\ Link(t[1], q)
    BY <1>1, <1>2
  <2> HIDE DEF q
  <2>2. Chain(<<t>> \o q) /\ <<t>> \o q # <<>> /\ Head(<<t>> \o q) = t
    BY <2>1, PushChain
  <2> QED BY <2>2 DEF q
<1>4. <<t, u>> \o r = <<t>> \o (<<u>> \o r)
  <2> DEFINE a == <<t, u>> \o r
             q == <<u>> \o r
             b == <<t>> \o q
  <2>1. /\ a \in Seq(TaskSet) /\ Len(a) = Len(r) + 2 /\ a[1] = t /\ a[2] = u
        /\ \A i \in 1..Len(r) : a[i + 2] = r[i]
    OBVIOUS
  <2>2. /\ q \in Seq(TaskSet) /\ Len(q) = Len(r) + 1 /\ q[1] = u /\ Len(r) \in Nat
        /\ \A i \in 1..Len(r) : q[i + 1] = r[i]
    OBVIOUS
  <2> HIDE DEF a, q
  <2>3. /\ b \in Seq(TaskSet) /\ Len(b) = Len(q) + 1 /\ b[1] = t
        /\ \A i \in 1..Len(q) : b[i + 1] = q[i]
    BY <2>2
  <2> HIDE DEF b
  <2>4. ASSUME NEW i \in 1..Len(a) PROVE a[i] = b[i]
    <3>1. CASE i = 1
      BY <2>1, <2>3, <3>1
    <3>2. CASE i = 2
      <4>1. 1 \in 1..Len(q) /\ i = 1 + 1
        BY <2>2, <3>2
      <4> QED BY <2>1, <2>2, <2>3, <3>2, <4>1
    <3>3. CASE i > 2
      <4>1. i - 2 \in 1..Len(r) /\ i = (i - 2) + 2 /\ (i - 2) + 1 \in 1..Len(q)
            /\ i = ((i - 2) + 1) + 1
        BY <2>1, <2>2, <3>3
      <4> QED BY <2>1, <2>2, <2>3, <4>1
    <3> QED BY <3>1, <3>2, <3>3
  <2>5. Len(a) = Len(b)
    BY <2>1, <2>2, <2>3
  <2>6. a = b
    BY <2>1, <2>3, <2>4, <2>5
  <2> QED BY <2>6 DEF a, b, q
<1> QED BY <1>3, <1>4

-----------------------------------------------------------------------------
\* What thread w has left to do when it has done its task.
LEMMA AtTop ==
  ASSUME TypeOK, Chains, NEW w \in Threads, NEW name, At(w, name)
  PROVE  /\ Tail(doing[w]) \in Seq(TaskSet) /\ Chain(Tail(doing[w])) /\ Link(name, Tail(doing[w]))
         /\ Tail(doing[w]) = <<>> => Len(doing[w]) = 1
         /\ Top(w) = name /\ doing[w] # <<>>
<1>1. doing[w] \in Seq(TaskSet) /\ doing[w] # <<>> /\ Head(doing[w])[1] = name
  BY DEF TypeOK, At
<1>2. Chain(doing[w])
  BY DEF Chains
<1> QED BY <1>1, <1>2, PopChain DEF Top

\* What comes next.
Follows(name, top) == (top = "nothing" /\ name \notin Continued) \/ <<name, top>> \in LeadsTo

\* A thread that has done a task is at the next one.
LEMMA AfterReturn ==
  ASSUME TypeOK, Chains, NEW w \in Threads, NEW name, At(w, name), Return(w)
  PROVE  /\ Chain(doing'[w]) /\ Follows(name, Top(w)')
         /\ \A v \in Threads : v # w => doing'[v] = doing[v]
         /\ Top(w)' = "nothing" => doing'[w] = <<>>
<1>1. /\ Tail(doing[w]) \in Seq(TaskSet) /\ Chain(Tail(doing[w])) /\ Link(name, Tail(doing[w]))
      /\ doing[w] # <<>>
  BY AtTop
<1>2. <<>> \in Seq(TaskSet) /\ Do(w, <<>>)
  BY DEF Return
<1>3. /\ doing'[w] = <<>> \o Tail(doing[w])
      /\ \A v \in Threads : v # w => doing'[v] = doing[v]
  BY <1>1, <1>2, DoTyped
<1>4. doing'[w] = Tail(doing[w])
  BY <1>1, <1>3
<1>5. Follows(name, Top(w)')
  BY <1>1, <1>4 DEF Follows, Link, Top
<1>6. \A x : <<name, x>> \in LeadsTo => x # "nothing"
  BY DEF LeadsTo, Preparing
<1> QED BY <1>1, <1>3, <1>4, <1>5, <1>6 DEF Link, Top

\* A task in the place of another that has the same followers.
LEMMA AfterOne ==
  ASSUME TypeOK, Chains, NEW w \in Threads, NEW name, At(w, name), NEW t \in TaskSet, Do(w, <<t>>),
         Link(t[1], Tail(doing[w]))
  PROVE  /\ Chain(doing'[w]) /\ Top(w)' = t[1]
         /\ \A v \in Threads : v # w => doing'[v] = doing[v]
         /\ Tail(doing[w]) = <<>> => Len(doing'[w]) = 1
<1>1. Tail(doing[w]) \in Seq(TaskSet) /\ Chain(Tail(doing[w])) /\ doing[w] # <<>>
  BY AtTop
<1>2. <<t>> \in Seq(TaskSet)
  OBVIOUS
<1>3. /\ doing'[w] = <<t>> \o Tail(doing[w])
      /\ \A v \in Threads : v # w => doing'[v] = doing[v]
  BY <1>1, <1>2, DoTyped
<1> DEFINE r == Tail(doing[w])
<1>4. /\ Chain(<<t>> \o r) /\ <<t>> \o r # <<>> /\ Head(<<t>> \o r) = t
      /\ r = <<>> => Len(<<t>> \o r) = 1
  <2> HIDE DEF r
  <2>1. r \in Seq(TaskSet) /\ Chain(r) /\ Link(t[1], r)
    BY <1>1 DEF r
  <2> QED BY <2>1, PushChain
<1> QED BY <1>3, <1>4 DEF Top

\* Two tasks in the place of another.
LEMMA AfterTwo ==
  ASSUME TypeOK, Chains, NEW w \in Threads, NEW name, At(w, name), NEW t \in TaskSet, NEW u \in TaskSet,
         Do(w, <<t, u>>), Link(u[1], Tail(doing[w])), <<t[1], u[1]>> \in LeadsTo
  PROVE  /\ Chain(doing'[w]) /\ Top(w)' = t[1]
         /\ \A v \in Threads : v # w => doing'[v] = doing[v]
<1>1. Tail(doing[w]) \in Seq(TaskSet) /\ Chain(Tail(doing[w])) /\ doing[w] # <<>>
  BY AtTop
<1>2. <<t, u>> \in Seq(TaskSet)
  OBVIOUS
<1>3. /\ doing'[w] = <<t, u>> \o Tail(doing[w])
      /\ \A v \in Threads : v # w => doing'[v] = doing[v]
  BY <1>1, <1>2, DoTyped
<1> DEFINE r == Tail(doing[w])
<1>4. Chain(<<t, u>> \o r) /\ <<t, u>> \o r # <<>> /\ Head(<<t, u>> \o r) = t
  <2> HIDE DEF r
  <2>1. r \in Seq(TaskSet) /\ Chain(r) /\ Link(u[1], r)
    BY <1>1 DEF r
  <2> QED BY <2>1, PushTwo
<1> QED BY <1>3, <1>4 DEF Top

\* Tasks that nothing follows.
Final == Preparing \cup {"await", "ask", "timer", "new timer", "is started", "monitor", "manage", "clear"}

\* What follows each task.
LEMMA Followers ==
  /\ \A x : Follows("start", x) => x \in Preparing
  /\ \A name \in {"stop", "join"} : \A x : Follows(name, x) => x = "clean"
  /\ \A x : Follows("clean", x) => x \in Preparing \cup {"start", "no monitor", "nothing"}
  /\ \A x : Follows("init", x) => x = "await"
  /\ \A x : Follows("no monitor", x) => x \in {"clear", "nothing"}
  /\ \A name \in Final : \A x : Follows(name, x) => x = "nothing"
BY DEF Follows, LeadsTo, Continued, Preparing, Final

\* Nothing follows these.
LEMMA LastTasks ==
  ASSUME NEW name \in Final, NEW r \in Seq(TaskSet), Link(name, r)
  PROVE  r = <<>>
BY DEF Link, LeadsTo, Preparing, Final

\* What may come before what.
LEMMA StopLinks ==
  /\ \A r \in Seq(TaskSet) : Link("start", r) => Link("clean", r)
  /\ \A r \in Seq(TaskSet) : Link("stop", r) => Link("join", r)
  /\ \A name \in {"clean", "await", "ask", "new timer"} : Link(name, <<>>)
  /\ <<"stop", "clean">> \in LeadsTo /\ <<"init", "await">> \in LeadsTo
<1>1. ASSUME NEW r \in Seq(TaskSet), Link("start", r) PROVE Link("clean", r)
  <2>1. r # <<>> /\ Head(r)[1] \in Preparing
    BY <1>1 DEF Link, LeadsTo, Continued, Preparing
  <2>2. <<"clean", Head(r)[1]>> \in LeadsTo
    BY <2>1 DEF LeadsTo
  <2> QED BY <2>1, <2>2 DEF Link
<1>2. ASSUME NEW r \in Seq(TaskSet), Link("stop", r) PROVE Link("join", r)
  <2>1. r # <<>> /\ Head(r)[1] = "clean"
    BY <1>2 DEF Link, LeadsTo, Continued, Preparing
  <2>2. <<"join", Head(r)[1]>> \in LeadsTo
    BY <2>1 DEF LeadsTo
  <2> QED BY <2>1, <2>2 DEF Link
<1>3. \A name \in {"clean", "await", "ask", "new timer"} : Link(name, <<>>)
  BY DEF Link, Continued
<1>4. <<"stop", "clean">> \in LeadsTo /\ <<"init", "await">> \in LeadsTo
  BY DEF LeadsTo
<1> QED BY <1>1, <1>2, <1>3, <1>4

-----------------------------------------------------------------------------
\* While a thread starts or stops the peer the other one does not.
LEMMA OtherIdle ==
  ASSUME ApartInv, NEW w \in Threads, NEW name \in Starting, At(w, name)
  PROVE  /\ \A v \in Threads : v # w => ~Busy(v)
         /\ Top(w) = name /\ Busy(w)
         /\ \A v \in Threads : v # w => Top(v) # "await"
<1>1. TypeOK /\ Chains /\ Turns
  BY DEF ApartInv, Apart
<1>2. Top(w) = name /\ doing[w] # <<>>
  BY <1>1, AtTop
<1>3. Busy(w)
  BY <1>2 DEF Busy
<1>4. ASSUME NEW v \in Threads, v # w PROVE ~Busy(v)
  <2>1. CASE w = Mon
    BY <1>1, <1>2, <1>4, <2>1 DEF Turns, Threads
  <2>2. CASE w = User
    <3>1. v = Mon /\ doing[v] = <<>>
      BY <1>1, <1>3, <1>4, <2>2 DEF Turns, Threads
    <3>2. Top(v) = "nothing" /\ Len(doing[v]) = 0
      BY <3>1 DEF Top
    <3>3. "nothing" \notin Starting
      BY DEF Starting, Preparing
    <3>4. Top(v) \notin Starting /\ ~(Len(doing[v]) > 1)
      BY <3>2, <3>3
    <3> QED BY <3>4 DEF Busy
  <2> QED BY <2>1, <2>2 DEF Threads
<1>5. "await" \in Starting
  BY DEF Starting
<1> QED BY <1>2, <1>3, <1>4, <1>5 DEF Busy

\* What is ready for a thread that neither starts nor stops.
LEMMA IdleReady ==
  ASSUME NEW w \in Threads, ~Busy(w)
  PROVE  Ready(w)
BY DEF Busy, Ready, Starting

\* A thread goes on with a start or a stop.
LEMMA WorkStep ==
  ASSUME ApartInv, NEW w \in Threads, NEW name \in Starting, At(w, name),
         \A v \in Threads : v # w => doing'[v] = doing[v],
         UNCHANGED <<monitor, managed>>,
         Chain(doing'[w]), Ready(w)', Top(w)' # "clear",
         modelLock' = w <=> Top(w)' \in Holding,
         \A v \in Threads : v # w => (modelLock' = v <=> modelLock = v)
  PROVE  Chains' /\ Turns' /\ AllReady' /\ Holders'
<1>1. TypeOK /\ Chains /\ Turns /\ Holders
  BY DEF ApartInv, Apart
<1>2. \A v \in Threads : v # w => ~Busy(v) /\ Busy(w)
  BY OtherIdle
<1>3. ASSUME NEW v \in Threads, v # w
      PROVE  /\ ~Busy(v)' /\ Top(v)' = Top(v) /\ Ready(v)' /\ Chain(doing'[v])
             /\ (modelLock' = v <=> Top(v)' \in Holding)
  <2>1. doing'[v] = doing[v]
    BY <1>3
  <2>2. Top(v)' = Top(v)
    BY <2>1 DEF Top
  <2>3. ~Busy(v)'
    BY <1>2, <1>3, <2>1, <2>2 DEF Busy
  <2>4. Chain(doing'[v])
    BY <1>1, <2>1 DEF Chains
  <2>5. modelLock' = v <=> Top(v)' \in Holding
    BY <1>1, <1>3, <2>2 DEF Holders
  <2>6. Ready(v)'
    BY <2>3 DEF Busy, Ready, Starting
  <2> QED BY <2>2, <2>3, <2>4, <2>5, <2>6
<1>4. Chains' /\ AllReady' /\ Holders'
  BY <1>3 DEF Chains, AllReady, Holders
<1>5. Turns'
  <2>1. CASE w = Mon
    <3>1. ~Busy(User)'
      BY <1>3, <2>1, LifecycleAssumption DEF Threads
    <3>2. Top(User)' # "clear"
      BY <3>1 DEF Busy, Starting
    <3> QED BY <3>1, <3>2 DEF Turns
  <2>2. CASE w = User
    <3>1. doing'[Mon] = doing[Mon]
      BY <2>2, LifecycleAssumption DEF Threads
    <3> QED BY <1>1, <1>2, <2>2, <3>1, LifecycleAssumption DEF Turns, Threads
  <2> QED BY <2>1, <2>2 DEF Threads
<1> QED BY <1>4, <1>5

\* Nothing is left of a run that was stopped.
LEMMA DownLeft ==
  ASSUME ApartInv, Down
  PROVE  (stack => StartFailed) /\ ~loop /\ ~peers /\ listed = {}
BY DEF ApartInv, Apart, Down, Left, Runs, RunInv

\* What a thread has brought about before the task it is at.
LEMMA DownReady ==
  ASSUME ApartInv, NEW w \in Threads, NEW name, At(w, name)
  PROVE  /\ name \in Preparing \cup {"init", "clean", "clear"} => Down
         /\ name = "join" => actor
         /\ name = "await" => ~actor /\ phase # "off"
         /\ name \in {"init", "await"} => device \/ ip = Brokers
         /\ modelLock = w <=> name \in Holding
         /\ name = "no monitor" /\ Len(doing[w]) > 1 => Down
<1>1. TypeOK /\ Chains /\ AllReady /\ Holders
  BY DEF ApartInv, Apart
<1>2. Top(w) = name
  BY <1>1, AtTop
<1> QED BY <1>1, <1>2 DEF AllReady, Holders, Ready

\* No start waits for the network thread: without a network actor it is not there.
LEMMA NotAwaited ==
  ASSUME ApartInv, NEW w \in Threads, NEW name \in Starting \ {"await"}, At(w, name), ~actor
  PROVE  Down
<1>1. \A v \in Threads : Top(v) # "await"
  BY OtherIdle
<1> QED BY <1>1 DEF Down, ApartInv, Apart, Thereby, Awaited

-----------------------------------------------------------------------------
\* The tests of the runs that a start or a stop leaves alone.
LEMMA SameRuns ==
  ASSUME ApartInv, Alive, UNCHANGED <<stack, phase, networkLock, peers, crash>>
  PROVE  Left' /\ AssertsHold' /\ StartFailed' = StartFailed
<1>1. StartFailed' = StartFailed
  BY DEF StartFailed
<1>2. crash' # "assert"
  BY LifecycleAssumption DEF Alive
<1> QED BY <1>1, <1>2 DEF ApartInv, Apart, Left, AssertsHold

\* igs_start_with_device stops a started peer first.
LEMMA StartStopsApart ==
  ASSUME ApartInv, NEW w \in Threads, StartStops(w)
  PROVE  Apart'
<1>1. TypeOK /\ Chains /\ Thereby /\ Sound
  BY DEF ApartInv, Apart
<1>2. At(w, "start") /\ "start" \in Starting
  BY DEF StartStops, Starting
<1>3. /\ UNCHANGED <<actor, phase, networkLock, peers, stack, device, ip, monitor, managed, modelLock, crash>>
      /\ Alive
  BY DEF StartStops, At, network, watch
<1>4. /\ Tail(doing[w]) \in Seq(TaskSet) /\ Link("start", Tail(doing[w]))
  BY <1>1, <1>2, AtTop
<1>5. /\ Chain(doing'[w]) /\ Top(w)' \in Preparing \cup {"stop"}
      /\ Top(w)' \in Preparing => ~actor
      /\ \A v \in Threads : v # w => doing'[v] = doing[v]
  <2>1. CASE actor
    <3>1. Do(w, <<Task("stop"), Task("clean")>>)
      BY <2>1 DEF StartStops, Stop
    <3>2. /\ Task("stop") \in TaskSet /\ Task("clean") \in TaskSet
          /\ Task("stop")[1] = "stop" /\ Task("clean")[1] = "clean"
      BY Tasks DEF Simple
    <3>3. Link("clean", Tail(doing[w])) /\ <<"stop", "clean">> \in LeadsTo
      BY <1>4, StopLinks
    <3> QED BY <1>1, <1>2, <2>1, <3>1, <3>2, <3>3, AfterTwo DEF Preparing
  <2>2. CASE ~actor
    <3>1. Return(w)
      BY <2>2 DEF StartStops, Return
    <3> QED BY <1>1, <1>2, <2>2, <3>1, AfterReturn, Followers
  <2> QED BY <2>1, <2>2
<1>6. Ready(w)'
  <2>1. ~actor => Down
    BY <1>2, NotAwaited
  <2>2. ~actor => Down'
    BY <1>3, <2>1 DEF Down
  <2> QED BY <1>5, <2>2 DEF Ready, Preparing
<1>7. Chains' /\ Turns' /\ AllReady' /\ Holders'
  <2>1. Top(w)' # "clear" /\ Top(w)' \notin Holding
    BY <1>5 DEF Preparing, Holding
  <2>2. modelLock # w
    <3>1. "start" \notin Holding
      BY DEF Holding
    <3> QED BY <1>2, <3>1, DownReady
  <2> QED BY <1>2, <1>3, <1>5, <1>6, <2>1, <2>2, WorkStep
<1>8. Thereby'
  <2>1. phase # "off" => actor
    BY <1>2, NotAwaited DEF Down
  <2> QED BY <1>1, <1>3, <2>1 DEF Thereby
<1>9. Left' /\ Sound'
  <2>1. Left' /\ AssertsHold' /\ StartFailed' = StartFailed
    BY <1>3, SameRuns
  <2> QED BY <1>1, <1>3, <2>1 DEF Sound, Equipped, Alive
<1> QED BY <1>7, <1>8, <1>9 DEF Apart

\* The start begins, under the model lock, or the peer is stopped for want of a device.
LEMMA PrepareApart ==
  ASSUME ApartInv, NEW w \in Threads, NEW name \in Preparing, At(w, name), modelLock = None,
         \/ Go(w) /\ (device' \/ ip' = Brokers)
         \/ GiveUp(w),
         UNCHANGED <<actor, phase, networkLock, peers, stack, monitor, managed, crash>>
  PROVE  Apart'
<1>1. TypeOK /\ Chains /\ Thereby /\ Sound
  BY DEF ApartInv, Apart
<1>2. name \in Starting \ {"await"} /\ name \in Final /\ name \notin Holding
  BY DEF Starting, Preparing, Final, Holding
<1>3. Down /\ Down' /\ Alive
  BY DownReady DEF Down, At
<1>4. Tail(doing[w]) = <<>>
  BY <1>1, <1>2, AtTop, LastTasks
<1>5. /\ Chain(doing'[w]) /\ Top(w)' \in {"init", "stop"}
      /\ Top(w)' = "init" => modelLock' = w /\ (device' \/ ip' = Brokers)
      /\ Top(w)' = "stop" => modelLock' = None
      /\ \A v \in Threads : v # w => doing'[v] = doing[v]
  <2>1. CASE Go(w) /\ (device' \/ ip' = Brokers)
    <3>1. Do(w, <<Task("init"), Task("await")>>) /\ modelLock' = w
      BY <2>1 DEF Go
    <3>2. /\ Task("init") \in TaskSet /\ Task("await") \in TaskSet
          /\ Task("init")[1] = "init" /\ Task("await")[1] = "await"
      BY Tasks DEF Simple
    <3>3. Link("await", Tail(doing[w])) /\ <<"init", "await">> \in LeadsTo
      BY <1>4, StopLinks
    <3> QED BY <1>1, <2>1, <3>1, <3>2, <3>3, AfterTwo
  <2>2. CASE GiveUp(w)
    <3>1. Do(w, <<Task("stop"), Task("clean")>>) /\ modelLock' = None
      BY <2>2 DEF GiveUp, Stop
    <3>2. /\ Task("stop") \in TaskSet /\ Task("clean") \in TaskSet
          /\ Task("stop")[1] = "stop" /\ Task("clean")[1] = "clean"
      BY Tasks DEF Simple
    <3>3. Link("clean", Tail(doing[w])) /\ <<"stop", "clean">> \in LeadsTo
      BY <1>4, StopLinks
    <3> QED BY <1>1, <3>1, <3>2, <3>3, AfterTwo
  <2> QED BY <2>1, <2>2
<1>6. Ready(w)'
  BY <1>3, <1>5 DEF Ready, Preparing
<1>7. Chains' /\ Turns' /\ AllReady' /\ Holders'
  <2>1. Top(w)' # "clear" /\ (modelLock' = w <=> Top(w)' \in Holding)
    BY <1>5, LifecycleAssumption DEF Holding, Threads
  <2>2. \A v \in Threads : v # w => (modelLock' = v <=> modelLock = v)
    BY <1>5, LifecycleAssumption DEF Threads
  <2> QED BY <1>2, <1>5, <1>6, <2>1, <2>2, WorkStep
<1>8. Thereby'
  BY <1>3 DEF Thereby, Down
<1>9. Left' /\ Sound'
  <2>1. Left' /\ AssertsHold' /\ StartFailed' = StartFailed
    BY <1>3, SameRuns
  <2>2. stack => StartFailed
    BY <1>3, DownLeft
  <2> QED BY <2>1, <2>2 DEF Sound, Equipped
<1> QED BY <1>7, <1>8, <1>9 DEF Apart

\* The three ways to start.
LEMMA StartsApart ==
  ASSUME ApartInv, NEW w \in Threads, Prepare(w) \/ PrepareIp(w) \/ PrepareBrokers(w)
  PROVE  Apart'
<1>1. CASE Prepare(w)
  <2>1. /\ "prepare" \in Preparing /\ At(w, "prepare") /\ modelLock = None
        /\ UNCHANGED <<actor, phase, networkLock, peers, stack, monitor, managed, crash>>
        /\ device' /\ (Go(w) \/ GiveUp(w))
    BY <1>1 DEF Prepare, Preparing, Locked, network
  <2> QED BY <2>1, PrepareApart
<1>2. CASE PrepareIp(w)
  <2>1. /\ "prepare ip" \in Preparing /\ At(w, "prepare ip") /\ modelLock = None
        /\ UNCHANGED <<actor, phase, networkLock, peers, stack, monitor, managed, crash>>
        /\ (Go(w) /\ device') \/ GiveUp(w)
    BY <1>2 DEF PrepareIp, Preparing, Locked, network, watch
  <2> QED BY <2>1, PrepareApart
<1>3. CASE PrepareBrokers(w)
  <2>1. /\ "prepare brokers" \in Preparing /\ At(w, "prepare brokers") /\ modelLock = None
        /\ UNCHANGED <<actor, phase, networkLock, peers, stack, monitor, managed, crash>>
        /\ Go(w) /\ ip' = Brokers
    BY <1>3 DEF PrepareBrokers, Preparing, Locked, network, watch
  <2> QED BY <2>1, PrepareApart
<1> QED BY <1>1, <1>2, <1>3

\* s_init_loop finds nothing of a run before it: its asserts hold.
LEMMA InitLoopApart ==
  ASSUME ApartInv, NEW w \in Threads, InitLoop(w)
  PROVE  Apart'
<1>1. TypeOK /\ Chains /\ Turns /\ Thereby /\ AllReady /\ Holders /\ Left /\ Sound
  BY DEF ApartInv, Apart
<1>2. /\ At(w, "init") /\ "init" \in Starting \ {"await"} /\ "init" \in Holding /\ networkLock = None
      /\ UNCHANGED <<actor, loop, peers, networkLock, device, ip, monitor, managed, modelLock>>
  BY DEF InitLoop, Starting, Holding, watch
<1>3. Down /\ (device \/ ip = Brokers) /\ modelLock = w /\ Alive
  BY <1>2, DownReady DEF Preparing, At
<1>4. ~stack
  <2>1. ~StartFailed
    BY <1>2, LifecycleAssumption DEF StartFailed
  <2> QED BY <1>3, <2>1, DownLeft
<1>5. stack' /\ phase' = "boot" /\ Return(w) /\ UNCHANGED crash
  BY <1>4 DEF InitLoop
<1>6. /\ Chain(doing'[w]) /\ Top(w)' = "await"
      /\ \A v \in Threads : v # w => doing'[v] = doing[v]
  BY <1>1, <1>2, <1>5, AfterReturn, Followers
<1>7. Ready(w)'
  <2>1. ~actor' /\ phase' # "off" /\ (device' \/ ip' = Brokers)
    BY <1>2, <1>3, <1>5 DEF Down
  <2> QED BY <1>6, <2>1 DEF Ready, Preparing
<1>8. Chains' /\ Turns' /\ AllReady' /\ Holders'
  <2>1. Top(w)' # "clear" /\ (modelLock' = w <=> Top(w)' \in Holding)
    BY <1>2, <1>3, <1>6 DEF Holding
  <2> QED BY <1>2, <1>6, <1>7, <2>1, WorkStep
<1>9. Thereby' /\ Left' /\ Sound'
  <2>1. Thereby'
    BY <1>5, <1>6 DEF Thereby, Awaited
  <2>2. ~peers
    BY <1>3, DownLeft
  <2>3. Left'
    BY <1>2, <1>5, <2>2 DEF Left, Runs
  <2>4. AssertsHold'
    BY <1>3, <1>5, LifecycleAssumption DEF AssertsHold, Alive
  <2>5. Equipped'
    BY <1>2, <1>3 DEF Equipped
  <2> QED BY <2>1, <2>3, <2>4, <2>5 DEF Sound
<1> QED BY <1>8, <1>9 DEF Apart

\* zactor_new returns: from now on the peer has a network actor.
LEMMA AwaitApart ==
  ASSUME ApartInv, NEW w \in Threads, Await(w)
  PROVE  Apart'
<1>1. TypeOK /\ Chains /\ Left
  BY DEF ApartInv, Apart
<1>2. /\ At(w, "await") /\ "await" \in Starting /\ "await" \in Holding /\ "await" \in Final
      /\ Return(w) /\ actor' = TRUE /\ modelLock' = None /\ Alive
      /\ UNCHANGED <<phase, peers, stack, networkLock, device, ip, monitor, managed, crash>>
  BY DEF Await, Starting, Holding, Final, watch, network, At
<1>3. ~actor /\ phase # "off" /\ (device \/ ip = Brokers) /\ modelLock = w
  BY <1>2, DownReady
<1>4. /\ Chain(doing'[w]) /\ Top(w)' = "nothing"
      /\ \A v \in Threads : v # w => doing'[v] = doing[v]
  BY <1>1, <1>2, AfterReturn, Followers
<1>5. Ready(w)'
  BY <1>4 DEF Ready, Preparing
<1>6. Chains' /\ Turns' /\ AllReady' /\ Holders'
  <2>1. Top(w)' # "clear" /\ (modelLock' = w <=> Top(w)' \in Holding)
    BY <1>2, <1>4, LifecycleAssumption DEF Holding, Threads
  <2>2. \A v \in Threads : v # w => (modelLock' = v <=> modelLock = v)
    BY <1>2, <1>3, LifecycleAssumption DEF Threads
  <2> QED BY <1>2, <1>4, <1>5, <2>1, <2>2, WorkStep
<1>7. Left' /\ AssertsHold' /\ StartFailed' = StartFailed
  BY <1>2, SameRuns
<1>8. Thereby' /\ Sound'
  BY <1>2, <1>3, <1>7 DEF Thereby, Sound, Equipped
<1> QED BY <1>6, <1>7, <1>8 DEF Apart

\* zactor_destroy sends $TERM, or there is no actor.
LEMMA StopActorApart ==
  ASSUME ApartInv, NEW w \in Threads, StopActor(w)
  PROVE  Apart'
<1>1. TypeOK /\ Chains /\ Thereby /\ AllReady /\ Holders /\ Turns /\ Sound
  BY DEF ApartInv, Apart
<1>2. /\ At(w, "stop") /\ "stop" \in Starting \ {"await"} /\ "stop" \notin Holding /\ Alive
      /\ UNCHANGED <<actor, phase, peers, stack, networkLock, device, ip, monitor, managed, modelLock>>
  BY DEF StopActor, WithoutLock, Starting, Holding, At, watch
<1>3. modelLock # w
  BY <1>2, DownReady
<1>4. Thereby' 
  <2>1. phase # "off" => actor
    BY <1>2, NotAwaited DEF Down
  <2> QED BY <1>1, <1>2, <2>1 DEF Thereby
<1>5. CASE UNCHANGED crash /\ ((~actor /\ Return(w)) \/ (actor /\ Do(w, <<Task("join")>>)))
  <2>1. /\ Chain(doing'[w])
        /\ (Top(w)' = "clean" /\ ~actor) \/ (Top(w)' = "join" /\ actor)
        /\ \A v \in Threads : v # w => doing'[v] = doing[v]
    <3>1. CASE ~actor /\ Return(w)
      BY <1>1, <1>2, <1>5, <3>1, AfterReturn, Followers
    <3>2. CASE actor /\ Do(w, <<Task("join")>>)
      <4>1. Task("join") \in TaskSet /\ Task("join")[1] = "join"
        BY Tasks DEF Simple
      <4>2. Link("join", Tail(doing[w]))
        BY <1>1, <1>2, AtTop, StopLinks
      <4> QED BY <1>1, <1>2, <3>2, <4>1, <4>2, AfterOne
    <3> QED BY <1>5, <3>1, <3>2
  <2>2. Ready(w)'
    <3>1. ~actor => Down'
      BY <1>2, NotAwaited DEF Down
    <3> QED BY <1>2, <2>1, <3>1 DEF Ready, Preparing
  <2>3. Chains' /\ Turns' /\ AllReady' /\ Holders'
    <3>1. Top(w)' # "clear" /\ (modelLock' = w <=> Top(w)' \in Holding)
      BY <1>2, <1>3, <2>1 DEF Holding
    <3> QED BY <1>2, <2>1, <2>2, <3>1, WorkStep
  <2>4. Left' /\ AssertsHold' /\ StartFailed' = StartFailed
    BY <1>2, <1>5, SameRuns
  <2>5. Sound'
    BY <1>1, <1>2, <1>5, <2>4 DEF Sound, Equipped, Alive
  <2> QED BY <1>4, <2>3, <2>4, <2>5 DEF Apart
<1>6. CASE crash' = "two stops" /\ UNCHANGED doing
  <2>1. Chains' /\ Turns' /\ AllReady' /\ Holders'
    BY <1>1, <1>2, <1>6 DEF Chains, Turns, AllReady, Holders, Ready, Top, Busy, Down
  <2>2. StartFailed' = StartFailed
    BY <1>2 DEF StartFailed
  <2>3. Left' /\ AssertsHold'
    BY <1>2, <1>6, <2>2 DEF ApartInv, Apart, Left, AssertsHold
  <2>4. Equipped'
    BY <1>1, <1>2, <2>2 DEF Sound, Equipped, Alive
  <2> QED BY <1>4, <2>1, <2>3, <2>4 DEF Apart, Sound
<1> QED BY <1>5, <1>6 DEF StopActor

\* The thread of the network has ended: the peer is stopped.
LEMMA JoinApart ==
  ASSUME ApartInv, NEW w \in Threads, Join(w)
  PROVE  Apart'
<1>1. TypeOK /\ Chains /\ Holders /\ Left /\ Sound
  BY DEF ApartInv, Apart
<1>2. /\ At(w, "join") /\ "join" \in Starting \ {"await"} /\ "join" \notin Holding /\ Alive
      /\ phase = "ended" /\ phase' = "off" /\ ~actor' /\ Return(w)
      /\ UNCHANGED <<peers, stack, networkLock, device, ip, monitor, managed, crash>>
  BY DEF Join, Starting, Holding, At, watch
<1>3. modelLock # w
  BY <1>2, DownReady
<1>4. modelLock' = modelLock
  BY <1>3 DEF Join
<1>5. /\ Chain(doing'[w]) /\ Top(w)' = "clean"
      /\ \A v \in Threads : v # w => doing'[v] = doing[v]
  BY <1>1, <1>2, AfterReturn, Followers
<1>6. Down'
  BY <1>2 DEF Down
<1>7. Ready(w)'
  BY <1>5, <1>6 DEF Ready, Preparing
<1>8. Chains' /\ Turns' /\ AllReady' /\ Holders'
  <2>1. Top(w)' # "clear" /\ (modelLock' = w <=> Top(w)' \in Holding)
    BY <1>3, <1>4, <1>5 DEF Holding
  <2> QED BY <1>2, <1>4, <1>5, <1>7, <2>1, WorkStep
<1>9. StartFailed' = StartFailed
  BY <1>2 DEF StartFailed
<1>10. Left' /\ AssertsHold'
  <2>1. phase \notin Runs /\ phase \notin {"run", "message", "timer", "leave", "purge"}
    BY <1>2 DEF Runs
  <2>2. crash' # "assert"
    BY <1>2, LifecycleAssumption DEF Alive
  <2> QED BY <1>1, <1>2, <1>9, <2>1, <2>2 DEF Left, AssertsHold
<1>11. Thereby' /\ Equipped'
  BY <1>1, <1>2, <1>4, <1>6, <1>9 DEF Thereby, Down, Sound, Equipped, Alive
<1> QED BY <1>8, <1>10, <1>11 DEF Apart, Sound

\* The device and the address of the stopped peer are forgotten.
LEMMA CleanApart ==
  ASSUME ApartInv, NEW w \in Threads, Clean(w)
  PROVE  Apart'
<1>1. TypeOK /\ Chains /\ Holders /\ Left /\ Sound
  BY DEF ApartInv, Apart
<1>2. /\ At(w, "clean") /\ "clean" \in Starting \ {"await"} /\ "clean" \notin Holding /\ Alive
      /\ modelLock = None /\ Return(w)
      /\ UNCHANGED <<actor, phase, peers, stack, networkLock, monitor, managed, modelLock, crash>>
  BY DEF Clean, Locked, Starting, Holding, At, watch, network
<1>3. Down /\ Down'
  BY <1>2, DownReady DEF Down
<1>4. /\ Chain(doing'[w]) /\ Top(w)' \in Preparing \cup {"start", "no monitor", "nothing"}
      /\ \A v \in Threads : v # w => doing'[v] = doing[v]
  BY <1>1, <1>2, AfterReturn, Followers
<1>5. Ready(w)'
  BY <1>3, <1>4 DEF Ready, Preparing
<1>6. Chains' /\ Turns' /\ AllReady' /\ Holders'
  <2>1. Top(w)' # "clear" /\ Top(w)' \notin Holding /\ modelLock' # w
    BY <1>2, <1>4, LifecycleAssumption DEF Holding, Preparing, Threads
  <2> QED BY <1>2, <1>4, <1>5, <2>1, WorkStep
<1>7. Left' /\ AssertsHold' /\ StartFailed' = StartFailed
  BY <1>2, SameRuns
<1>8. stack => StartFailed
  BY <1>3, DownLeft
<1>9. Thereby' /\ Equipped'
  BY <1>2, <1>3, <1>7, <1>8 DEF Thereby, Down, Equipped
<1> QED BY <1>6, <1>7, <1>9 DEF Apart, Sound

\* Every step of a start or a stop.
LEMMA ThreadApart ==
  ASSUME ApartInv, NEW w \in Threads, Thread(w)
  PROVE  Apart'
BY StartStopsApart, StartsApart, InitLoopApart, AwaitApart, StopActorApart, JoinApart, CleanApart DEF Thread

-----------------------------------------------------------------------------
\* What starts and stops look at, but for what threads have left to do.
startVars == <<actor, phase, stack, peers, networkLock, device, ip>>

\* A call of the application, or a check of the monitor, begins, goes on or ends.
LEMMA CallStep ==
  ASSUME ApartInv, NEW w \in Threads, Alive, UNCHANGED startVars,
         \A v \in Threads : v # w => doing'[v] = doing[v],
         Chain(doing'[w]), Ready(w)', Turns', Top(w) # "await",
         modelLock' = w <=> Top(w)' \in Holding,
         \A v \in Threads : v # w => (modelLock' = v <=> modelLock = v),
         crash' = "assert" => StartFailed
  PROVE  Apart'
<1>1. TypeOK /\ Chains /\ Thereby /\ AllReady /\ Holders /\ Left /\ Sound
  BY DEF ApartInv, Apart
<1>2. UNCHANGED <<actor, phase, stack, peers, networkLock, device, ip>>
  BY DEF startVars
<1>3. ASSUME NEW v \in Threads, v # w
      PROVE  Chain(doing'[v]) /\ Top(v)' = Top(v) /\ Ready(v)' /\ (modelLock' = v <=> Top(v)' \in Holding)
  <2>1. doing'[v] = doing[v]
    BY <1>3
  <2>2. Top(v)' = Top(v)
    BY <2>1 DEF Top
  <2>3. Ready(v)
    BY <1>1 DEF AllReady
  <2>4. Ready(v)'
    BY <1>2, <2>1, <2>2, <2>3 DEF Ready, Down
  <2>5. modelLock' = v <=> Top(v)' \in Holding
    BY <1>1, <1>3, <2>2 DEF Holders
  <2> QED BY <1>1, <2>1, <2>2, <2>4, <2>5 DEF Chains
<1>4. Chains' /\ AllReady' /\ Holders'
  BY <1>3 DEF Chains, AllReady, Holders
<1>5. Thereby'
  <2>1. Awaited => \E v \in Threads : v # w /\ Top(v)' = "await"
    BY <1>3 DEF Awaited
  <2>2. Awaited => Awaited'
    BY <2>1 DEF Awaited
  <2> QED BY <1>1, <1>2, <2>2 DEF Thereby
<1>6. StartFailed' = StartFailed
  BY <1>2 DEF StartFailed
<1>7. Left' /\ Sound'
  BY <1>1, <1>2, <1>6 DEF Left, Sound, AssertsHold, Equipped
<1> QED BY <1>4, <1>5, <1>7 DEF Apart

\* Calls that neither start nor stop: one task, or one that another takes the place of.
Plain == {"is started", "ask", "timer", "new timer", "monitor", "manage"}

\* A stack with at most one task is not longer.
LEMMA AtMostOne == \A n \in {0, 1} : ~(n > 1)
  OBVIOUS

\* Such a call goes on or ends.
LEMMA PlainCall ==
  ASSUME ApartInv, NEW name \in Plain, At(User, name), UNCHANGED startVars, crash' # "assert",
         \/ Return(User) \/ UNCHANGED doing
         \/ \E t \in TaskSet : t[1] \in {"ask", "new timer"} /\ Do(User, <<t>>),
         modelLock' = User <=> Top(User)' = "ask",
         modelLock' = Mon <=> modelLock = Mon
  PROVE  Apart'
<1>1. TypeOK /\ Chains /\ Turns /\ User \in Threads /\ doing \in [Threads -> Seq(TaskSet)]
  BY DEF ApartInv, Apart, TypeOK, Threads
<1>2. name \in Final /\ name # "await" /\ name \notin Starting
  BY DEF Plain, Final, Starting, Preparing
<1>3. Tail(doing[User]) = <<>> /\ Len(doing[User]) = 1 /\ Top(User) = name
  BY <1>1, <1>2, AtTop, LastTasks
<1>4. /\ Chain(doing'[User]) /\ Top(User)' \in Plain \cup {"nothing"}
      /\ \A v \in Threads : v # User => doing'[v] = doing[v]
      /\ ~(Len(doing'[User]) > 1)
  <2>1. CASE Return(User)
    <3>1. /\ Chain(doing'[User]) /\ Top(User)' = "nothing" /\ doing'[User] = <<>>
          /\ \A v \in Threads : v # User => doing'[v] = doing[v]
      BY <1>1, <1>2, <2>1, AfterReturn, Followers
    <3>2. Len(<<>>) = 0
      OBVIOUS
    <3>3. ~(Len(doing'[User]) > 1)
      BY <3>1, <3>2, AtMostOne
    <3> QED BY <3>1, <3>3
  <2>2. CASE UNCHANGED doing
    <3>1. doing' = doing /\ Top(User)' = Top(User)
      BY <2>2 DEF Top
    <3>2. Chain(doing[User]) /\ ~(Len(doing[User]) > 1)
      BY <1>1, <1>3, AtMostOne DEF Chains
    <3> QED BY <1>3, <3>1, <3>2
  <2>3. CASE \E t \in TaskSet : t[1] \in {"ask", "new timer"} /\ Do(User, <<t>>)
    <3>1. PICK t \in TaskSet : t[1] \in {"ask", "new timer"} /\ Do(User, <<t>>)
      BY <2>3
    <3>2. Link(t[1], Tail(doing[User]))
      BY <1>3, <3>1, StopLinks
    <3>3. /\ Chain(doing'[User]) /\ Top(User)' = t[1] /\ Len(doing'[User]) = 1
          /\ \A v \in Threads : v # User => doing'[v] = doing[v]
      BY <1>1, <1>3, <3>1, <3>2, AfterOne
    <3>4. ~(Len(doing'[User]) > 1)
      BY <3>3, AtMostOne
    <3>5. Top(User)' \in Plain
      BY <3>1, <3>3 DEF Plain
    <3> QED BY <3>3, <3>4, <3>5
  <2> QED BY <2>1, <2>2, <2>3
<1>5. ~Busy(User)' /\ Top(User)' # "clear"
  <2>1. Plain \cap Starting = {} /\ "nothing" \notin Starting /\ "clear" \in Starting
    BY DEF Plain, Starting, Preparing
  <2> QED BY <1>4, <2>1 DEF Busy
<1>6. Turns'
  BY <1>5 DEF Turns
<1>7. Ready(User)'
  BY <1>5 DEF Busy, Ready, Starting
<1>8. modelLock' = User <=> Top(User)' \in Holding
  BY <1>4 DEF Plain, Holding
<1>9. \A v \in Threads : v # User => (modelLock' = v <=> modelLock = v)
  BY DEF Threads
<1>10. Alive
  BY DEF At
<1> QED BY <1>1, <1>2, <1>3, <1>4, <1>6, <1>7, <1>8, <1>9, <1>10, CallStep

\* igs_is_started, timers, and calls about the monitor that leave it on.
LEMMA PlainCallsApart ==
  ASSUME ApartInv, \/ Ask(User) \/ Asked(User) \/ TimerAsked(User) \/ StartTimer(User) \/ StopTimer(User)
                   \/ StartMonitor(User) \/ Manage(User)
  PROVE  Apart'
<1>1. TypeOK /\ Chains /\ User \in Threads /\ User # Mon /\ User # None
  BY LifecycleAssumption DEF ApartInv, Apart, Threads
<1>2. None # "assert"
  BY LifecycleAssumption
<1>3. \A name : At(User, name) => (modelLock = User <=> name \in Holding) /\ crash = None
  BY <1>1, DownReady DEF At, Alive
<1>4. \A name : At(User, name) /\ Return(User) /\ name \in Plain => Top(User)' = "nothing"
  <2>1. Plain \subseteq Final
    BY DEF Plain, Final
  <2> QED BY <1>1, <2>1, AfterReturn, Followers
<1>5. \A name \in Plain, t \in TaskSet :
        At(User, name) /\ Do(User, <<t>>) /\ t[1] \in {"ask", "new timer"} => Top(User)' = t[1]
  <2> SUFFICES ASSUME NEW name \in Plain, NEW t \in TaskSet,
                      At(User, name), Do(User, <<t>>), t[1] \in {"ask", "new timer"}
               PROVE  Top(User)' = t[1]
    OBVIOUS
  <2>1. name \in Final
    BY DEF Plain, Final
  <2>2. Tail(doing[User]) = <<>>
    BY <1>1, <2>1, AtTop, LastTasks
  <2>3. Link(t[1], Tail(doing[User]))
    BY <2>2, StopLinks
  <2> QED BY <1>1, <2>3, AfterOne
<1>6. CASE Ask(User)
  <2>1. /\ At(User, "is started") /\ modelLock = None /\ modelLock' = User
        /\ UNCHANGED startVars /\ crash' = crash /\ Do(User, <<Task("ask")>>)
    BY <1>6 DEF Ask, Locked, startVars, network
  <2>2. Task("ask") \in TaskSet /\ Task("ask")[1] = "ask" /\ "is started" \in Plain
    BY Tasks DEF Simple, Plain
  <2>3. Top(User)' = "ask"
    BY <1>5, <2>1, <2>2
  <2>4. modelLock' = User <=> Top(User)' = "ask"
    BY <2>1, <2>3
  <2>5. modelLock' = Mon <=> modelLock = Mon
    BY <1>1, <2>1, LifecycleAssumption
  <2> QED BY <1>2, <1>3, <2>1, <2>2, <2>4, <2>5, PlainCall
<1>7. CASE Asked(User)
  <2>1. /\ At(User, "ask") /\ modelLock' = None /\ "ask" \in Plain /\ "ask" \in Holding
        /\ UNCHANGED startVars /\ crash' = crash /\ Return(User)
    BY <1>7 DEF Asked, startVars, network, Plain, Holding
  <2>2. Top(User)' = "nothing" /\ modelLock = User
    BY <1>3, <1>4, <2>1
  <2>3. modelLock' = User <=> Top(User)' = "ask"
    BY <1>1, <2>1, <2>2
  <2>4. modelLock' = Mon <=> modelLock = Mon
    BY <1>1, <2>1, <2>2, LifecycleAssumption
  <2> QED BY <1>2, <1>3, <2>1, <2>3, <2>4, PlainCall
<1>8. ASSUME NEW name \in Plain \ {"ask"}, At(User, name), UNCHANGED startVars, crash' # "assert",
             UNCHANGED modelLock,
             \/ Return(User) \/ UNCHANGED doing
             \/ \E t \in TaskSet : t[1] = "new timer" /\ Do(User, <<t>>)
      PROVE  Apart'
  <2>1. modelLock # User
    BY <1>3, <1>8 DEF Plain, Holding
  <2>2. Top(User)' # "ask"
    <3>1. CASE Return(User)
      BY <1>4, <1>8, <3>1
    <3>2. CASE UNCHANGED doing
      BY <1>1, <1>8, <3>2, AtTop DEF Top
    <3>3. CASE \E t \in TaskSet : t[1] = "new timer" /\ Do(User, <<t>>)
      BY <1>5, <1>8, <3>3
    <3> QED BY <1>8, <3>1, <3>2, <3>3
  <2>3. \/ Return(User) \/ UNCHANGED doing
        \/ \E t \in TaskSet : t[1] \in {"ask", "new timer"} /\ Do(User, <<t>>)
    BY <1>8
  <2> QED BY <1>8, <2>1, <2>2, <2>3, PlainCall
<1>9. CASE TimerAsked(User)
  <2>1. /\ At(User, "timer") /\ "timer" \in Plain \ {"ask"} /\ UNCHANGED startVars /\ UNCHANGED <<crash, modelLock>>
    BY <1>9 DEF TimerAsked, startVars, network, Plain
  <2>2. Do(User, <<<<"new timer", Head(doing[User])[2]>>>>) \/ Return(User)
    BY <1>9 DEF TimerAsked, Return
  <2>3. <<"new timer", Head(doing[User])[2]>> \in TaskSet
    BY <1>1, <2>1, TopTask, TaskArguments
  <2>4. Return(User) \/ \E t \in TaskSet : t[1] = "new timer" /\ Do(User, <<t>>)
    BY <2>2, <2>3
  <2> QED BY <1>2, <1>3, <1>8, <2>1, <2>4
<1>10. CASE StartTimer(User) \/ StopTimer(User)
  <2>1. /\ At(User, "new timer") /\ "new timer" \in Plain \ {"ask"} /\ UNCHANGED startVars
        /\ UNCHANGED modelLock
    BY <1>10 DEF StartTimer, StopTimer, Locked, startVars, network, Plain
  <2>2. (Return(User) /\ crash' = crash) \/ (UNCHANGED doing /\ crash' = "no loop")
    BY <1>10 DEF StartTimer, StopTimer
  <2> QED BY <1>2, <1>3, <1>8, <2>1, <2>2
<1>11. CASE StartMonitor(User)
  <2>1. /\ At(User, "monitor") /\ "monitor" \in Plain \ {"ask"} /\ UNCHANGED startVars
        /\ UNCHANGED <<crash, modelLock>> /\ Return(User)
    BY <1>11 DEF StartMonitor, Locked, startVars, network, Plain
  <2> QED BY <1>2, <1>3, <1>8, <2>1
<1>12. CASE Manage(User)
  <2>1. /\ At(User, "manage") /\ "manage" \in Plain \ {"ask"} /\ UNCHANGED startVars
        /\ UNCHANGED <<crash, modelLock>> /\ Return(User)
    BY <1>12 DEF Manage, Locked, startVars, network, Plain
  <2> QED BY <1>2, <1>3, <1>8, <2>1
<1> QED BY <1>6, <1>7, <1>9, <1>10, <1>11, <1>12

\* igs_monitor_stop returns when no check goes on; igs_clear_context may follow.
LEMMA StopMonitorApart ==
  ASSUME ApartInv, StopMonitor(User)
  PROVE  Apart'
<1>1. TypeOK /\ Chains /\ Turns /\ User \in Threads /\ User # Mon
  BY LifecycleAssumption DEF ApartInv, Apart, Threads
<1>2. /\ At(User, "no monitor") /\ modelLock = None /\ doing[Mon] = <<>> /\ monitor' = None
      /\ Return(User) /\ UNCHANGED startVars /\ UNCHANGED <<crash, modelLock>> /\ Alive
  BY DEF StopMonitor, Locked, At, startVars, network
<1>3. /\ Chain(doing'[User]) /\ Top(User)' \in {"clear", "nothing"}
      /\ \A v \in Threads : v # User => doing'[v] = doing[v]
  BY <1>1, <1>2, AfterReturn, Followers
<1>4. Turns'
  <2>1. doing'[Mon] = <<>>
    BY <1>1, <1>2, <1>3 DEF Threads
  <2> QED BY <1>2, <2>1 DEF Turns
<1>5. Ready(User)'
  <2>1. CASE Tail(doing[User]) = <<>>
    <3>1. doing'[User] = <<>>
      <4>1. doing[User] # <<>>
        BY <1>1, <1>2, AtTop
      <4>2. <<>> \in Seq(TaskSet) /\ Do(User, <<>>)
        BY <1>2, StacksTyped DEF Return
      <4>3. doing'[User] = <<>> \o Tail(doing[User])
        BY <1>1, <4>1, <4>2, DoTyped
      <4> QED BY <2>1, <4>3
    <3>2. Top(User)' = "nothing"
      BY <3>1 DEF Top
    <3> QED BY <3>2 DEF Ready, Preparing
  <2>2. CASE Tail(doing[User]) # <<>>
    <3>1. Len(doing[User]) > 1
      <4>1. doing[User] \in Seq(TaskSet) /\ doing[User] # <<>>
        BY <1>1, <1>2, AtTop DEF TypeOK
      <4> QED BY <2>2, <4>1
    <3>2. Down
      BY <1>1, <1>2, <3>1, DownReady
    <3>3. Down'
      BY <1>2, <3>2 DEF Down, startVars
    <3> QED BY <1>3, <3>3 DEF Ready, Preparing
  <2> QED BY <2>1, <2>2
<1>6. Top(User) # "await"
  <2>1. Top(User) = "no monitor"
    BY <1>1, <1>2, AtTop
  <2> QED BY <2>1
<1>7. /\ modelLock' = User <=> Top(User)' \in Holding
      /\ \A v \in Threads : v # User => (modelLock' = v <=> modelLock = v)
  BY <1>1, <1>2, <1>3, LifecycleAssumption DEF Holding
<1>8. crash' # "assert"
  BY <1>2, LifecycleAssumption DEF Alive
<1> QED BY <1>1, <1>2, <1>3, <1>4, <1>5, <1>6, <1>7, <1>8, CallStep

\* igs_clear_context finds nothing of a run: its asserts hold.
LEMMA ClearContextApart ==
  ASSUME ApartInv, ClearContext(User)
  PROVE  Apart'
<1>1. TypeOK /\ Chains /\ Turns /\ User \in Threads /\ User # Mon
  BY LifecycleAssumption DEF ApartInv, Apart, Threads
<1>2. /\ At(User, "clear") /\ modelLock = None /\ Alive /\ "clear" \in Starting /\ "clear" \in Final
      /\ UNCHANGED startVars /\ UNCHANGED <<modelLock, monitor>>
  BY DEF ClearContext, Locked, At, startVars, network, Starting, Final
<1>3. Down /\ Down'
  BY <1>1, <1>2, DownReady DEF Down, startVars
<1>4. (stack => StartFailed) /\ ~loop /\ ~peers /\ listed = {}
  BY <1>3, DownLeft
<1>5. Top(User) = "clear" /\ monitor = None
  BY <1>1, <1>2, AtTop DEF Turns
<1>6. CASE Cleared
  <2>1. Return(User) /\ managed' = FALSE /\ UNCHANGED crash
    BY <1>6 DEF ClearContext
  <2>2. /\ Chain(doing'[User]) /\ Top(User)' = "nothing"
        /\ \A v \in Threads : v # User => doing'[v] = doing[v]
    BY <1>1, <1>2, <2>1, AfterReturn, Followers
  <2>3. Turns'
    <3>1. doing[Mon] = <<>>
      BY <1>1, <1>2, <1>5 DEF Turns, Busy
    <3>2. doing'[Mon] = <<>>
      BY <1>1, <2>2, <3>1 DEF Threads
    <3> QED BY <2>1, <2>2, <3>2 DEF Turns
  <2>4. Ready(User)'
    BY <2>2 DEF Ready, Preparing
  <2>5. /\ modelLock' = User <=> Top(User)' \in Holding
        /\ \A v \in Threads : v # User => (modelLock' = v <=> modelLock = v)
    BY <1>1, <1>2, <2>2, LifecycleAssumption DEF Holding
  <2>6. crash' # "assert"
    BY <1>2, <2>1, LifecycleAssumption DEF Alive
  <2> QED BY <1>1, <1>2, <1>5, <2>2, <2>3, <2>4, <2>5, <2>6, CallStep
<1>7. CASE ~Cleared
  <2>1. StartFailed
    BY <1>3, <1>4, <1>5, <1>7 DEF Cleared, Down
  <2>2. UNCHANGED <<managed, doing>>
    BY <1>7 DEF ClearContext
  <2>3. doing' = doing /\ Top(User)' = Top(User)
    BY <2>2 DEF Top
  <2>4. Chain(doing'[User]) /\ Ready(User)' /\ Turns'
    <3>1. Chain(doing[User])
      BY <1>1 DEF Chains
    <3>2. Ready(User)'
      BY <1>3, <1>5, <2>3 DEF Ready
    <3>3. Turns'
      BY <1>1, <1>2, <2>2, <2>3 DEF Turns, Busy
    <3> QED BY <2>3, <3>1, <3>2, <3>3
  <2>5. /\ modelLock' = User <=> Top(User)' \in Holding
        /\ \A v \in Threads : v # User => (modelLock' = v <=> modelLock = v)
    BY <1>1, <1>2, <1>5, <2>3, LifecycleAssumption DEF Holding
  <2> QED BY <1>1, <1>2, <1>5, <2>1, <2>3, <2>4, <2>5, CallStep
<1> QED BY <1>6, <1>7

-----------------------------------------------------------------------------
\* The stacks that calls and checks begin with are chains.
LEMMA OthersSingle ==
  ASSUME NEW c \in Others
  PROVE  \E t \in TaskSet :
           c = <<t>> /\ t[1] \in {"is started", "timer", "no monitor", "monitor", "manage"}
<1>1. Task("is started") \in TaskSet /\ Task("timer") \in TaskSet /\ Task("no monitor") \in TaskSet
  BY Tasks DEF Simple
<1>2. /\ Task("is started")[1] = "is started" /\ Task("timer")[1] = "timer"
      /\ Task("no monitor")[1] = "no monitor"
  BY DEF Task
<1> QED BY <1>1, <1>2, Tasks DEF Others

\* What the monitor does begins with a stop.
LEMMA StopFirst == Head(Stop)[1] = "stop" /\ Head(Stop \o Start)[1] = "stop"
<1>1. Head(Stop) = Task("stop") /\ Head(Stop \o Start) = Task("stop")
  BY DEF Stop, Start
<1>2. Task("stop")[1] = "stop"
  BY DEF Task
<1> QED BY <1>1, <1>2

\* One task that may be the last is a chain.
LEMMA Singletons ==
  ASSUME NEW t \in TaskSet, t[1] \notin Continued
  PROVE  Chain(<<t>>)
BY DEF Chain

\* So are the stacks of starts and stops.
LEMMA ChainsBegun ==
  /\ Chain(Stop) /\ Chain(Start) /\ Chain(Stop \o Start) /\ Chain(<<>>)
  /\ \A s \in Stops : Chain(s) /\ s # <<>> /\ Head(s)[1] \in {"start", "stop"}
<1>1. Chain(<<>>) /\ <<>> \in Seq(TaskSet)
  BY DEF Chain
<1>2. \A name \in Simple : Task(name) \in TaskSet /\ Task(name)[1] = name
  BY Tasks
<1>3. ASSUME NEW t \in TaskSet, NEW u \in TaskSet, <<t[1], u[1]>> \in LeadsTo, u[1] \notin Continued
      PROVE  Chain(<<t, u>>) /\ <<t, u>> # <<>> /\ Head(<<t, u>>) = t
  <2>1. Link(u[1], <<>>)
    BY <1>3 DEF Link
  <2>2. Chain(<<t, u>> \o <<>>)
    BY <1>1, <1>3, <2>1, PushTwo
  <2>3. <<t, u>> \o <<>> = <<t, u>>
    OBVIOUS
  <2> QED BY <2>2, <2>3
<1>4. Chain(Stop) /\ Stop # <<>> /\ Head(Stop)[1] = "stop"
  BY <1>2, <1>3 DEF Stop, Simple, LeadsTo, Continued
<1>5. Chain(Start) /\ Start # <<>> /\ Head(Start)[1] = "start"
  BY <1>2, <1>3 DEF Start, Simple, LeadsTo, Continued, Preparing
<1>6. Chain(StartWithBrokers) /\ StartWithBrokers # <<>> /\ Head(StartWithBrokers)[1] = "start"
  BY <1>2, <1>3 DEF StartWithBrokers, Simple, LeadsTo, Continued, Preparing
<1>7. ASSUME NEW a \in Addresses
      PROVE  Chain(StartWithIp(a)) /\ StartWithIp(a) # <<>> /\ Head(StartWithIp(a))[1] = "start"
  <2>1. <<"prepare ip", a>> \in TaskSet
    BY Tasks
  <2> QED BY <1>2, <1>3, <2>1 DEF StartWithIp, Simple, LeadsTo, Continued, Preparing
<1>8. ASSUME NEW r \in Seq(TaskSet), Chain(r), Link("clean", r)
      PROVE  Chain(Stop \o r) /\ Stop \o r # <<>> /\ Head(Stop \o r)[1] = "stop"
  <2>1. /\ Task("stop") \in TaskSet /\ Task("clean") \in TaskSet
        /\ Task("stop")[1] = "stop" /\ Task("clean")[1] = "clean"
    BY <1>2 DEF Simple
  <2>2. <<"stop", "clean">> \in LeadsTo
    BY StopLinks
  <2> QED BY <1>8, <2>1, <2>2, PushTwo DEF Stop
<1>9. Chain(Stop \o Start)
  <2>1. Start \in Seq(TaskSet)
    BY StacksTyped
  <2>2. Link("clean", Start)
    BY <1>5 DEF Link, LeadsTo
  <2> QED BY <1>5, <1>8, <2>1, <2>2
<1>10. LET r == <<Task("no monitor"), Task("clear")>> IN
         Chain(Stop \o r) /\ Stop \o r # <<>> /\ Head(Stop \o r)[1] = "stop"
  <2> DEFINE r == <<Task("no monitor"), Task("clear")>>
  <2>1. /\ Task("no monitor") \in TaskSet /\ Task("clear") \in TaskSet
        /\ Task("no monitor")[1] = "no monitor" /\ Task("clear")[1] = "clear"
    BY <1>2 DEF Simple
  <2>2. <<"no monitor", "clear">> \in LeadsTo /\ "clear" \notin Continued
    BY DEF LeadsTo, Continued
  <2>3. Chain(r) /\ r # <<>> /\ Head(r)[1] = "no monitor" /\ r \in Seq(TaskSet)
    <3>1. Chain(r) /\ r # <<>> /\ Head(r) = Task("no monitor")
      BY <1>3, <2>1, <2>2
    <3>2. r \in Seq(TaskSet)
      <4>1. \A t \in TaskSet : \A u \in TaskSet : <<t, u>> \in Seq(TaskSet)
        OBVIOUS
      <4> QED BY <2>1, <4>1
    <3> QED BY <2>1, <3>1, <3>2
  <2> HIDE DEF r
  <2>4. Link("clean", r)
    BY <2>3 DEF Link, LeadsTo
  <2>5. Chain(Stop \o r) /\ Stop \o r # <<>> /\ Head(Stop \o r)[1] = "stop"
    BY <1>8, <2>3, <2>4
  <2> QED BY <2>5 DEF r
<1>11. ASSUME NEW s \in Stops PROVE Chain(s) /\ s # <<>> /\ Head(s)[1] \in {"start", "stop"}
  BY <1>4, <1>5, <1>6, <1>7, <1>10, <1>11 DEF Stops
<1> QED BY <1>1, <1>4, <1>5, <1>9, <1>11

\* Calls of the application; one that starts or stops the peer waits for its turn.
LEMMA CallApart ==
  ASSUME ApartInv, ~Concurrent, Call
  PROVE  Apart'
<1>1. /\ TypeOK /\ Turns /\ Holders /\ User \in Threads /\ User # Mon /\ User # None
      /\ doing \in [Threads -> Seq(TaskSet)]
  BY LifecycleAssumption DEF ApartInv, Apart, Threads, TypeOK
<1>2. /\ doing[User] = <<>> /\ UNCHANGED startVars /\ UNCHANGED <<modelLock, monitor, managed, crash>> /\ Alive
  BY DEF Call, startVars, network
<1>3. Top(User) = "nothing" /\ modelLock # User
  BY <1>1, <1>2 DEF Top, Holders, Holding
<1>4. PICK c \in Others \cup Stops : doing' = [doing EXCEPT ![User] = c] /\ (c \in Others \/ (c \in Stops /\ Alone))
  BY DEF Call
<1>5. doing'[User] = c /\ \A v \in Threads : v # User => doing'[v] = doing[v]
  BY <1>1, <1>4
<1>6. crash' # "assert"
  BY <1>2, LifecycleAssumption DEF Alive
<1>7. ASSUME Chain(c), Top(User)' \notin Holding, Ready(User)', Turns'
      PROVE  Apart'
  <2>1. modelLock' = User <=> Top(User)' \in Holding
    BY <1>2, <1>3, <1>7
  <2>2. \A v \in Threads : v # User => (modelLock' = v <=> modelLock = v)
    BY <1>2
  <2>3. Top(User) # "await"
    BY <1>3
  <2> QED BY <1>1, <1>2, <1>5, <1>6, <1>7, <2>1, <2>2, <2>3, CallStep
<1>8. CASE c \in Stops /\ Alone
  <2>1. Chain(c) /\ c # <<>> /\ Head(c)[1] \in {"start", "stop"}
    BY <1>8, ChainsBegun
  <2>2. Top(User)' \in {"start", "stop"}
    BY <1>5, <2>1 DEF Top
  <2>3. Ready(User)' /\ Top(User)' \notin Holding /\ Top(User)' # "clear"
    BY <2>2 DEF Ready, Holding, Preparing
  <2>4. Turns'
    <3>1. (~managed \/ monitor = None) /\ doing[Mon] = <<>>
      BY <1>8 DEF Alone
    <3>2. (~managed' \/ monitor' = None) /\ doing'[Mon] = <<>>
      BY <1>1, <1>2, <1>5, <3>1 DEF Threads
    <3> QED BY <2>3, <3>2 DEF Turns
  <2> QED BY <1>7, <2>1, <2>3, <2>4
<1>9. CASE c \in Others
  <2>1. PICK t \in TaskSet : c = <<t>> /\ t[1] \in {"is started", "timer", "no monitor", "monitor", "manage"}
    BY <1>9, OthersSingle
  <2>2. Chain(c) /\ Len(c) = 1 /\ Top(User)' = t[1]
    <3>1. t[1] \notin Continued
      BY <2>1 DEF Continued
    <3>2. Chain(c)
      BY <2>1, <3>1, Singletons
    <3>3. c # <<>> /\ Head(c) = t /\ Len(c) = 1
      <4>1. <<t>> # <<>> /\ Head(<<t>>) = t /\ Len(<<t>>) = 1
        OBVIOUS
      <4> QED BY <2>1, <4>1
    <3> QED BY <1>5, <3>2, <3>3 DEF Top
  <2>3. ~Busy(User)' /\ Top(User)' # "clear" /\ Top(User)' \notin Holding
    <3>1. ~(Len(doing'[User]) > 1)
      BY <1>5, <2>2, AtMostOne
    <3>2. Top(User)' \notin Starting
      BY <2>1, <2>2 DEF Starting, Preparing
    <3>3. Top(User)' # "clear" /\ Top(User)' \notin Holding
      BY <2>1, <2>2 DEF Holding
    <3> QED BY <3>1, <3>2, <3>3 DEF Busy
  <2>4. Turns'
    BY <2>3 DEF Turns
  <2>5. Ready(User)'
    BY <2>3 DEF Busy, Ready, Starting
  <2> QED BY <1>7, <2>2, <2>3, <2>4, <2>5
<1> QED BY <1>4, <1>8, <1>9

-----------------------------------------------------------------------------
\* A check of the monitor stops or starts a peer that the application leaves to it.
LEMMA MonitorApart ==
  ASSUME ApartInv, AddressChanged \/ DeviceGone \/ DeviceBack
  PROVE  Apart'
<1>1. /\ TypeOK /\ Turns /\ Holders /\ Mon \in Threads /\ User \in Threads /\ User # Mon /\ Mon # None
      /\ doing \in [Threads -> Seq(TaskSet)]
  BY LifecycleAssumption DEF ApartInv, Apart, Threads, TypeOK
<1>2. /\ monitor # None /\ doing[Mon] = <<>> /\ modelLock = None /\ Alive
      /\ UNCHANGED startVars /\ UNCHANGED <<modelLock, managed>>
  BY DEF AddressChanged, DeviceGone, DeviceBack, Watching, startVars, network, watch
<1>3. crash' # "assert"
  <2>1. crash # "assert"
    BY <1>2, LifecycleAssumption DEF Alive
  <2> QED BY <2>1 DEF AddressChanged, DeviceGone, DeviceBack
<1>4. \/ UNCHANGED doing
      \/ \E s \in {Stop, Stop \o Start} : doing' = [doing EXCEPT ![Mon] = IF managed THEN s ELSE <<>>]
  BY DEF AddressChanged, DeviceGone, DeviceBack, Then, StartAgain
<1>5. PICK c \in {Stop, Stop \o Start, <<>>} :
        /\ doing'[Mon] = c /\ (c # <<>> => managed)
        /\ \A v \in Threads : v # Mon => doing'[v] = doing[v]
  <2>1. CASE UNCHANGED doing
    BY <1>2, <2>1
  <2>2. CASE \E s \in {Stop, Stop \o Start} : doing' = [doing EXCEPT ![Mon] = IF managed THEN s ELSE <<>>]
    <3>1. PICK s \in {Stop, Stop \o Start} : doing' = [doing EXCEPT ![Mon] = IF managed THEN s ELSE <<>>]
      BY <2>2
    <3>2. /\ doing'[Mon] = IF managed THEN s ELSE <<>>
          /\ \A v \in Threads : v # Mon => doing'[v] = doing[v]
      BY <1>1, <3>1
    <3> QED BY <3>2
  <2> QED BY <1>4, <2>1, <2>2
<1>6. Chain(c) /\ Top(Mon)' \in {"stop", "nothing"}
  <2>1. Chain(c)
    BY ChainsBegun
  <2>2. c # <<>> => Head(c)[1] = "stop"
    BY StopFirst
  <2> QED BY <1>5, <2>1, <2>2 DEF Top
<1>7. Ready(Mon)'
  BY <1>6 DEF Ready, Preparing
<1>8. Turns'
  <2>1. doing'[User] = doing[User] /\ Top(User)' = Top(User) /\ Busy(User)' = Busy(User)
    BY <1>1, <1>5 DEF Top, Busy
  <2>2. Top(User) # "clear"
    BY <1>1, <1>2 DEF Turns
  <2>3. CASE managed
    <3>1. ~Busy(User)
      BY <1>1, <1>2, <2>3 DEF Turns
    <3> QED BY <2>1, <2>2, <3>1 DEF Turns
  <2>4. CASE ~managed
    <3>1. doing'[Mon] = <<>> /\ ~managed'
      BY <1>2, <1>5, <2>4
    <3> QED BY <2>1, <2>2, <3>1 DEF Turns
  <2> QED BY <2>3, <2>4
<1>9. Top(Mon) # "await"
  <2>1. Top(Mon) = "nothing"
    BY <1>2 DEF Top
  <2> QED BY <2>1
<1>10. /\ modelLock' = Mon <=> Top(Mon)' \in Holding
       /\ \A v \in Threads : v # Mon => (modelLock' = v <=> modelLock = v)
  BY <1>1, <1>2, <1>6 DEF Holding
<1> QED BY <1>1, <1>2, <1>3, <1>5, <1>6, <1>7, <1>8, <1>9, <1>10, CallStep

-----------------------------------------------------------------------------
\* The thread of the network only goes through its phases: it never begins a
\* run by itself, and leaves neither a stack nor peers.
LEMMA NetworkApart ==
  ASSUME ApartInv, NetworkThread
  PROVE  Apart'
<1>1. /\ TypeOK /\ RunInv /\ Chains /\ Turns /\ Thereby /\ AllReady /\ Holders /\ Left /\ Sound
  BY DEF ApartInv, Apart
<1>2. /\ UNCHANGED <<actor, device, ip, monitor, managed, modelLock, crash>> /\ doing' = doing /\ Alive
      /\ phase # "off" /\ phase' # "off"
  BY DEF NetworkThread, Boot, Fire, Incoming, Handle, StopPeer, Terminated, EndLoop, Purge, Tell, Running, watch, world
<1>3. ~StartFailed
  <2>1. phase \notin {"ended", "off"}
    BY DEF NetworkThread, Boot, Fire, Incoming, Handle, StopPeer, Terminated, EndLoop, Purge, Tell, Running
  <2> QED BY <2>1 DEF StartFailed
<1>4. \A w \in Threads : doing'[w] = doing[w] /\ Top(w)' = Top(w)
  BY <1>2 DEF Top
<1>5. Chains' /\ Holders' /\ Turns'
  <2>1. Chains'
    BY <1>1, <1>2 DEF Chains
  <2>2. Holders'
    BY <1>1, <1>2, <1>4 DEF Holders
  <2>3. Turns'
    BY <1>1, <1>2, <1>4 DEF Turns, Busy, Threads
  <2> QED BY <2>1, <2>2, <2>3
<1>6. AllReady' /\ Thereby'
  <2>1. ASSUME NEW w \in Threads PROVE Ready(w)'
    <3>1. Ready(w) /\ ~Down
      BY <1>1, <1>2 DEF AllReady, Down
    <3> QED BY <1>2, <1>4, <3>1 DEF Ready
  <2>2. Awaited' <=> Awaited
    BY <1>4 DEF Awaited
  <2> QED BY <1>1, <1>2, <2>1, <2>2 DEF AllReady, Thereby
<1>7. Left'
  <2> DEFINE Knowing == {"run", "message", "timer", "leave", "purge"}
  <2>1. stack => phase \in Runs
    BY <1>1, <1>3 DEF Left
  <2>2. peers => phase \in Knowing
    BY <1>1 DEF Left
  <2>3. CASE Boot
    BY <2>1, <2>2, <2>3 DEF Boot, Runs, Left, StartFailed
  <2>4. CASE Fire \/ Incoming \/ Handle \/ StopPeer \/ Terminated \/ EndLoop
    <3>1. phase' \in Runs /\ phase' \in Knowing
      BY <2>4 DEF Fire, Incoming, Handle, StopPeer, Terminated, EndLoop, Runs
    <3> QED BY <3>1 DEF Left
  <2>5. CASE Purge
    <3>1. ~stack' /\ ~peers'
      BY <2>5 DEF Purge
    <3> QED BY <3>1 DEF Left
  <2>6. CASE Tell
    <3>1. phase = "tell" /\ stack' = stack /\ peers' = peers
      BY <2>6 DEF Tell
    <3>2. ~stack' /\ ~peers'
      BY <2>1, <2>2, <3>1 DEF Runs
    <3> QED BY <3>2 DEF Left
  <2> QED BY <2>3, <2>4, <2>5, <2>6 DEF NetworkThread
<1>8. Sound'
  <2>1. crash' # "assert"
    BY <1>2, LifecycleAssumption DEF Alive
  <2>2. stack' => stack
    BY DEF NetworkThread, Boot, Fire, Incoming, Handle, StopPeer, Terminated, EndLoop, Purge, Tell
  <2> QED BY <1>1, <1>2, <1>3, <2>1, <2>2 DEF Sound, AssertsHold, Equipped
<1> QED BY <1>5, <1>6, <1>7, <1>8 DEF Apart

\* The device comes or goes, or nothing changes.
LEMMA FlapApart ==
  ASSUME ApartInv, Flap \/ UNCHANGED vars
  PROVE  Apart'
<1>1. /\ UNCHANGED <<actor, phase, stack, peers, networkLock, device, ip, monitor, managed, modelLock, crash>>
      /\ doing' = doing
  BY DEF Flap, vars, network, watch, world
<1>2. \A w \in Threads : doing'[w] = doing[w] /\ Top(w)' = Top(w)
  BY <1>1 DEF Top
<1>3. /\ Chains /\ Turns /\ Thereby /\ AllReady /\ Holders /\ Left /\ Sound
  BY DEF ApartInv, Apart
<1>4. StartFailed' = StartFailed
  BY <1>1 DEF StartFailed
<1>5. Chains' /\ Turns' /\ Holders'
  BY <1>1, <1>2, <1>3 DEF Chains, Turns, Busy, Threads, Holders
<1>6. AllReady'
  <2>1. ASSUME NEW w \in Threads PROVE Ready(w)'
    <3>1. Ready(w)
      BY <1>3 DEF AllReady
    <3> QED BY <1>1, <1>2, <3>1 DEF Ready, Down
  <2> QED BY <2>1 DEF AllReady
<1>7. Thereby'
  BY <1>1, <1>2, <1>3 DEF Thereby, Awaited
<1>8. Left' /\ Sound'
  BY <1>1, <1>3, <1>4 DEF Left, Sound, AssertsHold, Equipped
<1> QED BY <1>5, <1>6, <1>7, <1>8 DEF Apart

\* Every step keeps the runs apart.
LEMMA NextApart == ApartInv /\ ~Concurrent /\ [Next]_vars => ApartInv'
<1>1. SUFFICES ASSUME ApartInv, ~Concurrent, [Next]_vars PROVE ApartInv'
  OBVIOUS
<1>2. RunInv' /\ TypeOK'
  BY <1>1, NextRunInv, NextTyped DEF ApartInv
<1>3. User \in Threads /\ Mon \in Threads
  BY DEF Threads
<1>4. Apart'
  BY <1>1, <1>3, NetworkApart, ThreadApart, PlainCallsApart, StopMonitorApart, ClearContextApart,
     MonitorApart, CallApart, FlapApart DEF Next, UserThread, MonitorThread
<1> QED BY <1>2, <1>4 DEF ApartInv

\* At first there is no run.
LEMMA InitApart == Init => Apart
<1> SUFFICES ASSUME Init PROVE Apart
  OBVIOUS
<1>1. /\ ~actor /\ phase = "off" /\ ~stack /\ ~peers /\ monitor = None /\ modelLock = None /\ crash = None
      /\ doing = [w \in Threads |-> <<>>]
  BY DEF Init
<1>2. \A w \in Threads : doing[w] = <<>> /\ Top(w) = "nothing" /\ w # None
  BY <1>1, LifecycleAssumption DEF Top, Threads
<1>3. Chains
  BY <1>2, ChainsBegun DEF Chains
<1>4. Turns
  <2>1. doing[Mon] = <<>> /\ Top(User) = "nothing"
    BY <1>2 DEF Threads
  <2> QED BY <1>1, <2>1 DEF Turns
<1>5. Thereby /\ Holders /\ AllReady
  <2>1. \A w \in Threads : Ready(w)
    BY <1>2 DEF Ready, Preparing
  <2> QED BY <1>1, <1>2, <2>1 DEF Thereby, Holders, Holding, AllReady
<1>6. Left /\ Sound
  BY <1>1, LifecycleAssumption DEF Left, Sound, AssertsHold, Equipped
<1> QED BY <1>3, <1>4, <1>5, <1>6 DEF Apart

\* Nothing is left of a run when the next one begins, nor when igs_clear_context
\* is called, so that their asserts hold, and a started peer has its device:
\* unless zyre_start failed, and if one thread at a time starts and stops.
THEOREM RunsStayApart == ASSUME ~Concurrent PROVE Spec => []RunsApart
<1>1. Init => ApartInv
  BY InitRunInv, InitTyped, InitApart DEF ApartInv
<1>2. ApartInv /\ [Next]_vars => ApartInv'
  BY NextApart
<1>3. ApartInv => RunsApart
  BY DEF ApartInv, Apart, Sound, Equipped, RunsApart, StartedHasDevice
<1> QED BY <1>1, <1>2, <1>3, PTL DEF Spec

====
