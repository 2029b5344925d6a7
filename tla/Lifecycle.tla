----------------------------- MODULE Lifecycle -----------------------------
(***************************************************************************)
(* Start and stop of the peer: users, the network thread, a stop whispered *)
(* by another peer, timers, and the monitor of the network device          *)
(* (src/src/igs_network.c, igs_monitor.c, igs_core.c).                     *)
(*                                                                         *)
(* A step is one section under the model lock or the network lock, one     *)
(* unlocked test, or one wait.  What a thread has left to do is a stack of *)
(* tasks.  A failed assert or a use of freed memory ends the process:      *)
(* "crash" says why.                                                       *)
(***************************************************************************)
EXTENDS Naturals, Sequences, FiniteSets

CONSTANTS
  User,         \* thread of the application
  Mon,          \* thread of the monitor
  Net,          \* thread of the network loop
  Addresses,    \* of the network device
  Brokers,      \* address that igs_start_with_brokers is given
  Timers,       \* bound: ids that a loop gives to timers, 1..n
  Concurrent,   \* users call start and stop while the monitor may do so too
  MayFail,      \* zyre_start may fail
  MaxCalls,     \* bound: calls of the application
  MaxStops,     \* bound: stops whispered by other peers
  MaxFlaps,     \* bound: changes of the device
  MaxEvents,    \* bound: messages and timers that the loop handles
  None

ASSUME LifecycleAssumption ==
  /\ None \notin {User, Mon, Net, "assert"} /\ User # Mon
  /\ Timers \in Nat

VARIABLES
  actor,        \* context->network_actor is set
  stopper,      \* thread in zactor_destroy, or None
  phase,        \* of the network thread
  term,         \* $TERM waits in its pipe
  stack,        \* context->node, publishers, replay_channel...
  loop,         \* context->loop and internal_pipe
  peers,        \* zyre_peers and remote_agents hold something
  listed,       \* context->timers
  ticking,      \* timers of the loop
  firing,       \* timer whose callback runs
  last,         \* id of its last timer
  device, ip,   \* context->network_device is set, context->ip_address
  external,     \* context->external_stop
  monitor,      \* context->monitor: status and network_device saved, or None
  managed,      \* monitor_shall_start_stop_agent
  modelLock, networkLock,
  doing,        \* tasks left to users and to the monitor
  present,      \* address of the device, None: it is not there
  crash,
  over,         \* history: timers that igs_timer_stop ended in this loop
  told, asked,  \* history: forced-stop callbacks, stops whispered
  wanted,       \* history: the peer was started for good
  lost,         \* history: a start by the monitor failed, and users did nothing since
  calls, flaps, events

network == <<stopper, phase, term, loop, peers, last>>
timers == <<listed, ticking, firing, over>>
forced == <<external, told, asked>>
watch == <<monitor, managed, lost>>
world == <<present, calls, flaps, events>>
vars == <<actor, network, stack, timers, device, ip, forced, watch, modelLock, networkLock,
          doing, world, crash, wanted>>

Threads == {User, Mon}
Status == {"ok", "not available"}

Init ==
  /\ actor = FALSE /\ stopper = None /\ phase = "off" /\ term = FALSE
  /\ stack = FALSE /\ loop = FALSE /\ peers = FALSE
  /\ listed = {} /\ ticking = {} /\ firing = 0 /\ last = 0 /\ over = {}
  /\ device = FALSE /\ ip = None
  /\ external = FALSE /\ told = 0 /\ asked = 0
  /\ monitor = None /\ managed = FALSE /\ lost = FALSE /\ wanted = FALSE
  /\ modelLock = None /\ networkLock = None
  /\ doing = [w \in Threads |-> <<>>]
  /\ present \in Addresses \cup {None} /\ crash = None
  /\ calls = 0 /\ flaps = 0 /\ events = 0

(***************************************************************************)
(* Threads and locks.                                                      *)
(***************************************************************************)

Alive == crash = None
Do(w, tasks) == doing' = [doing EXCEPT ![w] = tasks \o Tail(@)]
Return(w) == Do(w, <<>>)
At(w, task) == Alive /\ doing[w] # <<>> /\ Head(doing[w])[1] = task
Locked(w, task) == At(w, task) /\ modelLock = None
Task(name) == <<name, None>>

\* igs_stop; igs_start_with_device.
CleanFirst == <<Task("clean"), Task("stop")>>  \* mutant: the device is forgotten first
Stop == <<Task("stop"), Task("clean")>>
Start == <<Task("start"), Task("prepare")>>
StartWithIp(a) == <<Task("start"), <<"prepare ip", a>>>>
StartWithBrokers == <<Task("start"), Task("prepare brokers")>>

(***************************************************************************)
(* igs_start_with_device, igs_start_with_ip and igs_start_with_brokers.    *)
(***************************************************************************)

\* The test of network_actor, without a lock.
StartStops(w) ==
  /\ At(w, "start")
  /\ Do(w, IF actor THEN Stop ELSE <<>>)
  /\ UNCHANGED <<actor, network, stack, timers, device, ip, forced, watch, modelLock, networkLock,
                 world, crash, wanted>>

\* What they end with: the start, with the model lock, or a stop.
Go(w) == Do(w, <<Task("init"), Task("await")>>) /\ modelLock' = w
GiveUp(w) == Do(w, Stop) /\ UNCHANGED modelLock

\* Looks for the device; the address of an earlier start that failed would do.
Prepare(w) ==
  LET found == IF present # None THEN present ELSE ip IN
  /\ Locked(w, "prepare")
  /\ device' = TRUE /\ ip' = found
  /\ IF found = None THEN GiveUp(w) ELSE Go(w)
  /\ lost' = (lost \/ (w = Mon /\ found = None))
  /\ wanted' = (found # None)
  /\ UNCHANGED <<actor, network, stack, timers, forced, monitor, managed, networkLock, world, crash>>

\* Looks for a device that has the address.
PrepareIp(w) ==
  LET a == Head(doing[w])[2]
      found == device \/ present = a
  IN
  /\ Locked(w, "prepare ip")
  /\ device' = found /\ ip' = a
  /\ IF found THEN Go(w) ELSE GiveUp(w)
  /\ wanted' = found
  /\ UNCHANGED <<actor, network, stack, timers, forced, watch, networkLock, world, crash>>

\* Leaves network_device NULL.
PrepareBrokers(w) ==
  /\ Locked(w, "prepare brokers")
  /\ ip' = Brokers
  /\ Go(w)
  /\ wanted' = FALSE
  /\ UNCHANGED <<actor, network, stack, timers, device, forced, watch, networkLock, world, crash>>

\* s_init_loop; its asserts fail when another thread has started the peer.
KeptRequest == external                        \* mutant: external_stop is not reset
NewRequest == FALSE

InitLoop(w) ==
  /\ At(w, "init") /\ networkLock = None
  /\ IF stack
       THEN crash' = "assert" /\ UNCHANGED <<external, stack, phase, doing>>
       ELSE /\ external' = NewRequest
            /\ stack' = TRUE /\ phase' = "boot"
            /\ Return(w) /\ UNCHANGED crash
  /\ UNCHANGED <<actor, stopper, term, loop, peers, last, timers, device, ip, told, asked, watch,
                 modelLock, networkLock, world, wanted>>

\* zactor_new waits for the signal of the network thread.
Await(w) ==
  /\ At(w, "await") /\ phase # "boot"
  /\ actor' = TRUE /\ modelLock' = None
  /\ Return(w)
  /\ UNCHANGED <<network, stack, timers, device, ip, forced, watch, networkLock, world, crash, wanted>>

(***************************************************************************)
(* igs_stop.                                                               *)
(***************************************************************************)

\* zactor_destroy sends $TERM without the model lock ...
UnderLock(w) == w                              \* mutant: with the model lock
WithoutLock(w) == modelLock

StopActor(w) ==
  /\ At(w, "stop")
  /\ IF ~actor THEN Return(w) /\ UNCHANGED <<crash, term, stopper>>
     ELSE IF stopper # None THEN crash' = "two stops" /\ UNCHANGED <<doing, term, stopper>>
     ELSE /\ term' = TRUE /\ stopper' = w
          /\ Do(w, <<Task("join")>>) /\ UNCHANGED crash
  /\ modelLock' = IF actor /\ stopper = None THEN WithoutLock(w) ELSE modelLock
  /\ UNCHANGED <<actor, phase, loop, peers, last, stack, timers, device, ip, forced, watch,
                 networkLock, world, wanted>>

\* ... and waits for the end of the thread.
Join(w) ==
  /\ At(w, "join") /\ phase = "ended"
  /\ actor' = FALSE /\ stopper' = None /\ phase' = "off" /\ term' = FALSE
  /\ modelLock' = IF modelLock = w THEN None ELSE modelLock
  /\ Return(w)
  /\ UNCHANGED <<loop, peers, last, stack, timers, device, ip, forced, watch, networkLock,
                 world, crash, wanted>>

Clean(w) ==
  /\ Locked(w, "clean")
  /\ device' = FALSE /\ ip' = None
  /\ Return(w)
  /\ UNCHANGED <<actor, network, stack, timers, forced, watch, modelLock, networkLock, world, crash, wanted>>

(***************************************************************************)
(* igs_is_started, timers and igs_clear_context.                           *)
(***************************************************************************)

\* igs_is_started takes the model lock, then the network lock.
Ask(w) ==
  /\ Locked(w, "is started")
  /\ modelLock' = w
  /\ Do(w, <<Task("ask")>>)
  /\ UNCHANGED <<actor, network, stack, timers, device, ip, forced, watch, networkLock, world, crash, wanted>>

Asked(w) ==
  /\ At(w, "ask") /\ networkLock = None
  /\ modelLock' = None
  /\ Return(w)
  /\ UNCHANGED <<actor, network, stack, timers, device, ip, forced, watch, networkLock, world, crash, wanted>>

\* igs_timer_start and igs_timer_stop test the loop before they lock.
TimerAsked(w) ==
  /\ At(w, "timer")
  /\ Do(w, IF loop THEN <<<<"new timer", Head(doing[w])[2]>>>> ELSE <<>>)
  /\ UNCHANGED <<actor, network, stack, timers, device, ip, forced, watch, modelLock, networkLock,
                 world, crash, wanted>>

StartTimer(w) ==
  /\ Locked(w, "new timer") /\ Head(doing[w])[2] = None
  /\ IF loop
       THEN /\ last' = last + 1
            /\ listed' = listed \cup {last'} /\ ticking' = ticking \cup {last'}
            /\ Return(w) /\ UNCHANGED crash
       ELSE crash' = "no loop" /\ UNCHANGED <<last, listed, ticking, doing>>
  /\ UNCHANGED <<actor, stopper, phase, term, loop, peers, stack, firing, over, device, ip, forced, watch,
                 modelLock, networkLock, world, wanted>>

\* A timer that is no longer listed is canceled; the STOP_TIMER message never
\* reaches the loop, which keeps it.
StopTimer(w) ==
  LET i == Head(doing[w])[2] IN
  /\ Locked(w, "new timer") /\ i # None
  /\ IF i \in listed /\ ~loop
       THEN crash' = "no loop" /\ UNCHANGED <<listed, over, doing>>
       ELSE /\ listed' = listed \ {i} /\ over' = over \cup ({i} \cap listed)
            /\ Return(w) /\ UNCHANGED crash
  /\ UNCHANGED <<actor, network, stack, ticking, firing, device, ip, forced, watch, modelLock, networkLock,
                 world, wanted>>

\* igs_clear_context after igs_stop and igs_monitor_stop: its asserts.
Cleared == ~actor /\ ~stack /\ ~loop /\ ~peers /\ listed = {} /\ monitor = None

ClearContext(w) ==
  /\ Locked(w, "clear")
  /\ IF Cleared THEN Return(w) /\ managed' = FALSE /\ UNCHANGED crash
     ELSE crash' = "assert" /\ UNCHANGED <<managed, doing>>
  /\ UNCHANGED <<actor, network, stack, timers, device, ip, forced, monitor, lost, modelLock, networkLock,
                 world, wanted>>

(***************************************************************************)
(* The network thread: s_run_loop.                                         *)
(***************************************************************************)

\* The loop starts; when zyre_start fails the thread ends with the lock.
Boot ==
  /\ Alive /\ phase = "boot" /\ networkLock = None
  /\ over' = {} /\ last' = 0
  /\ \/ phase' = "run" /\ loop' = TRUE /\ UNCHANGED networkLock
     \/ MayFail /\ phase' = "ended" /\ networkLock' = Net /\ UNCHANGED loop
  /\ UNCHANGED <<actor, stopper, term, peers, stack, listed, ticking, firing, device, ip, forced, watch,
                 modelLock, doing, world, crash, wanted>>

Running == Alive /\ phase = "run"

\* s_manage_network_timer: the last time or not.
AnyTimer(i) == TRUE                            \* mutant: canceled is not looked at
NotCanceled(i) == i \in listed

Fire ==
  /\ Running /\ events < MaxEvents
  /\ \E i \in ticking :
       /\ NotCanceled(i)
       /\ phase' = "timer" /\ firing' = i
       /\ ticking' \in {ticking, ticking \ {i}}
  /\ events' = events + 1
  /\ UNCHANGED <<actor, stopper, term, loop, peers, last, stack, listed, over, device, ip, forced, watch,
                 modelLock, networkLock, doing, present, calls, flaps, crash, wanted>>

\* A message of a peer, or HANDLE_PUBLICATION.
Incoming ==
  /\ Running /\ events < MaxEvents
  /\ phase' = "message" /\ peers' = TRUE
  /\ events' = events + 1
  /\ UNCHANGED <<actor, stopper, term, loop, last, stack, timers, device, ip, forced, watch,
                 modelLock, networkLock, doing, present, calls, flaps, crash, wanted>>

\* Handlers, and callbacks that use the library, take the model lock.
Handle ==
  /\ Alive /\ modelLock = None
  /\ phase \in {"message", "timer"}
  /\ phase' = "run" /\ firing' = 0
  /\ UNCHANGED <<actor, stopper, term, loop, peers, last, stack, listed, ticking, over, device, ip, forced, watch,
                 modelLock, networkLock, doing, world, crash, wanted>>

\* STOP_PEER from another peer, or $TERM.
StopPeer ==
  /\ Running /\ peers /\ asked < MaxStops
  /\ external' = TRUE /\ asked' = asked + 1
  /\ phase' = "leave" /\ wanted' = FALSE
  /\ UNCHANGED <<actor, stopper, term, loop, peers, last, stack, timers, device, ip, told, watch,
                 modelLock, networkLock, doing, world, crash>>

Terminated ==
  /\ Running /\ term
  /\ phase' = "leave"
  /\ UNCHANGED <<actor, stopper, term, loop, peers, last, stack, timers, device, ip, forced, watch,
                 modelLock, networkLock, doing, world, crash, wanted>>

\* The end, under the network lock: first the loop ...
EndLoop ==
  /\ Alive /\ phase = "leave" /\ networkLock = None
  /\ phase' = "purge" /\ networkLock' = Net
  /\ loop' = FALSE /\ ticking' = {}
  /\ UNCHANGED <<actor, stopper, term, peers, last, stack, listed, firing, over, device, ip, forced, watch,
                 modelLock, doing, world, crash, wanted>>

\* ... then the stack and the tables ...
AllTimers == listed                            \* mutant: zlist_purge of the timers is missing
NoTimers == {}

Purge ==
  /\ Alive /\ phase = "purge"
  /\ phase' = "tell"
  /\ stack' = FALSE /\ peers' = FALSE /\ listed' = NoTimers
  /\ UNCHANGED <<actor, stopper, term, loop, last, ticking, firing, over, device, ip, forced, watch,
                 modelLock, networkLock, doing, world, crash, wanted>>

\* ... then the forced-stop callbacks.
Tell ==
  /\ Alive /\ phase = "tell"
  /\ phase' = "ended" /\ networkLock' = None
  /\ told' = IF external THEN told + 1 ELSE told
  /\ UNCHANGED <<actor, stopper, term, loop, peers, last, stack, timers, device, ip, external, asked,
                 watch, modelLock, doing, world, crash, wanted>>

NetworkThread ==
  Boot \/ Fire \/ Incoming \/ Handle \/ StopPeer \/ Terminated \/ EndLoop \/ Purge \/ Tell

(***************************************************************************)
(* The monitor: igs_monitor_trigger_network_check.                         *)
(***************************************************************************)

Watching == Alive /\ monitor # None /\ doing[Mon] = <<>> /\ modelLock = None
Then(tasks) == doing' = [doing EXCEPT ![Mon] = IF managed THEN tasks ELSE <<>>]
Watched(status, saved) == [status |-> status, saved |-> saved]

\* The address of the device of the started peer is another one.
AddressChanged ==
  /\ Watching /\ monitor.status = "ok"
  /\ stack /\ device /\ present # None /\ present # ip /\ managed
  /\ Then(Stop \o Start)
  /\ UNCHANGED <<actor, network, stack, timers, device, ip, forced, watch, modelLock, networkLock,
                 world, crash, wanted>>

\* The device, expected or in use, is not there any more.
DeviceGone ==
  /\ Watching /\ monitor.status = "ok"
  /\ \/ stack /\ ~(device /\ present # None)
        /\ monitor' = Watched("not available", device)
        /\ Then(Stop)
     \/ ~stack /\ monitor.saved /\ present = None
        /\ monitor' = Watched("not available", TRUE)
        /\ UNCHANGED doing
  /\ UNCHANGED <<actor, network, stack, timers, device, ip, forced, managed, lost, modelLock, networkLock,
                 world, crash, wanted>>

\* It came back, or the peer was started by hand.
StayStopped == <<>>                            \* mutant: the peer is not started again
StartAgain == Stop \o Start

DeviceBack ==
  /\ Watching /\ monitor.status = "not available" /\ present # None
  /\ \/ ~stack /\ monitor.saved
        /\ Then(StartAgain)
        /\ monitor' = Watched("ok", FALSE) /\ UNCHANGED crash
     \/ stack /\ UNCHANGED doing
        /\ IF device /\ monitor.saved THEN monitor' = Watched("ok", FALSE) /\ UNCHANGED crash
           ELSE crash' = "no device" /\ UNCHANGED monitor     \* streq or strdup of NULL
  /\ UNCHANGED <<actor, network, stack, timers, device, ip, forced, managed, lost, modelLock, networkLock,
                 world, wanted>>

\* igs_monitor_start and _start_with_network; igs_monitor_stop waits for the
\* end of a check; igs_monitor_set_start_stop.
StartMonitor(w) ==
  /\ Locked(w, "monitor")
  /\ monitor' = IF monitor = None THEN Watched("ok", Head(doing[w])[2]) ELSE monitor
  /\ Return(w)
  /\ UNCHANGED <<actor, network, stack, timers, device, ip, forced, managed, lost, modelLock, networkLock,
                 world, crash, wanted>>

StopMonitor(w) ==
  /\ Locked(w, "no monitor") /\ doing[Mon] = <<>>
  /\ monitor' = None
  /\ wanted' = (wanted /\ stack)
  /\ Return(w)
  /\ UNCHANGED <<actor, network, stack, timers, device, ip, forced, managed, lost, modelLock, networkLock,
                 world, crash>>

Manage(w) ==
  /\ Locked(w, "manage")
  /\ managed' = Head(doing[w])[2]
  /\ wanted' = (wanted /\ stack)
  /\ Return(w)
  /\ UNCHANGED <<actor, network, stack, timers, device, ip, forced, monitor, lost, modelLock, networkLock,
                 world, crash>>

(***************************************************************************)
(* The application and the device.                                         *)
(***************************************************************************)

\* Calls that start or stop the peer, and the others.
Stops ==
  {StartWithIp(a) : a \in Addresses} \cup
  {Stop, Start, StartWithBrokers, Stop \o <<Task("no monitor"), Task("clear")>>}
Others ==
  {<<Task("is started")>>, <<Task("timer")>>, <<Task("no monitor")>>}
    \cup {<<<<"timer", i>>>> : i \in 1..Timers}
    \cup {<<<<"monitor", saved>>>> : saved \in BOOLEAN}
    \cup {<<<<"manage", flag>>>> : flag \in BOOLEAN}

\* Nobody else starts and stops the peer.
Alone == Concurrent \/ ((~managed \/ monitor = None) /\ doing[Mon] = <<>>)

Call ==
  /\ Alive /\ doing[User] = <<>> /\ calls < MaxCalls
  /\ \/ \E c \in Others :
          /\ c = <<Task("timer")>> => last < Timers
          /\ doing' = [doing EXCEPT ![User] = c]
          /\ UNCHANGED <<wanted, lost>>
     \/ \E c \in Stops :
          /\ Alone
          /\ doing' = [doing EXCEPT ![User] = c]
          /\ wanted' = FALSE /\ lost' = FALSE
  /\ calls' = calls + 1
  /\ UNCHANGED <<actor, network, stack, timers, device, ip, forced, monitor, managed, modelLock, networkLock,
                 present, flaps, events, crash>>

Flap ==
  /\ Alive /\ flaps < MaxFlaps
  /\ present' \in (Addresses \cup {None}) \ {present}
  /\ flaps' = flaps + 1
  /\ UNCHANGED <<actor, network, stack, timers, device, ip, forced, watch, modelLock, networkLock,
                 doing, calls, events, crash, wanted>>

Thread(w) ==
  \/ StartStops(w) \/ Prepare(w) \/ PrepareIp(w) \/ PrepareBrokers(w) \/ InitLoop(w) \/ Await(w)
  \/ StopActor(w) \/ Join(w) \/ Clean(w)

UserThread ==
  \/ Thread(User) \/ Ask(User) \/ Asked(User)
  \/ TimerAsked(User) \/ StartTimer(User) \/ StopTimer(User) \/ ClearContext(User)
  \/ StartMonitor(User) \/ StopMonitor(User) \/ Manage(User)

MonitorThread == Thread(Mon) \/ AddressChanged \/ DeviceGone \/ DeviceBack

Next == NetworkThread \/ UserThread \/ MonitorThread \/ Call \/ Flap

Spec == Init /\ [][Next]_vars

\* Threads go on; messages, calls and changes of the device may cease.
FairSpec ==
  /\ Spec
  /\ WF_vars(NetworkThread) /\ WF_vars(UserThread) /\ WF_vars(MonitorThread)

(***************************************************************************)
(* Properties.                                                             *)
(***************************************************************************)

Simple == {"start", "prepare", "prepare brokers", "init", "await", "stop", "join", "clean", "is started", "ask",
           "no monitor", "clear"}
Phases == {"off", "boot", "run", "message", "timer", "leave", "purge", "tell", "ended"}
TaskSet ==
  {Task(name) : name \in Simple} \cup ({"prepare ip"} \X Addresses) \cup ({"monitor", "manage"} \X BOOLEAN)
    \cup ({"timer", "new timer"} \X (1..Timers \cup {None}))

\* Types; timers have the ids that their loop gave.
TypeOK ==
  /\ {actor, term, stack, loop, peers, device, external, managed} \subseteq BOOLEAN
  /\ phase \in Phases
  /\ last \in Nat /\ firing \in Nat
  /\ over \subseteq 1..last /\ ticking \subseteq 1..last /\ listed \subseteq 1..last
  /\ ip \in Addresses \cup {Brokers, None} /\ present \in Addresses \cup {None}
  /\ monitor \in [status : Status, saved : BOOLEAN] \cup {None}
  /\ modelLock \in Threads \cup {None} /\ networkLock \in {Net, None}
  /\ doing \in [Threads -> Seq(TaskSet)]
  /\ told \in Nat /\ asked \in Nat

\* zyre_start failed: the thread ended with the network lock, for ever.
StartFailed == networkLock = Net /\ phase \in {"ended", "off"}

\* Asserts of s_init_loop (nothing is left of the previous run) and of
\* igs_clear_context (igs_core.c:208-300) hold when one thread starts and stops.
AssertsHold == crash = "assert" => StartFailed

\* A started peer has a device, but with brokers: the monitor compares its name
\* without a test (igs_monitor.c:101).
StartedHasDevice ==
  Alive /\ stack /\ modelLock = None => device \/ ip = Brokers \/ StartFailed

\* "Ingescape provides an integrated monitor to detect events relative to the
\* network" (ingescape.h:936): not with brokers, where the second check crashes.
MonitorSurvives == crash # "no device"

\* A run begins and ends with nothing of another one.
RunsApart == AssertsHold /\ StartedHasDevice

\* Forced-stop callbacks are called once for each stop from another peer, and
\* never for a stop of our own, whatever was asked in an earlier run.
ToldOnce == told = asked - (IF phase \in {"leave", "purge", "tell"} /\ external THEN 1 ELSE 0)

\* After igs_timer_stop has returned no callback of the timer begins, although
\* the loop keeps the timer.
StoppedIsSilent ==
  [][\A i \in over : firing' = i => firing = i]_vars

\* Calls return, also when another peer stops this one: no wait for the end of
\* the network thread while it waits for the caller.
CallsReturn == \A w \in Threads : (doing[w] # <<>>) ~> (doing[w] = <<>> \/ ~Alive \/ StartFailed)

\* A managed peer ends on the present address of its device, unless a start
\* by the monitor failed, which it does not try again.
Watches == wanted /\ managed /\ monitor # None /\ present # None /\ Alive
OnDevice == stack /\ ip = present
FollowsDevice == <>[](Watches /\ ~lost /\ ~StartFailed) => <>[](OnDevice \/ ~Alive)

\* "Network device disappearance will cause the agent to stop. Agent will
\* restart when device is back." (ingescape.h:949), also when the device was
\* gone again at the first attempt.
ComesBack == <>[](managed /\ monitor # None /\ present # None /\ Alive /\ lost) => <>[]OnDevice
=============================================================================
