# A formal model of ingescape

Ingescape (C, `src/src`, `src/include`) is a library for agents that find each
other on a network with Zyre and exchange data through inputs, outputs,
mappings, splits, services and elections.  This directory holds TLA+ modules
translated from its code, configurations that model-check them with TLC, and
proofs checked by TLAPS.

Contents: [system](#1-the-system) · [modules](#2-the-modules) ·
[runs](#3-the-runs) · [divergences](#4-where-the-code-differs-from-its-documentation) ·
[proofs](#5-the-proofs) · [limits](#6-what-is-not-modelled) · [plan](#7-plan)

## 1. The system

### Threads, locks and messages

A process that uses ingescape has

* any number of **user threads**, which call the API;
* one **network thread**, `s_run_loop` in `igs_network.c`: a `zloop` whose
  handlers are `s_manage_zyre_incoming` (Zyre events and whispered messages),
  `s_manage_received_publication` (ZeroMQ subscriptions) and timers
  (`s_trigger_definition_update`, `s_trigger_mapping_update`, user timers);
* possibly one **monitor thread**, `igs_monitor.c`, which stops and restarts the
  network when the device or its address changes;
* a single non-recursive **model mutex** (`model_read_write_lock`, `igs_model.c`)
  that protects nearly everything, and smaller mutexes for calls of Zyre, for
  the network's start and for logs; in Python the interpreter lock as well.

Two disciplines follow from the model mutex and carry most of the risk.  User
callbacks run with the mutex *released*, in the middle of loops on tables that
other threads change; and what a splitter or a worker whispers is sent with the
mutex released, so that two threads of one process may send in another order
than the one in which they decided.  The models are therefore cut at exactly
these points: **a step is one section executed under the mutex**, and a
callback or an unlocked whisper is a step of its own.

Between two processes Zyre gives one ordered, reliable channel per direction as
long as both stay up; it reports peers with ENTER, JOIN, EXIT, groups with
LEADER, and messages with WHISPER and SHOUT.

### Components

| Component (files) | State it keeps | Operations | What makes it correct | Modules |
|---|---|---|---|---|
| Splits and splitters (`igs_split.c`, parts of `igs_network.c`) | `core_context->splitters` with workers, credits, uses and queued works; `mapping->split_elements` of each worker agent | `igsagent_split_add`, `_remove_with_*`, `WORKER_HELLO/READY/GOODBYE`, `SPLITTER_WORK`, `split_add_work_to_queue` | a work goes to one worker once; credits are neither lost nor invented; a queue has a worker and drains | Split |
| Elections (`igsagent.c`, `igs_network.c`) | `core_context->elections` (attendees per election), `agent->elections`, Zyre groups | join, leave, LEADER event, start, stop | the records of who participates agree; agents of one peer hear the same outcome; the handler ends | Election |
| Agent life cycle and agent events (`igsagent.c`) | `agents`, `created_agents`, observers | activate, deactivate, `agent_LOCKED_propagate_agent_event`, creation, destruction | no observer misses an agent although tables change during callbacks; operations end | AgentEvents, Commands |
| Discovery (`igs_network.c`, `igsagent.c`) | `zyre_peers`, `remote_agents`, per-agent update flags | ENTER, JOIN, EXIT, EXTERNAL_DEFINITION, REMOTE_AGENT_EXIT, REMOTE_PEER_KNOWS_AGENT, definition timer, start, stop | peers know exactly the active agents of the others; no remote agent outlives the record of its peer; assertions hold | Discovery |
| Data flow (`igs_network.c`, `igs_model.c`) | subscriptions, published values, the walk of `s_handle_publication` | publication, reception, `HANDLE_PUBLICATION`, `GET_CURRENT_OUTPUTS`, `CURRENT_OUTPUTS` | a mapped input gets every value its outputs publish, in order; who requests outputs gets them | DataFlow |
| Model, real time (`igs_model.c`, `igs_core.c`) | type, value, size and constraint of each IOP, observers, timestamps | write, read, clear, constraint, observe, `igs_rt_*` | conversions keep what can be kept; constraints hold; observers end up to date | Iop |
| Mapping (`igs_mapping.c`) | `mapping->map_elements` of each agent, with the cursor of the list | add, remove, clear, load, mapping timer | every edit ends up in subscriptions; edits do not disturb a walk under way | DataFlow, Definition |
| Services (`igs_service.c`) | services, arguments, callbacks, current timestamp | init, call, CALL_SERVICE, edits | a call is served at most once by each addressee, in order, and ends | Services, CallBag |
| Definition, parser (`igs_definition.c`, `igs_parser.c`) | tables of IOPs and services, JSON texts cached for three versions | edits, save, load, sending | the cache is current; save and load round-trip; peers catch up | Definition |
| Process commands (`igs_network.c`), performance (`igs_performance.c`), log settings (`igs_admin.c`) | mute, freeze, state, paths, log flags, two counters | commands received by whisper and the functions they call | commands take effect; peers hear what agents are; muted is silent; handlers end | Commands |
| Start and stop, timers, monitor (`igs_network.c`, `igs_monitor.c`) | `network_actor`, Zyre node, sockets, timers, `monitor` | `igs_start_*`, `igs_stop`, a stop from another peer, `igs_timer_*`, the periodic check | runs are kept apart; a forced stop is told once; stopped timers are silent; calls return; the device is followed | Lifecycle |
| Every function (`src/src`, `bindings/python/src`) | five locks | whatever locks, waits or calls back | threads do not wait for each other for ever; one global agent | Api |

How they interact: user calls change the model under the mutex and raise flags
(`network_need_to_send_definition_update`, …) that the timers of the network
thread turn into messages; messages change the tables of the other process
under its mutex and call observers of its agents; splits hook into both
publications (`network_publish_output` calls `split_add_work_to_queue`) and
discovery (a new remote agent is greeted with `WORKER_HELLO`, an exiting one
loses its workers); elections and agents share `core_context->agents`; the
monitor calls the same start and stop as users do.

Hard behaviours, listed line by line under `hazards` in `PROJECT.json`:
interleaving of user threads with the network thread around released locks;
duplicated iterators whose elements die meanwhile; messages that overtake each
other because they were decided under the lock and sent outside it; agents
that leave and come back; timeouts reported after a reconnection; processes
that stop and start again under another Zyre identity; loops on tables that
change; cached texts; conversions; waits for threads that wait for locks.

## 2. The modules

Each module models one component and composes the parts of its neighbours that
it depends on.  Every definition that models code is listed in `PROJECT.json`
under `map` with the lines it stands for.  The `MC*` modules give constants
values; operators marked `mutant` in comments are plausible bugs used to show
that a property can fail.  They are used by nothing else.

### Split (with SplitProps)

One publishing process and the processes of its worker agents.

| Model | Code |
|---|---|
| `workers`, `credit`, `uses`, `queue` | `igs_splitter_t` and `igs_worker_t`; a splitter exists while it has a worker |
| `Publish`, `WalkStep`, `WhisperWork` | `network_publish_output` → `split_add_work_to_queue` → `s_split_trigger_send_message_to_worker` → `igs_channel_whisper_zmsg`, one turn of the walk per step |
| `lock`, `walk`, `stale` | the walk keeps the mutex between whispers; the list it walks is a duplicate whose splitters may have been freed |
| `RecvHello`, `RecvReady`, `RecvGoodbye` | `split_message_from_worker` |
| `RecvAgentExit`, `RecvDefinition` | the same messages in `s_manage_zyre_incoming`, at the publishing peer |
| `SplitAdd`, `SplitRemove` with `WhisperUser` | `igsagent_split_add`, `igsagent_split_remove_with_name`, `_with_id` |
| `WorkerRecvDefinition`, `GreetNext`, `WhisperNetwork` | the loop that greets a new remote agent with `zlist_next`, whose `cursor` other threads move |
| `RecvWork` | `split_message_from_splitter` |
| `Activate`, `Deactivate`, `WorkerActivate`, `WorkerDeactivate` | `igsagent_activate`, `igsagent_deactivate` with the messages they lead to |

`Trigger` is the dispatch: the best worker (most credits, then fewest uses)
gets the head of the queue, at most one per call; which of two equal workers is
first in the list is left open.  A work is a model value, the time a work was
queued and the messages of older protocol versions are left out.  Each worker
agent has a peer of its own, so that channels are per agent.

### Election

One process and Zyre, which may declare its peer winner or loser of any group
the peer is in.  `Join` and `Leave` are `igsagent_election_join` and `_leave`,
`TakeLeader`/`CallNext`/`Callback`/`EndLeader` the LEADER event with its
unlocked callbacks, `Start` and `Stop` what `s_init_loop` and `igs_stop` do to
groups, `Activate`, `Deactivate` and `Destroy` what these do to agents — and do
not do to elections.  `locked` says that the network thread holds the mutex
between two steps.

### AgentEvents

Activation and deactivation of the agents of one process by several user
threads, and remote agents entering and exiting, with the three loops of
`igsagent_activate` (local agents, remote agents, propagation of
`IGS_AGENT_ENTERED` then `IGS_AGENT_KNOWS_US`), the activation callbacks, and
`agent_LOCKED_propagate_agent_event`.  Threads are either about to take the
lock and select the next observer (`point = "lock"`) or about to call it
(`point = "call"`).  `view` and `told` are history: what each observer was told.

### Discovery

Several processes, their Zyre nodes (a process that stops and starts again is
another node), the ordered channels between them and the registries
`zyre_peers` and `remote_agents`.  `Connect` and `Reconnect` are Zyre: two nodes
find each other; a node that is seen again before its timeout enters twice and
is then reported gone once.  `RecvEnter` … `RecvExit` are the cases of
`s_manage_zyre_incoming`, `SendDefinition` the definition timer, `ExitStep` the
loop of EXIT which releases the lock for each agent, `Tell` an agent event
about a remote agent.  `Start` and `Stop` are atomic.

### DataFlow

One receiving process, with its user threads, and the process of the remote
agents.  Three ways lead to the receiver, each ordered and not ordered with one
another: Zyre (definitions, exits, replies), PUB/SUB (publications of remote
agents, for what was subscribed) and the pipe of the network thread
(publications between agents of the same process).

| Model | Code |
|---|---|
| `SetRemote`, `SetLocal` | `igsagent_output_set_*` → `model_write` → `network_publish_output` |
| `ManageReceivedPublication`, `ManageParent`, `RecvCurrentOutputs` | the three callers of `s_handle_publication` |
| `NextAgent`, `WalkMapping`, `CallbacksReturn` | `s_handle_publication`: next agent not yet contacted, next matching mapping element, callbacks with the lock released |
| `hand.cursor`, `MoveCursor` | the one cursor of a `zlist_t`, shared by the walk and by every edit of the list |
| `MappingAdd`, `MappingRemove`, `MappingSearch` | `igsagent_mapping_add`, `_remove_*`, `igsagent_clear_mappings*` |
| `MappingTimer`, `MappingUpdate` | `s_trigger_mapping_update`, one agent per step |
| `Configure`, `Requests`, `RequestTimer`, `AnswerRequest` | subscription and request made by `s_network_configure_mapping_to_remote_agent`, the 500 ms timer and the answer |
| `Mute`, `Freeze`, `FreezeFar` | `igsagent_output_mute`, `igs_freeze` and their opposites |

An agent has one output and its value is the number of writes, so that a lost,
repeated or overtaken value can be told.  Types and their conversions are
abstracted; a constraint is the set of values an input refuses.  `owed` and
`jumped` are history: which values an input has not been given yet, and whether
an edit moved the cursor of a walk forward.

### Services, with CallBag

Agents of several peers, the ordered channels between the peers, any number of
calling threads.

| Model | Code |
|---|---|
| `Call`, `CallStep` | `igsagent_service_call`: whispers to every remote agent of the name or uuid under the lock, then a walk of a snapshot of the local ones |
| `call[t].phase` | the walk, or a callback with the lock released |
| `NetworkStep`, `handling` | the case `CALL_SERVICE` of `s_manage_zyre_incoming`: lookup, count of frames, arguments, timestamp, callback, reset |
| `service[a]` | the service of the agent: which instance, the sizes of its arguments, its callback |
| `EditStep` | `igsagent_service_init`, `_remove`, `_arg_add`, `_arg_remove`, `igsagent_activate`, `_deactivate`, `_destroy` |
| `stamp` | `rt_current_timestamp_microseconds` |

`CallBag` is the abstract specification: outstanding requests, each served at
most once or dropped, those of one thread to one agent in order.  `Services`
implements it with `outstanding` mapped to the requests in channels, handlers
and walks (`CallsAreABag == Bag!Spec`, where `Bag == INSTANCE CallBag WITH …`).

### Definition

One agent that edits, and peers of the versions v2 to v5 of the protocol.
`EditIo`, `EditService`, `EditAgent` and `MappingStep` change `definition` or
`mapping` the way `igs_model.c`,
`igs_service.c`, `igs_definition.c` and `igs_mapping.c` do, and export the
result (`Export`, `definition_update_json`) into `json`.  `Exported` and
`Loaded` are the exporter and the parser of `igs_parser.c`: a text is the record
of what it says, so that lost, renamed, rounded or merged parts show.  `Save`,
`Load` and `LoadName` are `igsagent_definition_save` and `_load_str`, whose
last part (`igsagent_set_name`) is another critical section.  `Join`, `Receive`,
`DefinitionTimer` and `MappingTimer` send texts and make copies.

### Iop

The value of an input, an output or an attribute as the block of memory that
holds it, with its type, size and constraint.  `SetIo` is `model_write` behind
`igsagent_*_set_*`: `Converted` is the table of conversions, `Verified` the
check of the constraint against what would be stored.  `Result` is the table of
reads.  A write of an output goes through `Sent` (the frames of
`network_publish_output`), `channel` and `Receive` to the mapped input, which
converts again.  `CallObserver` is one turn of `model_LOCKED_handle_io_callbacks`:
observers are copied, then called one by one without the lock.  `RtStep` and
`TickPublish` are timestamps and the synchronous mode, whose loop publishes one
output per section.

### Commands

A peer whispers commands to our network thread.  The handler looks the agent up,
releases the lock and calls the public function with the pointer: `Receive`
pushes tasks on `doing[Net]`, and `Function` executes one critical section of
the task on top for users and network thread alike.  `agent`, `context` and
`update` are the state commands change, `heard` what the other peer was told
last, `published` counts publications.  `Each` is one turn of `MUTE_ALL`.
`StartMeetsNew`, `ReceivePong` and `Tick` are `START_AGENT`, the performance
check and the two timers.  A destroyed agent is freed memory: using it reads a
NULL `uuid` or sets `broken`.

### Lifecycle

User, monitor and network thread of one process.  What a thread has left to do
is a stack of tasks.

| Model | Code |
|---|---|
| `Call`, tasks `start` … `await` | `igs_start_with_device`, `_with_ip`, `_with_brokers`, `s_init_loop` in steps |
| tasks `stop`, `join`, `clean` | `igs_stop`: `$TERM`, the wait for the thread, what is cleared afterwards |
| `Boot`, `Incoming`, `Handle`, `Fire`, `StopPeer`, `Terminated`, `EndLoop`, `Purge`, `Tell` | `s_run_loop` from its first to its last section, with the forced-stop callbacks under the network lock |
| task `timer`, `new timer`, `listed`, `ticking`, `over` | `igs_timer_stop`, `igs_timer_start`, `core_context->timers`, the loop's own list; `over` is history |
| `MonitorThread`, `StartAgain`, `monitor`, `device`, `ip`, `present` | `igs_monitor_trigger_network_check` and its states; the device as the system reports it |
| `crash` | which assert failed or which freed memory was used |

### Api

What a function locks, waits for and calls back, for the functions of all
`igs_*.c` files and of the Python binding.  A function is the set of its
`Programs`, sequences of steps `lock`, `free`, `pass` (lock and unlock),
`callback`, `await`, `join`, …; functions that differ only in data share their
programs, and the map names the lines of each family.  `owner` says who has the
model, zyre, network, log or interpreter lock.  Threads call any function
(`CallFunction`), callbacks one that takes the model lock, alone or with the
network lock in it, or none (`Nested`), and the network thread runs the programs
of its handlers.

## 3. The runs

All configurations say `CHECK_DEADLOCK FALSE`: the counters that bound the
environment (works, churn, elections, operations, writes, calls) let every
instance come to rest, as does the real system when nobody calls it.  That
nothing is stuck before is what the liveness properties say, and in `Api` the
invariant `OnlyKnownDeadlocks`.

| Run | Instance | Properties | States |
|---|---|---|---|
| SplitCredit | 1 worker with credit 2, 2 publishing threads, 3 works, publishing agent (de)activated up to twice, fair | `QueuedIsReceived` | 31 k |
| SplitChurn | 3 split elements (one input split from two outputs, a second worker), 1 publisher, 2 works, credit 1, 2 among edits and (de)activations of workers and publisher | `TypeOK`, `QueueHasWorker`, `WorksAndCredit` | 1.5 M up to renaming works |
| ElectionAll | 2 agents, 2 elections, 2 LEADER events, every operation, fair | `TypeOK`, `TablesAgree`, `ToldTogether`, `LeaderHandled` | 0.5 M |
| EventsAll | 2 user threads, 3 agents with 2 observers each, 1 remote agent, 3 operations, fair | `TypeOK`, `ViewsRight`, `OperationsEnd` | 0.2 M |
| DiscoveryAll | 2 peers with 2 and 1 agents; 2 activations and 1 reconnection, or 1 activation and 1 restart, or 1 restart and 1 reconnection; fair | `TypeOK`, `RegistrySound`, `RegistryConverges` | 0.5 M |
| DataFlowAll | 2 local agents with 2 inputs, 1 remote agent, 1 local and 2 remote writes, a refused value, 2 operations among edits, (de)activations, departures, mute, freeze | `TypeOK`, `NothingLost`, `InOrder` | 1.5 M |
| CommandsAll | 2 agents of one name, the second created by a call; 1 user, 2 commands, 2 calls, 1 visit of the other peer, one state, one path, fair | `TypeOK`, `TakeEffect`, `QuietAsHeard`, `EveryCommandEnds` | 0.7 M |
| ServicesAll | 3 agents on 2 peers, 2 callers with 2 and 1 calls, good and bad arguments, 1 edit, four beginnings, fair | `TypeOK`, `CallsServed`, `CallsAreABag`, `EveryCallEnds` | 0.3 M |
| DefinitionAll | peers of v3 and v5, 2 edits, 2 names, definitions written by hand with duplicates, constraints of either sign with seven decimals, fair | `DefinitionTypeOK`, `CacheCurrent`, `SaveLoad`, `PeersCatchUp` | 30 k |
| IopAll | an output mapped to an input, every pair of 5 types, 2 writes of any type, 2 edits, 2 observers | `IopTypeOK`, `ValuesRight`, `ObserversUpToDate` | 3.8 M |
| LifecycleAll | 4 calls, 1 stop from outside, 3 changes of the device among 2 addresses, 1 timer, `zyre_start` may fail, fair | `TypeOK`, `RunsApart`, `ToldOnce`, `StoppedIsSilent`, `CallsReturn`, `FollowsDevice` | 0.4 M |
| ApiAll | 2 threads of an application in C or in Python and the network thread, any function each, callbacks that call one function | `OnlyKnownDeadlocks`, `OneGlobalAgent` | 2.8 M |

**Why the bounds are enough.**  A second worker lets the dispatch choose;
credit 1 exhausts a worker at once and credit 2 lets it hold works; three works
queue behind one worker; the third split element shares an input with another
output, which is the case `WORKER_GOODBYE` treats specially.  Two operations of
churn are a departure and a return, with which every late message the code can
produce (READY after GOODBYE, HELLO after EXIT, EXIT after ENTER, a reply after
an exit) occurs.  Two agents distinguish "all participants" from "some"; three
local agents make `contacted_agents` matter, since a table with one other agent
has no order.  In DataFlowAll the first agent has two elements mapped to the
remote output, so that an edit during the callback of the first moves the
cursor before the second is reached; the local write makes a publication of
each kind be under way at the same time.  In ServicesAll a call to a name
reaches one local and one remote agent, two calls of a thread can be on their
way at once, and one edit falls into any gap of either.  In IopAll values
include both signs, halves on either side of an integer, texts that are
numbers and texts that are not; the second write falls between two callbacks of
the first.  In LifecycleAll four calls are a start, a timer, a stop and another
start; three flaps are a loss, a return under another address, and one more
while the monitor acts.  In ApiAll a deadlock needs two or three threads, and
nested callbacks add nothing but more of the same sections; calls are not
counted, the state space is finite.  Two instances are left out of CommandsAll
because their outcome is known to be a deadlock (section 4): logging to a file
without a path followed by questions, and replay (`MCCommands!LogAndGet`,
`MCCommands!JustReplay`).

**Fairness.**  `FairSpec` (`Spec` in Services, `DefinitionSpec`) requires only that
the network thread is scheduled, that a thread in the middle of a call goes on,
that callbacks return and that what was sent is received while both peers stay
up; in `Discovery` also that started nodes find each other and that a stopped
peer is started again, in `Definition` that peers join and the two timers tick,
in `Lifecycle` that the monitor's thread runs.  Weak fairness suffices
everywhere: the mutex is free again after finitely many steps, except in the
defects below.  Users are never obliged to do anything.

**Scope of some properties.**  What their definitions except, and why:

* `WorksAndCredit`: that credits are *conserved* holds until the first
  activation, deactivation or edit; after it credit may be lost but is not
  forged, and works are still handed out once.
* `QueuedIsReceived` releases works of a publisher that is deactivated.
* `ViewsRight`: exact views are about threads that take turns; otherwise
  `IGS_AGENT_EXITED` of a deactivation may follow `IGS_AGENT_ENTERED` of the next
  activation.  About remote agents it speaks of the first observer only.
* `RegistrySound`: that everybody is told `IGS_AGENT_KNOWS_US` excludes restarts
  and reconnections, after which a definition may be received without its
  notification; agreement at rest excludes restarts.
* `LeaderHandled` excludes events that meet an inactive participant.
* `NothingLost` excludes what was under way when the process froze or the
  remote agent left, a walk whose cursor was moved forward, and for replies a
  freeze, which drops them.
* `InOrder` excludes replies: a reply and a publication that crosses it come by
  two ways that are not ordered.
* `CallsServed` is about agents that stay active and keep a service with as many
  arguments; `TakeEffect` and `QuietAsHeard` about agents that were not destroyed
  under a handler.
* `CacheCurrent` excludes a constraint that was refused after the old one was
  freed (section 4); `SaveLoad` what files do not hold: callbacks,
  `class_set_explicitly` and the seventh decimal.
* `ValuesRight` excludes bools and, for strings, raw data, which are stored
  without a check, and writes before `igs_constraints_enforce`.
* `CallsReturn`, `FollowsDevice` exclude a failed `zyre_start`, after which the
  network lock is never released; `LifecycleAll` has one thread that starts and
  stops (`Concurrent = FALSE`): two crash (section 4).
* `OnlyKnownDeadlocks` names its exceptions one by one (section 4).

## 4. Where the code differs from its documentation

Met while modelling.  The models contain all of them; the properties of section 3
except them where they must.  When a document of the repository states the
contrary, the statement is kept as a definition that no run checks (third
column); adding it to the configuration of its module shows the trace.

| Code | What happens | Statement |
|---|---|---|
| `igs_split.c:332` | the walk of `split_add_work_to_queue` goes on with a splitter that was freed while the mutex was released | `SplitProps!NoFreedSplitter` |
| `igs_network.c:2757` | the LEADER loop never ends, mutex held, when a participant is inactive | `Election!LeaderReturns` |
| `igsagent.c:235` | only the first agent event observer hears about remote agents already present | `AgentEvents!AllObserversKnowRemotes` |
| `igs_network.c:2802` | the EXIT of the former node of a restarted process destroys agents that are back | `Discovery!AgreementAfterRestart` |
| `igs_network.c:1491` | `CURRENT_OUTPUTS` of an agent that left and returned arrives before its new definition: the handler returns with the mutex held | `DataFlow!RequestAnswered` |
| `igs_service.c:1224` | the timestamp of a call is set on the caller, not on the local callee, who is to read it according to `ingescape.h` | `Services!CalleeStamped` |
| `igs_parser.c:480-530` | loading a definition appends replies the service has already; `ingescape.h:406` wants unique names | `Definition!RepliesUnique` |
| `igsagent.c:404` | timestamps can be disabled again; `ingescape.h:768` says they cannot | `Iop!TimestampsStay` |
| `igs_model.c:1035-1040` | a missing `break`: raw data written to a string escapes its regular expression | `Iop!TextsMatch` |
| `igs_model.c:183`, `221` | reading a NULL string as a number passes NULL to `atoi`, after a message that says 0 is returned | `Iop!ReadsReturn` |
| `igs_performance.c:19-23`, `igs_network.c:2654-2676` | the check sets variables of its own file and PONG counts in those of the context: a check never finishes and no other one can begin (`ingescape.h:930`) | `Commands!CheckEnds` |
| `igs_monitor.c:101` | with brokers there is no device name: the second check compares NULL (`ingescape.h:936`) | `Lifecycle!MonitorSurvives` |
| `igs_monitor.c` | after a restart that failed the monitor forgets the device and does not try again (`ingescape.h:947-949`) | `Lifecycle!ComesBack` |

Deadlocks, named in `Api!OnlyKnownDeadlocks` or left out of an instance:

* in Python, `igs.stop()` and `igs.monitor_stop()` keep the interpreter lock while
  they wait for a thread whose callbacks need it;
* forced-stop callbacks run with the network lock: `igs_is_started` in one of them
  waits for ever, although `ingescape.h:143-153` invites to clean up there;
* the first log takes the log lock and announces its path under the zyre lock,
  while other functions log with the zyre lock held;
* `igs_set_command_line_from_args` returns with the model lock;
* replay calls `igsagent_input_type` with the model lock held (`igs_network.c:919`);
* a log file requested without a path lets the next `GET_CURRENT_INPUTS`,
  `_OUTPUTS` or `_ATTRIBUTES` log, and thereby announce, under the model lock
  (`igs_network.c:1474`, `igs_admin.c:148-170`);
* a failing `zyre_start` returns with the network lock held while `igs_start_*`
  reports success (`igs_network.c:3089-3093`).

Other behaviours the models allow and that a maintainer may want to know of.

Splits, elections, discovery, data flow:

* a dispatch sends one work only, so that works can wait beside a worker with
  credits until another event (`igs_split.c:20`);
* the publishing agent may be deactivated during the walk of the splitters;
  `network_publish_output` then reads `agent->context` (`igs_network.c:3734`);
* `WORKER_HELLO` decided before and sent after `WORKER_GOODBYE` leaves a worker
  without split element, and one sent after `REMOTE_AGENT_EXIT` a worker that is
  no remote agent (`igs_network.c:1187`, `igs_split.c:362`);
* an agent that joins a decided election hears nothing (`igs_network.c:4754`);
* the record of a remote agent is read unlocked (`igsagent.c:228`);
* `IGS_AGENT_KNOWS_US` may reach an agent the remote one does not know yet
  (`igs_network.c:1205`);
* an agent that is muted or whose process is frozen still answers
  `GET_CURRENT_OUTPUTS` (`igs_network.c:1407`), and a publication handled when
  the process is frozen during a callback goes on to the remaining inputs
  (`igs_network.c:118`);
* a reply may overwrite a newer publication (`igs_network.c:1480`), and
  publications that arrive after the exit of their agent are rejected;
* an edit of the mapping during a callback sends the walk back to the first
  element, so that inputs are written and observed again; adding an element
  that exists already moves the cursor onto it and skips what lies between
  (`igs_network.c:269`, `igs_mapping.c:402`);
* an element mapped to `*` subscribes but never matches in
  `s_handle_publication` (`igs_network.c:228`).

Services and definitions:

* a missing argument is not always rejected as the comment at
  `igs_network.c:2576-2589` says: the timestamp frame takes its place;
* the walk of the local callees ends at the first agent that a callback
  destroyed; those behind it are not called (`igs_service.c`);
* `s_model_add_constraint` frees the old constraint before it refuses the new
  one, and does not export the definition;
* `class_set_explicitly` is lost when a definition is loaded, and after one of
  another name the channel and the group are still those of the old name;
* `LOAD_MAPPING` replaces the mapping without the comparison the other ways make
  (`igs_network.c:1354-1406`).

Commands and logs:

* `igs_log_set_file(false, …)` resets the path without announcing it, and the log
  file is closed under another lock than the one it is written under;
* `GET_CURRENT_*` handlers say they check the requester and do not
  (`igs_network.c:1430`, `1531`);
* `START_AGENT` may meet an agent whose creation is not finished
  (`igsagent.c:67-90`, `igs_network.c:1697`);
* freeze and state callbacks of two calls may be swapped, as they run unlocked
  (`igs_network.c:4226`);
* while frozen a process still writes inputs from works and commands
  (`ingescape.h:178-181`).

Start, stop, timers, monitor, core:

* early returns of `s_init_loop` lead to the `assert (network_actor)` of the caller;
* STOP_TIMER is sent on the child's end of the pipe and never reaches the loop:
  the timer stays there, silent, until the run ends (`igs_network.c:5112-5121`);
  ids begin again with each run;
* two threads in `igs_stop` destroy the actor twice; `igs_clear_context` can be
  overtaken by a monitor that restarts; `core_init_context` tests outside its
  lock (`igs_core.c:34-36`).  `README.md:58` calls the library thread-safe;
* `IGS_NETWORK_OK_AFTER_MANUAL_RESTART` (`ingescape.h:956`) is never sent;
* two global agents may be made by two first calls (`igs_core.c:308-315`), one of
  them by an event that the first one announces;
* `igs_clear_definition`, `igs_*_remove` and `igs_service_remove` free callback
  wrappers that a delivery under way may hold.

Python binding, read but not modelled beyond its locks: with two observers the
tuple of arguments is released in the loop and used again; each call of
`observe` registers the trampoline once more, so that n observers make n² calls;
lists are walked with `DL_FOREACH` while the current element is freed, and
without the interpreter lock; `service_remove` leaves its entry in the list.

## 5. The proofs

The modules `*Proofs` extend the module they are about; nothing in them changes
it.  Three of them hold the proofs of two components each, which share nothing
(`ServicesApiProofs`, `ElectionIopProofs`, `AgentEventsDefinitionProofs`); that is
why `Api`, `Iop` and `Definition` have specifications and some definitions with
names of their own.  TLAPS proves the following for every value of the constants
that satisfies the assumption of the module: any number of threads, agents,
peers, inputs, works and messages, and any value of the bounds of section 3.

| Theorem | Statement |
|---|---|
| `SplitProofs!SplitInvariant` | `Spec => []SInv`, the first inductive invariant |
| `SplitProofs!SplitType` | `Spec => []TypeOK` |
| `SplitProofs!SplitQueues` | `Spec => []QueueHasWorker` |
| `SplitProofs!SplitWorksAndCredit` | `Spec => []WorksAndCredit` |
| `ServicesApiProofs!TypesKept` | `Spec => []TypeOK` |
| `ServicesApiProofs!CallsImplementBag` | `Spec => CallsAreABag`, the refinement of `CallBag` |
| `ServicesApiProofs!CallsServedKept` | `Spec => []CallsServed` |
| `ServicesApiProofs!KnownDeadlocksOnly` | `ApiSpec => []OnlyKnownDeadlocks` |
| `ServicesApiProofs!GlobalAgentOnce` | `ApiSpec => []OneGlobalAgent` |
| `DataFlowProofs!DataFlowType` | `Spec => []TypeOK` |
| `DataFlowProofs!NothingIsLost` | `Spec => []NothingLost` |
| `DataFlowProofs!ValuesInOrder` | `Spec => InOrder`, an action property |
| `DiscoveryProofs!DiscoveryType` | `Spec => []TypeOK` |
| `DiscoveryProofs!RegistryIsSound` | `Spec => []RegistrySound` |
| `ElectionIopProofs!ElectionType` | `Spec => []TypeOK` |
| `ElectionIopProofs!ElectionParticipation` | `Spec => []Participation` |
| `ElectionIopProofs!ElectionGroups` | `Spec => []PeerRunsForAgents` |
| `ElectionIopProofs!ElectionTables` | `Spec => []TablesAgree` |
| `ElectionIopProofs!ElectionTold` | `Spec => []ToldTogether` |
| `ElectionIopProofs!IopTypeCorrect` | `IopSpec => []IopTypeOK` |
| `ElectionIopProofs!IopValuesRight` | `IopSpec => []ValuesRight` |
| `ElectionIopProofs!IopObserversUpToDate` | `IopSpec => []ObserversUpToDate` |
| `AgentEventsDefinitionProofs!EventsType` | `Spec => []TypeOK` |
| `AgentEventsDefinitionProofs!ViewsAreRight` | `Spec => []ViewsRight` |
| `AgentEventsDefinitionProofs!DefinitionTypeCorrect` | `DefinitionSpec => []DefinitionTypeOK` |
| `AgentEventsDefinitionProofs!CachesCurrent` | `DefinitionSpec => []CacheCurrent` |
| `AgentEventsDefinitionProofs!SavedIsLoaded` | `DefinitionSpec => []SaveLoad` |
| `CommandsProofs!CommandsType` | `Spec => []TypeOK` |
| `CommandsProofs!CommandsTakeEffect` | `Spec => []TakeEffect` |
| `CommandsProofs!QuietIsHeard` | `Spec => QuietAsHeard`, an action property |
| `LifecycleProofs!ForcedOnce` | `Spec => []ToldOnce` |
| `LifecycleProofs!TimersSilent` | `Spec => StoppedIsSilent`, an action property |
| `LifecycleProofs!LifecycleType` | `Spec => []TypeOK` |
| `LifecycleProofs!RunsStayApart` | `Spec => []RunsApart`, if one thread at a time starts and stops (`~Concurrent`) |

**Assumptions.**  They are what the code gives: values that stand for "none"
differ from all others; initial tables are well typed; `Publishers` of Split
and `Agents` of Discovery are finite, as threads and agents of a network are
(the counts of `Spent` and the set of agents announced to a newcomer need it);
the application, the monitor and the network loop are different threads; the
split elements of a worker that are loaded before the start are its own,
each once, for the parser refuses duplicates (`igs_parser.c:720-735`).  Without
the last one a split element would be greeted twice and get twice its credit.
In Commands, what is whispered and called has the arguments its function takes
(`Fits`): a flag, a state, a path, an element.  In Iop, the types are those of
`igs_io_value_type_t` and outputs are finitely many; a user writes a value of the
type of the function that is called, or raw data of any shape.  In Definition,
the definition an agent begins with is one that the functions of the library
make (`Sound`: names once, constraints that suit their types), and what is
loaded is any text a parser accepts (`Documents`), with names repeated and
constraints that suit nothing.

**Splits.**  `QueueHasWorker` is not inductive because `WalkStep` appends a work
to the queue of a splitter chosen when the walk began.  `LiveWalk` supplies the
missing fact: a splitter that is left to walk either still exists or is marked
stale, in which case nothing is queued for it.  `Walking` relates `pc`, `walk`
and `publishing`.  `TypeOK` needs an argument too: `Debit` keeps credits in
`Nat` only because a dispatch requires the best worker to have one left, and
the best worker has at least as many credits as any other.  The dispatch is
proved once (`TriggerFacts`) and used in the four actions that end with it.

`HInv` adds that each work is in one place: coming from a publication whose
walk has not reached the splitter, queued, in the hands of a thread, in a
channel, or received.  These five sets are disjoint (`Apart`), each holds a
work once, and all of it has been issued; `Whispering` says that a thread that
is about to dispatch has its hands free.  Each action moves one work from one
set to another, and the head of a queue or of a channel is not in its tail.

`CInv` adds the credit.  `Spent(s)` is a sum of four counts; `SpentIs` gives it
piece by piece, and lemmas on finite sets (`AboutAppend`, `AboutTail`,
`HeldPut`, `HeldTaken`) say how each piece changes when a message is sent or
taken.  `Addressed` is needed for them: what a worker's peer sends and receives
is about its own split elements, so that a message counts in one channel only.
With these each step either keeps `credit + Spent` of every split element
(`Kept`), or loses some (`Lost`: a work to an unknown agent, a READY of a worker
that is gone, a removed worker), or is `RecvHello`, which adds `Credit` and
counts one `granted`; this proves `CreditNotForged` whatever users do.
`CreditConserved` needs that until the first disturbance no step loses and
`RecvHello` adds only once: `Still` (everybody is present and nobody says
goodbye), `Greeted` (a split element is either behind the cursor of the
greeting loop, with one WORKER_HELLO under way or one worker, or has none) and
`Unused` (nothing is under way for a split element without worker, so that the
credit it begins with is all it has).

**Services.**  `Sound` is `Types` with `Placed`: what travels in the channels is
a request made, addressed to an agent of the right peer, and in the order of
the calls of its thread (`Mail`); a walk has the agents it has still to call
(`Walks`); a handler has the request it serves (`Handled`); what was served was
made (`ServedBefore`).  From it every step is shown to be a step of `CallBag` or
to leave its variables unchanged under the refinement mapping.  Order is the
part that is not obvious: a local call is made at once while whispers of the
same thread may be under way, but never to the same agent, as an agent is local
to one peer.  `DueInv` is the invariant of `CallsServed`: a request that is due is
in a channel, in a handler or among those a walk has still to reach, wherever
the agent stays active with its service.

**Data flow.**  `DInv` has five parts.  `Types` relates the phase of the walk to
its fields.  `Ordered`: values of one publisher are queued in the order of the
writes, the value in hand is not younger than those queued, the value an input
holds not younger than the one in hand.  `Owing`: a value owed to an input is
queued, or in hand with the input's element still ahead of the cursor, and the
input will accept it.  `Informed`: the last message about a remote agent in the
channel, or the record when there is none, says whether it is there; therefore
a publication of a known agent is never refused.  `Asking`: an agent that asked
for outputs is pending, has a request or an answer under way, or the answer is
being handled.

**Discovery.**  Three invariants, each on top of the one before.  `Shape` relates
what a channel holds to what its receiver knows of the sender: enter and join
first, then messages, then an exit that is either the timeout of a reconnection
or the last message of a node that is gone (`Pair`); from it follow the
assertions of the handlers.  `KInv` says what will be known when the channel is
empty: the last news of an agent is its definition when it is active and its
exit when it is not (`Remembered`, `Forgotten`), as long as nobody restarts.
`RInv` adds what agents were told: that of an agent that entered, and that a
remote agent which became known has answered, or will with a message that is
behind its definition in the channel (`Confirmed`).

**Elections.**  The inductive invariant adds to the properties what the
LEADER loop relies on: `StayedAttend` (those counted as staying participate),
`Attended` (each of them is still to be called or was told the outcome of the
event being handled) and `ToldSoFar`.  `ToldTogether` alone is not inductive,
for it says nothing in the middle of the loop, when some attendees have been
told and others not.

**Agent events.**  `ViewsRight` speaks of the moments when no thread is operating,
which no step leads to by itself; `EventsInv` speaks of the others.  What an
observer of an active agent was not told is owed to it by a thread whose loop has
that observer still ahead (`Ahead`): the loop on the observers of one agent has
not passed it, or its agent is not in `contacted_agents` yet.  `ToldOrOwed` says
it of the events of local agents, whatever threads overlap: the activation of `a`
and that of `b` may each be the one that tells (`WillHear`, `WillTell`), and each
loop selects agents from the table as it is when the lock is taken again.  An
agent activated behind the back of a loop is not missed because its own
activation has all others ahead of it.  `RemotesSeenOrOwed` says it of remote
agents, for first observers only, as the loop on the others ends after one
call.  `TakingTurns` holds while no two user threads have overlapped: an agent
that is still believed present after its exit will be told of it (`WillExit`),
and an activation callback that is out of date will be called (`WillSay`).
`Quiet` leaves nobody who owes.

**Commands.**  `TakeEffect` is about rest; `CInv` is about every moment.
`HeardNow` is the first half agent by agent and field by field, which holds while
tasks are under way because a change and its announcement are one section under
the lock, or the change leaves a flag in `update`.  `NotStale` adds what holds
with flags too: mute, output mute and freeze are never out of date at the other
peer, for they are announced whether or not a definition waits to be sent, an
inactive agent is forgotten, and a peer that comes back begins with nothing;
`QuietAsHeard` follows from it and from the test of `network_publish_output`.
`Reaching` is the second half: an agent that `MUTE_ALL` has still to reach is on
the network thread's stack, as the next one to mute or among those left to walk
(`Covers`), and an agent that is freed is not to be reached any more.  What
replaces the task on top of a stack keeps the tasks below it (`DoTasks`), so that
each action has only its own task to account for.

**Life cycle.**  `RunInv` is one invariant for `ToldOnce` and `StoppedIsSilent`.
`ToldOnce` needs that no stop is pending while a run still listens
(`phase \in Asking => ~external`), which is what resetting `external_stop` in
`s_init_loop` brings.  `StoppedIsSilent` needs `over \cap listed = {}`, that ids
grow within a run, and that ids of an ended run are gone with its loop.  Both
proofs hold with users and the monitor starting and stopping at once
(`Concurrent`) and with starts that fail (`MayFail`).

`RunsApart` does not hold for `Concurrent`: two threads that start the peer at
once meet the assert of `s_init_loop`.  For one thread at a time `ApartInv` adds
to `RunInv` and the types: the task stack of a thread is a path of a fixed graph
(`Chains`: a stop is followed by the clean-up, a start by its preparation); when
the application starts or stops the peer the monitor does not (`Turns`); a
thread of the network is there from a start to the next stop (`Thereby`); a
thread that is at a task has brought about what the task relies on (`Ready`:
nothing runs when the context is prepared or cleared, the device is set before
the loop is); the model lock is held over a start and within `igs_is_started`,
else by nobody (`Holders`); what is left of a run is left only when `zyre_start`
failed (`Left`).  The graph is what the sequences of calls in the model allow;
lemmas on it (`PopChain`, `PushChain`, `Followers`) say what comes after a task,
so that each action is one case.

**Values.**  `IopTypeOK` is about shapes and is proved first (`IopTyped` adds the
shapes of what travels).  `ValuesRight` needs to know what a value stands for
after several hops: `OriginsTold` says of every IO and of every frame under way
that it tells what was written, along the types it went through (`Says`,
`Tells`), and is kept by each hop because a conversion only looks at the value
before it (`TellsFirst`, `TellsNext`, `TellsOn`, `TellsRead`).  `VerifiedObeys` is
the boundary case: what `Verified` tested is what is stored, also when an
integer IO is given a double.  `ObserversUpToDate` is about moments when nobody
is about to call; `ToldOrPending` is about all: an observer that has seen another
value is in the copied list of a thread which has still to reach it
(`CallsSound`, `Registered`), and which passes the value of the IO as it is then.

**Definitions.**  `SaveLoad` is not inductive: it holds because every function
leaves each name once and each constraint as parsing gives it (`WellMade`).
The lemmas on the tables say what removing, changing and adding an entry leave
(`DroppedFacts`, `ChangedFacts`, `AddedFacts`, on `NameFound`: the entry of a name
exists, being the first).  `FirstOnlyFacts` is about loading, whose duplicates are
ignored: the result has each name once, and a table without duplicates comes
through unchanged.  `ParsedAgain` is the fixed point: a constraint that was
parsed, printed with six decimals and parsed again is the one printed.
`CacheCurrent` needs the exports of the two edits that do not export: registering
a callback for a loaded service (`ServiceInitKeeps`: what is exported does not
change) and a refused constraint (`AddConstraintKeeps`: nothing changes if there
was none; if there was one, `uncached`).

**Locks.**  The programs of `Api` are typed.  A thread holds a set of tokens: its
locks, and what it knows (`booting`: the start waits for its signal; `telling`:
it tells a forced stop with the network lock; `off`: there is no network thread;
`new`: it makes the global agent).  `Allows` says which step may be taken with
which tokens, in the order `Rank` (interpreter, model, end of the start, network,
zyre, log), and `After` what is held then.  `Runs(t, L, p, M)` says that a program
is allowed from `L` to its end; it is a statement about each position of a
program, so that programs are put together without induction (`RunsBoth`,
`UnderRuns`), and each family of functions is typed from the pieces it is made
of (`FineFunctions` … `PyAgentStart`, `HandleStarts`, `BootRuns`, `LeaveRuns`).  `ApiInv`
says that every thread is within such a program and has the locks it claims
(`Faithful`).  A callback, a log and the making of the agent are replaced by
programs of the same type (`CallbackExpands`, `LogExpands`, `NewExpands`).

For `OnlyKnownDeadlocks`, of threads that wait for each other take what each
waits for in the order: who has it waits for something later (`WaitsLater`), and
the order ends.  The exceptions of `Allows` (a callback with the network lock, a
path sent under the log lock, a replay that asks for a type under the model
lock) are three of the named cases; the others are a return with the lock and
`igs.stop()` with the interpreter lock.  In C a thread that waits for the end of
the network thread holds nothing, so that nobody waits for it.  For
`OneGlobalAgent`, `new` is held with the interpreter lock from the test to the
assignment, and is lost by no step in between unless callbacks are called there.

**Only model-checked.**  Liveness (`CallsReturn`, `FollowsDevice` and the others
that need fairness): TLAPS has neither fairness nor `ENABLED`.  Every safety
property that a run checks is a theorem.

## 6. What is not modelled

`PROJECT.json` lists every component with its status.  Left out for good:
vendored yajl, the JavaScript binding (conversions of arguments; its calls and
callbacks run on one thread), the tests, the formats of logs.  The Python
binding is modelled for its locks only, the parser for what it keeps and not
for its tokens, service calls with one service per agent.

Inside the modelled components: security, bindings to several outputs at a time,
high water marks of ZeroMQ, proxies, the data race between `igs_stop` purging
tables and user threads reading them, splitters that survive a stop of the
publishing process, cloning of agents, several commands of two peers that cross
(the order of one channel is all a handler sees).  Models are of one aspect
each: `DataFlow` has no types, `Iop` has no departures, `Lifecycle` has no
tables; what joins them is the discipline of the mutex, which `Api` checks for
all functions.

## 7. Plan

What could come next, in this order:

1. Abstract specifications: a registry that `Discovery` implements, a bag of
   works that `Split` implements, a register per input that `DataFlow`
   implements; the invariants proved above are what the step cases need.
2. Composition: `Lifecycle` with `Discovery` (a stop in the middle of an
   exchange), two peers that command each other.
3. The lists of callbacks of the Python binding.
