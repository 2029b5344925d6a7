-------------------------------- MODULE Api --------------------------------
(***************************************************************************)
(* What a call of the library locks, waits for and calls back: threads of  *)
(* the application and the network thread, for an application in C and for *)
(* one in Python, whose threads keep the interpreter lock (GIL) during a   *)
(* call (src/src, src/bindings/python/src).                                *)
(*                                                                         *)
(* A function is the set of its programs, one for each of its outcomes: a  *)
(* program is a sequence of steps.  Functions that differ only in the data *)
(* they read or write have the same programs.  The locks are pthread       *)
(* mutexes that are not recursive.                                         *)
(***************************************************************************)
EXTENDS Naturals, Sequences, FiniteSets

CONSTANTS
  Users,    \* threads of the application
  Main,     \* the one of them that starts and stops
  Net,      \* network thread
  None

ASSUME ApiAssumption ==
  Main \in Users /\ Net \notin Users /\ None \notin Users \cup {Net}

VARIABLES
  python,   \* the application is in Python
  observed, \* agents other than the global one have event callbacks
  todo,     \* steps left to each thread
  owner,    \* thread that has each lock
  made,     \* global agents made
  loop,     \* network_actor: "off", "boot", "run", "leave", "telling" (forced stop), "ended"
  leaked    \* history: a function returned with the model lock

apiVars == <<python, observed, todo, owner, made, loop, leaked>>

AllThreads == Users \cup {Net}
Locks == {"model", "zyre", "network", "log", "gil"}

(***************************************************************************)
(* Programs.                                                               *)
(***************************************************************************)

Step(do, on) == [do |-> do, on |-> on]
One(do) == <<Step(do, None)>>
Lock(m) == <<Step("lock", m)>>       \* model_read_write_lock, s_lock_zyre_peer...
Free(m) == <<Step("free", m)>>
Under(m, p) == Lock(m) \o p \o Free(m)

Pass(m) == <<Step("pass", m)>>       \* a section in which nothing is waited for
Logs == One("log")                   \* may log
Tell == One("callback")
Send == Pass("zyre")                 \* zyre_shout, zyre_whisper, zyre_join...
Quiet == Pass("model")
Section == Under("model", Logs)
Announced == Under("model", Send)
Forgets == Lock("model") \o Logs \o One("leak")   \* an error path without the unlock

\* The callbacks of a snapshot: the lock is released before and taken after each.
CallbacksLocked == Under("model", Tell)        \* mutant: the lock is kept
Callbacks == Tell \o Quiet

\* The agent was destroyed (its uuid is NULL): the function returns at once.
Checked(ps) == {<<>>} \cup ps

(***************************************************************************)
(* igs_model.c                                                             *)
(***************************************************************************)

\* igsagent_input_buffer... igsagent_input_zmsg.
InputReads == Checked({Section})
\* igsagent_output_bool... igsagent_attribute_data.
OutputReads == Checked({Section})
\* igsagent_input_set_bool... igsagent_input_set_data.
InputWrites == Checked({Section, Quiet \o Callbacks})
\* igsagent_output_set_*: network_publish_output may whisper a work to a worker,
\* without the model lock, while the list of works is walked.
OutputWrites ==
  Checked({Section, Quiet \o Callbacks, Quiet \o Announced \o Callbacks})
\* igsagent_attribute_set_*.
AttributeWrites == Checked({Section, Quiet \o Callbacks})
\* igsagent_*_add_constraint, _set_description, _description, _set_detailed_type
\* and igsagent_clear_*.
Annotations == Checked({Section})
\* igsagent_*_type and _count.
TypeQueries == Checked({Section})
\* igsagent_*_list and _exists.
ListQueries == Checked({Section})
\* igsagent_observe_input, _output and _attribute.
Observers == Checked({Section})
\* igsagent_output_mute, _unmute and _is_muted.
OutputMutes == Checked({Section, Announced})

(***************************************************************************)
(* igs_definition.c, igs_mapping.c, igs_split.c                            *)
(***************************************************************************)

\* igsagent_definition_json... igsagent_definition_version.
DefinitionReads == Checked({Section})
\* igsagent_set_family... igsagent_definition_set_version.
DefinitionWrites == Checked({Section})
\* igsagent_*_create and igsagent_*_remove.
IoEdits == Checked({Section})
\* igsagent_definition_set_path and _save.
DefinitionFiles == Checked({Announced, Section})
\* igsagent_mapping_load_str... igsagent_mapping_count.
MappingLoads == Checked({Section})
\* igsagent_mapping_add... igsagent_mapping_remove_with_name.
MappingEdits == Checked({Section})
\* igsagent_mapping_set_path and _save.
MappingFiles == Checked({Announced, Section})
\* igsagent_split_add greets the worker's publisher after the section.
SplitEdits == Checked({Section, Quiet \o Announced})

(***************************************************************************)
(* igs_service.c, igs_channels.c                                           *)
(***************************************************************************)

\* igs_service_args_*: the caller's own list.
ServiceArguments == {<<>>}
\* igsagent_service_init... igsagent_service_arg_add.
ServiceEdits == Checked({Section})
\* igsagent_service_arg_remove... igsagent_service_reply_add.
ServiceTexts == Checked({Section})
\* igsagent_service_reply_set_description... igsagent_service_reply_arg_add.
ReplyEdits == Checked({Section})
\* igsagent_service_reply_arg_set_description... igsagent_service_reply_arg_remove.
ReplyTexts == Checked({Section})
\* igsagent_service_call: whispered, or the callback of a local agent.
ServiceCalls == Checked({Section, Announced, Announced \o Callbacks})
\* igsagent_service_count... igsagent_service_arg_exists.
ServiceQueries == Checked({Section})
\* igsagent_service_has_replies... igsagent_service_reply_arg_exists.
ReplyQueries == Checked({Section})
\* igs_channel_join, _leave and _shout_*.
ChannelShouts == {Section, Announced}
\* igs_channel_whisper_*: to each agent or peer of that name.
ChannelWhispers == {Section, Announced}
\* igs_peer_add_header and _remove_header.
Headers == {Section}

(***************************************************************************)
(* igs_network.c, igs_monitor.c, igs_performance.c, igsagent.c, igs_admin.c *)
(***************************************************************************)

\* igs_broker_add... igs_broker_set_advertized_endpoint.
BrokerEdits == {Section}
\* igsagent_set_name, _name and _uuid: the contested elections are left and joined.
AgentNames == Checked({Section, Announced})
\* igs_freeze and igs_unfreeze: the callbacks are called in the midst of the section.
Freezes == {Section, Announced \o Callbacks}
\* igsagent_set_state, then agent_LOCKED_propagate_agent_event.
States == Checked({Section, Announced \o Callbacks})
\* igsagent_mute and igsagent_unmute.
Mutes == Checked({Section, Announced \o Callbacks})
\* igs_set_command_line_from_args: two of its errors return with the lock.
CommandLines == {Section, Forgets}
\* igsagent_mapping_set_outputs_request... igs_observe_forced_stop.
DeviceLists == {Section}
\* igs_enable_security, igs_disable_security and igs_zmq_authenticator.
Security == {Section}
\* igsagent_election_join and _leave.
Elections == {Section, Announced}
\* igs_net_set_discovery_interval... igs_set_ipc_dir.
NetSettings == {Section, Announced}
\* igs_ipc_dir... igs_pipe_inside_ingescape, igs_timer_start, igs_timer_stop.
SocketSettings == {Section, <<>>}
\* igs_net_performance_check.
Performance == {Send}
\* igsagent_activate and _deactivate: what the others and the agent are told.
Activations == Checked({Section, Announced \o Callbacks})
\* igsagent_is_activated, _observe and _observe_agent_events, igsagent_rt_*.
AgentQueries == Checked({Section, <<>>})
\* igsagent_parameter_*: the deprecated names of the functions on attributes.
AgentParameters == Checked(AttributeWrites \cup Annotations)
\* igs_log_set_file, _set_syslog, _set_stream, _file_path.
LogSettings == {Announced, Section, <<>>}

\* igs_is_started takes the network lock under the model lock.
IsStarted == Under("model", Pass("network"))

\* s_init_loop, then zactor_new waits for the signal of the thread.
StartLoop == Under("network", Logs \o Under("zyre", Logs) \o Send) \o One("spawn") \o One("await")
\* igs_stop: zactor_destroy, then a section.
Stop == One("stop") \o Quiet
\* igs_start_with_device, _with_ip and _with_brokers.
Start == Stop \o Under("model", Logs \o StartLoop)
\* igs_monitor_is_running, igs_observe_monitor and igs_monitor_set_start_stop.
MonitorCalls == {Quiet}

(***************************************************************************)
(* igs_core.c: the same functions for the global agent.                    *)
(***************************************************************************)

\* core_init_agent comes first, and tests core_agent without a lock ...
Global(ps) == {One("init") \o p : p \in ps}
\* ... then igsagent_new makes the agent.
NewAgent ==
  Quiet \o Announced \o (IF observed THEN Callbacks ELSE <<>>) \o One("agent")

\* igs_agent_set_name... igs_agent_is_muted.
CoreAgent == Global(AgentNames \cup States \cup Mutes)
\* igs_observe_mute, igs_observe_agent_events: the wrapper, then the callback.
CoreObservers == Global({Quiet \o Quiet})
\* igs_input_bool... igs_attribute_data.
CoreReads == Global(InputReads \cup OutputReads)
\* igs_input_set_bool... igs_attribute_set_data.
CoreWrites == Global(InputWrites \cup OutputWrites \cup AttributeWrites)
\* igs_input_add_constraint... igs_clear_attribute.
CoreAnnotations == Global(Annotations)
\* igs_observe_input, _output and _attribute.
CoreIoObservers == Global({Quiet \o Quiet})
\* igs_output_mute... igs_attribute_exists.
CoreQueries == Global(OutputMutes \cup TypeQueries \cup ListQueries)
\* igs_definition_load_str... igs_definition_set_version; igs_clear_definition
\* forgets the wrappers in a second section.
CoreDefinition == Global(DefinitionReads \cup DefinitionWrites \cup {Quiet \o Quiet})
\* igs_*_create; igs_*_remove forgets the wrapper in a second section.
CoreIoEdits == Global(IoEdits \cup {Quiet \o Quiet})
\* igs_mapping_load_str... igs_mapping_save.
CoreMapping == Global(MappingLoads \cup MappingEdits \cup MappingFiles \cup SplitEdits)
\* igs_log, igs_election_join... igs_service_call.
CoreCalls == Global({Logs} \cup Elections \cup ServiceCalls)
\* igs_service_init and igs_service_remove.
CoreServices == Global({Section, Quiet \o Quiet})
\* igs_service_set_description... igs_service_reply_arg_exists.
CoreServiceEdits == Global(ServiceEdits \cup ReplyEdits \cup ServiceQueries)
\* igs_rt_*: igs_rt_set_time publishes under the lock.
CoreTime == Global({<<>>, Section, Quiet \o Announced \o Quiet})
\* igs_parameter_*.
CoreParameters == Global(AgentParameters)
\* igs_freeze, igs_set_command_line_from_args, igs_enable_security...
CoreNetwork ==
  Global(BrokerEdits \cup Freezes \cup CommandLines \cup DeviceLists \cup Security \cup NetSettings
           \cup SocketSettings \cup ChannelShouts \cup ChannelWhispers \cup Headers \cup Performance
           \cup LogSettings \cup MonitorCalls \cup {IsStarted})

CorePrograms ==
  CoreAgent \cup CoreObservers \cup CoreReads \cup CoreWrites \cup CoreAnnotations \cup CoreIoObservers
    \cup CoreQueries \cup CoreDefinition \cup CoreIoEdits \cup CoreMapping \cup CoreCalls \cup CoreServices
    \cup CoreServiceEdits \cup CoreTime \cup CoreParameters \cup CoreNetwork
AgentPrograms ==
  Activations \cup AgentQueries \cup DefinitionFiles \cup ServiceArguments \cup ServiceTexts \cup ReplyTexts
    \cup ReplyQueries \cup Observers
\* Those of Main only.
MainPrograms == Global({Start, Stop})

Programs(t) ==
  CorePrograms \cup AgentPrograms \cup (IF t = Main THEN MainPrograms ELSE {})

(***************************************************************************)
(* The Python binding: a call keeps the GIL to its end.                    *)
(***************************************************************************)

GilReleased(ps) == ps                          \* mutant: Py_BEGIN_ALLOW_THREADS
Held(ps) == {Under("gil", p) : p \in ps}

\* core.c: agent_set_name_wrapper... agent_is_muted_wrapper.
PyAgent == Held(CoreAgent)
\* igs_*_add_constraint_wrapper, _set_description, _description, _set_detailed_type.
PyAnnotations == Held(CoreAnnotations)
\* input_*_wrapper, output_*_wrapper, attribute_*_wrapper.
PyInputs == Held(Global(InputReads \cup InputWrites))
PyOutputs == Held(Global(OutputReads \cup OutputWrites))
PyAttributes == Held(Global(OutputReads \cup AttributeWrites))
\* observe_input_wrapper: the trampoline and the tuple of the observer.
PyObservers == Held(CoreIoObservers \cup CoreObservers)
\* output_mute_wrapper... attribute_exists_wrapper.
PyQueries == Held(CoreQueries)
\* definition_load_str_wrapper... definition_version_wrapper.
PyDefinition == Held(CoreDefinition)
\* *_create_wrapper and *_remove_wrapper.
PyIoEdits == Held(CoreIoEdits)
\* mapping_load_str_wrapper... split_remove_with_name_wrapper.
PyMapping == Held(CoreMapping)
\* election_join_wrapper... service_call_wrapper.
PyCalls == Held(CoreTime \cup CoreCalls)
\* service_init_wrapper and service_remove_wrapper.
PyServices == Held(CoreServices)
\* service_arg_add_wrapper... service_reply_arg_exists_wrapper.
PyServiceEdits == Held(CoreServiceEdits)
\* admin.c, network.c, channels.c.
PyNetwork == Held(CoreNetwork \cup Global({Logs}))
PyStarts == Held(MainPrograms)
\* agent.c: the same functions for any agent.
PyAgentNames == Held(Activations \cup AgentQueries \cup AgentNames \cup States \cup Mutes)
PyAgentDefinition == Held(DefinitionReads \cup DefinitionWrites \cup DefinitionFiles)
PyAgentIo == Held(IoEdits \cup TypeQueries \cup ListQueries \cup Observers)
PyAgentReads == Held(InputReads \cup OutputReads)
PyAgentWrites == Held(InputWrites \cup OutputWrites \cup AttributeWrites)
PyAgentAnnotations == Held(Annotations)
PyAgentMapping == Held(MappingLoads \cup MappingEdits \cup SplitEdits)
PyAgentServices == Held(ServiceEdits \cup ServiceTexts \cup ReplyEdits \cup ReplyTexts)
PyAgentQueries == Held(ServiceQueries \cup ReplyQueries)

\* Programs of a Python thread.
PyPrograms(t) ==
  PyAgent \cup PyAnnotations \cup PyInputs \cup PyOutputs \cup PyAttributes \cup PyObservers \cup PyQueries
    \cup PyDefinition \cup PyIoEdits \cup PyMapping \cup PyCalls \cup PyServices \cup PyServiceEdits
    \cup PyNetwork \cup PyAgentNames \cup PyAgentDefinition \cup PyAgentIo \cup PyAgentReads
    \cup PyAgentWrites \cup PyAgentAnnotations \cup PyAgentMapping \cup PyAgentServices \cup PyAgentQueries
    \cup (IF t = Main THEN PyStarts ELSE {})

\* A callback takes the GIL (PyGILState_Ensure), which its thread may have
\* already; the interpreter gives it to other threads while it runs.
Ensured(t, p) ==
  IF owner["gil"] = t THEN Free("gil") \o Lock("gil") \o p ELSE Under("gil", p)
\* onAgentEvent, freeze and stop_callback take it for each observer.
EnsuredForEach(t, p) == Ensured(t, <<>>) \o Ensured(t, p)

\* What a callback of the application may call (bound: one function).
Nested == {<<>>, Quiet, IsStarted}
Called(t) ==
  IF python THEN {Ensured(t, p) : p \in Nested} \cup {EnsuredForEach(t, p) : p \in Nested}
  ELSE Nested

(***************************************************************************)
(* The network thread.                                                     *)
(***************************************************************************)

\* s_manage_zyre_incoming: tables, agent events, commands, services, channels...
HandleWhispers == {Section, Announced, Announced \o Callbacks}
HandleEvents == {Quiet \o Callbacks, Tell}
\* ... a replayed input, whose type is asked with the lock held ...
HandleReplays == {Under("model", Quiet)}
\* ... GET_CURRENT_INPUTS and others log while they send; CURRENT_OUTPUTS
\* from an agent that is not known returns with the lock.
HandleQuestions == {Under("model", Under("zyre", Logs)), Forgets}
\* s_manage_network_timer.
HandleTimers == {Tell}

NetPrograms == HandleWhispers \cup HandleEvents \cup HandleReplays \cup HandleQuestions \cup HandleTimers

\* s_run_loop up to the signal; the end, where a stop from another peer is told.
Boot == Under("network", Logs \o Send \o One("ready"))
Leave(forced) ==
  Under("network", Logs \o Send \o (IF forced THEN One("tell") \o Tell ELSE <<>>)) \o One("ended")

(***************************************************************************)
(* Steps.                                                                  *)
(***************************************************************************)

ApiInit ==
  /\ python \in BOOLEAN /\ observed \in BOOLEAN
  /\ todo = [t \in AllThreads |-> <<>>]
  /\ owner = [m \in Locks |-> None]
  /\ made = 0 /\ loop = "off" /\ leaked = FALSE

Resting(t) == todo[t] = <<>>
At(t, do) == ~Resting(t) /\ Head(todo[t]).do = do
On(t) == Head(todo[t]).on
Go(t, p) == todo' = [todo EXCEPT ![t] = p \o Tail(@)]
\* Bound: nothing begins after a leak, only what is under way goes on.
Begin(t, p) == Resting(t) /\ ~leaked /\ todo' = [todo EXCEPT ![t] = p]

Traverse(t) ==
  /\ At(t, "pass") /\ owner[On(t)] = None
  /\ Go(t, <<>>)
  /\ UNCHANGED <<python, observed, owner, made, loop, leaked>>

Take(t) ==
  /\ At(t, "lock") /\ owner[On(t)] = None
  /\ owner' = [owner EXCEPT ![On(t)] = t]
  /\ Go(t, <<>>)
  /\ UNCHANGED <<python, observed, made, loop, leaked>>

Release(t) ==
  /\ At(t, "free")
  /\ owner' = [owner EXCEPT ![On(t)] = None]
  /\ Go(t, <<>>)
  /\ UNCHANGED <<python, observed, made, loop, leaked>>

\* admin_log keeps its lock; the first log to a file without a path sends the
\* default path under it (igs_log_set_file forgets the path).
Log(t) ==
  /\ At(t, "log")
  /\ \/ owner["log"] = None /\ Go(t, <<>>)
     \/ owner["log"] # None /\ Go(t, Pass("log"))
     \/ loop \notin {"off", "ended"} /\ Go(t, Under("log", Send))
  /\ UNCHANGED <<python, observed, owner, made, loop, leaked>>

Callback(t) ==
  /\ At(t, "callback")
  /\ \E p \in Called(t) : Go(t, p)
  /\ UNCHANGED <<python, observed, owner, made, loop, leaked>>

\* core_init_agent.
InitAgent(t) ==
  /\ At(t, "init")
  /\ Go(t, IF made = 0 THEN NewAgent ELSE <<>>)
  /\ UNCHANGED <<python, observed, owner, made, loop, leaked>>

SetAgent(t) ==
  /\ At(t, "agent")
  /\ made' = made + 1
  /\ Go(t, <<>>)
  /\ UNCHANGED <<python, observed, owner, loop, leaked>>

\* A return with the lock.
Leak(t) ==
  /\ At(t, "leak")
  /\ leaked' = TRUE
  /\ Go(t, <<>>)
  /\ UNCHANGED <<python, observed, owner, made, loop>>

\* zactor_new.
Spawn(t) ==
  /\ At(t, "spawn")
  /\ loop' = "boot"
  /\ todo' = [todo EXCEPT ![t] = Tail(@), ![Net] = Boot]
  /\ UNCHANGED <<python, observed, owner, made, leaked>>

Await(t) ==
  /\ At(t, "await") /\ loop # "boot"
  /\ Go(t, <<>>)
  /\ UNCHANGED <<python, observed, owner, made, loop, leaked>>

\* zactor_destroy of the network thread.
SendTerm(t) ==
  /\ At(t, "stop")
  /\ Go(t, IF loop = "off" THEN <<>> ELSE One("join"))
  /\ UNCHANGED <<python, observed, owner, made, loop, leaked>>

Join(t) ==
  /\ At(t, "join") /\ loop = "ended"
  /\ loop' = "off"
  /\ Go(t, <<>>)
  /\ UNCHANGED <<python, observed, owner, made, leaked>>

\* Steps of the network thread.
Becomes == [ready |-> "run", tell |-> "telling", ended |-> "ended"]

Turn ==
  /\ \E do \in DOMAIN Becomes : At(Net, do) /\ loop' = Becomes[do]
  /\ Go(Net, <<>>)
  /\ UNCHANGED <<python, observed, owner, made, leaked>>

Handle ==
  /\ loop = "run"
  /\ \E p \in NetPrograms : Begin(Net, p)
  /\ UNCHANGED <<python, observed, owner, made, loop, leaked>>

\* $TERM, or a stop whispered by another peer, ends the loop.
EndLoop ==
  /\ loop = "run"
  /\ \/ At(Main, "join") /\ Begin(Net, Leave(FALSE))
     \/ Begin(Net, Leave(TRUE))
  /\ loop' = "leave"
  /\ UNCHANGED <<python, observed, owner, made, leaked>>

\* A call of the application.
CallFunction(t) ==
  /\ \E p \in (IF python THEN PyPrograms(t) ELSE Programs(t)) : Begin(t, p)
  /\ UNCHANGED <<python, observed, owner, made, loop, leaked>>

Locking(t) == Traverse(t) \/ Take(t) \/ Release(t) \/ Log(t) \/ Callback(t) \/ Leak(t)
User(t) ==
  \/ CallFunction(t) \/ Locking(t) \/ InitAgent(t) \/ SetAgent(t)
  \/ Spawn(t) \/ Await(t) \/ SendTerm(t) \/ Join(t)
Network == Locking(Net) \/ Turn \/ Handle \/ EndLoop

ApiNext == Network \/ \E t \in Users : User(t)

ApiSpec == ApiInit /\ [][ApiNext]_apiVars

(***************************************************************************)
(* Properties.                                                             *)
(***************************************************************************)

\* Who thread t waits for: the owner of a lock, or a thread it started or ends.
WaitsFor(t) ==
  CASE At(t, "lock") \/ At(t, "pass") -> {owner[On(t)]} \ {None}
    [] At(t, "await") -> IF loop = "boot" THEN {Net} ELSE {}
    [] At(t, "join") -> IF loop # "ended" /\ ~Resting(Net) THEN {Net} ELSE {}
    [] OTHER -> {}

\* Threads that wait for each other for ever.
Deadlocked(ts) == ts # {} /\ \A t \in ts : WaitsFor(t) \cap ts # {}

\* A Python thread in igs.stop() keeps the GIL that a callback of the
\* network thread needs; igs.monitor_stop() does the same with the monitor.
StopsWithGil(ts) == python /\ \E t \in ts : At(t, "join")
\* The forced stop is told with the network lock.
ToldWithLock(ts) == Net \in ts /\ loop = "telling" /\ owner["network"] = Net
\* The first log sends its path with the log lock; other functions log while
\* they have the zyre lock.
LogsWhileSending(ts) == \E t \in ts : owner["log"] = t /\ At(t, "pass") /\ On(t) = "zyre"

\* igsagent_input_type takes the lock that the replay has (igs_network.c:919).
AsksWithLock(ts) == Net \in ts /\ owner["model"] = Net /\ At(Net, "pass") /\ On(Net) = "model"

\* Two calls, or a call and a callback, never wait for each other, whatever a
\* callback calls, but in these cases: the locks are taken in one order, and
\* application code runs without them.
OnlyKnownDeadlocks ==
  \A ts \in SUBSET AllThreads :
    Deadlocked(ts) =>
      \/ StopsWithGil(ts) \/ ToldWithLock(ts) \/ LogsWhileSending(ts) \/ AsksWithLock(ts)
      \/ leaked

\* Two threads may make two global agents, since core_agent is tested without a
\* lock; Python threads make one, unless the agent events that announce it to
\* other agents let another thread run (igs_core.c:308).
OneGlobalAgent == python /\ ~observed => made <= 1
=============================================================================
