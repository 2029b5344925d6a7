------------------------------ MODULE Commands ------------------------------
(***************************************************************************)
(* Commands that another peer whispers to our network thread, the          *)
(* functions they call, which users call too, and what the other peer      *)
(* hears of our agents: muted, frozen, state, paths, logs and mapping      *)
(* (src/src/igs_network.c, igsagent.c, igs_admin.c, igs_performance.c).    *)
(*                                                                         *)
(* A handler looks its agent up under the model lock, releases the lock    *)
(* and calls the public function with the pointer it found.  A step is one *)
(* section under the lock, or one callback; what a worker has left to do   *)
(* is a stack of tasks.  An agent that was destroyed is freed memory: a    *)
(* use of it either reads a NULL uuid or crashes.                          *)
(***************************************************************************)
EXTENDS Naturals, Sequences, FiniteSets

CONSTANTS
  Agents,      \* agents of this peer
  Born,        \* those created before the network was started
  NameOf,      \* their names
  Observed,    \* agents with a mute callback
  Elements,    \* mapping elements
  States,      \* states of agents
  Paths,       \* paths of their definitions
  Commands,    \* what the other peer may whisper
  Calls,       \* tasks users may start
  Users,       \* user threads
  Net,         \* network thread
  MaxCommands, \* bound: commands received
  MaxCalls,    \* bound: calls by users
  MaxVisits,   \* bound: arrivals of the other peer
  None         \* nobody, nothing, NULL

VARIABLES
  created,     \* created_agents
  named,       \* those whose definition is set
  active,      \* context->agents
  agent,       \* muted, quiet (output muted), state, path and mapping of each
  update,      \* network_need_to_send_{definition,mapping}_update of each
  context,     \* is_frozen, log_in_stream, log_in_file, log_file_path
  inbox,       \* whispers not handled yet
  doing,       \* tasks left to each worker
  lock,        \* thread that keeps the model lock for ever
  broken,      \* freed or missing memory is used, or will be
  visitor,     \* other peer: "out", "joining" the private channel, or "in"
  heard,       \* what the other peer heard last of each agent
  published,   \* publications of each agent
  check, progress, \* the two sets of performance_* variables
  due, met,    \* history: agents a MUTE_ALL has still to reach, freed one met
  received, calls, visits

vars == <<created, named, active, agent, update, context, inbox, doing, lock, broken,
          visitor, heard, published, check, progress, due, met, received, calls, visits>>

Workers == Users \cup {Net}
Task(op, a, arg) == [op |-> op, a |-> a, arg |-> arg]

\* Tasks have the arguments of the functions they stand for.
Fits(t) ==
  /\ t.op \in {"mute", "state", "new state", "quiet", "path", "map", "write", "activate",
               "deactivate", "free", "name", "destroy"} => t.a \in Agents
  /\ t.op \in {"mute", "quiet", "freeze"} => t.arg \in BOOLEAN
  /\ t.op \in {"state", "new state"} => t.arg \in States \cup {None}
  /\ t.op = "path" => t.arg \in Paths \cup {None}
  /\ t.op = "map" => t.arg[1] \in {"add", "remove", "clear"} /\ (t.arg[1] = "add" => t.arg[2] \in Elements)
  /\ t.op = "log" => t.arg[1] \in {"stream", "file"} /\ t.arg[2] \in BOOLEAN
  /\ t.op \in {"definition", "mapping"} => t.arg \in SUBSET Agents
  /\ t.op = "each" => t.a = None /\ t.arg \in [rest : SUBSET Agents, flag : BOOLEAN]

\* MUTE_ALL carries a flag only, START_AGENT a name.
FitsCommand(c) ==
  /\ c.op \notin {"each", "start", "pong"} => Fits(c)
  /\ c.op = "each" => c.arg \in BOOLEAN

ASSUME CommandsAssumption ==
  /\ Born \subseteq Agents
  /\ Net \notin Users
  /\ None \notin Agents \cup BOOLEAN \cup {Net}
  /\ \A c \in Commands : FitsCommand(c)
  /\ \A t \in Calls : Fits(t)

Unknown == [muted |-> None, quiet |-> None, state |-> None, path |-> None, mapping |-> None,
            frozen |-> None, stream |-> None, file |-> None]

Fresh == [muted |-> FALSE, quiet |-> FALSE, state |-> None, path |-> None, mapping |-> {}]

Init ==
  /\ created = Born /\ named = Born /\ active = Born
  /\ agent = [a \in Agents |-> Fresh]
  /\ update = [a \in Agents |-> {}]
  /\ context = [frozen |-> FALSE, stream |-> FALSE, file |-> FALSE, path |-> FALSE]
  /\ inbox = <<>>
  /\ doing = [w \in Workers |-> <<>>]
  /\ lock = None /\ broken = FALSE
  /\ visitor = "out" /\ heard = [a \in Agents |-> Unknown]
  /\ published = [a \in Agents |-> 0]
  /\ check = [counter |-> 0, target |-> 0] /\ progress = [counter |-> 0, target |-> 0]
  /\ due = {} /\ met = FALSE
  /\ received = 0 /\ calls = 0 /\ visits = 0

(***************************************************************************)
(* What the other peer hears.                                              *)
(***************************************************************************)

\* zyre_shout on the private channel of one field of agent a.
Shout(a, f, v) == IF visitor = "out" THEN heard ELSE [heard EXCEPT ![a][f] = v]
ShoutAll(f, v) ==
  IF visitor = "out" THEN heard
  ELSE [a \in Agents |-> IF a \in active THEN [heard[a] EXCEPT ![f] = v] ELSE heard[a]]

\* s_send_state_to: everything but the mapping; a NULL state or path is not sent.
Shown(a) ==
  [muted |-> agent[a].muted, quiet |-> agent[a].quiet, state |-> agent[a].state,
   path |-> agent[a].path, mapping |-> heard[a].mapping, frozen |-> context.frozen,
   stream |-> context.stream, file |-> context.file]

(***************************************************************************)
(* Workers.                                                                *)
(***************************************************************************)

Top(w) == Head(doing[w])
Do(w, tasks) == doing' = [doing EXCEPT ![w] = tasks \o Tail(@)]
Return(w) == Do(w, <<>>)

\* Worker w is at task op with an agent that exists.
At(w, op) ==
  /\ ~broken /\ doing[w] # <<>> /\ Top(w).op = op
  /\ Top(w).a \in created \cup {None}
Locked(w, op) == At(w, op) /\ lock = None

\* The agent of the task was freed: its uuid reads NULL and the function
\* returns, or the process crashes.
Dangling(w) ==
  /\ ~broken /\ doing[w] # <<>> /\ Top(w).a \notin created \cup {None}
  /\ \/ Return(w) /\ UNCHANGED broken
     \/ broken' = TRUE /\ UNCHANGED doing
  /\ UNCHANGED <<created, named, active, agent, update, context, inbox, lock, visitor, heard,
                 published, check, progress, due, met, received, calls, visits>>

rest == <<created, named, inbox, broken, visitor, check, progress, received, calls, visits>>

(***************************************************************************)
(* Functions that commands and users call.                                 *)
(***************************************************************************)

\* igsagent_mute and igsagent_unmute: the callbacks follow without the lock.
CallbacksOf(a) == IF a \in Observed THEN <<Task("tell", a, None)>> ELSE <<>>

Mute(w) ==
  LET a == Top(w).a
      flag == Top(w).arg
  IN
  /\ Locked(w, "mute")
  /\ agent' = [agent EXCEPT ![a].muted = flag]
  /\ heard' = IF agent[a].muted # flag /\ a \in active THEN Shout(a, "muted", flag) ELSE heard
  /\ Do(w, CallbacksOf(a))
  /\ due' = IF w = Net THEN due \ {a} ELSE due
  /\ UNCHANGED <<rest, active, update, context, lock, published, met>>

\* A callback, or the walk of agent_LOCKED_propagate_agent_event.
Callback(w) ==
  /\ At(w, "tell")
  /\ Return(w)
  /\ UNCHANGED <<rest, active, agent, update, context, lock, heard, published, due, met>>

\* igs_freeze and igs_unfreeze.
Freeze(w) ==
  LET flag == Top(w).arg IN
  /\ Locked(w, "freeze")
  /\ context' = [context EXCEPT !.frozen = flag]
  /\ heard' = IF context.frozen # flag THEN ShoutAll("frozen", flag) ELSE heard
  /\ Do(w, IF context.frozen # flag THEN <<Task("tell", None, flag)>> ELSE <<>>)
  /\ UNCHANGED <<rest, active, agent, update, lock, published, due, met>>

\* igsagent_set_state compares before it takes the lock, and again never.
SetState(w) ==
  LET a == Top(w).a IN
  /\ At(w, "state")
  /\ Do(w, IF Top(w).arg = agent[a].state THEN <<>> ELSE <<Task("new state", a, Top(w).arg)>>)
  /\ UNCHANGED <<rest, active, agent, update, context, lock, heard, published, due, met>>

NewState(w) ==
  LET a == Top(w).a IN
  /\ Locked(w, "new state")
  /\ agent' = [agent EXCEPT ![a].state = Top(w).arg]
  /\ heard' = IF a \in active THEN Shout(a, "state", Top(w).arg) ELSE heard
  /\ Do(w, <<Task("tell", None, None)>>)
  /\ UNCHANGED <<rest, active, update, context, lock, published, due, met>>

\* igsagent_output_mute and _unmute.
MuteOutput(w) ==
  /\ Locked(w, "quiet")
  /\ agent' = [agent EXCEPT ![Top(w).a].quiet = Top(w).arg]
  /\ heard' = Shout(Top(w).a, "quiet", Top(w).arg)
  /\ Return(w)
  /\ UNCHANGED <<rest, active, update, context, lock, published, due, met>>

\* igsagent_definition_set_path; igsagent_mapping_set_path does the same.
SetPath(w) ==
  /\ Locked(w, "path")
  /\ agent' = [agent EXCEPT ![Top(w).a].path = Top(w).arg]
  /\ heard' = Shout(Top(w).a, "path", Top(w).arg)
  /\ Return(w)
  /\ UNCHANGED <<rest, active, update, context, lock, published, due, met>>

\* igs_log_set_stream, and igs_log_set_file with the path in use: without one
\* the default path is for the next log.
SetLog(w) ==
  LET f == Top(w).arg[1]
      flag == Top(w).arg[2]
  IN
  /\ Locked(w, "log")
  /\ context' = [context EXCEPT ![f] = flag]
  /\ heard' = IF context[f] # flag THEN ShoutAll(f, flag) ELSE heard
  /\ Return(w)
  /\ UNCHANGED <<rest, active, agent, update, lock, published, due, met>>

\* igsagent_mapping_add, _remove_with_name and igsagent_clear_mappings; the
\* splits go through igsagent_split_add and _remove in the same way.
Edited(old, arg) ==
  CASE arg[1] = "add" -> old \cup {arg[2]}
    [] arg[1] = "remove" -> old \ {arg[2]}
    [] arg[1] = "clear" -> {}

Map(w) ==
  LET a == Top(w).a
      new == Edited(agent[a].mapping, Top(w).arg)
      changed == new # agent[a].mapping \/ Top(w).arg[1] = "clear"
  IN
  /\ Locked(w, "map")
  /\ agent' = [agent EXCEPT ![a].mapping = new]
  /\ update' = IF changed THEN [update EXCEPT ![a] = @ \cup {"mapping"}] ELSE update
  /\ Return(w)
  /\ UNCHANGED <<rest, active, context, lock, heard, published, due, met>>

\* igsagent_output_set_string: the test of network_publish_output.
PublishesAnyway(a) == a \in active /\ ~agent[a].muted /\ ~context.frozen   \* mutant: muted output
MayPublish(a) == a \in active /\ ~agent[a].muted /\ ~agent[a].quiet /\ ~context.frozen

Write(w) ==
  LET a == Top(w).a IN
  /\ Locked(w, "write")
  /\ published' = IF MayPublish(a) THEN [published EXCEPT ![a] = @ + 1] ELSE published
  /\ Return(w)
  /\ UNCHANGED <<rest, active, agent, update, context, lock, heard, due, met>>

\* igsagent_activate; the events it sends follow without the lock.
NoFlags == {}                                  \* mutant: no update after an activation
Flags == {"definition"}

Activate(w) ==
  LET a == Top(w).a IN
  /\ Locked(w, "activate")
  /\ active' = active \cup {a}
  /\ update' = IF a \in active THEN update ELSE [update EXCEPT ![a] = @ \cup Flags]
  /\ Do(w, IF a \in active THEN <<>> ELSE <<Task("tell", a, None)>>)
  /\ UNCHANGED <<rest, agent, context, lock, heard, published, due, met>>

\* igsagent_deactivate.
Deactivate(w) ==
  LET a == Top(w).a IN
  /\ Locked(w, "deactivate")
  /\ active' = active \ {a}
  /\ heard' = IF a \in active /\ visitor # "out" THEN [heard EXCEPT ![a] = Unknown] ELSE heard
  /\ Do(w, IF a \in active THEN <<Task("tell", a, None)>> ELSE <<>>)
  /\ UNCHANGED <<rest, agent, update, context, lock, published, due, met>>

\* Agents with a definition after agent a cleared its own.
DefinitionKept(a) == named                     \* mutant: igsagent_clear_definition is not called
DefinitionsLeft(a) == named \ {a}

\* Last section of igsagent_destroy: an agent activated meanwhile stays in the
\* table of the active ones, which the next walk reads.
Free(w) ==
  LET a == Top(w).a IN
  /\ Locked(w, "free")
  /\ created' = created \ {a} /\ named' = DefinitionsLeft(a)
  /\ due' = due \ {a}
  /\ broken' = (a \in active)
  /\ Return(w)
  /\ UNCHANGED <<active, agent, update, context, inbox, lock, visitor, heard, published, check,
                 progress, met, received, calls, visits>>

\* igsagent_new sets the definition after it added the agent.
Name(w) ==
  LET a == Top(w).a IN
  /\ Locked(w, "name")
  /\ named' = named \cup {a}
  /\ update' = [update EXCEPT ![a] = {"definition", "mapping"}]
  /\ Return(w)
  /\ UNCHANGED <<created, active, agent, context, inbox, lock, broken, visitor, heard, published,
                 check, progress, due, met, received, calls, visits>>

\* igs_log: the log file may have to be opened at its default path.
Logged == [context EXCEPT !.path = @ \/ context.file]

\* igs_net_performance_check; the other peer answers the PING with a PONG.
Check(w) ==
  /\ At(w, "check")
  /\ IF check.target # 0 THEN UNCHANGED <<check, inbox>>
     ELSE /\ check' = [counter |-> 1, target |-> Top(w).arg]
          /\ inbox' = IF visitor = "in" THEN Append(inbox, Task("pong", None, 1)) ELSE inbox
  /\ Return(w)
  /\ UNCHANGED <<created, named, active, agent, update, context, lock, broken, visitor, heard,
                 published, progress, due, met, received, calls, visits>>

\* GET_CURRENT_{OUTPUTS,INPUTS,ATTRIBUTES}: a log with the zyre lock held, which
\* waits for itself when that log has to announce the default path.
Get(w) ==
  /\ Locked(w, "get")
  /\ IF context.file /\ ~context.path
       THEN lock' = w /\ UNCHANGED doing
       ELSE Return(w) /\ UNCHANGED lock
  /\ UNCHANGED <<rest, active, agent, update, context, heard, published, due, met>>

\* Replay message: igsagent_input_type takes the model lock a second time.
Replay(w) == lock' = w /\ UNCHANGED doing

(***************************************************************************)
(* The network thread.                                                     *)
(***************************************************************************)

Idle == doing[Net] = <<>> /\ lock = None /\ ~broken

\* What a command calls, with the agent that it found under the lock.
ToPeer(c) == <<c>>
ToEveryone(c) == <<Task("each", None, [rest |-> active, flag |-> c.arg])>>
ToAgent(c) == IF c.a \in active THEN <<c>> ELSE <<>>

\* SET_INPUT, SET_OUTPUT and SET_ATTRIBUTE refuse a value with a timestamp.
SetValue(c) == IF c.op = "timestamped" THEN <<>> ELSE ToAgent(c)

CalledBy(c) ==
  CASE c.op \in {"freeze", "log"} -> ToPeer(c)
    [] c.op = "each" -> ToEveryone(c)
    [] c.op \in {"write", "timestamped"} -> SetValue(c)
    [] OTHER -> ToAgent(c)

Receive ==
  LET c == Head(inbox) IN
  /\ Idle /\ inbox # <<>> /\ c.op \notin {"start", "pong"}
  /\ inbox' = Tail(inbox)
  /\ context' = IF c.op = "get" THEN context ELSE Logged
  /\ IF c.op = "replay" /\ c.a \in active
       THEN Replay(Net)
       ELSE doing' = [doing EXCEPT ![Net] = CalledBy(c)] /\ UNCHANGED lock
  /\ IF c.op = "each" THEN due' = active /\ met' = FALSE ELSE UNCHANGED <<due, met>>
  /\ UNCHANGED <<created, named, active, agent, update, broken, visitor, heard, published,
                 check, progress, received, calls, visits>>

\* START_AGENT: the first created agent with the name.
ReceiveStart ==
  LET c == Head(inbox)
      found == {a \in named : NameOf[a] = c.arg}
  IN
  /\ Idle /\ inbox # <<>> /\ c.op = "start"
  /\ inbox' = Tail(inbox)
  /\ context' = Logged
  /\ \/ \E a \in found : doing' = [doing EXCEPT ![Net] = <<Task("activate", a, None)>>]
     \/ found = {} /\ UNCHANGED doing
  /\ UNCHANGED <<created, named, active, agent, update, lock, broken, visitor, heard, published,
                 check, progress, due, met, received, calls, visits>>

\* ... which reads the name of one that igsagent_new has not finished.
StartMeetsNew ==
  /\ Idle /\ inbox # <<>> /\ Head(inbox).op = "start" /\ created # named
  /\ broken' = TRUE
  /\ UNCHANGED <<created, named, active, agent, update, context, inbox, doing, lock, visitor,
                 heard, published, check, progress, due, met, received, calls, visits>>

\* MUTE_ALL and UNMUTE_ALL walk a copy of the agents; MUTE_ALL stops at a NULL
\* uuid, and igsagent_unmute returns there.
NeverNext(arg, a) == arg.rest                                           \* mutant: the same agent again
Left(arg, a) == IF arg.flag /\ a \notin created THEN {} ELSE arg.rest \ {a}

Each(w) ==
  LET arg == Top(w).arg IN
  /\ Locked(w, "each")
  /\ \/ arg.rest = {} /\ Return(w) /\ UNCHANGED <<broken, met>>
     \/ \E a \in arg.rest :
          LET next == Task("each", None, [rest |-> Left(arg, a), flag |-> arg.flag]) IN
          IF a \in created
            THEN Do(w, <<Task("mute", a, arg.flag), next>>) /\ UNCHANGED <<broken, met>>
            ELSE /\ met' = TRUE
                 /\ \/ Do(w, <<next>>) /\ UNCHANGED broken
                    \/ broken' = TRUE /\ UNCHANGED doing
  /\ UNCHANGED <<created, named, active, agent, update, context, inbox, lock, visitor, heard,
                 published, check, progress, due, received, calls, visits>>

\* PONG: it looks at the variables of the context, that nobody sets.
ReceivePong ==
  LET n == Head(inbox).arg IN
  /\ Idle /\ inbox # <<>> /\ Head(inbox).op = "pong"
  /\ context' = Logged
  /\ IF n # progress.counter
       THEN inbox' = Tail(inbox) /\ UNCHANGED <<progress, check>>
       ELSE IF n = progress.target
       THEN inbox' = Tail(inbox) /\ progress' = [progress EXCEPT !.target = 0] /\ UNCHANGED check
       ELSE /\ progress' = [progress EXCEPT !.counter = @ + 1] /\ UNCHANGED check
            /\ inbox' = Append(Tail(inbox), Task("pong", None, n + 1))
  /\ UNCHANGED <<created, named, active, agent, update, doing, lock, broken, visitor, heard,
                 published, due, met, received, calls, visits>>

\* s_trigger_definition_update and s_trigger_mapping_update, over copies of the agents.
Flagged(what) == {a \in active : what \in update[a]}

Tick ==
  /\ Idle /\ inbox = <<>>
  /\ \E what \in {"definition", "mapping"} :
       /\ Flagged(what) # {}
       /\ doing' = [doing EXCEPT ![Net] = <<Task(what, None, active)>>]
  /\ UNCHANGED <<rest, active, agent, update, context, lock, heard, published, due, met>>

Known(a) == a \in created /\ a \in active

\* An agent that was deactivated ends the walk of the definitions.
SendDefinition(w) ==
  LET todo == Top(w).arg IN
  /\ Locked(w, "definition")
  /\ \/ todo = {} /\ Return(w) /\ UNCHANGED <<update, heard>>
     \/ \E a \in todo :
          IF ~Known(a) THEN Return(w) /\ UNCHANGED <<update, heard>>
          ELSE IF "definition" \notin update[a]
            THEN Do(w, <<Task("definition", None, todo \ {a})>>) /\ UNCHANGED <<update, heard>>
            ELSE /\ update' = [update EXCEPT ![a] = {"mapping"}]
                 /\ heard' = IF visitor = "out" THEN heard ELSE [heard EXCEPT ![a] = Shown(a)]
                 /\ Do(w, <<Task("tell", None, None), Task("definition", None, todo \ {a})>>)
  /\ UNCHANGED <<rest, active, agent, context, lock, published, due, met>>

SendMapping(w) ==
  LET todo == Top(w).arg IN
  /\ Locked(w, "mapping")
  /\ \/ todo = {} /\ Return(w) /\ UNCHANGED <<update, heard>>
     \/ \E a \in todo :
          IF a \notin created \/ "mapping" \notin update[a]
            THEN Do(w, <<Task("mapping", None, todo \ {a})>>) /\ UNCHANGED <<update, heard>>
            ELSE /\ update' = [update EXCEPT ![a] = @ \ {"mapping"}]
                 /\ heard' = IF visitor = "in" /\ a \in active
                               THEN [heard EXCEPT ![a].mapping = agent[a].mapping] ELSE heard
                 /\ Do(w, <<Task("tell", None, None), Task("mapping", None, todo \ {a})>>)
  /\ UNCHANGED <<rest, active, agent, context, lock, published, due, met>>

\* JOIN of the private channel: everything about every agent.
Joined ==
  /\ Idle /\ visitor = "joining"
  /\ visitor' = "in"
  /\ heard' = [a \in Agents |-> IF a \in active
                                THEN [Shown(a) EXCEPT !.mapping = agent[a].mapping] ELSE heard[a]]
  /\ UNCHANGED <<created, named, active, agent, update, context, inbox, doing, lock, broken,
                 published, check, progress, due, met, received, calls, visits>>

(***************************************************************************)
(* The other peer and the users.                                           *)
(***************************************************************************)

Visit ==
  /\ visitor = "out" /\ visits < MaxVisits
  /\ visitor' = "joining" /\ visits' = visits + 1
  /\ UNCHANGED <<created, named, active, agent, update, context, inbox, doing, lock, broken,
                 heard, published, check, progress, due, met, received, calls>>

Leave ==
  /\ visitor = "in"
  /\ visitor' = "out" /\ heard' = [a \in Agents |-> Unknown]
  /\ UNCHANGED <<created, named, active, agent, update, context, inbox, doing, lock, broken,
                 published, check, progress, due, met, received, calls, visits>>

Whisper ==
  /\ visitor = "in" /\ received < MaxCommands
  /\ \E c \in Commands : inbox' = Append(inbox, c)
  /\ received' = received + 1
  /\ UNCHANGED <<created, named, active, agent, update, context, doing, lock, broken, visitor,
                 heard, published, check, progress, due, met, calls, visits>>

\* Users call functions on agents they have not destroyed, and igsagent_new,
\* which may get the memory of an agent that was destroyed.
Call(u) ==
  /\ ~broken /\ doing[u] = <<>> /\ calls < MaxCalls
  /\ calls' = calls + 1
  /\ \/ \E t \in Calls :
          /\ t.a \in named \cup {None}
          /\ doing' = [doing EXCEPT ![u] =
                         IF t.op = "destroy"
                           THEN <<Task("deactivate", t.a, None), Task("free", t.a, None)>>
                           ELSE <<t>>]
          /\ UNCHANGED <<created, agent, heard>>
     \/ \E a \in Agents \ Born :
          /\ a \notin created /\ a \notin active
          /\ created' = created \cup {a}
          /\ agent' = [agent EXCEPT ![a] = Fresh] /\ heard' = [heard EXCEPT ![a] = Unknown]
          /\ doing' = [doing EXCEPT ![u] = <<Task("name", a, None), Task("activate", a, None)>>]
  /\ UNCHANGED <<named, active, update, context, inbox, lock, broken, visitor, published, check,
                 progress, due, met, received, visits>>

Function(w) ==
  \/ Mute(w) \/ Callback(w) \/ Freeze(w) \/ SetState(w) \/ NewState(w) \/ MuteOutput(w)
  \/ SetPath(w) \/ SetLog(w) \/ Map(w) \/ Write(w) \/ Activate(w) \/ Deactivate(w)
  \/ Dangling(w)

Network ==
  \/ Function(Net) \/ Get(Net) \/ Each(Net) \/ SendDefinition(Net) \/ SendMapping(Net)
  \/ Receive \/ ReceiveStart \/ StartMeetsNew \/ ReceivePong \/ Tick \/ Joined

User(u) == Call(u) \/ Function(u) \/ Free(u) \/ Name(u) \/ Check(u)

Next == Network \/ Visit \/ Leave \/ Whisper \/ \E u \in Users : User(u)

Spec == Init /\ [][Next]_vars

\* The loop of the network thread goes on; users may stop anywhere.
FairSpec == Spec /\ WF_vars(Network)

(***************************************************************************)
(* Properties.                                                             *)
(***************************************************************************)

AgentType == [muted : BOOLEAN, quiet : BOOLEAN, state : States \cup {None},
              path : Paths \cup {None}, mapping : SUBSET Elements]

\* Types; tables hold existing agents, and the lock is kept by the network thread only.
TypeOK ==
  /\ named \subseteq created /\ created \subseteq Agents
  /\ broken \/ active \subseteq created
  /\ agent \in [Agents -> AgentType]
  /\ update \in [Agents -> SUBSET {"definition", "mapping"}]
  /\ visitor \in {"out", "joining", "in"}
  /\ lock \in {None, Net}
  /\ due \subseteq Agents

\* What a peer on the private channel heard of an agent is what the agent is,
\* as soon as its definition and its mapping have no update to send: mute,
\* freeze, state, path and log changes, activations, arrivals and the two
\* timers leave no change behind (igsagent_mute, igs_freeze,
\* igsagent_set_state, s_send_state_to).
HeardIsState ==
  \A a \in active :
    visitor = "in" /\ ~broken /\ "definition" \notin update[a] =>
      /\ heard[a] = Shown(a)
      /\ "mapping" \notin update[a] => heard[a].mapping = agent[a].mapping

\* A peer that heard an agent is muted, its output is, or the peer is frozen
\* receives no publication of the agent before it hears the contrary
\* (network_publish_output).
QuietAsHeard ==
  [][\A a \in Agents : published'[a] # published[a] =>
       TRUE \notin {heard[a].muted, heard[a].quiet, heard[a].frozen}]_vars

\* MUTE_ALL and UNMUTE_ALL release the lock at every agent, so that agents come
\* and go: they reach every one that was active and was not destroyed, unless
\* they met one that was.
AllReached == Idle => due = {} \/ met

\* Commands and calls take effect, here and at the other peer.
TakeEffect == HeardIsState /\ AllReached

\* The network thread ends every command.
Settled == broken \/ (inbox = <<>> /\ doing[Net] = <<>> /\ lock = None)
EveryCommandEnds == (inbox # <<>>) ~> Settled

\* A performance check ends (ingescape.h:930).
CheckEnds == (check.target # 0) ~> (check.target = 0 \/ broken)
=============================================================================
