------------------------------ MODULE DataFlow ------------------------------
(***************************************************************************)
(* How the value of an output reaches the inputs mapped to it: publication *)
(* by network_publish_output, subscriptions made by the mapping timer and  *)
(* by new definitions, handling by s_handle_publication with its callbacks *)
(* unlocked, requests for current outputs, and edits of the mapping        *)
(* (src/src/igs_network.c, igs_mapping.c, igs_model.c).                    *)
(*                                                                         *)
(* One process receives.  Its agents publish to each other through the     *)
(* pipe of the network thread; the agents of a second process publish to   *)
(* it by PUB/SUB.  Zyre carries the definitions, exits and replies.  These *)
(* three ways are ordered each, and not with one another.                  *)
(*                                                                         *)
(* An agent has one output; a value is the number of writes of the output  *)
(* so far.  A step is one section executed under the model lock.           *)
(***************************************************************************)
EXTENDS Naturals, Sequences, FiniteSets

CONSTANTS
  Locals,         \* agents of the receiving process
  Remotes,        \* agents of the other process
  Inputs,         \* inputs of each local agent
  Requesting,     \* agents with network_request_outputs_from_mapped_agents
  Refused,        \* values that the constraint of an input refuses
  InitialMapping, \* map_elements of each local agent, in order
  Addable,        \* bound: elements that users add to a mapping
  MaxValue,       \* bound: writes of each output
  Churn,          \* bound: user operations of each kind
  MaxChurn,       \* bound: user operations in all
  AnyAgent,       \* "*", the agent name that stands for every agent
  None            \* no agent

Publishers == Locals \cup Remotes
Elements == Inputs \X (Publishers \cup {AnyAgent})   \* from_input, to_agent
Kinds == {"mapping", "activate", "remote", "mute", "freeze"}

ASSUME DataFlowAssumption ==
  /\ Locals \cap Remotes = {}
  /\ AnyAgent \notin Publishers /\ None \notin Publishers
  /\ Requesting \subseteq Locals
  /\ Refused \subseteq Locals \X Inputs \X Nat
  /\ InitialMapping \in [Locals -> Seq(Elements)] /\ Addable \subseteq Elements
  /\ MaxValue \in [Publishers -> Nat]
  /\ Churn \in [Kinds -> Nat] /\ MaxChurn \in Nat

VARIABLES
  output,      \* value of the output of each agent
  muted,       \* agents with is_whole_agent_muted or a muted output
  present,     \* context->agents of the other process
  announce,    \* of these: network_need_to_send_definition_update
  farFrozen,   \* context->is_frozen of the other process
  subscribed,  \* filters known to its publisher socket
  active,      \* context->agents of the receiving process
  frozen,      \* context->is_frozen
  mapping,     \* mapping->map_elements of each agent
  remap,       \* network_need_to_send_mapping_update
  known,       \* context->remote_agents
  filters,     \* mapping_filters of the remote agents
  pending,     \* shall_send_outputs_request, with a timer started
  input,       \* what each input holds
  hand,        \* the publication being handled by the network thread
  round,       \* agents the mapping timer has still to visit
  publication, \* PUB/SUB, from the other process
  pipe,        \* HANDLE_PUBLICATION
  private,     \* Zyre, from the other process
  request,     \* Zyre, to the other process
  filterQueue, \* subscriptions on their way to the other process
  owed,        \* history: what the inputs were mapped to and not given yet
  jumped,      \* history: the cursor of a list under way was moved forward
  churn        \* user operations so far, bounded by Churn

farVars == <<present, announce, farFrozen, subscribed>>
agentVars == <<active, frozen, mapping, remap>>
remoteVars == <<known, filters, pending>>
threadVars == <<hand, round>>
channels == <<publication, pipe, private, request, filterQueue>>
history == <<owed, jumped>>
vars == <<output, muted, farVars, agentVars, remoteVars, input, threadVars,
          channels, history, churn>>

Published(p, n) == [from |-> p, value |-> n]
Definition(r) == [type |-> "EXTERNAL_DEFINITION", agent |-> r, value |-> 0]
AgentExit(r) == [type |-> "REMOTE_AGENT_EXIT", agent |-> r, value |-> 0]
CurrentOutputs(r) == [type |-> "CURRENT_OUTPUTS", agent |-> r, value |-> output[r]]

NoValue == [from |-> None, value |-> 0, reply |-> FALSE]
Idle == [phase |-> "idle", from |-> None, value |-> 0, reply |-> FALSE,
         agent |-> None, cursor |-> 0, contacted |-> {}]

\* The model lock of the receiving process is free, except in the middle of a
\* loop on the mappings and once a handler has returned without releasing it.
LockFree == hand.phase \in {"idle", "call"}
NetworkReady == hand.phase = "idle" /\ round = {}

Operations == churn["mapping"] + churn["activate"] + churn["remote"] + churn["mute"] + churn["freeze"]
UserOperation(kind) ==
  /\ churn[kind] < Churn[kind] /\ Operations < MaxChurn
  /\ churn' = [churn EXCEPT ![kind] = @ + 1]

MapSet(a) == {mapping[a][j] : j \in 1..Len(mapping[a])}
Position(a, e) == CHOOSE j \in 1..Len(mapping[a]) : mapping[a][j] = e

\* model_write: what the constraint of the input lets through.
Accepts(a, i, n) == <<a, i, n>> \notin Refused

\* Those that value n of p is meant for, when it is published.
Due(p, n) ==
  {d \in active \X Inputs \X {p} \X {n} :
     ~frozen /\ <<d[2], p>> \in MapSet(d[1]) /\ Accepts(d[1], d[2], n)}

(***************************************************************************)
(* Writing outputs.                                                        *)
(***************************************************************************)

\* network_publish_output: what keeps an output to itself.
Silent(p, isFrozen) == p \in muted \/ isFrozen

\* Messages are sent with the model lock held, in the order of the writes.
Overtaken(queue, m) == <<m>> \o queue           \* mutant: sent after the unlock
Queued(queue, m) == Append(queue, m)

\* The write of an output by its owner.
WriteOutput(p) ==
  /\ output[p] < MaxValue[p]
  /\ output' = [output EXCEPT ![p] = @ + 1]

\* igsagent_output_set_* of a remote agent.  Only what the receiving process
\* subscribed to leaves for it.
SetRemote(r) ==
  /\ r \in Remotes
  /\ WriteOutput(r)
  /\ IF r \in present /\ ~Silent(r, farFrozen) /\ r \in subscribed
     THEN /\ publication' = Queued(publication, Published(r, output'[r]))
          /\ owed' = owed \cup IF r \in filters THEN Due(r, output'[r]) ELSE {}
     ELSE UNCHANGED <<publication, owed>>
  /\ UNCHANGED <<muted, farVars, agentVars, remoteVars, input, threadVars, pipe,
                 private, request, filterQueue, jumped, churn>>

\* igsagent_output_set_* of a local agent, for the other agents of its
\* process: through the pipe, and only when there are other agents.
SetLocal(p) ==
  /\ LockFree
  /\ p \in Locals
  /\ WriteOutput(p)
  /\ IF p \in active /\ ~Silent(p, frozen) /\ Cardinality(active) > 1
     THEN /\ pipe' = Queued(pipe, Published(p, output'[p]))
          /\ owed' = owed \cup Due(p, output'[p])
     ELSE UNCHANGED <<pipe, owed>>
  /\ UNCHANGED <<muted, farVars, agentVars, remoteVars, input, threadVars, publication,
                 private, request, filterQueue, jumped, churn>>

\* igsagent_output_mute, igsagent_output_unmute, igsagent_mute, igsagent_unmute.
Mute(p) ==
  /\ UserOperation("mute")
  /\ p \in Locals => LockFree
  /\ muted' = IF p \in muted THEN muted \ {p} ELSE muted \cup {p}
  /\ UNCHANGED <<output, farVars, agentVars, remoteVars, input, threadVars, channels, history>>

\* igs_freeze and igs_unfreeze.  What is under way to a frozen process may be
\* dropped.
FreezeFar ==
  /\ UserOperation("freeze")
  /\ farFrozen' = ~farFrozen
  /\ UNCHANGED <<output, muted, present, announce, subscribed, agentVars, remoteVars, input,
                 threadVars, channels, history>>

Freeze ==
  /\ UserOperation("freeze")
  /\ LockFree
  /\ frozen' = ~frozen
  /\ owed' = {}
  /\ UNCHANGED <<output, muted, farVars, active, mapping, remap, remoteVars, input,
                 threadVars, channels, jumped>>

(***************************************************************************)
(* The process of the remote agents.                                       *)
(***************************************************************************)

\* igsagent_deactivate and igsagent_activate.
RemoteLeaves(r) ==
  /\ UserOperation("remote")
  /\ r \in present
  /\ present' = present \ {r}
  /\ private' = Append(private, AgentExit(r))
  /\ UNCHANGED <<output, muted, announce, farFrozen, subscribed, agentVars, remoteVars, input,
                 threadVars, publication, pipe, request, filterQueue, history>>

RemoteReturns(r) ==
  /\ UserOperation("remote")
  /\ r \in Remotes \ present
  /\ present' = present \cup {r}
  /\ announce' = announce \cup {r}
  /\ UNCHANGED <<output, muted, farFrozen, subscribed, agentVars, remoteVars, input,
                 threadVars, channels, history>>

\* s_trigger_definition_update.
SendDefinition(r) ==
  /\ r \in announce \cap present
  /\ announce' = announce \ {r}
  /\ private' = Append(private, Definition(r))
  /\ UNCHANGED <<output, muted, present, farFrozen, subscribed, agentVars, remoteVars, input,
                 threadVars, publication, pipe, request, filterQueue, history, churn>>

\* s_manage_zyre_incoming on GET_CURRENT_OUTPUTS: answered by any active
\* agent, muted or frozen or not announced yet.
AnswerRequest ==
  /\ request # <<>>
  /\ request' = Tail(request)
  /\ private' = IF Head(request) \in present
                THEN Append(private, CurrentOutputs(Head(request)))
                ELSE private
  /\ UNCHANGED <<output, muted, farVars, agentVars, remoteVars, input, threadVars,
                 publication, pipe, filterQueue, history, churn>>

\* The publisher socket learns about a subscription or its end.
FilterArrives(r) ==
  /\ filterQueue[r] # <<>>
  /\ filterQueue' = [filterQueue EXCEPT ![r] = Tail(@)]
  /\ subscribed' = IF Head(filterQueue[r]) THEN subscribed \cup {r} ELSE subscribed \ {r}
  /\ UNCHANGED <<output, muted, present, announce, farFrozen, agentVars, remoteVars, input,
                 threadVars, publication, pipe, private, request, history, churn>>

(***************************************************************************)
(* Discovery and mapping, network thread of the receiving process.         *)
(***************************************************************************)

\* s_network_configure_mapping_to_remote_agent for the agents of A and the
\* remote agents of K: subscribe to what is mapped, and start the timer of a
\* request when an agent asks for it.
Mapped(A, K) == {r \in K : \E a \in A : \E e \in MapSet(a) : e[2] \in {r, AnyAgent}}

Requests(A, K) == pending \cup Mapped(A \cap Requesting, K)

Configure(A, K) ==
  LET new == Mapped(A, K) \ filters
  IN /\ filters' = filters \cup new
     /\ filterQueue' = [r \in Remotes |-> IF r \in new THEN Append(filterQueue[r], TRUE)
                                                      ELSE filterQueue[r]]
     /\ pending' = Requests(A, K)

FromRemote(type) ==
  /\ NetworkReady
  /\ private # <<>> /\ Head(private).type = type
  /\ private' = Tail(private)

\* s_manage_zyre_incoming on EXTERNAL_DEFINITION.
RecvDefinition ==
  /\ FromRemote("EXTERNAL_DEFINITION")
  /\ LET r == Head(private).agent
     IN /\ known' = known \cup {r}
        /\ Configure(active, {r})
  /\ UNCHANGED <<output, muted, farVars, agentVars, input, threadVars, publication, pipe,
                 request, history, churn>>

\* s_manage_zyre_incoming on REMOTE_AGENT_EXIT: s_clean_and_free_remote_agent
\* ends the subscription and the timer.  What the agent published and is
\* still under way will be rejected.
RecvAgentExit ==
  /\ FromRemote("REMOTE_AGENT_EXIT")
  /\ LET r == Head(private).agent
     IN /\ known' = known \ {r}
        /\ filters' = filters \ {r}
        /\ pending' = pending \ {r}
        /\ filterQueue' = IF r \in filters THEN [filterQueue EXCEPT ![r] = Append(@, FALSE)]
                                           ELSE filterQueue
        /\ owed' = {d \in owed : d[3] # r}
  /\ UNCHANGED <<output, muted, farVars, agentVars, input, threadVars, publication, pipe,
                 request, jumped, churn>>

\* s_trigger_outputs_request_to_newcomer, 500 ms later.
RequestTimer(r) ==
  /\ NetworkReady /\ r \in pending
  /\ pending' = pending \ {r}
  /\ request' = Append(request, r)
  /\ UNCHANGED <<output, muted, farVars, agentVars, known, filters, input, threadVars,
                 publication, pipe, private, filterQueue, history, churn>>

\* s_trigger_mapping_update duplicates the table of agents and releases the
\* lock after each agent it reconfigured, for a callback.
MappingTimer ==
  /\ NetworkReady /\ active \cap remap # {}
  /\ round' = active
  /\ UNCHANGED <<output, muted, farVars, agentVars, remoteVars, input, hand, channels,
                 history, churn>>

MappingUpdate(a) ==
  /\ a \in round /\ round' = round \ {a}
  /\ IF a \in remap
     THEN /\ remap' = remap \ {a}
          /\ Configure({a}, known)
     ELSE UNCHANGED <<remap, filters, filterQueue, pending>>
  /\ UNCHANGED <<output, muted, farVars, active, frozen, mapping, known, input, hand,
                 publication, pipe, private, request, history, churn>>

(***************************************************************************)
(* Handling a publication, network thread of the receiving process.        *)
(***************************************************************************)

\* s_handle_publication looks at is_frozen once, before its loops.
Handle(p, n, isReply) ==
  hand' = IF frozen THEN Idle
          ELSE [Idle EXCEPT !.phase = "walk", !.from = p, !.value = n, !.reply = isReply]

\* s_manage_received_publication.
ManageReceivedPublication ==
  /\ NetworkReady /\ publication # <<>>
  /\ publication' = Tail(publication)
  /\ LET m == Head(publication)
     IN IF m.from \in known THEN Handle(m.from, m.value, FALSE) ELSE UNCHANGED hand
  /\ UNCHANGED <<output, muted, farVars, agentVars, remoteVars, input, round, pipe, private,
                 request, filterQueue, history, churn>>

\* s_manage_parent on HANDLE_PUBLICATION.
ManageParent ==
  /\ NetworkReady /\ pipe # <<>>
  /\ pipe' = Tail(pipe)
  /\ Handle(Head(pipe).from, Head(pipe).value, FALSE)
  /\ UNCHANGED <<output, muted, farVars, agentVars, remoteVars, input, round, publication,
                 private, request, filterQueue, history, churn>>

\* s_manage_zyre_incoming on CURRENT_OUTPUTS.  For an unknown remote agent the
\* handler returns without releasing the lock.
RecvCurrentOutputs ==
  /\ FromRemote("CURRENT_OUTPUTS")
  /\ LET m == Head(private)
     IN IF m.agent \in known
        THEN Handle(m.agent, m.value, TRUE)
        ELSE hand' = [Idle EXCEPT !.phase = "stuck"]
  /\ UNCHANGED <<output, muted, farVars, agentVars, remoteVars, input, round, publication,
                 pipe, request, filterQueue, history, churn>>

\* The first agent of the table that was not contacted yet, in an order that
\* is left open; or none, and the publication has been handled.
NextAgent ==
  /\ hand.phase = "walk" /\ hand.agent = None
  /\ \/ \E a \in active \ hand.contacted : hand' = [hand EXCEPT !.agent = a, !.cursor = 0]
     \/ active \subseteq hand.contacted /\ hand' = Idle
  /\ UNCHANGED <<output, muted, farVars, agentVars, remoteVars, input, round, channels,
                 history, churn>>

\* The elements after the cursor that match and whose input takes the value.
Matches(a, cursor) ==
  {j \in cursor + 1 .. Len(mapping[a]) :
     /\ mapping[a][j][2] = hand.from
     /\ Accepts(a, mapping[a][j][1], hand.value)}

OneContacted(a) == Idle                 \* mutant: only one agent is served
Contacted(a) == [hand EXCEPT !.contacted = @ \cup {a}, !.agent = None]

\* model_write of the publication being handled.
ModelWrite(a, i) ==
  [input EXCEPT ![a][i] = [from |-> hand.from, value |-> hand.value, reply |-> hand.reply]]

\* Writes the next input of the agent mapped to the output, or is done with
\* this agent.
WalkMapping ==
  /\ hand.phase = "walk" /\ hand.agent # None
  /\ LET a == hand.agent
         rest == Matches(a, hand.cursor)
     IN IF rest = {}
        THEN /\ hand' = Contacted(a)
             /\ UNCHANGED <<input, owed>>
        ELSE \E j \in rest :
               LET i == mapping[a][j][1]
               IN /\ \A k \in rest : j <= k
                  /\ input' = ModelWrite(a, i)
                  /\ hand' = [hand EXCEPT !.phase = "call", !.cursor = j]
                  /\ owed' = {d \in owed : ~(/\ d[1] = a /\ d[2] = i
                                             /\ d[3] = hand.from /\ d[4] <= hand.value)}
  /\ UNCHANGED <<output, muted, farVars, agentVars, remoteVars, round, channels, jumped, churn>>

\* The callbacks of the input return; the agent may have left meanwhile.
CallbacksReturn ==
  /\ hand.phase = "call"
  /\ hand' = IF hand.agent \in active THEN [hand EXCEPT !.phase = "walk"]
             ELSE [Contacted(hand.agent) EXCEPT !.phase = "walk"]
  /\ UNCHANGED <<output, muted, farVars, agentVars, remoteVars, input, round, channels,
                 history, churn>>

(***************************************************************************)
(* User threads of the receiving process.                                  *)
(***************************************************************************)

\* igsagent_activate; the definition timer then asks for a mapping update.
Activate(a) ==
  /\ LockFree /\ UserOperation("activate")
  /\ a \in Locals \ active
  /\ active' = active \cup {a}
  /\ remap' = remap \cup {a}
  /\ UNCHANGED <<output, muted, farVars, frozen, mapping, remoteVars, input, threadVars,
                 channels, history>>

\* igsagent_deactivate.
Deactivate(a) ==
  /\ LockFree /\ UserOperation("activate")
  /\ a \in active
  /\ active' = active \ {a}
  /\ owed' = {d \in owed : d[1] # a}
  /\ UNCHANGED <<output, muted, farVars, frozen, mapping, remap, remoteVars, input,
                 threadVars, channels, jumped>>

\* The list has one cursor, which searches, edits and the export of the
\* mapping move: 0 stands for NULL, after which zlist_next starts again.
CursorStays(a, position) == hand' = hand         \* mutant: the cursor is not reset
MoveCursor(a, position) ==
  hand' = IF hand.phase = "call" /\ hand.agent = a
          THEN [hand EXCEPT !.cursor = position] ELSE hand
Jumps(a, position) == hand.phase = "call" /\ hand.agent = a /\ hand.cursor < position

\* igsagent_mapping_add; an element that exists is not duplicated, and the
\* cursor stays on it.
MappingAdd(a, e) ==
  /\ LockFree /\ UserOperation("mapping")
  /\ \/ /\ e \notin MapSet(a)
        /\ mapping' = [mapping EXCEPT ![a] = Append(@, e)]
        /\ remap' = remap \cup {a}
        /\ MoveCursor(a, 0)
        /\ UNCHANGED jumped
     \/ /\ e \in MapSet(a)
        /\ MoveCursor(a, Position(a, e))
        /\ jumped' = (jumped \/ Jumps(a, Position(a, e)))
        /\ UNCHANGED <<mapping, remap>>
  /\ UNCHANGED <<output, muted, farVars, active, frozen, remoteVars, input, round, channels, owed>>

\* All elements, or one, those to one agent, those of one input if any.
Removable(a) ==
  {MapSet(a)} \cup (UNION {
     {{e} : e \in MapSet(a)},
     {{e \in MapSet(a) : e[2] = p} : p \in Publishers},
     {{e \in MapSet(a) : e[1] = i} : i \in Inputs}} \ {{}})

\* The positions of the elements of a list that stay in it, in order.
Staying(list, gone) ==
  LET stay == {j \in DOMAIN list : list[j] \notin gone}
  IN {f \in [1..Cardinality(stay) -> stay] :
        /\ stay = {f[k] : k \in DOMAIN f}
        /\ \A j, k \in DOMAIN f : j < k => f[j] < f[k]}

\* igsagent_mapping_remove_with_name, _with_id, igsagent_clear_mappings,
\* _with_agent, _for_input: the elements of gone leave the list.
MappingRemove(a, gone) ==
  /\ LockFree /\ UserOperation("mapping")
  /\ gone \in Removable(a)
  /\ \E f \in Staying(mapping[a], gone) :
       mapping' = [mapping EXCEPT ![a] = [k \in DOMAIN f |-> mapping[a][f[k]]]]
  /\ remap' = remap \cup {a}
  /\ MoveCursor(a, 0)
  /\ owed' = {d \in owed : ~(d[1] = a /\ <<d[2], d[3]>> \in gone)}
  /\ UNCHANGED <<output, muted, farVars, active, frozen, remoteVars, input, round, channels, jumped>>

\* A removal that finds nothing has moved the cursor to the end of the list.
MappingSearch(a) ==
  /\ LockFree /\ UserOperation("mapping")
  /\ MoveCursor(a, 0)
  /\ UNCHANGED <<output, muted, farVars, agentVars, remoteVars, input, round, channels, history>>

(***************************************************************************)
(* Specification.                                                          *)
(***************************************************************************)
Init ==
  /\ output = [p \in Publishers |-> 0]
  /\ muted = {}
  /\ present = Remotes /\ announce = Remotes
  /\ farFrozen = FALSE /\ frozen = FALSE
  /\ subscribed = {} /\ filters = {} /\ known = {} /\ pending = {}
  /\ active = Locals /\ remap = {}
  /\ mapping = InitialMapping
  /\ input = [a \in Locals |-> [i \in Inputs |-> NoValue]]
  /\ hand = Idle /\ round = {}
  /\ publication = <<>> /\ pipe = <<>> /\ private = <<>> /\ request = <<>>
  /\ filterQueue = [r \in Remotes |-> <<>>]
  /\ owed = {} /\ jumped = FALSE
  /\ churn = [k \in Kinds |-> 0]

Far ==
  \/ AnswerRequest
  \/ \E r \in Remotes : SendDefinition(r) \/ FilterArrives(r)

Receiver ==
  \/ RecvDefinition \/ RecvAgentExit \/ RecvCurrentOutputs
  \/ ManageReceivedPublication \/ ManageParent
  \/ NextAgent \/ WalkMapping \/ CallbacksReturn
  \/ MappingTimer
  \/ \E a \in Locals : MappingUpdate(a)
  \/ \E r \in Remotes : RequestTimer(r)

User ==
  \/ \E p \in Publishers : SetRemote(p) \/ SetLocal(p) \/ Mute(p)
  \/ FreezeFar \/ Freeze
  \/ \E r \in Remotes : RemoteLeaves(r) \/ RemoteReturns(r)
  \/ \E a \in Locals :
       \/ Activate(a) \/ Deactivate(a)
       \/ MappingSearch(a)
       \/ \E e \in Addable : MappingAdd(a, e)
       \/ \E gone \in Removable(a) : MappingRemove(a, gone)

Next == Far \/ Receiver \/ User
Spec == Init /\ [][Next]_vars

\* The other process goes on, subscriptions travel, the timers and handlers
\* of the network thread run and callbacks return.
FairSpec ==
  /\ Spec
  /\ WF_vars(AnswerRequest)
  /\ \A r \in Remotes : /\ WF_vars(SendDefinition(r)) /\ WF_vars(FilterArrives(r))
                        /\ WF_vars(RequestTimer(r))
  /\ WF_vars(RecvDefinition \/ RecvAgentExit \/ RecvCurrentOutputs)
  /\ WF_vars(ManageReceivedPublication) /\ WF_vars(ManageParent)
  /\ WF_vars(NextAgent \/ WalkMapping \/ CallbacksReturn)
  /\ WF_vars(MappingTimer)
  /\ \A a \in Locals : WF_vars(MappingUpdate(a))

(***************************************************************************)
(* Properties.                                                             *)
(***************************************************************************)
Numbers == {0} \cup UNION {0..MaxValue[p] : p \in Publishers}
Message == [type : {"EXTERNAL_DEFINITION", "REMOTE_AGENT_EXIT", "CURRENT_OUTPUTS"},
            agent : Remotes, value : Numbers]

\* Types of the state.  The cursor of a list under way stays within it, since
\* s_handle_publication reads the element under the cursor after callbacks
\* during which the list was edited.
TypeOK ==
  /\ output \in [Publishers -> Numbers] /\ muted \subseteq Publishers
  /\ present \subseteq Remotes /\ announce \subseteq Remotes /\ subscribed \subseteq Remotes
  /\ {farFrozen, frozen, jumped} \subseteq BOOLEAN
  /\ active \subseteq Locals /\ remap \subseteq Locals /\ round \subseteq Locals
  /\ mapping \in [Locals -> Seq(Elements)]
  /\ known \subseteq Remotes /\ filters \subseteq known /\ pending \subseteq filters
  /\ input \in [Locals -> [Inputs -> [from : Publishers \cup {None}, value : Numbers,
                                     reply : BOOLEAN]]]
  /\ hand \in [phase : {"idle", "walk", "call", "stuck"}, from : Publishers \cup {None},
               value : Numbers, reply : BOOLEAN, agent : Locals \cup {None},
               cursor : Nat, contacted : SUBSET Locals]
  /\ hand.agent # None => hand.cursor <= Len(mapping[hand.agent])
  /\ publication \in Seq([from : Remotes, value : Numbers])
  /\ pipe \in Seq([from : Locals, value : Numbers])
  /\ private \in Seq(Message) /\ request \in Seq(Remotes)
  /\ filterQueue \in [Remotes -> Seq(BOOLEAN)]
  /\ owed \subseteq Locals \X Inputs \X Publishers \X Numbers
  /\ churn \in [Kinds -> Nat]

\* Once everything published has been handled, no active agent has missed a
\* value that was published while its input was mapped to the output, though
\* agents and mapping elements came and went during the callbacks of
\* s_handle_publication (igs_network.c:225-285).  Excepted are what was under
\* way when the process was frozen or the remote agent left, and a list whose
\* cursor igsagent_mapping_add moved forward.
NothingMissed ==
  (NetworkReady /\ publication = <<>> /\ pipe = <<>> /\ ~jumped) => owed = {}

\* An input never goes back to an earlier value of the output it holds, over
\* edits, departures and returns, unless a reply to a request is involved:
\* replies and publications come by two ways that are not ordered.
InOrder ==
  [][\A a \in Locals, i \in Inputs :
       LET old == input[a][i]
           new == input'[a][i]
       IN (old.from = new.from /\ ~old.reply /\ ~new.reply) => old.value <= new.value]_vars

\* What an agent that requests outputs waits for: a value on an input mapped to
\* a remote agent that is there.
Wants(a, i, r) ==
  /\ a \in active /\ r \in present
  /\ <<i, r>> \in MapSet(a) /\ input[a][i] = NoValue
  /\ \A n \in Numbers : Accepts(a, i, n)

\* Nothing is left to do for the two processes until a user acts.
AtRest ==
  /\ NetworkReady
  /\ publication = <<>> /\ pipe = <<>> /\ private = <<>> /\ request = <<>>
  /\ announce \cap present = {} /\ pending = {} /\ active \cap remap = {}

\* At rest nobody waits any more, however edits of the mapping, activations,
\* definitions, requests and replies were ordered.  Excepted are a reply that
\* found the process frozen and a cursor that jumped.
AnsweredAtRest ==
  (AtRest /\ churn["freeze"] = 0 /\ ~jumped) =>
    \A a \in Requesting, i \in Inputs, r \in Remotes : ~Wants(a, i, r)

\* No value is lost on the way, neither published nor asked for.
NothingLost == NothingMissed /\ AnsweredAtRest

\* ingescape.h:570-572: "it is possible to ask the mapped agents to send us
\* their current output values through a dedicated message".  Whoever asks gets
\* an answer, while the remote agent stays.
RequestAnswered ==
  \A a \in Requesting, i \in Inputs, r \in Remotes : Wants(a, i, r) ~> ~Wants(a, i, r)
============================================================================
