----------------------------- MODULE Services ------------------------------
(***************************************************************************)
(* Service calls: igsagent_service_call with its whispers to the remote    *)
(* agents and its walk of a snapshot of the local ones, CALL_SERVICE in    *)
(* the network thread of the callee, callbacks with the model lock         *)
(* released, and what edits, deactivations and destructions in other       *)
(* threads do to a call under way (src/src/igs_service.c, igs_network.c).  *)
(*                                                                         *)
(* Every agent has one service at most, and calls name it.  An argument is *)
(* the size of its frame in bytes.  A step is one section executed under   *)
(* the model lock, or one callback.                                        *)
(***************************************************************************)
EXTENDS Naturals, Sequences, FiniteSets, SequencesExt

CONSTANTS
  Agents,
  Peers,
  Home,       \* the peer of each agent
  Names,      \* what a call may be addressed to
  NameOf,     \* the name of each agent
  Threads,    \* user threads
  CallerOf,   \* the agents each thread calls from
  Lists,      \* lists of arguments that the calls of each thread may pass
  Starts,     \* how the program may start: inactive agents and services
  Sizes,      \* bytes of the arguments that edits add
  Stamped,    \* agents with rt_timestamps_enabled
  Virtual,    \* agents with is_virtual
  MaxCalls,   \* bound: calls of each thread
  MaxEdits,   \* bound: activations, deactivations and edits of services
  NoCall      \* INT64_MIN, the timestamp of no call

VARIABLES
  alive,      \* agents with a uuid
  active,     \* context->agents of all peers
  known,      \* context->remote_agents of each peer
  service,    \* services_table: instance, arguments and callback
  stamp,      \* rt_current_timestamp_microseconds
  channel,    \* Zyre messages from one peer to another
  call,       \* igsagent_service_call in each user thread
  handling,   \* CALL_SERVICE in the network thread of each peer
  edits,      \* edits so far, bounded by MaxEdits
  served,     \* history: the callbacks called, with what they were given
  due         \* history: requests that nothing has made impossible to serve

agentVars == <<alive, active, known, service>>
vars == <<agentVars, stamp, channel, call, handling, edits, served, due>>

\* A thread belongs to one process: it calls from agents of one peer.
ServicesAssumption ==
  /\ IsFiniteSet(Agents) /\ NoCall \notin Agents
  /\ Home \in [Agents -> Peers]
  /\ CallerOf \in [Threads -> SUBSET Agents]
  /\ \A t \in Threads : \A a, b \in CallerOf[t] : Home[a] = Home[b]
  /\ Lists \in [Threads -> SUBSET Seq(Nat)] /\ Sizes \subseteq Nat
  /\ \A s \in Starts :
       /\ s.active \subseteq Agents
       /\ s.service \in [Agents -> [inst : Nat, args : Seq(Nat), cb : BOOLEAN]]
  /\ Stamped \subseteq Agents /\ Virtual \subseteq Agents
  /\ MaxCalls \in [Threads -> Nat] /\ MaxEdits \in Nat
ASSUME ServicesAssumption

NoService == [inst |-> 0, args |-> <<>>, cb |-> FALSE]
Idle == [phase |-> "idle", number |-> 0, caller |-> NoCall, target |-> NoCall,
         args |-> <<>>, rest |-> {}, callee |-> NoCall, inst |-> 0]

Request(t, n, c) == [thread |-> t, number |-> n, callee |-> c]
StampOf(t, n, a) == IF a \in Stamped THEN <<t, n>> ELSE NoCall

\* Every edit of this module is one call made by some user thread.
Edit == edits < MaxEdits /\ edits' = edits + 1

Others(p) == Peers \ {p}
SendAll(p, m) == [q \in Peers |-> [r \in Peers |->
                   IF q = p /\ r # p THEN Append(channel[q][r], m) ELSE channel[q][r]]]

(***************************************************************************)
(* igsagent_service_call.                                                  *)
(***************************************************************************)

Addressed(a, name) == NameOf[a] = name

\* The frames of a call: its arguments and, with timestamps, eight bytes more.
Frames(a, args) == IF a \in Stamped THEN Append(args, 8) ELSE args

\* make_values_to_arguments and what follows: missing frames reject the call;
\* the first frame too many has to look like a timestamp.
Fits(frames, args) ==
  /\ Len(frames) >= Len(args)
  /\ Len(frames) > Len(args) => frames[Len(args) + 1] = 8

\* The local walk starts when the caller has a context and is not virtual.
LocalWalk(a) ==
  IF a \in active /\ a \notin Virtual THEN {b \in active : Home[b] = Home[a]} ELSE {}

\* Whispers to every known agent of that name; without zyre or context, none.
Remote(a, name) == IF a \in active THEN {r \in known[Home[a]] : Addressed(r, name)} ELSE {}

CallMessage(t, n, a, c, args) ==
  [type |-> "CALL", agent |-> c, thread |-> t, number |-> n, frames |-> Frames(a, args),
   stamp |-> StampOf(t, n, a)]

Pushed(queue, S) == SetToSeq(S) \o queue       \* mutant: a call overtakes the former ones
Posted(queue, S) == queue \o SetToSeq(S)

\* What has to be served: agents that are active, with a callback, and an
\* argument list that fits.
Due(t, n, a, name, args) ==
  {Request(t, n, c) : c \in {x \in Agents :
     /\ x \in active /\ Addressed(x, name) /\ service[x].inst # 0 /\ service[x].cb
     /\ \/ x \in LocalWalk(a) /\ Len(args) = Len(service[x].args)
        \/ x \in Remote(a, name) /\ Fits(Frames(a, args), service[x].args)}}

\* First section: the whispers, and the snapshot of the local agents.
Call(t, a, name, args) ==
  /\ call[t].phase = "idle" /\ call[t].number < MaxCalls[t]
  /\ a \in CallerOf[t] /\ a \in alive
  /\ LET n == call[t].number + 1
         p == Home[a]
     IN /\ channel' = [channel EXCEPT ![p] = [q \in Peers |->
              Posted(@[q], {CallMessage(t, n, a, c, args) :
                              c \in {r \in Remote(a, name) : Home[r] = q}})]]
        /\ call' = [call EXCEPT ![t] =
              [phase |-> "walk", number |-> n, caller |-> a, target |-> name, args |-> args,
               rest |-> LocalWalk(a), callee |-> NoCall, inst |-> 0]]
        /\ due' = due \cup Due(t, n, a, name, args)
  /\ UNCHANGED <<agentVars, stamp, handling, edits, served>>

Ended(c) == [Idle EXCEPT !.number = c.number]

\* zlistx_next on the snapshot.
StopAtFirst(rest, b) == {}        \* mutant: the walk ends at the first agent
SameAgent(rest, b) == rest        \* mutant: the walk does not advance
Following(rest, b) == rest \ {b}

\* The next agent of the snapshot.  The structure of a destroyed agent is
\* freed: it reads as an agent without uuid, which ends the walk, or as any.
Visit(t, b) ==
  LET c == call[t] IN
  /\ c.phase = "walk" /\ b \in c.rest
  /\ IF b \notin alive
     THEN /\ call' \in {[call EXCEPT ![t] = Ended(c)], [call EXCEPT ![t].rest = Following(@, b)]}
          /\ UNCHANGED stamp
     ELSE IF Addressed(b, c.target) /\ service[b].inst # 0 /\ Len(service[b].args) = Len(c.args)
     THEN /\ call' = [call EXCEPT ![t].phase = "callback", ![t].rest = Following(@, b),
                                  ![t].callee = b, ![t].inst = service[b].inst]
          /\ stamp' = [stamp EXCEPT ![c.caller] = StampOf(t, c.number, c.caller)]
     ELSE /\ call' = [call EXCEPT ![t].rest = Following(@, b)]
          /\ UNCHANGED stamp
  /\ UNCHANGED <<agentVars, channel, handling, edits, served, due>>

\* service->service_cb is read after the unlock: of a service removed in the
\* meantime it may be anything.
CallbackSet(b, inst) == IF service[b].inst = inst THEN {service[b].cb} ELSE BOOLEAN

Given(r, local, frames, args, seen) ==
  [request |-> r, local |-> local, frames |-> frames, nb |-> args, stamp |-> seen]

\* What is left of the timestamp once the callback has returned.
ClearedStamp(a) == [stamp EXCEPT ![a] = NoCall]

\* The callback of a local agent, then the lock again.
LocalCallback(t) ==
  LET c == call[t] IN
  /\ c.phase = "callback"
  /\ \E set \in CallbackSet(c.callee, c.inst) :
       served' = IF c.callee \in alive /\ c.caller \in alive /\ set
                 THEN served \cup {Given(Request(t, c.number, c.callee), TRUE, Len(c.args),
                                         Len(c.args), stamp[c.callee])}
                 ELSE served
  /\ call' = [call EXCEPT ![t].phase = "walk", ![t].callee = NoCall, ![t].inst = 0]
  /\ stamp' = ClearedStamp(c.caller)
  /\ UNCHANGED <<agentVars, channel, handling, edits, due>>

EndCall(t) ==
  /\ call[t].phase = "walk" /\ call[t].rest = {}
  /\ call' = [call EXCEPT ![t] = Ended(@)]
  /\ UNCHANGED <<agentVars, stamp, channel, handling, edits, served, due>>

(***************************************************************************)
(* The network thread of a peer.                                           *)
(***************************************************************************)

NoHandling == [callee |-> NoCall, thread |-> NoCall, number |-> 0, inst |-> 0,
               frames |-> 0, nb |-> 0]
Popped(q, p) == [channel EXCEPT ![q][p] = Tail(@)]
Received(p, q, type) ==
  handling[p] = NoHandling /\ channel[q][p] # <<>> /\ Head(channel[q][p]).type = type

\* CALL_SERVICE: rejected unless the callee is active, has the service and
\* the frames fit.
HandleCall(p, q) ==
  /\ Received(p, q, "CALL")
  /\ LET m == Head(channel[q][p])
         s == service[m.agent]
     IN IF m.agent \in active /\ s.inst # 0 /\ Fits(m.frames, s.args)
        THEN /\ handling' = [handling EXCEPT ![p] =
                  [callee |-> m.agent, thread |-> m.thread, number |-> m.number,
                   inst |-> s.inst, frames |-> Len(m.frames), nb |-> Len(s.args)]]
             /\ stamp' = [stamp EXCEPT ![m.agent] =
                  IF Len(m.frames) > Len(s.args) THEN m.stamp ELSE NoCall]
        ELSE /\ stamp' = IF /\ m.agent \in active /\ s.inst # 0
                           /\ Len(m.frames) >= Len(s.args)
                         THEN ClearedStamp(m.agent) ELSE stamp
             /\ UNCHANGED handling
  /\ channel' = Popped(q, p)
  /\ UNCHANGED <<agentVars, call, edits, served, due>>

RemoteCallback(p) ==
  LET h == handling[p] IN
  /\ h # NoHandling
  /\ \E set \in CallbackSet(h.callee, h.inst) :
       served' = IF h.callee \in alive /\ set
                 THEN served \cup {Given(Request(h.thread, h.number, h.callee), FALSE, h.frames,
                                         h.nb, stamp[h.callee])}
                 ELSE served
  /\ handling' = [handling EXCEPT ![p] = NoHandling]
  /\ stamp' = ClearedStamp(h.callee)
  /\ UNCHANGED <<agentVars, channel, call, edits, due>>

\* A definition and a REMOTE_AGENT_EXIT (see Discovery).
HandleDefinition(p, q) ==
  /\ Received(p, q, "KNOWN")
  /\ known' = [known EXCEPT ![p] = @ \cup {Head(channel[q][p]).agent}]
  /\ channel' = Popped(q, p)
  /\ UNCHANGED <<alive, active, service, stamp, call, handling, edits, served, due>>

HandleExit(p, q) ==
  /\ Received(p, q, "EXIT")
  /\ known' = [known EXCEPT ![p] = @ \ {Head(channel[q][p]).agent}]
  /\ channel' = Popped(q, p)
  /\ UNCHANGED <<alive, active, service, stamp, call, handling, edits, served, due>>

(***************************************************************************)
(* Edits by other threads.                                                 *)
(***************************************************************************)

Notice(type, a) ==
  [type |-> type, agent |-> a, thread |-> NoCall, number |-> 0, frames |-> <<>>, stamp |-> NoCall]

\* Requests to an agent that changes, and those of a caller that goes, may
\* be dropped from now on.
Forget(a) == due' = {r \in due : r.callee # a}

Activate(a) ==
  /\ Edit /\ a \in alive \ active
  /\ active' = active \cup {a}
  /\ channel' = SendAll(Home[a], Notice("KNOWN", a))
  /\ UNCHANGED <<alive, known, service, stamp, call, handling, served, due>>

Deactivate(a) ==
  /\ Edit /\ a \in active
  /\ active' = active \ {a}
  /\ channel' = SendAll(Home[a], Notice("EXIT", a))
  /\ Forget(a)
  /\ UNCHANGED <<alive, known, service, stamp, call, handling, served>>

\* definition_free_definition.
KeptService(a) == service                              \* mutant: not freed
FreedService(a) == [service EXCEPT ![a] = NoService]

\* igsagent_destroy of an agent that is not active (it deactivates it first).
\* The walks of its process may stop there.
Destroy(a) ==
  /\ a \in alive \ active
  /\ alive' = alive \ {a}
  /\ service' = FreedService(a)
  /\ due' = {r \in due : /\ r.callee # a
                         /\ \/ Home[r.callee] # Home[a]
                            \/ call[r.thread].phase = "idle"
                            \/ Home[call[r.thread].caller] # Home[a]}
  /\ UNCHANGED <<active, known, stamp, channel, call, handling, edits, served>>

\* igsagent_service_init: fails when the service has a callback already.
ServiceInit(a) ==
  /\ a \in alive /\ ~service[a].cb
  /\ Edit
  /\ service' = [service EXCEPT ![a] =
       IF @.inst # 0 THEN [@ EXCEPT !.cb = TRUE]
       ELSE [inst |-> 2 + edits, args |-> <<>>, cb |-> TRUE]]
  /\ UNCHANGED <<alive, active, known, stamp, channel, call, handling, served, due>>

ServiceRemove(a) ==
  /\ a \in alive /\ service[a].inst # 0
  /\ Edit
  /\ service' = [service EXCEPT ![a] = NoService]
  /\ Forget(a)
  /\ UNCHANGED <<alive, active, known, stamp, channel, call, handling, served>>

\* igsagent_service_arg_add appends, igsagent_service_arg_remove removes.
ArgAdd(a, size) ==
  /\ a \in alive /\ service[a].inst # 0
  /\ Edit
  /\ service' = [service EXCEPT ![a].args = Append(@, size)]
  /\ Forget(a)
  /\ UNCHANGED <<alive, active, known, stamp, channel, call, handling, served>>

ArgRemove(a, i) ==
  /\ a \in alive /\ i \in 1..Len(service[a].args)
  /\ Edit
  /\ service' = [service EXCEPT ![a].args = RemoveAt(@, i)]
  /\ Forget(a)
  /\ UNCHANGED <<alive, active, known, stamp, channel, call, handling, served>>

Init ==
  /\ alive = Agents
  /\ \E s \in Starts : active = s.active /\ service = s.service
  /\ known = [p \in Peers |-> {a \in active : Home[a] # p}]
  /\ stamp = [a \in Agents |-> NoCall]
  /\ channel = [p \in Peers |-> [q \in Peers |-> <<>>]]
  /\ call = [t \in Threads |-> Idle]
  /\ handling = [p \in Peers |-> NoHandling]
  /\ edits = 0 /\ served = {} /\ due = {}

CallStep(t) == LocalCallback(t) \/ EndCall(t) \/ \E b \in Agents : Visit(t, b)
NetworkStep(p) ==
  \/ RemoteCallback(p)
  \/ \E q \in Others(p) : HandleCall(p, q) \/ HandleDefinition(p, q) \/ HandleExit(p, q)
EditStep(a) ==
  \/ Activate(a) \/ Deactivate(a) \/ Destroy(a) \/ ServiceInit(a) \/ ServiceRemove(a)
  \/ \E size \in Sizes : ArgAdd(a, size)
  \/ \E i \in 1..Len(service[a].args) : ArgRemove(a, i)

Next ==
  \/ \E t \in Threads, a \in Agents, name \in Names : \E args \in Lists[t] : Call(t, a, name, args)
  \/ \E t \in Threads : CallStep(t)
  \/ \E p \in Peers : NetworkStep(p)
  \/ \E a \in Agents : EditStep(a)

\* User threads and network threads run, and user callbacks return.
Fairness ==
  /\ \A t \in Threads : WF_vars(CallStep(t))
  /\ \A p \in Peers : WF_vars(NetworkStep(p))

Spec == Init /\ [][Next]_vars /\ Fairness

(***************************************************************************)
(* Properties.                                                             *)
(***************************************************************************)

Served == {g.request : g \in served}

\* Requests in a whisper, in the network thread, and in the walk of a thread.
InChannels ==
  {Request(m.thread, m.number, m.agent) : m \in {x \in
     UNION {UNION {ToSet(channel[p][q]) : q \in Peers} : p \in Peers} : x.type = "CALL"}}
InHandlers ==
  {Request(handling[p].thread, handling[p].number, handling[p].callee) :
     p \in {x \in Peers : handling[x] # NoHandling}}
InWalks ==
  UNION {{Request(t, call[t].number, b) : b \in
            {x \in call[t].rest : Addressed(x, call[t].target)} \cup ({call[t].callee} \ {NoCall})} :
         t \in Threads}
Outstanding == InChannels \cup InHandlers \cup InWalks

\* Structures are what they should be, an active agent is alive, and
\* destroyed agents have no service.
TypeOK ==
  /\ active \subseteq alive /\ alive \subseteq Agents
  /\ \A p \in Peers : known[p] \subseteq {a \in Agents : Home[a] # p}
  /\ \A a \in Agents : service[a].inst # 0 => a \in alive
  /\ \A p \in Peers : handling[p] # NoHandling => Home[handling[p].callee] = p
  /\ \A t \in Threads :
       /\ call[t].phase \in {"idle", "walk", "callback"}
       /\ call[t].phase = "callback" <=> call[t].callee # NoCall

\* A call reaches every agent it is addressed to that is active, has the
\* service with a callback and as many arguments when the call is made, and
\* stays so: whatever else is edited, activated or deactivated meanwhile.
DueServed == due \subseteq Served \cup Outstanding

\* A timestamp does not outlive the callback it was set for:
\* igs_rt_get_current_timestamp returns INT64_MIN out of callbacks.
StampCleared ==
  \A a \in Agents : stamp[a] # NoCall =>
    \/ \E t \in Threads : call[t].phase = "callback" /\ call[t].caller = a
    \/ \E p \in Peers : handling[p].callee = a

\* Calls reach whom they must, and leave nothing behind.
CallsServed == DueServed /\ StampCleared

\* What igsagent_service_call does for each request is what CallBag says.
Bag == INSTANCE CallBag WITH
  Callees <- Agents, Numbers <- UNION {1..MaxCalls[t] : t \in Threads}, outstanding <- Outstanding, served <- Served
CallsAreABag == Bag!Spec

\* Every request is served or dropped in the end: no callback, edit or
\* destruction leaves a thread in the middle of a call.
EveryCallEnds ==
  <>[](Outstanding = {} /\ \A t \in Threads : call[t].phase = "idle")

\* ingescape.h: "On the receiver side, timestamp is obtained by calling
\* igs_rt_get_current_timestamp in the corresponding callback".  The local
\* callee of a call does not have it: the caller does.
CalleeStamped ==
  \A g \in served : g.stamp = NoCall \/ g.stamp = <<g.request.thread, g.request.number>>
=============================================================================
