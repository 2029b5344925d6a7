----------------------------- MODULE Discovery -----------------------------
(***************************************************************************)
(* How peers learn which agents the others carry: the ENTER, JOIN and EXIT *)
(* events of Zyre, the messages EXTERNAL_DEFINITION, REMOTE_AGENT_EXIT and *)
(* REMOTE_PEER_KNOWS_AGENT, the definition timer, and what activation,     *)
(* deactivation, start and stop send (src/src/igs_network.c and            *)
(* src/src/igsagent.c).                                                    *)
(*                                                                         *)
(* A step is one section executed under the model lock.  Agent events are  *)
(* told with the lock released, hence the queue telling; the loop on the   *)
(* observers of the agents of a peer, which module AgentEvents details, is *)
(* one step here.                                                          *)
(*                                                                         *)
(* The identity of a Zyre node changes when the process stops and starts   *)
(* again while the uuid of an agent stays.                                 *)
(***************************************************************************)
EXTENDS Naturals, Sequences, FiniteSets

CONSTANTS
  Peers,      \* processes
  Agents,     \* agents of all of them
  Home,       \* [Agents -> Peers]
  Churn,      \* bounds: how often agents are (de)activated, processes are
              \* restarted and nodes reconnect; one of them is kept
  None        \* no node

Kinds == {"activate", "restart", "reconnect"}

ASSUME DiscoveryAssumption ==
  /\ IsFiniteSet(Agents) /\ Home \in [Agents -> Peers]
  /\ Churn \subseteq [Kinds -> Nat] /\ Churn # {}
  /\ None \notin Peers \X Nat

VARIABLES
  active,       \* context->agents, of all processes
  needDef,      \* network_need_to_send_definition_update
  atRuntime,    \* network_activation_during_runtime
  up, started,  \* the peer is started, how often it was
  links,        \* connections between two nodes
  channel,      \* from a node to a peer: Zyre events, in order
  known,        \* context->zyre_peers: unknown, entered or joined
  reconnected,  \* of these Zyre peers
  remotes,      \* context->remote_agents, and the peer field of each
  leaving,      \* Zyre peer whose EXIT is being handled
  telling,      \* agent events about to be told to the agents of a peer
  told,         \* what an agent was told of the others and that holds still
  churn         \* how often users did so, bounded by Churn

agentVars == <<active, needDef, atRuntime>>
zyreVars == <<up, started, links>>
registryVars == <<known, reconnected, remotes>>
vars == <<agentVars, zyreVars, channel, registryVars, leaving, telling, told, churn>>

Lives == UNION {1..b["restart"] + 1 : b \in Churn}
Nodes == Peers \X Lives
Node(p) == <<p, started[p]>>
Linked(n) == {m \in Nodes : {n, m} \in links}
On(p) == {a \in Agents : Home[a] = p}

Simple(type) == [type |-> type, agent |-> None, runtime |-> FALSE]
Enter == Simple("ENTER")
Join == Simple("JOIN")
Exit == Simple("EXIT")
Definition(a, notif) == [type |-> "DEFINITION", agent |-> a, runtime |-> notif]
Knows(a) == [type |-> "KNOWS", agent |-> a, runtime |-> FALSE]
AgentExit(a) == [type |-> "AGENT_EXIT", agent |-> a, runtime |-> FALSE]

UserOperation(kind) ==
  /\ churn' = [churn EXCEPT ![kind] = @ + 1]
  /\ \E b \in Churn : \A k \in Kinds : churn'[k] <= b[k]

\* Channels once ch has got list, sent by node n to every node of to.
Sent(ch, n, to, list) ==
  [ch EXCEPT ![n] = [p \in Peers |-> IF up[p] /\ Node(p) \in to
                                     THEN ch[n][p] \o list ELSE ch[n][p]]]

Tells(a, events) == [told EXCEPT ![a] = @ \cup events]

(***************************************************************************)
(* Zyre, as s_manage_zyre_incoming expects it.  Two nodes that find each   *)
(* other enter and join the private channel.  A node that is seen again    *)
(* before its timeout enters a second time, then its timeout is reported.  *)
(***************************************************************************)
Connect(p, q) ==
  /\ p # q /\ up[p] /\ up[q]
  /\ {Node(p), Node(q)} \notin links
  /\ links' = links \cup {{Node(p), Node(q)}}
  /\ channel' = [channel EXCEPT ![Node(p)][q] = @ \o <<Enter, Join>>,
                                ![Node(q)][p] = @ \o <<Enter, Join>>]
  /\ UNCHANGED <<agentVars, up, started, registryVars, leaving, telling, told, churn>>

Reconnect(p, q) ==
  /\ UserOperation("reconnect")
  /\ p # q /\ up[p] /\ up[q] /\ {Node(p), Node(q)} \in links
  /\ channel' = [channel EXCEPT ![Node(p)][q] = @ \o <<Enter, Join, Exit>>]
  /\ UNCHANGED <<agentVars, zyreVars, registryVars, leaving, telling, told>>

(***************************************************************************)
(* User threads.                                                           *)
(***************************************************************************)

\* igsagent_activate: the definition is left to the timer; the agent is told
\* about the remote agents that are there.
Activate(a) ==
  /\ UserOperation("activate")
  /\ a \notin active
  /\ active' = active \cup {a}
  /\ needDef' = [needDef EXCEPT ![a] = TRUE]
  /\ atRuntime' = [atRuntime EXCEPT ![a] = TRUE]
  /\ told' = [told EXCEPT ![a] =
                {"ENTERED"} \X {r \in Agents : remotes[Home[a]][r] # None}]
  /\ UNCHANGED <<zyreVars, channel, registryVars, leaving, telling>>

\* igsagent_deactivate: the exit is sent at once, when started.
Deactivate(a) ==
  /\ UserOperation("activate")
  /\ a \in active
  /\ active' = active \ {a}
  /\ channel' = IF up[Home[a]]
                THEN Sent(channel, Node(Home[a]), Linked(Node(Home[a])), <<AgentExit(a)>>)
                ELSE channel
  /\ told' = [told EXCEPT ![a] = {}]
  /\ UNCHANGED <<needDef, atRuntime, zyreVars, registryVars, leaving, telling>>

\* igs_start_with_device: s_init_loop and s_run_loop up to the loop.  Agents
\* that are there are announced to those who join, not by the timer.
Start(p) ==
  /\ ~up[p] /\ started[p] + 1 \in Lives
  /\ up' = [up EXCEPT ![p] = TRUE]
  /\ started' = [started EXCEPT ![p] = @ + 1]
  /\ needDef' = [a \in Agents |-> needDef[a] /\ a \notin active \cap On(p)]
  /\ atRuntime' = [a \in Agents |-> atRuntime[a] /\ a \notin active \cap On(p)]
  /\ UNCHANGED <<active, links, channel, registryVars, leaving, telling, told, churn>>

\* igs_stop, once the network thread has left its handlers: what is on its way
\* to the peer is lost and its tables are purged, which nobody is told.
Stop(p) ==
  /\ UserOperation("restart")
  /\ up[p] /\ leaving[p] = None /\ telling[p] = <<>>
  /\ up' = [up EXCEPT ![p] = FALSE]
  /\ links' = {l \in links : Node(p) \notin l}
  /\ channel' = [n \in Nodes |-> [q \in Peers |->
                   IF q = p THEN <<>>
                   ELSE IF n = Node(p) /\ up[q] /\ Node(q) \in Linked(n)
                   THEN Append(channel[n][q], Exit)
                   ELSE channel[n][q]]]
  /\ known' = [known EXCEPT ![p] = [n \in Nodes |-> "unknown"]]
  /\ reconnected' = [reconnected EXCEPT ![p] = [n \in Nodes |-> 0]]
  /\ remotes' = [remotes EXCEPT ![p] = [r \in Agents |-> None]]
  /\ UNCHANGED <<agentVars, started, leaving, telling, told>>

(***************************************************************************)
(* The network thread of each peer.                                        *)
(***************************************************************************)
Ready(p) == up[p] /\ leaving[p] = None /\ telling[p] = <<>>

\* The next event of node n; rest is channel without it.
Next1(n, p, type) ==
  /\ Ready(p)
  /\ channel[n][p] # <<>>
  /\ Head(channel[n][p]).type = type
Rest(n, p) == [channel EXCEPT ![n][p] = Tail(@)]

RecvEnter(n, p) ==
  /\ Next1(n, p, "ENTER")
  /\ channel' = Rest(n, p)
  /\ IF known[p][n] = "unknown"
     THEN known' = [known EXCEPT ![p][n] = "entered"] /\ UNCHANGED reconnected
     ELSE reconnected' = [reconnected EXCEPT ![p][n] = @ + 1] /\ UNCHANGED known
  /\ UNCHANGED <<agentVars, zyreVars, remotes, leaving, telling, told, churn>>

\* Agents whose definition a newcomer is sent.
NoNewcomerAgents(p) == {}                    \* mutant: nothing sent on JOIN
NewcomerAgents(p) == active \cap On(p)

\* The order in which the table of agents is walked is left open.
Orders(S) == {f \in [1..Cardinality(S) -> S] : \A a \in S : \E i \in DOMAIN f : f[i] = a}

RecvJoin(n, p) ==
  /\ Next1(n, p, "JOIN")
  /\ known[p][n] # "unknown"    \* assert (zyre_peer)
  /\ known' = [known EXCEPT ![p][n] = "joined"]
  /\ \E f \in Orders(NewcomerAgents(p)) :
       channel' = Sent(Rest(n, p), Node(p), {n} \cap Linked(Node(p)),
                       [i \in DOMAIN f |-> Definition(f[i], FALSE)])
  /\ UNCHANGED <<agentVars, zyreVars, reconnected, remotes, leaving, telling, told, churn>>

\* A definition that is sent to a peer that already knows ours says so.
Notified(a) == atRuntime[a]

\* s_trigger_definition_update, for one of the agents it goes through.
SendDefinition(a) ==
  /\ Ready(Home[a])
  /\ a \in active /\ needDef[a]
  /\ LET n == Node(Home[a])
         joined == {m \in Linked(n) : known[Home[a]][m] = "joined"}
     IN channel' = Sent(channel, n, joined, <<Definition(a, Notified(a))>>)
  /\ needDef' = [needDef EXCEPT ![a] = FALSE]
  /\ atRuntime' = [atRuntime EXCEPT ![a] = FALSE]
  /\ UNCHANGED <<active, zyreVars, registryVars, leaving, telling, told, churn>>

\* EXTERNAL_DEFINITION.  A new agent belongs to the Zyre peer it came from; a
\* known one keeps the peer it had.
RecvDefinition(n, p) ==
  /\ Next1(n, p, "DEFINITION")
  /\ LET m == Head(channel[n][p])
         r == m.agent
     IN IF remotes[p][r] = None
        THEN /\ known[p][n] # "unknown"      \* assert (zyre_peer)
             /\ remotes' = [remotes EXCEPT ![p][r] = n]
             /\ channel' = Sent(Rest(n, p), Node(p), {n} \cap Linked(Node(p)), <<Knows(r)>>)
             /\ telling' = [telling EXCEPT ![p] =
                              IF m.runtime THEN <<<<"ENTERED", r>>, <<"KNOWS_US", r>>>>
                              ELSE <<<<"ENTERED", r>>>>]
        ELSE channel' = Rest(n, p) /\ UNCHANGED <<remotes, telling>>
  /\ UNCHANGED <<agentVars, zyreVars, known, reconnected, leaving, told, churn>>

\* REMOTE_PEER_KNOWS_AGENT: the agent is told that all the agents of the peer
\* know it, if it is still there.
RecvKnows(n, p) ==
  /\ Next1(n, p, "KNOWS")
  /\ channel' = Rest(n, p)
  /\ LET a == Head(channel[n][p]).agent
     IN told' = IF a \in active
                THEN Tells(a, {"KNOWS_US"} \X {r \in Agents : remotes[p][r] = n})
                ELSE told
  /\ UNCHANGED <<agentVars, zyreVars, registryVars, leaving, telling, churn>>

RecvAgentExit(n, p) ==
  /\ Next1(n, p, "AGENT_EXIT")
  /\ channel' = Rest(n, p)
  /\ LET r == Head(channel[n][p]).agent
     IN IF remotes[p][r] # None
        THEN /\ remotes' = [remotes EXCEPT ![p][r] = None]
             /\ telling' = [telling EXCEPT ![p] = <<<<"EXITED", r>>>>]
        ELSE UNCHANGED <<remotes, telling>>
  /\ UNCHANGED <<agentVars, zyreVars, known, reconnected, leaving, told, churn>>

\* EXIT.  The timeout of a peer that has entered again since is ignored.
AlwaysSurvives(k) == k >= 0                  \* mutant: counter at its limit
Survives(k) == k > 0

RecvExit(n, p) ==
  /\ Next1(n, p, "EXIT")
  /\ channel' = Rest(n, p)
  /\ IF known[p][n] = "unknown"
     THEN UNCHANGED <<reconnected, leaving>>
     ELSE IF Survives(reconnected[p][n])
     THEN reconnected' = [reconnected EXCEPT ![p][n] = @ - 1] /\ UNCHANGED leaving
     ELSE leaving' = [leaving EXCEPT ![p] = n] /\ UNCHANGED reconnected
  /\ UNCHANGED <<agentVars, zyreVars, known, remotes, telling, told, churn>>

\* One turn of the loop that frees the remote agents of the peer, then the
\* peer itself.
NothingCarried(p, n) == {}                   \* mutant: remote agents forgotten
Carried(p, n) == {r \in Agents : remotes[p][r] = n}

ExitStep(p) ==
  /\ leaving[p] # None /\ telling[p] = <<>>
  /\ \/ /\ \E r \in Carried(p, leaving[p]) :
             /\ remotes' = [remotes EXCEPT ![p][r] = None]
             /\ telling' = [telling EXCEPT ![p] = <<<<"EXITED", r>>>>]
        /\ UNCHANGED <<known, leaving>>
     \/ /\ Carried(p, leaving[p]) = {}
        /\ known' = [known EXCEPT ![p][leaving[p]] = "unknown"]
        /\ leaving' = [leaving EXCEPT ![p] = None]
        /\ UNCHANGED <<remotes, telling>>
  /\ UNCHANGED <<agentVars, zyreVars, channel, reconnected, told, churn>>

\* agent_LOCKED_propagate_agent_event for an agent event about a remote agent.
Tell(p) ==
  /\ telling[p] # <<>>
  /\ LET e == Head(telling[p])
     IN told' = [a \in Agents |->
                   IF a \notin active \cap On(p) THEN told[a]
                   ELSE IF e[1] = "EXITED" THEN {x \in told[a] : x[2] # e[2]}
                   ELSE told[a] \cup {e}]
  /\ telling' = [telling EXCEPT ![p] = Tail(@)]
  /\ UNCHANGED <<agentVars, zyreVars, channel, registryVars, leaving, churn>>

\* Initially nothing is started; agents are active or not.
Init ==
  /\ active \in SUBSET Agents
  /\ needDef = [a \in Agents |-> a \in active]
  /\ atRuntime = [a \in Agents |-> a \in active]
  /\ up = [p \in Peers |-> FALSE] /\ started = [p \in Peers |-> 0]
  /\ links = {}
  /\ channel = [n \in Nodes |-> [p \in Peers |-> <<>>]]
  /\ known = [p \in Peers |-> [n \in Nodes |-> "unknown"]]
  /\ reconnected = [p \in Peers |-> [n \in Nodes |-> 0]]
  /\ remotes = [p \in Peers |-> [r \in Agents |-> None]]
  /\ leaving = [p \in Peers |-> None]
  /\ telling = [p \in Peers |-> <<>>]
  /\ told = [a \in Agents |-> {}]
  /\ churn = [kind \in Kinds |-> 0]

\* The steps of the network thread of p.
NetworkNext(p) ==
  \/ \E n \in Nodes : \/ RecvEnter(n, p) \/ RecvJoin(n, p) \/ RecvDefinition(n, p)
                      \/ RecvKnows(n, p) \/ RecvAgentExit(n, p) \/ RecvExit(n, p)
  \/ \E a \in On(p) : SendDefinition(a)
  \/ ExitStep(p) \/ Tell(p)

Next ==
  \/ \E p, q \in Peers : Connect(p, q) \/ Reconnect(p, q)
  \/ \E a \in Agents : Activate(a) \/ Deactivate(a)
  \/ \E p \in Peers : Start(p) \/ Stop(p) \/ NetworkNext(p)

Spec == Init /\ [][Next]_vars

\* A peer that was stopped is started again, nodes that are up find each other
\* and the loop of the network thread turns.
Fairness ==
  /\ \A p, q \in Peers : WF_vars(Connect(p, q))
  /\ \A p \in Peers : WF_vars(Start(p)) /\ WF_vars(NetworkNext(p))

FairSpec == Spec /\ Fairness

-----------------------------------------------------------------------------
Events == {"ENTERED", "KNOWS_US", "EXITED"} \X Agents
Messages ==
  [type : {"ENTER", "JOIN", "EXIT"}, agent : {None}, runtime : {FALSE}]
  \cup [type : {"DEFINITION"}, agent : Agents, runtime : BOOLEAN]
  \cup [type : {"KNOWS", "AGENT_EXIT"}, agent : Agents, runtime : {FALSE}]

\* Every variable has its type.
TypeOK ==
  /\ active \subseteq Agents
  /\ needDef \in [Agents -> BOOLEAN] /\ atRuntime \in [Agents -> BOOLEAN]
  /\ up \in [Peers -> BOOLEAN] /\ started \in [Peers -> Lives \cup {0}]
  /\ links \subseteq SUBSET Nodes
  /\ channel \in [Nodes -> [Peers -> Seq(Messages)]]
  /\ known \in [Peers -> [Nodes -> {"unknown", "entered", "joined"}]]
  /\ reconnected \in [Peers -> [Nodes -> Nat]]
  /\ remotes \in [Peers -> [Agents -> Nodes \cup {None}]]
  /\ leaving \in [Peers -> Nodes \cup {None}]
  /\ telling \in [Peers -> Seq(Events)]
  /\ told \in [Agents -> SUBSET Events]
  /\ churn \in [Kinds -> Nat]

\* A remote agent never outlives the record of the peer its peer field points
\* to, whatever peers enter again, time out, stop and start
\* (igs_network.c:2797-2821, 1135-1137).
PeerOfRemoteKnown ==
  \A p \in Peers, r \in Agents :
    remotes[p][r] # None => known[p][remotes[p][r]] # "unknown"

\* The peer that joins, and the peer of a definition, are in the table of
\* peers: assert (zyre_peer) in igs_network.c:858 and :1136.
AssertionsHold ==
  \A p \in Peers, n \in Nodes :
    /\ Ready(p) /\ channel[n][p] # <<>>
    /\ Head(channel[n][p]).type \in {"JOIN", "DEFINITION"}
    => known[p][n] # "unknown"

Quiet ==
  /\ \A n \in Nodes, p \in Peers : channel[n][p] = <<>>
  /\ \A p \in Peers : up[p] /\ leaving[p] = None /\ telling[p] = <<>>
  /\ \A p, q \in Peers : p # q => {Node(p), Node(q)} \in links
  /\ \A a \in active : ~needDef[a]

\* Once everything sent is received, a peer knows exactly the active agents of
\* the others: JOIN, the timer, REMOTE_AGENT_EXIT and EXIT miss none of them and
\* leave none behind, and a timeout reported after a reconnection costs nothing.
Agreement ==
  \A p \in Peers : {r \in Agents : remotes[p][r] # None} = active \ On(p)
\* This holds as long as no process was restarted: see AgreementAfterRestart.
RegistryAgrees == Quiet /\ churn["restart"] = 0 => Agreement

\* Nor does a peer stay ignorant: it ends up knowing the active agents.
RegistryConverges == <>[](Agreement \/ churn["restart"] > 0)

\* Every active agent is then told that each active remote agent entered and
\* knows it, by REMOTE_PEER_KNOWS_AGENT or by the notification of a definition
\* sent at runtime, and of nobody else.  After a reconnection the JOIN may
\* bring a definition before the timer does, without its notification.
EveryoneReady ==
  Quiet /\ churn["restart"] + churn["reconnect"] = 0 =>
    \A a \in active : told[a] = {"ENTERED", "KNOWS_US"} \X (active \ On(Home[a]))

\* The registry is sound while events arrive, and right when none is left.
RegistrySound == PeerOfRemoteKnown /\ AssertionsHold /\ RegistryAgrees /\ EveryoneReady

\* igs_network.c:846-847: reconnection is tracked "to avoid agent destruction on
\* EXIT received after timeout".  A process that stops and starts again comes
\* back as another Zyre peer: its agents stay attached to the former one, and
\* are destroyed with it.
AgreementAfterRestart == Quiet => Agreement
=============================================================================
