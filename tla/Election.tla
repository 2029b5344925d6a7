------------------------------ MODULE Election ------------------------------
(***************************************************************************)
(* Elections of one process: igsagent_election_join and _leave, the LEADER *)
(* event of s_manage_zyre_incoming (src/src/igs_network.c), and what       *)
(* activation, destruction, start and stop do to them.  Zyre runs the      *)
(* election itself; here it may declare our peer winner or loser of any    *)
(* group the peer is in, any number of times.                              *)
(*                                                                         *)
(* User threads run between two steps of the network thread unless it      *)
(* holds the model lock (locked).                                          *)
(***************************************************************************)
EXTENDS Integers, Sequences, FiniteSets

CONSTANTS
  Agents,      \* agents created in the process, each observing agent events
  Elections,   \* names of elections
  MaxInbox,    \* bound: LEADER events waiting for the network thread
  MaxEvents    \* bound: LEADER events in all

ASSUME ElectionAssumption ==
  MaxInbox \in Nat /\ MaxEvents \in Nat

VARIABLES
  created,     \* context->created_agents
  active,      \* context->agents
  entries,     \* keys of context->elections
  attendees,   \* the list stored under each key
  joined,      \* agent->elections
  node,        \* context->node exists: the process is started
  groups,      \* zyre groups of elections our node is in
  inbox,       \* LEADER events received by our node
  pc,          \* network thread: idle, loop (locked), callback (unlocked)
  event,       \* LEADER event being handled
  todo,        \* what is left of election_copy
  verdict,     \* last outcome the observer of each agent was told
  stayed,      \* attendees told together that have not left since
  events       \* bounded by MaxEvents

vars == <<created, active, entries, attendees, joined, node, groups, inbox,
          pc, event, todo, verdict, stayed, events>>

Outcomes == {"won", "lost"}
In(list) == {list[i] : i \in 1..Len(list)}
Members(e) == In(attendees[e])

\* zlist_remove: the list without its first a.
FirstAt(list, a) == CHOOSE i \in 1..Len(list) : list[i] = a /\ \A j \in 1..i - 1 : list[j] # a
Without(list, a) ==
  IF a \notin In(list) THEN list
  ELSE [i \in 1..Len(list) - 1 |-> IF i < FirstAt(list, a) THEN list[i] ELSE list[i + 1]]

locked == pc = "loop"

(***************************************************************************)
(* User threads.                                                           *)
(***************************************************************************)

\* igsagent_election_join.  A second join of the same agent fails, which
\* leaves everything as it is and is not a step.  The agent may be inactive.
JoinGroup(e) == IF node /\ e \notin entries THEN {e} ELSE {}
AlwaysJoins(a, e) == TRUE                    \* mutant: no check for duplicates
MayJoin(a, e) == e \in entries => a \notin Members(e)

Join(a, e) ==
  /\ ~locked /\ a \in created
  /\ MayJoin(a, e)
  /\ entries' = entries \cup {e}
  /\ groups' = groups \cup JoinGroup(e)
  /\ attendees' = [attendees EXCEPT ![e] = Append(@, a)]
  /\ joined' = [joined EXCEPT ![a] = @ \cup {e}]
  /\ verdict' = [verdict EXCEPT ![a] = [@ EXCEPT ![e] = "none"]]
  /\ UNCHANGED <<created, active, node, inbox, pc, event, todo, stayed, events>>

\* igsagent_election_leave.  It returns at once for an agent without election
\* and fails for an election without entry.
Leave(a, e) ==
  /\ ~locked /\ a \in created
  /\ joined[a] # {}
  /\ e \in entries
  /\ attendees' = [attendees EXCEPT ![e] = Without(@, a)]
  /\ IF Without(attendees[e], a) = <<>>
     THEN entries' = entries \ {e} /\ groups' = groups \ {e}
     ELSE UNCHANGED <<entries, groups>>
  /\ joined' = [joined EXCEPT ![a] = @ \ {e}]
  /\ stayed' = [stayed EXCEPT ![e] = @ \ {a}]
  /\ UNCHANGED <<created, active, node, inbox, pc, event, todo, verdict, events>>

\* igsagent_activate and igsagent_deactivate do not look at elections.
Activate(a) ==
  /\ ~locked /\ a \in created \ active
  /\ active' = active \cup {a}
  /\ UNCHANGED <<created, entries, attendees, joined, node, groups, inbox, pc, event, todo,
                 verdict, stayed, events>>

Deactivate(a) ==
  /\ ~locked /\ a \in active
  /\ active' = active \ {a}
  /\ UNCHANGED <<created, entries, attendees, joined, node, groups, inbox, pc, event, todo,
                 verdict, stayed, events>>

\* igsagent_destroy, once the agent is inactive; nor does it look at elections.
Destroy(a) ==
  /\ ~locked /\ a \in created \ active
  /\ created' = created \ {a}
  /\ UNCHANGED <<active, entries, attendees, joined, node, groups, inbox, pc, event, todo,
                 verdict, stayed, events>>

\* s_init_loop joins the group of every entry; igs_stop destroys the node once
\* the network thread has left its handlers.
StartGroupsAgents == active                  \* mutant: only the groups of agents
StartGroups == entries

Start ==
  /\ ~locked /\ ~node
  /\ node' = TRUE
  /\ groups' = StartGroups
  /\ UNCHANGED <<created, active, entries, attendees, joined, inbox, pc, event, todo,
                 verdict, stayed, events>>

Stop ==
  /\ pc = "idle" /\ node
  /\ node' = FALSE
  /\ groups' = {} /\ inbox' = <<>>
  /\ UNCHANGED <<created, active, entries, attendees, joined, pc, event, todo,
                 verdict, stayed, events>>

(***************************************************************************)
(* Zyre.                                                                   *)
(***************************************************************************)
Elect(e, outcome) ==
  /\ e \in groups
  /\ Len(inbox) < MaxInbox /\ events < MaxEvents
  /\ inbox' = Append(inbox, [election |-> e, outcome |-> outcome])
  /\ events' = events + 1
  /\ UNCHANGED <<created, active, entries, attendees, joined, node, groups, pc, event, todo,
                 verdict, stayed>>

(***************************************************************************)
(* Network thread: the LEADER event.                                       *)
(***************************************************************************)

\* An event of a group without entry is dropped; otherwise the list of
\* attendees is duplicated and the loop starts, under the model lock.
TakeLeader ==
  /\ pc = "idle" /\ inbox # <<>>
  /\ inbox' = Tail(inbox)
  /\ LET e == Head(inbox).election
     IN IF e \notin entries
        THEN UNCHANGED <<pc, event, todo, stayed>>
        ELSE /\ pc' = "loop"
             /\ event' = Head(inbox)
             /\ todo' = attendees[e]
             /\ stayed' = [stayed EXCEPT ![e] = Members(e)]
  /\ UNCHANGED <<created, active, entries, attendees, joined, node, groups, verdict, events>>

\* The next attendee is looked up among the active agents; its callback runs
\* unlocked.  When it is not found the code loops (continue) without taking
\* the next one: no step is possible any more.
CallNext ==
  /\ pc = "loop" /\ todo # <<>>
  /\ Head(todo) \in active
  /\ pc' = "callback"
  /\ UNCHANGED <<created, active, entries, attendees, joined, node, groups, inbox, event, todo,
                 verdict, stayed, events>>

\* The observer of the attendee is told the outcome, then the lock is taken
\* back and the next attendee follows.
OppositeOutcome(o) == IF Len(todo) = 1 THEN "won" ELSE o  \* mutant: last one wins
Outcome(o) == o
RestSame(list) == list                       \* mutant: first attendee again
Rest(list) == Tail(list)

Callback ==
  /\ pc = "callback"
  /\ verdict' = [verdict EXCEPT ![Head(todo)] =
                   [@ EXCEPT ![event.election] = Outcome(event.outcome)]]
  /\ todo' = Rest(todo)
  /\ pc' = "loop"
  /\ UNCHANGED <<created, active, entries, attendees, joined, node, groups, inbox, event,
                 stayed, events>>

EndLeader ==
  /\ pc = "loop" /\ todo = <<>>
  /\ pc' = "idle"
  /\ UNCHANGED <<created, active, entries, attendees, joined, node, groups, inbox, event, todo,
                 verdict, stayed, events>>

Init ==
  /\ created = Agents /\ active = Agents
  /\ entries = {} /\ attendees = [e \in Elections |-> <<>>]
  /\ joined = [a \in Agents |-> {}]
  /\ node = FALSE /\ groups = {} /\ inbox = <<>>
  /\ pc = "idle" /\ todo = <<>>
  /\ event \in [election : Elections, outcome : {"lost"}]
  /\ verdict = [a \in Agents |-> [e \in Elections |-> "none"]]
  /\ stayed = [e \in Elections |-> {}]
  /\ events = 0

UserNext ==
  \/ \E a \in Agents, e \in Elections : Join(a, e) \/ Leave(a, e)
  \/ \E a \in Agents : Activate(a) \/ Deactivate(a) \/ Destroy(a)
  \/ Start \/ Stop

LeaderNext == TakeLeader \/ CallNext \/ Callback \/ EndLeader

Next ==
  \/ UserNext
  \/ \E e \in Elections, o \in Outcomes : Elect(e, o)
  \/ LeaderNext

Spec == Init /\ [][Next]_vars

\* The network thread is scheduled and callbacks return.
FairSpec == Spec /\ WF_vars(LeaderNext)

-----------------------------------------------------------------------------
\* Every variable has its type.
TypeOK ==
  /\ created \subseteq Agents /\ active \subseteq Agents
  /\ entries \subseteq Elections
  /\ attendees \in [Elections -> Seq(Agents)]
  /\ joined \in [Agents -> SUBSET Elections]
  /\ node \in BOOLEAN
  /\ groups \subseteq Elections
  /\ inbox \in Seq([election : Elections, outcome : Outcomes])
  /\ pc \in {"idle", "loop", "callback"}
  /\ event \in [election : Elections, outcome : Outcomes]
  /\ todo \in Seq(Agents)
  /\ verdict \in [Agents -> [Elections -> Outcomes \cup {"none"}]]
  /\ stayed \in [Elections -> SUBSET Agents]
  /\ events \in Nat

\* The two views of who participates, the list of each election and the list
\* of each agent, agree through joins, repeated joins and leaves; an election
\* is in the table exactly while somebody participates, which is what decides
\* whether its group is joined and left (igs_network.c:4733-4763, 4791-4819).
EntriesAttended == \A e \in Elections : e \in entries <=> attendees[e] # <<>>
ViewsAgree == \A a \in Agents, e \in Elections : a \in Members(e) <=> e \in joined[a]
AttendOnce ==
  \A e \in Elections : \A i, j \in 1..Len(attendees[e]) :
    attendees[e][i] = attendees[e][j] => i = j
Participation == EntriesAttended /\ ViewsAgree /\ AttendOnce

\* Our peer runs for exactly the elections somebody participates in, as long
\* as it is started, joins made before the start included
\* (igs_network.c:3265-3273, 4737-4742, 4799-4806).
PeerRunsForAgents == groups = IF node THEN entries ELSE {}

\* The tables of the peer, of its agents and of Zyre agree.
TablesAgree == Participation /\ PeerRunsForAgents

\* Agents of one peer that were participating when a LEADER event was handled
\* have been told the same outcome once its handler has returned
\* (ingescape.h:725-727).
ToldTogether ==
  pc = "idle" => \A e \in Elections : \A a, b \in stayed[e] : verdict[a][e] = verdict[b][e]

\* The handler of a LEADER event ends, so that the network thread goes on and
\* the model lock is free again, unless it meets a participant that is not
\* active any more (igs_network.c:2753-2786).
MeetsInactive == pc = "loop" /\ todo # <<>> /\ Head(todo) \notin active
LeaderHandled == pc # "idle" ~> (pc = "idle" \/ MeetsInactive)

\* igs_network.c:2752: "inform all our agents participating in the election".
\* The loop does not go past a participant that was deactivated or destroyed
\* without having left the election.
LeaderReturns == pc # "idle" ~> pc = "idle"
=============================================================================
