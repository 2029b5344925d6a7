---------------------------- MODULE AgentEvents ----------------------------
(***************************************************************************)
(* Activation of the agents of one process and the agent events their      *)
(* observers are told: igsagent_activate, igsagent_deactivate and          *)
(* agent_LOCKED_propagate_agent_event (src/src/igsagent.c), called by user *)
(* threads and, for remote agents, by the network thread.                  *)
(*                                                                         *)
(* Callbacks run with the model lock released.  A thread is therefore at   *)
(* one of two points of a loop: "lock", about to take the lock and select  *)
(* the next observer to call, or "call", unlocked and about to call it.    *)
(* Everything between the two is one step.                                 *)
(***************************************************************************)
EXTENDS Naturals, FiniteSets

CONSTANTS
  Agents,     \* agents created in the process
  Remotes,    \* agents of other peers
  Observers,  \* each agent has agent event observers 1..Observers
  Users,      \* threads that activate and deactivate
  Network,    \* the network thread
  MaxOps,     \* bound: operations started
  Nobody      \* no agent is propagated, and no agent is the subject

ASSUME AgentEventsAssumption ==
  /\ Observers \in Nat \ {0}
  /\ MaxOps \in Nat
  /\ Agents \cap Remotes = {}
  /\ Network \notin Users
  /\ Nobody \notin Agents \cup Remotes

VARIABLES
  active,     \* context->agents
  remotes,    \* context->remote_agents
  op,         \* operation of each thread, "none" when it has none
  subject,    \* the agent the operation is about
  stage,      \* the loop the thread is in
  point,      \* "lock" or "call"
  target,     \* agent told about subject, or that subject is told about
  observer,   \* index of the observer to call
  contacted,  \* contacted_agents
  view,       \* agents each observer has been told entered and not exited
  told,       \* events <<event, agent>> it was told of the present activations
  status,     \* last value given to the activation callback of the agent
  overlapped, \* two user threads have operated at the same time
  ops         \* bounded by MaxOps

threadVars == <<op, subject, stage, point, target, observer, contacted>>
toldVars == <<view, told, status>>
history == <<overlapped, ops>>
vars == <<active, remotes, threadVars, toldVars, history>>

Threads == Users \cup {Network}
Ids == Agents \cup Remotes
Indices == 1..Observers

\* The thread goes to the point "call" of a loop, for observer k of x.
Calls(t, st, x, k, done) ==
  /\ stage' = [stage EXCEPT ![t] = st]
  /\ target' = [target EXCEPT ![t] = x]
  /\ observer' = [observer EXCEPT ![t] = k]
  /\ contacted' = [contacted EXCEPT ![t] = done]
  /\ point' = [point EXCEPT ![t] = "call"]

\* The thread has released the lock and goes on with another loop.
Enters(t, st) ==
  /\ stage' = [stage EXCEPT ![t] = st]
  /\ target' = [target EXCEPT ![t] = Nobody]
  /\ observer' = [observer EXCEPT ![t] = 1]
  /\ contacted' = [contacted EXCEPT ![t] = {}]
  /\ point' = [point EXCEPT ![t] = "lock"]

\* The operation of the thread is over.
Returns(t) ==
  /\ op' = [op EXCEPT ![t] = "none"]
  /\ subject' = [subject EXCEPT ![t] = Nobody]
  /\ Enters(t, "idle")

\* The operation starts; its first loop begins under the same lock when
\* Begin says so.
Starts(t, name, x) ==
  /\ op[t] = "none" /\ ops < MaxOps
  /\ ops' = ops + 1
  /\ overlapped' = (overlapped \/ (t \in Users /\ \E u \in Users : op[u] # "none"))
  /\ op' = [op EXCEPT ![t] = name]
  /\ subject' = [subject EXCEPT ![t] = x]

(***************************************************************************)
(* igsagent_activate: subject is told about the local agents, then about   *)
(* the remote agents, all this before the lock is released for good.       *)
(***************************************************************************)
RemoteLoop(t, done) ==
  IF remotes \ done # {}
  THEN \E r \in remotes \ done : Calls(t, "remotes", r, 1, done)
  ELSE Enters(t, "entered")

LocalLoop(t, a, done, present) ==
  IF present \ (done \cup {a}) # {}
  THEN \E b \in present \ (done \cup {a}) : Calls(t, "locals", b, 1, done)
  ELSE RemoteLoop(t, {})

\* What the observers were told about an agent that becomes active again counts
\* no more, and its own observers start afresh.
Forget(seen, a) == [b \in Agents |-> [k \in Indices |->
                      IF b = a THEN {} ELSE {e \in seen[b][k] : e[2] # a}]]

\* An agent that is already active is left as it is.
Activate(t, a) ==
  /\ t \in Users
  /\ a \notin active
  /\ Starts(t, "activate", a)
  /\ active' = active \cup {a}
  /\ LocalLoop(t, a, {}, active')
  /\ view' = [view EXCEPT ![a] = [k \in Indices |-> {}]]
  /\ told' = Forget(told, a)
  /\ UNCHANGED <<remotes, status>>

\* Whether the loop on the observers of one agent goes on after a callback:
\* the agent iterated on is looked up again.
NextObserverBeyond(t) == target[t] \in active /\ observer[t] <= Observers  \* mutant: off by one
NextObserverNever(t) == FALSE                     \* mutant: first observer only
NextObserver(t) == target[t] \in active /\ observer[t] < Observers
DoneNothing(t) == contacted[t]                    \* mutant: never marked as contacted
Done(t) == IF target[t] = Nobody THEN contacted[t] ELSE contacted[t] \cup {target[t]}

LocalStep(t) ==
  /\ stage[t] = "locals" /\ point[t] = "lock"
  /\ IF NextObserver(t)
     THEN Calls(t, "locals", target[t], observer[t] + 1, contacted[t])
     ELSE LocalLoop(t, subject[t], Done(t), active)
  /\ UNCHANGED <<active, remotes, op, subject, toldVars, history>>

\* The remote agent is looked up among the local ones and never found: the
\* loop on the observers ends after the first of them.
RemoteStep(t) ==
  /\ stage[t] = "remotes" /\ point[t] = "lock"
  /\ IF NextObserver(t)
     THEN Calls(t, "remotes", target[t], observer[t] + 1, contacted[t])
     ELSE RemoteLoop(t, Done(t))
  /\ UNCHANGED <<active, remotes, op, subject, toldVars, history>>

(***************************************************************************)
(* agent_LOCKED_propagate_agent_event, once per event of the operation.    *)
(***************************************************************************)
Uncontacted(done, x) == active \ (done \cup {x})

\* What follows the propagation of an event.
AfterPropagation(t) ==
  CASE stage[t] = "entered" /\ op[t] = "activate" -> Enters(t, "knows") /\ UNCHANGED <<op, subject>>
    [] stage[t] = "knows" -> Enters(t, "observers") /\ UNCHANGED <<op, subject>>
    [] OTHER -> Returns(t)

PropagateStep(t) ==
  /\ stage[t] \in {"entered", "knows", "exited"} /\ point[t] = "lock"
  /\ IF NextObserver(t)
     THEN /\ Calls(t, stage[t], target[t], observer[t] + 1, contacted[t])
          /\ UNCHANGED <<op, subject>>
     ELSE IF Uncontacted(Done(t), subject[t]) # {}
     THEN /\ \E b \in Uncontacted(Done(t), subject[t]) : Calls(t, stage[t], b, 1, Done(t))
          /\ UNCHANGED <<op, subject>>
     ELSE AfterPropagation(t)
  /\ UNCHANGED <<active, remotes, toldVars, history>>

(***************************************************************************)
(* The activation callbacks, last in igsagent_activate and first in        *)
(* igsagent_deactivate.                                                    *)
(***************************************************************************)
ObserversStep(t) ==
  /\ stage[t] = "observers" /\ point[t] = "lock"
  /\ IF target[t] = Nobody
     THEN Calls(t, "observers", subject[t], 1, {}) /\ UNCHANGED <<op, subject>>
     ELSE IF op[t] = "deactivate"
     THEN Enters(t, "exited") /\ UNCHANGED <<op, subject>>
     ELSE Returns(t)
  /\ UNCHANGED <<active, remotes, toldVars, history>>

\* igsagent_deactivate: the agent leaves the table, its activation callbacks
\* are called, then the others are told.
Deactivate(t, a) ==
  /\ t \in Users
  /\ a \in active
  /\ Starts(t, "deactivate", a)
  /\ active' = active \ {a}
  /\ Calls(t, "observers", a, 1, {})
  /\ UNCHANGED <<remotes, toldVars>>

(***************************************************************************)
(* The network thread: a remote agent enters or exits.                     *)
(***************************************************************************)
RemoteEnters(r) ==
  /\ r \notin remotes
  /\ Starts(Network, "enter", r)
  /\ remotes' = remotes \cup {r}
  /\ Enters(Network, "entered")
  /\ UNCHANGED <<active, toldVars>>

RemoteExits(r) ==
  /\ r \in remotes
  /\ Starts(Network, "exit", r)
  /\ remotes' = remotes \ {r}
  /\ Enters(Network, "exited")
  /\ UNCHANGED <<active, toldVars>>

(***************************************************************************)
(* An observer is called.                                                  *)
(***************************************************************************)
\* Events one call of the observer stands for.
Events(st) ==
  CASE st = "locals" -> {"ENTERED", "KNOWS_US"}
    [] st \in {"remotes", "entered"} -> {"ENTERED"}
    [] st = "knows" -> {"KNOWS_US"}
    [] OTHER -> {}

\* Who is told, about whom.
Listener(t) == IF stage[t] \in {"locals", "remotes"} THEN subject[t] ELSE target[t]
About(t) == IF stage[t] \in {"locals", "remotes"} THEN target[t] ELSE subject[t]

CallEvent(t) ==
  /\ point[t] = "call" /\ stage[t] # "observers"
  /\ LET a == Listener(t)
         k == observer[t]
         b == About(t)
         seen == IF stage[t] = "exited" THEN view[a][k] \ {b}
                 ELSE IF "ENTERED" \in Events(stage[t]) THEN view[a][k] \cup {b}
                 ELSE view[a][k]
     IN /\ view' = [view EXCEPT ![a][k] = seen]
        /\ told' = [told EXCEPT ![a][k] = @ \cup (Events(stage[t]) \X {b})]
  /\ point' = [point EXCEPT ![t] = "lock"]
  /\ UNCHANGED <<active, remotes, op, subject, stage, target, observer, contacted, status, history>>

CallActivation(t) ==
  /\ point[t] = "call" /\ stage[t] = "observers"
  /\ status' = [status EXCEPT ![subject[t]] = op[t] = "activate"]
  /\ point' = [point EXCEPT ![t] = "lock"]
  /\ UNCHANGED <<active, remotes, op, subject, stage, target, observer, contacted, view, told, history>>

Init ==
  /\ active = {} /\ remotes = {}
  /\ op = [t \in Threads |-> "none"]
  /\ subject = [t \in Threads |-> Nobody]
  /\ stage = [t \in Threads |-> "idle"]
  /\ point = [t \in Threads |-> "lock"]
  /\ target = [t \in Threads |-> Nobody]
  /\ observer = [t \in Threads |-> 1]
  /\ contacted = [t \in Threads |-> {}]
  /\ view = [a \in Agents |-> [k \in Indices |-> {}]]
  /\ told = [a \in Agents |-> [k \in Indices |-> {}]]
  /\ status = [a \in Agents |-> FALSE]
  /\ overlapped = FALSE /\ ops = 0

Goes(t) ==
  \/ LocalStep(t) \/ RemoteStep(t) \/ PropagateStep(t) \/ ObserversStep(t)
  \/ CallEvent(t) \/ CallActivation(t)

Next ==
  \/ \E t \in Users, a \in Agents : Activate(t, a) \/ Deactivate(t, a)
  \/ \E r \in Remotes : RemoteEnters(r) \/ RemoteExits(r)
  \/ \E t \in Threads : Goes(t)

Spec == Init /\ [][Next]_vars
FairSpec == Spec /\ \A t \in Threads : WF_vars(Goes(t))

-----------------------------------------------------------------------------
\* Every variable has its type.
TypeOK ==
  /\ active \subseteq Agents /\ remotes \subseteq Remotes
  /\ op \in [Threads -> {"none", "activate", "deactivate", "enter", "exit"}]
  /\ subject \in [Threads -> Ids \cup {Nobody}]
  /\ stage \in [Threads -> {"idle", "locals", "remotes", "entered", "knows",
                            "exited", "observers"}]
  /\ point \in [Threads -> {"lock", "call"}]
  /\ target \in [Threads -> Ids \cup {Nobody}]
  /\ observer \in [Threads -> Indices]
  /\ contacted \in [Threads -> SUBSET Ids]
  /\ view \in [Agents -> [Indices -> SUBSET Ids]]
  /\ told \in [Agents -> [Indices -> SUBSET ({"ENTERED", "KNOWS_US"} \X Ids)]]
  /\ status \in [Agents -> BOOLEAN]
  /\ overlapped \in BOOLEAN /\ ops \in Nat

Quiet == \A t \in Threads : op[t] = "none"

\* Whatever several threads activate and deactivate while observers are being
\* called, every observer of every active agent is in the end told that each of
\* the other active agents entered and knows it: by the activation of its own
\* agent or by the one of the other (igsagent.c:171-219, 260-261).
NobodyMissed ==
  Quiet => \A a \in active, k \in Indices :
             {"ENTERED", "KNOWS_US"} \X (active \ {a}) \subseteq told[a][k]

\* When the threads take turns, nobody is believed present after its exit and
\* the activation callback had the last word.  When they overlap, the exit of a
\* deactivation may be told after the entering of the next activation.
ViewsExact ==
  Quiet /\ ~overlapped => /\ \A a \in active, k \in Indices : view[a][k] \cap Agents = active \ {a}
           /\ \A a \in Agents : status[a] = (a \in active)

\* The first observer of an agent is told about every remote agent, entering
\* before or after the activation of its agent.
FirstObserverKnowsRemotes ==
  Quiet => \A a \in active : remotes \subseteq view[a][1]

\* What observers were told is right, in these three ways.
ViewsRight == NobodyMissed /\ ViewsExact /\ FirstObserverKnowsRemotes

\* An operation ends although agents come and go while it runs: the list of
\* contacted agents only grows.
OperationsEnd == \A t \in Threads : op[t] # "none" ~> op[t] = "none"

\* igsagent.c:173: "notify this agent with all the other agents already present
\* in our context locally and remotely".  Only its first observer is told about
\* a remote agent that was already there.
AllObserversKnowRemotes ==
  Quiet => \A a \in active, k \in Indices : remotes \subseteq view[a][k]
=============================================================================
