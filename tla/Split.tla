------------------------------- MODULE Split -------------------------------
(***************************************************************************)
(* Splits balance the publications of one output between several workers   *)
(* (src/src/igs_split.c and the parts of src/src/igs_network.c and         *)
(* src/src/igsagent.c that drive it).                                      *)
(*                                                                         *)
(* One process, the publishing peer, holds the splitters.  Its user        *)
(* threads (Publishers) publish works on Outputs and its network thread    *)
(* (Network) handles what the workers whisper.  Each worker agent lives on *)
(* a peer of its own, with a user thread that edits its split elements and *)
(* a network thread that handles what the publishing peer sends.           *)
(*                                                                         *)
(* A step is one section executed under the model lock.  The publishing    *)
(* peer keeps its lock over several steps of a walk, hence the variable    *)
(* lock; every whisper is sent with the lock released and is a step of its *)
(* own, with the message waiting in outbox, netOut or userOut.             *)
(***************************************************************************)
EXTENDS Naturals, Sequences, FiniteSets

CONSTANTS
  Agents,         \* worker agents
  Splits,         \* split elements <<input of a worker agent, output>>
  Outputs,        \* outputs of the publishing agent
  Works,          \* publications, each published at most once
  Publishers,     \* user threads of the publishing peer
  Network,        \* network thread of the publishing peer
  AgentOf,        \* [Splits -> Agents]
  InputOf,        \* [Splits -> inputs], from_input of the element
  OutputOf,       \* [Splits -> Outputs], to_output of the element
  InitialSplits,  \* [Agents -> Seq(Splits)], elements loaded before start
  Credit,         \* IGS_DEFAULT_WORKER_CREDIT
  Churn,          \* bound: what users do besides publishing, among
                  \* "publisher", "worker" ((de)activations) and "split" (edits)
  MaxChurn,       \* bound: how often they do it
  None            \* no thread, no message

ASSUME SplitAssumption ==
  /\ Network \notin Publishers
  /\ None \notin Publishers \cup {Network} \cup Splits \cup Works
  /\ None \notin [type : {"SPLITTER_WORK", "WORKER_HELLO", "WORKER_READY", "WORKER_GOODBYE",
                       "EXTERNAL_DEFINITION", "REMOTE_AGENT_EXIT"},
               split : Splits \cup {None}, work : Works \cup {None}]
  /\ IsFiniteSet(Publishers)
  /\ AgentOf \in [Splits -> Agents]
  /\ OutputOf \in [Splits -> Outputs]
  /\ InitialSplits \in [Agents -> Seq(Splits)]
  \* split elements of the agent, each once (igs_parser.c:720-735)
  /\ \A a \in Agents : \A i, j \in 1..Len(InitialSplits[a]) :
       /\ AgentOf[InitialSplits[a][i]] = a
       /\ InitialSplits[a][i] = InitialSplits[a][j] => i = j
  /\ Credit \in Nat
  /\ MaxChurn \in Nat

VARIABLES
  \* the publishing peer
  active,      \* the publishing agent is in context->agents
  announce,    \* its network_need_to_send_definition_update
  remotes,     \* worker agents in context->remote_agents
  workers,     \* workers of all splitters, one per split element
  credit, uses,\* of each worker
  queue,       \* queued_works of each splitter
  lock,        \* holder of the model mutex between two steps
  pc,          \* of each thread: idle, walk (split_add_work_to_queue), whisper
  publishing,  \* output and work a publisher is publishing
  walk,        \* splitters left in its duplicated list of splitters
  stale,       \* those of walk that were freed since the list was duplicated
  outbox,      \* message a thread is about to whisper
  \* the peers of the workers
  wactive, wannounce,  \* like active and announce
  knows,       \* the publishing agent is in context->remote_agents
  elements,    \* mapping->split_elements, a zlist
  cursor,      \* cursor of that zlist, 0 when NULL
  greeting,    \* the network thread is in the loop that sends WORKER_HELLO
  netOut, userOut,     \* message the network, the user thread whispers
  \* one ordered channel per direction between two peers
  toWorker, toSplitter,
  \* history
  received,    \* split elements whose input got the work
  issued,      \* works published so far
  granted,     \* WORKER_HELLOs that gave credit to each split element
  churn        \* bounded by MaxChurn

publisherVars == <<lock, pc, publishing, walk, stale, outbox>>
splitterVars == <<workers, credit, uses, queue>>
workerVars == <<wactive, wannounce, knows, elements, cursor, greeting, netOut, userOut>>
vars == <<active, announce, remotes, splitterVars, publisherVars, workerVars,
          toWorker, toSplitter, received, issued, granted, churn>>

Threads == Publishers \cup {Network}

\* A user operation other than a publication takes place.
UserOperation(kind) ==
  /\ kind \in Churn /\ churn < MaxChurn
  /\ churn' = churn + 1

Message(type, split, work) == [type |-> type, split |-> split, work |-> work]
Work(s, w) == Message("SPLITTER_WORK", s, w)
Hello(s) == Message("WORKER_HELLO", s, None)
Ready(s, w) == Message("WORKER_READY", s, w)
Goodbye(s) == Message("WORKER_GOODBYE", s, None)
Definition == Message("EXTERNAL_DEFINITION", None, None)
AgentExit == Message("REMOTE_AGENT_EXIT", None, None)

(***************************************************************************)
(* Splitters.  A splitter exists exactly as long as it has a worker: it is *)
(* created with its first worker and freed with its last one.              *)
(***************************************************************************)
SplittersOf(ws) == {OutputOf[s] : s \in ws}

\* Workers the scan of the workers of output o may end on: most credits
\* first, then fewest uses.  The order of the list, which decides between
\* equals, is left open.
BestWorkers(ws, cr, us, o) ==
  {s \in ws : /\ OutputOf[s] = o
              /\ \A r \in ws : OutputOf[r] = o =>
                   \/ cr[r] < cr[s]
                   \/ cr[r] = cr[s] /\ us[s] <= us[r]}

\* Some worker of o can be given the head of q[o].
CanDispatchWithout(ws, cr, q, o) ==     \* mutant: credit >= 0
  q[o] # <<>> /\ \E s \in ws : OutputOf[s] = o /\ cr[s] >= 0
CanDispatch(ws, cr, q, o) ==
  /\ q[o] # <<>>
  /\ \E s \in ws : OutputOf[s] = o /\ cr[s] > 0

\* The dispatch costs the worker one credit and takes the work off the queue.
DebitNothing(cr, s) == cr               \* mutant: credit not decremented
Debit(cr, s) == [cr EXCEPT ![s] = @ - 1]
DropFirst(q, o) == [q EXCEPT ![o] = Tail(@)]

\* s_split_trigger_send_message_to_worker: at most one queued work of output
\* o leaves for the best worker; the lock is released for the whisper, which
\* another step sends.  ws, cr, us and q are the splitters as the caller left
\* them.  When nothing can be dispatched, the thread goes on as the caller
\* says (pc and holder of the lock).
Trigger(t, o, ws, cr, us, q, pcElse, lockElse) ==
  /\ workers' = ws
  /\ \/ /\ CanDispatch(ws, cr, q, o)
        /\ \E s \in BestWorkers(ws, cr, us, o) :
             /\ credit' = Debit(cr, s)
             /\ uses' = [us EXCEPT ![s] = @ + 1]
             /\ outbox' = [outbox EXCEPT ![t] = Work(s, Head(q[o]))]
        /\ queue' = DropFirst(q, o)
        /\ pc' = [pc EXCEPT ![t] = "whisper"]
        /\ lock' = None
     \/ /\ ~CanDispatch(ws, cr, q, o)
        /\ credit' = cr
        /\ uses' = us
        /\ queue' = q
        /\ outbox' = outbox
        /\ pc' = [pc EXCEPT ![t] = pcElse]
        /\ lock' = lockElse

(***************************************************************************)
(* The publishing peer: user threads.                                      *)
(***************************************************************************)

\* network_publish_output calls split_add_work_to_queue, which duplicates the
\* list of splitters and walks it.  A publication with no splitter at all
\* leaves no trace and is not a step.
Publish(t, o, w) ==
  /\ pc[t] = "idle" /\ lock = None
  /\ active
  /\ w \notin issued
  /\ workers # {}
  /\ issued' = issued \cup {w}
  /\ publishing' = [publishing EXCEPT ![t] = [output |-> o, work |-> w]]
  /\ walk' = [walk EXCEPT ![t] = SplittersOf(workers)]
  /\ stale' = [stale EXCEPT ![t] = {}]
  /\ pc' = [pc EXCEPT ![t] = "walk"]
  /\ lock' = t
  /\ UNCHANGED <<active, announce, remotes, splitterVars, outbox, workerVars,
                 toWorker, toSplitter, received, granted, churn>>

\* One turn of split_add_work_to_queue: the splitter of our output gets the
\* work, and any splitter triggers a dispatch on our output.  A freed splitter
\* of the list is read all the same; the work it may get is lost.
WalkStep(t) ==
  /\ pc[t] = "walk" /\ lock \in {None, t}
  /\ \E e \in walk[t] :
       LET o == publishing[t].output
           q == IF e = o /\ e \notin stale[t]
                THEN [queue EXCEPT ![o] = Append(@, publishing[t].work)]
                ELSE queue
           last == walk[t] = {e}
       IN /\ walk' = [walk EXCEPT ![t] = @ \ {e}]
          /\ Trigger(t, o, workers, credit, uses, q,
                     IF last THEN "idle" ELSE "walk",
                     IF last THEN None ELSE t)
  /\ UNCHANGED <<active, announce, remotes, publishing, stale, workerVars,
                 toWorker, toSplitter, received, issued, granted, churn>>

\* igs_channel_whisper_zmsg called by s_split_trigger_send_message_to_worker:
\* the work reaches the peer of the worker, or nobody when the worker agent is
\* not a known remote agent.
WhisperWork(t) ==
  /\ pc[t] = "whisper" /\ lock = None
  /\ LET a == AgentOf[outbox[t].split]
     IN toWorker' = IF a \in remotes
                    THEN [toWorker EXCEPT ![a] = Append(@, outbox[t])]
                    ELSE toWorker
  /\ outbox' = [outbox EXCEPT ![t] = None]
  /\ pc' = [pc EXCEPT ![t] = IF walk[t] = {} THEN "idle" ELSE "walk"]
  /\ UNCHANGED <<active, announce, remotes, splitterVars, lock, publishing, walk, stale,
                 workerVars, toSplitter, received, issued, granted, churn>>

\* igsagent_deactivate on the publishing agent; its splitters stay.
Deactivate ==
  /\ lock = None /\ active
  /\ UserOperation("publisher")
  /\ active' = FALSE
  /\ toWorker' = [a \in Agents |-> Append(toWorker[a], AgentExit)]
  /\ UNCHANGED <<announce, remotes, splitterVars, publisherVars, workerVars,
                 toSplitter, received, issued, granted>>

\* igsagent_activate on the publishing agent.
Activate ==
  /\ lock = None /\ ~active
  /\ UserOperation("publisher")
  /\ active' = TRUE
  /\ announce' = TRUE
  /\ UNCHANGED <<remotes, splitterVars, publisherVars, workerVars,
                 toWorker, toSplitter, received, issued, granted>>

(***************************************************************************)
(* The publishing peer: network thread.                                    *)
(***************************************************************************)

NetworkReady == pc[Network] = "idle" /\ lock = None

\* s_trigger_definition_update, a timer of the network thread.
SendDefinition ==
  /\ NetworkReady /\ active /\ announce
  /\ announce' = FALSE
  /\ toWorker' = [a \in Agents |-> Append(toWorker[a], Definition)]
  /\ UNCHANGED <<active, remotes, splitterVars, publisherVars, workerVars,
                 toSplitter, received, issued, granted, churn>>

\* The network thread takes the next message of the peer of a.
FromWorker(a, type) ==
  /\ NetworkReady
  /\ toSplitter[a] # <<>>
  /\ Head(toSplitter[a]).type = type
  /\ toSplitter' = [toSplitter EXCEPT ![a] = Tail(@)]

\* Uses a new worker of output o starts with: those of the most used one.
StartUses(o) ==
  LET used == {uses[s] : s \in {r \in workers : OutputOf[r] = o}}
  IN {n \in used \cup {0} : \A m \in used : m <= n}

\* split_message_from_worker on WORKER_HELLO: s_split_add_credit_to_worker
\* creates the worker, and the splitter with it, or adds to its credit.
RecvHello(a) ==
  /\ FromWorker(a, "WORKER_HELLO")
  /\ LET s == Head(toSplitter[a]).split
     IN IF ~active
        THEN UNCHANGED <<splitterVars, publisherVars, granted>>
        ELSE /\ \E n \in IF s \in workers THEN {uses[s]} ELSE StartUses(OutputOf[s]) :
                  Trigger(Network, OutputOf[s], workers \cup {s},
                          [credit EXCEPT ![s] = IF s \in workers THEN @ + Credit ELSE Credit],
                          [uses EXCEPT ![s] = n], queue, "idle", None)
             /\ granted' = [granted EXCEPT ![s] = @ + 1]
             /\ UNCHANGED <<publishing, walk, stale>>
  /\ UNCHANGED <<active, announce, remotes, workerVars, toWorker, received, issued, churn>>

\* The credit one WORKER_READY gives back.
NoReadyCredit == 0                      \* mutant: credit never given back
ReadyCredit == 1

\* split_message_from_worker on WORKER_READY: one more credit for a worker
\* that is still there, and a dispatch in any case.
RecvReady(a) ==
  /\ FromWorker(a, "WORKER_READY")
  /\ LET s == Head(toSplitter[a]).split
     IN IF ~active
        THEN UNCHANGED <<splitterVars, publisherVars>>
        ELSE /\ Trigger(Network, OutputOf[s], workers,
                        [credit EXCEPT ![s] = IF s \in workers THEN @ + ReadyCredit ELSE @],
                        uses, queue, "idle", None)
             /\ UNCHANGED <<publishing, walk, stale>>
  /\ UNCHANGED <<active, announce, remotes, workerVars, toWorker, received, issued, granted, churn>>

\* split_remove_worker: the workers of gone leave every splitter; a splitter
\* left without worker is freed with its queued works, under the feet of the
\* threads that still have it in their list.
KeepQueue(freed) == queue               \* mutant: works survive the splitter
EmptyQueue(freed) == [o \in Outputs |-> IF o \in freed THEN <<>> ELSE queue[o]]

RemoveWorkers(gone) ==
  LET freed == SplittersOf(workers) \ SplittersOf(workers \ gone)
  IN /\ workers' = workers \ gone
     /\ credit' = [s \in Splits |-> IF s \in gone THEN 0 ELSE credit[s]]
     /\ uses' = [s \in Splits |-> IF s \in gone THEN 0 ELSE uses[s]]
     /\ queue' = EmptyQueue(freed)
     /\ stale' = [t \in Threads |-> stale[t] \cup (freed \cap walk[t])]
     /\ UNCHANGED <<lock, pc, publishing, walk, outbox>>

\* split_message_from_worker on WORKER_GOODBYE: the output named by the
\* message is not looked at, only the agent and its input.
RecvGoodbye(a) ==
  /\ FromWorker(a, "WORKER_GOODBYE")
  /\ LET s == Head(toSplitter[a]).split
     IN RemoveWorkers({r \in workers : AgentOf[r] = a /\ InputOf[r] = InputOf[s]})
  /\ UNCHANGED <<active, announce, remotes, workerVars, toWorker, received, issued, granted, churn>>

\* s_manage_zyre_incoming on REMOTE_AGENT_EXIT; ignored for an unknown agent.
RecvAgentExit(a) ==
  /\ FromWorker(a, "REMOTE_AGENT_EXIT")
  /\ IF a \in remotes
     THEN /\ remotes' = remotes \ {a}
          /\ RemoveWorkers({r \in workers : AgentOf[r] = a})
     ELSE UNCHANGED <<remotes, splitterVars, publisherVars>>
  /\ UNCHANGED <<active, announce, workerVars, toWorker, received, issued, granted, churn>>

\* s_manage_zyre_incoming on EXTERNAL_DEFINITION.  The publishing agent has no
\* split element, hence no WORKER_HELLO to send.
RecvDefinition(a) ==
  /\ FromWorker(a, "EXTERNAL_DEFINITION")
  /\ remotes' = remotes \cup {a}
  /\ UNCHANGED <<active, announce, splitterVars, publisherVars, workerVars,
                 toWorker, received, issued, granted, churn>>

(***************************************************************************)
(* The peers of the workers: user threads.                                 *)
(***************************************************************************)
publishingPeer == <<active, announce, remotes, splitterVars, publisherVars>>
SplitSet(a) == {elements[a][i] : i \in 1..Len(elements[a])}

\* igsagent_split_add.  Searching the list, appending to it and exporting it
\* (mapping_update_json) leave the cursor of the list NULL; a duplicate leaves
\* it on the element found.  The agent may be inactive.
SplitAdd(a, s) ==
  /\ AgentOf[s] = a /\ userOut[a] = None
  /\ UserOperation("split")
  /\ \/ /\ s \notin SplitSet(a)
        /\ elements' = [elements EXCEPT ![a] = Append(@, s)]
        /\ cursor' = [cursor EXCEPT ![a] = 0]
        /\ userOut' = [userOut EXCEPT ![a] = IF knows[a] THEN Hello(s) ELSE None]
     \/ /\ \E i \in 1..Len(elements[a]) :
             /\ elements[a][i] = s
             /\ cursor' = [cursor EXCEPT ![a] = i]
        /\ UNCHANGED <<elements, userOut>>
  /\ UNCHANGED <<publishingPeer, wactive, wannounce, knows, greeting, netOut,
                 toWorker, toSplitter, received, issued, granted>>

\* igsagent_split_remove_with_name and igsagent_split_remove_with_id.
SplitRemove(a, s) ==
  /\ userOut[a] = None
  /\ UserOperation("split")
  /\ \E i \in 1..Len(elements[a]) :
       /\ elements[a][i] = s
       /\ elements' = [elements EXCEPT ![a] =
                         SubSeq(@, 1, i - 1) \o SubSeq(@, i + 1, Len(@))]
  /\ cursor' = [cursor EXCEPT ![a] = 0]
  /\ userOut' = [userOut EXCEPT ![a] = Goodbye(s)]
  /\ UNCHANGED <<publishingPeer, wactive, wannounce, knows, greeting, netOut,
                 toWorker, toSplitter, received, issued, granted>>

\* igs_channel_whisper_zmsg at a worker: sent to the publishing agent if it is
\* known there, to nobody otherwise.
SendToSplitter(a, m) ==
  toSplitter' = IF knows[a] THEN [toSplitter EXCEPT ![a] = Append(@, m)] ELSE toSplitter

WhisperUser(a) ==
  /\ userOut[a] # None
  /\ SendToSplitter(a, userOut[a])
  /\ userOut' = [userOut EXCEPT ![a] = None]
  /\ UNCHANGED <<publishingPeer, wactive, wannounce, knows, elements, cursor, greeting,
                 netOut, toWorker, received, issued, granted, churn>>

\* igsagent_deactivate and igsagent_activate on a worker agent.
WorkerDeactivate(a) ==
  /\ wactive[a]
  /\ UserOperation("worker")
  /\ wactive' = [wactive EXCEPT ![a] = FALSE]
  /\ toSplitter' = [toSplitter EXCEPT ![a] = Append(@, AgentExit)]
  /\ UNCHANGED <<publishingPeer, wannounce, knows, elements, cursor, greeting, netOut,
                 userOut, toWorker, received, issued, granted>>

WorkerActivate(a) ==
  /\ ~wactive[a]
  /\ UserOperation("worker")
  /\ wactive' = [wactive EXCEPT ![a] = TRUE]
  /\ wannounce' = [wannounce EXCEPT ![a] = TRUE]
  /\ UNCHANGED <<publishingPeer, knows, elements, cursor, greeting, netOut, userOut,
                 toWorker, toSplitter, received, issued, granted>>

(***************************************************************************)
(* The peers of the workers: network threads.                              *)
(***************************************************************************)
WorkerNetworkReady(a) == netOut[a] = None /\ ~greeting[a]

WorkerSendDefinition(a) ==
  /\ WorkerNetworkReady(a) /\ wactive[a] /\ wannounce[a]
  /\ wannounce' = [wannounce EXCEPT ![a] = FALSE]
  /\ toSplitter' = [toSplitter EXCEPT ![a] = Append(@, Definition)]
  /\ UNCHANGED <<publishingPeer, wactive, knows, elements, cursor, greeting, netOut,
                 userOut, toWorker, received, issued, granted, churn>>

FromSplitter(a, type) ==
  /\ WorkerNetworkReady(a)
  /\ toWorker[a] # <<>>
  /\ Head(toWorker[a]).type = type
  /\ toWorker' = [toWorker EXCEPT ![a] = Tail(@)]

\* split_message_from_splitter: an active agent writes the work on its input;
\* WORKER_READY is sent back whether it is active or not.
RecvWork(a) ==
  /\ FromSplitter(a, "SPLITTER_WORK")
  /\ LET m == Head(toWorker[a])
     IN /\ received' = IF wactive[a]
                       THEN [received EXCEPT ![m.work] = @ \cup {m.split}]
                       ELSE received
        /\ netOut' = [netOut EXCEPT ![a] = Ready(m.split, m.work)]
  /\ UNCHANGED <<publishingPeer, wactive, wannounce, knows, elements, cursor, greeting,
                 userOut, toSplitter, issued, granted, churn>>

\* s_manage_zyre_incoming on EXTERNAL_DEFINITION at a worker: when the agent is
\* new, the loop on the split elements of our active agents starts.
WorkerRecvDefinition(a) ==
  /\ FromSplitter(a, "EXTERNAL_DEFINITION")
  /\ knows' = [knows EXCEPT ![a] = TRUE]
  /\ greeting' = [greeting EXCEPT ![a] = ~knows[a] /\ wactive[a]]
  /\ cursor' = [cursor EXCEPT ![a] = IF knows[a] THEN @ ELSE 0]
  /\ UNCHANGED <<publishingPeer, wactive, wannounce, elements, netOut, userOut,
                 toSplitter, received, issued, granted, churn>>

\* One turn of that loop, up to the unlocked whisper.  zlist_next goes on from
\* the cursor, from the head when it is NULL.
GreetNext(a) ==
  /\ greeting[a] /\ netOut[a] = None
  /\ \/ /\ cursor[a] < Len(elements[a])
        /\ netOut' = [netOut EXCEPT ![a] = Hello(elements[a][cursor[a] + 1])]
        /\ cursor' = [cursor EXCEPT ![a] = @ + 1]
        /\ UNCHANGED greeting
     \/ /\ cursor[a] >= Len(elements[a])
        /\ greeting' = [greeting EXCEPT ![a] = FALSE]
        /\ cursor' = [cursor EXCEPT ![a] = 0]
        /\ UNCHANGED netOut
  /\ UNCHANGED <<publishingPeer, wactive, wannounce, knows, elements, userOut,
                 toWorker, toSplitter, received, issued, granted, churn>>

WhisperNetwork(a) ==
  /\ netOut[a] # None
  /\ SendToSplitter(a, netOut[a])
  /\ netOut' = [netOut EXCEPT ![a] = None]
  /\ UNCHANGED <<publishingPeer, wactive, wannounce, knows, elements, cursor, greeting,
                 userOut, toWorker, received, issued, granted, churn>>

WorkerRecvAgentExit(a) ==
  /\ FromSplitter(a, "REMOTE_AGENT_EXIT")
  /\ knows' = [knows EXCEPT ![a] = FALSE]
  /\ UNCHANGED <<publishingPeer, wactive, wannounce, elements, cursor, greeting, netOut,
                 userOut, toSplitter, received, issued, granted, churn>>

(***************************************************************************)
(* Initially the workers have joined and are known, the publishing agent   *)
(* has just been activated and has not been announced yet.                 *)
(***************************************************************************)
Init ==
  /\ active = TRUE /\ announce = TRUE
  /\ remotes = Agents
  /\ workers = {}
  /\ credit = [s \in Splits |-> 0] /\ uses = [s \in Splits |-> 0]
  /\ queue = [o \in Outputs |-> <<>>]
  /\ lock = None
  /\ pc = [t \in Threads |-> "idle"]
  /\ publishing = [t \in Publishers |-> None]
  /\ walk = [t \in Threads |-> {}] /\ stale = [t \in Threads |-> {}]
  /\ outbox = [t \in Threads |-> None]
  /\ wactive = [a \in Agents |-> TRUE] /\ wannounce = [a \in Agents |-> FALSE]
  /\ knows = [a \in Agents |-> FALSE]
  /\ elements = InitialSplits
  /\ cursor = [a \in Agents |-> 0]
  /\ greeting = [a \in Agents |-> FALSE]
  /\ netOut = [a \in Agents |-> None] /\ userOut = [a \in Agents |-> None]
  /\ toWorker = [a \in Agents |-> <<>>] /\ toSplitter = [a \in Agents |-> <<>>]
  /\ received = [w \in Works |-> {}]
  /\ issued = {} /\ granted = [s \in Splits |-> 0]
  /\ churn = 0

PublisherNext(t) ==
  \/ \E o \in Outputs, w \in Works : Publish(t, o, w)
  \/ WalkStep(t)

NetworkNext ==
  \/ SendDefinition
  \/ \E a \in Agents : \/ RecvHello(a) \/ RecvReady(a) \/ RecvGoodbye(a)
                       \/ RecvAgentExit(a) \/ RecvDefinition(a)

WorkerUserNext(a) ==
  \/ \E s \in Splits : SplitAdd(a, s) \/ SplitRemove(a, s)
  \/ WorkerDeactivate(a) \/ WorkerActivate(a)
  \/ WhisperUser(a)

WorkerNetworkNext(a) ==
  \/ WorkerSendDefinition(a) \/ RecvWork(a) \/ WorkerRecvDefinition(a)
  \/ GreetNext(a) \/ WhisperNetwork(a) \/ WorkerRecvAgentExit(a)

Next ==
  \/ \E t \in Publishers : PublisherNext(t)
  \/ \E t \in Threads : WhisperWork(t)
  \/ Deactivate \/ Activate
  \/ NetworkNext
  \/ \E a \in Agents : WorkerUserNext(a) \/ WorkerNetworkNext(a)

Spec == Init /\ [][Next]_vars

\* A thread that holds or may take the lock goes on, and a message that was
\* sent is received; what users do is up to them.
Fairness ==
  /\ \A t \in Publishers : WF_vars(WalkStep(t))
  /\ \A t \in Threads : WF_vars(WhisperWork(t))
  /\ WF_vars(NetworkNext)
  /\ \A a \in Agents : WF_vars(WhisperUser(a)) /\ WF_vars(WorkerNetworkNext(a))

FairSpec == Spec /\ Fairness
=============================================================================
