----------------------------- MODULE SplitProofs -----------------------------
(***************************************************************************)
(* Proofs about the split protocol, for any agents, split elements,        *)
(* outputs, works, publishing threads and initial credit.                  *)
(***************************************************************************)
EXTENDS SplitProps, FiniteSetTheorems, TLAPS

Publication == [output : Outputs, work : Works]

\* A thread that whispers has a message; one that walks, or will go on doing
\* so, is a user thread with a publication.
Walking ==
  \A t \in Threads :
    /\ pc[t] = "whisper" => outbox[t] \in WorkMsgs
    /\ pc[t] = "walk" \/ walk[t] # {} => t \in Publishers /\ publishing[t] \in Publication

\* Splitters a thread has yet to visit still exist, or are marked as freed.
LiveWalk == \A t \in Threads : walk[t] \ stale[t] \subseteq SplittersOf(workers)

SInv == TypeOK /\ Walking /\ LiveWalk /\ QueueHasWorker

-----------------------------------------------------------------------------
\* Taking the head of a channel or a queue.
LEMMA HeadTail ==
  ASSUME NEW S, NEW list \in Seq(S), list # <<>>
  PROVE  Head(list) \in S /\ Tail(list) \in Seq(S)
<1> QED OBVIOUS

\* Removing the element at one position, as zlist_remove does.
LEMMA RemoveAt ==
  ASSUME NEW S, NEW list \in Seq(S), NEW i \in 1..Len(list)
  PROVE  SubSeq(list, 1, i - 1) \o SubSeq(list, i + 1, Len(list)) \in Seq(S)
<1>1. SubSeq(list, 1, i - 1) \in Seq(S)
  <2>1. \A j \in 1..(i - 1) : list[j] \in S
    OBVIOUS
  <2> QED BY <2>1
<1>2. SubSeq(list, i + 1, Len(list)) \in Seq(S)
  <2>1. \A j \in (i + 1)..Len(list) : list[j] \in S
    OBVIOUS
  <2> QED BY <2>1
<1> QED BY <1>1, <1>2

\* What s_split_trigger_send_message_to_worker leaves behind: well-typed
\* splitters, one work less in the queue of o or none, and a message to
\* whisper whenever it lets the lock go for that.
Triggered(t, ws, q, pcElse) ==
  /\ workers' = ws
  /\ credit' \in [Splits -> Nat] /\ uses' \in [Splits -> Nat]
  /\ queue' \in [Outputs -> Seq(Works)]
  /\ outbox' \in [Threads -> WorkMsgs \cup {None}]
  /\ pc' \in [Threads -> {"idle", "walk", "whisper"}]
  /\ lock' \in Publishers \cup {None}
  /\ \A p \in Outputs : queue'[p] # <<>> => q[p] # <<>>
  /\ \A u \in Threads : u # t => pc'[u] = pc[u] /\ outbox'[u] = outbox[u]
  /\ pc'[t] = "whisper" => outbox'[t] \in WorkMsgs
  /\ pc'[t] # "whisper" => pc'[t] = pcElse

Callable(t, o, ws, cr, us, q, pcElse, lockElse) ==
  /\ t \in Threads /\ o \in Outputs
  /\ ws \subseteq Splits
  /\ cr \in [Splits -> Nat] /\ us \in [Splits -> Nat]
  /\ q \in [Outputs -> Seq(Works)]
  /\ pcElse \in {"idle", "walk"} /\ lockElse \in Publishers \cup {None}

LEMMA TriggerFacts ==
  ASSUME TypeOK, NEW t, NEW o, NEW ws, NEW cr, NEW us, NEW q, NEW pcElse, NEW lockElse,
         Callable(t, o, ws, cr, us, q, pcElse, lockElse),
         Trigger(t, o, ws, cr, us, q, pcElse, lockElse)
  PROVE  Triggered(t, ws, q, pcElse)
<1> USE DEF Triggered, Callable
<1>1. CASE CanDispatch(ws, cr, q, o)
  <2>1. PICK s \in BestWorkers(ws, cr, us, o) :
          /\ credit' = Debit(cr, s)
          /\ uses' = [us EXCEPT ![s] = @ + 1]
          /\ outbox' = [outbox EXCEPT ![t] = Work(s, Head(q[o]))]
    BY <1>1 DEF Trigger
  <2>2. s \in Splits /\ cr[s] > 0
    <3>1. PICK r \in ws : OutputOf[r] = o /\ cr[r] > 0
      BY <1>1 DEF CanDispatch
    <3> QED BY <3>1 DEF BestWorkers
  <2>3. q[o] \in Seq(Works) /\ q[o] # <<>> /\ Head(q[o]) \in Works /\ Tail(q[o]) \in Seq(Works)
    BY <1>1, HeadTail DEF CanDispatch
  <2>4. /\ workers' = ws /\ queue' = [q EXCEPT ![o] = Tail(q[o])]
        /\ pc' = [pc EXCEPT ![t] = "whisper"] /\ lock' = None
    BY <1>1 DEF Trigger, DropFirst
  <2>5. credit' \in [Splits -> Nat] /\ uses' \in [Splits -> Nat]
    BY <2>1, <2>2 DEF Debit
  <2>6. queue' \in [Outputs -> Seq(Works)] /\ \A p \in Outputs : queue'[p] # <<>> => q[p] # <<>>
    BY <2>3, <2>4
  <2>7. Work(s, Head(q[o])) \in WorkMsgs
    BY <2>2, <2>3 DEF Work, Message, WorkMsgs
  <2>8. /\ outbox' \in [Threads -> WorkMsgs \cup {None}] /\ outbox'[t] \in WorkMsgs
        /\ \A u \in Threads : u # t => outbox'[u] = outbox[u]
    BY <2>1, <2>7 DEF TypeOK
  <2>9. /\ pc' \in [Threads -> {"idle", "walk", "whisper"}] /\ pc'[t] = "whisper"
        /\ \A u \in Threads : u # t => pc'[u] = pc[u]
    BY <2>4 DEF TypeOK
  <2> QED BY <2>4, <2>5, <2>6, <2>8, <2>9
<1>2. CASE ~CanDispatch(ws, cr, q, o)
  BY <1>2 DEF Trigger, TypeOK
<1> QED BY <1>1, <1>2

LEMMA InitSInv == Init => SInv
<1> SUFFICES ASSUME Init PROVE SInv
  OBVIOUS
<1> USE SplitAssumption
<1>1. TypeOK
  BY DEF Init, TypeOK, Threads
<1>2. Walking /\ LiveWalk /\ QueueHasWorker
  BY DEF Init, Walking, LiveWalk, QueueHasWorker, Threads
<1> QED BY <1>1, <1>2 DEF SInv

\* Threads whose position and list of splitters are left alone, as long as the
\* splitters stay, keep what the invariant says of them.
LEMMA Frame ==
  ASSUME SInv, UNCHANGED <<splitterVars, publisherVars>>
  PROVE  Walking' /\ LiveWalk' /\ QueueHasWorker'
BY DEF SInv, Walking, LiveWalk, QueueHasWorker, SplittersOf, splitterVars, publisherVars

\* Types of the messages.
LEMMA MessageTypes ==
  ASSUME NEW s \in Splits, NEW w \in Works
  PROVE  /\ Work(s, w) \in WorkMsgs /\ Ready(s, w) \in ReadyMsgs
         /\ Hello(s) \in HelloMsgs /\ Goodbye(s) \in GoodbyeMsgs
         /\ Definition \in AgentMsgs /\ AgentExit \in AgentMsgs
BY DEF Work, Ready, Hello, Goodbye, Definition, AgentExit, Message,
       WorkMsgs, ReadyMsgs, HelloMsgs, GoodbyeMsgs, AgentMsgs

LEMMA ChannelTypes ==
  ASSUME TypeOK, NEW a \in Agents
  PROVE  /\ \A m \in WorkMsgs \cup AgentMsgs :
              Append(toWorker[a], m) \in Seq(WorkMsgs \cup AgentMsgs)
         /\ \A m \in HelloMsgs \cup ReadyMsgs \cup GoodbyeMsgs \cup AgentMsgs :
              Append(toSplitter[a], m)
                \in Seq(HelloMsgs \cup ReadyMsgs \cup GoodbyeMsgs \cup AgentMsgs)
         /\ Definition \in AgentMsgs /\ AgentExit \in AgentMsgs
BY DEF TypeOK, Definition, AgentExit, Message, AgentMsgs

-----------------------------------------------------------------------------
\* Publication.
LEMMA PublishSInv ==
  ASSUME SInv, NEW t \in Publishers, NEW o \in Outputs, NEW w \in Works, Publish(t, o, w)
  PROVE  SInv'
<1> USE SplitAssumption DEF SInv
<1>1. t \in Threads /\ SplittersOf(workers) \subseteq Outputs
  BY DEF Threads, SplittersOf, TypeOK
<1>2. [output |-> o, work |-> w] \in Publication
  BY DEF Publication
<1>3. /\ issued' = issued \cup {w}
      /\ publishing' = [publishing EXCEPT ![t] = [output |-> o, work |-> w]]
      /\ walk' = [walk EXCEPT ![t] = SplittersOf(workers)]
      /\ stale' = [stale EXCEPT ![t] = {}]
      /\ pc' = [pc EXCEPT ![t] = "walk"]
      /\ lock' = t
      /\ UNCHANGED <<active, announce, remotes, splitterVars, outbox, workerVars,
                     toWorker, toSplitter, received, granted, churn>>
  BY DEF Publish
<1>4. TypeOK'
  <2>1. publishing' \in [Publishers -> Publication \cup {None}]
    BY <1>2, <1>3 DEF TypeOK, Publication
  <2>2. /\ walk' \in [Threads -> SUBSET Outputs] /\ stale' \in [Threads -> SUBSET Outputs]
        /\ pc' \in [Threads -> {"idle", "walk", "whisper"}]
    BY <1>1, <1>3 DEF TypeOK
  <2> QED BY <1>3, <2>1, <2>2 DEF TypeOK, Publication, splitterVars, workerVars
<1>5. Walking'
  BY <1>1, <1>2, <1>3 DEF Walking, TypeOK
<1>6. LiveWalk' /\ QueueHasWorker'
  BY <1>1, <1>3 DEF LiveWalk, QueueHasWorker, TypeOK, splitterVars, SplittersOf
<1> QED BY <1>4, <1>5, <1>6

\* One turn of split_add_work_to_queue.
LEMMA WalkSInv == ASSUME SInv, NEW t \in Publishers, WalkStep(t) PROVE SInv'
<1> USE SplitAssumption DEF SInv
<1> DEFINE o == publishing[t].output
<1>1. t \in Threads /\ publishing[t] \in Publication /\ o \in Outputs
      /\ publishing[t].work \in Works
  BY DEF Threads, WalkStep, Walking, Publication
<1>2. PICK e \in walk[t] :
        LET q == IF e = o /\ e \notin stale[t]
                 THEN [queue EXCEPT ![o] = Append(@, publishing[t].work)]
                 ELSE queue
            last == walk[t] = {e}
        IN /\ walk' = [walk EXCEPT ![t] = @ \ {e}]
           /\ Trigger(t, o, workers, credit, uses, q,
                      IF last THEN "idle" ELSE "walk",
                      IF last THEN None ELSE t)
  BY DEF WalkStep
<1> DEFINE q == IF e = o /\ e \notin stale[t]
                THEN [queue EXCEPT ![o] = Append(@, publishing[t].work)]
                ELSE queue
<1>3. /\ UNCHANGED <<active, announce, remotes, publishing, stale, workerVars,
                     toWorker, toSplitter, received, issued, granted, churn>>
  BY DEF WalkStep
<1>4. q \in [Outputs -> Seq(Works)]
  BY <1>1 DEF TypeOK
<1>5. \A p \in Outputs : q[p] # <<>> => p \in SplittersOf(workers)
  BY <1>1 DEF QueueHasWorker, LiveWalk, TypeOK
<1> HIDE DEF o, q
<1>6. PICK pcElse \in {"idle", "walk"}, lockElse \in Publishers \cup {None} :
        Trigger(t, o, workers, credit, uses, q, pcElse, lockElse)
  BY <1>2 DEF o, q
<1>7. Triggered(t, workers, q, pcElse)
  <2>1. /\ workers \in SUBSET Splits /\ credit \in [Splits -> Nat] /\ uses \in [Splits -> Nat]
    BY DEF TypeOK
  <2>2. PICK ws, cr, us, qq, oo :
          ws = workers /\ cr = credit /\ us = uses /\ qq = q /\ oo = o
    OBVIOUS
  <2>3. Trigger(t, oo, ws, cr, us, qq, pcElse, lockElse)
    BY <1>6, <2>2 DEF Trigger
  <2>4. Triggered(t, ws, qq, pcElse)
    <3>1. Callable(t, oo, ws, cr, us, qq, pcElse, lockElse)
      BY <1>1, <1>4, <2>1, <2>2 DEF Callable
    <3> QED BY <2>3, <3>1, TriggerFacts
  <2> QED BY <2>2, <2>4 DEF Triggered
<1>8. walk' = [walk EXCEPT ![t] = walk[t] \ {e}]
  BY <1>2
<1>9. TypeOK'
  BY <1>1, <1>3, <1>7, <1>8 DEF Triggered, TypeOK, workerVars
<1>10. Walking'
  BY <1>1, <1>3, <1>7, <1>8 DEF Triggered, Walking, TypeOK
<1>11. LiveWalk'
  BY <1>1, <1>3, <1>7, <1>8 DEF Triggered, LiveWalk, TypeOK
<1>12. QueueHasWorker'
  BY <1>5, <1>7 DEF Triggered, QueueHasWorker
<1> QED BY <1>9, <1>10, <1>11, <1>12

\* igs_channel_whisper_zmsg for a work.
LEMMA WhisperSInv == ASSUME SInv, NEW t \in Threads, WhisperWork(t) PROVE SInv'
<1> USE SplitAssumption DEF SInv
<1> DEFINE a == AgentOf[outbox[t].split]
<1>1. outbox[t] \in WorkMsgs /\ a \in Agents
  BY DEF WhisperWork, Walking, WorkMsgs
<1>2. /\ outbox' = [outbox EXCEPT ![t] = None]
      /\ pc' = [pc EXCEPT ![t] = IF walk[t] = {} THEN "idle" ELSE "walk"]
      /\ UNCHANGED <<active, announce, remotes, splitterVars, lock, publishing, walk, stale,
                     workerVars, toSplitter, received, issued, granted, churn>>
  BY DEF WhisperWork
<1>3. toWorker' \in [Agents -> Seq(WorkMsgs \cup AgentMsgs)]
  <2>1. Append(toWorker[a], outbox[t]) \in Seq(WorkMsgs \cup AgentMsgs)
    BY <1>1, ChannelTypes
  <2> QED BY <1>1, <2>1 DEF WhisperWork, TypeOK
<1>4. TypeOK'
  BY <1>2, <1>3 DEF TypeOK, splitterVars, workerVars
<1>5. Walking'
  BY <1>2 DEF Walking, TypeOK
<1>6. LiveWalk' /\ QueueHasWorker'
  BY <1>2 DEF LiveWalk, QueueHasWorker, SplittersOf, splitterVars
<1> QED BY <1>4, <1>5, <1>6

-----------------------------------------------------------------------------
\* A message taken by the network thread of the publishing peer.
LEMMA FromWorkerFacts ==
  ASSUME TypeOK, NEW a \in Agents, NEW type, FromWorker(a, type)
  PROVE  /\ toSplitter' \in [Agents -> Seq(HelloMsgs \cup ReadyMsgs \cup GoodbyeMsgs \cup AgentMsgs)]
         /\ pc[Network] = "idle" /\ lock = None
         /\ type \in {"WORKER_HELLO", "WORKER_READY", "WORKER_GOODBYE"} =>
              Head(toSplitter[a]).split \in Splits
<1> DEFINE Msg == HelloMsgs \cup ReadyMsgs \cup GoodbyeMsgs \cup AgentMsgs
           m == Head(toSplitter[a])
<1>1. /\ toSplitter[a] # <<>> /\ m.type = type
      /\ toSplitter' = [toSplitter EXCEPT ![a] = Tail(toSplitter[a])]
      /\ pc[Network] = "idle" /\ lock = None
  BY DEF FromWorker, NetworkReady
<1>2. toSplitter \in [Agents -> Seq(Msg)]
  BY DEF TypeOK
<1>3. m \in Msg /\ Tail(toSplitter[a]) \in Seq(Msg)
  <2> HIDE DEF Msg
  <2> QED BY <1>1, <1>2, HeadTail
<1>4. type \in {"WORKER_HELLO", "WORKER_READY", "WORKER_GOODBYE"} => m.split \in Splits
  BY <1>1, <1>3 DEF HelloMsgs, ReadyMsgs, GoodbyeMsgs, AgentMsgs
<1>5. toSplitter' \in [Agents -> Seq(Msg)]
  <2> HIDE DEF Msg
  <2> QED BY <1>1, <1>2, <1>3
<1> QED BY <1>1, <1>4, <1>5

\* A dispatch by the network thread of the publishing peer.
LEMMA NetworkTrigger ==
  ASSUME SInv, pc[Network] = "idle",
         NEW o \in Outputs, NEW ws \in SUBSET Splits, workers \subseteq ws,
         Triggered(Network, ws, queue, "idle"),
         UNCHANGED <<active, announce, remotes, publishing, walk, stale, workerVars,
                     toWorker, received, issued, churn>>,
         toSplitter' \in [Agents -> Seq(HelloMsgs \cup ReadyMsgs \cup GoodbyeMsgs \cup AgentMsgs)],
         granted' \in [Splits -> Nat]
  PROVE  SInv'
<1> USE DEF SInv
<1>1. Network \in Threads /\ Network \notin Publishers
  BY SplitAssumption DEF Threads
<1>2. TypeOK'
  BY <1>1 DEF Triggered, TypeOK, workerVars
<1>3. Walking'
  BY <1>1 DEF Triggered, Walking, TypeOK
<1>4. SplittersOf(workers) \subseteq SplittersOf(workers')
  BY DEF Triggered, SplittersOf
<1>5. LiveWalk'
  BY <1>4 DEF Triggered, LiveWalk, SplittersOf
<1>6. QueueHasWorker'
  BY <1>4 DEF Triggered, QueueHasWorker, SplittersOf
<1> QED BY <1>2, <1>3, <1>5, <1>6

\* WORKER_HELLO.
LEMMA HelloSInv == ASSUME SInv, NEW a \in Agents, RecvHello(a) PROVE SInv'
<1> DEFINE s == Head(toSplitter[a]).split
<1>1. TypeOK
  BY DEF SInv
<1>2. /\ FromWorker(a, "WORKER_HELLO")
      /\ UNCHANGED <<active, announce, remotes, workerVars, toWorker, received, issued, churn>>
  BY DEF RecvHello
<1>3. /\ s \in Splits /\ pc[Network] = "idle"
      /\ toSplitter' \in [Agents -> Seq(HelloMsgs \cup ReadyMsgs \cup GoodbyeMsgs \cup AgentMsgs)]
  BY <1>1, <1>2, FromWorkerFacts
<1>4. CASE ~active
  <2>1. UNCHANGED <<splitterVars, publisherVars, granted>>
    BY <1>4 DEF RecvHello
  <2>2. TypeOK'
    BY <1>1, <1>2, <1>3, <2>1 DEF TypeOK, splitterVars, publisherVars, workerVars
  <2> QED BY <2>1, <2>2, Frame DEF SInv
<1>5. CASE active
  <2>1. PICK n \in IF s \in workers THEN {uses[s]} ELSE StartUses(OutputOf[s]) :
          Trigger(Network, OutputOf[s], workers \cup {s},
                  [credit EXCEPT ![s] = IF s \in workers THEN @ + Credit ELSE Credit],
                  [uses EXCEPT ![s] = n], queue, "idle", None)
    BY <1>5 DEF RecvHello
  <2>2. /\ granted' = [granted EXCEPT ![s] = @ + 1]
        /\ UNCHANGED <<publishing, walk, stale>>
    BY <1>5 DEF RecvHello
  <2>3. n \in Nat
    BY <1>1, <1>3 DEF TypeOK, StartUses
  <2>8. granted' \in [Splits -> Nat]
    BY <1>1, <1>3, <2>2 DEF TypeOK
  <2> HIDE DEF s
  <2> DEFINE cr0 == [credit EXCEPT ![s] = IF s \in workers THEN @ + Credit ELSE Credit]
             us0 == [uses EXCEPT ![s] = n]
  <2>10. /\ OutputOf[s] \in Outputs /\ workers \cup {s} \subseteq Splits
         /\ cr0 \in [Splits -> Nat] /\ us0 \in [Splits -> Nat]
         /\ queue \in [Outputs -> Seq(Works)]
    <3>1. /\ credit \in [Splits -> Nat] /\ uses \in [Splits -> Nat] /\ workers \subseteq Splits
          /\ queue \in [Outputs -> Seq(Works)]
      BY <1>1 DEF TypeOK
    <3>2. s \in Splits /\ n \in Nat /\ Credit \in Nat /\ OutputOf[s] \in Outputs
      BY <1>3, <2>3, SplitAssumption
    <3>3. cr0 \in [Splits -> Nat]
      BY <3>1, <3>2
    <3>4. us0 \in [Splits -> Nat]
      BY <3>1, <3>2
    <3> QED BY <3>1, <3>2, <3>3, <3>4
  <2> HIDE DEF cr0, us0
  <2>4. PICK ws, cr, us, q, o :
          ws = workers \cup {s} /\ cr = cr0 /\ us = us0 /\ q = queue /\ o = OutputOf[s]
    OBVIOUS
  <2>5. Trigger(Network, o, ws, cr, us, q, "idle", None)
    BY <2>1, <2>4 DEF Trigger, cr0, us0
  <2>6. Triggered(Network, ws, q, "idle")
    <3>1. Callable(Network, o, ws, cr, us, q, "idle", None)
      BY <2>4, <2>10 DEF Callable, Threads
    <3> QED BY <1>1, <2>5, <3>1, TriggerFacts
  <2>7. Triggered(Network, ws, queue, "idle")
    BY <2>4, <2>6
  <2>9. workers \subseteq ws /\ ws \in SUBSET Splits /\ o \in Outputs
    BY <2>4, <2>10
  <2> QED BY <1>2, <1>3, <2>2, <2>7, <2>8, <2>9, NetworkTrigger
<1> QED BY <1>4, <1>5

\* WORKER_READY.
LEMMA ReadySInv == ASSUME SInv, NEW a \in Agents, RecvReady(a) PROVE SInv'
<1> DEFINE s == Head(toSplitter[a]).split
<1>1. TypeOK
  BY DEF SInv
<1>2. /\ FromWorker(a, "WORKER_READY")
      /\ UNCHANGED <<active, announce, remotes, workerVars, toWorker, received, issued, granted,
                     churn>>
  BY DEF RecvReady
<1>3. /\ s \in Splits /\ pc[Network] = "idle"
      /\ toSplitter' \in [Agents -> Seq(HelloMsgs \cup ReadyMsgs \cup GoodbyeMsgs \cup AgentMsgs)]
  BY <1>1, <1>2, FromWorkerFacts
<1>4. CASE ~active
  <2>1. UNCHANGED <<splitterVars, publisherVars>>
    BY <1>4 DEF RecvReady
  <2>2. TypeOK'
    BY <1>1, <1>2, <1>3, <2>1 DEF TypeOK, splitterVars, publisherVars, workerVars
  <2> QED BY <2>1, <2>2, Frame DEF SInv
<1>5. CASE active
  <2>1. /\ Trigger(Network, OutputOf[s], workers,
                   [credit EXCEPT ![s] = IF s \in workers THEN @ + ReadyCredit ELSE @],
                   uses, queue, "idle", None)
        /\ UNCHANGED <<publishing, walk, stale>>
    BY <1>5 DEF RecvReady
  <2> HIDE DEF s
  <2> DEFINE cr0 == [credit EXCEPT ![s] = IF s \in workers THEN @ + ReadyCredit ELSE @]
  <2>7. /\ OutputOf[s] \in Outputs /\ workers \subseteq Splits
        /\ cr0 \in [Splits -> Nat] /\ uses \in [Splits -> Nat]
        /\ queue \in [Outputs -> Seq(Works)]
    <3>1. /\ credit \in [Splits -> Nat] /\ uses \in [Splits -> Nat] /\ workers \subseteq Splits
          /\ queue \in [Outputs -> Seq(Works)]
      BY <1>1 DEF TypeOK
    <3>2. s \in Splits /\ OutputOf[s] \in Outputs /\ ReadyCredit \in Nat
      BY <1>3, SplitAssumption DEF ReadyCredit
    <3>3. cr0 \in [Splits -> Nat]
      BY <3>1, <3>2
    <3> QED BY <3>1, <3>2, <3>3
  <2> HIDE DEF cr0
  <2>2. PICK ws, cr, us, q, o :
          ws = workers /\ cr = cr0 /\ us = uses /\ q = queue /\ o = OutputOf[s]
    OBVIOUS
  <2>3. Trigger(Network, o, ws, cr, us, q, "idle", None)
    BY <2>1, <2>2 DEF Trigger, cr0
  <2>4. Triggered(Network, ws, q, "idle")
    <3>1. Callable(Network, o, ws, cr, us, q, "idle", None)
      BY <2>2, <2>7 DEF Callable, Threads
    <3> QED BY <1>1, <2>3, <3>1, TriggerFacts
  <2>5. /\ Triggered(Network, ws, queue, "idle")
        /\ workers \subseteq ws /\ ws \in SUBSET Splits /\ o \in Outputs
    BY <2>2, <2>4, <2>7
  <2>6. granted' \in [Splits -> Nat]
    BY <1>1, <1>2 DEF TypeOK
  <2> QED BY <1>2, <1>3, <2>1, <2>2, <2>5, <2>6, NetworkTrigger
<1> QED BY <1>4, <1>5

-----------------------------------------------------------------------------
\* split_remove_worker: the splitters that remain keep a worker, and those
\* freed leave no queued work behind and are marked in the lists being walked.
LEMMA RemoveFacts ==
  ASSUME SInv, NEW gone, gone \subseteq workers, RemoveWorkers(gone)
  PROVE  /\ workers' \subseteq Splits
         /\ credit' \in [Splits -> Nat] /\ uses' \in [Splits -> Nat]
         /\ queue' \in [Outputs -> Seq(Works)]
         /\ stale' \in [Threads -> SUBSET Outputs]
         /\ UNCHANGED <<lock, pc, publishing, walk, outbox>>
         /\ Walking' /\ LiveWalk' /\ QueueHasWorker'
<1> DEFINE freed == SplittersOf(workers) \ SplittersOf(workers \ gone)
<1>1. TypeOK /\ Walking /\ LiveWalk /\ QueueHasWorker
  BY DEF SInv
<1>2. /\ workers' = workers \ gone
      /\ credit' = [s \in Splits |-> IF s \in gone THEN 0 ELSE credit[s]]
      /\ uses' = [s \in Splits |-> IF s \in gone THEN 0 ELSE uses[s]]
      /\ queue' = [o \in Outputs |-> IF o \in freed THEN <<>> ELSE queue[o]]
      /\ stale' = [t \in Threads |-> stale[t] \cup (freed \cap walk[t])]
      /\ UNCHANGED <<lock, pc, publishing, walk, outbox>>
  BY DEF RemoveWorkers, EmptyQueue
<1> HIDE DEF freed
<1>3. workers' \subseteq Splits /\ credit' \in [Splits -> Nat] /\ uses' \in [Splits -> Nat]
  BY <1>1, <1>2 DEF TypeOK
<1>4. queue' \in [Outputs -> Seq(Works)]
  <2>1. \A o \in Outputs : queue[o] \in Seq(Works) /\ <<>> \in Seq(Works)
    BY <1>1 DEF TypeOK
  <2> QED BY <1>2, <2>1
<1>5. stale' \in [Threads -> SUBSET Outputs]
  BY <1>1, <1>2 DEF TypeOK
<1>6. Walking'
  BY <1>1, <1>2 DEF Walking
<1>7. SplittersOf(workers) \ freed \subseteq SplittersOf(workers')
  BY <1>2 DEF freed
<1>8. LiveWalk'
  BY <1>1, <1>2, <1>7 DEF LiveWalk
<1>9. QueueHasWorker'
  BY <1>1, <1>2, <1>7 DEF QueueHasWorker
<1> QED BY <1>2, <1>3, <1>4, <1>5, <1>6, <1>8, <1>9

\* WORKER_GOODBYE.
LEMMA GoodbyeSInv == ASSUME SInv, NEW a \in Agents, RecvGoodbye(a) PROVE SInv'
<1>1. TypeOK
  BY DEF SInv
<1>2. /\ FromWorker(a, "WORKER_GOODBYE")
      /\ UNCHANGED <<active, announce, remotes, workerVars, toWorker, received, issued, granted,
                     churn>>
  BY DEF RecvGoodbye
<1>3. toSplitter' \in [Agents -> Seq(HelloMsgs \cup ReadyMsgs \cup GoodbyeMsgs \cup AgentMsgs)]
  BY <1>1, <1>2, FromWorkerFacts
<1>4. PICK gone : gone \subseteq workers /\ RemoveWorkers(gone)
  BY DEF RecvGoodbye
<1>5. /\ workers' \subseteq Splits
      /\ credit' \in [Splits -> Nat] /\ uses' \in [Splits -> Nat]
      /\ queue' \in [Outputs -> Seq(Works)]
      /\ stale' \in [Threads -> SUBSET Outputs]
      /\ UNCHANGED <<lock, pc, publishing, walk, outbox>>
      /\ Walking' /\ LiveWalk' /\ QueueHasWorker'
  BY <1>4, RemoveFacts
<1>6. TypeOK'
  BY <1>1, <1>2, <1>3, <1>5 DEF TypeOK, workerVars
<1> QED BY <1>5, <1>6 DEF SInv

\* REMOTE_AGENT_EXIT.
LEMMA AgentExitSInv == ASSUME SInv, NEW a \in Agents, RecvAgentExit(a) PROVE SInv'
<1>1. TypeOK
  BY DEF SInv
<1>2. /\ FromWorker(a, "REMOTE_AGENT_EXIT")
      /\ UNCHANGED <<active, announce, workerVars, toWorker, received, issued, granted, churn>>
  BY DEF RecvAgentExit
<1>3. toSplitter' \in [Agents -> Seq(HelloMsgs \cup ReadyMsgs \cup GoodbyeMsgs \cup AgentMsgs)]
  BY <1>1, <1>2, FromWorkerFacts
<1>4. CASE a \in remotes
  <2>1. PICK gone : gone \subseteq workers /\ RemoveWorkers(gone)
    BY <1>4 DEF RecvAgentExit
  <2>2. remotes' = remotes \ {a}
    BY <1>4 DEF RecvAgentExit
  <2>3. /\ workers' \subseteq Splits
        /\ credit' \in [Splits -> Nat] /\ uses' \in [Splits -> Nat]
        /\ queue' \in [Outputs -> Seq(Works)]
        /\ stale' \in [Threads -> SUBSET Outputs]
        /\ UNCHANGED <<lock, pc, publishing, walk, outbox>>
        /\ Walking' /\ LiveWalk' /\ QueueHasWorker'
    BY <2>1, RemoveFacts
  <2>4. TypeOK'
    BY <1>1, <1>2, <1>3, <2>2, <2>3 DEF TypeOK, workerVars
  <2> QED BY <2>3, <2>4 DEF SInv
<1>5. CASE a \notin remotes
  <2>1. UNCHANGED <<remotes, splitterVars, publisherVars>>
    BY <1>5 DEF RecvAgentExit
  <2>2. TypeOK'
    BY <1>1, <1>2, <1>3, <2>1 DEF TypeOK, splitterVars, publisherVars, workerVars
  <2> QED BY <2>1, <2>2, Frame DEF SInv
<1> QED BY <1>4, <1>5

\* The bound on what users do.
LEMMA ChurnFacts ==
  ASSUME TypeOK, NEW kind, UserOperation(kind)
  PROVE  churn' \in 0..MaxChurn
BY SplitAssumption DEF TypeOK, UserOperation

\* The other steps of the publishing peer leave the splitters alone.
LEMMA AnnounceSInv ==
  ASSUME SInv,
         \/ Activate \/ Deactivate \/ SendDefinition
         \/ \E a \in Agents : RecvDefinition(a)
  PROVE  SInv'
<1>1. TypeOK
  BY DEF SInv
<1>2. UNCHANGED <<splitterVars, publisherVars>>
  BY DEF Activate, Deactivate, SendDefinition, RecvDefinition
<1>3. TypeOK'
  <2> USE <1>1 DEF TypeOK, splitterVars, publisherVars, workerVars, UserOperation
  <2>1. CASE Activate
    <3>1. churn' \in 0..MaxChurn
      BY <2>1, ChurnFacts DEF Activate
    <3> QED BY <2>1, <3>1 DEF Activate
  <2>2. CASE Deactivate
    <3>1. toWorker' \in [Agents -> Seq(WorkMsgs \cup AgentMsgs)]
      BY <2>2, ChannelTypes DEF Deactivate
    <3>2. churn' \in 0..MaxChurn
      BY <2>2, ChurnFacts DEF Deactivate
    <3>3. /\ active' = FALSE
          /\ UNCHANGED <<announce, remotes, splitterVars, publisherVars, workerVars,
                         toSplitter, received, issued, granted>>
      BY <2>2 DEF Deactivate
    <3> QED BY <3>1, <3>2, <3>3
  <2>3. CASE SendDefinition
    <3>1. toWorker' \in [Agents -> Seq(WorkMsgs \cup AgentMsgs)]
      BY <2>3, ChannelTypes DEF SendDefinition
    <3> QED BY <2>3, <3>1 DEF SendDefinition
  <2>4. ASSUME NEW a \in Agents, RecvDefinition(a) PROVE TypeOK'
    <3>1. toSplitter' \in [Agents -> Seq(HelloMsgs \cup ReadyMsgs \cup GoodbyeMsgs \cup AgentMsgs)]
      BY <2>4, FromWorkerFacts DEF RecvDefinition
    <3> QED BY <2>4, <3>1 DEF RecvDefinition
  <2> QED BY <2>1, <2>2, <2>3, <2>4
<1> QED BY <1>2, <1>3, Frame DEF SInv

-----------------------------------------------------------------------------
(***************************************************************************)
(* The peers of the workers never touch the splitters.                     *)
(***************************************************************************)
ToSplitterMsgs == HelloMsgs \cup ReadyMsgs \cup GoodbyeMsgs \cup AgentMsgs

LEMMA SendFacts ==
  ASSUME TypeOK, NEW a \in Agents, NEW m \in ToSplitterMsgs, SendToSplitter(a, m)
  PROVE  toSplitter' \in [Agents -> Seq(ToSplitterMsgs)]
<1>1. Append(toSplitter[a], m) \in Seq(ToSplitterMsgs)
  BY ChannelTypes DEF ToSplitterMsgs
<1>2. toSplitter \in [Agents -> Seq(ToSplitterMsgs)]
  BY DEF TypeOK, ToSplitterMsgs
<1> QED BY <1>1, <1>2 DEF SendToSplitter

LEMMA FromSplitterFacts ==
  ASSUME TypeOK, NEW a \in Agents, NEW type, FromSplitter(a, type)
  PROVE  /\ toWorker' \in [Agents -> Seq(WorkMsgs \cup AgentMsgs)]
         /\ type = "SPLITTER_WORK" => Head(toWorker[a]) \in WorkMsgs
<1> DEFINE Msg == WorkMsgs \cup AgentMsgs
<1>1. /\ toWorker[a] # <<>> /\ Head(toWorker[a]).type = type
      /\ toWorker' = [toWorker EXCEPT ![a] = Tail(toWorker[a])]
  BY DEF FromSplitter
<1>2. toWorker \in [Agents -> Seq(Msg)]
  BY DEF TypeOK
<1> HIDE DEF Msg
<1>3. Head(toWorker[a]) \in Msg /\ Tail(toWorker[a]) \in Seq(Msg)
  BY <1>1, <1>2, HeadTail
<1>4. toWorker' \in [Agents -> Seq(Msg)]
  BY <1>1, <1>2, <1>3
<1>5. type = "SPLITTER_WORK" => Head(toWorker[a]) \in WorkMsgs
  BY <1>1, <1>3 DEF Msg, AgentMsgs
<1> QED BY <1>4, <1>5 DEF Msg

\* The user thread of a worker.
LEMMA WorkerUserSInv == ASSUME SInv, NEW a \in Agents, WorkerUserNext(a) PROVE SInv'
<1>1. TypeOK
  BY DEF SInv
<1>2. UNCHANGED publishingPeer
  BY DEF WorkerUserNext, SplitAdd, SplitRemove, WorkerDeactivate, WorkerActivate, WhisperUser
<1>3. TypeOK'
  <2> USE DEF publishingPeer, splitterVars, publisherVars
  <2>1. ASSUME NEW s \in Splits, SplitAdd(a, s) PROVE TypeOK'
    <3>1. churn' \in 0..MaxChurn
      BY <1>1, <2>1, ChurnFacts DEF SplitAdd
    <3>2. Hello(s) \in HelloMsgs
      BY DEF Hello, Message, HelloMsgs
    <3>3. CASE s \notin SplitSet(a)
      <4>1. /\ elements' = [elements EXCEPT ![a] = Append(elements[a], s)]
            /\ cursor' = [cursor EXCEPT ![a] = 0]
            /\ userOut' = [userOut EXCEPT ![a] = IF knows[a] THEN Hello(s) ELSE None]
        BY <2>1, <3>3 DEF SplitAdd, SplitSet
      <4>2. Append(elements[a], s) \in Seq(Splits)
        BY <1>1 DEF TypeOK
      <4>3. elements' \in [Agents -> Seq(Splits)] /\ cursor' \in [Agents -> Nat]
        BY <1>1, <4>1, <4>2 DEF TypeOK
      <4>4. userOut' \in [Agents -> HelloMsgs \cup GoodbyeMsgs \cup {None}]
        BY <1>1, <3>2, <4>1 DEF TypeOK
      <4> QED BY <1>1, <1>2, <2>1, <3>1, <4>3, <4>4 DEF SplitAdd, TypeOK
    <3>4. CASE s \in SplitSet(a)
      <4>1. PICK i \in 1..Len(elements[a]) : cursor' = [cursor EXCEPT ![a] = i]
        BY <2>1, <3>4 DEF SplitAdd
      <4>2. cursor' \in [Agents -> Nat]
        BY <1>1, <4>1 DEF TypeOK
      <4>3. UNCHANGED <<elements, userOut>>
        BY <2>1, <3>4 DEF SplitAdd
      <4> QED BY <1>1, <1>2, <2>1, <3>1, <4>2, <4>3 DEF SplitAdd, TypeOK
    <3> QED BY <3>3, <3>4
  <2>2. ASSUME NEW s \in Splits, SplitRemove(a, s) PROVE TypeOK'
    <3>1. churn' \in 0..MaxChurn
      BY <1>1, <2>2, ChurnFacts DEF SplitRemove
    <3>2. Goodbye(s) \in GoodbyeMsgs
      BY DEF Goodbye, Message, GoodbyeMsgs
    <3>3. PICK i \in 1..Len(elements[a]) :
            elements' = [elements EXCEPT ![a] =
                           SubSeq(@, 1, i - 1) \o SubSeq(@, i + 1, Len(@))]
      BY <2>2 DEF SplitRemove
    <3>4. elements' \in [Agents -> Seq(Splits)]
      <4>1. elements \in [Agents -> Seq(Splits)]
        BY <1>1 DEF TypeOK
      <4>2. SubSeq(elements[a], 1, i - 1) \o SubSeq(elements[a], i + 1, Len(elements[a]))
              \in Seq(Splits)
        BY <4>1, RemoveAt
      <4> QED BY <3>3, <4>1, <4>2
    <3>5. cursor' \in [Agents -> Nat]
      BY <1>1, <2>2 DEF SplitRemove, TypeOK
    <3>6. userOut' \in [Agents -> HelloMsgs \cup GoodbyeMsgs \cup {None}]
      BY <1>1, <2>2, <3>2 DEF SplitRemove, TypeOK
    <3> QED BY <1>1, <1>2, <2>2, <3>1, <3>4, <3>5, <3>6 DEF SplitRemove, TypeOK
  <2>3. CASE WorkerDeactivate(a)
    <3>1. churn' \in 0..MaxChurn
      BY <1>1, <2>3, ChurnFacts DEF WorkerDeactivate
    <3>2. Append(toSplitter[a], AgentExit) \in Seq(ToSplitterMsgs)
      BY <1>1, ChannelTypes DEF ToSplitterMsgs
    <3>3. toSplitter' = [toSplitter EXCEPT ![a] = Append(toSplitter[a], AgentExit)]
      BY <2>3 DEF WorkerDeactivate
    <3>4. toSplitter' \in [Agents -> Seq(ToSplitterMsgs)]
      BY <1>1, <3>2, <3>3 DEF TypeOK, ToSplitterMsgs
    <3>5. wactive' \in [Agents -> BOOLEAN]
      BY <1>1, <2>3 DEF WorkerDeactivate, TypeOK
    <3> QED BY <1>1, <1>2, <2>3, <3>1, <3>4, <3>5 DEF WorkerDeactivate, TypeOK, ToSplitterMsgs
  <2>4. CASE WorkerActivate(a)
    <3>1. churn' \in 0..MaxChurn
      BY <1>1, <2>4, ChurnFacts DEF WorkerActivate
    <3>2. wactive' \in [Agents -> BOOLEAN] /\ wannounce' \in [Agents -> BOOLEAN]
      BY <1>1, <2>4 DEF WorkerActivate, TypeOK
    <3> QED BY <1>1, <1>2, <2>4, <3>1, <3>2 DEF WorkerActivate, TypeOK
  <2>5. CASE WhisperUser(a)
    <3>1. userOut[a] \in ToSplitterMsgs
      BY <1>1, <2>5 DEF WhisperUser, TypeOK, ToSplitterMsgs
    <3>2. toSplitter' \in [Agents -> Seq(ToSplitterMsgs)]
      BY <1>1, <2>5, <3>1, SendFacts DEF WhisperUser
    <3>3. userOut' \in [Agents -> HelloMsgs \cup GoodbyeMsgs \cup {None}]
      BY <1>1, <2>5 DEF WhisperUser, TypeOK
    <3> QED BY <1>1, <1>2, <2>5, <3>2, <3>3 DEF WhisperUser, TypeOK, ToSplitterMsgs
  <2> QED BY <2>1, <2>2, <2>3, <2>4, <2>5 DEF WorkerUserNext
<1> QED BY <1>2, <1>3, Frame DEF SInv, publishingPeer

\* The network thread of the peer of a worker.
LEMMA WorkerNetworkSInv == ASSUME SInv, NEW a \in Agents, WorkerNetworkNext(a) PROVE SInv'
<1>1. TypeOK
  BY DEF SInv
<1>2. UNCHANGED publishingPeer
  BY DEF WorkerNetworkNext, WorkerSendDefinition, RecvWork, WorkerRecvDefinition, GreetNext,
         WhisperNetwork, WorkerRecvAgentExit
<1>3. TypeOK'
  <2> USE <1>1, <1>2 DEF TypeOK, publishingPeer, splitterVars, publisherVars
  <2>1. CASE WorkerSendDefinition(a)
    <3>1. toSplitter' \in [Agents -> Seq(ToSplitterMsgs)]
      BY <2>1, ChannelTypes DEF WorkerSendDefinition, ToSplitterMsgs
    <3> QED BY <2>1, <3>1 DEF WorkerSendDefinition, ToSplitterMsgs
  <2>2. CASE RecvWork(a)
    <3> DEFINE m == Head(toWorker[a])
    <3>1. toWorker' \in [Agents -> Seq(WorkMsgs \cup AgentMsgs)] /\ m \in WorkMsgs
      BY <2>2, FromSplitterFacts DEF RecvWork
    <3>2. m.split \in Splits /\ m.work \in Works
      BY <3>1 DEF WorkMsgs
    <3>3. Ready(m.split, m.work) \in ReadyMsgs
      BY <3>2 DEF Ready, Message, ReadyMsgs
    <3>4. /\ received' = IF wactive[a]
                         THEN [received EXCEPT ![m.work] = @ \cup {m.split}]
                         ELSE received
          /\ netOut' = [netOut EXCEPT ![a] = Ready(m.split, m.work)]
          /\ UNCHANGED <<wactive, wannounce, knows, elements, cursor, greeting,
                         userOut, toSplitter, issued, granted, churn>>
      BY <2>2 DEF RecvWork
    <3> HIDE DEF m
    <3>5. received' \in [Works -> SUBSET Splits]
      BY <3>2, <3>4
    <3>6. netOut' \in [Agents -> HelloMsgs \cup ReadyMsgs \cup {None}]
      BY <3>3, <3>4
    <3> QED BY <3>1, <3>4, <3>5, <3>6
  <2>3. CASE WorkerRecvDefinition(a)
    BY <2>3, FromSplitterFacts DEF WorkerRecvDefinition
  <2>4. CASE GreetNext(a)
    <3>1. CASE cursor[a] < Len(elements[a])
      <4>1. elements[a] \in Seq(Splits) /\ cursor[a] + 1 \in 1..Len(elements[a])
        BY <3>1
      <4>2. elements[a][cursor[a] + 1] \in Splits
        BY <4>1
      <4>3. Hello(elements[a][cursor[a] + 1]) \in HelloMsgs
        BY <4>2 DEF Hello, Message, HelloMsgs
      <4>4. /\ netOut' = [netOut EXCEPT ![a] = Hello(elements[a][cursor[a] + 1])]
            /\ cursor' = [cursor EXCEPT ![a] = cursor[a] + 1]
            /\ UNCHANGED greeting
        BY <2>4, <3>1, <4>1 DEF GreetNext
      <4>5. netOut' \in [Agents -> HelloMsgs \cup ReadyMsgs \cup {None}]
        BY <4>3, <4>4
      <4>6. cursor' \in [Agents -> Nat]
        <5>1. cursor \in [Agents -> Nat] /\ cursor[a] + 1 \in Nat
          OBVIOUS
        <5> QED BY <4>4, <5>1
      <4> QED BY <2>4, <4>4, <4>5, <4>6 DEF GreetNext
    <3>2. CASE ~(cursor[a] < Len(elements[a]))
      <4>1. /\ greeting' = [greeting EXCEPT ![a] = FALSE]
            /\ cursor' = [cursor EXCEPT ![a] = 0]
            /\ UNCHANGED netOut
        BY <2>4, <3>2 DEF GreetNext
      <4>2. greeting' \in [Agents -> BOOLEAN] /\ cursor' \in [Agents -> Nat]
        BY <4>1
      <4> QED BY <2>4, <4>1, <4>2 DEF GreetNext
    <3> QED BY <3>1, <3>2
  <2>5. CASE WhisperNetwork(a)
    <3>1. netOut[a] \in ToSplitterMsgs
      BY <2>5 DEF WhisperNetwork, ToSplitterMsgs
    <3>2. toSplitter' \in [Agents -> Seq(ToSplitterMsgs)]
      BY <2>5, <3>1, SendFacts DEF WhisperNetwork
    <3>3. netOut' \in [Agents -> HelloMsgs \cup ReadyMsgs \cup {None}]
      BY <2>5 DEF WhisperNetwork
    <3> QED BY <2>5, <3>2, <3>3 DEF WhisperNetwork, ToSplitterMsgs
  <2>6. CASE WorkerRecvAgentExit(a)
    BY <2>6, FromSplitterFacts DEF WorkerRecvAgentExit
  <2> QED BY <2>1, <2>2, <2>3, <2>4, <2>5, <2>6 DEF WorkerNetworkNext
<1> QED BY <1>2, <1>3, Frame DEF SInv, publishingPeer

-----------------------------------------------------------------------------
LEMMA NextSInv == SInv /\ [Next]_vars => SInv'
<1> SUFFICES ASSUME SInv, [Next]_vars PROVE SInv'
  OBVIOUS
<1>1. ASSUME NEW t \in Publishers, PublisherNext(t) PROVE SInv'
  BY <1>1, PublishSInv, WalkSInv DEF PublisherNext
<1>2. ASSUME NEW t \in Threads, WhisperWork(t) PROVE SInv'
  BY <1>2, WhisperSInv
<1>3. CASE Deactivate \/ Activate
  BY <1>3, AnnounceSInv
<1>4. CASE NetworkNext
  BY <1>4, AnnounceSInv, HelloSInv, ReadySInv, GoodbyeSInv, AgentExitSInv DEF NetworkNext
<1>5. ASSUME NEW a \in Agents, WorkerUserNext(a) \/ WorkerNetworkNext(a) PROVE SInv'
  BY <1>5, WorkerUserSInv, WorkerNetworkSInv
<1>6. CASE UNCHANGED vars
  <2>1. TypeOK'
    BY <1>6 DEF SInv, TypeOK, vars, splitterVars, publisherVars, workerVars
  <2> QED BY <1>6, <2>1, Frame DEF SInv, vars
<1> QED BY <1>1, <1>2, <1>3, <1>4, <1>5, <1>6 DEF Next

THEOREM SplitInvariant == Spec => []SInv
<1> QED BY InitSInv, NextSInv, PTL DEF Spec

\* Types of the splitters, channels and elements, for every value of the
\* constants: no credit or number of uses goes below zero, and a work is only
\* ever whispered to a split element.
THEOREM SplitType == Spec => []TypeOK
<1>1. SInv => TypeOK
  BY DEF SInv
<1> QED BY <1>1, SplitInvariant, PTL

\* split_remove_worker: works are queued only for an output that has a worker,
\* although threads walk a list of splitters that others free under them.
THEOREM SplitQueues == Spec => []QueueHasWorker
<1>1. SInv => QueueHasWorker
  BY DEF SInv
<1> QED BY <1>1, SplitInvariant, PTL

-----------------------------------------------------------------------------
(***************************************************************************)
(* Works are handed over once.                                             *)
(***************************************************************************)
\* Works a thread is still to put in the queue of their output.
ComingFrom(t, w) ==
  walk[t] # {} /\ publishing[t].output \in walk[t] /\ publishing[t].work = w
Coming == {w \in Works : \E t \in Publishers : ComingFrom(t, w)}
ComingOnce ==
  \A t, u \in Publishers, w \in Works : ComingFrom(t, w) /\ ComingFrom(u, w) => t = u

\* A thread has a message exactly when it whispers.
Whispering == \A t \in Threads : outbox[t] # None <=> pc[t] = "whisper"

\* Works are in one place, and there only once they are published.
Apart(cs, qs, ls, ts, rs) ==
  /\ cs \cap (qs \cup ls \cup ts \cup rs) = {}
  /\ qs \cap (ls \cup ts \cup rs) = {}
  /\ ls \cap (ts \cup rs) = {}
  /\ ts \cap rs = {}
Handed ==
  /\ Whispering /\ ComingOnce /\ QueuedOnce /\ LeavingOnce /\ TravellingOnce /\ ReceivedOnce
  /\ Apart(Coming, Queued, Leaving, Travelling, Received)
  /\ Coming \cup Queued \cup Leaving \cup Travelling \cup Received \subseteq issued

HInv == SInv /\ Handed

\* Works in the queues, and a work is queued once.
WorksIn(q) == {w \in Works : \E o \in Outputs : \E i \in 1..Len(q[o]) : q[o][i] = w}
OnceIn(q) ==
  \A o, p \in Outputs : \A i \in 1..Len(q[o]), j \in 1..Len(q[p]) :
    q[o][i] = q[p][j] => o = p /\ i = j

\* A work nobody has queued yet is queued once.
LEMMA QueueAppend ==
  ASSUME NEW q \in [Outputs -> Seq(Works)], OnceIn(q), NEW o \in Outputs, NEW w \in Works,
         w \notin WorksIn(q)
  PROVE  LET r == [q EXCEPT ![o] = Append(@, w)]
         IN /\ r \in [Outputs -> Seq(Works)] /\ OnceIn(r)
            /\ WorksIn(r) \subseteq WorksIn(q) \cup {w}
<1> DEFINE r == [q EXCEPT ![o] = Append(@, w)]
<1>1. r \in [Outputs -> Seq(Works)]
  OBVIOUS
<1>2. /\ \A p \in Outputs : p # o => r[p] = q[p]
      /\ r[o] = Append(q[o], w)
      /\ Len(r[o]) = Len(q[o]) + 1 /\ Len(q[o]) \in Nat
      /\ \A i \in 1..Len(q[o]) : r[o][i] = q[o][i]
      /\ r[o][Len(q[o]) + 1] = w
  OBVIOUS
<1> HIDE DEF r
<1>3. \A p \in Outputs : \A i \in 1..Len(r[p]) :
        \/ i \in 1..Len(q[p]) /\ r[p][i] = q[p][i]
        \/ p = o /\ i = Len(q[o]) + 1 /\ r[p][i] = w
  BY <1>2
<1>4. \A p \in Outputs : \A i \in 1..Len(q[p]) : q[p][i] # w
  BY DEF WorksIn
<1>5. OnceIn(r)
  <2> SUFFICES ASSUME NEW p \in Outputs, NEW u \in Outputs,
                      NEW i \in 1..Len(r[p]), NEW j \in 1..Len(r[u]), r[p][i] = r[u][j]
               PROVE  p = u /\ i = j
    BY DEF OnceIn
  <2>1. \/ i \in 1..Len(q[p]) /\ r[p][i] = q[p][i]
        \/ p = o /\ i = Len(q[o]) + 1 /\ r[p][i] = w
    BY <1>3
  <2>2. \/ j \in 1..Len(q[u]) /\ r[u][j] = q[u][j]
        \/ u = o /\ j = Len(q[o]) + 1 /\ r[u][j] = w
    BY <1>3
  <2>3. i \in 1..Len(q[p]) => q[p][i] # w
    BY <1>4
  <2>4. j \in 1..Len(q[u]) => q[u][j] # w
    BY <1>4
  <2>5. i \in 1..Len(q[p]) /\ j \in 1..Len(q[u]) /\ q[p][i] = q[u][j] => p = u /\ i = j
    BY DEF OnceIn
  <2> QED BY <2>1, <2>2, <2>3, <2>4, <2>5
<1>6. WorksIn(r) \subseteq WorksIn(q) \cup {w}
  BY <1>3 DEF WorksIn
<1> QED BY <1>1, <1>5, <1>6 DEF r

\* The places of what is left when the head is taken.
LEMMA TailItems ==
  ASSUME NEW S, NEW c \in Seq(S), c # <<>>
  PROVE  /\ Head(c) \in S /\ Head(c) = c[1] /\ 1 \in 1..Len(c) /\ Tail(c) \in Seq(S)
         /\ Len(c) = Len(Tail(c)) + 1 /\ Len(Tail(c)) \in Nat
         /\ \A i \in 1..Len(Tail(c)) : i + 1 \in 1..Len(c) /\ i + 1 # 1 /\ Tail(c)[i] = c[i + 1]
OBVIOUS

\* The places of what was there when an item is added.
LEMMA AppendItems ==
  ASSUME NEW S, NEW c \in Seq(S), NEW m \in S
  PROVE  /\ Append(c, m) \in Seq(S)
         /\ Len(Append(c, m)) = Len(c) + 1 /\ Len(c) \in Nat
         /\ \A i \in 1..Len(c) : Append(c, m)[i] = c[i]
         /\ Append(c, m)[Len(c) + 1] = m
OBVIOUS

\* The head taken out of a queue is in no queue any more.
LEMMA QueueTail ==
  ASSUME NEW q \in [Outputs -> Seq(Works)], OnceIn(q), NEW o \in Outputs, q[o] # <<>>
  PROVE  LET r == [q EXCEPT ![o] = Tail(@)]
         IN /\ OnceIn(r) /\ WorksIn(r) \subseteq WorksIn(q)
            /\ Head(q[o]) \in WorksIn(q) /\ Head(q[o]) \notin WorksIn(r)
<1> DEFINE r == [q EXCEPT ![o] = Tail(@)]
<1>1. q[o] \in Seq(Works)
  OBVIOUS
<1>2. \A p \in Outputs : r[p] = IF p = o THEN Tail(q[o]) ELSE q[p]
  OBVIOUS
<1> HIDE DEF r
<1>3. /\ Head(q[o]) \in Works /\ Head(q[o]) = q[o][1] /\ 1 \in 1..Len(q[o])
      /\ \A i \in 1..Len(Tail(q[o])) :
           i + 1 \in 1..Len(q[o]) /\ i + 1 # 1 /\ Tail(q[o])[i] = q[o][i + 1]
  BY <1>1, TailItems
<1>4. \A p \in Outputs : \A i \in 1..Len(r[p]) :
        LET j == IF p = o THEN i + 1 ELSE i
        IN j \in 1..Len(q[p]) /\ r[p][i] = q[p][j] /\ ~(p = o /\ j = 1)
  BY <1>2, <1>3
<1>5. OnceIn(r)
  <2> SUFFICES ASSUME NEW p \in Outputs, NEW u \in Outputs,
                      NEW i \in 1..Len(r[p]), NEW j \in 1..Len(r[u]), r[p][i] = r[u][j]
               PROVE  p = u /\ i = j
    BY DEF OnceIn
  <2> DEFINE k == IF p = o THEN i + 1 ELSE i
             l == IF u = o THEN j + 1 ELSE j
  <2>1. k \in 1..Len(q[p]) /\ r[p][i] = q[p][k] /\ l \in 1..Len(q[u]) /\ r[u][j] = q[u][l]
    BY <1>4
  <2> HIDE DEF k, l
  <2>2. q[p][k] = q[u][l]
    BY <2>1
  <2>3. p = u /\ k = l
    BY <2>1, <2>2 DEF OnceIn
  <2>4. i \in Int /\ j \in Int
    OBVIOUS
  <2> QED BY <2>3, <2>4 DEF k, l
<1>6. WorksIn(r) \subseteq WorksIn(q)
  <2> SUFFICES ASSUME NEW p \in Outputs, NEW i \in 1..Len(r[p]), r[p][i] \in Works
               PROVE  r[p][i] \in WorksIn(q)
    BY DEF WorksIn
  <2> DEFINE k == IF p = o THEN i + 1 ELSE i
  <2>1. k \in 1..Len(q[p]) /\ r[p][i] = q[p][k]
    BY <1>4
  <2> HIDE DEF k
  <2> QED BY <2>1 DEF WorksIn
<1>7. Head(q[o]) \in WorksIn(q)
  BY <1>3 DEF WorksIn
<1>8. Head(q[o]) \notin WorksIn(r)
  <2> SUFFICES ASSUME NEW p \in Outputs, NEW i \in 1..Len(r[p]), r[p][i] = q[o][1] PROVE FALSE
    BY <1>3 DEF WorksIn
  <2> DEFINE k == IF p = o THEN i + 1 ELSE i
  <2>1. k \in 1..Len(q[p]) /\ r[p][i] = q[p][k] /\ ~(p = o /\ k = 1)
    BY <1>4
  <2> QED BY <1>3, <2>1 DEF OnceIn
<1> QED BY <1>5, <1>6, <1>7, <1>8 DEF r

\* No message is None.
LEMMA NoneIsNoMessage ==
  /\ None \notin WorkMsgs /\ None \notin HelloMsgs /\ None \notin ReadyMsgs
  /\ None \notin GoodbyeMsgs /\ None \notin AgentMsgs
<1> DEFINE Any == [type : {"SPLITTER_WORK", "WORKER_HELLO", "WORKER_READY", "WORKER_GOODBYE",
                           "EXTERNAL_DEFINITION", "REMOTE_AGENT_EXIT"},
                   split : Splits \cup {None}, work : Works \cup {None}]
<1>1. None \notin Any
  BY SplitAssumption
<1>2. WorkMsgs \subseteq Any /\ ReadyMsgs \subseteq Any
  BY DEF WorkMsgs, ReadyMsgs
<1>3. HelloMsgs \subseteq Any /\ GoodbyeMsgs \subseteq Any
  BY DEF HelloMsgs, GoodbyeMsgs
<1>4. AgentMsgs \subseteq Any
  BY DEF AgentMsgs
<1> HIDE DEF Any
<1> QED BY <1>1, <1>2, <1>3, <1>4

\* A dispatch takes a work out of the queue and into the hands of the thread.
LEMMA TriggerHands ==
  ASSUME TypeOK, Handed, NEW t, NEW o, NEW ws, NEW cr, NEW us, NEW q, NEW pcElse, NEW lockElse,
         Callable(t, o, ws, cr, us, q, pcElse, lockElse),
         Trigger(t, o, ws, cr, us, q, pcElse, lockElse),
         pc[t] # "whisper", OnceIn(q), WorksIn(q) \cap Leaving = {}
  PROVE  /\ Whispering' /\ QueuedOnce' /\ LeavingOnce'
         /\ Queued' \cup Leaving' \subseteq WorksIn(q) \cup Leaving
         /\ Queued' \subseteq WorksIn(q)
         /\ Queued' \cap Leaving' = {}
<1> USE DEF Callable
<1>1. t \in Threads /\ outbox[t] = None /\ None \notin WorkMsgs
  BY NoneIsNoMessage DEF Handed, Whispering
<1>2. CASE CanDispatch(ws, cr, q, o)
  <2>1. PICK s \in BestWorkers(ws, cr, us, o) :
          outbox' = [outbox EXCEPT ![t] = Work(s, Head(q[o]))]
    BY <1>2 DEF Trigger
  <2>2. /\ queue' = [q EXCEPT ![o] = Tail(@)] /\ pc' = [pc EXCEPT ![t] = "whisper"]
    BY <1>2 DEF Trigger, DropFirst
  <2>3. q[o] # <<>> /\ s \in Splits
    BY <1>2 DEF CanDispatch, BestWorkers
  <2>4. /\ OnceIn(queue') /\ WorksIn(queue') \subseteq WorksIn(q)
        /\ Head(q[o]) \in WorksIn(q) /\ Head(q[o]) \notin WorksIn(queue')
    BY <2>2, <2>3, QueueTail
  <2> DEFINE m == Work(s, Head(q[o]))
  <2>5. m # None /\ m.work = Head(q[o])
    <3>1. Head(q[o]) \in Works
      BY <2>4 DEF WorksIn
    <3>2. m \in WorkMsgs
      BY <2>3, <3>1, MessageTypes
    <3> QED BY <1>1, <3>2 DEF Work, Message
  <2> HIDE DEF m
  <2>6. \A u \in Threads : outbox'[u] = IF u = t THEN m ELSE outbox[u]
    BY <1>1, <2>1 DEF TypeOK, m
  <2>7. Whispering'
    BY <1>1, <2>2, <2>5, <2>6 DEF Handed, Whispering, TypeOK
  <2>8. \A u \in Threads : outbox'[u] # None =>
          \/ u = t /\ outbox'[u].work = Head(q[o])
          \/ u # t /\ outbox'[u] = outbox[u]
    BY <2>5, <2>6
  <2>9. \A u \in Threads : outbox[u] # None => outbox[u].work \in Leaving
    BY DEF TypeOK, Leaving, WorkMsgs
  <2>10. Head(q[o]) \notin Leaving
    BY <2>4
  <2>11. LeavingOnce'
    <3> SUFFICES ASSUME NEW u \in Threads, NEW v \in Threads, outbox'[u] # None,
                        outbox'[v] # None, outbox'[u].work = outbox'[v].work
                 PROVE  u = v
      BY DEF LeavingOnce
    <3>1. ASSUME u # t, v # t PROVE u = v
      <4>1. outbox'[u] = outbox[u] /\ outbox'[v] = outbox[v]
        BY <2>6, <3>1
      <4> QED BY <4>1 DEF Handed, LeavingOnce
    <3>2. ASSUME NEW x \in Threads, outbox'[x] # None, x # t
          PROVE  outbox'[x].work # Head(q[o])
      <4>1. outbox'[x] = outbox[x]
        BY <2>6, <3>2
      <4> QED BY <2>9, <2>10, <3>2, <4>1
    <3> QED BY <2>8, <3>1, <3>2
  <2>12. Leaving' \subseteq Leaving \cup {Head(q[o])}
    BY <2>8, <2>9 DEF Leaving
  <2>13. QueuedOnce' /\ Queued' = WorksIn(queue')
    BY <2>4 DEF QueuedOnce, OnceIn, Queued, WorksIn
  <2> QED BY <2>4, <2>7, <2>11, <2>12, <2>13
<1>3. CASE ~CanDispatch(ws, cr, q, o)
  <2>1. queue' = q /\ outbox' = outbox /\ pc' = [pc EXCEPT ![t] = pcElse]
    BY <1>3 DEF Trigger
  <2>2. QueuedOnce' /\ Queued' = WorksIn(q)
    BY <2>1 DEF QueuedOnce, OnceIn, Queued, WorksIn
  <2>3. Leaving' = Leaving /\ LeavingOnce'
    BY <2>1 DEF Handed, Leaving, LeavingOnce
  <2>4. Whispering'
    BY <1>1, <2>1 DEF Handed, Whispering, TypeOK
  <2> QED BY <2>2, <2>3, <2>4
<1> QED BY <1>2, <1>3

\* A step that takes no work from a publication, a thread or an input and adds
\* none to a channel hands nothing over; queues may be freed.
LEMMA HandsFrame ==
  ASSUME Handed, UNCHANGED <<publishing, walk, pc, outbox, received, issued>>,
         queue' \in [Outputs -> Seq(Works)],
         \A o \in Outputs : queue'[o] = queue[o] \/ queue'[o] = <<>>,
         TravellingOnce', Travelling' \subseteq Travelling
  PROVE  Handed'
<1>1. Whispering' /\ ComingOnce' /\ LeavingOnce' /\ ReceivedOnce'
  BY DEF Handed, Whispering, ComingOnce, ComingFrom, LeavingOnce, ReceivedOnce
<1>2. Coming' = Coming /\ Leaving' = Leaving /\ Received' = Received
  BY DEF Coming, ComingFrom, Leaving, Received
<1>3. \A o \in Outputs : \A i \in 1..Len(queue'[o]) :
        i \in 1..Len(queue[o]) /\ queue'[o][i] = queue[o][i]
  OBVIOUS
<1>4. QueuedOnce' /\ Queued' \subseteq Queued
  BY <1>3 DEF Handed, QueuedOnce, Queued
<1> QED BY <1>1, <1>2, <1>4 DEF Handed, Apart

\* Works of a channel that were already in it, d places further.
Shifted(d) ==
  \A a \in Agents : \A i \in 1..Len(toWorker'[a]) :
    IsWork(toWorker'[a][i]) =>
      i + d[a] \in 1..Len(toWorker[a]) /\ toWorker'[a][i] = toWorker[a][i + d[a]]

\* A channel that only loses works keeps what it has once.
LEMMA ChannelShift ==
  ASSUME TravellingOnce, NEW d \in [Agents -> {0, 1}], Shifted(d)
  PROVE  TravellingOnce' /\ Travelling' \subseteq Travelling
<1>1. TravellingOnce'
  <2> SUFFICES ASSUME NEW a \in Agents, NEW b \in Agents,
                      NEW i \in 1..Len(toWorker'[a]), NEW j \in 1..Len(toWorker'[b]),
                      IsWork(toWorker'[a][i]), IsWork(toWorker'[b][j]),
                      toWorker'[a][i].work = toWorker'[b][j].work
               PROVE  a = b /\ i = j
    BY DEF TravellingOnce
  <2>1. PICK k \in 1..Len(toWorker[a]) : k = i + d[a] /\ toWorker'[a][i] = toWorker[a][k]
    BY DEF Shifted
  <2>2. PICK l \in 1..Len(toWorker[b]) : l = j + d[b] /\ toWorker'[b][j] = toWorker[b][l]
    BY DEF Shifted
  <2>3. IsWork(toWorker[a][k]) /\ IsWork(toWorker[b][l]) /\ toWorker[a][k].work = toWorker[b][l].work
    BY <2>1, <2>2
  <2>4. a = b /\ k = l
    BY <2>3 DEF TravellingOnce
  <2>5. d[a] \in Int /\ i \in Int /\ j \in Int
    OBVIOUS
  <2> QED BY <2>1, <2>2, <2>4, <2>5
<1>2. Travelling' \subseteq Travelling
  <2> SUFFICES ASSUME NEW w \in Travelling' PROVE w \in Travelling
    OBVIOUS
  <2>1. PICK a \in Agents : \E i \in 1..Len(toWorker'[a]) :
          w \in Works /\ IsWork(toWorker'[a][i]) /\ toWorker'[a][i].work = w
    BY DEF Travelling
  <2>2. PICK i \in 1..Len(toWorker'[a]) :
          w \in Works /\ IsWork(toWorker'[a][i]) /\ toWorker'[a][i].work = w
    BY <2>1
  <2>3. PICK k \in 1..Len(toWorker[a]) : toWorker'[a][i] = toWorker[a][k]
    BY <2>2 DEF Shifted
  <2> QED BY <2>2, <2>3 DEF Travelling
<1> QED BY <1>1, <1>2

\* Messages that are no work, sent to some of the workers.
LEMMA ChannelOther ==
  ASSUME TypeOK, TravellingOnce, NEW m \in AgentMsgs,
         \A a \in Agents : toWorker'[a] = toWorker[a] \/ toWorker'[a] = Append(toWorker[a], m)
  PROVE  TravellingOnce' /\ Travelling' \subseteq Travelling
<1> DEFINE d == [a \in Agents |-> 0]
<1>1. d \in [Agents -> {0, 1}]
  OBVIOUS
<1>2. m.type # "SPLITTER_WORK"
  BY DEF AgentMsgs
<1>3. ASSUME NEW a \in Agents, NEW i \in 1..Len(toWorker'[a]), IsWork(toWorker'[a][i])
      PROVE  i + d[a] \in 1..Len(toWorker[a]) /\ toWorker'[a][i] = toWorker[a][i + d[a]]
  <2>1. toWorker[a] \in Seq(WorkMsgs \cup AgentMsgs) /\ m \in WorkMsgs \cup AgentMsgs
    BY DEF TypeOK
  <2>2. CASE toWorker'[a] = toWorker[a]
    BY <2>1, <2>2
  <2>3. CASE toWorker'[a] = Append(toWorker[a], m)
    <3>1. /\ Len(toWorker'[a]) = Len(toWorker[a]) + 1 /\ Len(toWorker[a]) \in Nat
          /\ \A j \in 1..Len(toWorker[a]) : toWorker'[a][j] = toWorker[a][j]
          /\ toWorker'[a][Len(toWorker[a]) + 1] = m
      BY <2>1, <2>3, AppendItems
    <3>2. i # Len(toWorker[a]) + 1
      BY <1>2, <1>3, <3>1 DEF IsWork
    <3> QED BY <3>1, <3>2
  <2> QED BY <2>2, <2>3
<1> HIDE DEF d
<1> QED BY <1>1, <1>3, ChannelShift DEF Shifted

\* The network thread of a worker takes a message; a work it takes is not in
\* the channels any more.
LEMMA ChannelTaken ==
  ASSUME TypeOK, TravellingOnce, NEW a \in Agents, toWorker[a] # <<>>,
         toWorker' = [toWorker EXCEPT ![a] = Tail(@)]
  PROVE  /\ TravellingOnce' /\ Travelling' \subseteq Travelling
         /\ Head(toWorker[a]) \in WorkMsgs =>
              Head(toWorker[a]).work \in Travelling /\ Head(toWorker[a]).work \notin Travelling'
<1> DEFINE d == [b \in Agents |-> IF b = a THEN 1 ELSE 0]
<1>1. d \in [Agents -> {0, 1}] /\ d[a] = 1 /\ \A b \in Agents : b # a => d[b] = 0
  OBVIOUS
<1> HIDE DEF d
<1>2. toWorker[a] \in Seq(WorkMsgs \cup AgentMsgs)
  BY DEF TypeOK
<1>3. /\ Head(toWorker[a]) = toWorker[a][1] /\ 1 \in 1..Len(toWorker[a])
      /\ \A i \in 1..Len(Tail(toWorker[a])) :
           i + 1 \in 1..Len(toWorker[a]) /\ i + 1 # 1
           /\ Tail(toWorker[a])[i] = toWorker[a][i + 1]
  BY <1>2, TailItems
<1>4. \A b \in Agents : toWorker'[b] = IF b = a THEN Tail(toWorker[a]) ELSE toWorker[b]
  BY DEF TypeOK
<1>5. \A b \in Agents : \A i \in 1..Len(toWorker'[b]) :
        /\ i + d[b] \in 1..Len(toWorker[b]) /\ toWorker'[b][i] = toWorker[b][i + d[b]]
        /\ b = a => i + d[b] # 1
  <2> SUFFICES ASSUME NEW b \in Agents, NEW i \in 1..Len(toWorker'[b])
               PROVE  /\ i + d[b] \in 1..Len(toWorker[b])
                      /\ toWorker'[b][i] = toWorker[b][i + d[b]]
                      /\ b = a => i + d[b] # 1
    OBVIOUS
  <2>1. CASE b = a
    BY <1>1, <1>3, <1>4, <2>1
  <2>2. CASE b # a
    <3>1. d[b] = 0 /\ toWorker'[b] = toWorker[b]
      BY <1>1, <1>4, <2>2
    <3> QED BY <2>2, <3>1
  <2> QED BY <2>1, <2>2
<1>6. TravellingOnce' /\ Travelling' \subseteq Travelling
  BY <1>1, <1>5, ChannelShift DEF Shifted
<1>7. ASSUME Head(toWorker[a]) \in WorkMsgs
      PROVE  /\ Head(toWorker[a]).work \in Travelling
             /\ Head(toWorker[a]).work \notin Travelling'
  <2>1. IsWork(toWorker[a][1]) /\ toWorker[a][1].work \in Works
    BY <1>3, <1>7 DEF IsWork, WorkMsgs
  <2>2. toWorker[a][1].work \in Travelling
    BY <1>3, <2>1 DEF Travelling
  <2>3. ASSUME NEW b \in Agents, NEW i \in 1..Len(toWorker'[b]), IsWork(toWorker'[b][i]),
               toWorker'[b][i].work = toWorker[a][1].work
        PROVE  FALSE
    <3>1. PICK k \in 1..Len(toWorker[b]) :
            k = i + d[b] /\ toWorker'[b][i] = toWorker[b][k] /\ (b = a => k # 1)
      BY <1>5
    <3>2. b = a /\ k = 1
      BY <1>3, <2>1, <2>3, <3>1 DEF TravellingOnce
    <3> QED BY <3>1, <3>2
  <2>4. toWorker[a][1].work \notin Travelling'
    BY <2>3 DEF Travelling
  <2> QED BY <1>3, <2>2, <2>4
<1> QED BY <1>6, <1>7

\* A work is whispered.
LEMMA ChannelWork ==
  ASSUME TypeOK, TravellingOnce, NEW a \in Agents, NEW m \in WorkMsgs, m.work \notin Travelling,
         toWorker' = [toWorker EXCEPT ![a] = Append(@, m)]
  PROVE  TravellingOnce' /\ Travelling' \subseteq Travelling \cup {m.work}
<1>1. /\ Len(Append(toWorker[a], m)) = Len(toWorker[a]) + 1 /\ Len(toWorker[a]) \in Nat
      /\ \A j \in 1..Len(toWorker[a]) : Append(toWorker[a], m)[j] = toWorker[a][j]
      /\ Append(toWorker[a], m)[Len(toWorker[a]) + 1] = m
  <2>1. toWorker[a] \in Seq(WorkMsgs \cup AgentMsgs) /\ m \in WorkMsgs \cup AgentMsgs
    BY DEF TypeOK
  <2> QED BY <2>1, AppendItems
<1>2. \A b \in Agents : toWorker'[b] = IF b = a THEN Append(toWorker[a], m) ELSE toWorker[b]
  BY DEF TypeOK
<1>3. \A b \in Agents : \A i \in 1..Len(toWorker'[b]) :
        \/ i \in 1..Len(toWorker[b]) /\ toWorker'[b][i] = toWorker[b][i]
        \/ b = a /\ i = Len(toWorker[a]) + 1 /\ toWorker'[b][i] = m
  <2> SUFFICES ASSUME NEW b \in Agents, NEW i \in 1..Len(toWorker'[b])
               PROVE  \/ i \in 1..Len(toWorker[b]) /\ toWorker'[b][i] = toWorker[b][i]
                      \/ b = a /\ i = Len(toWorker[a]) + 1 /\ toWorker'[b][i] = m
    OBVIOUS
  <2>1. CASE b = a
    BY <1>1, <1>2, <2>1
  <2>2. CASE b # a
    BY <1>2, <2>2
  <2> QED BY <2>1, <2>2
<1>4. \A b \in Agents : \A i \in 1..Len(toWorker[b]) :
        ~(IsWork(toWorker[b][i]) /\ toWorker[b][i].work = m.work)
  BY DEF Travelling, WorkMsgs
<1>5. TravellingOnce'
  <2> SUFFICES ASSUME NEW b \in Agents, NEW c \in Agents,
                      NEW i \in 1..Len(toWorker'[b]), NEW j \in 1..Len(toWorker'[c]),
                      IsWork(toWorker'[b][i]), IsWork(toWorker'[c][j]),
                      toWorker'[b][i].work = toWorker'[c][j].work
               PROVE  b = c /\ i = j
    BY DEF TravellingOnce
  <2>1. \/ i \in 1..Len(toWorker[b]) /\ toWorker'[b][i] = toWorker[b][i]
        \/ b = a /\ i = Len(toWorker[a]) + 1 /\ toWorker'[b][i] = m
    BY <1>3
  <2>2. \/ j \in 1..Len(toWorker[c]) /\ toWorker'[c][j] = toWorker[c][j]
        \/ c = a /\ j = Len(toWorker[a]) + 1 /\ toWorker'[c][j] = m
    BY <1>3
  <2>3. i \in 1..Len(toWorker[b]) => ~(IsWork(toWorker[b][i]) /\ toWorker[b][i].work = m.work)
    BY <1>4
  <2>4. j \in 1..Len(toWorker[c]) => ~(IsWork(toWorker[c][j]) /\ toWorker[c][j].work = m.work)
    BY <1>4
  <2>5. /\ i \in 1..Len(toWorker[b]) /\ j \in 1..Len(toWorker[c])
        /\ IsWork(toWorker[b][i]) /\ IsWork(toWorker[c][j])
        /\ toWorker[b][i].work = toWorker[c][j].work
        => b = c /\ i = j
    BY DEF TravellingOnce
  <2> QED BY <2>1, <2>2, <2>3, <2>4, <2>5
<1>6. Travelling' \subseteq Travelling \cup {m.work}
  <2> SUFFICES ASSUME NEW w \in Travelling', w # m.work PROVE w \in Travelling
    OBVIOUS
  <2>1. PICK b \in Agents : \E i \in 1..Len(toWorker'[b]) :
          w \in Works /\ IsWork(toWorker'[b][i]) /\ toWorker'[b][i].work = w
    BY DEF Travelling
  <2>2. PICK i \in 1..Len(toWorker'[b]) :
          w \in Works /\ IsWork(toWorker'[b][i]) /\ toWorker'[b][i].work = w
    BY <2>1
  <2>3. i \in 1..Len(toWorker[b]) /\ toWorker'[b][i] = toWorker[b][i]
    BY <1>3, <2>2
  <2> QED BY <2>2, <2>3 DEF Travelling
<1> QED BY <1>5, <1>6

\* network_publish_output.
LEMMA PublishHands ==
  ASSUME HInv, NEW t \in Publishers, NEW o \in Outputs, NEW w \in Works, Publish(t, o, w)
  PROVE  Handed'
<1>1. /\ Handed /\ TypeOK /\ w \notin issued /\ pc[t] = "idle" /\ t \in Threads
  BY DEF HInv, SInv, Publish, Threads
<1>2. /\ issued' = issued \cup {w}
      /\ publishing' = [publishing EXCEPT ![t] = [output |-> o, work |-> w]]
      /\ walk' = [walk EXCEPT ![t] = SplittersOf(workers)]
      /\ pc' = [pc EXCEPT ![t] = "walk"]
      /\ UNCHANGED <<queue, outbox, toWorker, received>>
  BY DEF Publish, splitterVars
<1>3. \A u \in Publishers, x \in Works : ComingFrom(u, x)' =>
        (u = t /\ x = w) \/ (u # t /\ ComingFrom(u, x))
  <2> SUFFICES ASSUME NEW u \in Publishers, NEW x \in Works, ComingFrom(u, x)'
               PROVE  (u = t /\ x = w) \/ (u # t /\ ComingFrom(u, x))
    OBVIOUS
  <2>1. u \in Threads
    BY DEF Threads
  <2>2. CASE u = t
    <3>1. publishing'[t].work = w
      BY <1>1, <1>2 DEF TypeOK
    <3> QED BY <2>2, <3>1 DEF ComingFrom
  <2>3. CASE u # t
    <3>1. publishing'[u] = publishing[u] /\ walk'[u] = walk[u]
      BY <1>1, <1>2, <2>1, <2>3 DEF TypeOK
    <3> QED BY <2>3, <3>1 DEF ComingFrom
  <2> QED BY <2>2, <2>3
<1>4. \A x \in Coming : x \in issued /\ x # w
  BY <1>1 DEF Handed
<1>5. ComingOnce'
  <2> SUFFICES ASSUME NEW u \in Publishers, NEW v \in Publishers, NEW x \in Works,
                      ComingFrom(u, x)', ComingFrom(v, x)'
               PROVE  u = v
    BY DEF ComingOnce
  <2>1. /\ (u = t /\ x = w) \/ (u # t /\ ComingFrom(u, x))
        /\ (v = t /\ x = w) \/ (v # t /\ ComingFrom(v, x))
    BY <1>3
  <2>2. ~ComingFrom(u, w) /\ ~ComingFrom(v, w)
    BY <1>4 DEF Coming
  <2>3. ComingFrom(u, x) /\ ComingFrom(v, x) => u = v
    BY <1>1 DEF Handed, ComingOnce
  <2> QED BY <2>1, <2>2, <2>3
<1>6. Coming' \subseteq Coming \cup {w}
  <2> SUFFICES ASSUME NEW x \in Coming', x # w PROVE x \in Coming
    OBVIOUS
  <2>1. x \in Works /\ \E u \in Publishers : ComingFrom(u, x)'
    BY DEF Coming
  <2>2. PICK u \in Publishers : ComingFrom(u, x)'
    BY <2>1
  <2>3. ComingFrom(u, x)
    BY <1>3, <2>1, <2>2
  <2> QED BY <2>1, <2>3 DEF Coming
<1>7. /\ Queued' = Queued /\ Leaving' = Leaving /\ Travelling' = Travelling /\ Received' = Received
      /\ QueuedOnce' /\ LeavingOnce' /\ TravellingOnce' /\ ReceivedOnce'
  <2>1. Queued' = Queued /\ Leaving' = Leaving
    BY <1>2 DEF Queued, Leaving
  <2>2. Travelling' = Travelling /\ Received' = Received
    BY <1>2 DEF Travelling, Received
  <2>3. QueuedOnce' /\ LeavingOnce'
    BY <1>1, <1>2 DEF Handed, QueuedOnce, LeavingOnce
  <2>4. TravellingOnce' /\ ReceivedOnce'
    BY <1>1, <1>2 DEF Handed, TravellingOnce, ReceivedOnce
  <2> QED BY <2>1, <2>2, <2>3, <2>4
<1>8. Whispering'
  BY <1>1, <1>2 DEF Handed, Whispering, TypeOK
<1>9. w \notin Coming \cup Queued \cup Leaving \cup Travelling \cup Received
  BY <1>1 DEF Handed
<1> QED BY <1>1, <1>2, <1>5, <1>6, <1>7, <1>8, <1>9 DEF Handed, Apart

\* One turn of split_add_work_to_queue: the work of the publication goes to the
\* queue, or is lost with a freed splitter, and is not coming any more.
LEMMA WalkHands == ASSUME HInv, NEW t \in Publishers, WalkStep(t) PROVE Handed'
<1> DEFINE o == publishing[t].output
           w == publishing[t].work
<1>1. /\ Handed /\ TypeOK /\ t \in Threads /\ publishing[t] \in Publication
      /\ o \in Outputs /\ w \in Works
  BY DEF HInv, SInv, Threads, WalkStep, Walking, Publication
<1>2. pc[t] = "walk" /\ UNCHANGED <<publishing, toWorker, received, issued>>
  BY DEF WalkStep
<1>3. PICK e \in walk[t] :
        LET q == IF e = o /\ e \notin stale[t] THEN [queue EXCEPT ![o] = Append(@, w)] ELSE queue
            last == walk[t] = {e}
        IN /\ walk' = [walk EXCEPT ![t] = @ \ {e}]
           /\ Trigger(t, o, workers, credit, uses, q,
                      IF last THEN "idle" ELSE "walk",
                      IF last THEN None ELSE t)
  BY DEF WalkStep
<1> DEFINE q == IF e = o /\ e \notin stale[t] THEN [queue EXCEPT ![o] = Append(@, w)] ELSE queue
<1>4. QueuedOnce <=> OnceIn(queue)
  BY DEF QueuedOnce, OnceIn
<1>5. Queued = WorksIn(queue)
  BY DEF Queued, WorksIn
<1>6. e = o => w \in Coming
  BY <1>1 DEF Coming, ComingFrom
<1>7. /\ q \in [Outputs -> Seq(Works)] /\ OnceIn(q)
      /\ WorksIn(q) \subseteq Queued \cup (IF e = o THEN {w} ELSE {})
  <2>1. queue \in [Outputs -> Seq(Works)] /\ OnceIn(queue)
    BY <1>1, <1>4 DEF TypeOK, Handed
  <2>2. CASE e = o /\ e \notin stale[t]
    <3>1. w \notin WorksIn(queue)
      BY <1>1, <1>5, <1>6, <2>2 DEF Handed, Apart
    <3>2. q = [queue EXCEPT ![o] = Append(@, w)]
      BY <2>2
    <3> HIDE DEF q, w, o
    <3> QED BY <1>1, <1>5, <2>1, <2>2, <3>1, <3>2, QueueAppend
  <2>3. CASE ~(e = o /\ e \notin stale[t])
    BY <1>5, <2>1, <2>3
  <2> QED BY <2>2, <2>3
<1>8. /\ walk' = [walk EXCEPT ![t] = walk[t] \ {e}]
      /\ Trigger(t, o, workers, credit, uses, q,
                 IF walk[t] = {e} THEN "idle" ELSE "walk", IF walk[t] = {e} THEN None ELSE t)
  BY <1>3
<1> HIDE DEF q
<1>9. \A u \in Publishers, x \in Works : ComingFrom(u, x)' =>
        /\ ComingFrom(u, x)
        /\ u = t => e # o
  <2> SUFFICES ASSUME NEW u \in Publishers, NEW x \in Works, ComingFrom(u, x)'
               PROVE  ComingFrom(u, x) /\ (u = t => e # o)
    OBVIOUS
  <2>1. u \in Threads
    BY DEF Threads
  <2>2. walk'[u] = IF u = t THEN walk[t] \ {e} ELSE walk[u]
    BY <1>1, <1>8, <2>1 DEF TypeOK
  <2> QED BY <1>2, <2>2 DEF ComingFrom
<1>10. ComingOnce' /\ Coming' \subseteq Coming
  BY <1>1, <1>9 DEF Handed, ComingOnce, Coming
<1>11. e = o => w \notin Coming'
  <2> SUFFICES ASSUME e = o, NEW x \in Works, x = w, NEW u \in Publishers, ComingFrom(u, x)'
               PROVE  FALSE
    BY DEF Coming
  <2>1. ComingFrom(u, x) /\ u # t
    BY <1>9
  <2>2. ComingFrom(t, x)
    BY DEF ComingFrom
  <2> QED BY <1>1, <2>1, <2>2 DEF Handed, ComingOnce
<1>12. WorksIn(q) \cap (Leaving \cup Travelling \cup Received) = {}
  BY <1>1, <1>6, <1>7 DEF Handed, Apart
<1>13. PICK pcElse \in {"idle", "walk"}, lockElse \in Publishers \cup {None} :
         Trigger(t, o, workers, credit, uses, q, pcElse, lockElse)
  BY <1>8
<1>14. Callable(t, o, workers, credit, uses, q, pcElse, lockElse)
  BY <1>1, <1>7 DEF Callable, TypeOK
<1> HIDE DEF o, w
<1>15. /\ Whispering' /\ QueuedOnce' /\ LeavingOnce'
       /\ Queued' \cup Leaving' \subseteq WorksIn(q) \cup Leaving
       /\ Queued' \subseteq WorksIn(q)
       /\ Queued' \cap Leaving' = {}
  <2>1. pc[t] # "whisper" /\ WorksIn(q) \cap Leaving = {} /\ OnceIn(q)
    BY <1>2, <1>7, <1>12
  <2>2. PICK ws, cr, us, qq, oo :
          ws = workers /\ cr = credit /\ us = uses /\ qq = q /\ oo = o
    OBVIOUS
  <2>3. Trigger(t, oo, ws, cr, us, qq, pcElse, lockElse)
    BY <1>13, <2>2 DEF Trigger
  <2>4. Callable(t, oo, ws, cr, us, qq, pcElse, lockElse)
    BY <1>14, <2>2
  <2>5. OnceIn(qq) /\ WorksIn(qq) \cap Leaving = {} /\ WorksIn(qq) = WorksIn(q)
    BY <2>1, <2>2
  <2>6. /\ Whispering' /\ QueuedOnce' /\ LeavingOnce'
        /\ Queued' \cup Leaving' \subseteq WorksIn(qq) \cup Leaving
        /\ Queued' \subseteq WorksIn(qq)
        /\ Queued' \cap Leaving' = {}
    BY <1>1, <2>1, <2>3, <2>4, <2>5, TriggerHands
  <2> QED BY <2>5, <2>6
<1>16. Travelling' = Travelling /\ Received' = Received /\ TravellingOnce' /\ ReceivedOnce'
  BY <1>1, <1>2 DEF Handed, Travelling, Received, TravellingOnce, ReceivedOnce
<1>17. Coming' \cap WorksIn(q) = {}
  BY <1>1, <1>7, <1>10, <1>11 DEF Handed, Apart
<1>18. Coming' \cap (Queued' \cup Leaving' \cup Travelling' \cup Received') = {}
  BY <1>1, <1>10, <1>15, <1>16, <1>17 DEF Handed, Apart
<1>19. Apart(Coming, Queued, Leaving, Travelling, Received)'
  BY <1>1, <1>12, <1>15, <1>16, <1>18 DEF Handed, Apart
<1>20. WorksIn(q) \subseteq issued
  BY <1>1, <1>6, <1>7 DEF Handed
<1> QED BY <1>1, <1>2, <1>10, <1>15, <1>16, <1>19, <1>20 DEF Handed

\* igs_channel_whisper_zmsg for a work: from the thread to the channel, or lost
\* with an unknown agent.
LEMMA WhisperHands == ASSUME HInv, NEW t \in Threads, WhisperWork(t) PROVE Handed'
<1> DEFINE m == outbox[t]  a == AgentOf[m.split]
<1>1. Handed /\ TypeOK /\ m \in WorkMsgs /\ m # None /\ a \in Agents /\ m.work \in Leaving
  <2>1. m \in WorkMsgs /\ m # None
    BY NoneIsNoMessage DEF HInv, SInv, WhisperWork, Walking
  <2>2. m.split \in Splits /\ m.work \in Works
    BY <2>1 DEF WorkMsgs
  <2> QED BY <2>1, <2>2, SplitAssumption DEF HInv, SInv, Leaving
<1>2. /\ outbox' = [outbox EXCEPT ![t] = None]
      /\ pc' = [pc EXCEPT ![t] = IF walk[t] = {} THEN "idle" ELSE "walk"]
      /\ UNCHANGED <<queue, publishing, walk, received, issued>>
      /\ \/ toWorker' = [toWorker EXCEPT ![a] = Append(@, m)]
         \/ toWorker' = toWorker
  BY DEF WhisperWork, splitterVars
<1> HIDE DEF a
<1>3. PICK x \in WorkMsgs : x = m
  BY <1>1
<1>4. \A u \in Threads : outbox'[u] = IF u = t THEN None ELSE outbox[u]
  BY <1>1, <1>2 DEF TypeOK
<1>5. /\ Coming' = Coming /\ Queued' = Queued /\ Received' = Received
      /\ ComingOnce' /\ QueuedOnce' /\ ReceivedOnce'
  BY <1>1, <1>2 DEF Handed, Coming, ComingFrom, Queued, Received, ComingOnce, QueuedOnce,
                    ReceivedOnce
<1>6. LeavingOnce' /\ Leaving' \subseteq Leaving
  BY <1>1, <1>4 DEF Handed, LeavingOnce, Leaving
<1>7. x.work \in Leaving /\ x.work \notin Leaving'
  <2> SUFFICES ASSUME NEW u \in Threads, outbox'[u] # None, outbox'[u].work = x.work PROVE FALSE
    BY <1>1, <1>3 DEF Leaving
  <2>1. u # t /\ outbox[u] # None /\ outbox[u].work = m.work
    BY <1>3, <1>4
  <2> QED BY <1>1, <2>1 DEF Handed, LeavingOnce
<1>8. TravellingOnce' /\ Travelling' \subseteq Travelling \cup {x.work}
  <2>1. x.work \notin Travelling
    BY <1>1, <1>7 DEF Handed, Apart
  <2>2. CASE toWorker' = toWorker
    BY <1>1, <2>2 DEF Handed, Travelling, TravellingOnce
  <2>3. CASE toWorker' = [toWorker EXCEPT ![a] = Append(@, x)]
    BY <1>1, <2>1, <2>3, ChannelWork DEF Handed
  <2> QED BY <1>2, <1>3, <2>2, <2>3
<1>9. Whispering'
  <2> SUFFICES ASSUME NEW u \in Threads PROVE outbox'[u] # None <=> pc'[u] = "whisper"
    BY DEF Whispering
  <2>1. CASE u = t
    <3>1. pc'[t] \in {"idle", "walk"}
      BY <1>1, <1>2 DEF TypeOK
    <3> QED BY <1>4, <2>1, <3>1
  <2>2. CASE u # t
    <3>1. pc'[u] = pc[u]
      BY <1>1, <1>2, <2>2 DEF TypeOK
    <3> QED BY <1>1, <1>4, <2>2, <3>1 DEF Handed, Whispering
  <2> QED BY <2>1, <2>2
<1>10. Apart(Coming, Queued, Leaving, Travelling, Received)'
  BY <1>1, <1>5, <1>6, <1>7, <1>8 DEF Handed, Apart
<1> QED BY <1>1, <1>2, <1>5, <1>6, <1>7, <1>8, <1>9, <1>10 DEF Handed

\* A dispatch by the network thread.
LEMMA NetworkHands ==
  ASSUME HInv, NEW o, NEW ws, NEW cr, NEW us, NEW lockElse,
         Callable(Network, o, ws, cr, us, queue, "idle", lockElse),
         Trigger(Network, o, ws, cr, us, queue, "idle", lockElse),
         pc[Network] = "idle", UNCHANGED <<publishing, walk, toWorker, received, issued>>
  PROVE  Handed'
<1>1. Handed /\ TypeOK
  BY DEF HInv, SInv
<1>2. OnceIn(queue) /\ Queued = WorksIn(queue)
  BY <1>1 DEF Handed, QueuedOnce, OnceIn, Queued, WorksIn
<1>3. PICK q : q = queue
  OBVIOUS
<1>4. OnceIn(q) /\ WorksIn(q) = Queued
  BY <1>2, <1>3
<1>5. /\ Whispering' /\ QueuedOnce' /\ LeavingOnce'
      /\ Queued' \cup Leaving' \subseteq WorksIn(q) \cup Leaving
      /\ Queued' \subseteq WorksIn(q)
      /\ Queued' \cap Leaving' = {}
  <2>1. pc[Network] # "whisper" /\ WorksIn(q) \cap Leaving = {}
    BY <1>1, <1>4 DEF Handed, Apart
  <2>2. Trigger(Network, o, ws, cr, us, q, "idle", lockElse)
    BY <1>3
  <2>3. Callable(Network, o, ws, cr, us, q, "idle", lockElse)
    BY <1>3
  <2>4. PICK i : i = "idle"
    OBVIOUS
  <2>5. /\ Trigger(Network, o, ws, cr, us, q, i, lockElse)
        /\ Callable(Network, o, ws, cr, us, q, i, lockElse)
    BY <2>2, <2>3, <2>4
  <2> QED BY <1>1, <1>4, <2>1, <2>5, TriggerHands
<1>6. /\ Travelling' = Travelling /\ Received' = Received /\ TravellingOnce' /\ ReceivedOnce'
      /\ Coming' = Coming /\ ComingOnce'
  BY <1>1 DEF Handed, Travelling, Received, TravellingOnce, ReceivedOnce, Coming, ComingFrom,
              ComingOnce
<1>7. Apart(Coming, Queued, Leaving, Travelling, Received)'
  BY <1>1, <1>4, <1>5, <1>6 DEF Handed, Apart
<1> QED BY <1>1, <1>4, <1>5, <1>6, <1>7 DEF Handed

\* SPLITTER_WORK: from the channel to the input of an active agent.
LEMMA WorkHands == ASSUME HInv, NEW a \in Agents, RecvWork(a) PROVE Handed'
<1> DEFINE m == Head(toWorker[a])
<1>1. Handed /\ TypeOK /\ m \in WorkMsgs
  BY FromSplitterFacts DEF HInv, SInv, RecvWork
<1>2. m.work \in Works /\ m.split \in Splits
  BY <1>1 DEF WorkMsgs
<1>3. /\ toWorker[a] # <<>> /\ toWorker' = [toWorker EXCEPT ![a] = Tail(@)]
      /\ \/ received' = [received EXCEPT ![m.work] = @ \cup {m.split}]
         \/ received' = received
      /\ UNCHANGED <<queue, outbox, pc, publishing, walk, issued>>
  BY DEF RecvWork, FromSplitter, publishingPeer, splitterVars, publisherVars
<1>4. PICK w \in Works, s \in Splits : w = m.work /\ s = m.split
  BY <1>2
<1>5. /\ TravellingOnce' /\ Travelling' \subseteq Travelling
      /\ w \in Travelling /\ w \notin Travelling'
  <2>1. /\ TravellingOnce' /\ Travelling' \subseteq Travelling
        /\ m.work \in Travelling /\ m.work \notin Travelling'
    <3>1. TravellingOnce
      BY <1>1 DEF Handed
    <3> QED BY <1>1, <1>3, <3>1, ChannelTaken
  <2>2. PICK ts : ts = Travelling'
    OBVIOUS
  <2>3. m.work \notin ts
    BY <2>1, <2>2
  <2> QED BY <1>4, <2>1, <2>2, <2>3
<1>6. /\ Whispering' /\ ComingOnce' /\ QueuedOnce' /\ LeavingOnce'
      /\ Coming' = Coming /\ Queued' = Queued /\ Leaving' = Leaving
  BY <1>1, <1>3 DEF Handed, Whispering, ComingOnce, Coming, ComingFrom, QueuedOnce, Queued,
                    LeavingOnce, Leaving
<1> HIDE DEF m
<1>7. ReceivedOnce' /\ Received' \subseteq Received \cup {w}
  <2>1. CASE received' = received
    BY <1>1, <2>1 DEF Handed, ReceivedOnce, Received
  <2>2. CASE received' = [received EXCEPT ![w] = @ \cup {s}]
    <3>1. w \notin Received
      BY <1>1, <1>5 DEF Handed, Apart
    <3>2. received[w] = {} /\ received'[w] = {s}
          /\ \A x \in Works : x # w => received'[x] = received[x]
      BY <1>1, <2>2, <3>1 DEF TypeOK, Received
    <3>3. ReceivedOnce'
      BY <1>1, <3>2 DEF Handed, ReceivedOnce
    <3> QED BY <3>2, <3>3 DEF Received
  <2> QED BY <1>3, <1>4, <2>1, <2>2
<1>8. Apart(Coming, Queued, Leaving, Travelling, Received)'
  BY <1>1, <1>5, <1>6, <1>7 DEF Handed, Apart
<1> QED BY <1>1, <1>3, <1>5, <1>6, <1>7, <1>8 DEF Handed

\* WORKER_HELLO and WORKER_READY: nothing moves but by the dispatch.
LEMMA HelloReadyHands ==
  ASSUME HInv, SInv', NEW a \in Agents, RecvHello(a) \/ RecvReady(a)
  PROVE  Handed'
<1> DEFINE s == Head(toSplitter[a]).split
<1>1. /\ Handed /\ TypeOK /\ queue' \in [Outputs -> Seq(Works)]
  BY DEF HInv, SInv, TypeOK
<1>2. UNCHANGED <<toWorker, received, issued>>
  BY DEF RecvHello, RecvReady
<1>3. s \in Splits /\ pc[Network] = "idle" /\ OutputOf[s] \in Outputs
  <2>1. s \in Splits /\ pc[Network] = "idle"
    BY <1>1, FromWorkerFacts DEF RecvHello, RecvReady
  <2> QED BY <2>1, SplitAssumption
<1>4. CASE ~active
  <2>1. UNCHANGED <<publishing, walk, pc, outbox, queue>>
    BY <1>4 DEF RecvHello, RecvReady, splitterVars, publisherVars
  <2>2. TravellingOnce' /\ Travelling' \subseteq Travelling
    BY <1>1, <1>2 DEF Handed, TravellingOnce, Travelling
  <2> QED BY <1>1, <1>2, <2>1, <2>2, HandsFrame
<1>5. CASE active
  <2> HIDE DEF s
  <2>1. UNCHANGED <<publishing, walk>>
    BY <1>5 DEF RecvHello, RecvReady
  <2>2. \E ws \in SUBSET Splits, cr \in [Splits -> Nat], us \in [Splits -> Nat] :
          Trigger(Network, OutputOf[s], ws, cr, us, queue, "idle", None)
    <3>1. /\ credit \in [Splits -> Nat] /\ uses \in [Splits -> Nat] /\ workers \subseteq Splits
      BY <1>1 DEF TypeOK
    <3>2. CASE RecvHello(a)
      <4>1. PICK n \in IF s \in workers THEN {uses[s]} ELSE StartUses(OutputOf[s]) :
              Trigger(Network, OutputOf[s], workers \cup {s},
                      [credit EXCEPT ![s] = IF s \in workers THEN @ + Credit ELSE Credit],
                      [uses EXCEPT ![s] = n], queue, "idle", None)
        BY <1>5, <3>2 DEF RecvHello, s
      <4>2. n \in Nat
        BY <1>3, <3>1 DEF StartUses
      <4>3. workers \cup {s} \in SUBSET Splits
        BY <1>3, <3>1
      <4>4. [credit EXCEPT ![s] = IF s \in workers THEN @ + Credit ELSE Credit] \in [Splits -> Nat]
        BY <1>3, <3>1, SplitAssumption
      <4>5. [uses EXCEPT ![s] = n] \in [Splits -> Nat]
        BY <3>1, <4>2
      <4> QED BY <4>1, <4>3, <4>4, <4>5
    <3>3. CASE RecvReady(a)
      <4>1. Trigger(Network, OutputOf[s], workers,
                    [credit EXCEPT ![s] = IF s \in workers THEN @ + ReadyCredit ELSE @],
                    uses, queue, "idle", None)
        BY <1>5, <3>3 DEF RecvReady, s
      <4>2. [credit EXCEPT ![s] = IF s \in workers THEN @ + ReadyCredit ELSE @] \in [Splits -> Nat]
        BY <1>3, <3>1 DEF ReadyCredit
      <4> QED BY <3>1, <4>1, <4>2
    <3> QED BY <3>2, <3>3
  <2>3. PICK ws \in SUBSET Splits, cr \in [Splits -> Nat], us \in [Splits -> Nat] :
          Trigger(Network, OutputOf[s], ws, cr, us, queue, "idle", None)
    BY <2>2
  <2>4. PICK o \in Outputs : o = OutputOf[s]
    BY <1>3
  <2>5. Trigger(Network, o, ws, cr, us, queue, "idle", None)
    BY <2>3, <2>4
  <2>6. Callable(Network, o, ws, cr, us, queue, "idle", None)
    BY <1>1 DEF Callable, TypeOK, Threads
  <2> QED BY <1>2, <1>3, <2>1, <2>5, <2>6, NetworkHands
<1> QED BY <1>4, <1>5

\* split_remove_worker: queues are freed, nothing else moves.
LEMMA RemoveHands ==
  ASSUME HInv, SInv', NEW a \in Agents, RecvGoodbye(a) \/ RecvAgentExit(a)
  PROVE  Handed'
<1>1. Handed /\ TypeOK /\ queue' \in [Outputs -> Seq(Works)]
  BY DEF HInv, SInv, TypeOK
<1>2. UNCHANGED <<publishing, walk, pc, outbox, toWorker, received, issued>>
  BY DEF RecvGoodbye, RecvAgentExit, RemoveWorkers, publisherVars
<1>3. \A o \in Outputs : queue'[o] = queue[o] \/ queue'[o] = <<>>
  <2>1. ASSUME NEW gone, RemoveWorkers(gone)
        PROVE  \A o \in Outputs : queue'[o] = queue[o] \/ queue'[o] = <<>>
    BY <2>1 DEF RemoveWorkers, EmptyQueue
  <2>2. UNCHANGED splitterVars => queue' = queue
    BY DEF splitterVars
  <2> QED BY <2>1, <2>2 DEF RecvGoodbye, RecvAgentExit
<1>4. TravellingOnce' /\ Travelling' \subseteq Travelling
  BY <1>1, <1>2 DEF Handed, TravellingOnce, Travelling
<1> QED BY <1>1, <1>2, <1>3, <1>4, HandsFrame

\* No other step has to do with works.
LEMMA OtherHands ==
  ASSUME HInv,
         \/ Activate \/ Deactivate \/ SendDefinition
         \/ \E a \in Agents : \/ RecvDefinition(a) \/ WorkerUserNext(a)
                              \/ WorkerNetworkNext(a) /\ ~RecvWork(a)
         \/ UNCHANGED vars
  PROVE  Handed'
<1>1. Handed /\ TypeOK /\ TravellingOnce /\ queue \in [Outputs -> Seq(Works)]
  BY DEF HInv, SInv, Handed, TypeOK
<1>2. UNCHANGED <<queue, publishing, walk, pc, outbox, received, issued>>
  <2>1. CASE Activate \/ Deactivate \/ SendDefinition \/ \E a \in Agents : RecvDefinition(a)
    BY <2>1 DEF Activate, Deactivate, SendDefinition, RecvDefinition, splitterVars, publisherVars
  <2>2. ASSUME NEW a \in Agents, WorkerUserNext(a)
        PROVE  UNCHANGED <<publishingPeer, received, issued>>
    BY <2>2 DEF WorkerUserNext, SplitAdd, SplitRemove, WorkerDeactivate, WorkerActivate, WhisperUser
  <2>3. ASSUME NEW a \in Agents, WorkerNetworkNext(a), ~RecvWork(a)
        PROVE  UNCHANGED <<publishingPeer, received, issued>>
    BY <2>3 DEF WorkerNetworkNext, WorkerSendDefinition, WorkerRecvDefinition, GreetNext,
                WhisperNetwork, WorkerRecvAgentExit
  <2>4. UNCHANGED publishingPeer => UNCHANGED <<queue, publishing, walk, pc, outbox>>
    BY DEF publishingPeer, splitterVars, publisherVars
  <2>5. UNCHANGED vars => UNCHANGED <<queue, publishing, walk, pc, outbox, received, issued>>
    BY DEF vars, splitterVars, publisherVars
  <2> QED BY <2>1, <2>2, <2>3, <2>4, <2>5
<1>3. TravellingOnce' /\ Travelling' \subseteq Travelling
  <2>1. CASE toWorker' = toWorker
    BY <1>1, <2>1 DEF TravellingOnce, Travelling
  <2>2. ASSUME NEW m \in AgentMsgs, toWorker' = [a \in Agents |-> Append(toWorker[a], m)]
        PROVE  TravellingOnce' /\ Travelling' \subseteq Travelling
    <3>1. \A a \in Agents : toWorker'[a] = Append(toWorker[a], m)
      BY <2>2
    <3> QED BY <1>1, <3>1, ChannelOther
  <2>3. ASSUME NEW a \in Agents, NEW type, FromSplitter(a, type)
        PROVE  TravellingOnce' /\ Travelling' \subseteq Travelling
    <3>1. toWorker[a] # <<>> /\ toWorker' = [toWorker EXCEPT ![a] = Tail(@)]
      BY <2>3 DEF FromSplitter
    <3> QED BY <1>1, <3>1, ChannelTaken
  <2>4. Definition \in AgentMsgs /\ AgentExit \in AgentMsgs
    BY DEF Definition, AgentExit, Message, AgentMsgs
  <2>5. CASE Activate \/ Deactivate \/ SendDefinition \/ \E a \in Agents : RecvDefinition(a)
    BY <2>1, <2>2, <2>4, <2>5 DEF Activate, Deactivate, SendDefinition, RecvDefinition
  <2>6. ASSUME NEW a \in Agents, WorkerUserNext(a) PROVE toWorker' = toWorker
    BY <2>6 DEF WorkerUserNext, SplitAdd, SplitRemove, WorkerDeactivate, WorkerActivate, WhisperUser
  <2>7. ASSUME NEW a \in Agents, WorkerNetworkNext(a), ~RecvWork(a)
        PROVE  \/ toWorker' = toWorker
               \/ FromSplitter(a, "EXTERNAL_DEFINITION") \/ FromSplitter(a, "REMOTE_AGENT_EXIT")
    BY <2>7 DEF WorkerNetworkNext, WorkerSendDefinition, WorkerRecvDefinition, GreetNext,
                WhisperNetwork, WorkerRecvAgentExit
  <2>8. UNCHANGED vars => toWorker' = toWorker
    BY DEF vars
  <2> QED BY <2>1, <2>3, <2>5, <2>6, <2>7, <2>8
<1> QED BY <1>1, <1>2, <1>3, HandsFrame

\* Every step keeps each work in one place.
LEMMA NextHInv == HInv /\ [Next]_vars => HInv'
<1> SUFFICES ASSUME HInv, [Next]_vars PROVE HInv'
  OBVIOUS
<1>1. SInv'
  BY NextSInv DEF HInv
<1>2. Handed'
  <2>1. ASSUME NEW t \in Publishers, PublisherNext(t) PROVE Handed'
    BY <2>1, PublishHands, WalkHands DEF PublisherNext
  <2>2. ASSUME NEW t \in Threads, WhisperWork(t) PROVE Handed'
    BY <2>2, WhisperHands
  <2>3. CASE Deactivate \/ Activate
    BY <2>3, OtherHands
  <2>4. CASE NetworkNext
    BY <1>1, <2>4, OtherHands, HelloReadyHands, RemoveHands DEF NetworkNext
  <2>5. ASSUME NEW a \in Agents, WorkerUserNext(a) \/ WorkerNetworkNext(a) PROVE Handed'
    BY <2>5, OtherHands, WorkHands
  <2>6. CASE UNCHANGED vars
    BY <2>6, OtherHands
  <2> QED BY <2>1, <2>2, <2>3, <2>4, <2>5, <2>6 DEF Next
<1> QED BY <1>1, <1>2 DEF HInv

\* At first no work is published.
LEMMA InitHInv == Init => HInv
<1> SUFFICES ASSUME Init PROVE HInv
  OBVIOUS
<1>1. SInv
  BY InitSInv
<1>2. /\ queue = [o \in Outputs |-> <<>>] /\ pc = [t \in Threads |-> "idle"]
      /\ walk = [t \in Threads |-> {}] /\ outbox = [t \in Threads |-> None]
      /\ toWorker = [a \in Agents |-> <<>>] /\ received = [w \in Works |-> {}] /\ issued = {}
      /\ Publishers \subseteq Threads
  BY DEF Init, Threads
<1>3. Whispering /\ LeavingOnce /\ Leaving = {}
  BY <1>2 DEF Whispering, LeavingOnce, Leaving
<1>4. ComingOnce /\ Coming = {}
  BY <1>2 DEF ComingOnce, Coming, ComingFrom
<1>5. QueuedOnce /\ Queued = {}
  BY <1>2 DEF QueuedOnce, Queued
<1>6. TravellingOnce /\ Travelling = {}
  BY <1>2 DEF TravellingOnce, Travelling
<1>7. ReceivedOnce /\ Received = {}
  BY <1>2 DEF ReceivedOnce, Received
<1> QED BY <1>1, <1>2, <1>3, <1>4, <1>5, <1>6, <1>7 DEF HInv, Handed, Apart

-----------------------------------------------------------------------------
(***************************************************************************)
(* Credit.                                                                 *)
(***************************************************************************)
\* What the two peers of worker agent a send each other is about its own split
\* elements.
OwnSplits(a) == {s \in Splits : AgentOf[s] = a}
Own(a, msgs) == {m \in msgs : m \in AgentMsgs \/ AgentOf[m.split] = a}
Addressed ==
  \A a \in Agents :
    /\ elements[a] \in Seq(OwnSplits(a))
    /\ toWorker[a] \in Seq(Own(a, WorkMsgs \cup AgentMsgs))
    /\ toSplitter[a] \in Seq(Own(a, ToSplitterMsgs))
    /\ netOut[a] \in Own(a, ToSplitterMsgs) \cup {None}
    /\ userOut[a] \in Own(a, ToSplitterMsgs) \cup {None}

\* Messages of a type about split s: in a channel, in all channels ch, and the
\* one a thread whispers.
About(c, type, s) == {i \in 1..Len(c) : c[i].type = type /\ c[i].split = s}
Sent(ch, type, s) == Cardinality(About(ch[AgentOf[s]], type, s))
OneIf(b) == IF b THEN 1 ELSE 0
Says(m, type, s) == m # None /\ m.type = type /\ m.split = s
Holding(ob, s) == {t \in Threads : ob[t] # None /\ ob[t].split = s}
Held(ob, s) == Cardinality(Holding(ob, s))

Total(s) == credit[s] + Spent(s)

\* WORKER_HELLOs about s sent and not handled, and its worker.
Hellos(s) ==
  OneIf(Says(netOut[AgentOf[s]], "WORKER_HELLO", s)) + Sent(toSplitter, "WORKER_HELLO", s)
  + OneIf(s \in workers)

\* As long as users do nothing else than publish, nobody comes, goes or is
\* edited, ...
Still ==
  /\ active /\ remotes = Agents /\ elements = InitialSplits
  /\ \A a \in Agents :
       /\ userOut[a] = None /\ ~wannounce[a]
       /\ greeting[a] => knows[a]
       /\ toWorker[a] \in Seq(WorkMsgs \cup {Definition})
       /\ toSplitter[a] \in Seq(HelloMsgs \cup ReadyMsgs)

\* ... each split element is greeted once, in the order of the list, ...
Passed(s) ==
  \E i \in 1..Len(elements[AgentOf[s]]) : i <= cursor[AgentOf[s]] /\ elements[AgentOf[s]][i] = s
Greeted ==
  \A s \in Splits :
    /\ Hellos(s) <= 1
    /\ Hellos(s) = 1 => knows[AgentOf[s]] /\ (greeting[AgentOf[s]] => Passed(s))

\* ... and nothing is under way to or from a split element without worker.
Unused == \A s \in Splits : s \notin workers => Spent(s) = 0

Undisturbed == churn = 0 => Still /\ Greeted /\ Unused

CInv == HInv /\ Addressed /\ Undisturbed /\ CreditConserved /\ CreditNotForged

\* Counting messages in a channel.
LEMMA AboutFinite ==
  ASSUME NEW S, NEW c \in Seq(S), NEW type, NEW s
  PROVE  IsFiniteSet(About(c, type, s)) /\ Cardinality(About(c, type, s)) \in Nat
<1>1. IsFiniteSet(1..Len(c))
  BY FS_Interval
<1>2. About(c, type, s) \in SUBSET (1..Len(c))
  BY DEF About
<1>3. IsFiniteSet(About(c, type, s))
  BY <1>1, <1>2, FS_Subset
<1> QED BY <1>3, FS_CardinalityType

\* A message added to a channel counts when it is about s.
LEMMA AboutAppend ==
  ASSUME NEW S, NEW c \in Seq(S), NEW m \in S, NEW type, NEW s
  PROVE  Cardinality(About(Append(c, m), type, s))
           = Cardinality(About(c, type, s)) + OneIf(m.type = type /\ m.split = s)
<1> DEFINE A == About(c, type, s)  d == Append(c, m)  n == Len(c) + 1
<1>1. /\ Len(d) = n /\ Len(c) \in Nat /\ d[n] = m
      /\ \A i \in 1..Len(c) : d[i] = c[i]
  BY AppendItems
<1>2. IsFiniteSet(A) /\ Cardinality(A) \in Nat
  BY AboutFinite
<1>3. n \notin A
  BY <1>1 DEF About
<1>4. \A i : i \in 1..Len(d) <=> i \in 1..Len(c) \/ i = n
  BY <1>1
<1> HIDE DEF d, n
<1>5. CASE m.type = type /\ m.split = s
  <2>1. About(d, type, s) \subseteq A \cup {n}
    BY <1>1, <1>4 DEF About
  <2>2. A \cup {n} \subseteq About(d, type, s)
    BY <1>1, <1>4, <1>5 DEF About
  <2>3. About(d, type, s) = A \cup {n}
    BY <2>1, <2>2
  <2> HIDE DEF A
  <2>4. Cardinality(A \cup {n}) = Cardinality(A) + 1
    BY <1>2, <1>3, FS_AddElement
  <2> QED BY <1>5, <2>3, <2>4 DEF OneIf, d, A
<1>6. CASE ~(m.type = type /\ m.split = s)
  <2>1. About(d, type, s) = A
    BY <1>1, <1>4, <1>6 DEF About
  <2> QED BY <1>2, <1>6, <2>1 DEF OneIf, d
<1> QED BY <1>5, <1>6

\* One place further: as many messages.
LEMMA AboutShift ==
  ASSUME NEW S, NEW c \in Seq(S), c # <<>>, NEW type, NEW s
  PROVE  Cardinality(About(Tail(c), type, s)) = Cardinality(About(c, type, s) \ {1})
<1> DEFINE T == About(Tail(c), type, s)  B == About(c, type, s) \ {1}
           f == [i \in T |-> i + 1]
<1>1. /\ Len(c) = Len(Tail(c)) + 1 /\ Len(Tail(c)) \in Nat /\ Tail(c) \in Seq(S)
      /\ \A i \in 1..Len(Tail(c)) : i + 1 \in 1..Len(c) /\ i + 1 # 1 /\ Tail(c)[i] = c[i + 1]
  BY TailItems
<1>2. \A i \in T : i \in Nat /\ i + 1 \in B
  BY <1>1 DEF About
<1>3. \A j \in B : j - 1 \in T /\ (j - 1) + 1 = j
  <2> SUFFICES ASSUME NEW j \in B PROVE j - 1 \in T /\ (j - 1) + 1 = j
    OBVIOUS
  <2>1. j \in 1..Len(c) /\ j # 1 /\ c[j].type = type /\ c[j].split = s
    BY DEF About
  <2>2. j - 1 \in 1..Len(Tail(c)) /\ (j - 1) + 1 = j
    BY <1>1, <2>1
  <2>3. Tail(c)[j - 1] = c[j]
    BY <1>1, <2>2
  <2> QED BY <2>1, <2>2, <2>3 DEF About
<1>4. IsFiniteSet(T)
  BY <1>1, AboutFinite
<1> HIDE DEF T, B
<1>5. f \in [T -> B]
  BY <1>2
<1>6. \A i, j \in T : f[i] = f[j] => i = j
  BY <1>2
<1>7. \A j \in B : \E i \in T : f[i] = j
  BY <1>3
<1> HIDE DEF f
<1>8. f \in Bijection(T, B)
  BY <1>5, <1>6, <1>7 DEF Bijection, Injection, Surjection, IsInjective
<1>9. ExistsBijection(T, B)
  BY <1>8 DEF ExistsBijection
<1> QED BY <1>4, <1>9, FS_Bijection DEF T, B

\* A message taken from a channel counts when it is about s.
LEMMA AboutTail ==
  ASSUME NEW S, NEW c \in Seq(S), c # <<>>, NEW type, NEW s
  PROVE  Cardinality(About(c, type, s))
           = Cardinality(About(Tail(c), type, s)) + OneIf(Head(c).type = type /\ Head(c).split = s)
<1> DEFINE A == About(c, type, s)
<1>1. Head(c) = c[1] /\ 1 \in 1..Len(c)
  BY TailItems
<1>2. 1 \in A <=> Head(c).type = type /\ Head(c).split = s
  BY <1>1 DEF About
<1>3. IsFiniteSet(A) /\ Cardinality(A) \in Nat
  BY AboutFinite
<1>4. Cardinality(A \ {1}) = IF 1 \in A THEN Cardinality(A) - 1 ELSE Cardinality(A)
  <2> HIDE DEF A
  <2> QED BY <1>3, FS_RemoveElement
<1>5. Cardinality(About(Tail(c), type, s)) = Cardinality(A \ {1})
  BY AboutShift
<1> HIDE DEF A
<1> QED BY <1>2, <1>3, <1>4, <1>5 DEF OneIf, A

\* The same for the channels of all agents.
LEMMA SentType ==
  ASSUME NEW S, NEW ch \in [Agents -> Seq(S)], NEW type, NEW s \in Splits
  PROVE  Sent(ch, type, s) \in Nat
<1>1. ch[AgentOf[s]] \in Seq(S)
  BY SplitAssumption
<1> QED BY <1>1, AboutFinite DEF Sent

\* The messages the threads of the publishing peer whisper.
LEMMA HeldType ==
  ASSUME NEW ob, NEW s
  PROVE  IsFiniteSet(Holding(ob, s)) /\ Held(ob, s) \in Nat
<1>1. IsFiniteSet(Threads)
  BY SplitAssumption, FS_AddElement DEF Threads
<1>2. Holding(ob, s) \in SUBSET Threads
  BY DEF Holding
<1>3. IsFiniteSet(Holding(ob, s))
  BY <1>1, <1>2, FS_Subset
<1> QED BY <1>3, FS_CardinalityType DEF Held

\* A thread takes a work to whisper.
LEMMA HeldPut ==
  ASSUME NEW t \in Threads, outbox[t] = None, NEW m \in WorkMsgs, NEW s,
         \A u \in Threads : outbox'[u] = IF u = t THEN m ELSE outbox[u]
  PROVE  Held(outbox', s) = Held(outbox, s) + OneIf(m.split = s)
<1>1. m # None
  BY NoneIsNoMessage
<1>2. IsFiniteSet(Holding(outbox, s)) /\ Held(outbox, s) \in Nat /\ t \notin Holding(outbox, s)
  BY HeldType DEF Holding
<1>3. CASE m.split = s
  <2>1. Holding(outbox', s) = Holding(outbox, s) \cup {t}
    <3>1. Holding(outbox', s) \subseteq Holding(outbox, s) \cup {t}
      BY DEF Holding
    <3>2. Holding(outbox, s) \cup {t} \subseteq Holding(outbox', s)
      BY <1>1, <1>3 DEF Holding
    <3> QED BY <3>1, <3>2
  <2>2. Cardinality(Holding(outbox, s) \cup {t}) = Cardinality(Holding(outbox, s)) + 1
    BY <1>2, FS_AddElement
  <2> QED BY <1>3, <2>1, <2>2 DEF Held, OneIf
<1>4. CASE m.split # s
  <2>1. Holding(outbox', s) = Holding(outbox, s)
    BY <1>4 DEF Holding
  <2> QED BY <1>2, <1>4, <2>1 DEF Held, OneIf
<1> QED BY <1>3, <1>4

\* A thread has whispered its work.
LEMMA HeldTaken ==
  ASSUME NEW t \in Threads, outbox[t] # None, NEW s,
         \A u \in Threads : outbox'[u] = IF u = t THEN None ELSE outbox[u]
  PROVE  Held(outbox, s) = Held(outbox', s) + OneIf(outbox[t].split = s)
<1>1. Holding(outbox', s) = Holding(outbox, s) \ {t}
  BY DEF Holding
<1>2. IsFiniteSet(Holding(outbox, s)) /\ Held(outbox, s) \in Nat
  BY HeldType
<1>3. t \in Holding(outbox, s) <=> outbox[t].split = s
  BY DEF Holding
<1>4. Cardinality(Holding(outbox, s) \ {t})
        = IF t \in Holding(outbox, s) THEN Held(outbox, s) - 1 ELSE Held(outbox, s)
  BY <1>2, FS_RemoveElement DEF Held
<1>5. Held(outbox', s) = Cardinality(Holding(outbox, s) \ {t})
  BY <1>1 DEF Held
<1> QED BY <1>2, <1>3, <1>4, <1>5 DEF OneIf

\* What is spent, piece by piece.
LEMMA SpentIs ==
  ASSUME NEW s \in Splits
  PROVE  /\ Spent(s) = Held(outbox, s) + Sent(toWorker, "SPLITTER_WORK", s)
                       + OneIf(Says(netOut[AgentOf[s]], "WORKER_READY", s))
                       + Sent(toSplitter, "WORKER_READY", s)
         /\ Spent(s)' = Held(outbox', s) + Sent(toWorker', "SPLITTER_WORK", s)
                        + OneIf(Says(netOut'[AgentOf[s]], "WORKER_READY", s))
                        + Sent(toSplitter', "WORKER_READY", s)
BY DEF Spent, Held, Holding, Sent, About, OneIf, Says, IsWork

\* All these counts are numbers.
LEMMA Counts ==
  ASSUME TypeOK, NEW s \in Splits
  PROVE  /\ Held(outbox, s) \in Nat /\ credit[s] \in Nat
         /\ \A type : Sent(toWorker, type, s) \in Nat /\ Sent(toSplitter, type, s) \in Nat
<1>1. \A type : Sent(toWorker, type, s) \in Nat
  BY SentType DEF TypeOK
<1>2. \A type : Sent(toSplitter, type, s) \in Nat
  BY SentType DEF TypeOK
<1> QED BY <1>1, <1>2, HeldType DEF TypeOK

-----------------------------------------------------------------------------
(***************************************************************************)
(* What is sent between two peers is about the same worker agent.          *)
(***************************************************************************)
\* A step that takes or adds messages of these kinds keeps them addressed.
LEMMA ChannelsAddressed ==
  ASSUME Addressed, TypeOK,
         \/ toWorker' = toWorker
         \/ \E a \in Agents : toWorker[a] # <<>> /\ toWorker' = [toWorker EXCEPT ![a] = Tail(@)]
         \/ \E a \in Agents, m \in WorkMsgs \cup AgentMsgs :
              /\ m \in Own(a, WorkMsgs \cup AgentMsgs)
              /\ toWorker' = [toWorker EXCEPT ![a] = Append(@, m)]
         \/ \E m \in AgentMsgs : toWorker' = [a \in Agents |-> Append(toWorker[a], m)],
         \/ toSplitter' = toSplitter
         \/ \E a \in Agents :
              toSplitter[a] # <<>> /\ toSplitter' = [toSplitter EXCEPT ![a] = Tail(@)]
         \/ \E a \in Agents, m \in ToSplitterMsgs :
              /\ m \in Own(a, ToSplitterMsgs)
              /\ toSplitter' = [toSplitter EXCEPT ![a] = Append(@, m)]
  PROVE  \A a \in Agents : /\ toWorker'[a] \in Seq(Own(a, WorkMsgs \cup AgentMsgs))
                           /\ toSplitter'[a] \in Seq(Own(a, ToSplitterMsgs))
<1> SUFFICES ASSUME NEW b \in Agents
             PROVE  /\ toWorker'[b] \in Seq(Own(b, WorkMsgs \cup AgentMsgs))
                    /\ toSplitter'[b] \in Seq(Own(b, ToSplitterMsgs))
  OBVIOUS
<1>1. /\ toWorker[b] \in Seq(Own(b, WorkMsgs \cup AgentMsgs))
      /\ toSplitter[b] \in Seq(Own(b, ToSplitterMsgs))
  BY DEF Addressed
<1>2. toWorker'[b] \in Seq(Own(b, WorkMsgs \cup AgentMsgs))
  <2>1. ASSUME NEW a \in Agents, toWorker[a] # <<>>, toWorker' = [toWorker EXCEPT ![a] = Tail(@)]
        PROVE  toWorker'[b] \in Seq(Own(b, WorkMsgs \cup AgentMsgs))
    <3>1. toWorker'[b] = IF a = b THEN Tail(toWorker[b]) ELSE toWorker[b]
      BY <2>1 DEF TypeOK
    <3> QED BY <1>1, <2>1, <3>1, HeadTail
  <2>2. ASSUME NEW a \in Agents, NEW m \in Own(a, WorkMsgs \cup AgentMsgs),
               toWorker' = [toWorker EXCEPT ![a] = Append(@, m)]
        PROVE  toWorker'[b] \in Seq(Own(b, WorkMsgs \cup AgentMsgs))
    <3>1. toWorker'[b] = IF a = b THEN Append(toWorker[b], m) ELSE toWorker[b]
      BY <2>2 DEF TypeOK
    <3> QED BY <1>1, <2>2, <3>1, AppendItems
  <2>3. ASSUME NEW m \in AgentMsgs, toWorker' = [a \in Agents |-> Append(toWorker[a], m)]
        PROVE  toWorker'[b] \in Seq(Own(b, WorkMsgs \cup AgentMsgs))
    <3>1. m \in Own(b, WorkMsgs \cup AgentMsgs)
      BY DEF Own
    <3>2. toWorker'[b] = Append(toWorker[b], m)
      BY <2>3
    <3> QED BY <1>1, <3>1, <3>2, AppendItems
  <2> QED BY <1>1, <2>1, <2>2, <2>3
<1>3. toSplitter'[b] \in Seq(Own(b, ToSplitterMsgs))
  <2>1. ASSUME NEW a \in Agents, toSplitter[a] # <<>>,
               toSplitter' = [toSplitter EXCEPT ![a] = Tail(@)]
        PROVE  toSplitter'[b] \in Seq(Own(b, ToSplitterMsgs))
    <3>1. toSplitter'[b] = IF a = b THEN Tail(toSplitter[b]) ELSE toSplitter[b]
      BY <2>1 DEF TypeOK
    <3> QED BY <1>1, <2>1, <3>1, HeadTail
  <2>2. ASSUME NEW a \in Agents, NEW m \in Own(a, ToSplitterMsgs),
               toSplitter' = [toSplitter EXCEPT ![a] = Append(@, m)]
        PROVE  toSplitter'[b] \in Seq(Own(b, ToSplitterMsgs))
    <3>1. toSplitter'[b] = IF a = b THEN Append(toSplitter[b], m) ELSE toSplitter[b]
      BY <2>2 DEF TypeOK
    <3> QED BY <1>1, <2>2, <3>1, AppendItems
  <2> QED BY <1>1, <2>1, <2>2
<1> QED BY <1>2, <1>3

\* Messages wait in their place, and the elements stay.
LEMMA AddressedFrame ==
  ASSUME Addressed,
         \A a \in Agents : /\ toWorker'[a] \in Seq(Own(a, WorkMsgs \cup AgentMsgs))
                           /\ toSplitter'[a] \in Seq(Own(a, ToSplitterMsgs)),
         \A a \in Agents :
           /\ elements'[a] = elements[a] \/ elements'[a] \in Seq(OwnSplits(a))
           /\ netOut'[a] = netOut[a] \/ netOut'[a] \in Own(a, ToSplitterMsgs) \cup {None}
           /\ userOut'[a] = userOut[a] \/ userOut'[a] \in Own(a, ToSplitterMsgs) \cup {None}
  PROVE  Addressed'
BY DEF Addressed

\* The publishing peer sends a work to the peer of its split element.
LEMMA PublisherAddressed ==
  ASSUME HInv, Addressed,
         \/ \E t \in Publishers : PublisherNext(t)
         \/ \E t \in Threads : WhisperWork(t)
         \/ Deactivate \/ Activate \/ NetworkNext \/ UNCHANGED vars
  PROVE  Addressed'
<1>1. TypeOK
  BY DEF HInv, SInv
<1>2. UNCHANGED <<elements, netOut, userOut>>
  <2>1. UNCHANGED workerVars
    <3>1. CASE NetworkNext
      BY <3>1 DEF NetworkNext, SendDefinition, RecvHello, RecvReady, RecvGoodbye, RecvAgentExit,
                  RecvDefinition
    <3>2. CASE \E t \in Publishers : PublisherNext(t)
      BY <3>2 DEF PublisherNext, Publish, WalkStep
    <3>3. CASE (\E t \in Threads : WhisperWork(t)) \/ Deactivate \/ Activate \/ UNCHANGED vars
      BY <3>3 DEF WhisperWork, Deactivate, Activate, vars
    <3> QED BY <3>1, <3>2, <3>3
  <2> QED BY <2>1 DEF workerVars
<1>3. \/ toWorker' = toWorker
      \/ \E a \in Agents, m \in WorkMsgs \cup AgentMsgs :
           /\ m \in Own(a, WorkMsgs \cup AgentMsgs)
           /\ toWorker' = [toWorker EXCEPT ![a] = Append(@, m)]
      \/ \E m \in AgentMsgs : toWorker' = [a \in Agents |-> Append(toWorker[a], m)]
  <2>1. ASSUME NEW t \in Threads, WhisperWork(t)
        PROVE  \/ toWorker' = toWorker
               \/ \E a \in Agents, m \in WorkMsgs \cup AgentMsgs :
                    /\ m \in Own(a, WorkMsgs \cup AgentMsgs)
                    /\ toWorker' = [toWorker EXCEPT ![a] = Append(@, m)]
    <3>1. outbox[t] \in WorkMsgs
      BY <2>1 DEF HInv, SInv, WhisperWork, Walking
    <3>2. AgentOf[outbox[t].split] \in Agents
      BY <3>1, SplitAssumption DEF WorkMsgs
    <3>3. outbox[t] \in Own(AgentOf[outbox[t].split], WorkMsgs \cup AgentMsgs)
      BY <3>1 DEF Own
    <3> QED BY <2>1, <3>1, <3>2, <3>3 DEF WhisperWork
  <2>2. CASE Deactivate
    BY <1>1, <2>2, MessageTypes DEF Deactivate, AgentExit, Message, AgentMsgs
  <2>3. CASE NetworkNext
    <3>1. CASE SendDefinition
      BY <3>1 DEF SendDefinition, Definition, Message, AgentMsgs
    <3>2. CASE ~SendDefinition
      BY <2>3, <3>2 DEF NetworkNext, RecvHello, RecvReady, RecvGoodbye, RecvAgentExit,
                        RecvDefinition
    <3> QED BY <3>1, <3>2
  <2>4. CASE (\E t \in Publishers : PublisherNext(t)) \/ Activate \/ UNCHANGED vars
    BY <2>4 DEF PublisherNext, Publish, WalkStep, Activate, vars
  <2> QED BY <2>1, <2>2, <2>3, <2>4
<1>4. \/ toSplitter' = toSplitter
      \/ \E a \in Agents :
           toSplitter[a] # <<>> /\ toSplitter' = [toSplitter EXCEPT ![a] = Tail(@)]
  <2>1. CASE NetworkNext
    <3>1. CASE SendDefinition
      BY <3>1 DEF SendDefinition
    <3>2. CASE ~SendDefinition
      BY <2>1, <3>2 DEF NetworkNext, RecvHello, RecvReady, RecvGoodbye, RecvAgentExit,
                        RecvDefinition, FromWorker
    <3> QED BY <3>1, <3>2
  <2>2. CASE \E t \in Publishers : PublisherNext(t)
    BY <2>2 DEF PublisherNext, Publish, WalkStep
  <2>3. CASE (\E t \in Threads : WhisperWork(t)) \/ Deactivate \/ Activate \/ UNCHANGED vars
    BY <2>3 DEF WhisperWork, Deactivate, Activate, vars
  <2> QED BY <2>1, <2>2, <2>3
<1>5. \A a \in Agents : /\ toWorker'[a] \in Seq(Own(a, WorkMsgs \cup AgentMsgs))
                        /\ toSplitter'[a] \in Seq(Own(a, ToSplitterMsgs))
  BY <1>1, <1>3, <1>4, ChannelsAddressed
<1> QED BY <1>2, <1>5, AddressedFrame

\* igs_channel_whisper_zmsg at a worker.
LEMMA SendAddressed ==
  ASSUME HInv, Addressed, NEW a \in Agents, NEW m \in Own(a, ToSplitterMsgs), UNCHANGED toWorker,
         SendToSplitter(a, m) \/ toSplitter' = [toSplitter EXCEPT ![a] = Append(@, m)]
  PROVE  \A b \in Agents : /\ toWorker'[b] \in Seq(Own(b, WorkMsgs \cup AgentMsgs))
                           /\ toSplitter'[b] \in Seq(Own(b, ToSplitterMsgs))
<1>1. TypeOK /\ m \in ToSplitterMsgs
  BY DEF HInv, SInv, Own
<1>2. toSplitter' = toSplitter \/ toSplitter' = [toSplitter EXCEPT ![a] = Append(@, m)]
  BY DEF SendToSplitter
<1>3. \/ toSplitter' = toSplitter
      \/ \E b \in Agents, n \in ToSplitterMsgs :
           /\ n \in Own(b, ToSplitterMsgs)
           /\ toSplitter' = [toSplitter EXCEPT ![b] = Append(@, n)]
  BY <1>1, <1>2
<1> QED BY <1>1, <1>3, ChannelsAddressed

\* The user of a worker only speaks of its own split elements.
LEMMA WorkerUserAddressed ==
  ASSUME HInv, Addressed, NEW a \in Agents, WorkerUserNext(a)
  PROVE  Addressed'
<1>1. TypeOK
  BY DEF HInv, SInv
<1>2. UNCHANGED <<toWorker, netOut>>
  BY DEF WorkerUserNext, SplitAdd, SplitRemove, WorkerDeactivate, WorkerActivate, WhisperUser
<1>3. ASSUME toSplitter' = toSplitter
      PROVE  \A b \in Agents : /\ toWorker'[b] \in Seq(Own(b, WorkMsgs \cup AgentMsgs))
                               /\ toSplitter'[b] \in Seq(Own(b, ToSplitterMsgs))
  BY <1>2, <1>3 DEF Addressed
<1>4. ASSUME NEW s \in Splits, SplitAdd(a, s) PROVE Addressed'
  <2>1. toSplitter' = toSplitter /\ s \in OwnSplits(a)
    BY <1>4 DEF SplitAdd, OwnSplits
  <2>2. CASE UNCHANGED <<elements, userOut>>
    BY <1>2, <1>3, <2>1, <2>2, AddressedFrame
  <2>3. CASE /\ elements' = [elements EXCEPT ![a] = Append(@, s)]
             /\ userOut' = [userOut EXCEPT ![a] = IF knows[a] THEN Hello(s) ELSE None]
    <3>1. Append(elements[a], s) \in Seq(OwnSplits(a))
      <4>1. elements[a] \in Seq(OwnSplits(a))
        BY DEF Addressed
      <4> QED BY <2>1, <4>1, AppendItems
    <3>2. Hello(s) \in Own(a, ToSplitterMsgs)
      <4>1. s \in Splits /\ AgentOf[s] = a /\ Hello(s).split = s
        BY <2>1 DEF OwnSplits, Hello, Message
      <4>2. Hello(s) \in HelloMsgs
        BY DEF Hello, Message, HelloMsgs
      <4> QED BY <4>1, <4>2 DEF Own, ToSplitterMsgs
    <3>3. \A b \in Agents :
            /\ elements'[b] = elements[b] \/ elements'[b] \in Seq(OwnSplits(b))
            /\ userOut'[b] = userOut[b] \/ userOut'[b] \in Own(b, ToSplitterMsgs) \cup {None}
      BY <1>1, <2>3, <3>1, <3>2 DEF TypeOK
    <3> QED BY <1>2, <1>3, <2>1, <3>3, AddressedFrame
  <2> QED BY <1>4, <2>2, <2>3 DEF SplitAdd
<1>5. ASSUME NEW s \in Splits, SplitRemove(a, s) PROVE Addressed'
  <2>1. PICK i \in 1..Len(elements[a]) :
          /\ elements[a][i] = s
          /\ elements' = [elements EXCEPT ![a] =
                            SubSeq(@, 1, i - 1) \o SubSeq(@, i + 1, Len(@))]
    BY <1>5 DEF SplitRemove
  <2>2. toSplitter' = toSplitter /\ userOut' = [userOut EXCEPT ![a] = Goodbye(s)]
    BY <1>5 DEF SplitRemove
  <2>3. elements[a] \in Seq(OwnSplits(a))
    BY DEF Addressed
  <2>4. SubSeq(elements[a], 1, i - 1) \o SubSeq(elements[a], i + 1, Len(elements[a]))
          \in Seq(OwnSplits(a))
    BY <2>3, RemoveAt
  <2>5. s \in OwnSplits(a)
    BY <2>1, <2>3
  <2>6. Goodbye(s) \in Own(a, ToSplitterMsgs)
    <3>1. s \in Splits /\ AgentOf[s] = a /\ Goodbye(s).split = s
      BY <2>5 DEF OwnSplits, Goodbye, Message
    <3>2. Goodbye(s) \in GoodbyeMsgs
      BY DEF Goodbye, Message, GoodbyeMsgs
    <3> QED BY <3>1, <3>2 DEF Own, ToSplitterMsgs
  <2>7. \A b \in Agents :
          /\ elements'[b] = elements[b] \/ elements'[b] \in Seq(OwnSplits(b))
          /\ userOut'[b] = userOut[b] \/ userOut'[b] \in Own(b, ToSplitterMsgs) \cup {None}
    BY <1>1, <2>1, <2>2, <2>4, <2>6 DEF TypeOK
  <2> QED BY <1>2, <1>3, <2>2, <2>7, AddressedFrame
<1>6. CASE WorkerDeactivate(a)
  <2>1. /\ toSplitter' = [toSplitter EXCEPT ![a] = Append(@, AgentExit)]
        /\ UNCHANGED <<elements, userOut>>
    BY <1>6 DEF WorkerDeactivate
  <2>2. AgentExit \in Own(a, ToSplitterMsgs)
    BY <1>1, ChannelTypes DEF Own, ToSplitterMsgs
  <2> QED BY <1>2, <2>1, <2>2, SendAddressed, AddressedFrame
<1>7. CASE WorkerActivate(a)
  BY <1>2, <1>3, <1>7, AddressedFrame DEF WorkerActivate
<1>8. CASE WhisperUser(a)
  <2>1. /\ userOut[a] \in Own(a, ToSplitterMsgs)
        /\ SendToSplitter(a, userOut[a])
        /\ userOut' = [userOut EXCEPT ![a] = None] /\ UNCHANGED elements
    BY <1>8 DEF WhisperUser, Addressed
  <2>2. \A b \in Agents : userOut'[b] = userOut[b] \/ userOut'[b] = None
    BY <1>1, <2>1 DEF TypeOK
  <2>3. \A b \in Agents : /\ toWorker'[b] \in Seq(Own(b, WorkMsgs \cup AgentMsgs))
                          /\ toSplitter'[b] \in Seq(Own(b, ToSplitterMsgs))
    BY <1>2, <2>1, SendAddressed
  <2> QED BY <1>2, <2>1, <2>2, <2>3, AddressedFrame
<1> QED BY <1>4, <1>5, <1>6, <1>7, <1>8 DEF WorkerUserNext

\* The network thread of a worker only speaks of its own split elements.
LEMMA WorkerNetworkAddressed ==
  ASSUME HInv, Addressed, NEW a \in Agents, WorkerNetworkNext(a)
  PROVE  Addressed'
<1>1. TypeOK
  BY DEF HInv, SInv
<1>2. UNCHANGED <<elements, userOut>>
  BY DEF WorkerNetworkNext, WorkerSendDefinition, RecvWork, WorkerRecvDefinition, GreetNext,
         WhisperNetwork, WorkerRecvAgentExit
<1>3. ASSUME NEW type, FromSplitter(a, type), toSplitter' = toSplitter
      PROVE  \A b \in Agents : /\ toWorker'[b] \in Seq(Own(b, WorkMsgs \cup AgentMsgs))
                               /\ toSplitter'[b] \in Seq(Own(b, ToSplitterMsgs))
  <2>1. \E b \in Agents : toWorker[b] # <<>> /\ toWorker' = [toWorker EXCEPT ![b] = Tail(@)]
    BY <1>3 DEF FromSplitter
  <2> QED BY <1>1, <1>3, <2>1, ChannelsAddressed
<1>4. CASE WorkerSendDefinition(a)
  <2>1. /\ toSplitter' = [toSplitter EXCEPT ![a] = Append(@, Definition)]
        /\ UNCHANGED <<netOut, toWorker>>
    BY <1>4 DEF WorkerSendDefinition
  <2>2. Definition \in Own(a, ToSplitterMsgs)
    BY <1>1, ChannelTypes DEF Own, ToSplitterMsgs
  <2>3. \A b \in Agents : /\ toWorker'[b] \in Seq(Own(b, WorkMsgs \cup AgentMsgs))
                          /\ toSplitter'[b] \in Seq(Own(b, ToSplitterMsgs))
    BY <2>1, <2>2, SendAddressed
  <2> QED BY <1>2, <2>1, <2>3, AddressedFrame
<1>5. CASE RecvWork(a)
  <2> DEFINE m == Head(toWorker[a])
  <2>1. /\ FromSplitter(a, "SPLITTER_WORK") /\ toSplitter' = toSplitter
        /\ netOut' = [netOut EXCEPT ![a] = Ready(m.split, m.work)]
    BY <1>5 DEF RecvWork
  <2>2. m \in WorkMsgs /\ toWorker[a] # <<>>
    BY <1>1, <2>1, FromSplitterFacts DEF FromSplitter
  <2>3. m \in Own(a, WorkMsgs \cup AgentMsgs)
    <3>1. toWorker[a] \in Seq(Own(a, WorkMsgs \cup AgentMsgs))
      BY DEF Addressed
    <3> QED BY <2>2, <3>1, HeadTail
  <2>4. m.split \in Splits /\ m.work \in Works /\ AgentOf[m.split] = a
    BY <2>2, <2>3 DEF WorkMsgs, Own, AgentMsgs
  <2>5. Ready(m.split, m.work) \in Own(a, ToSplitterMsgs)
    <3>1. Ready(m.split, m.work).split = m.split /\ Ready(m.split, m.work) \in ReadyMsgs
      BY <2>4 DEF Ready, Message, ReadyMsgs
    <3> QED BY <2>4, <3>1 DEF Own, ToSplitterMsgs
  <2> HIDE DEF m
  <2>6. \A b \in Agents : netOut'[b] = netOut[b] \/ netOut'[b] \in Own(b, ToSplitterMsgs)
    BY <1>1, <2>1, <2>5 DEF TypeOK
  <2> QED BY <1>2, <1>3, <2>1, <2>6, AddressedFrame
<1>6. CASE WorkerRecvDefinition(a) \/ WorkerRecvAgentExit(a)
  <2>1. /\ FromSplitter(a, "EXTERNAL_DEFINITION") \/ FromSplitter(a, "REMOTE_AGENT_EXIT")
        /\ UNCHANGED <<netOut, toSplitter>>
    BY <1>6 DEF WorkerRecvDefinition, WorkerRecvAgentExit
  <2> QED BY <1>2, <1>3, <2>1, AddressedFrame
<1>7. CASE GreetNext(a)
  <2>1. UNCHANGED <<toWorker, toSplitter>>
    BY <1>7 DEF GreetNext
  <2>2. \/ UNCHANGED netOut
        \/ /\ cursor[a] < Len(elements[a])
           /\ netOut' = [netOut EXCEPT ![a] = Hello(elements[a][cursor[a] + 1])]
    BY <1>7 DEF GreetNext
  <2>3. ASSUME cursor[a] < Len(elements[a])
        PROVE  Hello(elements[a][cursor[a] + 1]) \in Own(a, ToSplitterMsgs)
    <3> DEFINE s == elements[a][cursor[a] + 1]
    <3>1. elements[a] \in Seq(OwnSplits(a)) /\ cursor[a] + 1 \in 1..Len(elements[a])
      BY <1>1, <2>3 DEF Addressed, TypeOK
    <3>2. s \in OwnSplits(a)
      BY <3>1
    <3>3. s \in Splits /\ AgentOf[s] = a /\ Hello(s).split = s
      BY <3>2 DEF OwnSplits, Hello, Message
    <3>4. Hello(s) \in HelloMsgs
      BY <3>3 DEF Hello, Message, HelloMsgs
    <3> QED BY <3>3, <3>4 DEF Own, ToSplitterMsgs
  <2>4. \A b \in Agents : netOut'[b] = netOut[b] \/ netOut'[b] \in Own(b, ToSplitterMsgs)
    BY <1>1, <2>2, <2>3 DEF TypeOK
  <2>5. \A b \in Agents : /\ toWorker'[b] \in Seq(Own(b, WorkMsgs \cup AgentMsgs))
                          /\ toSplitter'[b] \in Seq(Own(b, ToSplitterMsgs))
    BY <2>1 DEF Addressed
  <2> QED BY <1>2, <2>4, <2>5, AddressedFrame
<1>8. CASE WhisperNetwork(a)
  <2>1. /\ netOut[a] \in Own(a, ToSplitterMsgs)
        /\ SendToSplitter(a, netOut[a])
        /\ netOut' = [netOut EXCEPT ![a] = None] /\ UNCHANGED toWorker
    BY <1>8 DEF WhisperNetwork, Addressed
  <2>2. \A b \in Agents : netOut'[b] = netOut[b] \/ netOut'[b] = None
    BY <1>1, <2>1 DEF TypeOK
  <2>3. \A b \in Agents : /\ toWorker'[b] \in Seq(Own(b, WorkMsgs \cup AgentMsgs))
                          /\ toSplitter'[b] \in Seq(Own(b, ToSplitterMsgs))
    BY <2>1, SendAddressed
  <2> QED BY <1>2, <2>2, <2>3, AddressedFrame
<1> QED BY <1>4, <1>5, <1>6, <1>7, <1>8 DEF WorkerNetworkNext

\* No step sends a message about the split element of another worker.
LEMMA NextAddressed ==
  ASSUME HInv, Addressed, [Next]_vars
  PROVE  Addressed'
BY PublisherAddressed, WorkerUserAddressed, WorkerNetworkAddressed DEF Next

-----------------------------------------------------------------------------
(***************************************************************************)
(* What each step does to the credit of a worker and to what is spent.     *)
(***************************************************************************)
\* A dispatch spends one credit of a worker.
LEMMA TriggerCredit ==
  ASSUME TypeOK, NEW t, NEW o, NEW ws, NEW cr, NEW us, NEW q, NEW pcElse, NEW lockElse,
         Callable(t, o, ws, cr, us, q, pcElse, lockElse),
         Trigger(t, o, ws, cr, us, q, pcElse, lockElse), outbox[t] = None
  PROVE  \A r \in Splits :
           /\ credit'[r] + Held(outbox', r) = cr[r] + Held(outbox, r)
           /\ r \notin ws => Held(outbox', r) = Held(outbox, r)
<1> USE DEF Callable
<1>1. CASE CanDispatch(ws, cr, q, o)
  <2>1. PICK s \in BestWorkers(ws, cr, us, o) :
          /\ credit' = Debit(cr, s)
          /\ outbox' = [outbox EXCEPT ![t] = Work(s, Head(q[o]))]
    BY <1>1 DEF Trigger
  <2>2. s \in Splits /\ s \in ws /\ cr[s] > 0
    <3>1. PICK r \in ws : OutputOf[r] = o /\ cr[r] > 0
      BY <1>1 DEF CanDispatch
    <3> QED BY <3>1 DEF BestWorkers
  <2>3. Head(q[o]) \in Works
    <3>1. q[o] \in Seq(Works) /\ q[o] # <<>>
      BY <1>1 DEF CanDispatch
    <3> QED BY <3>1, HeadTail
  <2> DEFINE m == Work(s, Head(q[o]))
  <2>4. m \in WorkMsgs /\ m.split = s
    BY <2>2, <2>3, MessageTypes DEF Work, Message
  <2>5. outbox \in [Threads -> WorkMsgs \cup {None}] /\ t \in Threads
    BY DEF TypeOK
  <2> HIDE DEF m
  <2>6. \A r \in Splits : Held(outbox', r) = Held(outbox, r) + OneIf(s = r)
    <3>1. outbox' = [outbox EXCEPT ![t] = m]
      BY <2>1 DEF m
    <3>2. \A u \in Threads : outbox'[u] = IF u = t THEN m ELSE outbox[u]
      BY <2>5, <3>1
    <3>3. PICK n \in WorkMsgs : n = m
      BY <2>4
    <3>4. \A u \in Threads : outbox'[u] = IF u = t THEN n ELSE outbox[u]
      BY <3>2, <3>3
    <3>5. \A r : Held(outbox', r) = Held(outbox, r) + OneIf(n.split = r)
      BY <2>5, <3>4, HeldPut
    <3> QED BY <2>4, <3>3, <3>5
  <2>7. \A r \in Splits : credit'[r] = IF r = s THEN cr[r] - 1 ELSE cr[r]
    BY <2>1 DEF Debit
  <2>8. \A r \in Splits : Held(outbox, r) \in Nat /\ cr[r] \in Nat
    BY HeldType
  <2> QED BY <2>2, <2>6, <2>7, <2>8 DEF OneIf
<1>2. CASE ~CanDispatch(ws, cr, q, o)
  BY <1>2 DEF Trigger
<1> QED BY <1>1, <1>2

\* A message from a worker is taken.
LEMMA TakenCounted ==
  ASSUME TypeOK, Addressed, NEW a \in Agents, NEW type, FromWorker(a, type)
  PROVE  /\ Head(toSplitter[a]) \in Own(a, ToSplitterMsgs) /\ Head(toSplitter[a]).type = type
         /\ \A ty : \A s \in Splits :
              /\ Sent(toSplitter', ty, s) \in Nat
              /\ Sent(toSplitter, ty, s)
                   = Sent(toSplitter', ty, s) + OneIf(type = ty /\ Head(toSplitter[a]).split = s)
<1>1. /\ toSplitter[a] # <<>> /\ Head(toSplitter[a]).type = type
      /\ toSplitter' = [toSplitter EXCEPT ![a] = Tail(@)]
  BY DEF FromWorker
<1>2. toSplitter[a] \in Seq(Own(a, ToSplitterMsgs))
  BY DEF Addressed
<1>3. Head(toSplitter[a]) \in Own(a, ToSplitterMsgs)
  BY <1>1, <1>2, HeadTail
<1>4. \A s \in Splits : Head(toSplitter[a]).split = s => AgentOf[s] = a
  BY <1>3, SplitAssumption DEF Own, AgentMsgs
<1>5. toSplitter[a] \in Seq(ToSplitterMsgs)
  BY DEF TypeOK, ToSplitterMsgs
<1>6. ASSUME NEW ty, NEW s \in Splits
      PROVE  /\ Sent(toSplitter', ty, s) \in Nat
             /\ Sent(toSplitter, ty, s)
                  = Sent(toSplitter', ty, s) + OneIf(type = ty /\ Head(toSplitter[a]).split = s)
  <2>1. toSplitter' \in [Agents -> Seq(ToSplitterMsgs)]
    BY FromWorkerFacts DEF ToSplitterMsgs
  <2>2. Sent(toSplitter', ty, s) \in Nat
    BY <2>1, SentType
  <2>3. AgentOf[s] \in Agents
    BY SplitAssumption
  <2>4. CASE AgentOf[s] = a
    <3>1. toSplitter'[AgentOf[s]] = Tail(toSplitter[a])
      BY <1>1, <2>1, <2>4
    <3>2. Cardinality(About(toSplitter[a], ty, s))
            = Cardinality(About(Tail(toSplitter[a]), ty, s))
              + OneIf(Head(toSplitter[a]).type = ty /\ Head(toSplitter[a]).split = s)
      BY <1>1, <1>5, AboutTail
    <3> QED BY <1>1, <2>2, <2>4, <3>1, <3>2 DEF Sent
  <2>5. CASE AgentOf[s] # a
    <3>1. toSplitter'[AgentOf[s]] = toSplitter[AgentOf[s]]
      BY <1>1, <2>1, <2>3, <2>5
    <3>2. Sent(toSplitter', ty, s) = Sent(toSplitter, ty, s)
      BY <3>1 DEF Sent
    <3>3. OneIf(type = ty /\ Head(toSplitter[a]).split = s) = 0
      BY <1>4, <2>5 DEF OneIf
    <3> QED BY <2>2, <3>2, <3>3
  <2> QED BY <2>4, <2>5
<1> QED BY <1>1, <1>3, <1>6

\* A message to a worker is taken.
LEMMA WorkTakenCounted ==
  ASSUME TypeOK, Addressed, NEW a \in Agents, NEW type, FromSplitter(a, type)
  PROVE  /\ Head(toWorker[a]) \in Own(a, WorkMsgs \cup AgentMsgs) /\ Head(toWorker[a]).type = type
         /\ \A ty : \A s \in Splits :
              /\ Sent(toWorker', ty, s) \in Nat
              /\ Sent(toWorker, ty, s)
                   = Sent(toWorker', ty, s) + OneIf(type = ty /\ Head(toWorker[a]).split = s)
<1>1. /\ toWorker[a] # <<>> /\ Head(toWorker[a]).type = type
      /\ toWorker' = [toWorker EXCEPT ![a] = Tail(@)]
  BY DEF FromSplitter
<1>2. toWorker[a] \in Seq(Own(a, WorkMsgs \cup AgentMsgs))
  BY DEF Addressed
<1>3. Head(toWorker[a]) \in Own(a, WorkMsgs \cup AgentMsgs)
  BY <1>1, <1>2, HeadTail
<1>4. \A s \in Splits : Head(toWorker[a]).split = s => AgentOf[s] = a
  BY <1>3, SplitAssumption DEF Own, AgentMsgs
<1>5. toWorker[a] \in Seq(WorkMsgs \cup AgentMsgs)
  BY DEF TypeOK
<1>6. ASSUME NEW ty, NEW s \in Splits
      PROVE  /\ Sent(toWorker', ty, s) \in Nat
             /\ Sent(toWorker, ty, s)
                  = Sent(toWorker', ty, s) + OneIf(type = ty /\ Head(toWorker[a]).split = s)
  <2>1. toWorker' \in [Agents -> Seq(WorkMsgs \cup AgentMsgs)]
    BY FromSplitterFacts
  <2>2. Sent(toWorker', ty, s) \in Nat
    BY <2>1, SentType
  <2>3. AgentOf[s] \in Agents
    BY SplitAssumption
  <2>4. CASE AgentOf[s] = a
    <3>1. toWorker'[AgentOf[s]] = Tail(toWorker[a])
      BY <1>1, <2>1, <2>4
    <3>2. Cardinality(About(toWorker[a], ty, s))
            = Cardinality(About(Tail(toWorker[a]), ty, s))
              + OneIf(Head(toWorker[a]).type = ty /\ Head(toWorker[a]).split = s)
      BY <1>1, <1>5, AboutTail
    <3> QED BY <1>1, <2>2, <2>4, <3>1, <3>2 DEF Sent
  <2>5. CASE AgentOf[s] # a
    <3>1. toWorker'[AgentOf[s]] = toWorker[AgentOf[s]]
      BY <1>1, <2>1, <2>3, <2>5
    <3>2. Sent(toWorker', ty, s) = Sent(toWorker, ty, s)
      BY <3>1 DEF Sent
    <3>3. OneIf(type = ty /\ Head(toWorker[a]).split = s) = 0
      BY <1>4, <2>5 DEF OneIf
    <3> QED BY <2>2, <3>2, <3>3
  <2> QED BY <2>4, <2>5
<1> QED BY <1>1, <1>3, <1>6

\* A message of a worker is sent.
LEMMA PutCounted ==
  ASSUME TypeOK, NEW a \in Agents, NEW m \in Own(a, ToSplitterMsgs),
         toSplitter' = [toSplitter EXCEPT ![a] = Append(@, m)]
  PROVE  \A ty : \A s \in Splits :
           Sent(toSplitter', ty, s) = Sent(toSplitter, ty, s) + OneIf(m.type = ty /\ m.split = s)
<1>1. m \in ToSplitterMsgs /\ \A s \in Splits : m.split = s => AgentOf[s] = a
  BY SplitAssumption DEF Own, AgentMsgs
<1>2. toSplitter[a] \in Seq(ToSplitterMsgs) /\ toSplitter \in [Agents -> Seq(ToSplitterMsgs)]
  BY DEF TypeOK, ToSplitterMsgs
<1>3. ASSUME NEW ty, NEW s \in Splits
      PROVE  Sent(toSplitter', ty, s)
               = Sent(toSplitter, ty, s) + OneIf(m.type = ty /\ m.split = s)
  <2>1. AgentOf[s] \in Agents
    BY SplitAssumption
  <2>2. CASE AgentOf[s] = a
    <3>1. toSplitter'[AgentOf[s]] = Append(toSplitter[a], m)
      BY <1>2, <2>2
    <3>2. Cardinality(About(Append(toSplitter[a], m), ty, s))
            = Cardinality(About(toSplitter[a], ty, s)) + OneIf(m.type = ty /\ m.split = s)
      BY <1>1, <1>2, AboutAppend
    <3> QED BY <2>2, <3>1, <3>2 DEF Sent
  <2>3. CASE AgentOf[s] # a
    <3>1. toSplitter'[AgentOf[s]] = toSplitter[AgentOf[s]]
      BY <1>2, <2>1, <2>3
    <3>2. Sent(toSplitter', ty, s) = Sent(toSplitter, ty, s)
      BY <3>1 DEF Sent
    <3>3. OneIf(m.type = ty /\ m.split = s) = 0
      BY <1>1, <2>3 DEF OneIf
    <3>4. Sent(toSplitter, ty, s) \in Nat
      BY <1>2, SentType
    <3> QED BY <3>2, <3>3, <3>4
  <2> QED BY <2>2, <2>3
<1> QED BY <1>3

\* A message that is no work is sent to all workers.
LEMMA OtherCounted ==
  ASSUME TypeOK, NEW m \in AgentMsgs, toWorker' = [a \in Agents |-> Append(toWorker[a], m)]
  PROVE  \A s \in Splits : Sent(toWorker', "SPLITTER_WORK", s) = Sent(toWorker, "SPLITTER_WORK", s)
<1> SUFFICES ASSUME NEW s \in Splits
             PROVE  Sent(toWorker', "SPLITTER_WORK", s) = Sent(toWorker, "SPLITTER_WORK", s)
  OBVIOUS
<1>1. AgentOf[s] \in Agents /\ toWorker[AgentOf[s]] \in Seq(WorkMsgs \cup AgentMsgs)
  BY SplitAssumption DEF TypeOK
<1>2. toWorker'[AgentOf[s]] = Append(toWorker[AgentOf[s]], m)
  BY <1>1
<1>3. m.type # "SPLITTER_WORK"
  BY DEF AgentMsgs
<1>4. PICK c : c = toWorker[AgentOf[s]]
  OBVIOUS
<1>5. c \in Seq(WorkMsgs \cup AgentMsgs) /\ m \in WorkMsgs \cup AgentMsgs
  BY <1>1, <1>4
<1>6. Cardinality(About(Append(c, m), "SPLITTER_WORK", s))
        = Cardinality(About(c, "SPLITTER_WORK", s)) + OneIf(m.type = "SPLITTER_WORK" /\ m.split = s)
  BY <1>5, AboutAppend
<1>7. Cardinality(About(c, "SPLITTER_WORK", s)) \in Nat
  BY <1>5, AboutFinite
<1>8. Cardinality(About(Append(c, m), "SPLITTER_WORK", s)) = Cardinality(About(c, "SPLITTER_WORK", s))
  BY <1>3, <1>6, <1>7 DEF OneIf
<1> QED BY <1>2, <1>4, <1>8 DEF Sent

\* igs_channel_whisper_zmsg at a worker.
LEMMA SendCounted ==
  ASSUME TypeOK, NEW a \in Agents, NEW m \in Own(a, ToSplitterMsgs), SendToSplitter(a, m)
  PROVE  \A ty : \A s \in Splits :
           Sent(toSplitter', ty, s)
             = Sent(toSplitter, ty, s)
               + IF knows[a] THEN OneIf(m.type = ty /\ m.split = s) ELSE 0
<1>1. CASE knows[a]
  <2>1. toSplitter' = [toSplitter EXCEPT ![a] = Append(@, m)]
    BY <1>1 DEF SendToSplitter
  <2>2. \A ty : \A s \in Splits :
          Sent(toSplitter', ty, s) = Sent(toSplitter, ty, s) + OneIf(m.type = ty /\ m.split = s)
    BY <2>1, PutCounted
  <2> QED BY <1>1, <2>2
<1>2. CASE ~knows[a]
  <2>1. toSplitter' = toSplitter
    BY <1>2 DEF SendToSplitter
  <2>2. \A ty : \A s \in Splits : Sent(toSplitter, ty, s) \in Nat
    BY Counts
  <2> QED BY <1>2, <2>1, <2>2
<1> QED BY <1>1, <1>2

\* Nothing is spent or given back, or it stays the same worker's; or some is lost.
Kept ==
  /\ UNCHANGED <<workers, granted>>
  /\ \A s \in Splits : Total(s)' = Total(s) /\ (s \notin workers => Spent(s)' = Spent(s))
Lost == UNCHANGED granted /\ \A s \in Splits : Total(s)' <= Total(s)

\* A step keeps the credit when each piece it moves goes from one place to another.
LEMMA KeptPieces ==
  ASSUME TypeOK, UNCHANGED <<workers, granted, credit>>,
         \A s \in Splits :
           /\ Held(outbox', s) = Held(outbox, s)
           /\ Sent(toWorker', "SPLITTER_WORK", s)
                + OneIf(Says(netOut'[AgentOf[s]], "WORKER_READY", s))
              = Sent(toWorker, "SPLITTER_WORK", s)
                + OneIf(Says(netOut[AgentOf[s]], "WORKER_READY", s))
           /\ Sent(toSplitter', "WORKER_READY", s) = Sent(toSplitter, "WORKER_READY", s)
           /\ Sent(toWorker', "SPLITTER_WORK", s) \in Nat
  PROVE  Kept
<1> SUFFICES ASSUME NEW s \in Splits PROVE Total(s)' = Total(s) /\ Spent(s)' = Spent(s)
  BY DEF Kept
<1>1. \A b : OneIf(b) \in Nat
  BY DEF OneIf
<1>2. Spent(s)' = Spent(s)
  BY <1>1, SpentIs, Counts
<1> QED BY <1>2 DEF Total

\* Publishing, announcing, coming and going at the publishing peer.
LEMMA PublisherKeeps ==
  ASSUME HInv, Addressed,
         \/ \E t \in Publishers, o \in Outputs, w \in Works : Publish(t, o, w)
         \/ Deactivate \/ Activate \/ SendDefinition
         \/ \E a \in Agents : RecvDefinition(a)
         \/ UNCHANGED vars
  PROVE  Kept
<1>1. TypeOK
  BY DEF HInv, SInv
<1>2. UNCHANGED <<workers, granted, credit, outbox, netOut>>
  BY DEF Publish, Deactivate, Activate, SendDefinition, RecvDefinition, vars, splitterVars,
         publisherVars, workerVars
<1>3. \A s \in Splits : Sent(toWorker', "SPLITTER_WORK", s) = Sent(toWorker, "SPLITTER_WORK", s)
  <2>1. \/ toWorker' = toWorker
        \/ \E m \in AgentMsgs : toWorker' = [a \in Agents |-> Append(toWorker[a], m)]
    BY MessageTypes DEF Publish, Deactivate, Activate, SendDefinition, RecvDefinition, vars,
       AgentExit, Definition, Message, AgentMsgs
  <2> QED BY <1>1, <2>1, OtherCounted
<1>4. \A s \in Splits :
        Sent(toSplitter', "WORKER_READY", s) = Sent(toSplitter, "WORKER_READY", s)
  <2>1. ASSUME NEW a \in Agents, RecvDefinition(a), NEW s \in Splits
        PROVE  Sent(toSplitter', "WORKER_READY", s) = Sent(toSplitter, "WORKER_READY", s)
    <3>1. FromWorker(a, "EXTERNAL_DEFINITION")
      BY <2>1 DEF RecvDefinition
    <3>2. /\ Sent(toSplitter', "WORKER_READY", s) \in Nat
          /\ Sent(toSplitter, "WORKER_READY", s)
               = Sent(toSplitter', "WORKER_READY", s)
                 + OneIf("EXTERNAL_DEFINITION" = "WORKER_READY" /\ Head(toSplitter[a]).split = s)
      BY <1>1, <3>1, TakenCounted
    <3> QED BY <3>2 DEF OneIf
  <2>2. CASE ~\E a \in Agents : RecvDefinition(a)
    <3>1. toSplitter' = toSplitter
      BY <2>2 DEF Publish, Deactivate, Activate, SendDefinition, vars
    <3> QED BY <3>1
  <2> QED BY <2>1, <2>2
<1>5. \A s \in Splits : Sent(toWorker, "SPLITTER_WORK", s) \in Nat
  BY <1>1, Counts
<1> QED BY <1>1, <1>2, <1>3, <1>4, <1>5, KeptPieces

\* Edits, coming and going at a worker.
LEMMA WorkerUserKeeps ==
  ASSUME HInv, Addressed, NEW a \in Agents, WorkerUserNext(a)
  PROVE  Kept
<1>1. TypeOK
  BY DEF HInv, SInv
<1>2. UNCHANGED <<workers, granted, credit, outbox, netOut, toWorker>>
  BY DEF WorkerUserNext, SplitAdd, SplitRemove, WorkerDeactivate, WorkerActivate, WhisperUser,
         publishingPeer, splitterVars, publisherVars
<1>3. ASSUME NEW s \in Splits
      PROVE  Sent(toSplitter', "WORKER_READY", s) = Sent(toSplitter, "WORKER_READY", s)
  <2>1. Sent(toSplitter, "WORKER_READY", s) \in Nat
    BY <1>1, Counts
  <2>2. CASE WorkerDeactivate(a)
    <3>1. AgentExit \in Own(a, ToSplitterMsgs) /\ AgentExit.type # "WORKER_READY"
      BY <1>1, ChannelTypes DEF Own, ToSplitterMsgs, AgentExit, Message
    <3>2. toSplitter' = [toSplitter EXCEPT ![a] = Append(@, AgentExit)]
      BY <2>2 DEF WorkerDeactivate
    <3>3. Sent(toSplitter', "WORKER_READY", s)
            = Sent(toSplitter, "WORKER_READY", s)
              + OneIf(AgentExit.type = "WORKER_READY" /\ AgentExit.split = s)
      BY <1>1, <3>1, <3>2, PutCounted
    <3> QED BY <2>1, <3>1, <3>3 DEF OneIf
  <2>3. CASE WhisperUser(a)
    <3>1. userOut[a] \in Own(a, ToSplitterMsgs) /\ SendToSplitter(a, userOut[a])
      BY <2>3 DEF WhisperUser, Addressed
    <3>2. userOut[a].type # "WORKER_READY"
      BY <1>1, <2>3 DEF WhisperUser, TypeOK, HelloMsgs, GoodbyeMsgs
    <3>3. Sent(toSplitter', "WORKER_READY", s)
            = Sent(toSplitter, "WORKER_READY", s)
              + IF knows[a]
                THEN OneIf(userOut[a].type = "WORKER_READY" /\ userOut[a].split = s) ELSE 0
      BY <1>1, <3>1, SendCounted
    <3> QED BY <2>1, <3>2, <3>3 DEF OneIf
  <2>4. CASE ~WorkerDeactivate(a) /\ ~WhisperUser(a)
    <3>1. toSplitter' = toSplitter
      BY <2>4 DEF WorkerUserNext, SplitAdd, SplitRemove, WorkerActivate
    <3> QED BY <3>1
  <2> QED BY <2>2, <2>3, <2>4
<1>4. \A s \in Splits : Sent(toWorker, "SPLITTER_WORK", s) \in Nat
  BY <1>1, Counts
<1> QED BY <1>1, <1>2, <1>3, <1>4, KeptPieces

\* split_message_from_splitter: the work goes, and its WORKER_READY comes.
LEMMA WorkKeeps ==
  ASSUME HInv, Addressed, NEW a \in Agents, RecvWork(a)
  PROVE  Kept
<1> DEFINE m == Head(toWorker[a])
<1>1. TypeOK
  BY DEF HInv, SInv
<1>2. /\ UNCHANGED <<workers, granted, credit, outbox, toSplitter>>
      /\ netOut[a] = None /\ netOut' = [netOut EXCEPT ![a] = Ready(m.split, m.work)]
      /\ FromSplitter(a, "SPLITTER_WORK")
  BY DEF RecvWork, FromSplitter, WorkerNetworkReady, publishingPeer, splitterVars, publisherVars
<1>3. /\ m \in WorkMsgs
      /\ \A s \in Splits :
           /\ Sent(toWorker', "SPLITTER_WORK", s) \in Nat
           /\ Sent(toWorker, "SPLITTER_WORK", s)
                = Sent(toWorker', "SPLITTER_WORK", s)
                  + OneIf("SPLITTER_WORK" = "SPLITTER_WORK" /\ m.split = s)
  BY <1>1, <1>2, WorkTakenCounted, FromSplitterFacts
<1>4. m \in Own(a, WorkMsgs \cup AgentMsgs)
  BY <1>1, <1>2, WorkTakenCounted
<1>5. m.split \in Splits /\ AgentOf[m.split] = a /\ m.work \in Works
  BY <1>3, <1>4 DEF WorkMsgs, Own, AgentMsgs
<1> HIDE DEF m
<1>6. Ready(m.split, m.work) # None
  BY <1>5, MessageTypes, NoneIsNoMessage
<1>7. ASSUME NEW s \in Splits
      PROVE  OneIf(Says(netOut'[AgentOf[s]], "WORKER_READY", s))
               = OneIf(Says(netOut[AgentOf[s]], "WORKER_READY", s)) + OneIf(m.split = s)
  <2>1. AgentOf[s] \in Agents
    BY SplitAssumption
  <2>2. CASE AgentOf[s] = a
    <3>1. netOut'[a] = Ready(m.split, m.work)
      BY <1>1, <1>2 DEF TypeOK
    <3>2. Ready(m.split, m.work).type = "WORKER_READY" /\ Ready(m.split, m.work).split = m.split
      BY DEF Ready, Message
    <3> QED BY <1>2, <1>6, <2>2, <3>1, <3>2 DEF Says, OneIf
  <2>3. CASE AgentOf[s] # a
    <3>1. netOut'[AgentOf[s]] = netOut[AgentOf[s]]
      BY <1>1, <1>2, <2>1, <2>3 DEF TypeOK
    <3> QED BY <1>5, <2>3, <3>1 DEF OneIf
  <2> QED BY <2>2, <2>3
<1>8. \A b : OneIf(b) \in Nat
  BY DEF OneIf
<1>9. \A s \in Splits :
        /\ Sent(toWorker', "SPLITTER_WORK", s)
             + OneIf(Says(netOut'[AgentOf[s]], "WORKER_READY", s))
           = Sent(toWorker, "SPLITTER_WORK", s)
             + OneIf(Says(netOut[AgentOf[s]], "WORKER_READY", s))
        /\ Sent(toWorker', "SPLITTER_WORK", s) \in Nat
  BY <1>3, <1>7, <1>8
<1> QED BY <1>1, <1>2, <1>9, KeptPieces

\* What the network thread of a worker does besides works.
LEMMA WorkerOtherKeeps ==
  ASSUME HInv, Addressed, NEW a \in Agents,
         WorkerSendDefinition(a) \/ WorkerRecvDefinition(a) \/ GreetNext(a) \/ WorkerRecvAgentExit(a)
  PROVE  Kept
<1>1. TypeOK
  BY DEF HInv, SInv
<1>2. UNCHANGED <<workers, granted, credit, outbox>>
  BY DEF WorkerSendDefinition, WorkerRecvDefinition, GreetNext, WorkerRecvAgentExit,
         publishingPeer, splitterVars, publisherVars
<1>3. ASSUME NEW s \in Splits
      PROVE  Sent(toWorker', "SPLITTER_WORK", s) = Sent(toWorker, "SPLITTER_WORK", s)
  <2>1. ASSUME NEW type \in {"EXTERNAL_DEFINITION", "REMOTE_AGENT_EXIT"}, FromSplitter(a, type)
        PROVE  Sent(toWorker', "SPLITTER_WORK", s) = Sent(toWorker, "SPLITTER_WORK", s)
    <3>1. /\ Sent(toWorker', "SPLITTER_WORK", s) \in Nat
          /\ Sent(toWorker, "SPLITTER_WORK", s)
               = Sent(toWorker', "SPLITTER_WORK", s)
                 + OneIf(type = "SPLITTER_WORK" /\ Head(toWorker[a]).split = s)
      BY <1>1, <2>1, WorkTakenCounted
    <3> QED BY <3>1 DEF OneIf
  <2> QED BY <2>1 DEF WorkerSendDefinition, WorkerRecvDefinition, GreetNext, WorkerRecvAgentExit
<1>4. ASSUME NEW s \in Splits
      PROVE  Sent(toSplitter', "WORKER_READY", s) = Sent(toSplitter, "WORKER_READY", s)
  <2>1. Sent(toSplitter, "WORKER_READY", s) \in Nat
    BY <1>1, Counts
  <2>2. CASE WorkerSendDefinition(a)
    <3>1. Definition \in Own(a, ToSplitterMsgs) /\ Definition.type # "WORKER_READY"
      BY <1>1, ChannelTypes DEF Own, ToSplitterMsgs, Definition, Message
    <3>2. toSplitter' = [toSplitter EXCEPT ![a] = Append(@, Definition)]
      BY <2>2 DEF WorkerSendDefinition
    <3>3. Sent(toSplitter', "WORKER_READY", s)
            = Sent(toSplitter, "WORKER_READY", s)
              + OneIf(Definition.type = "WORKER_READY" /\ Definition.split = s)
      BY <1>1, <3>1, <3>2, PutCounted
    <3> QED BY <2>1, <3>1, <3>3 DEF OneIf
  <2>3. CASE ~WorkerSendDefinition(a)
    BY <2>3 DEF WorkerRecvDefinition, GreetNext, WorkerRecvAgentExit
  <2> QED BY <2>2, <2>3
<1>5. ASSUME NEW s \in Splits
      PROVE  OneIf(Says(netOut'[AgentOf[s]], "WORKER_READY", s))
               = OneIf(Says(netOut[AgentOf[s]], "WORKER_READY", s))
  <2>1. CASE netOut' = netOut
    BY <2>1
  <2>2. CASE netOut' # netOut
    <3>1. /\ netOut[a] = None
          /\ netOut' = [netOut EXCEPT ![a] = Hello(elements[a][cursor[a] + 1])]
      BY <2>2 DEF WorkerSendDefinition, WorkerRecvDefinition, GreetNext, WorkerRecvAgentExit
    <3>2. Hello(elements[a][cursor[a] + 1]).type # "WORKER_READY"
      BY DEF Hello, Message
    <3>3. AgentOf[s] \in Agents
      BY SplitAssumption
    <3>4. /\ netOut'[AgentOf[s]] = IF AgentOf[s] = a THEN Hello(elements[a][cursor[a] + 1])
                                   ELSE netOut[AgentOf[s]]
      BY <1>1, <3>1, <3>3 DEF TypeOK
    <3> QED BY <3>1, <3>2, <3>4 DEF OneIf, Says
  <2> QED BY <2>1, <2>2
<1>6. \A s \in Splits : Sent(toWorker, "SPLITTER_WORK", s) \in Nat
  BY <1>1, Counts
<1> QED BY <1>1, <1>2, <1>3, <1>4, <1>5, <1>6, KeptPieces

\* Credit becomes a work a thread has to whisper.
LEMMA HeldMoves ==
  ASSUME TypeOK, TypeOK', UNCHANGED <<workers, granted, netOut, toWorker, toSplitter>>,
         \A s \in Splits :
           /\ credit'[s] + Held(outbox', s) = credit[s] + Held(outbox, s)
           /\ s \notin workers => Held(outbox', s) = Held(outbox, s)
  PROVE  Kept
<1> SUFFICES ASSUME NEW s \in Splits
             PROVE  Total(s)' = Total(s) /\ (s \notin workers => Spent(s)' = Spent(s))
  BY DEF Kept
<1> DEFINE rest == Sent(toWorker, "SPLITTER_WORK", s)
                   + OneIf(Says(netOut[AgentOf[s]], "WORKER_READY", s))
                   + Sent(toSplitter, "WORKER_READY", s)
<1>1. rest \in Nat
  BY Counts DEF OneIf
<1>2. /\ Held(outbox, s) \in Nat /\ Held(outbox', s) \in Nat
      /\ credit[s] \in Nat /\ credit'[s] \in Nat
  BY HeldType DEF TypeOK
<1>3. Spent(s) = Held(outbox, s) + rest /\ Spent(s)' = Held(outbox', s) + rest
  BY SpentIs, Counts, <1>2 DEF OneIf
<1> HIDE DEF rest
<1> QED BY <1>1, <1>2, <1>3 DEF Total

\* split_add_work_to_queue: a dispatch spends the credit of a worker.
LEMMA WalkKeeps ==
  ASSUME HInv, HInv', NEW t \in Publishers, WalkStep(t)
  PROVE  Kept
<1> DEFINE o == publishing[t].output
           w == publishing[t].work
<1>1. /\ TypeOK /\ t \in Threads /\ o \in Outputs /\ w \in Works /\ outbox[t] = None
  BY DEF HInv, SInv, Threads, WalkStep, Walking, Publication, Handed, Whispering
<1>2. UNCHANGED <<netOut, toWorker, toSplitter, granted>>
  BY DEF WalkStep, workerVars
<1>3. PICK e \in walk[t] :
        LET q == IF e = o /\ e \notin stale[t] THEN [queue EXCEPT ![o] = Append(@, w)] ELSE queue
            last == walk[t] = {e}
        IN /\ walk' = [walk EXCEPT ![t] = @ \ {e}]
           /\ Trigger(t, o, workers, credit, uses, q,
                      IF last THEN "idle" ELSE "walk",
                      IF last THEN None ELSE t)
  BY DEF WalkStep
<1> DEFINE q == IF e = o /\ e \notin stale[t] THEN [queue EXCEPT ![o] = Append(@, w)] ELSE queue
<1>4. /\ Trigger(t, o, workers, credit, uses, q,
                 IF walk[t] = {e} THEN "idle" ELSE "walk", IF walk[t] = {e} THEN None ELSE t)
      /\ q = queue \/ q = [queue EXCEPT ![o] = Append(@, w)]
  BY <1>3
<1> HIDE DEF q
<1>5. PICK p \in Outputs : p = o
  BY <1>1
<1>6. PICK ws, cr, us : ws = workers /\ cr = credit /\ us = uses
  OBVIOUS
<1>7. q \in [Outputs -> Seq(Works)]
  <2>1. queue \in [Outputs -> Seq(Works)]
    BY <1>1 DEF TypeOK
  <2>2. queue[o] \in Seq(Works) /\ Append(queue[o], w) \in Seq(Works)
    BY <1>1, <2>1, AppendItems
  <2> QED BY <1>4, <2>1, <2>2
<1>8. PICK pcElse \in {"idle", "walk"}, lockElse \in Publishers \cup {None} :
         Trigger(t, o, workers, credit, uses, q, pcElse, lockElse)
  BY <1>4
<1>9. PICK c : c = q
  OBVIOUS
<1>10. Callable(t, p, ws, cr, us, c, pcElse, lockElse)
  BY <1>1, <1>6, <1>7, <1>9 DEF Callable, TypeOK
<1> HIDE DEF o, w
<1>11. Trigger(t, p, ws, cr, us, c, pcElse, lockElse)
  BY <1>8, <1>9, <1>5, <1>6
<1>12. \A r \in Splits :
        /\ credit'[r] + Held(outbox', r) = cr[r] + Held(outbox, r)
        /\ r \notin ws => Held(outbox', r) = Held(outbox, r)
  BY <1>1, <1>10, <1>11, TriggerCredit
<1>13. workers' = ws
  BY <1>11 DEF Trigger
<1>14. TypeOK'
  BY DEF HInv, SInv
<1> QED BY <1>1, <1>2, <1>6, <1>12, <1>13, <1>14, HeldMoves

\* igs_channel_whisper_zmsg: the work goes to the peer of the worker, or is lost.
LEMMA WhisperWorkKeeps ==
  ASSUME HInv, HInv', NEW t \in Threads, WhisperWork(t)
  PROVE  /\ Lost /\ UNCHANGED <<workers, credit>>
         /\ AgentOf[outbox[t].split] \in remotes => Kept
<1> DEFINE m == outbox[t]
           a == AgentOf[m.split]
<1>1. TypeOK /\ TypeOK' /\ m \in WorkMsgs /\ m # None /\ m.split \in Splits /\ a \in Agents
  BY SplitAssumption, NoneIsNoMessage DEF HInv, SInv, WhisperWork, Walking, WorkMsgs
<1>2. /\ UNCHANGED <<workers, credit, granted, netOut, toSplitter>>
      /\ outbox' = [outbox EXCEPT ![t] = None]
      /\ toWorker' = IF a \in remotes THEN [toWorker EXCEPT ![a] = Append(@, m)] ELSE toWorker
  BY DEF WhisperWork, splitterVars, workerVars
<1> HIDE DEF m
<1>3. ASSUME NEW s \in Splits
      PROVE  Held(outbox, s) = Held(outbox', s) + OneIf(m.split = s)
  <2>1. \A u \in Threads : outbox'[u] = IF u = t THEN None ELSE outbox[u]
    BY <1>1, <1>2 DEF TypeOK
  <2>2. outbox[t] # None
    BY <1>1 DEF m
  <2> QED BY <2>1, <2>2, HeldTaken DEF m
<1>4. ASSUME NEW s \in Splits
      PROVE  Sent(toWorker', "SPLITTER_WORK", s)
               = Sent(toWorker, "SPLITTER_WORK", s) + IF a \in remotes THEN OneIf(m.split = s) ELSE 0
  <2>1. Sent(toWorker, "SPLITTER_WORK", s) \in Nat /\ AgentOf[s] \in Agents
    BY <1>1, Counts, SplitAssumption
  <2>2. CASE a \in remotes /\ AgentOf[s] = a
    <3>1. toWorker'[AgentOf[s]] = Append(toWorker[a], m)
      BY <1>1, <1>2, <2>2 DEF TypeOK
    <3>2. toWorker[a] \in Seq(WorkMsgs \cup AgentMsgs) /\ m \in WorkMsgs \cup AgentMsgs
      BY <1>1 DEF TypeOK
    <3>3. Cardinality(About(Append(toWorker[a], m), "SPLITTER_WORK", s))
            = Cardinality(About(toWorker[a], "SPLITTER_WORK", s))
              + OneIf(m.type = "SPLITTER_WORK" /\ m.split = s)
      BY <3>2, AboutAppend
    <3>4. m.type = "SPLITTER_WORK"
      BY <1>1 DEF WorkMsgs
    <3> QED BY <2>2, <3>1, <3>3, <3>4 DEF Sent
  <2>3. CASE ~(a \in remotes /\ AgentOf[s] = a)
    <3>1. toWorker'[AgentOf[s]] = toWorker[AgentOf[s]]
      BY <1>1, <1>2, <2>1, <2>3 DEF TypeOK
    <3>2. Sent(toWorker', "SPLITTER_WORK", s) = Sent(toWorker, "SPLITTER_WORK", s)
      BY <3>1 DEF Sent
    <3>3. a \in remotes => m.split # s
      BY <2>3
    <3> QED BY <2>1, <3>2, <3>3 DEF OneIf
  <2> QED BY <2>2, <2>3
<1>5. ASSUME NEW s \in Splits
      PROVE  /\ Total(s)' <= Total(s)
             /\ a \in remotes => Total(s)' = Total(s) /\ Spent(s)' = Spent(s)
  <2>1. OneIf(m.split = s) \in {0, 1} /\ credit[s] \in Nat /\ credit'[s] = credit[s]
    BY <1>1, <1>2, Counts DEF OneIf
  <2>2. PICK n \in Nat, r \in Nat, h \in Nat, k \in Nat :
          /\ n = OneIf(Says(netOut[AgentOf[s]], "WORKER_READY", s))
          /\ r = Sent(toSplitter, "WORKER_READY", s)
          /\ h = Held(outbox', s) /\ k = Sent(toWorker, "SPLITTER_WORK", s)
    BY <1>1, Counts, HeldType DEF OneIf
  <2>3. Spent(s) = (h + OneIf(m.split = s)) + k + n + r
    BY <1>3, <2>2, SpentIs
  <2>4. Spent(s)' = h + (k + IF a \in remotes THEN OneIf(m.split = s) ELSE 0) + n + r
    BY <1>2, <1>4, <2>2, SpentIs
  <2> HIDE DEF a
  <2>5. Total(s) = credit[s] + Spent(s) /\ Total(s)' = credit[s] + Spent(s)'
    BY <2>1 DEF Total
  <2> QED BY <2>1, <2>3, <2>4, <2>5
<1> QED BY <1>2, <1>5 DEF Kept, Lost, m

\* A dispatch of the network thread.
LEMMA NetworkCredit ==
  ASSUME TypeOK, HInv, NEW o \in Outputs, NEW ws \in SUBSET Splits, NEW cr \in [Splits -> Nat],
         NEW us \in [Splits -> Nat], pc[Network] = "idle",
         Trigger(Network, o, ws, cr, us, queue, "idle", None)
  PROVE  /\ workers' = ws
         /\ \A r \in Splits :
              /\ credit'[r] + Held(outbox', r) = cr[r] + Held(outbox, r)
              /\ r \notin ws => Held(outbox', r) = Held(outbox, r)
<1>1. PICK q, i, l : q = queue /\ i = "idle" /\ l = None
  OBVIOUS
<1>2. Callable(Network, o, ws, cr, us, q, i, l)
  BY <1>1 DEF Callable, TypeOK, Threads
<1>3. Trigger(Network, o, ws, cr, us, q, i, l)
  BY <1>1
<1>4. Network \in Threads /\ outbox[Network] = None
  BY DEF HInv, Handed, Whispering, Threads
<1>5. \A r \in Splits :
        /\ credit'[r] + Held(outbox', r) = cr[r] + Held(outbox, r)
        /\ r \notin ws => Held(outbox', r) = Held(outbox, r)
  BY <1>2, <1>3, <1>4, TriggerCredit
<1> QED BY <1>3, <1>5 DEF Trigger

\* split_message_from_worker on WORKER_READY: the credit goes back to a worker
\* that is still there.
LEMMA ReadyKeeps ==
  ASSUME HInv, HInv', Addressed, NEW a \in Agents, RecvReady(a)
  PROVE  /\ Lost /\ workers' = workers
         /\ active /\ Head(toSplitter[a]).split \in workers => Kept
<1> DEFINE s0 == Head(toSplitter[a]).split
<1>1. TypeOK /\ TypeOK' /\ UNCHANGED <<netOut, toWorker, granted>>
  BY DEF HInv, SInv, RecvReady, workerVars
<1>2. /\ s0 \in Splits /\ pc[Network] = "idle" /\ OutputOf[s0] \in Outputs
      /\ FromWorker(a, "WORKER_READY")
  <2>1. s0 \in Splits /\ pc[Network] = "idle" /\ FromWorker(a, "WORKER_READY")
    BY <1>1, FromWorkerFacts DEF RecvReady
  <2> QED BY <2>1, SplitAssumption
<1>3. ASSUME NEW s \in Splits
      PROVE  /\ Sent(toSplitter', "WORKER_READY", s) \in Nat
             /\ Sent(toSplitter, "WORKER_READY", s)
                  = Sent(toSplitter', "WORKER_READY", s) + OneIf(s0 = s)
  <2>1. /\ Sent(toSplitter', "WORKER_READY", s) \in Nat
        /\ Sent(toSplitter, "WORKER_READY", s)
             = Sent(toSplitter', "WORKER_READY", s)
               + OneIf("WORKER_READY" = "WORKER_READY" /\ s0 = s)
    BY <1>1, <1>2, TakenCounted
  <2> QED BY <2>1
<1> HIDE DEF s0
<1>4. /\ workers' = workers
      /\ \A s \in Splits :
           /\ credit'[s] + Held(outbox', s)
                = credit[s] + Held(outbox, s) + OneIf(active /\ s \in workers /\ s0 = s)
           /\ s \notin workers => Held(outbox', s) = Held(outbox, s)
  <2>1. CASE ~active
    <3>1. UNCHANGED <<workers, credit, outbox>>
      BY <2>1 DEF RecvReady, splitterVars, publisherVars
    <3>2. \A s \in Splits : credit[s] \in Nat /\ Held(outbox, s) \in Nat
      BY <1>1, Counts
    <3> QED BY <2>1, <3>1, <3>2 DEF OneIf
  <2>2. CASE active
    <3>1. PICK cr : cr = [credit EXCEPT ![s0] = IF s0 \in workers THEN @ + ReadyCredit ELSE @]
      OBVIOUS
    <3>2. PICK ws, us, o : ws = workers /\ us = uses /\ o = OutputOf[s0]
      OBVIOUS
    <3>3. Trigger(Network, o, ws, cr, us, queue, "idle", None)
      BY <2>2, <3>1, <3>2 DEF RecvReady, s0
    <3>4. credit \in [Splits -> Nat] /\ us \in [Splits -> Nat] /\ ws \in SUBSET Splits /\ o \in Outputs
      BY <1>1, <1>2, <3>2 DEF TypeOK
    <3>5. cr \in [Splits -> Nat]
      BY <1>2, <3>1, <3>4 DEF ReadyCredit
    <3>6. \A s \in Splits : cr[s] = credit[s] + OneIf(s \in workers /\ s0 = s)
      BY <1>2, <3>1, <3>4 DEF ReadyCredit, OneIf
    <3>7. /\ workers' = ws
          /\ \A r \in Splits :
               /\ credit'[r] + Held(outbox', r) = cr[r] + Held(outbox, r)
               /\ r \notin ws => Held(outbox', r) = Held(outbox, r)
      BY <1>1, <1>2, <3>3, <3>4, <3>5, NetworkCredit
    <3>8. \A s \in Splits : credit[s] \in Nat /\ Held(outbox, s) \in Nat
      BY <1>1, Counts
    <3> QED BY <2>2, <3>2, <3>6, <3>7, <3>8 DEF OneIf
  <2> QED BY <2>1, <2>2
<1>5. ASSUME NEW s \in Splits
      PROVE  /\ Total(s)' <= Total(s)
             /\ active /\ s0 \in workers =>
                  Total(s)' = Total(s) /\ (s \notin workers => Spent(s)' = Spent(s))
  <2>1. PICK n \in Nat, r \in Nat, k \in Nat :
          /\ n = OneIf(Says(netOut[AgentOf[s]], "WORKER_READY", s))
          /\ r = Sent(toSplitter', "WORKER_READY", s)
          /\ k = Sent(toWorker, "SPLITTER_WORK", s)
    BY <1>1, <1>3, Counts DEF OneIf
  <2>2. PICK h \in Nat, g \in Nat : h = Held(outbox, s) /\ g = Held(outbox', s)
    BY HeldType
  <2>3. Spent(s) = h + k + n + (r + OneIf(s0 = s))
    BY <1>3, <2>1, <2>2, SpentIs
  <2>4. Spent(s)' = g + k + n + r
    BY <1>1, <2>1, <2>2, SpentIs
  <2>5. credit[s] \in Nat /\ credit'[s] \in Nat
    BY <1>1 DEF TypeOK
  <2>6. Total(s) = credit[s] + Spent(s) /\ Total(s)' = credit'[s] + Spent(s)'
    BY DEF Total
  <2>7. /\ credit'[s] + g = credit[s] + h + OneIf(active /\ s \in workers /\ s0 = s)
        /\ s \notin workers => g = h
    BY <1>4, <2>2
  <2>8. /\ OneIf(active /\ s \in workers /\ s0 = s) <= OneIf(s0 = s)
        /\ active /\ s0 \in workers => OneIf(active /\ s \in workers /\ s0 = s) = OneIf(s0 = s)
        /\ s \notin workers /\ s0 \in workers => OneIf(s0 = s) = 0
        /\ OneIf(s0 = s) \in Nat /\ OneIf(active /\ s \in workers /\ s0 = s) \in Nat
    BY DEF OneIf
  <2> HIDE DEF Total
  <2> QED BY <2>3, <2>4, <2>5, <2>6, <2>7, <2>8
<1> QED BY <1>1, <1>4, <1>5 DEF Kept, Lost, s0

\* s_split_add_credit_to_worker.
LEMMA HelloCredit ==
  ASSUME HInv, HInv', Addressed, NEW a \in Agents, RecvHello(a)
  PROVE  LET s0 == Head(toSplitter[a]).split
         IN IF ~active
            THEN Kept
            ELSE /\ s0 \in Splits
                 /\ workers' = workers \cup {s0}
                 /\ granted' = [granted EXCEPT ![s0] = @ + 1]
                 /\ \A s \in Splits : s # s0 =>
                      Total(s)' = Total(s) /\ (s \notin workers => Spent(s)' = Spent(s))
                 /\ \A s \in Splits : s = s0 =>
                      Total(s)' = IF s \in workers THEN Total(s) + Credit ELSE Credit + Spent(s)
<1> DEFINE s0 == Head(toSplitter[a]).split
<1>1. TypeOK /\ TypeOK' /\ UNCHANGED <<netOut, toWorker>> /\ Credit \in Nat
  BY SplitAssumption DEF HInv, SInv, RecvHello, workerVars
<1>2. /\ s0 \in Splits /\ pc[Network] = "idle" /\ OutputOf[s0] \in Outputs
      /\ FromWorker(a, "WORKER_HELLO")
  <2>1. s0 \in Splits /\ pc[Network] = "idle" /\ FromWorker(a, "WORKER_HELLO")
    BY <1>1, FromWorkerFacts DEF RecvHello
  <2> QED BY <2>1, SplitAssumption
<1>3. ASSUME NEW s \in Splits
      PROVE  Sent(toSplitter', "WORKER_READY", s) = Sent(toSplitter, "WORKER_READY", s)
  <2>1. /\ Sent(toSplitter', "WORKER_READY", s) \in Nat
        /\ Sent(toSplitter, "WORKER_READY", s)
             = Sent(toSplitter', "WORKER_READY", s)
               + OneIf("WORKER_HELLO" = "WORKER_READY" /\ s0 = s)
    BY <1>1, <1>2, TakenCounted
  <2> QED BY <2>1 DEF OneIf
<1> HIDE DEF s0
<1>4. CASE ~active
  <2>1. UNCHANGED <<workers, credit, outbox, granted>>
    BY <1>4 DEF RecvHello, splitterVars, publisherVars
  <2>2. \A s \in Splits : Sent(toWorker, "SPLITTER_WORK", s) \in Nat
    BY <1>1, Counts
  <2> QED BY <1>1, <1>3, <1>4, <2>1, <2>2, KeptPieces
<1>5. CASE active
  <2>1. PICK n \in IF s0 \in workers THEN {uses[s0]} ELSE StartUses(OutputOf[s0]) :
          Trigger(Network, OutputOf[s0], workers \cup {s0},
                  [credit EXCEPT ![s0] = IF s0 \in workers THEN @ + Credit ELSE Credit],
                  [uses EXCEPT ![s0] = n], queue, "idle", None)
    BY <1>5 DEF RecvHello, s0
  <2>2. PICK cr : cr = [credit EXCEPT ![s0] = IF s0 \in workers THEN @ + Credit ELSE Credit]
    OBVIOUS
  <2>3. PICK ws, us, o : ws = workers \cup {s0} /\ us = [uses EXCEPT ![s0] = n] /\ o = OutputOf[s0]
    OBVIOUS
  <2>4. Trigger(Network, o, ws, cr, us, queue, "idle", None)
    BY <2>1, <2>2, <2>3
  <2>5. /\ credit \in [Splits -> Nat] /\ uses \in [Splits -> Nat] /\ ws \in SUBSET Splits
        /\ workers \in SUBSET Splits /\ o \in Outputs
    BY <1>1, <1>2, <2>3 DEF TypeOK
  <2>6. cr \in [Splits -> Nat]
    BY <1>1, <1>2, <2>2, <2>5
  <2>7. n \in Nat
    BY <1>2, <2>5 DEF StartUses
  <2>8. us \in [Splits -> Nat]
    BY <2>3, <2>5, <2>7
  <2>9. /\ workers' = ws
        /\ \A r \in Splits :
             /\ credit'[r] + Held(outbox', r) = cr[r] + Held(outbox, r)
             /\ r \notin ws => Held(outbox', r) = Held(outbox, r)
    BY <1>1, <1>2, <2>4, <2>5, <2>6, <2>8, NetworkCredit
  <2>10. ASSUME NEW s \in Splits
        PROVE  /\ Total(s)' = cr[s] + Spent(s)
               /\ s \notin ws => Spent(s)' = Spent(s)
    <3>1. PICK m \in Nat, r \in Nat, k \in Nat :
            /\ m = OneIf(Says(netOut[AgentOf[s]], "WORKER_READY", s))
            /\ r = Sent(toSplitter, "WORKER_READY", s)
            /\ k = Sent(toWorker, "SPLITTER_WORK", s)
      BY <1>1, Counts DEF OneIf
    <3>2. PICK h \in Nat, g \in Nat : h = Held(outbox, s) /\ g = Held(outbox', s)
      BY HeldType
    <3>3. Spent(s) = h + k + m + r /\ Spent(s)' = g + k + m + r
      BY <1>1, <1>3, <3>1, <3>2, SpentIs
    <3>4. cr[s] \in Nat /\ credit'[s] \in Nat
      BY <1>1, <2>6 DEF TypeOK
    <3>5. Total(s)' = credit'[s] + Spent(s)'
      BY DEF Total
    <3>6. credit'[s] + g = cr[s] + h /\ (s \notin ws => g = h)
      BY <2>9, <3>2
    <3> QED BY <3>3, <3>4, <3>5, <3>6
  <2>11. granted' = [granted EXCEPT ![s0] = @ + 1]
    BY <1>5 DEF RecvHello, s0
  <2>12. \A s \in Splits : s # s0 =>
           Total(s)' = Total(s) /\ (s \notin workers => Spent(s)' = Spent(s))
    <3>1. \A s \in Splits : s # s0 => cr[s] = credit[s]
      BY <2>2, <2>5
    <3> QED BY <2>3, <2>10, <3>1 DEF Total
  <2>13. ASSUME NEW s \in Splits, s = s0
         PROVE  Total(s)' = IF s \in workers THEN Total(s) + Credit ELSE Credit + Spent(s)
    <3>1. cr[s] = IF s \in workers THEN credit[s] + Credit ELSE Credit
      BY <2>2, <2>5, <2>13
    <3>2. credit[s] \in Nat /\ Spent(s) \in Nat
      <4>1. \A b : OneIf(b) \in Nat
        BY DEF OneIf
      <4> QED BY <1>1, <2>5, <4>1, Counts, SpentIs
    <3>3. Total(s) = credit[s] + Spent(s)
      BY DEF Total
    <3>4. Total(s)' = cr[s] + Spent(s)
      BY <2>10
    <3>5. PICK c \in Nat, p \in Nat : c = credit[s] /\ p = Spent(s)
      BY <3>2
    <3>6. Total(s)' = (IF s \in workers THEN c + Credit ELSE Credit) + p
      BY <3>1, <3>4, <3>5
    <3> QED BY <1>1, <3>3, <3>5, <3>6
  <2> QED BY <1>2, <1>5, <2>3, <2>9, <2>11, <2>12, <2>13 DEF s0
<1> QED BY <1>4, <1>5

\* split_remove_worker: the credit of the workers that leave is lost.
LEMMA RemoveLoses ==
  ASSUME HInv, HInv', Addressed, NEW a \in Agents, RecvGoodbye(a) \/ RecvAgentExit(a)
  PROVE  Lost
<1>1. TypeOK /\ TypeOK'
  BY DEF HInv, SInv
<1>2. UNCHANGED <<granted, outbox, toWorker, netOut>>
  BY DEF RecvGoodbye, RecvAgentExit, RemoveWorkers, publisherVars, workerVars
<1>3. \A s \in Splits : credit'[s] <= credit[s]
  <2>1. ASSUME NEW gone, RemoveWorkers(gone), NEW s \in Splits PROVE credit'[s] <= credit[s]
    <3>1. credit'[s] = IF s \in gone THEN 0 ELSE credit[s]
      BY <2>1 DEF RemoveWorkers
    <3> QED BY <1>1, <3>1 DEF TypeOK
  <2>2. UNCHANGED splitterVars => credit' = credit
    BY DEF splitterVars
  <2>3. \A s \in Splits : credit[s] \in Nat
    BY <1>1 DEF TypeOK
  <2> QED BY <2>1, <2>2, <2>3 DEF RecvGoodbye, RecvAgentExit
<1>4. ASSUME NEW s \in Splits
      PROVE  Sent(toSplitter', "WORKER_READY", s) = Sent(toSplitter, "WORKER_READY", s)
  <2>1. PICK type \in {"WORKER_GOODBYE", "REMOTE_AGENT_EXIT"} : FromWorker(a, type)
    BY DEF RecvGoodbye, RecvAgentExit
  <2>2. /\ Sent(toSplitter', "WORKER_READY", s) \in Nat
        /\ Sent(toSplitter, "WORKER_READY", s)
             = Sent(toSplitter', "WORKER_READY", s)
               + OneIf(type = "WORKER_READY" /\ Head(toSplitter[a]).split = s)
    BY <1>1, <2>1, TakenCounted
  <2> QED BY <2>2 DEF OneIf
<1>5. ASSUME NEW s \in Splits PROVE Total(s)' <= Total(s)
  <2>1. Spent(s)' = Spent(s)
    BY <1>2, <1>4, SpentIs
  <2>2. Spent(s) \in Nat
    <3>1. \A b : OneIf(b) \in Nat
      BY DEF OneIf
    <3> QED BY <1>1, <3>1, Counts, SpentIs
  <2>3. credit[s] \in Nat /\ credit'[s] \in Nat
    BY <1>1 DEF TypeOK
  <2> QED BY <1>3, <2>1, <2>2, <2>3 DEF Total
<1> QED BY <1>2, <1>5 DEF Lost

\* igs_channel_whisper_zmsg at a worker: what is whispered to a peer that is not
\* known there is lost.
LEMMA WhisperNetworkKeeps ==
  ASSUME HInv, HInv', Addressed, NEW a \in Agents, WhisperNetwork(a)
  PROVE  /\ Lost /\ UNCHANGED <<workers, credit>>
         /\ knows[a] \/ netOut[a].type = "WORKER_HELLO" => Kept
<1> DEFINE m == netOut[a]
<1>1. TypeOK /\ TypeOK' /\ m # None /\ m \in Own(a, ToSplitterMsgs) /\ SendToSplitter(a, m)
  BY DEF HInv, SInv, WhisperNetwork, Addressed
<1>2. /\ UNCHANGED <<workers, credit, granted, outbox, toWorker>>
      /\ netOut' = [netOut EXCEPT ![a] = None]
  BY DEF WhisperNetwork, publishingPeer, splitterVars, publisherVars
<1> HIDE DEF m
<1>3. \A s \in Splits :
        Sent(toSplitter', "WORKER_READY", s)
          = Sent(toSplitter, "WORKER_READY", s)
            + IF knows[a] THEN OneIf(m.type = "WORKER_READY" /\ m.split = s) ELSE 0
  BY <1>1, SendCounted
<1>4. ASSUME NEW s \in Splits
      PROVE  OneIf(Says(netOut[AgentOf[s]], "WORKER_READY", s))
               = OneIf(Says(netOut'[AgentOf[s]], "WORKER_READY", s))
                 + OneIf(m.type = "WORKER_READY" /\ m.split = s)
  <2>1. AgentOf[s] \in Agents /\ (m.split = s => AgentOf[s] = a)
    BY <1>1, SplitAssumption DEF Own, AgentMsgs
  <2>2. CASE AgentOf[s] = a
    <3>1. netOut'[AgentOf[s]] = None /\ netOut[AgentOf[s]] = m
      BY <1>1, <1>2, <2>2 DEF TypeOK, m
    <3> QED BY <1>1, <3>1 DEF Says, OneIf
  <2>3. CASE AgentOf[s] # a
    <3>1. netOut'[AgentOf[s]] = netOut[AgentOf[s]]
      BY <1>1, <1>2, <2>1, <2>3 DEF TypeOK
    <3>2. m.split # s
      BY <2>1, <2>3
    <3> QED BY <3>1, <3>2 DEF OneIf
  <2> QED BY <2>2, <2>3
<1>5. ASSUME NEW s \in Splits
      PROVE  /\ Total(s)' <= Total(s)
             /\ knows[a] \/ m.type = "WORKER_HELLO" =>
                  Total(s)' = Total(s) /\ Spent(s)' = Spent(s)
  <2>1. PICK n \in Nat, r \in Nat, k \in Nat, h \in Nat, d \in Nat :
          /\ n = OneIf(Says(netOut'[AgentOf[s]], "WORKER_READY", s))
          /\ r = Sent(toSplitter, "WORKER_READY", s)
          /\ k = Sent(toWorker, "SPLITTER_WORK", s)
          /\ h = Held(outbox, s)
          /\ d = OneIf(m.type = "WORKER_READY" /\ m.split = s)
    BY <1>1, Counts DEF OneIf
  <2>2. Spent(s) = h + k + (n + d) + r
    BY <1>4, <2>1, SpentIs
  <2>3. Spent(s)' = h + k + n + (r + IF knows[a] THEN d ELSE 0)
    BY <1>2, <1>3, <2>1, SpentIs
  <2>4. m.type = "WORKER_HELLO" => d = 0
    BY <2>1 DEF OneIf
  <2>5. credit[s] \in Nat /\ credit'[s] = credit[s]
    BY <1>1, <1>2 DEF TypeOK
  <2>6. Total(s) = credit[s] + Spent(s) /\ Total(s)' = credit'[s] + Spent(s)'
    BY DEF Total
  <2> QED BY <2>1, <2>2, <2>3, <2>4, <2>5, <2>6
<1> QED BY <1>2, <1>5 DEF Kept, Lost, m

\* Whatever happens, only a WORKER_HELLO brings credit.
LEMMA NextForged ==
  ASSUME HInv, HInv', Addressed, CreditNotForged, [Next]_vars
  PROVE  CreditNotForged'
<1>1. /\ TypeOK /\ TypeOK' /\ Credit \in Nat
  BY SplitAssumption DEF HInv, SInv
<1>2. \A s \in Splits : Total(s) \in Nat /\ Total(s)' \in Nat /\ granted[s] \in Nat
  <2>1. \A b : OneIf(b) \in Nat
    BY DEF OneIf
  <2>2. \A s \in Splits : Spent(s) \in Nat
    BY <1>1, <2>1, Counts, SpentIs
  <2>3. \A s \in Splits : Spent(s)' \in Nat
    <3> TAKE s \in Splits
    <3>1. Held(outbox', s) \in Nat
      BY HeldType
    <3>2. Sent(toWorker', "SPLITTER_WORK", s) \in Nat
      BY <1>1, SentType DEF TypeOK
    <3>3. Sent(toSplitter', "WORKER_READY", s) \in Nat
      BY <1>1, SentType DEF TypeOK
    <3> QED BY <2>1, <3>1, <3>2, <3>3, SpentIs
  <2>4. \A s \in Splits : credit[s] \in Nat /\ credit'[s] \in Nat /\ granted[s] \in Nat
    BY <1>1 DEF TypeOK
  <2> QED BY <2>2, <2>3, <2>4 DEF Total
<1>3. ASSUME Lost PROVE CreditNotForged'
  <2> SUFFICES ASSUME NEW s \in Splits PROVE Total(s)' <= Credit * granted'[s]
    BY DEF CreditNotForged, Total
  <2>1. Total(s) <= Credit * granted[s] /\ Total(s)' <= Total(s) /\ granted'[s] = granted[s]
    BY <1>3 DEF CreditNotForged, Total, Lost
  <2>2. Credit * granted[s] \in Nat
    BY <1>1, <1>2
  <2> QED BY <1>2, <2>1, <2>2
<1>4. Kept => Lost
  BY <1>2 DEF Kept, Lost
<1>5. ASSUME NEW a \in Agents, RecvHello(a) PROVE CreditNotForged'
  <2>1. CASE ~active
    BY <1>3, <1>4, <1>5, <2>1, HelloCredit
  <2>2. CASE active
    <3> DEFINE s0 == Head(toSplitter[a]).split
    <3>1. /\ granted' = [granted EXCEPT ![s0] = @ + 1]
          /\ \A s \in Splits : s # s0 => Total(s)' = Total(s)
          /\ \A s \in Splits : s = s0 =>
               Total(s)' = IF s \in workers THEN Total(s) + Credit ELSE Credit + Spent(s)
      BY <1>5, <2>2, HelloCredit
    <3> HIDE DEF s0
    <3> SUFFICES ASSUME NEW s \in Splits PROVE Total(s)' <= Credit * granted'[s]
      BY DEF CreditNotForged, Total
    <3>2. PICK g \in Nat, n \in Nat, p \in Nat, c \in Nat :
            g = granted[s] /\ n = Total(s) /\ p = Total(s)' /\ c = Credit
      BY <1>1, <1>2
    <3>3. n <= c * g
      BY <3>2 DEF CreditNotForged, Total
    <3>4. CASE s # s0
      <4>1. granted'[s] = g /\ p = n
        BY <1>1, <3>1, <3>2, <3>4 DEF TypeOK
      <4> QED BY <3>2, <3>3, <4>1
    <3>5. CASE s = s0
      <4>1. granted'[s] = g + 1
        BY <1>1, <3>1, <3>2, <3>5 DEF TypeOK
      <4>2. p <= n + c
        <5>1. p = IF s \in workers THEN n + c ELSE c + Spent(s)
          BY <3>1, <3>2, <3>5
        <5>2. n = credit[s] + Spent(s) /\ credit[s] \in Nat
          BY <1>1, <3>2 DEF Total, TypeOK
        <5>3. Spent(s) \in Nat
          <6>1. \A b : OneIf(b) \in Nat
            BY DEF OneIf
          <6> QED BY <1>1, <6>1, Counts, SpentIs
        <5> QED BY <5>1, <5>2, <5>3
      <4>3. c * (g + 1) = c * g + c /\ c * g \in Nat
        OBVIOUS
      <4> QED BY <3>2, <3>3, <4>1, <4>2, <4>3
    <3> QED BY <3>4, <3>5
  <2> QED BY <2>1, <2>2
<1>6. ASSUME NEW t \in Publishers, PublisherNext(t) PROVE CreditNotForged'
  <2>1. Kept
    BY <1>6, PublisherKeeps, WalkKeeps DEF PublisherNext
  <2> QED BY <1>3, <1>4, <2>1
<1>7. ASSUME NEW t \in Threads, WhisperWork(t) PROVE CreditNotForged'
  BY <1>3, <1>7, WhisperWorkKeeps
<1>8. CASE Deactivate \/ Activate \/ UNCHANGED vars
  <2>1. Kept
    BY <1>8, PublisherKeeps
  <2> QED BY <1>3, <1>4, <2>1
<1>9. CASE NetworkNext
  <2>1. CASE SendDefinition
    <3>1. Kept
      BY <2>1, PublisherKeeps
    <3> QED BY <1>3, <1>4, <3>1
  <2>2. ASSUME NEW a \in Agents, RecvReady(a) PROVE CreditNotForged'
    BY <1>3, <2>2, ReadyKeeps
  <2>3. ASSUME NEW a \in Agents, RecvGoodbye(a) \/ RecvAgentExit(a) PROVE CreditNotForged'
    BY <1>3, <2>3, RemoveLoses
  <2>4. ASSUME NEW a \in Agents, RecvDefinition(a) PROVE CreditNotForged'
    <3>1. Kept
      BY <2>4, PublisherKeeps
    <3> QED BY <1>3, <1>4, <3>1
  <2> QED BY <1>5, <1>9, <2>1, <2>2, <2>3, <2>4 DEF NetworkNext
<1>10. ASSUME NEW a \in Agents, WorkerUserNext(a) PROVE CreditNotForged'
  <2>1. Kept
    BY <1>10, WorkerUserKeeps
  <2> QED BY <1>3, <1>4, <2>1
<1>11. ASSUME NEW a \in Agents, WorkerNetworkNext(a) PROVE CreditNotForged'
  <2>1. CASE WhisperNetwork(a)
    BY <1>3, <2>1, WhisperNetworkKeeps
  <2>2. CASE ~WhisperNetwork(a)
    <3>1. Kept
      BY <1>11, <2>2, WorkKeeps, WorkerOtherKeeps DEF WorkerNetworkNext
    <3> QED BY <1>3, <1>4, <3>1
  <2> QED BY <2>1, <2>2
<1> QED BY <1>6, <1>7, <1>8, <1>9, <1>10, <1>11 DEF Next

-----------------------------------------------------------------------------
(***************************************************************************)
(* As long as users only publish.                                          *)
(***************************************************************************)
Calm == Still /\ Greeted /\ Unused /\ \A s \in workers : Total(s) = Credit

\* What can happen while users only publish.
LEMMA CalmSteps ==
  ASSUME TypeOK, Still, [Next]_vars, churn = 0, churn' = 0
  PROVE  \/ \E t \in Publishers : PublisherNext(t)
         \/ \E t \in Threads : WhisperWork(t)
         \/ SendDefinition \/ UNCHANGED vars
         \/ \E a \in Agents : \/ RecvHello(a) \/ RecvReady(a)
                              \/ RecvWork(a) \/ WorkerRecvDefinition(a)
                              \/ GreetNext(a) \/ WhisperNetwork(a)
<1>1. ASSUME NEW kind PROVE ~UserOperation(kind)
  BY DEF UserOperation
<1>2. ~Deactivate /\ ~Activate
  BY <1>1 DEF Deactivate, Activate
<1>3. ASSUME NEW a \in Agents, WorkerUserNext(a) PROVE FALSE
  BY <1>1, <1>3 DEF WorkerUserNext, SplitAdd, SplitRemove, WorkerDeactivate, WorkerActivate,
                    WhisperUser, Still
<1>4. ASSUME NEW a \in Agents, NEW type \in {"WORKER_GOODBYE", "REMOTE_AGENT_EXIT",
                                              "EXTERNAL_DEFINITION"}, FromWorker(a, type)
      PROVE  FALSE
  <2>1. toSplitter[a] # <<>> /\ Head(toSplitter[a]).type = type
    BY <1>4 DEF FromWorker
  <2>2. Head(toSplitter[a]) \in HelloMsgs \cup ReadyMsgs
    <3>1. toSplitter[a] \in Seq(HelloMsgs \cup ReadyMsgs)
      BY DEF Still
    <3> QED BY <2>1, <3>1, HeadTail
  <2> QED BY <2>1, <2>2 DEF HelloMsgs, ReadyMsgs
<1>5. ASSUME NEW a \in Agents, WorkerSendDefinition(a) PROVE FALSE
  BY <1>5 DEF WorkerSendDefinition, Still
<1>6. ASSUME NEW a \in Agents, WorkerRecvAgentExit(a) PROVE FALSE
  <2>1. toWorker[a] # <<>> /\ Head(toWorker[a]).type = "REMOTE_AGENT_EXIT"
    BY <1>6 DEF WorkerRecvAgentExit, FromSplitter
  <2>2. Head(toWorker[a]) \in WorkMsgs \cup {Definition}
    <3>1. toWorker[a] \in Seq(WorkMsgs \cup {Definition})
      BY DEF Still
    <3> QED BY <2>1, <3>1, HeadTail
  <2> QED BY <2>1, <2>2 DEF WorkMsgs, Definition, Message
<1>7. ASSUME NetworkNext
      PROVE  SendDefinition \/ \E a \in Agents : RecvHello(a) \/ RecvReady(a)
  BY <1>4, <1>7 DEF NetworkNext, RecvGoodbye, RecvAgentExit, RecvDefinition
<1>8. ASSUME NEW a \in Agents, WorkerNetworkNext(a)
      PROVE  RecvWork(a) \/ WorkerRecvDefinition(a) \/ GreetNext(a) \/ WhisperNetwork(a)
  BY <1>5, <1>6, <1>8 DEF WorkerNetworkNext
<1> QED BY <1>2, <1>3, <1>7, <1>8 DEF Next

\* User operations are counted for good.
LEMMA ChurnStays == ASSUME TypeOK, [Next]_vars, churn' = 0 PROVE churn = 0
<1>1. churn \in Nat
  BY SplitAssumption DEF TypeOK
<1>2. \A kind : ~UserOperation(kind)
  BY <1>1 DEF UserOperation
<1>3. CASE NetworkNext
  BY <1>3 DEF NetworkNext, SendDefinition, RecvHello, RecvReady, RecvGoodbye, RecvAgentExit,
              RecvDefinition
<1>4. ASSUME NEW a \in Agents, WorkerNetworkNext(a) PROVE churn' = churn
  BY <1>4 DEF WorkerNetworkNext, WorkerSendDefinition, RecvWork, WorkerRecvDefinition, GreetNext,
              WhisperNetwork, WorkerRecvAgentExit
<1>5. ASSUME NEW a \in Agents, WorkerUserNext(a) PROVE churn' = churn
  BY <1>2, <1>5 DEF WorkerUserNext, SplitAdd, SplitRemove, WorkerDeactivate, WorkerActivate,
                    WhisperUser
<1>6. ASSUME NEW t \in Publishers, PublisherNext(t) PROVE churn' = churn
  BY <1>6 DEF PublisherNext, Publish, WalkStep
<1>7. CASE (\E t \in Threads : WhisperWork(t)) \/ Deactivate \/ Activate \/ UNCHANGED vars
  BY <1>2, <1>7 DEF WhisperWork, Deactivate, Activate, vars
<1> QED BY <1>3, <1>4, <1>5, <1>6, <1>7 DEF Next

\* The greetings of a split element, piece by piece.
LEMMA HellosAre ==
  ASSUME NEW s \in Splits
  PROVE  /\ Hellos(s) = OneIf(Says(netOut[AgentOf[s]], "WORKER_HELLO", s))
                        + Sent(toSplitter, "WORKER_HELLO", s) + OneIf(s \in workers)
         /\ Hellos(s)' = OneIf(Says(netOut'[AgentOf[s]], "WORKER_HELLO", s))
                         + Sent(toSplitter', "WORKER_HELLO", s) + OneIf(s \in workers')
         /\ \A b : OneIf(b) \in {0, 1} /\ (b => OneIf(b) = 1) /\ (~b => OneIf(b) = 0)
BY DEF Hellos, OneIf

\* Who is spoken of has spent, or is greeted.
LEMMA ReadyCounts ==
  ASSUME TypeOK, Greeted, Unused, NEW s \in Splits,
         \/ Says(netOut[AgentOf[s]], "WORKER_READY", s)
         \/ Sent(toSplitter, "WORKER_READY", s) # 0
  PROVE  s \in workers /\ knows[AgentOf[s]]
<1>1. PICK h \in Nat, k \in Nat, r \in Nat, n \in {0, 1} :
        /\ h = Held(outbox, s) /\ k = Sent(toWorker, "SPLITTER_WORK", s)
        /\ r = Sent(toSplitter, "WORKER_READY", s)
        /\ n = OneIf(Says(netOut[AgentOf[s]], "WORKER_READY", s))
  BY Counts DEF OneIf
<1>2. n = 1 \/ r # 0
  BY <1>1 DEF OneIf
<1>3. Spent(s) = h + k + n + r
  BY <1>1, SpentIs
<1>4. Spent(s) # 0
  BY <1>2, <1>3
<1>5. s \in workers
  BY <1>4 DEF Unused
<1>6. Hellos(s) = 1
  <2>1. PICK i \in {0, 1}, j \in Nat :
          /\ i = OneIf(Says(netOut[AgentOf[s]], "WORKER_HELLO", s))
          /\ j = Sent(toSplitter, "WORKER_HELLO", s)
    BY Counts DEF OneIf
  <2>2. Hellos(s) = i + j + 1
    BY <1>5, <2>1, HellosAre
  <2>3. Hellos(s) <= 1
    BY DEF Greeted
  <2> QED BY <2>1, <2>2, <2>3
<1> QED BY <1>5, <1>6 DEF Greeted

\* A worker that is greeted is greeted once.
LEMMA HelloCounts ==
  ASSUME TypeOK, Greeted, NEW s \in Splits,
         \/ Says(netOut[AgentOf[s]], "WORKER_HELLO", s)
         \/ Sent(toSplitter, "WORKER_HELLO", s) # 0
  PROVE  /\ s \notin workers /\ knows[AgentOf[s]]
         /\ OneIf(Says(netOut[AgentOf[s]], "WORKER_HELLO", s))
              + Sent(toSplitter, "WORKER_HELLO", s) = 1
<1>1. PICK i \in {0, 1}, j \in Nat, k \in {0, 1} :
        /\ i = OneIf(Says(netOut[AgentOf[s]], "WORKER_HELLO", s))
        /\ j = Sent(toSplitter, "WORKER_HELLO", s)
        /\ k = OneIf(s \in workers)
  BY Counts DEF OneIf
<1>2. i = 1 \/ j # 0
  BY <1>1 DEF OneIf
<1>3. Hellos(s) = i + j + k /\ Hellos(s) <= 1
  BY <1>1, HellosAre DEF Greeted
<1>4. i + j = 1 /\ k = 0 /\ Hellos(s) = 1
  BY <1>2, <1>3
<1> QED BY <1>1, <1>4 DEF Greeted, OneIf

\* Nobody comes, goes or is edited.
LEMMA StillFrame ==
  ASSUME Still, UNCHANGED <<active, remotes, elements, userOut, wannounce>>,
         \A a \in Agents :
           /\ greeting'[a] => knows'[a]
           /\ toWorker'[a] \in Seq(WorkMsgs \cup {Definition})
           /\ toSplitter'[a] \in Seq(HelloMsgs \cup ReadyMsgs)
  PROVE  Still'
BY DEF Still

\* Publishing does not change who is there.
LEMMA CalmStill ==
  ASSUME HInv, Calm, [Next]_vars, churn = 0, churn' = 0
  PROVE  Still'
<1> DEFINE In == WorkMsgs \cup {Definition}
           Out == HelloMsgs \cup ReadyMsgs
<1>1. /\ TypeOK /\ Still
      /\ \A a \in Agents : toWorker[a] \in Seq(In) /\ toSplitter[a] \in Seq(Out)
      /\ \A a \in Agents : greeting[a] => knows[a]
  BY DEF HInv, SInv, Calm, Still
<1>2. ASSUME NEW a \in Agents, toSplitter[a] # <<>>, toSplitter' = [toSplitter EXCEPT ![a] = Tail(@)]
      PROVE  \A b \in Agents : toSplitter'[b] \in Seq(Out)
  <2>1. Tail(toSplitter[a]) \in Seq(Out)
    BY <1>1, <1>2, HeadTail
  <2>2. \A b \in Agents : toSplitter'[b] = IF b = a THEN Tail(toSplitter[a]) ELSE toSplitter[b]
    BY <1>1, <1>2 DEF TypeOK
  <2> HIDE DEF Out
  <2> QED BY <1>1, <2>1, <2>2
<1>3. ASSUME NEW a \in Agents, toWorker[a] # <<>>, toWorker' = [toWorker EXCEPT ![a] = Tail(@)]
      PROVE  \A b \in Agents : toWorker'[b] \in Seq(In)
  <2>1. Tail(toWorker[a]) \in Seq(In)
    BY <1>1, <1>3, HeadTail
  <2>2. \A b \in Agents : toWorker'[b] = IF b = a THEN Tail(toWorker[a]) ELSE toWorker[b]
    BY <1>1, <1>3 DEF TypeOK
  <2> HIDE DEF In
  <2> QED BY <1>1, <2>1, <2>2
<1>4. ASSUME NEW t \in Publishers, PublisherNext(t) PROVE Still'
  <2>1. /\ UNCHANGED <<active, remotes, elements, userOut, wannounce, greeting, knows>>
        /\ UNCHANGED <<toWorker, toSplitter>>
    BY <1>4 DEF PublisherNext, Publish, WalkStep, workerVars
  <2> QED BY <1>1, <2>1, StillFrame
<1>5. ASSUME NEW t \in Threads, WhisperWork(t) PROVE Still'
  <2>1. UNCHANGED <<active, remotes, elements, userOut, wannounce, greeting, knows, toSplitter>>
    BY <1>5 DEF WhisperWork, workerVars
  <2>2. outbox[t] \in In
    BY <1>5 DEF HInv, SInv, WhisperWork, Walking
  <2>3. \A b \in Agents : toWorker'[b] \in {toWorker[b], Append(toWorker[b], outbox[t])}
    BY <1>1, <1>5 DEF WhisperWork, TypeOK
  <2>4. \A b \in Agents : toWorker'[b] \in Seq(In)
    <3> TAKE b \in Agents
    <3>1. toWorker[b] \in Seq(In) /\ Append(toWorker[b], outbox[t]) \in Seq(In)
      BY <1>1, <2>2, AppendItems
    <3> QED BY <2>3, <3>1
  <2> QED BY <1>1, <2>1, <2>4, StillFrame
<1>6. CASE SendDefinition
  <2>1. UNCHANGED <<active, remotes, elements, userOut, wannounce, greeting, knows, toSplitter>>
    BY <1>6 DEF SendDefinition, workerVars
  <2>2. \A b \in Agents : toWorker'[b] \in Seq(In)
    <3> TAKE b \in Agents
    <3>1. toWorker'[b] = Append(toWorker[b], Definition)
      BY <1>6 DEF SendDefinition
    <3> QED BY <1>1, <3>1, AppendItems
  <2> QED BY <1>1, <2>1, <2>2, StillFrame
<1>7. CASE UNCHANGED vars
  <2>1. UNCHANGED <<active, remotes, elements, userOut, wannounce, greeting, knows, toWorker, toSplitter>>
    BY <1>7 DEF vars, workerVars
  <2> QED BY <1>1, <2>1, StillFrame
<1>8. ASSUME NEW a \in Agents, RecvHello(a) \/ RecvReady(a) PROVE Still'
  <2>1. UNCHANGED <<active, remotes, elements, userOut, wannounce, greeting, knows, toWorker>>
    BY <1>8 DEF RecvHello, RecvReady, workerVars
  <2>2. toSplitter[a] # <<>> /\ toSplitter' = [toSplitter EXCEPT ![a] = Tail(@)]
    BY <1>8 DEF RecvHello, RecvReady, FromWorker
  <2> QED BY <1>1, <1>2, <2>1, <2>2, StillFrame
<1>9. ASSUME NEW a \in Agents, RecvWork(a) \/ WorkerRecvDefinition(a) PROVE Still'
  <2>1. UNCHANGED <<active, remotes, elements, userOut, wannounce, toSplitter>>
    BY <1>9 DEF RecvWork, WorkerRecvDefinition, publishingPeer
  <2>2. toWorker[a] # <<>> /\ toWorker' = [toWorker EXCEPT ![a] = Tail(@)]
    BY <1>9 DEF RecvWork, WorkerRecvDefinition, FromSplitter
  <2>3. \A b \in Agents : greeting'[b] => knows'[b]
    BY <1>1, <1>9 DEF RecvWork, WorkerRecvDefinition, TypeOK
  <2> QED BY <1>1, <1>3, <2>1, <2>2, <2>3, StillFrame
<1>10. ASSUME NEW a \in Agents, GreetNext(a) PROVE Still'
  <2>1. UNCHANGED <<active, remotes, elements, userOut, wannounce, toSplitter, toWorker>>
    BY <1>10 DEF GreetNext, publishingPeer
  <2>2. \A b \in Agents : greeting'[b] => knows'[b]
    BY <1>1, <1>10 DEF GreetNext, TypeOK
  <2> QED BY <1>1, <2>1, <2>2, StillFrame
<1>11. ASSUME NEW a \in Agents, WhisperNetwork(a) PROVE Still'
  <2>1. UNCHANGED <<active, remotes, elements, userOut, wannounce, knows, greeting, toWorker>>
    BY <1>11 DEF WhisperNetwork, publishingPeer
  <2>2. netOut[a] \in Out
    BY <1>1, <1>11 DEF WhisperNetwork, TypeOK
  <2>3. \A b \in Agents : toSplitter'[b] \in {toSplitter[b], Append(toSplitter[b], netOut[a])}
    BY <1>1, <1>11 DEF WhisperNetwork, SendToSplitter, TypeOK
  <2>4. \A b \in Agents : toSplitter'[b] \in Seq(Out)
    <3> TAKE b \in Agents
    <3> HIDE DEF Out
    <3>1. toSplitter[b] \in Seq(Out) /\ Append(toSplitter[b], netOut[a]) \in Seq(Out)
      BY <1>1, <2>2, AppendItems
    <3> QED BY <2>3, <3>1
  <2> QED BY <1>1, <2>1, <2>4, StillFrame
<1> QED BY <1>1, <1>4, <1>5, <1>6, <1>7, <1>8, <1>9, <1>10, <1>11, CalmSteps

\* split_message_from_worker finds as many WORKER_HELLOs as workers are missing.
LEMMA GreetedFrame ==
  ASSUME Greeted, UNCHANGED <<knows, greeting, cursor, elements>>,
         \A s \in Splits : Hellos(s)' = Hellos(s)
  PROVE  Greeted'
BY DEF Greeted, Passed

\* Steps that have nothing to do with greetings.
LEMMA HellosFrame ==
  ASSUME UNCHANGED <<netOut, toSplitter, workers>>
  PROVE  \A s \in Splits : Hellos(s)' = Hellos(s)
BY HellosAre

\* Publications, works and announcements greet nobody.
LEMMA PublisherGreeted ==
  ASSUME HInv, HInv', Addressed, Calm, churn = 0, churn' = 0, [Next]_vars,
         \/ \E t \in Publishers : PublisherNext(t)
         \/ \E t \in Threads : WhisperWork(t)
         \/ SendDefinition \/ UNCHANGED vars
  PROVE  Greeted'
<1>1. UNCHANGED <<netOut, toSplitter, knows, greeting, cursor, elements>>
  BY DEF PublisherNext, Publish, WalkStep, WhisperWork, SendDefinition, vars, workerVars
<1>2. workers' = workers
  BY DEF PublisherNext, Publish, WalkStep, WhisperWork, SendDefinition, vars, splitterVars, Trigger
<1> QED BY <1>1, <1>2, HellosFrame, GreetedFrame DEF Calm

\* WORKER_HELLO becomes a worker, WORKER_READY leaves greetings alone.
LEMMA NetworkGreeted ==
  ASSUME HInv, HInv', Addressed, Calm, NEW a \in Agents, RecvHello(a) \/ RecvReady(a)
  PROVE  Greeted'
<1>1. /\ TypeOK /\ Greeted /\ active
      /\ UNCHANGED <<netOut, knows, greeting, cursor, elements>>
  BY DEF HInv, SInv, Calm, Still, RecvHello, RecvReady, workerVars
<1>2. CASE RecvReady(a)
  <2>1. workers' = workers /\ FromWorker(a, "WORKER_READY")
    BY <1>2, ReadyKeeps DEF RecvReady
  <2>2. ASSUME NEW s \in Splits
        PROVE  Sent(toSplitter', "WORKER_HELLO", s) = Sent(toSplitter, "WORKER_HELLO", s)
    <3>1. /\ Sent(toSplitter', "WORKER_HELLO", s) \in Nat
          /\ Sent(toSplitter, "WORKER_HELLO", s)
               = Sent(toSplitter', "WORKER_HELLO", s)
                 + OneIf("WORKER_READY" = "WORKER_HELLO" /\ Head(toSplitter[a]).split = s)
      BY <1>1, <2>1, TakenCounted
    <3> QED BY <3>1 DEF OneIf
  <2>3. \A s \in Splits : Hellos(s)' = Hellos(s)
    BY <1>1, <2>1, <2>2, HellosAre
  <2> QED BY <1>1, <2>3, GreetedFrame
<1>3. CASE RecvHello(a)
  <2>1. PICK s0 : s0 = Head(toSplitter[a]).split
    OBVIOUS
  <2>2. FromWorker(a, "WORKER_HELLO") /\ workers' = workers \cup {s0} /\ s0 \in Splits
    BY <1>1, <1>3, <2>1, HelloCredit DEF RecvHello
  <2>3. ASSUME NEW s \in Splits
        PROVE  /\ Sent(toSplitter', "WORKER_HELLO", s) \in Nat
               /\ Sent(toSplitter, "WORKER_HELLO", s)
                    = Sent(toSplitter', "WORKER_HELLO", s) + OneIf(s0 = s)
    <3>1. /\ Sent(toSplitter', "WORKER_HELLO", s) \in Nat
          /\ Sent(toSplitter, "WORKER_HELLO", s)
               = Sent(toSplitter', "WORKER_HELLO", s)
                 + OneIf("WORKER_HELLO" = "WORKER_HELLO" /\ Head(toSplitter[a]).split = s)
      BY <1>1, <2>2, TakenCounted
    <3> QED BY <2>1, <3>1
  <2>4. s0 \notin workers
    <3>1. Sent(toSplitter, "WORKER_HELLO", s0) # 0
      BY <2>2, <2>3 DEF OneIf
    <3> QED BY <1>1, <2>2, <3>1, HelloCounts
  <2>5. ASSUME NEW s \in Splits PROVE Hellos(s)' = Hellos(s)
    <3>1. PICK i \in {0, 1}, j \in Nat :
            /\ i = OneIf(Says(netOut[AgentOf[s]], "WORKER_HELLO", s))
            /\ j = Sent(toSplitter', "WORKER_HELLO", s)
      BY <2>3 DEF OneIf
    <3>2. Hellos(s) = i + (j + OneIf(s0 = s)) + OneIf(s \in workers)
      BY <2>3, <3>1, HellosAre
    <3>3. Hellos(s)' = i + j + OneIf(s \in workers')
      BY <1>1, <3>1, HellosAre
    <3>4. OneIf(s \in workers') = OneIf(s0 = s) + OneIf(s \in workers)
      BY <2>2, <2>4 DEF OneIf
    <3>5. OneIf(s0 = s) \in Nat /\ OneIf(s \in workers) \in Nat
      BY DEF OneIf
    <3> QED BY <3>2, <3>3, <3>4, <3>5
  <2> QED BY <1>1, <2>5, GreetedFrame
<1> QED BY <1>2, <1>3

\* The loop that greets goes over each split element once.
LEMMA WorkerGreeted ==
  ASSUME HInv, HInv', Addressed, Calm, NEW a \in Agents,
         RecvWork(a) \/ WorkerRecvDefinition(a) \/ WhisperNetwork(a)
  PROVE  Greeted'
<1>1. /\ TypeOK /\ Greeted /\ Unused /\ Still
      /\ UNCHANGED <<workers, elements>>
  BY DEF HInv, SInv, Calm, RecvWork, WorkerRecvDefinition, WhisperNetwork, publishingPeer,
         splitterVars
<1>2. CASE RecvWork(a)
  <2>1. /\ UNCHANGED <<knows, greeting, cursor, toSplitter>>
        /\ netOut[a] = None
        /\ netOut' = [netOut EXCEPT ![a] = Ready(Head(toWorker[a]).split, Head(toWorker[a]).work)]
    BY <1>2 DEF RecvWork, FromSplitter, WorkerNetworkReady
  <2>2. ASSUME NEW s \in Splits
        PROVE  OneIf(Says(netOut'[AgentOf[s]], "WORKER_HELLO", s))
                 = OneIf(Says(netOut[AgentOf[s]], "WORKER_HELLO", s))
    <3>1. AgentOf[s] \in Agents
      BY SplitAssumption
    <3>2. netOut'[AgentOf[s]] = IF AgentOf[s] = a
                                THEN Ready(Head(toWorker[a]).split, Head(toWorker[a]).work)
                                ELSE netOut[AgentOf[s]]
      BY <1>1, <2>1, <3>1 DEF TypeOK
    <3>3. Ready(Head(toWorker[a]).split, Head(toWorker[a]).work).type # "WORKER_HELLO"
      BY DEF Ready, Message
    <3> QED BY <2>1, <3>2, <3>3 DEF Says, OneIf
  <2>3. \A s \in Splits : Hellos(s)' = Hellos(s)
    BY <1>1, <2>1, <2>2, HellosAre
  <2> QED BY <1>1, <2>1, <2>3, GreetedFrame
<1>3. CASE WorkerRecvDefinition(a)
  <2>1. /\ UNCHANGED <<netOut, toSplitter>>
        /\ knows' = [knows EXCEPT ![a] = TRUE]
        /\ greeting' = [greeting EXCEPT ![a] = ~knows[a] /\ wactive[a]]
        /\ cursor' = [cursor EXCEPT ![a] = IF knows[a] THEN @ ELSE 0]
        /\ ~greeting[a]
    BY <1>3 DEF WorkerRecvDefinition, FromSplitter, WorkerNetworkReady
  <2>2. \A s \in Splits : Hellos(s)' = Hellos(s)
    BY <1>1, <2>1, HellosFrame
  <2> SUFFICES ASSUME NEW s \in Splits, Hellos(s)' = 1
               PROVE  knows'[AgentOf[s]] /\ (greeting'[AgentOf[s]] => Passed(s)')
    BY <1>1, <2>2 DEF Greeted
  <2>3. AgentOf[s] \in Agents /\ knows[AgentOf[s]] /\ (greeting[AgentOf[s]] => Passed(s))
    BY <1>1, <2>2, SplitAssumption DEF Greeted
  <2>4. CASE AgentOf[s] = a
    <3>1. knows'[a] /\ ~greeting'[a]
      BY <1>1, <2>1, <2>3, <2>4 DEF TypeOK
    <3> QED BY <2>4, <3>1
  <2>5. CASE AgentOf[s] # a
    <3>1. /\ knows'[AgentOf[s]] = knows[AgentOf[s]] /\ greeting'[AgentOf[s]] = greeting[AgentOf[s]]
          /\ cursor'[AgentOf[s]] = cursor[AgentOf[s]]
      BY <1>1, <2>1, <2>3, <2>5 DEF TypeOK
    <3> QED BY <1>1, <2>3, <3>1 DEF Passed
  <2> QED BY <2>4, <2>5
<1>4. CASE WhisperNetwork(a)
  <2> DEFINE m == netOut[a]
  <2>1. /\ UNCHANGED <<knows, greeting, cursor>>
        /\ m # None /\ m \in Own(a, ToSplitterMsgs) /\ SendToSplitter(a, m)
        /\ netOut' = [netOut EXCEPT ![a] = None]
    BY <1>4 DEF WhisperNetwork, Addressed
  <2> HIDE DEF m
  <2>2. \A s \in Splits :
          Sent(toSplitter', "WORKER_HELLO", s)
            = Sent(toSplitter, "WORKER_HELLO", s)
              + IF knows[a] THEN OneIf(m.type = "WORKER_HELLO" /\ m.split = s) ELSE 0
    BY <1>1, <2>1, SendCounted
  <2>3. ASSUME NEW s \in Splits
        PROVE  /\ OneIf(Says(netOut[AgentOf[s]], "WORKER_HELLO", s))
                    = OneIf(Says(netOut'[AgentOf[s]], "WORKER_HELLO", s))
                      + OneIf(m.type = "WORKER_HELLO" /\ m.split = s)
               /\ m.type = "WORKER_HELLO" /\ m.split = s => knows[a]
    <3>1. AgentOf[s] \in Agents /\ (m.split = s => AgentOf[s] = a)
      BY <2>1, SplitAssumption DEF Own, AgentMsgs
    <3>2. CASE AgentOf[s] = a
      <4>1. netOut'[AgentOf[s]] = None /\ netOut[AgentOf[s]] = m
        BY <1>1, <2>1, <3>2 DEF TypeOK, m
      <4>2. ASSUME m.type = "WORKER_HELLO", m.split = s PROVE knows[a]
        <5>1. Says(netOut[AgentOf[s]], "WORKER_HELLO", s)
          BY <2>1, <4>1, <4>2 DEF Says
        <5> QED BY <1>1, <3>2, <5>1, HelloCounts
      <4> QED BY <2>1, <4>1, <4>2 DEF Says, OneIf
    <3>3. CASE AgentOf[s] # a
      <4>1. netOut'[AgentOf[s]] = netOut[AgentOf[s]]
        BY <1>1, <2>1, <3>1, <3>3 DEF TypeOK
      <4>2. m.split # s
        BY <3>1, <3>3
      <4> QED BY <4>1, <4>2 DEF OneIf
    <3> QED BY <3>2, <3>3
  <2>4. ASSUME NEW s \in Splits PROVE Hellos(s)' = Hellos(s)
    <3>1. PICK i \in {0, 1}, j \in Nat, d \in {0, 1}, k \in {0, 1} :
            /\ i = OneIf(Says(netOut'[AgentOf[s]], "WORKER_HELLO", s))
            /\ j = Sent(toSplitter, "WORKER_HELLO", s)
            /\ d = OneIf(m.type = "WORKER_HELLO" /\ m.split = s)
            /\ k = OneIf(s \in workers)
      BY <1>1, Counts DEF OneIf
    <3>2. Hellos(s) = (i + d) + j + k
      BY <2>3, <3>1, HellosAre
    <3>3. Hellos(s)' = i + (j + IF knows[a] THEN d ELSE 0) + k
      BY <1>1, <2>2, <3>1, HellosAre
    <3>4. ~knows[a] => d = 0
      BY <2>3, <3>1 DEF OneIf
    <3> QED BY <3>1, <3>2, <3>3, <3>4
  <2> QED BY <1>1, <2>1, <2>4, GreetedFrame
<1> QED BY <1>2, <1>3, <1>4

\* The loop on the split elements greets the one after its cursor.
LEMMA GreetGreeted ==
  ASSUME HInv, HInv', Addressed, Calm, NEW a \in Agents, GreetNext(a)
  PROVE  Greeted'
<1>1. /\ TypeOK /\ Greeted /\ Still /\ greeting[a] /\ knows[a] /\ netOut[a] = None
      /\ UNCHANGED <<workers, elements, knows, toSplitter>>
  BY DEF HInv, SInv, Calm, GreetNext, publishingPeer, splitterVars, Still
<1>2. CASE /\ cursor[a] >= Len(elements[a])
           /\ greeting' = [greeting EXCEPT ![a] = FALSE]
           /\ cursor' = [cursor EXCEPT ![a] = 0]
           /\ UNCHANGED netOut
  <2>1. \A s \in Splits : Hellos(s)' = Hellos(s)
    BY <1>1, <1>2, HellosFrame
  <2> SUFFICES ASSUME NEW s \in Splits, Hellos(s)' = 1
               PROVE  knows'[AgentOf[s]] /\ (greeting'[AgentOf[s]] => Passed(s)')
    BY <1>1, <2>1 DEF Greeted
  <2>2. AgentOf[s] \in Agents /\ knows[AgentOf[s]] /\ (greeting[AgentOf[s]] => Passed(s))
    BY <1>1, <2>1, SplitAssumption DEF Greeted
  <2>3. CASE AgentOf[s] = a
    BY <1>1, <1>2, <2>2, <2>3 DEF TypeOK
  <2>4. CASE AgentOf[s] # a
    <3>1. /\ greeting'[AgentOf[s]] = greeting[AgentOf[s]]
          /\ cursor'[AgentOf[s]] = cursor[AgentOf[s]]
      BY <1>1, <1>2, <2>2, <2>4 DEF TypeOK
    <3> QED BY <1>1, <2>2, <3>1 DEF Passed
  <2> QED BY <2>3, <2>4
<1>3. CASE /\ cursor[a] < Len(elements[a])
           /\ netOut' = [netOut EXCEPT ![a] = Hello(elements[a][cursor[a] + 1])]
           /\ cursor' = [cursor EXCEPT ![a] = @ + 1]
           /\ UNCHANGED greeting
  <2> DEFINE n == cursor[a] + 1
  <2>1. /\ n \in 1..Len(elements[a]) /\ cursor[a] \in Nat /\ elements[a] = InitialSplits[a]
        /\ InitialSplits[a] \in Seq(Splits)
    <3>1. elements[a] = InitialSplits[a]
      BY <1>1 DEF Still
    <3>2. InitialSplits[a] \in Seq(Splits)
      BY SplitAssumption
    <3>3. cursor[a] \in Nat
      BY <1>1 DEF TypeOK
    <3>4. Len(elements[a]) \in Nat
      BY <3>1, <3>2
    <3> QED BY <1>3, <3>1, <3>2, <3>3, <3>4
  <2>2. PICK e \in Splits : e = elements[a][n]
    BY <2>1
  <2>3. AgentOf[e] = a /\ \A i \in 1..Len(elements[a]) : elements[a][i] = e => i = n
    BY <2>1, <2>2, SplitAssumption
  <2>4. cursor'[a] = n /\ netOut'[a] = Hello(e)
    BY <1>1, <1>3, <2>2 DEF TypeOK
  <2>5. ~Passed(e)
    <3> SUFFICES ASSUME NEW i \in 1..Len(elements[a]), i <= cursor[a], elements[a][i] = e
                 PROVE  FALSE
      BY <2>3 DEF Passed
    <3>1. i = n
      BY <2>3
    <3> QED BY <2>1, <3>1
  <2>6. Hellos(e) # 1
    BY <1>1, <2>3, <2>5 DEF Greeted
  <2>7. /\ Hello(e).type = "WORKER_HELLO" /\ Hello(e).split = e /\ Hello(e) # None
    BY <2>2, NoneIsNoMessage DEF Hello, Message, HelloMsgs
  <2>8. ASSUME NEW s \in Splits PROVE Hellos(s)' = Hellos(s) + OneIf(s = e)
    <3>1. PICK i \in {0, 1}, j \in Nat, k \in {0, 1} :
            /\ i = OneIf(Says(netOut[AgentOf[s]], "WORKER_HELLO", s))
            /\ j = Sent(toSplitter, "WORKER_HELLO", s)
            /\ k = OneIf(s \in workers)
      BY <1>1, Counts DEF OneIf
    <3>2. Hellos(s) = i + j + k
      BY <3>1, HellosAre
    <3>3. OneIf(Says(netOut'[AgentOf[s]], "WORKER_HELLO", s)) = i + OneIf(s = e)
      <4>1. AgentOf[s] \in Agents
        BY SplitAssumption
      <4>2. CASE AgentOf[s] = a
        BY <1>1, <2>4, <2>7, <3>1, <4>2 DEF Says, OneIf
      <4>3. CASE AgentOf[s] # a
        <5>1. netOut'[AgentOf[s]] = netOut[AgentOf[s]]
          BY <1>1, <1>3, <4>1, <4>3 DEF TypeOK
        <5> QED BY <2>3, <3>1, <4>3, <5>1 DEF OneIf
      <4> QED BY <4>2, <4>3
    <3>4. Hellos(s)' = (i + OneIf(s = e)) + j + k
      BY <1>1, <3>1, <3>3, HellosAre
    <3>5. OneIf(s = e) \in Nat
      BY DEF OneIf
    <3> QED BY <3>1, <3>2, <3>4, <3>5
  <2>9. ASSUME NEW s \in Splits, s # e
        PROVE  /\ Hellos(s)' <= 1
               /\ Hellos(s)' = 1 => knows'[AgentOf[s]] /\ (greeting'[AgentOf[s]] => Passed(s)')
    <3>1. Hellos(s)' = Hellos(s)
      <4>1. Hellos(s) \in Nat
        BY <1>1, Counts DEF Hellos, OneIf
      <4> QED BY <2>8, <2>9, <4>1 DEF OneIf
    <3>2. Hellos(s) <= 1 /\ (Hellos(s) = 1 => knows[AgentOf[s]] /\ (greeting[AgentOf[s]] => Passed(s)))
      BY <1>1 DEF Greeted
    <3>3. Passed(s) => Passed(s)'
      <4> SUFFICES ASSUME NEW i \in 1..Len(elements[AgentOf[s]]), i <= cursor[AgentOf[s]],
                          elements[AgentOf[s]][i] = s
                   PROVE  i <= cursor'[AgentOf[s]]
        BY <1>1 DEF Passed
      <4>1. AgentOf[s] \in Agents
        BY SplitAssumption
      <4>2. cursor'[AgentOf[s]] = IF AgentOf[s] = a THEN n ELSE cursor[AgentOf[s]]
        BY <1>1, <1>3, <4>1 DEF TypeOK
      <4> QED BY <2>1, <4>2
    <3> QED BY <1>1, <1>3, <3>1, <3>2, <3>3
  <2>10. Hellos(e)' <= 1 /\ knows'[AgentOf[e]] /\ Passed(e)'
    <3>1. Hellos(e)' = Hellos(e) + 1
      BY <2>8 DEF OneIf
    <3>2. Hellos(e) \in Nat /\ Hellos(e) <= 1
      BY <1>1, Counts DEF Hellos, OneIf, Greeted
    <3>3. Passed(e)'
      <4>1. n \in 1..Len(elements'[a]) /\ n <= cursor'[a] /\ elements'[a][n] = e
        BY <1>1, <2>1, <2>2, <2>4
      <4> HIDE DEF n
      <4> QED BY <2>3, <4>1 DEF Passed
    <3> QED BY <1>1, <2>3, <2>6, <3>1, <3>2, <3>3
  <2> QED BY <2>9, <2>10 DEF Greeted
<1> QED BY <1>2, <1>3 DEF GreetNext

\* A worker has what its greeting brought.
LEMMA KeptCredit ==
  ASSUME Calm, Kept
  PROVE  Unused' /\ \A s \in workers' : s \in Splits => Total(s)' = Credit
<1>1. Unused'
  BY DEF Calm, Kept, Unused
<1> QED BY <1>1 DEF Calm, Kept

\* The one WORKER_HELLO of a split element creates its worker.
LEMMA HelloCreditCalm ==
  ASSUME HInv, HInv', Addressed, Calm, NEW a \in Agents, RecvHello(a)
  PROVE  Unused' /\ \A s \in workers' : s \in Splits => Total(s)' = Credit
<1> DEFINE s0 == Head(toSplitter[a]).split
<1>1. TypeOK /\ active /\ Greeted /\ Unused
  BY DEF HInv, SInv, Calm, Still
<1>2. /\ s0 \in Splits
      /\ workers' = workers \cup {s0}
      /\ \A s \in Splits : s # s0 =>
           Total(s)' = Total(s) /\ (s \notin workers => Spent(s)' = Spent(s))
      /\ \A s \in Splits : s = s0 =>
           Total(s)' = IF s \in workers THEN Total(s) + Credit ELSE Credit + Spent(s)
  BY <1>1, HelloCredit
<1>3. /\ Sent(toSplitter', "WORKER_HELLO", s0) \in Nat
      /\ Sent(toSplitter, "WORKER_HELLO", s0) = Sent(toSplitter', "WORKER_HELLO", s0) + 1
  <2>1. FromWorker(a, "WORKER_HELLO")
    BY DEF RecvHello
  <2>2. \A s \in Splits :
          /\ Sent(toSplitter', "WORKER_HELLO", s) \in Nat
          /\ Sent(toSplitter, "WORKER_HELLO", s)
               = Sent(toSplitter', "WORKER_HELLO", s)
                 + OneIf("WORKER_HELLO" = "WORKER_HELLO" /\ Head(toSplitter[a]).split = s)
    BY <1>1, <2>1, TakenCounted
  <2> QED BY <1>2, <2>2 DEF OneIf
<1> HIDE DEF s0
<1>4. s0 \notin workers
  <2>1. Sent(toSplitter, "WORKER_HELLO", s0) # 0
    BY <1>3
  <2> QED BY <1>1, <1>2, <2>1, HelloCounts
<1>5. Spent(s0) = 0
  BY <1>1, <1>2, <1>4 DEF Unused
<1>6. ASSUME NEW s \in Splits, s = s0 PROVE Total(s)' = Credit
  <2>1. Total(s)' = Credit + Spent(s) /\ Spent(s) = 0
    BY <1>2, <1>4, <1>5, <1>6
  <2> QED BY <2>1, SplitAssumption
<1>7. ASSUME NEW s \in Splits, s # s0
      PROVE  /\ s \in workers' => Total(s)' = Credit
             /\ s \notin workers' => Spent(s)' = 0
  BY <1>1, <1>2, <1>7 DEF Calm, Unused
<1> QED BY <1>2, <1>6, <1>7 DEF Unused

\* As long as users only publish, no credit is lost or made twice.
LEMMA CalmCredit ==
  ASSUME HInv, HInv', Addressed, Calm, [Next]_vars, churn = 0, churn' = 0
  PROVE  Unused' /\ \A s \in workers' : s \in Splits => Total(s)' = Credit
<1>1. TypeOK /\ Still /\ Greeted /\ Unused
  BY DEF HInv, SInv, Calm
<1>2. ASSUME NEW t \in Publishers, PublisherNext(t) PROVE Kept
  BY <1>2, PublisherKeeps, WalkKeeps DEF PublisherNext
<1>3. ASSUME NEW t \in Threads, WhisperWork(t) PROVE Kept
  <2>1. outbox[t] \in WorkMsgs
    BY <1>3 DEF HInv, SInv, WhisperWork, Walking
  <2>2. AgentOf[outbox[t].split] \in remotes
    BY <1>1, <2>1, SplitAssumption DEF Still, WorkMsgs
  <2> QED BY <1>3, <2>2, WhisperWorkKeeps
<1>4. CASE SendDefinition \/ UNCHANGED vars
  BY <1>4, PublisherKeeps, KeptCredit
<1>5. ASSUME NEW a \in Agents, RecvReady(a) PROVE Kept
  <2>1. FromWorker(a, "WORKER_READY")
    BY <1>5 DEF RecvReady
  <2>2. /\ Head(toSplitter[a]) \in Own(a, ToSplitterMsgs)
        /\ Head(toSplitter[a]).type = "WORKER_READY"
        /\ \A s \in Splits :
             /\ Sent(toSplitter', "WORKER_READY", s) \in Nat
             /\ Sent(toSplitter, "WORKER_READY", s)
                  = Sent(toSplitter', "WORKER_READY", s)
                    + OneIf("WORKER_READY" = "WORKER_READY" /\ Head(toSplitter[a]).split = s)
    BY <1>1, <2>1, TakenCounted
  <2>3. PICK s \in Splits : s = Head(toSplitter[a]).split
    BY <2>2 DEF Own, ToSplitterMsgs, HelloMsgs, ReadyMsgs, GoodbyeMsgs, AgentMsgs
  <2>4. Sent(toSplitter, "WORKER_READY", s) # 0
    BY <2>2, <2>3 DEF OneIf
  <2>5. s \in workers
    BY <1>1, <2>4, ReadyCounts
  <2> QED BY <1>1, <1>5, <2>3, <2>5, ReadyKeeps DEF Still
<1>6. ASSUME NEW a \in Agents, WhisperNetwork(a) PROVE Kept
  <2>1. netOut[a] # None /\ netOut[a] \in HelloMsgs \cup ReadyMsgs
    BY <1>1, <1>6 DEF WhisperNetwork, TypeOK
  <2>2. CASE netOut[a] \in ReadyMsgs
    <3>1. PICK s \in Splits : s = netOut[a].split
      BY <2>2 DEF ReadyMsgs
    <3>2. AgentOf[s] = a
      BY <2>1, <2>2, <3>1 DEF Addressed, Own, ReadyMsgs, AgentMsgs
    <3>3. Says(netOut[AgentOf[s]], "WORKER_READY", s)
      BY <2>1, <2>2, <3>1, <3>2 DEF Says, ReadyMsgs
    <3> QED BY <1>1, <1>6, <3>2, <3>3, ReadyCounts, WhisperNetworkKeeps
  <2>3. CASE netOut[a] \in HelloMsgs
    BY <1>6, <2>3, WhisperNetworkKeeps DEF HelloMsgs
  <2> QED BY <2>1, <2>2, <2>3
<1>7. ASSUME NEW a \in Agents, RecvWork(a) \/ WorkerRecvDefinition(a) \/ GreetNext(a) PROVE Kept
  BY <1>7, WorkKeeps, WorkerOtherKeeps
<1> QED BY <1>1, <1>2, <1>3, <1>4, <1>5, <1>6, <1>7, CalmSteps, KeptCredit, HelloCreditCalm

\* The three parts of Undisturbed and the credit carry each other.
LEMMA NextCalm ==
  ASSUME HInv, HInv', Addressed, Calm, [Next]_vars, churn = 0, churn' = 0
  PROVE  Calm'
<1>1. TypeOK /\ Still /\ workers' \subseteq Splits
  BY DEF HInv, SInv, Calm, TypeOK
<1>2. Still'
  BY CalmStill
<1>3. Greeted'
  BY <1>1, CalmSteps, PublisherGreeted, NetworkGreeted, WorkerGreeted, GreetGreeted
<1>4. Unused' /\ \A s \in workers' : Total(s)' = Credit
  BY <1>1, CalmCredit
<1> QED BY <1>2, <1>3, <1>4 DEF Calm

\* What CInv says while users only publish.
LEMMA CInvCalm == ASSUME Undisturbed, CreditConserved, churn = 0 PROVE Calm
BY DEF Undisturbed, CreditConserved, Calm, Total

\* CInv is inductive.
LEMMA NextCInv == CInv /\ [Next]_vars => CInv'
<1> SUFFICES ASSUME CInv, [Next]_vars PROVE CInv'
  OBVIOUS
<1>1. HInv /\ Addressed /\ TypeOK /\ Undisturbed /\ CreditConserved /\ CreditNotForged
  BY DEF CInv, HInv, SInv
<1>2. HInv'
  BY <1>1, NextHInv
<1>3. Addressed'
  BY <1>1, NextAddressed
<1>4. CreditNotForged'
  BY <1>1, <1>2, NextForged
<1>5. ASSUME churn' = 0 PROVE Calm'
  BY <1>1, <1>2, <1>5, ChurnStays, CInvCalm, NextCalm
<1>6. Undisturbed' /\ CreditConserved'
  BY <1>5 DEF Undisturbed, CreditConserved, Calm, Total
<1> QED BY <1>2, <1>3, <1>4, <1>6 DEF CInv

\* CInv holds at first.
LEMMA InitCInv == Init => CInv
<1> SUFFICES ASSUME Init PROVE CInv
  OBVIOUS
<1>1. HInv /\ TypeOK
  BY InitHInv DEF HInv, SInv
<1>2. \A type : About(<<>>, type, None) = {} /\ \A s : About(<<>>, type, s) = {}
  BY DEF About
<1>3. ASSUME NEW s \in Splits
      PROVE  /\ Spent(s) = 0 /\ Hellos(s) = 0 /\ credit[s] = 0 /\ granted[s] = 0
  <2>1. AgentOf[s] \in Agents
    BY SplitAssumption
  <2>2. Cardinality({}) = 0
    BY FS_EmptySet
  <2>3. \A type : Sent(toWorker, type, s) = 0 /\ Sent(toSplitter, type, s) = 0
    BY <1>2, <2>1, <2>2 DEF Init, Sent
  <2>4. Held(outbox, s) = 0
    <3>1. Holding(outbox, s) = {}
      BY DEF Init, Holding
    <3> QED BY <2>2, <3>1 DEF Held
  <2>5. \A type : OneIf(Says(netOut[AgentOf[s]], type, s)) = 0
    BY <2>1 DEF Init, OneIf, Says
  <2>6. s \notin workers /\ credit[s] = 0 /\ granted[s] = 0
    BY DEF Init
  <2>7. Spent(s) = 0
    <3>1. Spent(s) = Held(outbox, s) + Sent(toWorker, "SPLITTER_WORK", s)
                     + OneIf(Says(netOut[AgentOf[s]], "WORKER_READY", s))
                     + Sent(toSplitter, "WORKER_READY", s)
      BY SpentIs
    <3> QED BY <2>3, <2>4, <2>5, <3>1
  <2>8. Hellos(s) = 0
    BY <2>3, <2>5, <2>6 DEF Hellos, OneIf
  <2> QED BY <2>6, <2>7, <2>8
<1>4. Addressed
  <2> SUFFICES ASSUME NEW a \in Agents
               PROVE  /\ elements[a] \in Seq(OwnSplits(a))
                      /\ toWorker[a] = <<>> /\ toSplitter[a] = <<>>
                      /\ netOut[a] = None /\ userOut[a] = None
    <3>1. \A S : <<>> \in Seq(S)
      OBVIOUS
    <3> QED BY <3>1 DEF Addressed
  <2>1. elements[a] \in Seq(OwnSplits(a))
    <3>1. elements[a] = InitialSplits[a] /\ InitialSplits[a] \in Seq(Splits)
      BY SplitAssumption DEF Init
    <3>2. \A i \in 1..Len(elements[a]) : elements[a][i] \in OwnSplits(a)
      <4>1. \A i \in 1..Len(InitialSplits[a]) : AgentOf[InitialSplits[a][i]] = a
        BY SplitAssumption
      <4>2. \A i \in 1..Len(InitialSplits[a]) : InitialSplits[a][i] \in Splits
        BY <3>1
      <4> QED BY <3>1, <4>1, <4>2 DEF OwnSplits
    <3> QED BY <3>1, <3>2
  <2> QED BY <2>1 DEF Init
<1>5. Still /\ Greeted /\ Unused
  <2>1. Still
    BY DEF Init, Still
  <2>2. Greeted /\ Unused
    BY <1>3 DEF Greeted, Unused
  <2> QED BY <2>1, <2>2
<1>6. CreditConserved /\ CreditNotForged
  <2>1. workers = {}
    BY DEF Init
  <2>2. \A s \in Splits : credit[s] + Spent(s) <= Credit * granted[s]
    BY <1>3, SplitAssumption
  <2> QED BY <2>1, <2>2 DEF CreditConserved, CreditNotForged
<1> QED BY <1>1, <1>4, <1>5, <1>6 DEF CInv, Undisturbed

\* A published work is in one place at most, a worker that nobody disturbed has
\* or will get back exactly the credit its WORKER_HELLO brought, and no credit
\* comes from anything else than a WORKER_HELLO (igs_split.c:43-83, 130-184,
\* 362-411), with any number of publishing threads, workers and works.
THEOREM SplitWorksAndCredit == Spec => []WorksAndCredit
<1>1. CInv => WorksAndCredit
  BY DEF CInv, HInv, Handed, Apart, WorksAndCredit, WorkHandedOnce
<1> QED BY <1>1, InitCInv, NextCInv, PTL DEF Spec
=============================================================================
