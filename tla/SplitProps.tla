----------------------------- MODULE SplitProps -----------------------------
(***************************************************************************)
(* What the split protocol of module Split promises, what its comments     *)
(* claim, and the defective variants of its definitions that the           *)
(* properties are able to tell from the code.                              *)
(***************************************************************************)
EXTENDS Split

WorkMsgs == [type : {"SPLITTER_WORK"}, split : Splits, work : Works]
ReadyMsgs == [type : {"WORKER_READY"}, split : Splits, work : Works]
HelloMsgs == [type : {"WORKER_HELLO"}, split : Splits, work : {None}]
GoodbyeMsgs == [type : {"WORKER_GOODBYE"}, split : Splits, work : {None}]
AgentMsgs == [type : {"EXTERNAL_DEFINITION", "REMOTE_AGENT_EXIT"},
              split : {None}, work : {None}]

\* Every variable has its type.
TypeOK ==
  /\ active \in BOOLEAN /\ announce \in BOOLEAN
  /\ remotes \subseteq Agents
  /\ workers \subseteq Splits
  /\ credit \in [Splits -> Nat] /\ uses \in [Splits -> Nat]
  /\ queue \in [Outputs -> Seq(Works)]
  /\ lock \in Publishers \cup {None}
  /\ pc \in [Threads -> {"idle", "walk", "whisper"}]
  /\ publishing \in [Publishers -> [output : Outputs, work : Works] \cup {None}]
  /\ walk \in [Threads -> SUBSET Outputs] /\ stale \in [Threads -> SUBSET Outputs]
  /\ outbox \in [Threads -> WorkMsgs \cup {None}]
  /\ wactive \in [Agents -> BOOLEAN] /\ wannounce \in [Agents -> BOOLEAN]
  /\ knows \in [Agents -> BOOLEAN]
  /\ elements \in [Agents -> Seq(Splits)]
  /\ cursor \in [Agents -> Nat]
  /\ greeting \in [Agents -> BOOLEAN]
  /\ netOut \in [Agents -> HelloMsgs \cup ReadyMsgs \cup {None}]
  /\ userOut \in [Agents -> HelloMsgs \cup GoodbyeMsgs \cup {None}]
  /\ toWorker \in [Agents -> Seq(WorkMsgs \cup AgentMsgs)]
  /\ toSplitter \in [Agents -> Seq(HelloMsgs \cup ReadyMsgs \cup GoodbyeMsgs \cup AgentMsgs)]
  /\ received \in [Works -> SUBSET Splits]
  /\ issued \subseteq Works
  /\ granted \in [Splits -> Nat]
  /\ churn \in 0..MaxChurn

(***************************************************************************)
(* Where the works are.                                                    *)
(***************************************************************************)
Queued == {w \in Works : \E o \in Outputs : \E i \in 1..Len(queue[o]) : queue[o][i] = w}
Leaving == {w \in Works : \E t \in Threads : outbox[t] # None /\ outbox[t].work = w}
IsWork(m) == m.type = "SPLITTER_WORK"
Travelling ==
  {w \in Works : \E a \in Agents : \E i \in 1..Len(toWorker[a]) :
                   IsWork(toWorker[a][i]) /\ toWorker[a][i].work = w}
Received == {w \in Works : received[w] # {}}

\* Credits of the worker of s that are spent: its works that have left the
\* queue and whose WORKER_READY has not been handled.
Spent(s) ==
  LET a == AgentOf[s]
      IsReady(m) == m.type = "WORKER_READY"
      Pending(t) == outbox[t] # None /\ outbox[t].split = s
      On(i) == IsWork(toWorker[a][i]) /\ toWorker[a][i].split = s
      Back(i) == IsReady(toSplitter[a][i]) /\ toSplitter[a][i].split = s
      Held == netOut[a] # None /\ IsReady(netOut[a]) /\ netOut[a].split = s
  IN Cardinality({t \in Threads : Pending(t)})
     + Cardinality({i \in 1..Len(toWorker[a]) : On(i)})
     + (IF Held THEN 1 ELSE 0)
     + Cardinality({i \in 1..Len(toSplitter[a]) : Back(i)})

(***************************************************************************)
(* Safety.                                                                 *)
(***************************************************************************)

\* A published work is handed over at most once: whatever the interleaving of
\* publishing threads, WORKER_READY, WORKER_GOODBYE and exits, it is in one
\* queue, one thread, one channel or one input only (igs_split.c:80 takes the
\* work out of the queue before the lock is released for the whisper).
QueuedOnce ==
  \A o, p \in Outputs : \A i \in 1..Len(queue[o]), j \in 1..Len(queue[p]) :
    queue[o][i] = queue[p][j] => o = p /\ i = j
LeavingOnce ==
  \A t, u \in Threads :
    outbox[t] # None /\ outbox[u] # None /\ outbox[t].work = outbox[u].work => t = u
TravellingOnce ==
  \A a, b \in Agents : \A i \in 1..Len(toWorker[a]), j \in 1..Len(toWorker[b]) :
    /\ IsWork(toWorker[a][i]) /\ IsWork(toWorker[b][j])
    /\ toWorker[a][i].work = toWorker[b][j].work
    => a = b /\ i = j
ReceivedOnce == \A w \in Works : \A s, r \in received[w] : s = r
WorkHandedOnce ==
  /\ QueuedOnce /\ LeavingOnce /\ TravellingOnce /\ ReceivedOnce
  /\ Queued \cap (Leaving \cup Travelling \cup Received) = {}
  /\ Leaving \cap (Travelling \cup Received) = {}
  /\ Travelling \cap Received = {}

\* Works only wait in a splitter that has a worker to wait for: the queue goes
\* away with the last worker (igs_split.c:255-272).
QueueHasWorker == \A o \in Outputs : queue[o] # <<>> => o \in SplittersOf(workers)

\* As long as nobody has been activated, deactivated or edited, a worker owns
\* exactly the credit its WORKER_HELLO brought: what it has left plus what its
\* works under way will give back with WORKER_READY (igs_split.c:43-83, 402).
CreditConserved == churn = 0 => \A s \in workers : credit[s] + Spent(s) = Credit

\* Whatever users do, credit comes from WORKER_HELLO only: a WORKER_READY that
\* arrives late, after WORKER_GOODBYE and a new WORKER_HELLO, gives back what
\* its work had taken and nothing else (igs_split.c:130-184).
CreditNotForged == \A s \in Splits : credit[s] + Spent(s) <= Credit * granted[s]

\* All of this at once: works and credits are neither lost by a worker that
\* stays nor made twice.
WorksAndCredit == WorkHandedOnce /\ CreditConserved /\ CreditNotForged

(***************************************************************************)
(* Liveness, under FairSpec.                                               *)
(***************************************************************************)

\* When the workers stay, a queued work ends on the input of one of them unless
\* the publishing agent is deactivated meanwhile: READYs, and the greetings that
\* follow its next activation, move the queue (igs_split.c:20, 362-411).
QueuedIsReceived == \A w \in Works : w \in Queued ~> (w \in Received \/ ~active)

(***************************************************************************)
(* What a comment of the source claims and the code does not do.           *)
(***************************************************************************)

\* ingescape_private.h:652-653: iterators are duplicated and the validity of
\* their arguments checked where the lock is released.  The duplicated list of
\* split_add_work_to_queue still holds splitters freed during a whisper.
NoFreedSplitter == \A t \in Publishers : stale[t] \cap walk[t] = {}
=============================================================================
