--------------------------- MODULE ServicesApiProofs ---------------------------
(***************************************************************************)
(* Proofs about service calls, for any number of peers, agents, threads,   *)
(* calls and edits: types, that a call reaches whom it must and leaves no  *)
(* timestamp behind, and that Services implements CallBag.  Proofs about    *)
(* the locks of Api, for any number of threads of an application: every    *)
(* deadlock is a known one, and a Python application makes one global      *)
(* agent.                                                                  *)
(***************************************************************************)
EXTENDS Services, Api, FiniteSetTheorems, SequenceTheorems, TLAPS

Stamps == (Threads \X Nat) \cup {NoCall}
Service == [inst : Nat, args : Seq(Nat), cb : BOOLEAN]
Messages == [type : {"CALL", "KNOWN", "EXIT"}, agent : Agents, thread : Threads \cup {NoCall},
             number : Nat, frames : Seq(Nat), stamp : Stamps]
CallRecords == [phase : {"idle", "walk", "callback"}, number : Nat,
                caller : Agents \cup {NoCall}, target : Names \cup {NoCall}, args : Seq(Nat),
                rest : SUBSET Agents, callee : Agents \cup {NoCall}, inst : Nat]
Handlers == [callee : Agents \cup {NoCall}, thread : Threads \cup {NoCall}, number : Nat,
             inst : Nat, frames : Nat, nb : Nat]

Types ==
  /\ alive \in SUBSET Agents /\ active \in SUBSET Agents
  /\ known \in [Peers -> SUBSET Agents]
  /\ service \in [Agents -> Service]
  /\ stamp \in [Agents -> Stamps]
  /\ channel \in [Peers -> [Peers -> Seq(Messages)]]
  /\ call \in [Threads -> CallRecords]
  /\ handling \in [Peers -> Handlers]
  /\ edits \in Nat

-----------------------------------------------------------------------------
\* SetToSeq lists the elements of a finite set, each of them once.
LEMMA SetToSeqFacts ==
  ASSUME NEW S, IsFiniteSet(S)
  PROVE  /\ SetToSeq(S) \in Seq(S)
         /\ \A i, j \in 1..Len(SetToSeq(S)) : SetToSeq(S)[i] = SetToSeq(S)[j] => i = j
         /\ \A x \in S : \E i \in 1..Len(SetToSeq(S)) : SetToSeq(S)[i] = x
<1> DEFINE n == Cardinality(S)  f == SetToSeq(S)
<1>1. n \in Nat /\ ExistsBijection(1..n, S)
  BY FS_CardinalityType
<1>2. PICK g \in Bijection(1..n, S) : TRUE
  BY <1>1 DEF ExistsBijection
<1>3. g \in [1..n -> S] /\ IsInjective(g)
  BY <1>2 DEF Bijection, Injection, IsInjective
<1>4. f \in [1..n -> S] /\ IsInjective(f)
  BY <1>3 DEF SetToSeq
<1>5. f \in Injection(1..n, S)
  BY <1>4 DEF Injection, IsInjective
<1>6. f \in Surjection(1..n, S)
  <2>1. IsFiniteSet(1..n) /\ Cardinality(1..n) = n
    BY <1>1, FS_Interval
  <2> HIDE DEF f
  <2> QED BY <1>5, <2>1, FS_Injection
<1>7. f \in Seq(S) /\ Len(f) = n
  BY <1>1, <1>4
<1> QED BY <1>4, <1>6, <1>7 DEF Surjection, IsInjective

\* Agents are finitely many, and so are the messages of a call.
LEMMA InitTypes == Init => Types
<1> SUFFICES ASSUME Init PROVE Types
  OBVIOUS
<1> USE ServicesAssumption DEF ServicesAssumption
<1>1. PICK s \in Starts : active = s.active /\ service = s.service
  BY DEF Init
<1>2. active \in SUBSET Agents /\ service \in [Agents -> Service]
  BY <1>1 DEF Service
<1>3. call \in [Threads -> CallRecords]
  BY DEF Init, Idle, CallRecords
<1>4. handling \in [Peers -> Handlers]
  BY DEF Init, NoHandling, Handlers
<1>5. channel \in [Peers -> [Peers -> Seq(Messages)]]
  BY DEF Init
<1> QED BY <1>2, <1>3, <1>4, <1>5 DEF Init, Types, Stamps

\* The messages that operations send.
LEMMA CallMessageType ==
  ASSUME Types, NEW t \in Threads, NEW n \in Nat, NEW a \in Agents, NEW c \in Agents,
         NEW args \in Seq(Nat)
  PROVE  CallMessage(t, n, a, c, args) \in Messages
<1>1. Frames(a, args) \in Seq(Nat)
  BY DEF Frames
<1>2. StampOf(t, n, a) \in Stamps
  BY DEF StampOf, Stamps
<1> QED BY <1>1, <1>2 DEF CallMessage, Messages

LEMMA NoticeType ==
  ASSUME NEW a \in Agents, NEW type \in {"KNOWN", "EXIT"}
  PROVE  Notice(type, a) \in Messages
BY DEF Notice, Messages, Stamps

\* Whispers of a call to the agents of one peer.
Whispers(q, t, n, a, name, args) ==
  {CallMessage(t, n, a, c, args) : c \in {r \in Remote(a, name) : Home[r] = q}}

LEMMA WhispersType ==
  ASSUME Types, NEW t \in Threads, NEW n \in Nat, NEW a \in Agents, NEW name,
         NEW args \in Seq(Nat), NEW q
  PROVE  /\ IsFiniteSet(Whispers(q, t, n, a, name, args))
         /\ Whispers(q, t, n, a, name, args) \subseteq Messages
         /\ SetToSeq(Whispers(q, t, n, a, name, args)) \in Seq(Messages)
<1> DEFINE T == {r \in Remote(a, name) : Home[r] = q}
<1>1. T \in SUBSET Agents
  BY ServicesAssumption DEF Remote, Types, ServicesAssumption
<1> DEFINE W == Whispers(q, t, n, a, name, args)
           f == [c \in T |-> CallMessage(t, n, a, c, args)]
<1>2. IsFiniteSet(T)
  BY <1>1, FS_Subset, ServicesAssumption DEF ServicesAssumption
<1>3. Whispers(q, t, n, a, name, args) \subseteq Messages
  BY <1>1, CallMessageType DEF Whispers
<1>5. f \in Surjection(T, W)
  BY DEF Surjection, Whispers
<1> HIDE DEF T, f
<1>4. IsFiniteSet(W)
  BY <1>2, <1>5, FS_Surjection
<1> QED BY <1>4, <1>3, SetToSeqFacts, SeqMonotonic

\* The records of a call and of a service through their changes.
LEMMA CallRecordChanges ==
  ASSUME NEW c \in CallRecords
  PROVE  /\ Ended(c) \in CallRecords
         /\ \A rest \in SUBSET Agents : [c EXCEPT !.rest = rest] \in CallRecords
         /\ \A rest \in SUBSET Agents, b \in Agents, inst \in Nat :
              [c EXCEPT !.phase = "callback", !.rest = rest, !.callee = b, !.inst = inst] \in CallRecords
         /\ [c EXCEPT !.phase = "walk", !.callee = NoCall, !.inst = 0] \in CallRecords
<1>1. Ended(c) \in CallRecords
  <2>1. c.number \in Nat
    BY DEF CallRecords
  <2>2. Idle \in CallRecords
    BY DEF Idle, CallRecords
  <2>3. ASSUME NEW r \in CallRecords, NEW n \in Nat PROVE [r EXCEPT !.number = n] \in CallRecords
    BY DEF CallRecords
  <2> QED BY <2>1, <2>2, <2>3 DEF Ended
<1>2. ASSUME NEW rest \in SUBSET Agents PROVE [c EXCEPT !.rest = rest] \in CallRecords
  BY DEF CallRecords
<1>3. ASSUME NEW rest \in SUBSET Agents, NEW b \in Agents, NEW inst \in Nat
      PROVE  [c EXCEPT !.phase = "callback", !.rest = rest, !.callee = b, !.inst = inst] \in CallRecords
  BY DEF CallRecords
<1>4. [c EXCEPT !.phase = "walk", !.callee = NoCall, !.inst = 0] \in CallRecords
  BY DEF CallRecords
<1> QED BY <1>1, <1>2, <1>3, <1>4

LEMMA ServiceChanges ==
  ASSUME NEW s \in Service
  PROVE  /\ \A args \in Seq(Nat) : [s EXCEPT !.args = args] \in Service
         /\ [s EXCEPT !.cb = TRUE] \in Service
         /\ \A inst \in Nat : [inst |-> inst, args |-> <<>>, cb |-> TRUE] \in Service
         /\ NoService \in Service
<1>1. ASSUME NEW args \in Seq(Nat) PROVE [s EXCEPT !.args = args] \in Service
  BY DEF Service
<1>2. [s EXCEPT !.cb = TRUE] \in Service
  BY DEF Service
<1>3. (\A inst \in Nat : [inst |-> inst, args |-> <<>>, cb |-> TRUE] \in Service) /\ NoService \in Service
  BY DEF Service, NoService
<1> QED BY <1>1, <1>2, <1>3

LEMMA TypesStep == Types /\ [Next]_vars => Types'
<1> SUFFICES ASSUME Types, [Next]_vars PROVE Types'
  OBVIOUS
<1>1. ASSUME NEW t \in Threads, NEW a \in Agents, NEW name \in Names, NEW args \in Lists[t],
             Call(t, a, name, args)
      PROVE  Types'
  <2> DEFINE n == call[t].number + 1  p == Home[a]
  <2>1. args \in Seq(Nat) /\ n \in Nat /\ p \in Peers
    BY ServicesAssumption DEF Types, CallRecords, ServicesAssumption
  <2>2. \A q \in Peers : channel[p][q] \o SetToSeq(Whispers(q, t, n, a, name, args)) \in Seq(Messages)
    <3> TAKE q \in Peers
    <3>1. channel[p][q] \in Seq(Messages)
      BY <2>1 DEF Types
    <3> QED BY <2>1, <3>1, WhispersType, ConcatProperties
  <2>3. channel' = [channel EXCEPT ![p] =
                      [q \in Peers |-> @[q] \o SetToSeq(Whispers(q, t, n, a, name, args))]]
    BY <1>1 DEF Call, Posted, Whispers
  <2>4. channel' \in [Peers -> [Peers -> Seq(Messages)]]
    BY <2>1, <2>2, <2>3 DEF Types
  <2>5. LocalWalk(a) \in SUBSET Agents
    BY DEF LocalWalk, Types
  <2>6. [phase |-> "walk", number |-> n, caller |-> a, target |-> name, args |-> args,
         rest |-> LocalWalk(a), callee |-> NoCall, inst |-> 0] \in CallRecords
    <3> HIDE DEF n
    <3> QED BY <2>1, <2>5 DEF CallRecords
  <2>7. call' \in [Threads -> CallRecords]
    BY <1>1, <2>6 DEF Call, Types
  <2> QED BY <1>1, <2>4, <2>7 DEF Call, Types, agentVars
<1>2. ASSUME NEW t \in Threads, CallStep(t) PROVE Types'
  <2>0. /\ call[t] \in CallRecords
        /\ Ended(call[t]) \in CallRecords
        /\ [call[t] EXCEPT !.phase = "walk", !.callee = NoCall, !.inst = 0] \in CallRecords
    <3>1. call[t] \in CallRecords
      BY DEF Types
    <3> QED BY <3>1, CallRecordChanges
  <2>1. CASE LocalCallback(t)
    <3>1. call' = [call EXCEPT ![t] = [call[t] EXCEPT !.phase = "walk", !.callee = NoCall,
                                                      !.inst = 0]]
      BY <2>1 DEF LocalCallback, Types
    <3>4. call' \in [Threads -> CallRecords]
      BY <2>0, <3>1 DEF Types
    <3>2. stamp' \in [Agents -> Stamps]
      BY <2>1 DEF LocalCallback, Types, ClearedStamp, Stamps
    <3> QED BY <2>1, <3>4, <3>2 DEF LocalCallback, Types, agentVars
  <2>2. CASE EndCall(t)
    <3>1. call' \in [Threads -> CallRecords]
      BY <2>0, <2>2 DEF EndCall, Types
    <3> QED BY <2>2, <3>1 DEF EndCall, Types, agentVars
  <2>3. ASSUME NEW b \in Agents, Visit(t, b) PROVE Types'
    <3>1. call' \in [Threads -> CallRecords]
      <4> DEFINE c == call[t]  rest == c.rest \ {b}
      <4>1. c \in CallRecords /\ service[b] \in Service
        BY DEF Types
      <4>2. rest \in SUBSET Agents /\ service[b].inst \in Nat
        BY <4>1 DEF CallRecords, Service
      <4>3. /\ Ended(c) \in CallRecords
            /\ [c EXCEPT !.rest = rest] \in CallRecords
            /\ [c EXCEPT !.phase = "callback", !.rest = rest, !.callee = b,
                         !.inst = service[b].inst] \in CallRecords
        <5> HIDE DEF c, rest
        <5> QED BY <4>1, <4>2, CallRecordChanges
      <4>4. \/ call' = [call EXCEPT ![t] = Ended(c)]
            \/ call' = [call EXCEPT ![t] = [c EXCEPT !.rest = rest]]
            \/ call' = [call EXCEPT ![t] = [c EXCEPT !.phase = "callback", !.rest = rest,
                                                    !.callee = b, !.inst = service[b].inst]]
        BY <2>3 DEF Visit, Following, Types
      <4> HIDE DEF c, rest
      <4> QED BY <4>3, <4>4 DEF Types
    <3>2. stamp' \in [Agents -> Stamps]
      <4>1. StampOf(t, call[t].number, call[t].caller) \in Stamps
        BY DEF StampOf, Stamps, Types, CallRecords
      <4> QED BY <2>3, <4>1 DEF Visit, Types
    <3> QED BY <2>3, <3>1, <3>2 DEF Visit, Types, agentVars
  <2> QED BY <1>2, <2>1, <2>2, <2>3 DEF CallStep
<1>3. ASSUME NEW p \in Peers, NetworkStep(p) PROVE Types'
  <2>0. ASSUME NEW q \in Peers, channel[q][p] # <<>>
        PROVE  Head(channel[q][p]) \in Messages /\ Popped(q, p) \in [Peers -> [Peers -> Seq(Messages)]]
    <3>1. channel[q][p] \in Seq(Messages)
      BY DEF Types
    <3>2. Head(channel[q][p]) \in Messages /\ Tail(channel[q][p]) \in Seq(Messages)
      BY <2>0, <3>1
    <3> QED BY <3>2 DEF Types, Popped
  <2>1. CASE RemoteCallback(p)
    BY <2>1 DEF RemoteCallback, Types, ClearedStamp, Stamps, NoHandling, Handlers, agentVars
  <2>2. ASSUME NEW q \in Others(p), HandleCall(p, q) PROVE Types'
    <3> DEFINE m == Head(channel[q][p])  s == service[m.agent]
    <3>1. m \in Messages /\ channel' \in [Peers -> [Peers -> Seq(Messages)]]
      BY <2>0, <2>2 DEF HandleCall, Received, Others
    <3>2. s \in Service
      BY <3>1 DEF Types, Messages
    <3>3. [callee |-> m.agent, thread |-> m.thread, number |-> m.number,
           inst |-> s.inst, frames |-> Len(m.frames), nb |-> Len(s.args)] \in Handlers
      <4>1. /\ m.agent \in Agents /\ m.thread \in Threads \cup {NoCall} /\ m.number \in Nat
            /\ m.frames \in Seq(Nat)
        BY <3>1 DEF Messages
      <4>2. s.inst \in Nat /\ s.args \in Seq(Nat)
        BY <3>2 DEF Service
      <4> HIDE DEF m, s
      <4>3. Len(m.frames) \in Nat /\ Len(s.args) \in Nat
        BY <4>1, <4>2
      <4> QED BY <4>1, <4>2, <4>3 DEF Handlers
    <3>4. handling' \in [Peers -> Handlers]
      BY <2>2, <3>3 DEF HandleCall, Types
    <3>5. stamp' \in [Agents -> Stamps]
      BY <2>2, <3>1 DEF HandleCall, Types, ClearedStamp, Stamps, Messages
    <3> QED BY <2>2, <3>1, <3>4, <3>5 DEF HandleCall, Types, agentVars
  <2>3. ASSUME NEW q \in Others(p), HandleDefinition(p, q) \/ HandleExit(p, q) PROVE Types'
    <3>1. Head(channel[q][p]) \in Messages /\ channel' \in [Peers -> [Peers -> Seq(Messages)]]
      BY <2>0, <2>3 DEF HandleDefinition, HandleExit, Received, Others
    <3>2. Head(channel[q][p]).agent \in Agents
      BY <3>1 DEF Messages
    <3>3. \A a \in Agents : /\ known[p] \cup {a} \in SUBSET Agents
                            /\ known[p] \ {a} \in SUBSET Agents
      BY DEF Types
    <3>4. \E a \in Agents : \/ known' = [known EXCEPT ![p] = known[p] \cup {a}]
                            \/ known' = [known EXCEPT ![p] = known[p] \ {a}]
      BY <2>3, <3>2 DEF HandleDefinition, HandleExit
    <3>5. known' \in [Peers -> SUBSET Agents]
      <4> PICK a \in Agents : \/ known' = [known EXCEPT ![p] = known[p] \cup {a}]
                              \/ known' = [known EXCEPT ![p] = known[p] \ {a}]
        BY <3>4
      <4> QED BY <3>3 DEF Types
    <3> QED BY <2>3, <3>1, <3>5 DEF HandleDefinition, HandleExit, Types
  <2> QED BY <1>3, <2>1, <2>2, <2>3 DEF NetworkStep
<1>4. ASSUME NEW a \in Agents, EditStep(a) PROVE Types'
  <2>0. ASSUME NEW type \in {"KNOWN", "EXIT"}
        PROVE  SendAll(Home[a], Notice(type, a)) \in [Peers -> [Peers -> Seq(Messages)]]
    <3>1. Notice(type, a) \in Messages
      BY NoticeType
    <3>2. \A q, r \in Peers : Append(channel[q][r], Notice(type, a)) \in Seq(Messages)
      BY <3>1 DEF Types
    <3> QED BY <3>2 DEF SendAll, Types
  <2>1. CASE Activate(a) \/ Deactivate(a)
    BY <2>0, <2>1 DEF Activate, Deactivate, Edit, Types
  <2>2. CASE Destroy(a)
    BY <2>2 DEF Destroy, FreedService, NoService, Service, Types
  <2>3. CASE ServiceInit(a)
    <3>1. service[a] \in Service /\ 2 + edits \in Nat
      BY DEF Types
    <3>2. /\ [service[a] EXCEPT !.cb = TRUE] \in Service
          /\ [inst |-> 2 + edits, args |-> <<>>, cb |-> TRUE] \in Service
      BY <3>1, ServiceChanges
    <3>3. \/ service' = [service EXCEPT ![a] = [service[a] EXCEPT !.cb = TRUE]]
          \/ service' = [service EXCEPT ![a] = [inst |-> 2 + edits, args |-> <<>>, cb |-> TRUE]]
      BY <2>3 DEF ServiceInit
    <3>4. service' \in [Agents -> Service]
      BY <3>2, <3>3 DEF Types
    <3> QED BY <2>3, <3>4 DEF ServiceInit, Edit, Types
  <2>4. CASE ServiceRemove(a)
    BY <2>4 DEF ServiceRemove, NoService, Service, Edit, Types
  <2>5. ASSUME NEW size \in Sizes, ArgAdd(a, size) PROVE Types'
    <3>0. service[a].args \in Seq(Nat) /\ service[a] \in Service /\ size \in Nat
      BY ServicesAssumption DEF Types, Service, ServicesAssumption
    <3>1. Append(service[a].args, size) \in Seq(Nat)
      BY <3>0
    <3>2. [service[a] EXCEPT !.args = Append(service[a].args, size)] \in Service
      <4> DEFINE args == Append(service[a].args, size)
      <4> HIDE DEF args
      <4> QED BY <3>0, <3>1, ServiceChanges
    <3>3. service' = [service EXCEPT ![a] = [service[a] EXCEPT !.args = Append(service[a].args, size)]]
      BY <2>5 DEF ArgAdd
    <3>4. service' \in [Agents -> Service]
      BY <3>2, <3>3 DEF Types
    <3> QED BY <2>5, <3>4 DEF ArgAdd, Edit, Types
  <2>6. ASSUME NEW i \in 1..Len(service[a].args), ArgRemove(a, i) PROVE Types'
    <3>1. service[a].args \in Seq(Nat)
      BY DEF Types, Service
    <3>2. RemoveAt(service[a].args, i) \in Seq(Nat)
      BY <3>1 DEF RemoveAt
    <3>3. service' \in [Agents -> Service]
      BY <2>6, <3>2 DEF ArgRemove, Types, Service
    <3> QED BY <2>6, <3>3 DEF ArgRemove, Edit, Types
  <2> QED BY <1>4, <2>1, <2>2, <2>3, <2>4, <2>5, <2>6 DEF EditStep
<1>5. CASE UNCHANGED vars
  BY <1>5 DEF vars, agentVars, Types
<1> QED BY <1>1, <1>2, <1>3, <1>4, <1>5 DEF Next

-----------------------------------------------------------------------------
(***************************************************************************)
(* The inductive invariant.                                                *)
(***************************************************************************)
ReqOf(m) == Request(m.thread, m.number, m.agent)
Calls(s) == {m \in ToSet(s) : m.type = "CALL"}

\* A thread calls from one peer.
CallsFrom(t, p) == \E a \in CallerOf[t] : Home[a] = p

\* What a whisper from p to q may say, given the calls made so far.
Proper(p, q, m, calls) ==
  /\ m.type = "CALL" => /\ p # q /\ Home[m.agent] = q
                        /\ m.thread \in Threads /\ CallsFrom(m.thread, p)
                        /\ m.number <= calls[m.thread].number
  /\ m.type # "CALL" => Home[m.agent] = p

\* The calls of one thread to one agent are in order.
SameRoute(m, o) == m.type = "CALL" /\ o.type = "CALL" /\ m.thread = o.thread /\ m.agent = o.agent
Sorted(s) == \A i, j \in 1..Len(s) : i < j /\ SameRoute(s[i], s[j]) => s[i].number < s[j].number

Mail == \A p, q \in Peers : /\ Sorted(channel[p][q])
                            /\ \A m \in ToSet(channel[p][q]) : Proper(p, q, m, call)

\* A walk is of agents of the caller's peer.
Walks ==
  \A t \in Threads :
    /\ call[t].phase = "idle" => call[t].rest = {}
    /\ call[t].phase # "idle" => /\ call[t].caller \in CallerOf[t]
                                 /\ \A b \in call[t].rest \cup ({call[t].callee} \ {NoCall}) :
                                      Home[b] = Home[call[t].caller]
    /\ call[t].callee \notin call[t].rest

\* A handler holds a call from another peer, older than those in the
\* channels.
HandlerOK(p, h, calls) ==
  /\ h.callee \in Agents /\ h.thread \in Threads
  /\ \E q \in Others(p) : CallsFrom(h.thread, q)
  /\ h.number <= calls[h.thread].number
Handled ==
  \A p \in Peers : handling[p] # NoHandling =>
    /\ HandlerOK(p, handling[p], call)
    /\ \A q \in Peers : \A m \in Calls(channel[q][p]) :
         m.thread = handling[p].thread /\ m.agent = handling[p].callee => handling[p].number < m.number

ServedBefore == \A r \in Served : r.thread \in Threads /\ r.number \in 0..call[r.thread].number

\* What Types says of one record.
LEMMA RecordTypes ==
  ASSUME Types
  PROVE  /\ \A t \in Threads : /\ call[t].number \in Nat /\ call[t].inst \in Nat
                               /\ call[t].caller \in Agents \cup {NoCall}
                               /\ call[t].callee \in Agents \cup {NoCall}
                               /\ call[t].rest \subseteq Agents
         /\ \A p \in Peers : /\ handling[p].number \in Nat /\ handling[p].inst \in Nat
                             /\ handling[p].callee \in Agents \cup {NoCall}
         /\ \A p, q \in Peers : \A m \in ToSet(channel[p][q]) :
              m \in Messages /\ m.agent \in Agents /\ m.number \in Nat
         /\ \A a \in Agents : service[a].inst \in Nat
<1>1. ASSUME NEW t \in Threads
      PROVE  /\ call[t].number \in Nat /\ call[t].inst \in Nat
             /\ call[t].caller \in Agents \cup {NoCall}
             /\ call[t].callee \in Agents \cup {NoCall}
             /\ call[t].rest \subseteq Agents
  <2>1. call[t] \in CallRecords
    BY DEF Types
  <2> QED BY <2>1 DEF CallRecords
<1>2. ASSUME NEW p \in Peers
      PROVE  /\ handling[p].number \in Nat /\ handling[p].inst \in Nat
             /\ handling[p].callee \in Agents \cup {NoCall}
  <2>1. handling[p] \in Handlers
    BY DEF Types
  <2> QED BY <2>1 DEF Handlers
<1>3. ASSUME NEW p \in Peers, NEW q \in Peers, NEW m \in ToSet(channel[p][q])
      PROVE  m \in Messages /\ m.agent \in Agents /\ m.number \in Nat
  <2>1. channel[p][q] \in Seq(Messages)
    BY DEF Types
  <2>2. m \in Messages
    BY <2>1 DEF ToSet
  <2> QED BY <2>2 DEF Messages
<1>4. \A a \in Agents : service[a].inst \in Nat
  BY DEF Types, Service
<1> QED BY <1>1, <1>2, <1>3, <1>4

\* What keeps a request that is due servable.
Ready(b) == b \in active /\ service[b].inst # 0 /\ service[b].cb
DueMail ==
  \A p, q \in Peers : \A m \in Calls(channel[p][q]) :
    ReqOf(m) \in due => Ready(m.agent) /\ Fits(m.frames, service[m.agent].args)
DueHandled ==
  \A p \in Peers : LET h == handling[p] IN
    h # NoHandling /\ Request(h.thread, h.number, h.callee) \in due =>
      Ready(h.callee) /\ service[h.callee].inst = h.inst
Walked(t, c) == {x \in c.rest : Addressed(x, c.target)} \cup ({c.callee} \ {NoCall})
DueWalked ==
  \A t \in Threads : \A b \in Walked(t, call[t]) :
    Request(t, call[t].number, b) \in due =>
      /\ call[t].caller \in alive /\ call[t].rest \subseteq alive
      /\ Ready(b)
      /\ b \in call[t].rest => Len(service[b].args) = Len(call[t].args)
      /\ b = call[t].callee => service[b].inst = call[t].inst

Placed == TypeOK /\ Mail /\ Walks /\ Handled /\ ServedBefore
Sound == Types /\ Placed
DueInv == DueServed /\ DueMail /\ DueHandled /\ DueWalked

-----------------------------------------------------------------------------
(***************************************************************************)
(* Channels: what popping, appending and posting do to their contents.     *)
(***************************************************************************)
LEMMA PopContents ==
  ASSUME NEW s \in Seq(Messages), s # <<>>
  PROVE  /\ Head(s) \in Messages
         /\ ToSet(s) = {Head(s)} \cup ToSet(Tail(s))
         /\ Sorted(s) => /\ Sorted(Tail(s))
                         /\ \A m \in ToSet(Tail(s)) : SameRoute(Head(s), m) => Head(s).number < m.number
<1>1. /\ Len(s) \in Nat \ {0} /\ Len(Tail(s)) = Len(s) - 1
      /\ Tail(s) \in Seq(Messages) /\ Head(s) = s[1]
      /\ \A i \in 1..Len(Tail(s)) : Tail(s)[i] = s[i + 1]
  OBVIOUS
<1>2. DOMAIN s = 1..Len(s) /\ DOMAIN Tail(s) = 1..Len(Tail(s))
  BY <1>1
<1>3. ToSet(s) = {Head(s)} \cup ToSet(Tail(s))
  <2>1. ASSUME NEW m \in ToSet(s) PROVE m = Head(s) \/ m \in ToSet(Tail(s))
    <3>1. PICK i \in 1..Len(s) : m = s[i]
      BY <1>2 DEF ToSet
    <3>2. CASE i = 1
      BY <1>1, <3>1, <3>2
    <3>3. CASE i # 1
      <4>1. i - 1 \in 1..Len(Tail(s)) /\ Tail(s)[i - 1] = s[i]
        BY <1>1, <3>3
      <4> QED BY <1>2, <3>1, <4>1 DEF ToSet
    <3> QED BY <3>2, <3>3
  <2>2. ASSUME NEW m \in ToSet(Tail(s)) PROVE m \in ToSet(s)
    <3>1. PICK i \in 1..Len(Tail(s)) : m = Tail(s)[i]
      BY <1>2 DEF ToSet
    <3>2. i + 1 \in 1..Len(s) /\ m = s[i + 1]
      BY <1>1, <3>1
    <3> QED BY <1>2, <3>2 DEF ToSet
  <2>3. Head(s) \in ToSet(s)
    BY <1>1, <1>2 DEF ToSet
  <2> QED BY <2>1, <2>2, <2>3
<1>4. ASSUME Sorted(s) PROVE Sorted(Tail(s))
  <2> SUFFICES ASSUME NEW i \in 1..Len(Tail(s)), NEW j \in 1..Len(Tail(s)), i < j,
                      SameRoute(Tail(s)[i], Tail(s)[j])
               PROVE  Tail(s)[i].number < Tail(s)[j].number
    BY DEF Sorted
  <2>1. i + 1 \in 1..Len(s) /\ j + 1 \in 1..Len(s) /\ i + 1 < j + 1
    BY <1>1
  <2>2. Tail(s)[i] = s[i + 1] /\ Tail(s)[j] = s[j + 1]
    BY <1>1
  <2> QED BY <1>4, <2>1, <2>2 DEF Sorted
<1>5. ASSUME Sorted(s), NEW m \in ToSet(Tail(s)), SameRoute(Head(s), m)
      PROVE  Head(s).number < m.number
  <2>1. PICK i \in 1..Len(Tail(s)) : m = Tail(s)[i]
    BY <1>2 DEF ToSet
  <2>2. 1 \in 1..Len(s) /\ i + 1 \in 1..Len(s) /\ 1 < i + 1 /\ m = s[i + 1]
    BY <1>1, <2>1
  <2> QED BY <1>1, <1>5, <2>2 DEF Sorted
<1>6. Head(s) \in Messages
  OBVIOUS
<1> QED BY <1>3, <1>4, <1>5, <1>6

LEMMA JoinContents ==
  ASSUME NEW s \in Seq(Messages), NEW u \in Seq(Messages)
  PROVE  /\ s \o u \in Seq(Messages)
         /\ ToSet(s \o u) = ToSet(s) \cup ToSet(u)
         /\ /\ Sorted(s) /\ Sorted(u)
            /\ \A m \in ToSet(s), o \in ToSet(u) : SameRoute(m, o) => m.number < o.number
            => Sorted(s \o u)
<1> DEFINE w == s \o u  k == Len(s)  l == Len(u)
<1>1. /\ w \in Seq(Messages) /\ k \in Nat /\ l \in Nat /\ Len(w) = k + l
      /\ \A i \in 1..(k + l) : w[i] = IF i <= k THEN s[i] ELSE u[i - k]
  BY ConcatProperties, LenProperties
<1>2. DOMAIN s = 1..k /\ DOMAIN u = 1..l /\ DOMAIN w = 1..(k + l)
  BY <1>1
<1> HIDE DEF w, k, l
<1>3. ToSet(w) = ToSet(s) \cup ToSet(u)
  <2>1. ASSUME NEW m \in ToSet(w) PROVE m \in ToSet(s) \cup ToSet(u)
    <3>1. PICK i \in 1..(k + l) : m = w[i]
      BY <1>2 DEF ToSet
    <3>2. CASE i <= k
      <4>1. i \in 1..k /\ m = s[i]
        BY <1>1, <3>1, <3>2
      <4> QED BY <1>2, <4>1 DEF ToSet
    <3>3. CASE ~(i <= k)
      <4>1. i - k \in 1..l /\ m = u[i - k]
        BY <1>1, <3>1, <3>3
      <4> QED BY <1>2, <4>1 DEF ToSet
    <3> QED BY <3>2, <3>3
  <2>2. ASSUME NEW m \in ToSet(s) PROVE m \in ToSet(w)
    <3>1. PICK i \in 1..k : m = s[i]
      BY <1>2 DEF ToSet
    <3>2. i \in 1..(k + l) /\ m = w[i]
      BY <1>1, <3>1
    <3> QED BY <1>2, <3>2 DEF ToSet
  <2>3. ASSUME NEW m \in ToSet(u) PROVE m \in ToSet(w)
    <3>1. PICK i \in 1..l : m = u[i]
      BY <1>2 DEF ToSet
    <3>2. i + k \in 1..(k + l) /\ ~(i + k <= k) /\ (i + k) - k = i
      BY <1>1, <3>1
    <3>3. m = w[i + k]
      BY <1>1, <3>1, <3>2
    <3> QED BY <1>2, <3>2, <3>3 DEF ToSet
  <2> QED BY <2>1, <2>2, <2>3
<1>4. ASSUME Sorted(s), Sorted(u),
             \A m \in ToSet(s), o \in ToSet(u) : SameRoute(m, o) => m.number < o.number
      PROVE  Sorted(w)
  <2> SUFFICES ASSUME NEW i \in 1..(k + l), NEW j \in 1..(k + l), i < j, SameRoute(w[i], w[j])
               PROVE  w[i].number < w[j].number
    BY <1>1 DEF Sorted
  <2>1. CASE j <= k
    <3>1. i \in 1..k /\ j \in 1..k /\ w[i] = s[i] /\ w[j] = s[j]
      BY <1>1, <2>1
    <3> QED BY <1>4, <3>1 DEF Sorted, k
  <2>2. CASE i > k
    <3>1. i - k \in 1..l /\ j - k \in 1..l /\ i - k < j - k /\ w[i] = u[i - k] /\ w[j] = u[j - k]
      BY <1>1, <2>2
    <3> QED BY <1>4, <3>1 DEF Sorted, l
  <2>3. CASE i <= k /\ j > k
    <3>1. i \in 1..k /\ j - k \in 1..l /\ w[i] = s[i] /\ w[j] = u[j - k]
      BY <1>1, <2>3
    <3>2. s[i] \in ToSet(s) /\ u[j - k] \in ToSet(u)
      BY <1>2, <3>1 DEF ToSet
    <3> QED BY <1>4, <3>1, <3>2
  <2> QED BY <1>1, <2>1, <2>2, <2>3
<1> QED BY <1>1, <1>3, <1>4 DEF w

\* A notice is no call: it comes after any.
LEMMA AppendContents ==
  ASSUME NEW s \in Seq(Messages), NEW m \in Messages, m.type # "CALL"
  PROVE  /\ Append(s, m) \in Seq(Messages)
         /\ ToSet(Append(s, m)) = ToSet(s) \cup {m}
         /\ Sorted(s) => Sorted(Append(s, m))
<1>1. <<m>> \in Seq(Messages) /\ Append(s, m) = s \o <<m>>
  BY AppendIsConcat
<1>2. ToSet(<<m>>) = {m}
  BY DEF ToSet
<1>3. Sorted(<<m>>)
  BY DEF Sorted, SameRoute
<1>4. \A x \in ToSet(s), o \in ToSet(<<m>>) : ~SameRoute(x, o)
  BY <1>2 DEF SameRoute
<1> QED BY <1>1, <1>2, <1>3, <1>4, JoinContents

\* The whispers of one call to one peer: each agent gets one of them.
LEMMA PostContents ==
  ASSUME Types, NEW s \in Seq(Messages), NEW t \in Threads, NEW n \in Nat, NEW a \in Agents,
         NEW name, NEW args \in Seq(Nat), NEW q
  PROVE  LET S == Whispers(q, t, n, a, name, args) IN
         /\ s \o SetToSeq(S) \in Seq(Messages)
         /\ ToSet(s \o SetToSeq(S)) = ToSet(s) \cup S
         /\ /\ Sorted(s)
            /\ \A m \in Calls(s) : m.thread = t => m.number < n
            => Sorted(s \o SetToSeq(S))
<1> DEFINE S == Whispers(q, t, n, a, name, args)  u == SetToSeq(S)
<1>1. IsFiniteSet(S) /\ u \in Seq(Messages)
  BY WhispersType
<1>2. \A m \in S : m.type = "CALL" /\ m.thread = t /\ m.number = n
  BY DEF Whispers, CallMessage
<1>3. \A m, o \in S : m.agent = o.agent => m = o
  BY DEF Whispers, CallMessage
<1> HIDE DEF S
<1>4. /\ u \in Seq(S)
      /\ \A i, j \in 1..Len(u) : u[i] = u[j] => i = j
      /\ \A x \in S : \E i \in 1..Len(u) : u[i] = x
  BY <1>1, SetToSeqFacts
<1> HIDE DEF u
<1>5. ToSet(u) = S
  <2>1. u \in Seq(S)
    BY <1>4
  <2>2. DOMAIN u = 1..Len(u) /\ \A i \in 1..Len(u) : u[i] \in S
    BY <2>1
  <2> QED BY <1>4, <2>2 DEF ToSet
<1>6. Sorted(u)
  <2> SUFFICES ASSUME NEW i \in 1..Len(u), NEW j \in 1..Len(u), i < j, u[i].agent = u[j].agent
               PROVE  FALSE
    BY DEF Sorted, SameRoute
  <2>1. u[i] \in S /\ u[j] \in S
    <3>1. u \in Seq(S)
      BY <1>4
    <3> QED BY <3>1
  <2>2. u[i] = u[j]
    BY <1>3, <2>1
  <2> QED BY <1>4, <2>2
<1>7. ASSUME \A m \in Calls(s) : m.thread = t => m.number < n
      PROVE  \A m \in ToSet(s), o \in ToSet(u) : SameRoute(m, o) => m.number < o.number
  BY <1>2, <1>5, <1>7 DEF SameRoute, Calls
<1>8. /\ s \o u \in Seq(Messages)
      /\ ToSet(s \o u) = ToSet(s) \cup S
      /\ /\ Sorted(s)
         /\ \A m \in Calls(s) : m.thread = t => m.number < n
         => Sorted(s \o u)
  BY <1>1, <1>5, <1>6, <1>7, JoinContents
<1> QED BY <1>8 DEF u, S

\* Contents of the channels before and after one message is popped.
LEMMA Popping ==
  ASSUME Types, Mail, NEW p \in Peers, NEW q \in Peers, channel[q][p] # <<>>,
         channel' = Popped(q, p)
  PROVE  /\ Head(channel[q][p]) \in Messages
         /\ ToSet(channel[q][p]) = {Head(channel[q][p])} \cup ToSet(channel'[q][p])
         /\ \A m \in ToSet(channel'[q][p]) :
              SameRoute(Head(channel[q][p]), m) => Head(channel[q][p]).number < m.number
         /\ \A p1, q1 \in Peers :
              /\ Sorted(channel'[p1][q1])
              /\ ToSet(channel'[p1][q1]) \subseteq ToSet(channel[p1][q1])
              /\ p1 # q \/ q1 # p => channel'[p1][q1] = channel[p1][q1]
<1> DEFINE s == channel[q][p]
<1>1. s \in Seq(Messages) /\ Sorted(s)
  BY DEF Types, Mail
<1>2. channel'[q][p] = Tail(s)
  BY DEF Popped, Types
<1>3. \A p1, q1 \in Peers : p1 # q \/ q1 # p => channel'[p1][q1] = channel[p1][q1]
  BY DEF Popped, Types
<1>4. /\ Head(s) \in Messages
      /\ ToSet(s) = {Head(s)} \cup ToSet(Tail(s))
      /\ Sorted(Tail(s))
      /\ \A m \in ToSet(Tail(s)) : SameRoute(Head(s), m) => Head(s).number < m.number
  <2> HIDE DEF s
  <2> s # <<>>
    BY DEF s
  <2> QED BY <1>1, PopContents
<1>5. ASSUME NEW p1 \in Peers, NEW q1 \in Peers
      PROVE  Sorted(channel'[p1][q1]) /\ ToSet(channel'[p1][q1]) \subseteq ToSet(channel[p1][q1])
  <2>1. CASE p1 = q /\ q1 = p
    BY <1>2, <1>4, <2>1
  <2>2. CASE p1 # q \/ q1 # p
    BY <1>3, <2>2 DEF Mail
  <2> QED BY <2>1, <2>2
<1> QED BY <1>2, <1>3, <1>4, <1>5

\* ... after a notice is sent to every other peer ...
LEMMA Noticing ==
  ASSUME Types, Mail, NEW a \in Agents, NEW type \in {"KNOWN", "EXIT"},
         channel' = SendAll(Home[a], Notice(type, a))
  PROVE  \A p, q \in Peers :
           /\ Sorted(channel'[p][q])
           /\ Calls(channel'[p][q]) = Calls(channel[p][q])
           /\ \A m \in ToSet(channel'[p][q]) :
                m \in ToSet(channel[p][q]) \/ (p = Home[a] /\ m = Notice(type, a))
<1> DEFINE m == Notice(type, a)
<1>1. m \in Messages /\ m.type # "CALL"
  BY NoticeType DEF Notice
<1> SUFFICES ASSUME NEW p \in Peers, NEW q \in Peers
             PROVE  /\ Sorted(channel'[p][q])
                    /\ Calls(channel'[p][q]) = Calls(channel[p][q])
                    /\ \A x \in ToSet(channel'[p][q]) :
                         x \in ToSet(channel[p][q]) \/ (p = Home[a] /\ x = m)
  OBVIOUS
<1>2. channel[p][q] \in Seq(Messages) /\ Sorted(channel[p][q])
  BY DEF Types, Mail
<1>3. channel'[p][q] = IF p = Home[a] /\ q # Home[a] THEN Append(channel[p][q], m) ELSE channel[p][q]
  BY DEF SendAll
<1>4. /\ ToSet(Append(channel[p][q], m)) = ToSet(channel[p][q]) \cup {m}
      /\ Sorted(Append(channel[p][q], m))
  <2> HIDE DEF m
  <2> QED BY <1>1, <1>2, AppendContents
<1> QED BY <1>1, <1>2, <1>3, <1>4 DEF Calls

\* ... and after the whispers of a call.
LEMMA Calling ==
  ASSUME Types, TypeOK, Mail, NEW t \in Threads, NEW a \in Agents, NEW name \in Names,
         NEW args \in Lists[t], Call(t, a, name, args)
  PROVE  LET n == call[t].number + 1 IN
         /\ n \in Nat /\ args \in Seq(Nat) /\ Home[a] \in Peers
         /\ \A q \in Peers :
              ToSet(channel'[Home[a]][q]) =
                ToSet(channel[Home[a]][q]) \cup Whispers(q, t, n, a, name, args)
         /\ \A p \in Peers \ {Home[a]} : channel'[p] = channel[p]
         /\ \A p, q \in Peers : Sorted(channel'[p][q])
<1> DEFINE n == call[t].number + 1  p == Home[a]
<1>1. n \in Nat /\ args \in Seq(Nat) /\ p \in Peers
  BY ServicesAssumption DEF Types, CallRecords, ServicesAssumption
<1>2. channel' = [channel EXCEPT ![p] =
                    [q \in Peers |-> channel[p][q] \o SetToSeq(Whispers(q, t, n, a, name, args))]]
  BY DEF Call, Posted, Whispers
<1>3. ASSUME NEW q \in Peers
      PROVE  /\ channel'[p][q] = channel[p][q] \o SetToSeq(Whispers(q, t, n, a, name, args))
             /\ channel[p][q] \in Seq(Messages) /\ Sorted(channel[p][q])
             /\ \A m \in Calls(channel[p][q]) : m.thread = t => m.number < n
  <2>1. channel'[p][q] = channel[p][q] \o SetToSeq(Whispers(q, t, n, a, name, args))
    BY <1>1, <1>2 DEF Types
  <2>2. channel[p][q] \in Seq(Messages) /\ Sorted(channel[p][q])
    BY <1>1 DEF Types, Mail
  <2>3. ASSUME NEW m \in Calls(channel[p][q]), m.thread = t PROVE m.number < n
    <3>1. m.number <= call[t].number
      BY <1>1, <2>3 DEF Mail, Proper, Calls
    <3>2. m \in Messages
      BY <2>2 DEF Calls, ToSet
    <3>3. m.number \in Nat /\ call[t].number \in Nat
      BY <3>2 DEF Messages, Types, CallRecords
    <3> QED BY <3>1, <3>3
  <2> QED BY <2>1, <2>2, <2>3
<1>4. \A p1 \in Peers \ {p} : channel'[p1] = channel[p1]
  BY <1>2 DEF Types
<1> HIDE DEF n, p
<1>5. \A q \in Peers :
        /\ ToSet(channel'[p][q]) = ToSet(channel[p][q]) \cup Whispers(q, t, n, a, name, args)
        /\ Sorted(channel'[p][q])
  <2> TAKE q \in Peers
  <2> DEFINE s == channel[p][q]
  <2>1. s \in Seq(Messages) /\ Sorted(s) /\ \A m \in Calls(s) : m.thread = t => m.number < n
    BY <1>3
  <2>2. channel'[p][q] = s \o SetToSeq(Whispers(q, t, n, a, name, args))
    BY <1>3
  <2> HIDE DEF s
  <2>3. /\ ToSet(channel'[p][q]) = ToSet(s) \cup Whispers(q, t, n, a, name, args)
        /\ Sorted(channel'[p][q])
    BY <1>1, <2>1, <2>2, PostContents
  <2> QED BY <2>3 DEF s
<1>6. \A p1, q1 \in Peers : Sorted(channel'[p1][q1])
  BY <1>4, <1>5 DEF Mail
<1> QED BY <1>1, <1>4, <1>5, <1>6 DEF n, p

-----------------------------------------------------------------------------
(***************************************************************************)
(* Sound is inductive.                                                     *)
(***************************************************************************)
\* The numbers of the calls made so far bound everything, and only grow.
LEMMA NumbersGrow ==
  ASSUME Sound, Types', \A t \in Threads : call[t].number <= call'[t].number
  PROVE  /\ \A p, q \in Peers : \A m \in ToSet(channel[p][q]) : Proper(p, q, m, call')
         /\ \A p \in Peers : handling[p] # NoHandling => HandlerOK(p, handling[p], call')
         /\ \A r \in Served : r.thread \in Threads /\ r.number \in 0..call'[r.thread].number
<1>1. \A t \in Threads : call[t].number \in Nat /\ call'[t].number \in Nat
  BY DEF Sound, Types, CallRecords
<1>2. ASSUME NEW p \in Peers, NEW q \in Peers, NEW m \in ToSet(channel[p][q])
      PROVE  Proper(p, q, m, call')
  <2>1. channel[p][q] \in Seq(Messages)
    BY DEF Sound, Types
  <2>2. m \in Messages
    BY <2>1 DEF ToSet
  <2>3. m.number \in Nat /\ Proper(p, q, m, call)
    BY <2>2 DEF Messages, Sound, Placed, Mail
  <2> QED BY <1>1, <2>3 DEF Proper
<1>3. ASSUME NEW p \in Peers, handling[p] # NoHandling PROVE HandlerOK(p, handling[p], call')
  <2>1. handling[p].number \in Nat /\ HandlerOK(p, handling[p], call)
    BY <1>3, RecordTypes DEF Sound, Placed, Handled
  <2> QED BY <1>1, <2>1 DEF HandlerOK
<1>4. ASSUME NEW r \in Served
      PROVE  r.thread \in Threads /\ r.number \in 0..call'[r.thread].number
  <2> QED BY <1>1, <1>4 DEF Sound, Placed, ServedBefore
<1> QED BY <1>2, <1>3, <1>4

LEMMA CallSound ==
  ASSUME Sound, Types', NEW t \in Threads, NEW a \in Agents, NEW name \in Names,
         NEW args \in Lists[t], Call(t, a, name, args)
  PROVE  Placed'
<1> DEFINE n == call[t].number + 1  p == Home[a]
<1>1. Types /\ TypeOK /\ Mail /\ Walks /\ Handled /\ ServedBefore
  BY DEF Sound, Placed
<1>2. /\ n \in Nat /\ args \in Seq(Nat) /\ p \in Peers
      /\ \A q \in Peers :
           ToSet(channel'[p][q]) = ToSet(channel[p][q]) \cup Whispers(q, t, n, a, name, args)
      /\ \A p1 \in Peers \ {p} : channel'[p1] = channel[p1]
      /\ \A p1, q1 \in Peers : Sorted(channel'[p1][q1])
  BY <1>1, Calling
<1>3. /\ call'[t] = [phase |-> "walk", number |-> n, caller |-> a, target |-> name, args |-> args,
                     rest |-> LocalWalk(a), callee |-> NoCall, inst |-> 0]
      /\ \A u \in Threads \ {t} : call'[u] = call[u]
      /\ a \in CallerOf[t]
      /\ UNCHANGED <<agentVars, stamp, handling, edits, served>>
  BY <1>1 DEF Call, Types
<1>4. \A u \in Threads : call[u].number \in Nat /\ call[u].number <= call'[u].number
  BY <1>1, <1>3, RecordTypes
<1>5. /\ \A p1, q \in Peers : \A m \in ToSet(channel[p1][q]) : Proper(p1, q, m, call')
      /\ \A p1 \in Peers : handling[p1] # NoHandling => HandlerOK(p1, handling[p1], call')
      /\ \A r \in Served : r.thread \in Threads /\ r.number \in 0..call'[r.thread].number
  BY <1>4, NumbersGrow
<1>6. ASSUME NEW q \in Peers, NEW m \in Whispers(q, t, n, a, name, args)
      PROVE  /\ Proper(p, q, m, call')
             /\ m.type = "CALL" /\ m.thread = t /\ m.number = n
  <2>1. PICK c \in Remote(a, name) : Home[c] = q /\ m = CallMessage(t, n, a, c, args)
    BY DEF Whispers
  <2>2. Home[c] # p
    BY <1>1, <1>2, <2>1 DEF Remote, TypeOK
  <2>3. m.type = "CALL" /\ m.thread = t /\ m.number = n /\ m.agent = c
    BY <2>1 DEF CallMessage
  <2>4. CallsFrom(t, p)
    BY <1>3 DEF CallsFrom
  <2>5. n <= call'[t].number
    BY <1>2, <1>3
  <2> QED BY <2>1, <2>2, <2>3, <2>4, <2>5 DEF Proper
<1> HIDE DEF n, p
<1>7. Mail'
  <2>1. ASSUME NEW p1 \in Peers, NEW q \in Peers, NEW m \in ToSet(channel'[p1][q])
        PROVE  Proper(p1, q, m, call')
    <3>1. m \in ToSet(channel[p1][q]) \/ (p1 = p /\ m \in Whispers(q, t, n, a, name, args))
      BY <1>2, <2>1
    <3> QED BY <1>5, <1>6, <3>1
  <2> QED BY <1>2, <2>1 DEF Mail
<1>8. Walks'
  <2>1. \A b \in LocalWalk(a) : Home[b] = Home[a] /\ b # NoCall
    BY <1>1, ServicesAssumption DEF LocalWalk, Types, ServicesAssumption
  <2> QED BY <1>1, <1>3, <2>1 DEF Walks
<1>9. Handled'
  <2> SUFFICES ASSUME NEW p1 \in Peers, handling[p1] # NoHandling,
                      NEW q \in Peers, NEW m \in Calls(channel'[q][p1]),
                      m.thread = handling[p1].thread, m.agent = handling[p1].callee
               PROVE  handling[p1].number < m.number
    BY <1>3, <1>5 DEF Handled, NoHandling
  <2>1. m \in Calls(channel[q][p1]) \/ (q = p /\ m \in Whispers(p1, t, n, a, name, args))
    BY <1>2 DEF Calls
  <2>2. handling[p1].number <= call[m.thread].number /\ handling[p1].number \in Nat
    BY <1>1 DEF Handled, HandlerOK, Types, Handlers
  <2>3. CASE q = p /\ m \in Whispers(p1, t, n, a, name, args)
    BY <1>4, <1>6, <2>2, <2>3 DEF n
  <2> QED BY <1>1, <2>1, <2>3 DEF Handled
<1>10. ServedBefore'
  BY <1>3, <1>5 DEF ServedBefore, Served
<1>11. TypeOK'
  BY <1>1, <1>3 DEF TypeOK, agentVars, NoHandling
<1> QED BY <1>7, <1>8, <1>9, <1>10, <1>11 DEF Placed

\* When the channels, the handlers and the callbacks are left alone, calls
\* may go on.
LEMMA OnlyCallsChange ==
  ASSUME Sound, Types', \A t \in Threads : call[t].number <= call'[t].number,
         UNCHANGED <<channel, handling>>
  PROVE  /\ Mail' /\ Handled'
         /\ UNCHANGED served => ServedBefore'
<1>1. /\ \A p, q \in Peers : \A m \in ToSet(channel[p][q]) : Proper(p, q, m, call')
      /\ \A p \in Peers : handling[p] # NoHandling => HandlerOK(p, handling[p], call')
      /\ \A r \in Served : r.thread \in Threads /\ r.number \in 0..call'[r.thread].number
  BY NumbersGrow
<1>2. Mail'
  BY <1>1 DEF Sound, Placed, Mail
<1>3. Handled'
  BY <1>1 DEF Sound, Placed, Handled, NoHandling
<1>4. UNCHANGED served => ServedBefore'
  BY <1>1 DEF ServedBefore, Served
<1> QED BY <1>2, <1>3, <1>4

\* The outcomes of a visit: the walk ends, skips the agent or calls it.
WalkEnds(t) ==
  /\ call'[t].phase = "idle" /\ call'[t].rest = {} /\ call'[t].callee = NoCall
WalkSkips(t, b) ==
  /\ call'[t].phase = "walk" /\ call'[t].callee = NoCall
  /\ call'[t].rest = call[t].rest \ {b}
  /\ call'[t].caller = call[t].caller /\ call'[t].target = call[t].target
  /\ call'[t].args = call[t].args
WalkCalls(t, b) ==
  /\ call'[t].phase = "callback" /\ call'[t].callee = b /\ call'[t].inst = service[b].inst
  /\ call'[t].rest = call[t].rest \ {b}
  /\ call'[t].caller = call[t].caller /\ call'[t].target = call[t].target
  /\ call'[t].args = call[t].args
Matches(t, b) ==
  Addressed(b, call[t].target) /\ service[b].inst # 0 /\ Len(service[b].args) = Len(call[t].args)

LEMMA VisitEffect ==
  ASSUME Types, TypeOK, NEW t \in Threads, NEW b \in Agents, Visit(t, b)
  PROVE  /\ call[t].phase = "walk" /\ call[t].callee = NoCall /\ b \in call[t].rest
         /\ call'[t].number = call[t].number
         /\ \A u \in Threads \ {t} : call'[u] = call[u]
         /\ UNCHANGED <<agentVars, channel, handling, edits, served, due>>
         /\ \/ b \notin alive /\ UNCHANGED stamp /\ WalkEnds(t)
            \/ (b \notin alive \/ ~Matches(t, b)) /\ UNCHANGED stamp /\ WalkSkips(t, b)
            \/ /\ b \in alive /\ Matches(t, b) /\ WalkCalls(t, b)
               /\ stamp' = [stamp EXCEPT ![call[t].caller] = StampOf(t, call[t].number, call[t].caller)]
<1> DEFINE c == call[t]
<1>1. c \in CallRecords /\ c.phase = "walk" /\ c.callee = NoCall /\ b \in c.rest
  BY DEF Types, TypeOK, Visit
<1>2. /\ \A u \in Threads \ {t} : call'[u] = call[u]
      /\ UNCHANGED <<agentVars, channel, handling, edits, served, due>>
  BY DEF Visit, Types
<1>3. CASE b \notin alive /\ call' = [call EXCEPT ![t] = Ended(c)]
  <2>1. call'[t] = Ended(c)
    BY <1>3 DEF Types
  <2> HIDE DEF c
  <2>2. Ended(c).number = c.number /\ Ended(c).phase = "idle" /\ Ended(c).rest = {}
        /\ Ended(c).callee = NoCall
    BY DEF Ended, Idle
  <2>3. UNCHANGED stamp
    BY <1>3 DEF Visit
  <2>4. call'[t].number = c.number /\ WalkEnds(t)
    BY <2>1, <2>2 DEF WalkEnds
  <2> QED BY <1>1, <1>2, <1>3, <2>3, <2>4 DEF c
<1>4. CASE (b \notin alive \/ ~Matches(t, b)) /\ call' = [call EXCEPT ![t].rest = Following(@, b)]
  <2>1. call'[t] = [c EXCEPT !.rest = c.rest \ {b}]
    BY <1>4 DEF Types, Following
  <2>2. call'[t].number = c.number /\ WalkSkips(t, b)
    BY <1>1, <2>1 DEF WalkSkips, CallRecords
  <2>3. UNCHANGED stamp
    BY <1>4 DEF Visit, Matches
  <2> QED BY <1>1, <1>2, <1>4, <2>2, <2>3
<1>5. CASE b \in alive /\ Matches(t, b)
  <2>1. call'[t] = [c EXCEPT !.phase = "callback", !.rest = c.rest \ {b}, !.callee = b,
                            !.inst = service[b].inst]
    BY <1>5 DEF Visit, Matches, Types, Following
  <2>2. call'[t].number = c.number /\ WalkCalls(t, b)
    BY <1>1, <2>1 DEF WalkCalls, CallRecords
  <2>3. stamp' = [stamp EXCEPT ![c.caller] = StampOf(t, c.number, c.caller)]
    BY <1>5 DEF Visit, Matches
  <2> QED BY <1>1, <1>2, <1>5, <2>2, <2>3
<1> QED BY <1>3, <1>4, <1>5 DEF Visit, Matches

LEMMA VisitSound ==
  ASSUME Sound, Types', NEW t \in Threads, NEW b \in Agents, Visit(t, b)
  PROVE  Placed'
<1>1. Types /\ TypeOK /\ Mail /\ Walks /\ Handled /\ ServedBefore
  BY DEF Sound, Placed
<1>2. /\ call[t].phase = "walk" /\ call[t].callee = NoCall /\ b \in call[t].rest
      /\ call'[t].number = call[t].number
      /\ \A u \in Threads \ {t} : call'[u] = call[u]
      /\ UNCHANGED <<agentVars, channel, handling, edits, served, due>>
      /\ WalkEnds(t) \/ WalkSkips(t, b) \/ WalkCalls(t, b)
  BY <1>1, VisitEffect
<1>3. Mail' /\ Handled' /\ ServedBefore'
  BY <1>1, <1>2, RecordTypes, OnlyCallsChange
<1>4. Walks'
  <2>1. b # NoCall /\ NoCall \notin call[t].rest
    BY <1>1, <1>2, ServicesAssumption, RecordTypes DEF ServicesAssumption
  <2>2. \A x \in call[t].rest : Home[x] = Home[call[t].caller]
    BY <1>1, <1>2 DEF Walks
  <2> QED BY <1>1, <1>2, <2>1, <2>2 DEF Walks, WalkEnds, WalkSkips, WalkCalls
<1>5. TypeOK'
  <2>1. b # NoCall
    BY ServicesAssumption DEF ServicesAssumption
  <2> QED BY <1>1, <1>2, <2>1 DEF TypeOK, agentVars, NoHandling, WalkEnds, WalkSkips, WalkCalls
<1> QED BY <1>3, <1>4, <1>5 DEF Placed

LEMMA EndCallEffect ==
  ASSUME Types, TypeOK, NEW t \in Threads, EndCall(t)
  PROVE  /\ call[t].phase = "walk" /\ call[t].rest = {} /\ call[t].callee = NoCall
         /\ call'[t].number = call[t].number /\ WalkEnds(t)
         /\ \A u \in Threads \ {t} : call'[u] = call[u]
         /\ UNCHANGED <<agentVars, stamp, channel, handling, edits, served, due>>
<1>1. call'[t] = Ended(call[t])
  BY DEF EndCall, Types
<1> DEFINE c == call[t]
<1>2. Ended(c).number = c.number /\ Ended(c).phase = "idle" /\ Ended(c).rest = {}
      /\ Ended(c).callee = NoCall
  <2> HIDE DEF c
  <2> QED BY DEF Ended, Idle
<1>3. call[t].phase = "walk" /\ call[t].rest = {} /\ call[t].callee = NoCall
  BY DEF EndCall, TypeOK
<1>4. /\ \A u \in Threads \ {t} : call'[u] = call[u]
      /\ UNCHANGED <<agentVars, stamp, channel, handling, edits, served, due>>
  BY DEF EndCall, Types
<1> QED BY <1>1, <1>2, <1>3, <1>4 DEF WalkEnds

LEMMA EndCallSound ==
  ASSUME Sound, Types', NEW t \in Threads, EndCall(t)
  PROVE  Placed'
<1>1. Types /\ TypeOK /\ Mail /\ Walks /\ Handled /\ ServedBefore
  BY DEF Sound, Placed
<1>2. /\ call'[t].number = call[t].number /\ WalkEnds(t)
      /\ \A u \in Threads \ {t} : call'[u] = call[u]
      /\ UNCHANGED <<agentVars, channel, handling, served>>
  BY <1>1, EndCallEffect
<1>3. Mail' /\ Handled' /\ ServedBefore'
  BY <1>1, <1>2, RecordTypes, OnlyCallsChange
<1>4. Walks' /\ TypeOK'
  BY <1>1, <1>2 DEF Walks, TypeOK, agentVars, NoHandling, WalkEnds
<1> QED BY <1>3, <1>4 DEF Placed

\* A callback serves its request, or nothing.
LEMMA LocalCallbackEffect ==
  ASSUME Types, TypeOK, NEW t \in Threads, LocalCallback(t)
  PROVE  /\ call[t].phase = "callback" /\ call[t].callee \in Agents
         /\ call'[t].number = call[t].number /\ call'[t].phase = "walk"
         /\ call'[t].callee = NoCall /\ call'[t].rest = call[t].rest
         /\ call'[t].caller = call[t].caller /\ call'[t].target = call[t].target
         /\ call'[t].args = call[t].args
         /\ \A u \in Threads \ {t} : call'[u] = call[u]
         /\ stamp' = ClearedStamp(call[t].caller)
         /\ UNCHANGED <<agentVars, channel, handling, edits, due>>
         /\ \/ Served' = Served \cup {Request(t, call[t].number, call[t].callee)}
            \/ /\ Served' = Served
               /\ ~ /\ call[t].callee \in alive /\ call[t].caller \in alive
                    /\ CallbackSet(call[t].callee, call[t].inst) = {TRUE}
<1> DEFINE c == call[t]
<1>1. c \in CallRecords /\ c.phase = "callback" /\ c.callee \in Agents
  BY RecordTypes DEF Types, TypeOK, LocalCallback
<1>2. call'[t] = [c EXCEPT !.phase = "walk", !.callee = NoCall, !.inst = 0]
  BY DEF LocalCallback, Types
<1>3. /\ call'[t].number = call[t].number /\ call'[t].phase = "walk"
      /\ call'[t].callee = NoCall /\ call'[t].rest = call[t].rest
      /\ call'[t].caller = call[t].caller /\ call'[t].target = call[t].target
      /\ call'[t].args = call[t].args
  BY <1>1, <1>2 DEF CallRecords
<1>4. /\ \A u \in Threads \ {t} : call'[u] = call[u]
      /\ stamp' = ClearedStamp(call[t].caller)
      /\ UNCHANGED <<agentVars, channel, handling, edits, due>>
  BY DEF LocalCallback, Types
<1>5. PICK set \in CallbackSet(c.callee, c.inst) :
        served' = IF c.callee \in alive /\ c.caller \in alive /\ set
                  THEN served \cup {Given(Request(t, c.number, c.callee), TRUE, Len(c.args),
                                          Len(c.args), stamp[c.callee])}
                  ELSE served
  BY DEF LocalCallback
<1> HIDE DEF c
<1>6. CASE c.callee \in alive /\ c.caller \in alive /\ set
  <2> DEFINE g == Given(Request(t, c.number, c.callee), TRUE, Len(c.args), Len(c.args),
                        stamp[c.callee])
  <2>2. g.request = Request(t, c.number, c.callee)
    BY DEF Given
  <2>3. served' = served \cup {g}
    BY <1>5, <1>6
  <2> HIDE DEF g
  <2>1. Served' = Served \cup {Request(t, c.number, c.callee)}
    BY <2>2, <2>3 DEF Served
  <2> QED BY <1>1, <1>3, <1>4, <2>1 DEF c
<1>7. CASE ~(c.callee \in alive /\ c.caller \in alive /\ set)
  <2>1. Served' = Served
    BY <1>5, <1>7 DEF Served
  <2>2. ASSUME c.callee \in alive, c.caller \in alive, CallbackSet(c.callee, c.inst) = {TRUE}
        PROVE  FALSE
    <3>1. set = TRUE
      BY <2>2
    <3> QED BY <1>7, <2>2, <3>1
  <2> QED BY <1>1, <1>3, <1>4, <2>1, <2>2 DEF c
<1> QED BY <1>6, <1>7

LEMMA LocalCallbackSound ==
  ASSUME Sound, Types', NEW t \in Threads, LocalCallback(t)
  PROVE  Placed'
<1>1. Types /\ TypeOK /\ Mail /\ Walks /\ Handled /\ ServedBefore
  BY DEF Sound, Placed
<1>2. /\ call[t].phase = "callback" /\ call[t].callee \in Agents
      /\ call'[t].number = call[t].number /\ call'[t].phase = "walk"
      /\ call'[t].callee = NoCall /\ call'[t].rest = call[t].rest
      /\ call'[t].caller = call[t].caller
      /\ \A u \in Threads \ {t} : call'[u] = call[u]
      /\ UNCHANGED <<agentVars, channel, handling, edits, due>>
      /\ Served' \subseteq Served \cup {Request(t, call[t].number, call[t].callee)}
  BY <1>1, LocalCallbackEffect
<1>3. Mail' /\ Handled'
  BY <1>1, <1>2, RecordTypes, OnlyCallsChange
<1>4. ServedBefore'
  <2>1. call[t].number \in 0..call[t].number
    BY <1>1, RecordTypes
  <2> QED BY <1>1, <1>2, <2>1 DEF ServedBefore, Request
<1>5. Walks'
  <2>1. NoCall \notin call[t].rest
    BY <1>1, ServicesAssumption, RecordTypes DEF ServicesAssumption
  <2> QED BY <1>1, <1>2, <2>1 DEF Walks
<1>6. TypeOK'
  BY <1>1, <1>2 DEF TypeOK, agentVars, NoHandling
<1> QED BY <1>3, <1>4, <1>5, <1>6 DEF Placed

\* All the calls of a thread come from one peer.
LEMMA OnePeer ==
  ASSUME NEW t \in Threads, NEW p, NEW q, CallsFrom(t, p), CallsFrom(t, q)
  PROVE  p = q
BY ServicesAssumption DEF CallsFrom, ServicesAssumption

\* CALL_SERVICE takes the first message: it is handled or rejected.
LEMMA HandleCallEffect ==
  ASSUME Types, Mail, NEW p \in Peers, NEW q \in Others(p), HandleCall(p, q)
  PROVE  LET m == Head(channel[q][p])
             s == service[m.agent]
         IN /\ handling[p] = NoHandling /\ q \in Peers /\ p # q
            /\ m \in ToSet(channel[q][p]) /\ m \in Messages /\ m.type = "CALL"
            /\ Proper(q, p, m, call)
            /\ UNCHANGED <<agentVars, call, edits, served, due>>
            /\ channel[q][p] # <<>> /\ channel' = Popped(q, p)
            /\ \A p1 \in Peers \ {p} : handling'[p1] = handling[p1]
            /\ \/ /\ m.agent \in active /\ s.inst # 0 /\ Fits(m.frames, s.args)
                  /\ handling'[p] # NoHandling
                  /\ handling'[p].callee = m.agent /\ handling'[p].thread = m.thread
                  /\ handling'[p].number = m.number /\ handling'[p].inst = s.inst
                  /\ \A a \in Agents : a # m.agent => stamp'[a] = stamp[a]
               \/ /\ ~(m.agent \in active /\ s.inst # 0 /\ Fits(m.frames, s.args))
                  /\ handling' = handling
                  /\ \A a \in Agents : stamp'[a] \in {stamp[a], NoCall}
<1> DEFINE m == Head(channel[q][p])  s == service[m.agent]
           h == [callee |-> m.agent, thread |-> m.thread, number |-> m.number,
                 inst |-> s.inst, frames |-> Len(m.frames), nb |-> Len(s.args)]
<1>1. /\ handling[p] = NoHandling /\ channel[q][p] # <<>> /\ m.type = "CALL"
      /\ q \in Peers /\ p # q
  BY DEF HandleCall, Received, Others
<1>2. channel' = Popped(q, p) /\ UNCHANGED <<agentVars, call, edits, served, due>>
  BY DEF HandleCall
<1>3. m \in Messages /\ m \in ToSet(channel[q][p])
  <2>1. Head(channel[q][p]) \in Messages
        /\ ToSet(channel[q][p]) = {Head(channel[q][p])} \cup ToSet(channel'[q][p])
    BY <1>1, <1>2, Popping
  <2> QED BY <2>1
<1>4. m.agent \in Agents
  BY <1>3 DEF Messages
<1>5. Proper(q, p, m, call)
  BY <1>1, <1>3 DEF Mail
<1>6. CASE m.agent \in active /\ s.inst # 0 /\ Fits(m.frames, s.args)
  <2>1. handling' = [handling EXCEPT ![p] = h]
    BY <1>6 DEF HandleCall
  <2>2. handling'[p] = h /\ \A p1 \in Peers \ {p} : handling'[p1] = handling[p1]
    BY <2>1 DEF Types
  <2>3. \A a \in Agents : a # m.agent => stamp'[a] = stamp[a]
    BY <1>6 DEF HandleCall, Types
  <2>4. h.callee = m.agent /\ h.thread = m.thread /\ h.number = m.number /\ h.inst = s.inst
    OBVIOUS
  <2>5. NoHandling.callee = NoCall /\ m.agent # NoCall
    BY <1>4, ServicesAssumption DEF NoHandling, ServicesAssumption
  <2> HIDE DEF h, m, s
  <2>6. h # NoHandling
    BY <2>4, <2>5
  <2>7. /\ handling'[p] # NoHandling
        /\ handling'[p].callee = m.agent /\ handling'[p].thread = m.thread
        /\ handling'[p].number = m.number /\ handling'[p].inst = s.inst
    BY <2>2, <2>4, <2>6
  <2> QED BY <1>1, <1>2, <1>3, <1>5, <1>6, <2>2, <2>3, <2>7 DEF m, s
<1>7. CASE ~(m.agent \in active /\ s.inst # 0 /\ Fits(m.frames, s.args))
  <2>1. handling' = handling
    BY <1>7 DEF HandleCall
  <2>2. \A a \in Agents : stamp'[a] \in {stamp[a], NoCall}
    BY <1>7 DEF HandleCall, Types, ClearedStamp
  <2> QED BY <1>1, <1>2, <1>3, <1>5, <1>7, <2>1, <2>2
<1> QED BY <1>6, <1>7

LEMMA HandleCallSound ==
  ASSUME Sound, Types', NEW p \in Peers, NEW q \in Others(p), HandleCall(p, q)
  PROVE  Placed'
<1> DEFINE m == Head(channel[q][p])
<1>1. Types /\ TypeOK /\ Mail /\ Walks /\ Handled /\ ServedBefore
  BY DEF Sound, Placed
<1>2. /\ q \in Peers /\ p # q
      /\ m \in ToSet(channel[q][p]) /\ m \in Messages /\ m.type = "CALL"
      /\ Proper(q, p, m, call)
      /\ UNCHANGED <<agentVars, call, edits, served, due>>
      /\ channel[q][p] # <<>> /\ channel' = Popped(q, p)
      /\ \A p1 \in Peers \ {p} : handling'[p1] = handling[p1]
      /\ \/ /\ handling'[p].callee = m.agent /\ handling'[p].thread = m.thread
            /\ handling'[p].number = m.number
         \/ handling' = handling
  BY <1>1, HandleCallEffect
<1>3. /\ \A o \in ToSet(channel'[q][p]) : SameRoute(m, o) => m.number < o.number
      /\ \A p1, q1 \in Peers : /\ Sorted(channel'[p1][q1])
                               /\ ToSet(channel'[p1][q1]) \subseteq ToSet(channel[p1][q1])
  BY <1>1, <1>2, Popping
<1>4. m.agent \in Agents /\ m.thread \in Threads /\ CallsFrom(m.thread, q)
      /\ m.number <= call[m.thread].number /\ Home[m.agent] = p
  BY <1>2 DEF Proper, Messages
<1> HIDE DEF m
<1>5. Mail'
  BY <1>1, <1>2, <1>3 DEF Mail
<1>6. Handled'
  <2>1. ASSUME NEW p1 \in Peers, handling'[p1] = handling[p1], handling'[p1] # NoHandling
        PROVE  /\ HandlerOK(p1, handling'[p1], call')
               /\ \A q1 \in Peers : \A o \in Calls(channel'[q1][p1]) :
                    o.thread = handling'[p1].thread /\ o.agent = handling'[p1].callee
                      => handling'[p1].number < o.number
    BY <1>1, <1>2, <1>3, <2>1 DEF Handled, Calls
  <2>2. CASE /\ handling'[p].callee = m.agent /\ handling'[p].thread = m.thread
             /\ handling'[p].number = m.number
    <3>1. HandlerOK(p, handling'[p], call')
      BY <1>2, <1>4, <2>2 DEF HandlerOK
    <3>2. ASSUME NEW q1 \in Peers, NEW o \in Calls(channel'[q1][p]),
                 o.thread = handling'[p].thread, o.agent = handling'[p].callee
          PROVE  handling'[p].number < o.number
      <4>1. o \in ToSet(channel[q1][p]) /\ o.type = "CALL"
        BY <1>3 DEF Calls
      <4>2. CallsFrom(m.thread, q1)
        BY <1>1, <2>2, <3>2, <4>1 DEF Mail, Proper
      <4>3. q1 = q
        BY <1>4, <4>2, OnePeer
      <4>4. SameRoute(m, o)
        BY <1>2, <2>2, <3>2, <4>1 DEF SameRoute
      <4> QED BY <1>3, <2>2, <3>2, <4>3, <4>4 DEF Calls
    <3> QED BY <1>2, <2>1, <3>1, <3>2 DEF Handled, NoHandling
  <2>3. CASE handling' = handling
    BY <2>1, <2>3 DEF Handled, NoHandling
  <2> QED BY <1>2, <2>2, <2>3
<1>7. ServedBefore' /\ Walks'
  BY <1>1, <1>2 DEF ServedBefore, Served, Walks
<1>8. TypeOK'
  BY <1>1, <1>2, <1>4 DEF TypeOK, agentVars, NoHandling
<1> QED BY <1>5, <1>6, <1>7, <1>8 DEF Placed

LEMMA RemoteCallbackEffect ==
  ASSUME Types, Handled, NEW p \in Peers, RemoteCallback(p)
  PROVE  LET h == handling[p] IN
         /\ h # NoHandling /\ HandlerOK(p, h, call)
         /\ handling'[p] = NoHandling /\ \A p1 \in Peers \ {p} : handling'[p1] = handling[p1]
         /\ stamp' = ClearedStamp(h.callee)
         /\ UNCHANGED <<agentVars, channel, call, edits, due>>
         /\ \/ Served' = Served \cup {Request(h.thread, h.number, h.callee)}
            \/ /\ Served' = Served
               /\ ~(h.callee \in alive /\ CallbackSet(h.callee, h.inst) = {TRUE})
<1> DEFINE h == handling[p]
<1>1. h # NoHandling /\ HandlerOK(p, h, call)
  BY DEF RemoteCallback, Handled
<1>2. /\ handling'[p] = NoHandling /\ \A p1 \in Peers \ {p} : handling'[p1] = handling[p1]
      /\ stamp' = ClearedStamp(h.callee)
      /\ UNCHANGED <<agentVars, channel, call, edits, due>>
  BY DEF RemoteCallback, Types
<1>3. PICK set \in CallbackSet(h.callee, h.inst) :
        served' = IF h.callee \in alive /\ set
                  THEN served \cup {Given(Request(h.thread, h.number, h.callee), FALSE, h.frames,
                                          h.nb, stamp[h.callee])}
                  ELSE served
  BY DEF RemoteCallback
<1> HIDE DEF h
<1>4. CASE h.callee \in alive /\ set
  <2> DEFINE g == Given(Request(h.thread, h.number, h.callee), FALSE, h.frames, h.nb,
                        stamp[h.callee])
  <2>1. g.request = Request(h.thread, h.number, h.callee)
    BY DEF Given
  <2>2. served' = served \cup {g}
    BY <1>3, <1>4
  <2> HIDE DEF g
  <2>3. Served' = Served \cup {Request(h.thread, h.number, h.callee)}
    BY <2>1, <2>2 DEF Served
  <2> QED BY <1>1, <1>2, <2>3 DEF h
<1>5. CASE ~(h.callee \in alive /\ set)
  <2>1. Served' = Served
    BY <1>3, <1>5 DEF Served
  <2>2. ASSUME h.callee \in alive, CallbackSet(h.callee, h.inst) = {TRUE}
        PROVE  FALSE
    <3>1. set = TRUE
      BY <2>2
    <3> QED BY <1>5, <2>2, <3>1
  <2> QED BY <1>1, <1>2, <2>1, <2>2 DEF h
<1> QED BY <1>4, <1>5

LEMMA RemoteCallbackSound ==
  ASSUME Sound, Types', NEW p \in Peers, RemoteCallback(p)
  PROVE  Placed'
<1> DEFINE h == handling[p]
<1>1. Types /\ TypeOK /\ Mail /\ Walks /\ Handled /\ ServedBefore
  BY DEF Sound, Placed
<1>2. /\ h # NoHandling /\ HandlerOK(p, h, call)
      /\ handling'[p] = NoHandling /\ \A p1 \in Peers \ {p} : handling'[p1] = handling[p1]
      /\ UNCHANGED <<agentVars, channel, call, edits, due>>
      /\ Served' \subseteq Served \cup {Request(h.thread, h.number, h.callee)}
  BY <1>1, RemoteCallbackEffect
<1>3. Mail' /\ Walks'
  BY <1>1, <1>2 DEF Mail, Walks
<1>4. Handled'
  <2>1. \A p1 \in Peers : handling'[p1] # NoHandling => handling'[p1] = handling[p1]
    BY <1>2
  <2> QED BY <1>1, <1>2, <2>1 DEF Handled, NoHandling
<1>5. ServedBefore'
  <2>1. h.number \in Nat /\ h.thread \in Threads /\ h.number <= call[h.thread].number
    BY <1>1, <1>2, RecordTypes DEF HandlerOK
  <2>2. h.number \in 0..call[h.thread].number
    BY <1>1, <2>1, RecordTypes
  <2> HIDE DEF h
  <2> QED BY <1>1, <1>2, <2>1, <2>2 DEF ServedBefore, Request
<1>6. TypeOK'
  BY <1>1, <1>2 DEF TypeOK, agentVars, NoHandling
<1> QED BY <1>3, <1>4, <1>5, <1>6 DEF Placed

LEMMA NewsSound ==
  ASSUME Sound, Types', NEW p \in Peers, NEW q \in Others(p),
         HandleDefinition(p, q) \/ HandleExit(p, q)
  PROVE  Placed'
<1> DEFINE m == Head(channel[q][p])
<1>1. Types /\ TypeOK /\ Mail /\ Walks /\ Handled /\ ServedBefore
  BY DEF Sound, Placed
<1>2. /\ q \in Peers /\ p # q /\ channel[q][p] # <<>> /\ channel' = Popped(q, p)
      /\ m.type \in {"KNOWN", "EXIT"}
      /\ UNCHANGED <<alive, active, service, stamp, call, handling, edits, served, due>>
  BY DEF HandleDefinition, HandleExit, Received, Others
<1>3. /\ m \in Messages /\ ToSet(channel[q][p]) = {m} \cup ToSet(channel'[q][p])
      /\ \A p1, q1 \in Peers : /\ Sorted(channel'[p1][q1])
                               /\ ToSet(channel'[p1][q1]) \subseteq ToSet(channel[p1][q1])
  BY <1>1, <1>2, Popping
<1>4. m.agent \in Agents /\ Home[m.agent] # p
  <2>1. Proper(q, p, m, call)
    BY <1>1, <1>2, <1>3 DEF Mail
  <2> QED BY <1>2, <1>3, <2>1 DEF Proper, Messages
<1>5. known'[p] \subseteq known[p] \cup {m.agent} /\ \A p1 \in Peers \ {p} : known'[p1] = known[p1]
  BY <1>1 DEF HandleDefinition, HandleExit, Types
<1> HIDE DEF m
<1>6. Mail'
  BY <1>1, <1>2, <1>3 DEF Mail
<1>7. Handled'
  BY <1>1, <1>2, <1>3 DEF Handled, Calls, NoHandling
<1>8. ServedBefore' /\ Walks'
  BY <1>1, <1>2 DEF ServedBefore, Served, Walks
<1>9. TypeOK'
  <2>1. \A p1 \in Peers : known'[p1] \subseteq {a \in Agents : Home[a] # p1}
    BY <1>1, <1>4, <1>5 DEF TypeOK
  <2> QED BY <1>1, <1>2, <2>1 DEF TypeOK, NoHandling
<1> QED BY <1>6, <1>7, <1>8, <1>9 DEF Placed

\* What other threads change.
LEMMA EditSound ==
  ASSUME Sound, Types', NEW a \in Agents, EditStep(a)
  PROVE  Placed'
<1>1. Types /\ TypeOK /\ Mail /\ Walks /\ Handled /\ ServedBefore
  BY DEF Sound, Placed
<1>2. CASE Activate(a) \/ Deactivate(a)
  <2>1. PICK type \in {"KNOWN", "EXIT"} : channel' = SendAll(Home[a], Notice(type, a))
    BY <1>2 DEF Activate, Deactivate
  <2>2. UNCHANGED <<alive, known, service, stamp, call, handling, served>>
    BY <1>2 DEF Activate, Deactivate
  <2>3. \A p, q \in Peers :
          /\ Sorted(channel'[p][q])
          /\ Calls(channel'[p][q]) = Calls(channel[p][q])
          /\ \A m \in ToSet(channel'[p][q]) :
               m \in ToSet(channel[p][q]) \/ (p = Home[a] /\ m = Notice(type, a))
    BY <1>1, <2>1, Noticing
  <2>4. Notice(type, a).type # "CALL" /\ Notice(type, a).agent = a
    BY DEF Notice
  <2>5. Mail'
    <3>1. ASSUME NEW p \in Peers, NEW q \in Peers, NEW m \in ToSet(channel'[p][q])
          PROVE  Proper(p, q, m, call)
      <4>1. CASE m \in ToSet(channel[p][q])
        BY <1>1, <4>1 DEF Mail
      <4>2. CASE p = Home[a] /\ m = Notice(type, a)
        BY <2>4, <4>2 DEF Proper
      <4> QED BY <2>3, <3>1, <4>1, <4>2
    <3> QED BY <2>2, <2>3, <3>1 DEF Mail
  <2>6. Handled'
    BY <1>1, <2>2, <2>3 DEF Handled, NoHandling
  <2>7. ServedBefore' /\ Walks'
    BY <1>1, <2>2 DEF ServedBefore, Served, Walks
  <2>8. TypeOK'
    BY <1>1, <1>2, <2>2 DEF TypeOK, NoHandling, Activate, Deactivate
  <2> QED BY <2>5, <2>6, <2>7, <2>8 DEF Placed
<1>3. ASSUME UNCHANGED <<active, known, channel, call, handling, served>>,
             alive' \subseteq alive, active \subseteq alive',
             \A b \in Agents : service'[b].inst # 0 => b \in alive'
      PROVE  Placed'
  <2>1. Mail' /\ Handled' /\ ServedBefore' /\ Walks'
    BY <1>1, <1>3 DEF Mail, Handled, NoHandling, ServedBefore, Served, Walks
  <2>2. TypeOK'
    BY <1>1, <1>3 DEF TypeOK, NoHandling
  <2> QED BY <2>1, <2>2 DEF Placed
<1>4. CASE Destroy(a)
  <2>1. /\ UNCHANGED <<active, known, channel, call, handling, served>>
        /\ alive' \subseteq alive /\ active \subseteq alive'
    BY <1>1, <1>4 DEF Destroy, TypeOK
  <2>2. \A b \in Agents : service'[b].inst # 0 => b \in alive'
    BY <1>1, <1>4 DEF Destroy, TypeOK, FreedService, NoService, Types
  <2> QED BY <1>3, <2>1, <2>2
<1>5. ASSUME a \in alive, \A b \in Agents \ {a} : service'[b] = service[b],
             UNCHANGED <<alive, active, known, channel, call, handling, served>>
      PROVE  Placed'
  BY <1>1, <1>3, <1>5 DEF TypeOK
<1>6. CASE ServiceInit(a)
  BY <1>1, <1>5, <1>6 DEF ServiceInit, Types
<1>7. CASE ServiceRemove(a)
  BY <1>1, <1>5, <1>7 DEF ServiceRemove, Types
<1>8. CASE \E size \in Sizes : ArgAdd(a, size)
  BY <1>1, <1>5, <1>8 DEF ArgAdd, Types
<1>9. CASE \E i \in 1..Len(service[a].args) : ArgRemove(a, i)
  BY <1>1, <1>5, <1>9 DEF ArgRemove, Types
<1> QED BY <1>2, <1>4, <1>6, <1>7, <1>8, <1>9 DEF EditStep

LEMMA InitSound == Init => Sound
<1> SUFFICES ASSUME Init PROVE Sound
  OBVIOUS
<1>1. Types
  BY InitTypes
<1>2. \A p, q \in Peers : channel[p][q] = <<>>
  BY DEF Init
<1>3. ToSet(<<>>) = {} /\ Sorted(<<>>)
  BY DEF ToSet, Sorted
<1>4. \A p \in Peers : handling[p] = NoHandling
  BY DEF Init
<1>5. \A t \in Threads : /\ call[t].phase = "idle" /\ call[t].rest = {}
                          /\ call[t].callee = NoCall
  BY DEF Init, Idle
<1>6. TypeOK
  <2>1. \A p \in Peers : known[p] \subseteq {a \in Agents : Home[a] # p}
    BY <1>1 DEF Init, Types
  <2> QED BY <1>1, <1>4, <1>5, <2>1 DEF Init, TypeOK, Types
<1>7. Mail /\ Handled
  BY <1>2, <1>3, <1>4 DEF Mail, Handled
<1>8. Walks /\ ServedBefore
  BY <1>5 DEF Walks, ServedBefore, Served, Init
<1> QED BY <1>1, <1>6, <1>7, <1>8 DEF Sound, Placed

LEMMA SoundStep == Sound /\ [Next]_vars => Sound'
<1> SUFFICES ASSUME Sound, [Next]_vars PROVE Sound'
  OBVIOUS
<1>1. Types'
  BY TypesStep DEF Sound
<1>2. ASSUME NEW t \in Threads, NEW a \in Agents, NEW name \in Names, NEW args \in Lists[t],
             Call(t, a, name, args)
      PROVE  Placed'
  BY <1>1, <1>2, CallSound
<1>3. ASSUME NEW t \in Threads, CallStep(t) PROVE Placed'
  BY <1>1, <1>3, VisitSound, LocalCallbackSound, EndCallSound DEF CallStep
<1>4. ASSUME NEW p \in Peers, NetworkStep(p) PROVE Placed'
  BY <1>1, <1>4, RemoteCallbackSound, HandleCallSound, NewsSound DEF NetworkStep
<1>5. ASSUME NEW a \in Agents, EditStep(a) PROVE Placed'
  BY <1>1, <1>5, EditSound
<1>6. CASE UNCHANGED vars
  <2>1. UNCHANGED <<alive, active, known, service, channel, call, handling, served>>
    BY <1>6 DEF vars, agentVars
  <2>2. TypeOK' /\ Walks'
    BY <2>1 DEF Sound, Placed, TypeOK, Walks, NoHandling
  <2>3. Mail' /\ Handled' /\ ServedBefore'
    BY <2>1 DEF Sound, Placed, Mail, Handled, ServedBefore, Served, NoHandling
  <2> QED BY <1>1, <2>2, <2>3 DEF Sound, Placed
<1> QED BY <1>1, <1>2, <1>3, <1>4, <1>5, <1>6 DEF Next, Sound

\* The structures of the library are what they should be: an active agent is
\* alive, destroyed agents have no service, a thread is in a callback exactly
\* when it has a callee (igs_service.c, igs_network.c).
THEOREM TypesKept == Spec => []TypeOK
<1>1. Sound => TypeOK
  BY DEF Sound, Placed
<1> QED BY <1>1, InitSound, SoundStep, PTL DEF Spec

-----------------------------------------------------------------------------
(***************************************************************************)
(* Where requests are, and how a step moves them.                          *)
(***************************************************************************)
InMail(r, ch) == \E p, q \in Peers : \E m \in Calls(ch[p][q]) : r = ReqOf(m)
Taken(r, hs) ==
  \E p \in Peers : hs[p] # NoHandling /\ r = Request(hs[p].thread, hs[p].number, hs[p].callee)
InWalk(r, cs) == \E t \in Threads : \E b \in Walked(t, cs[t]) : r = Request(t, cs[t].number, b)

LEMMA Whereabouts ==
  /\ \A r : r \in Outstanding <=> InMail(r, channel) \/ Taken(r, handling) \/ InWalk(r, call)
  /\ \A r : r \in Outstanding' <=> InMail(r, channel') \/ Taken(r, handling') \/ InWalk(r, call')
<1>1. \A r : r \in InChannels <=> InMail(r, channel)
  BY DEF InChannels, InMail, Calls, ReqOf
<1>2. \A r : r \in InHandlers <=> Taken(r, handling)
  BY DEF InHandlers, Taken
<1>3. \A r : r \in InWalks <=> InWalk(r, call)
  BY DEF InWalks, InWalk, Walked
<1>4. \A r : r \in InChannels' <=> InMail(r, channel')
  BY DEF InChannels, InMail, Calls, ReqOf
<1>5. \A r : r \in InHandlers' <=> Taken(r, handling')
  BY DEF InHandlers, Taken, NoHandling
<1>6. \A r : r \in InWalks' <=> InWalk(r, call')
  BY DEF InWalks, InWalk, Walked
<1> QED BY <1>1, <1>2, <1>3, <1>4, <1>5, <1>6 DEF Outstanding

\* A request to an agent of the caller's own peer is in the walk only.
LEMMA OnlyInWalk ==
  ASSUME Sound, NEW t \in Threads, NEW b \in Walked(t, call[t]), NEW n
  PROVE  ~InMail(Request(t, n, b), channel) /\ ~Taken(Request(t, n, b), handling)
<1>1. Types /\ TypeOK /\ Mail /\ Walks /\ Handled
  BY DEF Sound, Placed
<1>2. CallsFrom(t, Home[b])
  <2>1. call[t].phase # "idle"
    BY <1>1 DEF Walked, TypeOK, Walks
  <2>2. call[t].caller \in CallerOf[t] /\ Home[b] = Home[call[t].caller]
    BY <1>1, <2>1 DEF Walked, Walks
  <2> QED BY <2>2 DEF CallsFrom
<1>3. ASSUME InMail(Request(t, n, b), channel) PROVE FALSE
  <2>0. PICK p \in Peers, q \in Peers : \E m \in Calls(channel[p][q]) : Request(t, n, b) = ReqOf(m)
    BY <1>3 DEF InMail
  <2>1. PICK m \in Calls(channel[p][q]) : Request(t, n, b) = ReqOf(m)
    BY <2>0
  <2>2. m.thread = t /\ m.agent = b
    BY <2>1 DEF ReqOf, Request
  <2>3. p # q /\ Home[b] = q /\ CallsFrom(t, p)
    BY <1>1, <2>2 DEF Mail, Calls, Proper
  <2> QED BY <1>2, <2>3, OnePeer
<1>4. ASSUME Taken(Request(t, n, b), handling) PROVE FALSE
  <2>1. PICK p \in Peers : /\ handling[p] # NoHandling
                           /\ Request(t, n, b) =
                                Request(handling[p].thread, handling[p].number, handling[p].callee)
    BY <1>4 DEF Taken
  <2>2. handling[p].thread = t /\ handling[p].callee = b
    BY <2>1 DEF Request
  <2>3. Home[b] = p /\ \E q \in Others(p) : CallsFrom(t, q)
    BY <1>1, <2>1, <2>2 DEF Handled, HandlerOK, TypeOK
  <2> QED BY <1>2, <2>3, OnePeer DEF Others
<1> QED BY <1>3, <1>4

\* A request that a network thread has taken is nowhere else, and the other
\* ones on its route are later.
LEMMA OnlyTaken ==
  ASSUME Sound, NEW p \in Peers, handling[p] # NoHandling,
         NEW o \in Outstanding, o.thread = handling[p].thread, o.callee = handling[p].callee
  PROVE  /\ o.number >= handling[p].number
         /\ \/ o = Request(handling[p].thread, handling[p].number, handling[p].callee)
            \/ InMail(o, channel) /\ o.number > handling[p].number
<1> DEFINE h == handling[p]
<1>1. Types /\ TypeOK /\ Mail /\ Walks /\ Handled
  BY DEF Sound, Placed
<1>2. h.number \in Nat /\ h.thread \in Threads /\ Home[h.callee] = p
      /\ Taken(Request(h.thread, h.number, h.callee), handling)
  BY <1>1, RecordTypes DEF Handled, HandlerOK, TypeOK, Taken
<1>3. CASE InMail(o, channel)
  <2>0. PICK q \in Peers, r \in Peers : \E m \in Calls(channel[q][r]) : o = ReqOf(m)
    BY <1>3 DEF InMail
  <2>1. PICK m \in Calls(channel[q][r]) : o = ReqOf(m)
    BY <2>0
  <2>2. m.thread = h.thread /\ m.agent = h.callee /\ o.number = m.number
    BY <2>1 DEF ReqOf, Request
  <2>3. r = p
    BY <1>1, <1>2, <2>2 DEF Mail, Proper, Calls
  <2>4. h.number < m.number /\ m.number \in Nat
    BY <1>1, <2>2, <2>3, RecordTypes DEF Handled, Calls
  <2> QED BY <1>2, <1>3, <2>2, <2>4
<1>4. CASE Taken(o, handling)
  <2>1. PICK q \in Peers : /\ handling[q] # NoHandling
                           /\ o = Request(handling[q].thread, handling[q].number, handling[q].callee)
    BY <1>4 DEF Taken
  <2>2. handling[q].callee = h.callee
    BY <2>1 DEF Request
  <2>3. q = p
    BY <1>1, <1>2, <2>1, <2>2 DEF TypeOK
  <2> QED BY <1>2, <2>1, <2>3 DEF Request
<1>5. CASE InWalk(o, call)
  <2>0. PICK t \in Threads : \E b \in Walked(t, call[t]) : o = Request(t, call[t].number, b)
    BY <1>5 DEF InWalk
  <2>1. PICK b \in Walked(t, call[t]) : o = Request(t, call[t].number, b)
    BY <2>0
  <2>2. t = h.thread /\ b = h.callee
    BY <2>1 DEF Request
  <2> QED BY <1>2, <2>1, <2>2, OnlyInWalk
<1> QED BY <1>3, <1>4, <1>5, Whereabouts

\* Requests are of calls made before.
LEMMA NotFromTheFuture ==
  ASSUME Sound, NEW r \in Outstanding \cup Served
  PROVE  r.thread \in Threads /\ r.number \in Nat /\ r.number <= call[r.thread].number
<1>1. Types /\ Mail /\ Handled /\ ServedBefore
  BY DEF Sound, Placed
<1>2. CASE r \in Served
  BY <1>1, <1>2, RecordTypes DEF ServedBefore
<1>3. CASE InMail(r, channel)
  <2>0. PICK p \in Peers, q \in Peers : \E m \in Calls(channel[p][q]) : r = ReqOf(m)
    BY <1>3 DEF InMail
  <2>1. PICK m \in Calls(channel[p][q]) : r = ReqOf(m)
    BY <2>0
  <2>2. r.thread = m.thread /\ r.number = m.number
    BY <2>1 DEF ReqOf, Request
  <2> QED BY <1>1, <2>2, RecordTypes DEF Mail, Proper, Calls
<1>4. CASE Taken(r, handling)
  <2>1. PICK q \in Peers : /\ handling[q] # NoHandling
                           /\ r = Request(handling[q].thread, handling[q].number, handling[q].callee)
    BY <1>4 DEF Taken
  <2>2. r.thread = handling[q].thread /\ r.number = handling[q].number
    BY <2>1 DEF Request
  <2> QED BY <1>1, <2>1, <2>2, RecordTypes DEF Handled, HandlerOK
<1>5. CASE InWalk(r, call)
  <2>0. PICK t \in Threads : \E b \in Walked(t, call[t]) : r = Request(t, call[t].number, b)
    BY <1>5 DEF InWalk
  <2>1. PICK b \in Walked(t, call[t]) : r = Request(t, call[t].number, b)
    BY <2>0
  <2>2. r.thread = t /\ r.number = call[t].number
    BY <2>1 DEF Request
  <2> QED BY <1>1, <2>2, RecordTypes
<1> QED BY <1>2, <1>3, <1>4, <1>5, Whereabouts

\* A step of one thread that only shortens its walk.
LEMMA WalkShrinks ==
  ASSUME NEW t \in Threads, \A u \in Threads \ {t} : call'[u] = call[u],
         call'[t].number = call[t].number, Walked(t, call'[t]) \subseteq Walked(t, call[t]),
         UNCHANGED <<channel, handling>>
  PROVE  /\ Outstanding' \subseteq Outstanding
         /\ \A r \in Outstanding \ Outstanding' :
              \E b \in Walked(t, call[t]) \ Walked(t, call'[t]) : r = Request(t, call[t].number, b)
<1>1. ASSUME NEW r, InWalk(r, call') PROVE InWalk(r, call)
  <2>0. PICK u \in Threads : \E b \in Walked(u, call'[u]) : r = Request(u, call'[u].number, b)
    BY <1>1 DEF InWalk
  <2>1. CASE u = t
    BY <2>0, <2>1 DEF InWalk
  <2>2. CASE u # t
    <3>1. call'[u] = call[u]
      BY <2>2
    <3> QED BY <2>0, <3>1 DEF InWalk
  <2> QED BY <2>1, <2>2
<1>2. ASSUME NEW r, InWalk(r, call), ~InWalk(r, call')
      PROVE  \E b \in Walked(t, call[t]) \ Walked(t, call'[t]) : r = Request(t, call[t].number, b)
  <2>0. PICK u \in Threads : \E b \in Walked(u, call[u]) : r = Request(u, call[u].number, b)
    BY <1>2 DEF InWalk
  <2>1. u = t
    <3>1. CASE u # t
      <4>1. call'[u] = call[u]
        BY <3>1
      <4> QED BY <1>2, <2>0, <4>1 DEF InWalk
    <3> QED BY <3>1
  <2> QED BY <1>2, <2>0, <2>1 DEF InWalk
<1>3. ASSUME NEW r
      PROVE  (InMail(r, channel') <=> InMail(r, channel)) /\ (Taken(r, handling') <=> Taken(r, handling))
  BY DEF InMail, Taken
<1> QED BY <1>1, <1>2, <1>3, Whereabouts

\* What the callbacks of a thread serve is not outstanding any more.
LEMMA LocalCallbackMoves ==
  ASSUME Sound, NEW t \in Threads, LocalCallback(t)
  PROVE  LET r == Request(t, call[t].number, call[t].callee) IN
         /\ r \in Outstanding /\ Outstanding' = Outstanding \ {r}
         /\ \A o \in Outstanding :
              o.thread = r.thread /\ o.callee = r.callee => o.number >= r.number
<1> DEFINE b == call[t].callee  n == call[t].number  r == Request(t, n, b)
<1>1. Types /\ TypeOK /\ Walks
  BY DEF Sound, Placed
<1>2. /\ b \in Agents /\ call'[t].number = n
      /\ call'[t].callee = NoCall /\ call'[t].rest = call[t].rest
      /\ call'[t].target = call[t].target
      /\ \A u \in Threads \ {t} : call'[u] = call[u]
      /\ UNCHANGED <<channel, handling>>
  BY <1>1, LocalCallbackEffect
<1>3. /\ b # NoCall /\ b \notin call[t].rest
  BY <1>1, <1>2, ServicesAssumption DEF Walks, ServicesAssumption
<1>4. /\ b \in Walked(t, call[t]) /\ Walked(t, call'[t]) = Walked(t, call[t]) \ {b}
  BY <1>2, <1>3 DEF Walked
<1>5. n \in Nat
  BY <1>1, RecordTypes
<1>6. /\ Outstanding' \subseteq Outstanding
      /\ \A o \in Outstanding \ Outstanding' : o = r
  <2>1. /\ Outstanding' \subseteq Outstanding
        /\ \A o \in Outstanding \ Outstanding' :
             \E x \in Walked(t, call[t]) \ Walked(t, call'[t]) : o = Request(t, n, x)
    BY <1>2, <1>4, WalkShrinks
  <2> QED BY <1>4, <2>1
<1>7. r \in Outstanding
  BY <1>4, Whereabouts DEF InWalk
<1>8. r \notin Outstanding'
  <2>1. ~InMail(r, channel') /\ ~Taken(r, handling')
    <3>1. ~InMail(r, channel) /\ ~Taken(r, handling)
      BY <1>4, OnlyInWalk
    <3> QED BY <1>2, <3>1 DEF InMail, Taken
  <2>2. ASSUME InWalk(r, call') PROVE FALSE
    <3>0. PICK u \in Threads : \E x \in Walked(u, call'[u]) : r = Request(u, call'[u].number, x)
      BY <2>2 DEF InWalk
    <3>1. PICK x \in Walked(u, call'[u]) : r = Request(u, call'[u].number, x)
      BY <3>0
    <3>2. u = t /\ x = b
      BY <3>1 DEF Request
    <3> QED BY <1>4, <3>2
  <2> QED BY <2>1, <2>2, Whereabouts
<1>9. ASSUME NEW o \in Outstanding, o.thread = t, o.callee = b PROVE o.number >= n
  <2>1. CASE InMail(o, channel) \/ Taken(o, handling)
    <3>1. o = Request(t, o.number, b)
      BY <1>9, <2>1 DEF InMail, Taken, ReqOf, Request
    <3>2. ~InMail(Request(t, o.number, b), channel) /\ ~Taken(Request(t, o.number, b), handling)
      BY <1>4, OnlyInWalk
    <3> QED BY <2>1, <3>1, <3>2
  <2>2. CASE InWalk(o, call)
    <3>1. PICK u \in Threads : \E x \in Walked(u, call[u]) : o = Request(u, call[u].number, x)
      BY <2>2 DEF InWalk
    <3>2. o.thread = u /\ o.number = call[u].number
      BY <3>1 DEF Request
    <3> QED BY <1>5, <1>9, <3>2
  <2> QED BY <2>1, <2>2, Whereabouts
<1>10. r.thread = t /\ r.callee = b /\ r.number = n
  BY DEF Request
<1> QED BY <1>6, <1>7, <1>8, <1>9, <1>10

\* ... nor is what the callbacks of a network thread serve.
LEMMA RemoteCallbackMoves ==
  ASSUME Sound, NEW p \in Peers, RemoteCallback(p)
  PROVE  LET r == Request(handling[p].thread, handling[p].number, handling[p].callee) IN
         /\ r \in Outstanding /\ Outstanding' = Outstanding \ {r}
         /\ \A o \in Outstanding :
              o.thread = r.thread /\ o.callee = r.callee => o.number >= r.number
<1> DEFINE h == handling[p]  r == Request(h.thread, h.number, h.callee)
<1>1. Types /\ TypeOK /\ Handled
  BY DEF Sound, Placed
<1>2. /\ h # NoHandling /\ handling'[p] = NoHandling
      /\ \A p1 \in Peers \ {p} : handling'[p1] = handling[p1]
      /\ UNCHANGED <<channel, call>>
  BY <1>1, RemoteCallbackEffect
<1>3. r \in Outstanding
  BY <1>2, Whereabouts DEF Taken
<1>4. r.thread = h.thread /\ r.number = h.number /\ r.callee = h.callee
  BY DEF Request
<1>5. h.number \in Nat
  BY <1>1, RecordTypes
<1> HIDE DEF r
<1>6. \A o \in Outstanding : o.thread = h.thread /\ o.callee = h.callee => o.number >= h.number
  BY <1>2, OnlyTaken
<1>7. ~InMail(r, channel) /\ ~InWalk(r, call)
  <2>1. ASSUME InMail(r, channel) PROVE FALSE
    <3>1. PICK q1 \in Peers, q2 \in Peers : \E m \in Calls(channel[q1][q2]) : r = ReqOf(m)
      BY <2>1 DEF InMail
    <3>2. PICK m \in Calls(channel[q1][q2]) : r = ReqOf(m)
      BY <3>1
    <3>3. m.thread = h.thread /\ m.agent = h.callee /\ m.number = h.number
      BY <1>4, <3>2 DEF ReqOf, Request
    <3>4. q2 = p
      BY <1>1, <1>2, <3>3 DEF Sound, Placed, Mail, Proper, Calls, TypeOK
    <3>5. h.number < m.number
      BY <1>1, <1>2, <3>3, <3>4 DEF Handled
    <3> QED BY <1>5, <3>3, <3>5
  <2>2. ASSUME InWalk(r, call) PROVE FALSE
    <3>1. PICK t \in Threads : \E b \in Walked(t, call[t]) : r = Request(t, call[t].number, b)
      BY <2>2 DEF InWalk
    <3>2. PICK b \in Walked(t, call[t]) : r = Request(t, call[t].number, b)
      BY <3>1
    <3>3. ~Taken(r, handling)
      BY <3>2, OnlyInWalk
    <3> QED BY <1>2, <3>3 DEF Taken, r
  <2> QED BY <2>1, <2>2
<1>8. ~Taken(r, handling')
  <2>1. ASSUME NEW q \in Peers, handling'[q] # NoHandling,
               r = Request(handling'[q].thread, handling'[q].number, handling'[q].callee)
        PROVE  FALSE
    <3>1. q # p /\ handling'[q] = handling[q]
      BY <1>2, <2>1
    <3>2. handling[q].callee = h.callee
      BY <1>4, <2>1, <3>1 DEF Request
    <3> QED BY <1>1, <1>2, <2>1, <3>1, <3>2 DEF TypeOK
  <2> QED BY <2>1 DEF Taken
<1>9. \A o : /\ Taken(o, handling') => Taken(o, handling)
             /\ Taken(o, handling) => Taken(o, handling') \/ o = r
  BY <1>2 DEF Taken, r
<1>10. Outstanding' = Outstanding \ {r}
  <2>1. \A o : /\ InMail(o, channel') <=> InMail(o, channel)
               /\ InWalk(o, call') <=> InWalk(o, call)
    BY <1>2 DEF InMail, InWalk
  <2> QED BY <1>7, <1>8, <1>9, <2>1, Whereabouts
<1> QED BY <1>3, <1>4, <1>6, <1>10 DEF r

\* A visit drops the request to the agent visited, or those of the whole
\* walk, or none.
LEMMA VisitMoves ==
  ASSUME Sound, NEW t \in Threads, NEW b \in Agents, Visit(t, b)
  PROVE  /\ Outstanding' \subseteq Outstanding
         /\ \A r \in Outstanding \ Outstanding' :
              \/ b \notin alive /\ \E x \in Walked(t, call[t]) : r = Request(t, call[t].number, x)
              \/ /\ r = Request(t, call[t].number, b) /\ b \in Walked(t, call[t])
                 /\ b \notin alive \/ ~Matches(t, b)
<1>1. Types /\ TypeOK /\ Walks
  BY DEF Sound, Placed
<1>2. /\ call[t].phase = "walk" /\ call[t].callee = NoCall /\ b \in call[t].rest
      /\ call'[t].number = call[t].number
      /\ \A u \in Threads \ {t} : call'[u] = call[u]
      /\ UNCHANGED <<channel, handling>>
      /\ \/ b \notin alive /\ WalkEnds(t)
         \/ (b \notin alive \/ ~Matches(t, b)) /\ WalkSkips(t, b)
         \/ Matches(t, b) /\ WalkCalls(t, b)
  BY <1>1, VisitEffect
<1>3. CASE b \notin alive /\ WalkEnds(t)
  <2>1. Walked(t, call'[t]) = {}
    BY <1>3 DEF Walked, WalkEnds
  <2> QED BY <1>2, <1>3, <2>1, WalkShrinks
<1>4. CASE (b \notin alive \/ ~Matches(t, b)) /\ WalkSkips(t, b)
  <2>1. Walked(t, call'[t]) = Walked(t, call[t]) \ {b}
    BY <1>2, <1>4 DEF Walked, WalkSkips
  <2> QED BY <1>2, <1>4, <2>1, WalkShrinks
<1>5. CASE Matches(t, b) /\ WalkCalls(t, b)
  <2>1. b # NoCall
    BY ServicesAssumption DEF ServicesAssumption
  <2>2. Walked(t, call'[t]) = Walked(t, call[t])
    BY <1>2, <1>5, <2>1 DEF Walked, WalkCalls, Matches
  <2> QED BY <1>2, <2>2, WalkShrinks
<1> QED BY <1>2, <1>3, <1>4, <1>5

LEMMA EndCallMoves ==
  ASSUME Sound, NEW t \in Threads, EndCall(t)
  PROVE  Outstanding' = Outstanding
<1>1. Types /\ TypeOK
  BY DEF Sound, Placed
<1>2. /\ call[t].rest = {} /\ call[t].callee = NoCall
      /\ call'[t].number = call[t].number /\ WalkEnds(t)
      /\ \A u \in Threads \ {t} : call'[u] = call[u]
      /\ UNCHANGED <<channel, handling>>
  BY <1>1, EndCallEffect
<1>3. Walked(t, call'[t]) = {} /\ Walked(t, call[t]) = {}
  BY <1>2 DEF Walked, WalkEnds
<1>4. /\ Outstanding' \subseteq Outstanding
      /\ \A r \in Outstanding \ Outstanding' :
           \E b \in Walked(t, call[t]) \ Walked(t, call'[t]) : r = Request(t, call[t].number, b)
  BY <1>2, <1>3, WalkShrinks
<1> QED BY <1>3, <1>4

\* CALL_SERVICE takes a request from the channel, or drops it.
LEMMA HandleCallMoves ==
  ASSUME Sound, NEW p \in Peers, NEW q \in Others(p), HandleCall(p, q)
  PROVE  LET m == Head(channel[q][p]) IN
         /\ Outstanding' \subseteq Outstanding
         /\ \A r \in Outstanding \ Outstanding' :
              /\ r = ReqOf(m)
              /\ ~(m.agent \in active /\ service[m.agent].inst # 0
                   /\ Fits(m.frames, service[m.agent].args))
<1> DEFINE m == Head(channel[q][p])
           ok == m.agent \in active /\ service[m.agent].inst # 0
                 /\ Fits(m.frames, service[m.agent].args)
<1>1. Types /\ Mail
  BY DEF Sound, Placed
<1>2. /\ handling[p] = NoHandling /\ q \in Peers /\ p # q
      /\ m \in ToSet(channel[q][p]) /\ m.type = "CALL"
      /\ UNCHANGED call
      /\ channel[q][p] # <<>> /\ channel' = Popped(q, p)
      /\ \A p1 \in Peers \ {p} : handling'[p1] = handling[p1]
      /\ \/ /\ ok
            /\ handling'[p] # NoHandling
            /\ handling'[p].callee = m.agent /\ handling'[p].thread = m.thread
            /\ handling'[p].number = m.number
         \/ ~ok /\ handling' = handling
  BY <1>1, HandleCallEffect
<1>3. /\ ToSet(channel[q][p]) = {m} \cup ToSet(channel'[q][p])
      /\ \A p1, q1 \in Peers :
           /\ ToSet(channel'[p1][q1]) \subseteq ToSet(channel[p1][q1])
           /\ p1 # q \/ q1 # p => channel'[p1][q1] = channel[p1][q1]
  <2>1. channel[q][p] # <<>> /\ channel' = Popped(q, p) /\ q \in Peers
    BY <1>2
  <2> QED BY <1>1, <2>1, Popping
<1> HIDE DEF m, ok
<1>4. \A r : InMail(r, channel') => InMail(r, channel)
  BY <1>3 DEF InMail, Calls
<1>5. ASSUME NEW r, InMail(r, channel) PROVE InMail(r, channel') \/ r = ReqOf(m)
  <2>1. PICK p1 \in Peers, q1 \in Peers : \E o \in Calls(channel[p1][q1]) : r = ReqOf(o)
    BY <1>5 DEF InMail
  <2>2. PICK o \in Calls(channel[p1][q1]) : r = ReqOf(o)
    BY <2>1
  <2>3. o = m \/ o \in Calls(channel'[p1][q1])
    <3>1. CASE p1 = q /\ q1 = p
      BY <1>3, <3>1 DEF Calls
    <3>2. CASE p1 # q \/ q1 # p
      BY <1>3, <3>2
    <3> QED BY <3>1, <3>2
  <2> QED BY <2>2, <2>3 DEF InMail
<1>6. InMail(ReqOf(m), channel)
  BY <1>2 DEF InMail, Calls
<1>7. \A r : InWalk(r, call') <=> InWalk(r, call)
  BY <1>2 DEF InWalk
<1>8. CASE /\ handling'[p] # NoHandling
           /\ handling'[p].callee = m.agent /\ handling'[p].thread = m.thread
           /\ handling'[p].number = m.number
  <2>1. \A r : Taken(r, handling') <=> Taken(r, handling) \/ r = ReqOf(m)
    BY <1>2, <1>8 DEF Taken, ReqOf
  <2> QED BY <1>4, <1>5, <1>6, <1>7, <2>1, Whereabouts
<1>9. CASE ~ok /\ handling' = handling
  <2>1. \A r : Taken(r, handling') <=> Taken(r, handling)
    BY <1>9 DEF Taken
  <2> QED BY <1>4, <1>5, <1>7, <1>9, <2>1, Whereabouts DEF m, ok
<1> QED BY <1>2, <1>8, <1>9

\* News and edits move no request.
LEMMA NewsMoves ==
  ASSUME Sound, NEW p \in Peers, NEW q \in Others(p), HandleDefinition(p, q) \/ HandleExit(p, q)
  PROVE  Outstanding' = Outstanding
<1> DEFINE m == Head(channel[q][p])
<1>1. Types /\ Mail
  BY DEF Sound, Placed
<1>2. /\ q \in Peers /\ p # q /\ channel[q][p] # <<>> /\ channel' = Popped(q, p)
      /\ m.type \in {"KNOWN", "EXIT"} /\ UNCHANGED <<call, handling>>
  BY DEF HandleDefinition, HandleExit, Received, Others
<1>3. /\ ToSet(channel[q][p]) = {m} \cup ToSet(channel'[q][p])
      /\ \A p1, q1 \in Peers : p1 # q \/ q1 # p => channel'[p1][q1] = channel[p1][q1]
  BY <1>1, <1>2, Popping
<1>4. \A p1, q1 \in Peers : Calls(channel'[p1][q1]) = Calls(channel[p1][q1])
  BY <1>2, <1>3 DEF Calls
<1>5. \A r : /\ InMail(r, channel') <=> InMail(r, channel)
             /\ Taken(r, handling') <=> Taken(r, handling)
             /\ InWalk(r, call') <=> InWalk(r, call)
  BY <1>2, <1>4 DEF InMail, Taken, InWalk
<1> QED BY <1>5, Whereabouts

LEMMA EditMoves ==
  ASSUME Sound, NEW a \in Agents, EditStep(a)
  PROVE  Outstanding' = Outstanding
<1>1. Types /\ Mail
  BY DEF Sound, Placed
<1>2. UNCHANGED <<call, handling>>
  BY DEF EditStep, Activate, Deactivate, Destroy, ServiceInit, ServiceRemove, ArgAdd, ArgRemove
<1>3. \A p, q \in Peers : Calls(channel'[p][q]) = Calls(channel[p][q])
  <2>1. CASE Activate(a) \/ Deactivate(a)
    <3>1. PICK type \in {"KNOWN", "EXIT"} : channel' = SendAll(Home[a], Notice(type, a))
      BY <2>1 DEF Activate, Deactivate
    <3> QED BY <1>1, <3>1, Noticing
  <2>2. CASE channel' = channel
    BY <2>2
  <2> QED BY <2>1, <2>2 DEF EditStep, Destroy, ServiceInit, ServiceRemove, ArgAdd, ArgRemove
<1>4. \A r : /\ InMail(r, channel') <=> InMail(r, channel)
             /\ Taken(r, handling') <=> Taken(r, handling)
             /\ InWalk(r, call') <=> InWalk(r, call)
  BY <1>2, <1>3 DEF InMail, Taken, InWalk
<1> QED BY <1>4, Whereabouts

\* A call adds one request for each agent of its walk or of its whispers.
LEMMA CallMoves ==
  ASSUME Sound, NEW t \in Threads, NEW a \in Agents, NEW name \in Names, NEW args \in Lists[t],
         Call(t, a, name, args)
  PROVE  LET n == call[t].number + 1
             S == {x \in LocalWalk(a) : Addressed(x, name)} \cup Remote(a, name)
         IN /\ S \subseteq Agents
            /\ Outstanding' = Outstanding \cup {Request(t, n, c) : c \in S}
            /\ \A r \in Outstanding \cup Served : r.thread = t => r.number # n
<1> DEFINE n == call[t].number + 1  p == Home[a]
           L == {x \in LocalWalk(a) : Addressed(x, name)}
<1>1. Types /\ TypeOK /\ Mail /\ Walks
  BY DEF Sound, Placed
<1>2. /\ n \in Nat /\ args \in Seq(Nat) /\ p \in Peers
      /\ \A q \in Peers :
           ToSet(channel'[p][q]) = ToSet(channel[p][q]) \cup Whispers(q, t, n, a, name, args)
      /\ \A p1 \in Peers \ {p} : channel'[p1] = channel[p1]
      /\ \A p1, q1 \in Peers : Sorted(channel'[p1][q1])
  BY <1>1, Calling
<1>3. /\ call'[t].number = n /\ call'[t].rest = LocalWalk(a) /\ call'[t].target = name
      /\ call'[t].callee = NoCall
      /\ \A u \in Threads \ {t} : call'[u] = call[u]
      /\ call[t].phase = "idle"
      /\ UNCHANGED handling
  BY <1>1 DEF Call, Types
<1>4. L \subseteq Agents /\ Remote(a, name) \subseteq Agents
  BY <1>1, <1>2 DEF LocalWalk, Remote, Types
<1>5. Walked(t, call[t]) = {} /\ Walked(t, call'[t]) = L
  BY <1>1, <1>3 DEF Walked, Walks, TypeOK
<1>6. \A r : InMail(r, channel') <=>
        InMail(r, channel) \/ \E c \in Remote(a, name) : r = Request(t, n, c)
  <2>1. ASSUME NEW r, NEW c \in Remote(a, name), r = Request(t, n, c) PROVE InMail(r, channel')
    <3>1. Home[c] \in Peers
      BY <1>4, ServicesAssumption DEF ServicesAssumption
    <3>2. CallMessage(t, n, a, c, args) \in Whispers(Home[c], t, n, a, name, args)
      BY DEF Whispers
    <3>3. CallMessage(t, n, a, c, args).type = "CALL" /\ r = ReqOf(CallMessage(t, n, a, c, args))
      BY <2>1 DEF CallMessage, ReqOf
    <3>4. CallMessage(t, n, a, c, args) \in Calls(channel'[p][Home[c]])
      BY <1>2, <3>1, <3>2, <3>3 DEF Calls
    <3> QED BY <1>2, <3>1, <3>3, <3>4 DEF InMail
  <2>2. ASSUME NEW r, InMail(r, channel) PROVE InMail(r, channel')
    <3>1. PICK p1 \in Peers, q1 \in Peers : \E m \in Calls(channel[p1][q1]) : r = ReqOf(m)
      BY <2>2 DEF InMail
    <3>2. Calls(channel[p1][q1]) \subseteq Calls(channel'[p1][q1])
      BY <1>2 DEF Calls
    <3> QED BY <3>1, <3>2 DEF InMail
  <2>3. ASSUME NEW r, InMail(r, channel'), ~InMail(r, channel)
        PROVE  \E c \in Remote(a, name) : r = Request(t, n, c)
    <3>1. PICK p1 \in Peers, q1 \in Peers : \E m \in Calls(channel'[p1][q1]) : r = ReqOf(m)
      BY <2>3 DEF InMail
    <3>2. PICK m \in Calls(channel'[p1][q1]) : r = ReqOf(m)
      BY <3>1
    <3>3. m \notin Calls(channel[p1][q1])
      BY <2>3, <3>2 DEF InMail
    <3>4. m \in Whispers(q1, t, n, a, name, args)
      BY <1>2, <3>3 DEF Calls
    <3>5. PICK c \in Remote(a, name) : m = CallMessage(t, n, a, c, args)
      BY <3>4 DEF Whispers
    <3> QED BY <3>2, <3>5 DEF ReqOf, CallMessage
  <2> QED BY <2>1, <2>2, <2>3
<1>7. \A r : InWalk(r, call') <=> InWalk(r, call) \/ \E c \in L : r = Request(t, n, c)
  <2> HIDE DEF L, n
  <2>1. ASSUME NEW r, InWalk(r, call) PROVE InWalk(r, call')
    <3>1. PICK u \in Threads : \E b \in Walked(u, call[u]) : r = Request(u, call[u].number, b)
      BY <2>1 DEF InWalk
    <3>2. u # t
      BY <1>5, <3>1
    <3>3. call'[u] = call[u]
      BY <1>3, <3>2
    <3> QED BY <3>1, <3>3 DEF InWalk
  <2>2. ASSUME NEW r, NEW c \in L, r = Request(t, n, c) PROVE InWalk(r, call')
    BY <1>3, <1>5, <2>2 DEF InWalk
  <2>3. ASSUME NEW r, InWalk(r, call'), ~InWalk(r, call) PROVE \E c \in L : r = Request(t, n, c)
    <3>1. PICK u \in Threads : \E b \in Walked(u, call'[u]) : r = Request(u, call'[u].number, b)
      BY <2>3 DEF InWalk
    <3>2. u = t
      <4>1. CASE u # t
        <5>1. call'[u] = call[u]
          BY <1>3, <4>1
        <5> QED BY <2>3, <3>1, <5>1 DEF InWalk
      <4> QED BY <4>1
    <3> QED BY <1>3, <1>5, <3>1, <3>2
  <2> QED BY <2>1, <2>2, <2>3
<1>8. \A r : Taken(r, handling') <=> Taken(r, handling)
  BY <1>3 DEF Taken
<1>9. ASSUME NEW r \in Outstanding \cup Served, r.thread = t PROVE r.number # n
  <2>1. r.number \in Nat /\ r.number <= call[t].number /\ call[t].number \in Nat
    BY <1>1, <1>9, NotFromTheFuture, RecordTypes
  <2> QED BY <2>1
<1> HIDE DEF n, L
<1>10. Outstanding' = Outstanding \cup {Request(t, n, c) : c \in L \cup Remote(a, name)}
  BY <1>6, <1>7, <1>8, Whereabouts
<1> QED BY <1>4, <1>9, <1>10 DEF n, L

-----------------------------------------------------------------------------
(***************************************************************************)
(* Services implements CallBag.                                            *)
(***************************************************************************)
\* Served changes in callbacks only.
LEMMA OnlyCallbacksServe ==
  ASSUME UNCHANGED served
  PROVE  Served' = Served
BY DEF Served

LEMMA DropStep ==
  ASSUME Outstanding' \subseteq Outstanding, Served' = Served
  PROVE  Bag!Next \/ UNCHANGED <<Outstanding, Served>>
<1> DEFINE S == Outstanding \ Outstanding'
<1>1. CASE S = {}
  BY <1>1
<1>2. CASE S # {}
  <2>1. Bag!Drop(S)
    BY <1>2 DEF Bag!Drop
  <2> QED BY <2>1 DEF Bag!Next
<1> QED BY <1>1, <1>2

LEMMA CallbackStep ==
  ASSUME NEW r \in Outstanding, Outstanding' = Outstanding \ {r},
         Served' = Served \cup {r} \/ Served' = Served,
         \A o \in Outstanding : o.thread = r.thread /\ o.callee = r.callee => o.number >= r.number
  PROVE  Bag!Next \/ UNCHANGED <<Outstanding, Served>>
<1>1. CASE Served' = Served \cup {r}
  <2>1. Bag!Serve(r)
    BY <1>1 DEF Bag!Serve
  <2> QED BY <2>1 DEF Bag!Next
<1>2. CASE Served' = Served
  BY <1>2, DropStep
<1> QED BY <1>1, <1>2

LEMMA BagStep == Sound /\ [Next]_vars => Bag!Next \/ UNCHANGED <<Outstanding, Served>>
<1> SUFFICES ASSUME Sound, [Next]_vars
             PROVE  Bag!Next \/ UNCHANGED <<Outstanding, Served>>
  OBVIOUS
<1>1. Types /\ TypeOK /\ Mail /\ Handled
  BY DEF Sound, Placed
<1>2. ASSUME NEW t \in Threads, NEW a \in Agents, NEW name \in Names, NEW args \in Lists[t],
             Call(t, a, name, args)
      PROVE  Bag!Next \/ UNCHANGED <<Outstanding, Served>>
  <2> DEFINE n == call[t].number + 1
             S == {x \in LocalWalk(a) : Addressed(x, name)} \cup Remote(a, name)
  <2>1. /\ S \subseteq Agents
        /\ Outstanding' = Outstanding \cup {Request(t, n, c) : c \in S}
        /\ \A r \in Outstanding \cup Served : r.thread = t => r.number # n
    BY <1>2, CallMoves
  <2>2. Served' = Served
    BY <1>2, OnlyCallbacksServe DEF Call
  <2>3. n \in UNION {1..MaxCalls[u] : u \in Threads}
    <3>1. call[t].number \in Nat /\ call[t].number < MaxCalls[t] /\ MaxCalls[t] \in Nat
      BY <1>1, <1>2, RecordTypes, ServicesAssumption DEF Call, ServicesAssumption
    <3>2. n \in 1..MaxCalls[t]
      BY <3>1
    <3> QED BY <3>2
  <2> HIDE DEF n, S
  <2>4. Bag!Ask(t, n, S)
    BY <2>1, <2>2 DEF Bag!Ask, Bag!Fresh, Request
  <2> QED BY <2>1, <2>3, <2>4 DEF Bag!Next
<1>3. ASSUME NEW t \in Threads, CallStep(t) PROVE Bag!Next \/ UNCHANGED <<Outstanding, Served>>
  <2>1. CASE LocalCallback(t)
    <3> DEFINE r == Request(t, call[t].number, call[t].callee)
    <3>1. /\ r \in Outstanding /\ Outstanding' = Outstanding \ {r}
          /\ \A o \in Outstanding : o.thread = r.thread /\ o.callee = r.callee => o.number >= r.number
      BY <2>1, LocalCallbackMoves
    <3>2. Served' = Served \cup {r} \/ Served' = Served
      BY <1>1, <2>1, LocalCallbackEffect
    <3> HIDE DEF r
    <3> QED BY <3>1, <3>2, CallbackStep
  <2>2. CASE EndCall(t)
    BY <2>2, EndCallMoves, OnlyCallbacksServe DEF EndCall
  <2>3. ASSUME NEW b \in Agents, Visit(t, b) PROVE Bag!Next \/ UNCHANGED <<Outstanding, Served>>
    <3>1. Outstanding' \subseteq Outstanding
      BY <2>3, VisitMoves
    <3>2. Served' = Served
      BY <2>3, OnlyCallbacksServe DEF Visit
    <3> QED BY <3>1, <3>2, DropStep
  <2> QED BY <1>3, <2>1, <2>2, <2>3 DEF CallStep
<1>4. ASSUME NEW p \in Peers, NetworkStep(p) PROVE Bag!Next \/ UNCHANGED <<Outstanding, Served>>
  <2>1. CASE RemoteCallback(p)
    <3> DEFINE r == Request(handling[p].thread, handling[p].number, handling[p].callee)
    <3>1. /\ r \in Outstanding /\ Outstanding' = Outstanding \ {r}
          /\ \A o \in Outstanding : o.thread = r.thread /\ o.callee = r.callee => o.number >= r.number
      BY <2>1, RemoteCallbackMoves
    <3>2. Served' = Served \cup {r} \/ Served' = Served
      BY <1>1, <2>1, RemoteCallbackEffect
    <3> HIDE DEF r
    <3> QED BY <3>1, <3>2, CallbackStep
  <2>2. ASSUME NEW q \in Others(p), HandleCall(p, q)
        PROVE  Bag!Next \/ UNCHANGED <<Outstanding, Served>>
    <3>1. Outstanding' \subseteq Outstanding
      BY <2>2, HandleCallMoves
    <3>2. Served' = Served
      BY <2>2, OnlyCallbacksServe DEF HandleCall
    <3> QED BY <3>1, <3>2, DropStep
  <2>3. ASSUME NEW q \in Others(p), HandleDefinition(p, q) \/ HandleExit(p, q)
        PROVE  UNCHANGED <<Outstanding, Served>>
    BY <2>3, NewsMoves, OnlyCallbacksServe DEF HandleDefinition, HandleExit
  <2> QED BY <1>4, <2>1, <2>2, <2>3 DEF NetworkStep
<1>5. ASSUME NEW a \in Agents, EditStep(a) PROVE UNCHANGED <<Outstanding, Served>>
  <2>1. UNCHANGED served
    BY <1>5 DEF EditStep, Activate, Deactivate, Destroy, ServiceInit, ServiceRemove, ArgAdd, ArgRemove
  <2> QED BY <1>5, <2>1, EditMoves, OnlyCallbacksServe
<1>6. CASE UNCHANGED vars
  <2>1. UNCHANGED <<channel, handling, call, served>>
    BY <1>6 DEF vars
  <2>2. \A r : /\ InMail(r, channel') <=> InMail(r, channel)
               /\ Taken(r, handling') <=> Taken(r, handling)
               /\ InWalk(r, call') <=> InWalk(r, call)
    BY <2>1 DEF InMail, Taken, InWalk
  <2> QED BY <2>1, <2>2, Whereabouts, OnlyCallbacksServe
<1> QED BY <1>2, <1>3, <1>4, <1>5, <1>6 DEF Next

LEMMA BagInit == Init => Bag!Init
<1> SUFFICES ASSUME Init PROVE Outstanding = {} /\ Served = {}
  BY DEF Bag!Init
<1>1. \A p, q \in Peers : Calls(channel[p][q]) = {}
  BY DEF Init, Calls, ToSet
<1>2. \A r : ~InMail(r, channel)
  BY <1>1 DEF InMail
<1>3. \A r : ~Taken(r, handling)
  BY DEF Init, Taken
<1>4. \A r : ~InWalk(r, call)
  BY DEF Init, InWalk, Walked, Idle
<1> QED BY <1>2, <1>3, <1>4, Whereabouts DEF Init, Served

\* Whatever the interleaving of user threads, network threads and edits, a
\* request is served at most once, only if it was made, and those of a thread
\* to an agent in the order of its calls (igsagent_service_call and
\* CALL_SERVICE).
THEOREM CallsImplementBag == Spec => CallsAreABag
<1>1. Sound /\ [Next]_vars => [Bag!Next]_(Bag!vars)
  BY BagStep DEF Bag!vars
<1> QED BY <1>1, BagInit, InitSound, SoundStep, PTL DEF Spec, CallsAreABag, Bag!Spec

-----------------------------------------------------------------------------
(***************************************************************************)
(* Calls reach whom they must.                                             *)
(***************************************************************************)
\* A callback that is still in the services table is called as it is there.
LEMMA ReadyCallback ==
  ASSUME Sound, NEW b \in Agents, Ready(b), NEW inst, service[b].inst = inst
  PROVE  b \in alive /\ CallbackSet(b, inst) = {TRUE}
<1>1. service[b].cb = TRUE
  BY DEF Ready, Sound, Types, Service
<1> QED BY <1>1 DEF CallbackSet, Ready, Sound, Placed, TypeOK

\* Requests of the new call are none of the former ones.
LEMMA DueBefore ==
  ASSUME Sound, DueServed, NEW r \in due
  PROVE  r.thread \in Threads /\ r.number \in Nat /\ r.number <= call[r.thread].number
BY NotFromTheFuture DEF DueServed

LEMMA CallDue ==
  ASSUME Sound, DueInv, NEW t \in Threads, NEW a \in Agents, NEW name \in Names,
         NEW args \in Lists[t], Call(t, a, name, args)
  PROVE  DueInv'
<1> DEFINE n == call[t].number + 1  p == Home[a]
           S == {x \in LocalWalk(a) : Addressed(x, name)} \cup Remote(a, name)
           New == Due(t, n, a, name, args)
<1>1. Types /\ TypeOK /\ Mail /\ Handled /\ DueServed /\ DueMail /\ DueHandled /\ DueWalked
  BY DEF Sound, Placed, DueInv
<1>2. /\ n \in Nat /\ args \in Seq(Nat) /\ p \in Peers
      /\ \A q \in Peers :
           ToSet(channel'[p][q]) = ToSet(channel[p][q]) \cup Whispers(q, t, n, a, name, args)
      /\ \A p1 \in Peers \ {p} : channel'[p1] = channel[p1]
      /\ \A p1, q1 \in Peers : Sorted(channel'[p1][q1])
  BY <1>1, Calling
<1>3. /\ call'[t].number = n /\ call'[t].rest = LocalWalk(a) /\ call'[t].target = name
      /\ call'[t].callee = NoCall /\ call'[t].caller = a /\ call'[t].args = args
      /\ \A u \in Threads \ {t} : call'[u] = call[u]
      /\ a \in alive /\ due' = due \cup New
      /\ UNCHANGED <<agentVars, handling, served>>
  BY <1>1 DEF Call, Types
<1>4. /\ Outstanding' = Outstanding \cup {Request(t, n, c) : c \in S}
      /\ \A r \in Outstanding \cup Served : r.thread = t => r.number # n
  BY CallMoves
<1>5. ASSUME NEW r \in New
      PROVE  \E c \in Agents : /\ r = Request(t, n, c) /\ Ready(c) /\ c \in S
                               /\ \/ c \in LocalWalk(a) /\ Len(args) = Len(service[c].args)
                                  \/ c \in Remote(a, name) /\ Fits(Frames(a, args), service[c].args)
  BY DEF Due, Ready, Remote
<1>6. ASSUME NEW c \in Agents, Request(t, n, c) \in due'
      PROVE  /\ Ready(c)
             /\ \/ c \in LocalWalk(a) /\ Len(args) = Len(service[c].args)
                \/ c \in Remote(a, name) /\ Fits(Frames(a, args), service[c].args)
  <2>1. Request(t, n, c).thread = t /\ Request(t, n, c).number = n
    BY DEF Request
  <2>2. Request(t, n, c) \notin due
    BY <1>1, <1>4, <2>1 DEF DueServed
  <2>3. Request(t, n, c) \in New
    <3> HIDE DEF New
    <3> QED BY <1>3, <1>6, <2>2
  <2>4. PICK d \in Agents :
          /\ Request(t, n, c) = Request(t, n, d) /\ Ready(d)
          /\ \/ d \in LocalWalk(a) /\ Len(args) = Len(service[d].args)
             \/ d \in Remote(a, name) /\ Fits(Frames(a, args), service[d].args)
    <3> HIDE DEF n
    <3> QED BY <1>5, <2>3
  <2>5. c = d
    BY <2>4 DEF Request
  <2> QED BY <2>4, <2>5
<1>7. ASSUME NEW c \in Agents PROVE ~(c \in LocalWalk(a) /\ c \in Remote(a, name))
  BY <1>1, <1>2 DEF LocalWalk, Remote, TypeOK
<1>8. ASSUME NEW r \in due', r.thread # t \/ r.number # n PROVE r \in due
  <2>1. ASSUME r \in New PROVE FALSE
    <3>1. PICK c \in Agents : r = Request(t, n, c)
      <4> HIDE DEF n, New
      <4> QED BY <1>5, <2>1
    <3> QED BY <1>8, <3>1 DEF Request
  <2> QED BY <1>3, <2>1
<1>9. call[t].number \in Nat /\ n # call[t].number /\ ~(n <= call[t].number)
  BY <1>1, RecordTypes
<1> HIDE DEF n, p, New, S
<1>10. DueServed'
  <2>1. Served' = Served
    BY <1>3 DEF Served
  <2> QED BY <1>1, <1>3, <1>4, <1>5, <2>1 DEF DueServed
<1>11. DueMail'
  <2> SUFFICES ASSUME NEW p1 \in Peers, NEW q \in Peers, NEW m \in Calls(channel'[p1][q]),
                      ReqOf(m) \in due'
               PROVE  Ready(m.agent) /\ Fits(m.frames, service[m.agent].args)
    BY <1>3 DEF DueMail, Ready, agentVars
  <2>1. CASE m \in Calls(channel[p1][q])
    <3>1. m.thread # t \/ m.number # n
      BY <1>1, <1>9, <2>1 DEF Mail, Proper, Calls
    <3>2. ReqOf(m).thread = m.thread /\ ReqOf(m).number = m.number
      BY DEF ReqOf, Request
    <3> QED BY <1>1, <1>8, <2>1, <3>1, <3>2 DEF DueMail
  <2>2. CASE m \in Whispers(q, t, n, a, name, args)
    <3>1. PICK c \in Remote(a, name) : m = CallMessage(t, n, a, c, args)
      BY <2>2 DEF Whispers
    <3>2. c \in Agents /\ m.agent = c /\ m.frames = Frames(a, args) /\ ReqOf(m) = Request(t, n, c)
      <4>1. c \in Agents
        BY <1>1, <1>2, <3>1 DEF Remote, Types, p
      <4> QED BY <3>1, <4>1 DEF CallMessage, ReqOf
    <3> QED BY <1>6, <1>7, <3>1, <3>2
  <2>3. m \in Calls(channel[p1][q]) \/ m \in Whispers(q, t, n, a, name, args)
    BY <1>2 DEF Calls
  <2> QED BY <2>1, <2>2, <2>3
<1>12. DueHandled'
  <2> SUFFICES ASSUME NEW q \in Peers, handling[q] # NoHandling,
                      Request(handling[q].thread, handling[q].number, handling[q].callee) \in due'
               PROVE  Ready(handling[q].callee) /\ service[handling[q].callee].inst = handling[q].inst
    BY <1>3 DEF DueHandled, Ready, agentVars, NoHandling
  <2> DEFINE h == handling[q]  r == Request(h.thread, h.number, h.callee)
  <2>1. h.thread # t \/ h.number # n
    BY <1>1, <1>9 DEF Handled, HandlerOK
  <2>2. r.thread = h.thread /\ r.number = h.number
    BY DEF Request
  <2>3. r \in due
    BY <1>8, <2>1, <2>2
  <2> QED BY <1>1, <2>3 DEF DueHandled
<1>13. DueWalked'
  <2> SUFFICES ASSUME NEW u \in Threads, NEW b \in Walked(u, call'[u]),
                      Request(u, call'[u].number, b) \in due'
               PROVE  /\ call'[u].caller \in alive /\ call'[u].rest \subseteq alive
                      /\ Ready(b)
                      /\ b \in call'[u].rest => Len(service[b].args) = Len(call'[u].args)
                      /\ b = call'[u].callee => service[b].inst = call'[u].inst
    BY <1>3 DEF DueWalked, Ready, agentVars
  <2>1. CASE u # t
    <3>1. call'[u] = call[u]
      BY <1>3, <2>1
    <3>2. Request(u, call[u].number, b).thread # t
      BY <2>1 DEF Request
    <3>3. Request(u, call[u].number, b) \in due
      BY <1>8, <3>1, <3>2
    <3> QED BY <1>1, <3>1, <3>3 DEF DueWalked
  <2>2. CASE u = t
    <3>1. b \in LocalWalk(a) /\ b \in Agents
      BY <1>1, <1>3, <2>2 DEF Walked, LocalWalk, Types
    <3>2. Ready(b) /\ Len(args) = Len(service[b].args)
      BY <1>3, <1>6, <1>7, <2>2, <3>1
    <3>3. LocalWalk(a) \subseteq alive
      BY <1>1 DEF LocalWalk, TypeOK
    <3>4. b # NoCall
      BY <3>1, ServicesAssumption DEF ServicesAssumption
    <3> QED BY <1>3, <2>2, <3>2, <3>3, <3>4
  <2> QED BY <2>1, <2>2
<1> QED BY <1>10, <1>11, <1>12, <1>13 DEF DueInv

LEMMA VisitDue ==
  ASSUME Sound, DueInv, NEW t \in Threads, NEW b \in Agents, Visit(t, b)
  PROVE  DueInv'
<1>1. Types /\ TypeOK /\ DueServed /\ DueMail /\ DueHandled /\ DueWalked
  BY DEF Sound, Placed, DueInv
<1>2. /\ call[t].phase = "walk" /\ call[t].callee = NoCall /\ b \in call[t].rest
      /\ call'[t].number = call[t].number
      /\ \A u \in Threads \ {t} : call'[u] = call[u]
      /\ UNCHANGED <<agentVars, channel, handling, edits, served, due>>
      /\ \/ WalkEnds(t)
         \/ WalkSkips(t, b)
         \/ Matches(t, b) /\ WalkCalls(t, b)
  BY <1>1, VisitEffect
<1>3. DueServed'
  <2>1. ASSUME NEW r \in Outstanding \ Outstanding' PROVE r \notin due
    <3>1. CASE b \notin alive /\ \E x \in Walked(t, call[t]) : r = Request(t, call[t].number, x)
      BY <1>1, <1>2, <3>1 DEF DueWalked
    <3>2. CASE /\ r = Request(t, call[t].number, b) /\ b \in Walked(t, call[t])
               /\ b \notin alive \/ ~Matches(t, b)
      <4>1. SUFFICES ASSUME r \in due PROVE FALSE
        OBVIOUS
      <4>2. /\ call[t].rest \subseteq alive /\ Ready(b)
            /\ Len(service[b].args) = Len(call[t].args)
        BY <1>1, <1>2, <3>2, <4>1 DEF DueWalked
      <4>3. Addressed(b, call[t].target)
        BY <1>2, <3>2, ServicesAssumption DEF Walked, ServicesAssumption
      <4> QED BY <1>2, <3>2, <4>2, <4>3 DEF Matches, Ready
    <3> QED BY <2>1, <3>1, <3>2, VisitMoves
  <2>2. Served' = Served
    BY <1>2, OnlyCallbacksServe
  <2> QED BY <1>1, <1>2, <2>1, <2>2 DEF DueServed
<1>4. DueMail' /\ DueHandled'
  BY <1>1, <1>2 DEF DueMail, DueHandled, Ready, agentVars, NoHandling
<1>5. DueWalked'
  <2> SUFFICES ASSUME NEW u \in Threads, NEW x \in Walked(u, call'[u]),
                      Request(u, call'[u].number, x) \in due
               PROVE  /\ call'[u].caller \in alive /\ call'[u].rest \subseteq alive
                      /\ Ready(x)
                      /\ x \in call'[u].rest => Len(service[x].args) = Len(call'[u].args)
                      /\ x = call'[u].callee => service[x].inst = call'[u].inst
    BY <1>2 DEF DueWalked, Ready, agentVars
  <2>1. CASE u # t
    <3>1. call'[u] = call[u]
      BY <1>2, <2>1
    <3> QED BY <1>1, <3>1 DEF DueWalked
  <2>2. CASE u = t /\ WalkEnds(t)
    BY <2>2 DEF Walked, WalkEnds
  <2>3. CASE u = t /\ (WalkSkips(t, b) \/ (Matches(t, b) /\ WalkCalls(t, b)))
    <3>1. x \in Walked(t, call[t])
      BY <1>2, <2>3 DEF Walked, WalkSkips, WalkCalls, Matches
    <3>2. x # NoCall /\ x \in call[t].rest
      BY <1>1, <1>2, <3>1, ServicesAssumption, RecordTypes DEF Walked, ServicesAssumption
    <3>3. /\ call[t].caller \in alive /\ call[t].rest \subseteq alive /\ Ready(x)
          /\ Len(service[x].args) = Len(call[t].args)
      BY <1>1, <1>2, <2>3, <3>1, <3>2 DEF DueWalked
    <3> QED BY <2>3, <3>2, <3>3 DEF WalkSkips, WalkCalls
  <2> QED BY <1>2, <2>1, <2>2, <2>3
<1> QED BY <1>3, <1>4, <1>5 DEF DueInv

LEMMA EndCallDue ==
  ASSUME Sound, DueInv, NEW t \in Threads, EndCall(t)
  PROVE  DueInv'
<1>1. Types /\ TypeOK /\ DueServed /\ DueMail /\ DueHandled /\ DueWalked
  BY DEF Sound, Placed, DueInv
<1>2. /\ WalkEnds(t)
      /\ \A u \in Threads \ {t} : call'[u] = call[u]
      /\ UNCHANGED <<agentVars, stamp, channel, handling, edits, served, due>>
  BY <1>1, EndCallEffect
<1>3. DueServed'
  BY <1>1, <1>2, EndCallMoves, OnlyCallbacksServe DEF DueServed
<1>4. DueMail' /\ DueHandled'
  BY <1>1, <1>2 DEF DueMail, DueHandled, Ready, agentVars, NoHandling
<1>5. Walked(t, call'[t]) = {}
  BY <1>2 DEF Walked, WalkEnds
<1>6. DueWalked'
  BY <1>1, <1>2, <1>5 DEF DueWalked, Ready, agentVars
<1> QED BY <1>3, <1>4, <1>6 DEF DueInv

LEMMA LocalCallbackDue ==
  ASSUME Sound, DueInv, NEW t \in Threads, LocalCallback(t)
  PROVE  DueInv'
<1> DEFINE b == call[t].callee  r == Request(t, call[t].number, b)
<1>1. Types /\ TypeOK /\ Walks /\ DueServed /\ DueMail /\ DueHandled /\ DueWalked
  BY DEF Sound, Placed, DueInv
<1>2. /\ b \in Agents
      /\ call'[t].number = call[t].number /\ call'[t].phase = "walk"
      /\ call'[t].callee = NoCall /\ call'[t].rest = call[t].rest
      /\ call'[t].caller = call[t].caller /\ call'[t].target = call[t].target
      /\ call'[t].args = call[t].args
      /\ \A u \in Threads \ {t} : call'[u] = call[u]
      /\ UNCHANGED <<agentVars, channel, handling, edits, due>>
      /\ \/ Served' = Served \cup {r}
         \/ /\ Served' = Served
            /\ ~(b \in alive /\ call[t].caller \in alive /\ CallbackSet(b, call[t].inst) = {TRUE})
  BY <1>1, LocalCallbackEffect
<1>3. b # NoCall /\ b \in Walked(t, call[t])
  BY <1>2, ServicesAssumption DEF Walked, ServicesAssumption
<1>4. ASSUME r \in due PROVE r \in Served'
  <2>1. call[t].caller \in alive /\ Ready(b) /\ service[b].inst = call[t].inst
    BY <1>1, <1>3, <1>4 DEF DueWalked
  <2>2. b \in alive /\ CallbackSet(b, call[t].inst) = {TRUE}
    BY <1>2, <2>1, ReadyCallback
  <2> QED BY <1>2, <2>1, <2>2
<1>5. r \in Outstanding /\ Outstanding' = Outstanding \ {r}
  BY LocalCallbackMoves
<1> HIDE DEF r
<1>6. DueServed'
  BY <1>1, <1>2, <1>4, <1>5 DEF DueServed
<1>7. DueMail' /\ DueHandled'
  BY <1>1, <1>2 DEF DueMail, DueHandled, Ready, agentVars, NoHandling
<1>8. DueWalked'
  <2> SUFFICES ASSUME NEW u \in Threads, NEW x \in Walked(u, call'[u]),
                      Request(u, call'[u].number, x) \in due
               PROVE  /\ call'[u].caller \in alive /\ call'[u].rest \subseteq alive
                      /\ Ready(x)
                      /\ x \in call'[u].rest => Len(service[x].args) = Len(call'[u].args)
                      /\ x = call'[u].callee => service[x].inst = call'[u].inst
    BY <1>2 DEF DueWalked, Ready, agentVars
  <2>1. CASE u # t
    <3>1. call'[u] = call[u]
      BY <1>2, <2>1
    <3> QED BY <1>1, <3>1 DEF DueWalked
  <2>2. CASE u = t
    <3>1. x \in Walked(t, call[t]) /\ x \in call[t].rest
      BY <1>2, <2>2 DEF Walked
    <3>2. x # NoCall
      BY <1>1, <3>1, ServicesAssumption, RecordTypes DEF ServicesAssumption
    <3> QED BY <1>1, <1>2, <2>2, <3>1, <3>2 DEF DueWalked
  <2> QED BY <2>1, <2>2
<1> QED BY <1>6, <1>7, <1>8 DEF DueInv

LEMMA RemoteCallbackDue ==
  ASSUME Sound, DueInv, NEW p \in Peers, RemoteCallback(p)
  PROVE  DueInv'
<1> DEFINE h == handling[p]  r == Request(h.thread, h.number, h.callee)
<1>1. Types /\ TypeOK /\ Handled /\ DueServed /\ DueMail /\ DueHandled /\ DueWalked
  BY DEF Sound, Placed, DueInv
<1>2. /\ h # NoHandling /\ HandlerOK(p, h, call)
      /\ handling'[p] = NoHandling /\ \A p1 \in Peers \ {p} : handling'[p1] = handling[p1]
      /\ UNCHANGED <<agentVars, channel, call, edits, due>>
      /\ \/ Served' = Served \cup {r}
         \/ /\ Served' = Served
            /\ ~(h.callee \in alive /\ CallbackSet(h.callee, h.inst) = {TRUE})
  BY <1>1, RemoteCallbackEffect
<1>3. ASSUME r \in due PROVE r \in Served'
  <2>1. h.callee \in Agents /\ Ready(h.callee) /\ service[h.callee].inst = h.inst
    BY <1>1, <1>2, <1>3 DEF DueHandled, HandlerOK
  <2>2. h.callee \in alive /\ CallbackSet(h.callee, h.inst) = {TRUE}
    BY <2>1, ReadyCallback
  <2> QED BY <1>2, <2>2
<1>4. r \in Outstanding /\ Outstanding' = Outstanding \ {r}
  BY RemoteCallbackMoves
<1> HIDE DEF r
<1>5. DueServed'
  BY <1>1, <1>2, <1>3, <1>4 DEF DueServed
<1>6. DueMail' /\ DueWalked'
  BY <1>1, <1>2 DEF DueMail, DueWalked, Ready, agentVars
<1>7. DueHandled'
  <2>1. \A q \in Peers : handling'[q] # NoHandling => handling'[q] = handling[q]
    BY <1>2
  <2> QED BY <1>1, <1>2, <2>1 DEF DueHandled, Ready, agentVars, NoHandling
<1> QED BY <1>5, <1>6, <1>7 DEF DueInv

LEMMA HandleCallDue ==
  ASSUME Sound, DueInv, NEW p \in Peers, NEW q \in Others(p), HandleCall(p, q)
  PROVE  DueInv'
<1> DEFINE m == Head(channel[q][p])  s == service[m.agent]
<1>1. Types /\ TypeOK /\ Mail /\ DueServed /\ DueMail /\ DueHandled /\ DueWalked
  BY DEF Sound, Placed, DueInv
<1>2. /\ q \in Peers /\ p # q
      /\ m \in ToSet(channel[q][p]) /\ m.type = "CALL"
      /\ UNCHANGED <<agentVars, call, edits, served, due>>
      /\ channel[q][p] # <<>> /\ channel' = Popped(q, p)
      /\ \A p1 \in Peers \ {p} : handling'[p1] = handling[p1]
      /\ \/ /\ handling'[p].callee = m.agent /\ handling'[p].thread = m.thread
            /\ handling'[p].number = m.number /\ handling'[p].inst = s.inst
         \/ handling' = handling
  BY <1>1, HandleCallEffect
<1>3. \A p1, q1 \in Peers : ToSet(channel'[p1][q1]) \subseteq ToSet(channel[p1][q1])
  BY <1>1, <1>2, Popping
<1>4. /\ Outstanding' \subseteq Outstanding
      /\ \A r \in Outstanding \ Outstanding' :
           r = ReqOf(m) /\ ~(m.agent \in active /\ s.inst # 0 /\ Fits(m.frames, s.args))
  BY HandleCallMoves
<1>5. ReqOf(m) \in due => Ready(m.agent) /\ Fits(m.frames, s.args)
  BY <1>1, <1>2 DEF DueMail, Calls
<1> HIDE DEF m, s
<1>6. DueServed'
  <2>1. Served' = Served
    BY <1>2, OnlyCallbacksServe
  <2> QED BY <1>1, <1>2, <1>4, <1>5, <2>1 DEF DueServed, Ready, s
<1>7. DueMail' /\ DueWalked'
  <2>1. \A p1, q1 \in Peers : Calls(channel'[p1][q1]) \subseteq Calls(channel[p1][q1])
    BY <1>3 DEF Calls
  <2>2. DueMail'
    BY <1>1, <1>2, <2>1 DEF DueMail, Ready, agentVars
  <2>3. DueWalked'
    BY <1>1, <1>2 DEF DueWalked, Ready, agentVars
  <2> QED BY <2>2, <2>3
<1>8. DueHandled'
  <2> SUFFICES ASSUME NEW p1 \in Peers, handling'[p1] # NoHandling,
                      Request(handling'[p1].thread, handling'[p1].number, handling'[p1].callee) \in due
               PROVE  /\ Ready(handling'[p1].callee)
                      /\ service[handling'[p1].callee].inst = handling'[p1].inst
    BY <1>2 DEF DueHandled, Ready, agentVars, NoHandling
  <2>1. CASE handling'[p1] = handling[p1]
    BY <1>1, <2>1 DEF DueHandled
  <2>2. CASE p1 = p /\ /\ handling'[p].callee = m.agent /\ handling'[p].thread = m.thread
                       /\ handling'[p].number = m.number /\ handling'[p].inst = s.inst
    BY <1>5, <2>2 DEF ReqOf, s
  <2> QED BY <1>2, <2>1, <2>2
<1> QED BY <1>6, <1>7, <1>8 DEF DueInv

\* Steps that move no request keep DueInv when what is left due stays
\* servable.
LEMMA StillDue ==
  ASSUME Sound, DueInv, UNCHANGED <<call, handling, served>>, Outstanding' = Outstanding,
         due' \subseteq due,
         \A p, q \in Peers : Calls(channel'[p][q]) = Calls(channel[p][q]),
         \A r \in due' : Ready(r.callee) => /\ Ready(r.callee)'
                                            /\ service'[r.callee].inst = service[r.callee].inst
                                            /\ service'[r.callee].args = service[r.callee].args,
         \A t \in Threads : \A b \in Walked(t, call[t]) : Request(t, call[t].number, b) \in due' =>
           /\ call[t].caller \in alive => call[t].caller \in alive'
           /\ call[t].rest \subseteq alive => call[t].rest \subseteq alive'
  PROVE  DueInv'
<1>1. DueServed /\ DueMail /\ DueHandled /\ DueWalked
  BY DEF DueInv
<1>2. \A t, n, b : Request(t, n, b) \in due' => Request(t, n, b) \in due /\ Request(t, n, b).callee = b
  BY DEF Request
<1>3. DueServed'
  BY <1>1, OnlyCallbacksServe DEF DueServed
<1>4. DueMail'
  <2> SUFFICES ASSUME NEW p \in Peers, NEW q \in Peers, NEW m \in Calls(channel[p][q]),
                      ReqOf(m) \in due'
               PROVE  Ready(m.agent)' /\ Fits(m.frames, service'[m.agent].args)
    BY DEF DueMail
  <2>1. ReqOf(m) \in due /\ ReqOf(m).callee = m.agent
    BY <1>2 DEF ReqOf
  <2> QED BY <1>1, <2>1 DEF DueMail
<1>5. DueHandled'
  <2> SUFFICES ASSUME NEW p \in Peers, handling[p] # NoHandling,
                      Request(handling[p].thread, handling[p].number, handling[p].callee) \in due'
               PROVE  Ready(handling[p].callee)' /\ service'[handling[p].callee].inst = handling[p].inst
    BY DEF DueHandled, NoHandling
  <2> QED BY <1>1, <1>2 DEF DueHandled
<1>6. DueWalked'
  <2> SUFFICES ASSUME NEW t \in Threads, NEW b \in Walked(t, call[t]),
                      Request(t, call[t].number, b) \in due'
               PROVE  /\ call[t].caller \in alive' /\ call[t].rest \subseteq alive'
                      /\ Ready(b)'
                      /\ b \in call[t].rest => Len(service'[b].args) = Len(call[t].args)
                      /\ b = call[t].callee => service'[b].inst = call[t].inst
    BY DEF DueWalked
  <2>1. /\ call[t].caller \in alive /\ call[t].rest \subseteq alive
        /\ Ready(b)
        /\ b \in call[t].rest => Len(service[b].args) = Len(call[t].args)
        /\ b = call[t].callee => service[b].inst = call[t].inst
    BY <1>1, <1>2 DEF DueWalked
  <2>2. /\ Ready(b)'
        /\ service'[b].inst = service[b].inst /\ service'[b].args = service[b].args
    BY <1>2, <2>1
  <2>3. call[t].caller \in alive' /\ call[t].rest \subseteq alive'
    BY <2>1
  <2> QED BY <2>1, <2>2, <2>3
<1> QED BY <1>3, <1>4, <1>5, <1>6 DEF DueInv

LEMMA NewsDue ==
  ASSUME Sound, DueInv, NEW p \in Peers, NEW q \in Others(p), HandleDefinition(p, q) \/ HandleExit(p, q)
  PROVE  DueInv'
<1> DEFINE m == Head(channel[q][p])
<1>1. Types /\ Mail
  BY DEF Sound, Placed
<1>2. /\ q \in Peers /\ p # q /\ channel[q][p] # <<>> /\ channel' = Popped(q, p)
      /\ m.type \in {"KNOWN", "EXIT"}
      /\ UNCHANGED <<alive, active, service, call, handling, served, due>>
  BY DEF HandleDefinition, HandleExit, Received, Others
<1>3. /\ ToSet(channel[q][p]) = {m} \cup ToSet(channel'[q][p])
      /\ \A p1, q1 \in Peers : p1 # q \/ q1 # p => channel'[p1][q1] = channel[p1][q1]
  BY <1>1, <1>2, Popping
<1>4. \A p1, q1 \in Peers : Calls(channel'[p1][q1]) = Calls(channel[p1][q1])
  BY <1>2, <1>3 DEF Calls
<1>5. Outstanding' = Outstanding
  BY NewsMoves
<1> QED BY <1>2, <1>4, <1>5, StillDue DEF Ready

LEMMA EditDue ==
  ASSUME Sound, DueInv, NEW a \in Agents, EditStep(a)
  PROVE  DueInv'
<1>1. Types /\ TypeOK /\ Mail /\ Walks
  BY DEF Sound, Placed
<1>2. UNCHANGED <<call, handling, served>>
  BY DEF EditStep, Activate, Deactivate, Destroy, ServiceInit, ServiceRemove, ArgAdd, ArgRemove
<1>3. Outstanding' = Outstanding
  BY EditMoves
<1>4. \A p, q \in Peers : Calls(channel'[p][q]) = Calls(channel[p][q])
  <2>1. CASE Activate(a) \/ Deactivate(a)
    <3>1. PICK type \in {"KNOWN", "EXIT"} : channel' = SendAll(Home[a], Notice(type, a))
      BY <2>1 DEF Activate, Deactivate
    <3> QED BY <1>1, <3>1, Noticing
  <2>2. CASE channel' = channel
    BY <2>2
  <2> QED BY <2>1, <2>2 DEF EditStep, Destroy, ServiceInit, ServiceRemove, ArgAdd, ArgRemove
<1>5. ASSUME alive' = alive, due' \subseteq due,
             \A r \in due' : Ready(r.callee) => /\ Ready(r.callee)'
                                                /\ service'[r.callee].inst = service[r.callee].inst
                                                /\ service'[r.callee].args = service[r.callee].args
      PROVE  DueInv'
  BY <1>2, <1>3, <1>4, <1>5, StillDue
<1>6. CASE Activate(a)
  BY <1>5, <1>6 DEF Activate, Ready
<1>7. CASE Deactivate(a)
  BY <1>5, <1>7 DEF Deactivate, Ready, Forget
<1>8. CASE Destroy(a)
  <2>1. /\ due' \subseteq due /\ \A r \in due' : r.callee # a
        /\ active' = active /\ service' = [service EXCEPT ![a] = NoService]
        /\ alive' = alive \ {a}
    BY <1>8 DEF Destroy, FreedService
  <2>2. \A r \in due' : Ready(r.callee) => /\ Ready(r.callee)'
                                           /\ service'[r.callee].inst = service[r.callee].inst
                                           /\ service'[r.callee].args = service[r.callee].args
    BY <1>1, <2>1 DEF Ready, Types, TypeOK
  <2>3. ASSUME NEW t \in Threads, NEW b \in Walked(t, call[t]),
               Request(t, call[t].number, b) \in due'
        PROVE  call[t].caller # a /\ a \notin call[t].rest
    <3>1. call[t].phase # "idle"
      BY <1>1 DEF Walked, TypeOK, Walks
    <3>2. /\ Home[b] = Home[call[t].caller]
          /\ \A x \in call[t].rest : Home[x] = Home[call[t].caller]
      BY <1>1, <3>1 DEF Walked, Walks
    <3>3. Home[b] # Home[a] \/ Home[call[t].caller] # Home[a]
      <4> DEFINE r == Request(t, call[t].number, b)
      <4>1. r.callee = b /\ r.thread = t
        BY DEF Request
      <4> HIDE DEF r
      <4>2. \/ Home[r.callee] # Home[a]
            \/ call[r.thread].phase = "idle"
            \/ Home[call[r.thread].caller] # Home[a]
        BY <1>8, <2>3 DEF Destroy, r
      <4> QED BY <3>1, <4>1, <4>2
    <3> QED BY <3>2, <3>3
  <2> QED BY <1>2, <1>3, <1>4, <2>1, <2>2, <2>3, StillDue
<1>9. CASE ServiceInit(a)
  <2>1. /\ alive' = alive /\ due' = due /\ active' = active
        /\ \A b \in Agents \ {a} : service'[b] = service[b]
        /\ ~service[a].cb
    BY <1>1, <1>9 DEF ServiceInit, Types
  <2>2. ASSUME NEW r \in due', Ready(r.callee)
        PROVE  /\ Ready(r.callee)'
               /\ service'[r.callee].inst = service[r.callee].inst
               /\ service'[r.callee].args = service[r.callee].args
    <3>1. r.callee \in Agents /\ r.callee # a
      BY <1>1, <2>1, <2>2 DEF Ready, Types
    <3> QED BY <2>1, <2>2, <3>1 DEF Ready
  <2> QED BY <1>5, <2>1, <2>2
<1>10. CASE ServiceRemove(a)
  <2>1. /\ alive' = alive /\ due' \subseteq due /\ (\A r \in due' : r.callee # a)
        /\ active' = active /\ \A b \in Agents \ {a} : service'[b] = service[b]
    BY <1>1, <1>10 DEF ServiceRemove, Forget, Types
  <2> QED BY <1>1, <1>5, <2>1 DEF Ready, Types
<1>11. CASE \E size \in Sizes : ArgAdd(a, size)
  <2>1. /\ alive' = alive /\ due' \subseteq due /\ (\A r \in due' : r.callee # a)
        /\ active' = active /\ \A b \in Agents \ {a} : service'[b] = service[b]
    BY <1>1, <1>11 DEF ArgAdd, Forget, Types
  <2> QED BY <1>1, <1>5, <2>1 DEF Ready, Types
<1>12. CASE \E i \in 1..Len(service[a].args) : ArgRemove(a, i)
  <2>1. /\ alive' = alive /\ due' \subseteq due /\ (\A r \in due' : r.callee # a)
        /\ active' = active /\ \A b \in Agents \ {a} : service'[b] = service[b]
    BY <1>1, <1>12 DEF ArgRemove, Forget, Types
  <2> QED BY <1>1, <1>5, <2>1 DEF Ready, Types
<1> QED BY <1>6, <1>7, <1>8, <1>9, <1>10, <1>11, <1>12 DEF EditStep

LEMMA DueStep == Sound /\ DueInv /\ [Next]_vars => DueInv'
<1> SUFFICES ASSUME Sound, DueInv, [Next]_vars PROVE DueInv'
  OBVIOUS
<1>1. ASSUME NEW t \in Threads, CallStep(t) PROVE DueInv'
  BY <1>1, VisitDue, LocalCallbackDue, EndCallDue DEF CallStep
<1>2. ASSUME NEW p \in Peers, NetworkStep(p) PROVE DueInv'
  BY <1>2, RemoteCallbackDue, HandleCallDue, NewsDue DEF NetworkStep
<1>3. CASE UNCHANGED vars
  <2>1. UNCHANGED <<alive, active, service, channel, handling, call, served, due>>
    BY <1>3 DEF vars, agentVars
  <2>2. \A r : /\ InMail(r, channel') <=> InMail(r, channel)
               /\ Taken(r, handling') <=> Taken(r, handling)
               /\ InWalk(r, call') <=> InWalk(r, call)
    BY <2>1 DEF InMail, Taken, InWalk
  <2>3. Outstanding' = Outstanding
    BY <2>2, Whereabouts
  <2> QED BY <2>1, <2>3, StillDue DEF Ready
<1> QED BY <1>1, <1>2, <1>3, CallDue, EditDue DEF Next

\* A timestamp is set while a callback of its agent runs only.
LEMMA StampStep == Sound /\ StampCleared /\ [Next]_vars => StampCleared'
<1> SUFFICES ASSUME Sound, StampCleared, [Next]_vars PROVE StampCleared'
  OBVIOUS
<1>1. Types /\ TypeOK /\ Mail /\ Handled
  BY DEF Sound, Placed
<1> DEFINE InCallback(a) == \/ \E t \in Threads : call[t].phase = "callback" /\ call[t].caller = a
                            \/ \E p \in Peers : handling[p].callee = a
<1>2. \A a \in Agents : stamp[a] # NoCall => InCallback(a)
  BY DEF StampCleared
<1>3. SUFFICES ASSUME NEW a \in Agents, stamp'[a] # NoCall PROVE InCallback(a)'
  BY DEF StampCleared
<1>4. ASSUME stamp'[a] = stamp[a],
             \A t \in Threads : call[t].phase = "callback" /\ call[t].caller = a =>
                              call'[t].phase = "callback" /\ call'[t].caller = a,
             \A p \in Peers : handling[p].callee = a => handling'[p].callee = a
      PROVE  InCallback(a)'
  BY <1>2, <1>3, <1>4
<1> HIDE DEF InCallback
<1>5. ASSUME NEW t \in Threads, NEW c \in Agents, NEW name \in Names, NEW args \in Lists[t],
             Call(t, c, name, args)
      PROVE  InCallback(a)'
  <2>1. /\ UNCHANGED <<stamp, handling>> /\ call[t].phase = "idle"
        /\ \A u \in Threads \ {t} : call'[u] = call[u]
    BY <1>1, <1>5 DEF Call, Types
  <2> QED BY <1>4, <2>1
<1>6. ASSUME NEW t \in Threads, CallStep(t) PROVE InCallback(a)'
  <2>1. CASE LocalCallback(t)
    <3>1. /\ stamp' = ClearedStamp(call[t].caller) /\ UNCHANGED handling
          /\ \A u \in Threads \ {t} : call'[u] = call[u]
      BY <1>1, <2>1, LocalCallbackEffect
    <3>2. call[t].caller # a /\ stamp'[a] = stamp[a]
      BY <1>1, <1>3, <3>1 DEF ClearedStamp, Types
    <3> QED BY <1>4, <3>1, <3>2
  <2>2. CASE EndCall(t)
    <3>1. /\ UNCHANGED <<stamp, handling>> /\ call[t].phase = "walk"
          /\ \A u \in Threads \ {t} : call'[u] = call[u]
      BY <1>1, <2>2, EndCallEffect
    <3> QED BY <1>4, <3>1
  <2>3. ASSUME NEW b \in Agents, Visit(t, b) PROVE InCallback(a)'
    <3>1. /\ call[t].phase = "walk" /\ UNCHANGED handling
          /\ \A u \in Threads \ {t} : call'[u] = call[u]
          /\ \/ UNCHANGED stamp
             \/ /\ WalkCalls(t, b)
                /\ stamp' = [stamp EXCEPT ![call[t].caller] =
                                             StampOf(t, call[t].number, call[t].caller)]
      BY <1>1, <2>3, VisitEffect
    <3>2. CASE stamp'[a] = stamp[a]
      BY <1>4, <3>1, <3>2
    <3>3. CASE stamp'[a] # stamp[a]
      <4>1. WalkCalls(t, b) /\ call[t].caller = a
        BY <1>1, <3>1, <3>3 DEF Types
      <4> QED BY <4>1 DEF WalkCalls, InCallback
    <3> QED BY <3>2, <3>3
  <2> QED BY <1>6, <2>1, <2>2, <2>3 DEF CallStep
<1>7. ASSUME NEW p \in Peers, NetworkStep(p) PROVE InCallback(a)'
  <2>1. CASE RemoteCallback(p)
    <3>1. /\ stamp' = ClearedStamp(handling[p].callee) /\ UNCHANGED call
          /\ \A p1 \in Peers \ {p} : handling'[p1] = handling[p1]
      BY <1>1, <2>1, RemoteCallbackEffect
    <3>2. handling[p].callee # a /\ stamp'[a] = stamp[a]
      BY <1>1, <1>3, <3>1 DEF ClearedStamp, Types
    <3> QED BY <1>4, <3>1, <3>2
  <2>2. ASSUME NEW q \in Others(p), HandleCall(p, q) PROVE InCallback(a)'
    <3> DEFINE m == Head(channel[q][p])
    <3>1. /\ handling[p] = NoHandling /\ UNCHANGED call
          /\ \A p1 \in Peers \ {p} : handling'[p1] = handling[p1]
          /\ \/ handling'[p].callee = m.agent /\ \A x \in Agents : x # m.agent => stamp'[x] = stamp[x]
             \/ handling' = handling /\ \A x \in Agents : stamp'[x] \in {stamp[x], NoCall}
      BY <1>1, <2>2, HandleCallEffect
    <3>2. NoHandling.callee # a
      BY ServicesAssumption DEF NoHandling, ServicesAssumption
    <3> HIDE DEF m
    <3>3. CASE stamp'[a] = stamp[a]
      BY <1>4, <3>1, <3>2, <3>3
    <3>4. CASE stamp'[a] # stamp[a]
      <4>1. handling'[p].callee = a
        BY <1>3, <3>1, <3>4
      <4> QED BY <4>1 DEF InCallback
    <3> QED BY <3>3, <3>4
  <2>3. ASSUME NEW q \in Others(p), HandleDefinition(p, q) \/ HandleExit(p, q) PROVE InCallback(a)'
    <3>1. UNCHANGED <<stamp, call, handling>>
      BY <2>3 DEF HandleDefinition, HandleExit
    <3> QED BY <1>4, <3>1
  <2> QED BY <1>7, <2>1, <2>2, <2>3 DEF NetworkStep
<1>8. ASSUME UNCHANGED <<stamp, call, handling>> PROVE InCallback(a)'
  BY <1>4, <1>8
<1>9. ASSUME NEW b \in Agents, EditStep(b) PROVE InCallback(a)'
  BY <1>8, <1>9
  DEF EditStep, Activate, Deactivate, Destroy, ServiceInit, ServiceRemove, ArgAdd, ArgRemove
<1>10. CASE UNCHANGED vars
  BY <1>8, <1>10 DEF vars
<1> QED BY <1>5, <1>6, <1>7, <1>9, <1>10 DEF Next

\* A call reaches every agent it is addressed to that is, and stays, active
\* with the service, its callback and its arguments, whatever other threads
\* and peers do meanwhile; and igs_rt_get_current_timestamp returns INT64_MIN
\* out of callbacks.
THEOREM CallsServedKept == Spec => []CallsServed
<1>1. Init => DueInv /\ StampCleared
  <2> SUFFICES ASSUME Init PROVE DueInv /\ StampCleared
    OBVIOUS
  <2>1. due = {} /\ \A a \in Agents : stamp[a] = NoCall
    BY DEF Init
  <2> QED BY <2>1 DEF DueInv, DueServed, DueMail, DueHandled, DueWalked, StampCleared
<1>2. DueInv /\ StampCleared => CallsServed
  BY DEF DueInv, CallsServed
<1> QED BY <1>1, <1>2, InitSound, SoundStep, DueStep, StampStep, PTL DEF Spec

-----------------------------------------------------------------------------
(***************************************************************************)
(* Locks and callbacks (module Api).                                       *)
(***************************************************************************)

\* What a thread holds, or knows: its locks; that it has to signal the end of
\* its start ("booting"); that it calls the observers of a forced stop with the
\* network lock ("telling"); that there is no network thread ("off"); that it
\* was the last step of a run ("ended"); that it makes the global agent ("new").
Tokens == Locks \cup {"booting", "telling", "off", "ended", "new"}

\* The order in which locks are taken and the start is awaited.
Rank == [gil |-> 0, model |-> 1, booting |-> 2, network |-> 3, zyre |-> 4, log |-> 5]
Below(L, m) == "telling" \in L \/ \A l \in L \cap DOMAIN Rank : Rank[l] < Rank[m]
Outside(L) == L \cap DOMAIN Rank \subseteq {"gil"}

Dos == {"lock", "free", "pass", "log", "callback", "init", "agent", "leak", "spawn", "await",
        "stop", "join", "ready", "tell", "ended"}
Steps == [do : Dos, on : Locks \cup {None}]

\* Thread t may be at step s when it holds L ...
Allows(t, L, s) ==
  /\ "ended" \notin L
  /\ CASE s.do = "lock" -> s.on \in Locks \ L /\ Below(L, s.on) /\ (s.on = "gil" => python)
       [] s.do = "pass" -> /\ s.on \in Locks \ {"gil"}
                           /\ \/ Below(L, s.on)
                              \/ s.on = "zyre" /\ "log" \in L
                              \/ s.on = "model" /\ "model" \in L /\ t = Net
       [] s.do = "free" -> s.on \in Locks \cap L /\ (s.on = "gil" => "new" \notin L)
       [] s.do = "log" -> "log" \notin L
       [] s.do = "callback" -> /\ "new" \notin L
                               /\ Outside(L) \/ ("telling" \in L /\ L \cap Locks = {"network"})
       [] s.do = "init" -> /\ Outside(L) /\ {"telling", "new"} \cap L = {}
                           /\ python => "gil" \in L
       [] s.do = "agent" -> python /\ ~observed => "new" \in L
       [] s.do = "leak" -> "model" \in L
       [] s.do = "spawn" -> t = Main /\ "off" \in L
       [] s.do = "await" -> t = Main /\ L \cap DOMAIN Rank \subseteq {"gil", "model"}
       [] s.do \in {"stop", "join"} -> t = Main /\ Outside(L)
       [] s.do = "ready" -> t = Net /\ L = {"network", "booting"}
       [] s.do = "tell" -> t = Net /\ L = {"network"}
       [] s.do = "ended" -> t = Net /\ L = {}
       [] OTHER -> FALSE

\* ... and holds this after it.
After(L, s) ==
  CASE s.do = "lock" -> L \cup {s.on}
    [] s.do = "free" -> IF s.on = "network" THEN L \ {"network", "telling"} ELSE L \ {s.on}
    [] s.do = "agent" -> L \ {"new"}
    [] s.do = "leak" -> L \ {"model"}
    [] s.do = "spawn" -> L \ {"off"}
    [] s.do \in {"stop", "join"} -> L \cup {"off"}
    [] s.do = "ready" -> L \ {"booting"}
    [] s.do = "tell" -> L \cup {"telling"}
    [] s.do = "ended" -> {"ended"}
    [] OTHER -> L

\* The thread holds these locks and the rest is so.
Faithful(t, L) ==
  /\ \A m \in Locks : m \in L => owner[m] = t
  /\ \A m \in Locks : owner[m] = t => m \in L \/ (m = "model" /\ leaked)
  /\ "booting" \in L <=> t = Net /\ loop = "boot"
  /\ "telling" \in L => t = Net /\ loop = "telling" /\ owner["network"] = Net
  /\ "off" \in L => t = Main /\ loop = "off"
  /\ "ended" \in L => t = Net /\ Resting(Net)
  /\ "new" \in L => python /\ ~observed /\ made = 0 /\ "gil" \in L

\* The rest p of a program is allowed from L and leaves M.
Runs(t, L, p, M) ==
  \E f \in [0..Len(p) -> SUBSET Tokens] :
    /\ f[0] = L /\ f[Len(p)] = M
    /\ \A i \in 1..Len(p) : Allows(t, f[i - 1], p[i]) /\ f[i] = After(f[i - 1], p[i])

\* What a thread holds stays among the tokens.
LEMMA AfterToken ==
  ASSUME NEW L \in SUBSET Tokens, NEW s, NEW t, Allows(t, L, s)
  PROVE  After(L, s) \in SUBSET Tokens
<1>1. s.do = "lock" => s.on \in Tokens
  BY DEF Allows, Tokens
<1> QED
  BY <1>1 DEF After, Tokens

\* The empty program leaves what is held as it is.
LEMMA RunsNothing ==
  ASSUME NEW t, NEW L \in SUBSET Tokens
  PROVE  Runs(t, L, <<>>, L) /\ \A M : Runs(t, L, <<>>, M) => M = L
<1> DEFINE f == [i \in 0..Len(<<>>) |-> L]
<1>1. Len(<<>>) = 0
  OBVIOUS
<1>2. f \in [0..Len(<<>>) -> SUBSET Tokens] /\ f[0] = L /\ f[Len(<<>>)] = L
  BY <1>1
<1> HIDE DEF f
<1>3. Runs(t, L, <<>>, L)
  <2>1. \A i \in 1..Len(<<>>) : FALSE
    BY <1>1
  <2> QED
    BY <1>2, <2>1 DEF Runs
<1> QED
  BY <1>1, <1>3 DEF Runs

\* A program of one step.
LEMMA RunsOne ==
  ASSUME NEW t, NEW L \in SUBSET Tokens, NEW s \in Steps, Allows(t, L, s)
  PROVE  Runs(t, L, <<s>>, After(L, s))
<1> DEFINE f == [i \in 0..Len(<<s>>) |-> IF i = 0 THEN L ELSE After(L, s)]
<1>1. Len(<<s>>) = 1 /\ <<s>>[1] = s
  OBVIOUS
<1>2. After(L, s) \in SUBSET Tokens
  BY AfterToken
<1>3. f \in [0..Len(<<s>>) -> SUBSET Tokens] /\ f[0] = L /\ f[1] = After(L, s)
  BY <1>1, <1>2
<1> HIDE DEF f
<1>4. \A i \in 1..1 : Allows(t, f[i - 1], <<s>>[i]) /\ f[i] = After(f[i - 1], <<s>>[i])
  BY <1>1, <1>3
<1> QED
  BY <1>1, <1>3, <1>4 DEF Runs

\* The same, with a name for what is held after it.
LEMMA RunsStep ==
  ASSUME NEW t, NEW L \in SUBSET Tokens, NEW K, NEW s \in Steps, Allows(t, L, s), After(L, s) = K
  PROVE  <<s>> \in Seq(Steps) /\ Runs(t, L, <<s>>, K)
BY RunsOne

\* A program after another.
LEMMA RunsBoth ==
  ASSUME NEW t, NEW p \in Seq(Steps), NEW q \in Seq(Steps),
         NEW L, NEW K, NEW M, Runs(t, L, p, K), Runs(t, K, q, M)
  PROVE  Runs(t, L, p \o q, M)
<1>1. PICK f \in [0..Len(p) -> SUBSET Tokens] :
        /\ f[0] = L /\ f[Len(p)] = K
        /\ \A i \in 1..Len(p) : Allows(t, f[i - 1], p[i]) /\ f[i] = After(f[i - 1], p[i])
  BY DEF Runs
<1>2. PICK g \in [0..Len(q) -> SUBSET Tokens] :
        /\ g[0] = K /\ g[Len(q)] = M
        /\ \A i \in 1..Len(q) : Allows(t, g[i - 1], q[i]) /\ g[i] = After(g[i - 1], q[i])
  BY DEF Runs
<1> DEFINE r == p \o q
           h == [i \in 0..Len(r) |-> IF i <= Len(p) THEN f[i] ELSE g[i - Len(p)]]
<1>3. /\ Len(p) \in Nat /\ Len(q) \in Nat /\ Len(r) = Len(p) + Len(q)
      /\ \A i \in 1..Len(r) : r[i] = IF i <= Len(p) THEN p[i] ELSE q[i - Len(p)]
  OBVIOUS
<1> HIDE DEF r
<1>4. h \in [0..Len(r) -> SUBSET Tokens]
  BY <1>3
<1>5. h[0] = L /\ h[Len(r)] = M
  BY <1>1, <1>2, <1>3
<1>6. ASSUME NEW i \in 1..Len(r)
      PROVE  Allows(t, h[i - 1], r[i]) /\ h[i] = After(h[i - 1], r[i])
  <2>1. CASE i <= Len(p)
    <3>1. i \in 1..Len(p) /\ h[i - 1] = f[i - 1] /\ h[i] = f[i] /\ r[i] = p[i]
      BY <1>3, <2>1
    <3> QED
      BY <1>1, <3>1
  <2>2. CASE i > Len(p)
    <3> DEFINE j == i - Len(p)
    <3>1. j \in 1..Len(q) /\ r[i] = q[j] /\ h[i] = g[j]
      BY <1>3, <2>2
    <3>2. h[i - 1] = g[j - 1]
      <4>1. CASE j = 1
        BY <1>1, <1>2, <1>3, <2>2, <4>1
      <4>2. CASE j # 1
        <5>1. i - 1 \in 0..Len(r) /\ ~(i - 1 <= Len(p)) /\ (i - 1) - Len(p) = j - 1
          BY <1>3, <2>2, <4>2
        <5>2. h[i - 1] = g[(i - 1) - Len(p)]
          BY <5>1
        <5> QED
          BY <5>1, <5>2
      <4> QED
        BY <4>1, <4>2
    <3> HIDE DEF h, j
    <3> QED
      BY <1>2, <3>1, <3>2
  <2> QED
    BY <1>3, <2>1, <2>2
<1> HIDE DEF h
<1> QED
  BY <1>4, <1>5, <1>6 DEF Runs, r

\* The step at the head, and what is left after it.
LEMMA RunsHead ==
  ASSUME NEW t, NEW p \in Seq(Steps), p # <<>>, NEW L, NEW M, Runs(t, L, p, M)
  PROVE  /\ Allows(t, L, Head(p)) /\ L \in SUBSET Tokens
         /\ Runs(t, After(L, Head(p)), Tail(p), M)
<1>1. PICK f \in [0..Len(p) -> SUBSET Tokens] :
        /\ f[0] = L /\ f[Len(p)] = M
        /\ \A i \in 1..Len(p) : Allows(t, f[i - 1], p[i]) /\ f[i] = After(f[i - 1], p[i])
  BY DEF Runs
<1> DEFINE q == Tail(p)
           g == [i \in 0..Len(q) |-> f[i + 1]]
<1>2. /\ Len(p) \in Nat \ {0} /\ Len(q) = Len(p) - 1 /\ Head(p) = p[1]
      /\ \A i \in 1..Len(q) : q[i] = p[i + 1]
  OBVIOUS
<1> HIDE DEF q
<1>3. Allows(t, L, Head(p)) /\ f[1] = After(L, Head(p)) /\ L \in SUBSET Tokens
  BY <1>1, <1>2
<1>4. g \in [0..Len(q) -> SUBSET Tokens] /\ g[0] = f[1] /\ g[Len(q)] = M
  BY <1>1, <1>2
<1>5. ASSUME NEW i \in 1..Len(q)
      PROVE  Allows(t, g[i - 1], q[i]) /\ g[i] = After(g[i - 1], q[i])
  <2>1. /\ i + 1 \in 1..Len(p) /\ q[i] = p[i + 1]
        /\ g[i - 1] = f[i] /\ g[i] = f[i + 1] /\ (i + 1) - 1 = i
    BY <1>2
  <2> HIDE DEF g
  <2> QED
    BY <1>1, <2>1
<1> HIDE DEF g
<1> QED
  BY <1>3, <1>4, <1>5 DEF Runs, q

\* The binding and the observers do not change.
LEMMA RunsSame ==
  ASSUME UNCHANGED <<python, observed>>, NEW t, NEW L, NEW p, NEW M, Runs(t, L, p, M)
  PROVE  Runs(t, L, p, M)'
BY DEF Runs, Allows

\* A step is replaced by what it does.
LEMMA RunsReplaced ==
  ASSUME NEW t, NEW p \in Seq(Steps), p # <<>>, NEW q \in Seq(Steps), NEW L, NEW K, NEW M,
         Runs(t, L, p, M), Runs(t, K, q, After(L, Head(p)))
  PROVE  Runs(t, K, q \o Tail(p), M)
<1>1. Tail(p) \in Seq(Steps)
  OBVIOUS
<1> QED
  BY <1>1, RunsHead, RunsBoth

\* The order, one lock at a time.
LEMMA RankIs ==
  /\ DOMAIN Rank = {"gil", "model", "booting", "network", "zyre", "log"}
  /\ Rank["gil"] = 0 /\ Rank["model"] = 1 /\ Rank["booting"] = 2
  /\ Rank["network"] = 3 /\ Rank["zyre"] = 4 /\ Rank["log"] = 5
  /\ Locks \subseteq DOMAIN Rank /\ \A m \in DOMAIN Rank : Rank[m] \in 0..5
BY DEF Rank, Locks

\* Steps are among the steps.
LEMMA StepIn ==
  ASSUME NEW do \in Dos, NEW on \in Locks \cup {None}
  PROVE  Step(do, on) \in Steps /\ Step(do, on).do = do /\ Step(do, on).on = on
BY DEF Step, Steps

\* One gives a program.
LEMMA OneIn == \A do \in Dos : One(do) \in Seq(Steps)
<1>1. SUFFICES ASSUME NEW do \in Dos
               PROVE  One(do) \in Seq(Steps)
  OBVIOUS
<1>2. Step(do, None) \in Steps
  BY StepIn
<1> QED
  BY <1>2 DEF One

\* Lock takes what is not held and is later than what is held.
LEMMA LockRuns ==
  ASSUME NEW t, NEW L \in SUBSET Tokens, "ended" \notin L, NEW m \in Locks \ L,
         Below(L, m), m = "gil" => python
  PROVE  Lock(m) \in Seq(Steps) /\ Runs(t, L, Lock(m), L \cup {m})
<1> DEFINE s == Step("lock", m)
<1>1. s \in Steps /\ s.do = "lock" /\ s.on = m
  BY StepIn DEF Dos
<1>2. Lock(m) = <<s>>
  BY DEF Lock
<1> HIDE DEF s
<1>3. Allows(t, L, s) /\ After(L, s) = L \cup {m}
  BY <1>1 DEF Allows, After
<1> DEFINE K == L \cup {m}
<1> HIDE DEF K
<1>4. Allows(t, L, s) /\ After(L, s) = K /\ s \in Steps
  BY <1>1, <1>3 DEF K
<1>5. Runs(t, L, <<s>>, K) /\ <<s>> \in Seq(Steps)
  BY <1>4, RunsStep
<1> QED
  BY <1>2, <1>5 DEF K

\* Free gives back what Lock took.
LEMMA FreeRuns ==
  ASSUME NEW t, NEW L \in SUBSET Tokens, "ended" \notin L, NEW m \in Locks \ L,
         m = "gil" => "new" \notin L, m = "network" => "telling" \notin L
  PROVE  Free(m) \in Seq(Steps) /\ Runs(t, L \cup {m}, Free(m), L)
<1> DEFINE s == Step("free", m)
           K == L \cup {m}
<1>1. s \in Steps /\ s.do = "free" /\ s.on = m
  BY StepIn DEF Dos
<1>2. Free(m) = <<s>>
  BY DEF Free
<1>3. K \in SUBSET Tokens /\ "ended" \notin K
  BY DEF Tokens, Locks
<1> HIDE DEF s
<1>4. Allows(t, K, s) /\ After(K, s) = L
  BY <1>1, <1>3 DEF Allows, After, Locks
<1> HIDE DEF K
<1>5. Runs(t, K, <<s>>, L)
  BY <1>1, <1>3, <1>4, RunsOne
<1> QED
  BY <1>1, <1>2, <1>5 DEF K

\* Pass leaves what is held as it is.
LEMMA PassRuns ==
  ASSUME NEW t, NEW L \in SUBSET Tokens, "ended" \notin L, NEW m \in Locks \ {"gil"},
         \/ Below(L, m)
         \/ m = "zyre" /\ "log" \in L
         \/ m = "model" /\ "model" \in L /\ t = Net
  PROVE  Pass(m) \in Seq(Steps) /\ Runs(t, L, Pass(m), L)
<1> DEFINE s == Step("pass", m)
<1>1. s \in Steps /\ s.do = "pass" /\ s.on = m
  BY StepIn DEF Dos
<1>2. Pass(m) = <<s>>
  BY DEF Pass
<1> HIDE DEF s
<1>3. Allows(t, L, s) /\ After(L, s) = L
  BY <1>1 DEF Allows, After
<1> QED
  BY <1>1, <1>2, <1>3, RunsOne

\* A section, and what is done in it.
LEMMA UnderRuns ==
  ASSUME NEW t, NEW L \in SUBSET Tokens, "ended" \notin L, NEW m \in Locks \ L, Below(L, m),
         m = "gil" => python /\ "new" \notin L, m = "network" => "telling" \notin L,
         NEW p \in Seq(Steps), Runs(t, L \cup {m}, p, L \cup {m})
  PROVE  Under(m, p) \in Seq(Steps) /\ Runs(t, L, Under(m, p), L)
<1> DEFINE K == L \cup {m}
           q == Lock(m) \o p
<1>1. Lock(m) \in Seq(Steps) /\ Runs(t, L, Lock(m), K)
  BY LockRuns
<1>2. Free(m) \in Seq(Steps) /\ Runs(t, K, Free(m), L)
  BY FreeRuns
<1>3. Runs(t, K, p, K)
  OBVIOUS
<1> HIDE DEF K
<1>4. q \in Seq(Steps) /\ Runs(t, L, q, K)
  BY <1>1, <1>3, RunsBoth
<1>5. Under(m, p) = q \o Free(m)
  BY DEF Under
<1> HIDE DEF q
<1>6. q \o Free(m) \in Seq(Steps) /\ Runs(t, L, q \o Free(m), L)
  BY <1>2, <1>4, RunsBoth
<1> QED
  BY <1>5, <1>6

\* Logs is allowed without the log lock.
LEMMA LogsRuns ==
  ASSUME NEW t, NEW L \in SUBSET Tokens, "ended" \notin L, "log" \notin L
  PROVE  Logs \in Seq(Steps) /\ Runs(t, L, Logs, L)
<1> DEFINE s == Step("log", None)
<1>1. s \in Steps /\ s.do = "log"
  BY StepIn DEF Dos
<1>2. Logs = <<s>>
  BY DEF Logs, One
<1> HIDE DEF s
<1>3. Allows(t, L, s) /\ After(L, s) = L
  BY <1>1 DEF Allows, After
<1> QED
  BY <1>1, <1>2, <1>3, RunsOne

\* Callbacks are called without a lock of the library, or in the forced stop.
LEMMA TellRuns ==
  ASSUME NEW t, NEW L \in SUBSET Tokens, "ended" \notin L, "new" \notin L,
         Outside(L) \/ ("telling" \in L /\ L \cap Locks = {"network"})
  PROVE  Tell \in Seq(Steps) /\ Runs(t, L, Tell, L)
<1> DEFINE s == Step("callback", None)
<1>1. s \in Steps /\ s.do = "callback"
  BY StepIn DEF Dos
<1>2. Tell = <<s>>
  BY DEF Tell, One
<1> HIDE DEF s
<1>3. Allows(t, L, s) /\ After(L, s) = L
  BY <1>1 DEF Allows, After
<1> QED
  BY <1>1, <1>2, <1>3, RunsOne

\* What a thread holds before and after a function: nothing but the GIL.
Calm == SUBSET {"gil", "off"}
Fine(t, p) ==
  /\ p \in Seq(Steps)
  /\ \A L \in Calm : (python /\ t \in Users => "gil" \in L) =>
       \E M \in Calm : ("gil" \in M <=> "gil" \in L) /\ Runs(t, L, p, M)

\* What is true of a thread between two sections.
LEMMA CalmFacts ==
  ASSUME NEW L \in Calm
  PROVE  /\ L \in SUBSET Tokens /\ Outside(L) /\ "new" \notin L /\ "ended" \notin L
         /\ "telling" \notin L /\ L \cap Locks \subseteq {"gil"} /\ "log" \notin L
         /\ \A m \in {"model", "network", "zyre", "log"} : m \notin L /\ Below(L, m)
         /\ \A m \in {"network", "zyre", "log"} : Below(L \cup {"model"}, m)
         /\ L \cup {"model"} \in SUBSET Tokens /\ "ended" \notin L \cup {"model"}
BY RankIs DEF Calm, Tokens, Locks, Outside, Below

\* Nothing to do.
LEMMA FineNothing == \A t : Fine(t, <<>>)
<1>1. \A t : \A L \in Calm : Runs(t, L, <<>>, L)
  BY RunsNothing, CalmFacts
<1> QED
  BY <1>1 DEF Fine

\* One piece after another.
LEMMA FineBoth ==
  ASSUME NEW t, NEW p, NEW q, Fine(t, p), Fine(t, q)
  PROVE  Fine(t, p \o q)
<1>1. p \in Seq(Steps) /\ q \in Seq(Steps) /\ p \o q \in Seq(Steps)
  BY DEF Fine
<1>2. ASSUME NEW L \in Calm, python /\ t \in Users => "gil" \in L
      PROVE  \E M \in Calm : ("gil" \in M <=> "gil" \in L) /\ Runs(t, L, p \o q, M)
  <2>1. PICK K \in Calm : ("gil" \in K <=> "gil" \in L) /\ Runs(t, L, p, K)
    BY <1>2 DEF Fine
  <2>2. PICK M \in Calm : ("gil" \in M <=> "gil" \in K) /\ Runs(t, K, q, M)
    BY <1>2, <2>1 DEF Fine
  <2>3. Runs(t, L, p \o q, M)
    BY <1>1, <2>1, <2>2, RunsBoth
  <2> QED
    BY <2>1, <2>2, <2>3
<1> QED
  BY <1>1, <1>2 DEF Fine

\* What leaves exactly what it found.
LEMMA FineSame ==
  ASSUME NEW t, NEW p \in Seq(Steps), \A L \in Calm : Runs(t, L, p, L)
  PROVE  Fine(t, p)
BY DEF Fine

\* The pieces that the programs are made of.
LEMMA FinePieces ==
  ASSUME NEW t
  PROVE  /\ Fine(t, Section) /\ Fine(t, Quiet) /\ Fine(t, Announced) /\ Fine(t, Callbacks)
         /\ Fine(t, Logs) /\ Fine(t, Send) /\ Fine(t, Tell) /\ Fine(t, IsStarted)
         /\ Fine(t, Forgets)
<1>1. Section \in Seq(Steps) /\ \A L \in Calm : Runs(t, L, Section, L)
  <2>1. ASSUME NEW L \in Calm
        PROVE  Section \in Seq(Steps) /\ Runs(t, L, Section, L)
    <3>1. Logs \in Seq(Steps) /\ Runs(t, L \cup {"model"}, Logs, L \cup {"model"})
      BY CalmFacts, LogsRuns
    <3> QED
      BY <3>1, CalmFacts, UnderRuns DEF Section, Locks
  <2> QED
    BY <2>1 DEF Calm
<1>2. Quiet \in Seq(Steps) /\ \A L \in Calm : Runs(t, L, Quiet, L)
  <2>1. ASSUME NEW L \in Calm
        PROVE  Quiet \in Seq(Steps) /\ Runs(t, L, Quiet, L)
    BY CalmFacts, PassRuns DEF Quiet, Locks
  <2> QED
    BY <2>1 DEF Calm
<1>3. Send \in Seq(Steps) /\ \A L \in Calm : Runs(t, L, Send, L)
  <2>1. ASSUME NEW L \in Calm
        PROVE  Send \in Seq(Steps) /\ Runs(t, L, Send, L)
    BY CalmFacts, PassRuns DEF Send, Locks
  <2> QED
    BY <2>1 DEF Calm
<1>4. Announced \in Seq(Steps) /\ \A L \in Calm : Runs(t, L, Announced, L)
  <2>1. ASSUME NEW L \in Calm
        PROVE  Announced \in Seq(Steps) /\ Runs(t, L, Announced, L)
    <3>1. Send \in Seq(Steps) /\ Runs(t, L \cup {"model"}, Send, L \cup {"model"})
      BY CalmFacts, PassRuns DEF Send, Locks
    <3> QED
      BY <3>1, CalmFacts, UnderRuns DEF Announced, Locks
  <2> QED
    BY <2>1 DEF Calm
<1>5. IsStarted \in Seq(Steps) /\ \A L \in Calm : Runs(t, L, IsStarted, L)
  <2>1. ASSUME NEW L \in Calm
        PROVE  IsStarted \in Seq(Steps) /\ Runs(t, L, IsStarted, L)
    <3>1. Pass("network") \in Seq(Steps) /\ Runs(t, L \cup {"model"}, Pass("network"), L \cup {"model"})
      BY CalmFacts, PassRuns DEF Locks
    <3> QED
      BY <3>1, CalmFacts, UnderRuns DEF IsStarted, Locks
  <2> QED
    BY <2>1 DEF Calm
<1>6. Tell \in Seq(Steps) /\ \A L \in Calm : Runs(t, L, Tell, L)
  <2>1. ASSUME NEW L \in Calm
        PROVE  Tell \in Seq(Steps) /\ Runs(t, L, Tell, L)
    BY CalmFacts, TellRuns
  <2> QED
    BY <2>1 DEF Calm
<1>7. Logs \in Seq(Steps) /\ \A L \in Calm : Runs(t, L, Logs, L)
  <2>1. ASSUME NEW L \in Calm
        PROVE  Logs \in Seq(Steps) /\ Runs(t, L, Logs, L)
    BY CalmFacts, LogsRuns
  <2> QED
    BY <2>1 DEF Calm
<1>8. Forgets \in Seq(Steps) /\ \A L \in Calm : Runs(t, L, Forgets, L)
  <2>1. ASSUME NEW L \in Calm
        PROVE  Forgets \in Seq(Steps) /\ Runs(t, L, Forgets, L)
    <3> DEFINE K == L \cup {"model"}
               s == Step("leak", None)
    <3>1. Lock("model") \in Seq(Steps) /\ Runs(t, L, Lock("model"), K)
      BY CalmFacts, LockRuns DEF Locks
    <3>2. Logs \in Seq(Steps) /\ Runs(t, K, Logs, K)
      BY CalmFacts, LogsRuns
    <3>3. s \in Steps /\ s.do = "leak" /\ One("leak") = <<s>>
      BY StepIn DEF Dos, One
    <3> HIDE DEF s
    <3>4. K \in SUBSET Tokens /\ "ended" \notin K /\ "model" \in K /\ K \ {"model"} = L
      <4>1. "model" \notin L
        BY CalmFacts
      <4>2. K \ {"model"} = L /\ "model" \in K
        BY <4>1
      <4>3. K \in SUBSET Tokens /\ "ended" \notin K
        BY CalmFacts
      <4> QED
        BY <4>2, <4>3
    <3>5. Allows(t, K, s) /\ After(K, s) = L
      <4> HIDE DEF K
      <4> QED
        BY <3>3, <3>4 DEF Allows, After
    <3>6. Runs(t, K, <<s>>, L) /\ <<s>> \in Seq(Steps)
      BY <3>3, <3>4, <3>5, RunsOne
    <3> HIDE DEF K
    <3> DEFINE q == Lock("model") \o Logs
    <3>7. q \in Seq(Steps) /\ Runs(t, L, q, K)
      BY <3>1, <3>2, RunsBoth
    <3>8. Forgets = q \o <<s>>
      BY <3>3 DEF Forgets
    <3> DEFINE r == <<s>>
    <3>9. r \in Seq(Steps) /\ Runs(t, K, r, L)
      BY <3>6
    <3> HIDE DEF q, r
    <3>10. q \o r \in Seq(Steps) /\ Runs(t, L, q \o r, L)
      BY <3>7, <3>9, RunsBoth
    <3> QED
      BY <3>8, <3>10 DEF r
  <2> QED
    BY <2>1 DEF Calm
<1>9. Fine(t, Quiet) /\ Fine(t, Tell)
  BY <1>2, <1>6, FineSame
<1>10. Fine(t, Callbacks)
  BY <1>9, FineBoth DEF Callbacks
<1> QED
  BY <1>1, <1>2, <1>3, <1>4, <1>5, <1>6, <1>7, <1>8, <1>9, <1>10, FineSame

AllFine(t, X) == \A p \in X : Fine(t, p)

\* Sets of programs, piece by piece.
LEMMA FineUnion ==
  ASSUME NEW t, NEW X, NEW Y
  PROVE  AllFine(t, X \cup Y) <=> AllFine(t, X) /\ AllFine(t, Y)
BY DEF AllFine

\* The functions that return at once when the agent was destroyed.
LEMMA FineChecked ==
  ASSUME NEW t, NEW X, AllFine(t, X)
  PROVE  AllFine(t, Checked(X))
BY FineNothing DEF AllFine, Checked

\* The pieces one after the other.
LEMMA FineCombinations ==
  ASSUME NEW t
  PROVE  /\ Fine(t, Quiet \o Callbacks) /\ Fine(t, Quiet \o Announced \o Callbacks)
         /\ Fine(t, Announced \o Callbacks) /\ Fine(t, Quiet \o Announced)
         /\ Fine(t, Quiet \o Quiet) /\ Fine(t, Quiet \o Announced \o Quiet)
         /\ Fine(t, Quiet \o Announced)
BY FinePieces, FineBoth

\* The sets of programs that the functions share.
LEMMA FineAnyTwo ==
  ASSUME NEW t
  PROVE  /\ AllFine(t, {Section}) /\ AllFine(t, {Section, Announced}) /\ AllFine(t, {Quiet})
         /\ AllFine(t, {Section, Quiet \o Callbacks}) /\ AllFine(t, {Quiet \o Quiet})
         /\ AllFine(t, {Section, Announced \o Callbacks}) /\ AllFine(t, {Section, <<>>})
         /\ AllFine(t, {Announced, Section}) /\ AllFine(t, {Section, Quiet \o Announced})
         /\ AllFine(t, {Announced, Section, <<>>}) /\ AllFine(t, {Section, Forgets})
         /\ AllFine(t, {Section, Announced, Announced \o Callbacks}) /\ AllFine(t, {<<>>})
         /\ AllFine(t, {Section, Quiet \o Callbacks, Quiet \o Announced \o Callbacks})
         /\ AllFine(t, {Section, Quiet \o Quiet}) /\ AllFine(t, {Logs}) /\ AllFine(t, {Send})
         /\ AllFine(t, {<<>>, Section, Quiet \o Announced \o Quiet}) /\ AllFine(t, {IsStarted})
         /\ AllFine(t, {Quiet \o Callbacks, Tell}) /\ AllFine(t, {Tell})
BY FinePieces, FineCombinations, FineNothing DEF AllFine

\* The functions on an agent.
LEMMA FineFunctions ==
  ASSUME NEW t
  PROVE  /\ AllFine(t, InputReads) /\ AllFine(t, OutputReads) /\ AllFine(t, InputWrites)
         /\ AllFine(t, OutputWrites) /\ AllFine(t, AttributeWrites) /\ AllFine(t, Annotations)
         /\ AllFine(t, TypeQueries) /\ AllFine(t, ListQueries) /\ AllFine(t, Observers)
         /\ AllFine(t, OutputMutes) /\ AllFine(t, DefinitionReads) /\ AllFine(t, DefinitionWrites)
         /\ AllFine(t, IoEdits) /\ AllFine(t, DefinitionFiles) /\ AllFine(t, MappingLoads)
         /\ AllFine(t, MappingEdits) /\ AllFine(t, MappingFiles) /\ AllFine(t, SplitEdits)
BY FineAnyTwo, FineChecked
   DEF InputReads, OutputReads, InputWrites, OutputWrites, AttributeWrites, Annotations, TypeQueries,
       ListQueries, Observers, OutputMutes, DefinitionReads, DefinitionWrites, IoEdits,
       DefinitionFiles, MappingLoads, MappingEdits, MappingFiles, SplitEdits

\* Services, channels and settings (igs_service.c, igs_channels.c, igs_admin.c).
LEMMA FineServices ==
  ASSUME NEW t
  PROVE  /\ AllFine(t, ServiceArguments) /\ AllFine(t, ServiceEdits) /\ AllFine(t, ServiceTexts)
         /\ AllFine(t, ReplyEdits) /\ AllFine(t, ReplyTexts) /\ AllFine(t, ServiceCalls)
         /\ AllFine(t, ServiceQueries) /\ AllFine(t, ReplyQueries) /\ AllFine(t, ChannelShouts)
         /\ AllFine(t, ChannelWhispers) /\ AllFine(t, Headers) /\ AllFine(t, BrokerEdits)
         /\ AllFine(t, AgentNames) /\ AllFine(t, Freezes) /\ AllFine(t, States) /\ AllFine(t, Mutes)
         /\ AllFine(t, CommandLines) /\ AllFine(t, DeviceLists) /\ AllFine(t, Security)
BY FineAnyTwo, FineChecked
   DEF ServiceArguments, ServiceEdits, ServiceTexts, ReplyEdits, ReplyTexts, ServiceCalls,
       ServiceQueries, ReplyQueries, ChannelShouts, ChannelWhispers, Headers, BrokerEdits, AgentNames,
       Freezes, States, Mutes, CommandLines, DeviceLists, Security

\* Elections, network settings and the life of an agent (igs_network.c, igsagent.c).
LEMMA FineSettings ==
  ASSUME NEW t
  PROVE  /\ AllFine(t, Elections) /\ AllFine(t, NetSettings) /\ AllFine(t, SocketSettings)
         /\ AllFine(t, Performance) /\ AllFine(t, Activations) /\ AllFine(t, AgentQueries)
         /\ AllFine(t, AgentParameters) /\ AllFine(t, LogSettings) /\ AllFine(t, MonitorCalls)
<1>1. AllFine(t, AgentParameters)
  BY FineFunctions, FineUnion, FineChecked DEF AgentParameters
<1> QED
  BY <1>1, FineAnyTwo, FineChecked
     DEF Elections, NetSettings, SocketSettings, Performance, Activations, AgentQueries, LogSettings,
         MonitorCalls

\* The test of the global agent (core_init_agent).
LEMMA FineInit ==
  ASSUME NEW t \in Users
  PROVE  Fine(t, One("init"))
<1> DEFINE s == Step("init", None)
<1>1. s \in Steps /\ s.do = "init" /\ One("init") = <<s>>
  BY StepIn DEF Dos, One
<1> HIDE DEF s
<1>2. ASSUME NEW L \in Calm, python => "gil" \in L
      PROVE  Runs(t, L, <<s>>, L)
  <2>1. Outside(L) /\ "ended" \notin L /\ "telling" \notin L /\ "new" \notin L /\ L \in SUBSET Tokens
    BY CalmFacts
  <2>2. Allows(t, L, s)
    BY <1>1, <1>2, <2>1 DEF Allows
  <2>3. After(L, s) = L
    BY <1>1 DEF After
  <2> QED
    BY <1>1, <2>1, <2>2, <2>3, RunsStep
<1> DEFINE p == <<s>>
<1>3. p \in Seq(Steps)
  BY <1>1
<1> HIDE DEF p
<1>4. \A L \in Calm : (python => "gil" \in L) => Runs(t, L, p, L)
  BY <1>2 DEF p
<1>5. Fine(t, p)
  BY <1>3, <1>4 DEF Fine
<1> QED
  BY <1>1, <1>5 DEF p

\* A function of igs_core.c tests the global agent, then does as its agent function.
LEMMA FineGlobal ==
  ASSUME NEW t \in Users, NEW X, AllFine(t, X)
  PROVE  AllFine(t, Global(X))
<1>1. Fine(t, One("init"))
  BY FineInit
<1>2. ASSUME NEW p \in X
      PROVE  Fine(t, One("init") \o p)
  BY <1>1, FineBoth DEF AllFine
<1> QED
  BY <1>2 DEF AllFine, Global

\* The same functions for the global agent (igs_core.c).
LEMMA FineCore ==
  ASSUME NEW t \in Users
  PROVE  /\ AllFine(t, CoreAgent) /\ AllFine(t, CoreObservers) /\ AllFine(t, CoreReads)
         /\ AllFine(t, CoreWrites) /\ AllFine(t, CoreAnnotations) /\ AllFine(t, CoreIoObservers)
         /\ AllFine(t, CoreQueries) /\ AllFine(t, CoreDefinition) /\ AllFine(t, CoreIoEdits)
         /\ AllFine(t, CoreMapping) /\ AllFine(t, CoreCalls) /\ AllFine(t, CoreServices)
         /\ AllFine(t, CoreServiceEdits) /\ AllFine(t, CoreTime) /\ AllFine(t, CoreParameters)
<1>1. AllFine(t, AgentNames \cup States \cup Mutes)
  BY FineServices DEF AllFine
<1>2. AllFine(t, InputReads \cup OutputReads) /\ AllFine(t, InputWrites \cup OutputWrites \cup AttributeWrites)
  BY FineFunctions DEF AllFine
<1>3. AllFine(t, OutputMutes \cup TypeQueries \cup ListQueries)
  BY FineFunctions DEF AllFine
<1>4. /\ AllFine(t, DefinitionReads \cup DefinitionWrites \cup {Quiet \o Quiet})
      /\ AllFine(t, IoEdits \cup {Quiet \o Quiet})
  BY FineFunctions, FineAnyTwo DEF AllFine
<1>5. AllFine(t, MappingLoads \cup MappingEdits \cup MappingFiles \cup SplitEdits)
  BY FineFunctions DEF AllFine
<1>6. AllFine(t, {Logs} \cup Elections \cup ServiceCalls)
  BY FineServices, FineSettings, FineAnyTwo DEF AllFine
<1>7. AllFine(t, ServiceEdits \cup ReplyEdits \cup ServiceQueries)
  BY FineServices DEF AllFine
<1> QED
  BY <1>1, <1>2, <1>3, <1>4, <1>5, <1>6, <1>7, FineGlobal, FineAnyTwo, FineFunctions, FineSettings
     DEF CoreAgent, CoreObservers, CoreReads, CoreWrites, CoreAnnotations, CoreIoObservers, CoreQueries,
         CoreDefinition, CoreIoEdits, CoreMapping, CoreCalls, CoreServices, CoreServiceEdits, CoreTime,
         CoreParameters

\* The functions of the program that have no agent.
LEMMA FineNetwork ==
  ASSUME NEW t \in Users
  PROVE  AllFine(t, CoreNetwork)
<1> DEFINE first == BrokerEdits \cup Freezes \cup CommandLines \cup DeviceLists \cup Security
           second == first \cup NetSettings \cup SocketSettings \cup ChannelShouts
           third == second \cup ChannelWhispers \cup Headers \cup Performance
           fourth == third \cup LogSettings \cup MonitorCalls \cup {IsStarted}
<1>1. AllFine(t, first)
  BY FineServices DEF AllFine
<1> HIDE DEF first
<1>2. AllFine(t, second)
  BY <1>1, FineServices, FineSettings DEF AllFine
<1> HIDE DEF second
<1>3. AllFine(t, third)
  BY <1>2, FineServices, FineSettings DEF AllFine
<1> HIDE DEF third
<1>4. AllFine(t, fourth)
  <2>1. AllFine(t, LogSettings) /\ AllFine(t, MonitorCalls) /\ AllFine(t, {IsStarted})
    BY FineSettings, FineAnyTwo
  <2> QED
    BY <1>3, <2>1 DEF AllFine
<1>5. CoreNetwork = Global(fourth)
  BY DEF CoreNetwork, fourth, third, second, first
<1> HIDE DEF fourth
<1> QED
  BY <1>4, <1>5, FineGlobal

\* A step that changes what is held, as a program.
LEMMA OneRuns ==
  ASSUME NEW t, NEW L \in SUBSET Tokens, NEW K, NEW do \in Dos,
         Allows(t, L, Step(do, None)), After(L, Step(do, None)) = K
  PROVE  One(do) \in Seq(Steps) /\ Runs(t, L, One(do), K)
<1> DEFINE s == Step(do, None)
<1>1. s \in Steps /\ One(do) = <<s>> /\ Allows(t, L, s) /\ After(L, s) = K
  BY StepIn DEF One
<1> HIDE DEF s
<1> QED
  BY <1>1, RunsStep

\* What the main thread calls (igs_start_with_device, igs_stop).
LEMMA StopRuns ==
  ASSUME NEW L \in Calm
  PROVE  Stop \in Seq(Steps) /\ Runs(Main, L, Stop, L \cup {"off"})
<1> DEFINE K == L \cup {"off"}
<1>1. K \in Calm /\ K \in SUBSET Tokens
  BY DEF Calm, Tokens, Locks
<1>2. One("stop") \in Seq(Steps) /\ Runs(Main, L, One("stop"), K)
  <2>1. Step("stop", None) \in Steps /\ Step("stop", None).do = "stop"
    BY StepIn DEF Dos
  <2>2. After(L, Step("stop", None)) = K
    BY <2>1 DEF After
  <2>3. Outside(L) /\ "ended" \notin L /\ L \in SUBSET Tokens
    BY CalmFacts
  <2>4. Allows(Main, L, Step("stop", None))
    BY <2>1, <2>3 DEF Allows
  <2> QED
    BY <2>2, <2>3, <2>4, OneRuns DEF Dos
<1> HIDE DEF K
<1>3. Quiet \in Seq(Steps) /\ Runs(Main, K, Quiet, K)
  BY <1>1, CalmFacts, PassRuns DEF Quiet, Locks
<1>4. Stop \in Seq(Steps) /\ Runs(Main, L, Stop, K)
  BY <1>2, <1>3, RunsBoth DEF Stop
<1> QED
  BY <1>4 DEF K

\* s_init_loop: the network thread is begun and its signal awaited.
LEMMA StartLoopRuns ==
  ASSUME NEW L \in Calm, "off" \in L
  PROVE  /\ StartLoop \in Seq(Steps)
         /\ Runs(Main, L \cup {"model"}, StartLoop, (L \ {"off"}) \cup {"model"})
<1> DEFINE K == L \cup {"model"}
           N == K \cup {"network"}
           M == (L \ {"off"}) \cup {"model"}
           p == Logs \o Under("zyre", Logs)
           q == Under("network", p \o Send)
           r == One("spawn")
           w == One("await")
<1>1. /\ K \in SUBSET Tokens /\ "ended" \notin K /\ "network" \notin K /\ "telling" \notin K
      /\ "off" \in K /\ K \ {"off"} = M
  BY DEF Calm, Tokens, Locks
<1>2. Below(K, "network")
  BY CalmFacts
<1>3. /\ N \in SUBSET Tokens /\ "ended" \notin N /\ "log" \notin N /\ "zyre" \notin N
      /\ Below(N, "zyre")
  BY RankIs DEF Calm, Tokens, Locks, Below
<1>4. N \cup {"zyre"} \in SUBSET Tokens /\ "ended" \notin N \cup {"zyre"} /\ "log" \notin N \cup {"zyre"}
  BY <1>3 DEF Tokens, Locks
<1>5. M \in SUBSET Tokens /\ "ended" \notin M /\ M \cap DOMAIN Rank \subseteq {"gil", "model"}
  BY RankIs DEF Calm, Tokens, Locks
<1> HIDE DEF M
<1>6. w \in Seq(Steps) /\ Runs(Main, M, w, M)
  <2>1. Step("await", None).do = "await"
    BY StepIn DEF Dos
  <2>2. Allows(Main, M, Step("await", None)) /\ After(M, Step("await", None)) = M
    BY <1>5, <2>1 DEF Allows, After
  <2> QED
    BY <1>5, <2>2, OneRuns DEF Dos
<1>7. r \in Seq(Steps) /\ Runs(Main, K, r, M)
  <2> HIDE DEF K
  <2>1. Step("spawn", None).do = "spawn"
    BY StepIn DEF Dos
  <2>2. Allows(Main, K, Step("spawn", None)) /\ After(K, Step("spawn", None)) = M
    BY <1>1, <2>1 DEF Allows, After
  <2> QED
    BY <1>1, <2>2, OneRuns DEF Dos
<1>8. q \in Seq(Steps) /\ Runs(Main, K, q, K)
  <2> HIDE DEF N
  <2>1. Logs \in Seq(Steps) /\ Runs(Main, N, Logs, N)
    BY <1>3, LogsRuns
  <2>2. Runs(Main, N \cup {"zyre"}, Logs, N \cup {"zyre"})
    BY <1>4, LogsRuns
  <2>3. Under("zyre", Logs) \in Seq(Steps) /\ Runs(Main, N, Under("zyre", Logs), N)
    BY <1>3, <2>1, <2>2, UnderRuns DEF Locks
  <2>4. Send \in Seq(Steps) /\ Runs(Main, N, Send, N)
    BY <1>3, PassRuns DEF Send, Locks
  <2>5. p \in Seq(Steps) /\ Runs(Main, N, p, N)
    BY <2>1, <2>3, RunsBoth
  <2> HIDE DEF p
  <2>6. p \o Send \in Seq(Steps) /\ Runs(Main, N, p \o Send, N)
    BY <2>4, <2>5, RunsBoth
  <2> DEFINE u == p \o Send
  <2>7. u \in Seq(Steps) /\ Runs(Main, K \cup {"network"}, u, K \cup {"network"})
    BY <2>6 DEF N
  <2> HIDE DEF K, u
  <2>8. Under("network", u) \in Seq(Steps) /\ Runs(Main, K, Under("network", u), K)
    BY <1>1, <1>2, <2>7, UnderRuns DEF Locks
  <2> QED
    BY <2>8 DEF u
<1>9. StartLoop = (q \o r) \o w
  BY DEF StartLoop
<1> HIDE DEF q, r, w, K
<1>10. q \o r \in Seq(Steps) /\ Runs(Main, K, q \o r, M)
  BY <1>7, <1>8, RunsBoth
<1> DEFINE v == q \o r
<1>11. v \in Seq(Steps) /\ Runs(Main, K, v, M)
  BY <1>10
<1> HIDE DEF v
<1>12. v \o w \in Seq(Steps) /\ Runs(Main, K, v \o w, M)
  BY <1>6, <1>11, RunsBoth
<1> QED
  BY <1>9, <1>12 DEF v, K, M

\* A start stops first, and leaves a network thread.
LEMMA StartRuns ==
  ASSUME NEW L \in Calm
  PROVE  Start \in Seq(Steps) /\ Runs(Main, L, Start, L \ {"off"})
<1> DEFINE K == L \cup {"off"}
           A == K \cup {"model"}
           B == (K \ {"off"}) \cup {"model"}
           M == L \ {"off"}
           p == Logs \o StartLoop
           u == Lock("model") \o p
<1>1. K \in Calm /\ "off" \in K
  BY DEF Calm
<1>2. Stop \in Seq(Steps) /\ Runs(Main, L, Stop, K)
  BY StopRuns
<1>3. B = M \cup {"model"} /\ M \in Calm
  BY DEF Calm
<1> HIDE DEF K, M
<1>4. Lock("model") \in Seq(Steps) /\ Runs(Main, K, Lock("model"), A)
  BY <1>1, CalmFacts, LockRuns DEF Locks
<1>5. Logs \in Seq(Steps) /\ Runs(Main, A, Logs, A)
  BY <1>1, CalmFacts, LogsRuns
<1>6. StartLoop \in Seq(Steps) /\ Runs(Main, A, StartLoop, B)
  BY <1>1, StartLoopRuns
<1>7. Free("model") \in Seq(Steps) /\ Runs(Main, B, Free("model"), M)
  BY <1>3, CalmFacts, FreeRuns DEF Locks
<1> HIDE DEF A, B
<1>8. p \in Seq(Steps) /\ Runs(Main, A, p, B)
  BY <1>5, <1>6, RunsBoth
<1> HIDE DEF p
<1>9. u \in Seq(Steps) /\ Runs(Main, K, u, B)
  BY <1>4, <1>8, RunsBoth
<1> HIDE DEF u
<1>10. u \o Free("model") \in Seq(Steps) /\ Runs(Main, K, u \o Free("model"), M)
  BY <1>7, <1>9, RunsBoth
<1> DEFINE v == u \o Free("model")
<1>11. Start = Stop \o v
  BY DEF Start, Under, v, u, p
<1>12. v \in Seq(Steps) /\ Runs(Main, K, v, M)
  BY <1>10
<1> HIDE DEF v
<1>13. Stop \o v \in Seq(Steps) /\ Runs(Main, L, Stop \o v, M)
  BY <1>2, <1>12, RunsBoth
<1> QED
  BY <1>11, <1>13 DEF M

\* igs_start_with_device and igs_stop, for the thread that may call them.
LEMMA FineMain == AllFine(Main, MainPrograms)
<1>1. Fine(Main, Start)
  <2>1. ASSUME NEW L \in Calm
        PROVE  \E M \in Calm : ("gil" \in M <=> "gil" \in L) /\ Runs(Main, L, Start, M)
    <3>1. L \ {"off"} \in Calm /\ ("gil" \in L \ {"off"} <=> "gil" \in L)
      BY DEF Calm
    <3> QED
      BY <3>1, StartRuns
  <2>2. {} \in Calm
    BY DEF Calm
  <2> QED
    BY <2>1, <2>2, StartRuns DEF Fine
<1>2. Fine(Main, Stop)
  <2>1. ASSUME NEW L \in Calm
        PROVE  \E M \in Calm : ("gil" \in M <=> "gil" \in L) /\ Runs(Main, L, Stop, M)
    <3>1. L \cup {"off"} \in Calm /\ ("gil" \in L \cup {"off"} <=> "gil" \in L)
      BY DEF Calm
    <3> QED
      BY <3>1, StopRuns
  <2>2. {} \in Calm
    BY DEF Calm
  <2> QED
    BY <2>1, <2>2, StopRuns DEF Fine
<1>3. AllFine(Main, {Start, Stop})
  BY <1>1, <1>2 DEF AllFine
<1> QED
  BY <1>3, FineGlobal, ApiAssumption DEF MainPrograms

\* The functions of an application in C.
LEMMA FinePrograms ==
  ASSUME NEW t \in Users
  PROVE  /\ AllFine(t, CorePrograms) /\ AllFine(t, AgentPrograms)
         /\ AllFine(t, Programs(t))
<1>1. AllFine(t, CorePrograms)
  <2> DEFINE first == CoreAgent \cup CoreObservers \cup CoreReads \cup CoreWrites \cup CoreAnnotations
             second == first \cup CoreIoObservers \cup CoreQueries \cup CoreDefinition \cup CoreIoEdits
             third == second \cup CoreMapping \cup CoreCalls \cup CoreServices
             fourth == third \cup CoreServiceEdits \cup CoreTime \cup CoreParameters
             fifth == fourth \cup CoreNetwork
  <2>1. AllFine(t, first)
    BY FineCore DEF AllFine
  <2> HIDE DEF first
  <2>2. AllFine(t, second)
    BY <2>1, FineCore DEF AllFine
  <2> HIDE DEF second
  <2>3. AllFine(t, third)
    BY <2>2, FineCore DEF AllFine
  <2> HIDE DEF third
  <2>4. AllFine(t, fourth)
    BY <2>3, FineCore DEF AllFine
  <2> HIDE DEF fourth
  <2>5. AllFine(t, fifth)
    BY <2>4, FineNetwork DEF AllFine
  <2>6. CorePrograms = fifth
    BY DEF CorePrograms, fifth, fourth, third, second, first
  <2> HIDE DEF fifth
  <2> QED
    BY <2>5, <2>6
<1>2. AllFine(t, AgentPrograms)
  <2> DEFINE first == Activations \cup AgentQueries \cup DefinitionFiles \cup ServiceArguments
             second == first \cup ServiceTexts \cup ReplyTexts \cup ReplyQueries \cup Observers
  <2>1. AllFine(t, first)
    BY FineSettings, FineFunctions, FineServices DEF AllFine
  <2> HIDE DEF first
  <2>2. AllFine(t, second)
    BY <2>1, FineServices, FineFunctions DEF AllFine
  <2>3. AgentPrograms = second
    BY DEF AgentPrograms, second, first
  <2> HIDE DEF second
  <2> QED
    BY <2>2, <2>3
<1>3. AllFine(t, Programs(t))
  <2>1. CASE t = Main
    <3>1. Programs(t) = (CorePrograms \cup AgentPrograms) \cup MainPrograms
      BY <2>1 DEF Programs
    <3> QED
      BY <1>1, <1>2, <2>1, <3>1, FineMain DEF AllFine
  <2>2. CASE t # Main
    <3>1. Programs(t) = CorePrograms \cup AgentPrograms
      BY <2>2 DEF Programs
    <3> QED
      BY <1>1, <1>2, <3>1 DEF AllFine
  <2> QED
    BY <2>1, <2>2
<1> QED
  BY <1>1, <1>2, <1>3

\* A call is begun with no lock and leaves none.
Begins(t, p) ==
  /\ p \in Seq(Steps)
  /\ \A L \in SUBSET {"off"} :
       ("off" \in L => t = Main) => \E M \in SUBSET {"off", "ended"} : Runs(t, L, p, M)
AllStart(t, X) == \A p \in X : Begins(t, p)

\* A call from C, or a turn of the network thread.
LEMMA FineStarts ==
  ASSUME NEW t, NEW p, Fine(t, p), python => t \notin Users
  PROVE  Begins(t, p)
<1>1. ASSUME NEW L \in SUBSET {"off"}
      PROVE  \E M \in SUBSET {"off", "ended"} : Runs(t, L, p, M)
  <2>1. L \in Calm /\ "gil" \notin L
    BY DEF Calm
  <2>2. PICK M \in Calm : ("gil" \in M <=> "gil" \in L) /\ Runs(t, L, p, M)
    BY <2>1 DEF Fine
  <2>3. M \in SUBSET {"off", "ended"}
    BY <2>1, <2>2 DEF Calm
  <2> QED
    BY <2>2, <2>3
<1> QED
  BY <1>1 DEF Begins, Fine

\* A call of a Python thread has the GIL.
LEMMA HeldStarts ==
  ASSUME NEW t, NEW X, AllFine(t, X), python
  PROVE  AllStart(t, Held(X))
<1>1. SUFFICES ASSUME NEW q \in X
               PROVE  Begins(t, Under("gil", q))
  BY DEF AllStart, Held
<1>2. Fine(t, q) /\ q \in Seq(Steps)
  BY DEF AllFine, Fine
<1>3. Lock("gil") \in Seq(Steps) /\ Free("gil") \in Seq(Steps)
  <2>1. {} \in SUBSET Tokens /\ Below({}, "gil")
    BY DEF Below
  <2> QED
    BY <2>1, LockRuns, FreeRuns DEF Locks
<1> DEFINE r == Lock("gil") \o q
           w == r \o Free("gil")
<1>4. r \in Seq(Steps) /\ w \in Seq(Steps) /\ Under("gil", q) = w
  BY <1>2, <1>3 DEF Under
<1>5. ASSUME NEW L \in SUBSET {"off"}
      PROVE  \E M \in SUBSET {"off", "ended"} : Runs(t, L, w, M)
  <2> DEFINE K == L \cup {"gil"}
  <2>1. K \in Calm /\ "gil" \in K
    BY DEF Calm
  <2>2. /\ L \in SUBSET Tokens /\ "ended" \notin L /\ "gil" \in Locks \ L /\ Below(L, "gil")
    BY RankIs DEF Tokens, Locks, Below
  <2>3. Runs(t, L, Lock("gil"), K)
    BY <2>2, LockRuns
  <2> HIDE DEF K
  <2>4. PICK N \in Calm : ("gil" \in N <=> "gil" \in K) /\ Runs(t, K, q, N)
    BY <1>2, <2>1 DEF Fine
  <2> DEFINE M == N \ {"gil"}
  <2>5. M \in SUBSET {"off", "ended"} /\ N = M \cup {"gil"} /\ "new" \notin M /\ "ended" \notin M
    BY <2>1, <2>4 DEF Calm
  <2>6. M \in SUBSET Tokens /\ "gil" \in Locks \ M
    BY <2>5 DEF Tokens, Locks
  <2> HIDE DEF M
  <2>7. Runs(t, N, Free("gil"), M)
    BY <2>5, <2>6, FreeRuns
  <2>8. Runs(t, L, r, N)
    BY <1>2, <1>3, <2>3, <2>4, RunsBoth
  <2> HIDE DEF r
  <2>9. Runs(t, L, w, M)
    BY <1>3, <1>4, <2>7, <2>8, RunsBoth
  <2> QED
    BY <2>5, <2>9
<1> QED
  BY <1>4, <1>5 DEF Begins

\* The binding of igs_core.c (core.c).
LEMMA PyCoreStart ==
  ASSUME NEW t \in Users, python
  PROVE  /\ AllStart(t, PyAgent) /\ AllStart(t, PyAnnotations) /\ AllStart(t, PyInputs)
         /\ AllStart(t, PyOutputs) /\ AllStart(t, PyAttributes) /\ AllStart(t, PyObservers)
         /\ AllStart(t, PyQueries) /\ AllStart(t, PyDefinition) /\ AllStart(t, PyIoEdits)
         /\ AllStart(t, PyMapping) /\ AllStart(t, PyCalls) /\ AllStart(t, PyServices)
         /\ AllStart(t, PyServiceEdits) /\ AllStart(t, PyNetwork)
<1>1. /\ AllFine(t, Global(InputReads \cup InputWrites))
      /\ AllFine(t, Global(OutputReads \cup OutputWrites))
      /\ AllFine(t, Global(OutputReads \cup AttributeWrites))
  BY FineFunctions, FineUnion, FineGlobal
<1>2. AllFine(t, CoreIoObservers \cup CoreObservers) /\ AllFine(t, CoreTime \cup CoreCalls)
  BY FineCore DEF AllFine
<1>3. AllFine(t, CoreNetwork \cup Global({Logs}))
  BY FineNetwork, FineAnyTwo, FineGlobal DEF AllFine
<1> QED
  BY <1>1, <1>2, <1>3, FineCore, HeldStarts
     DEF PyAgent, PyAnnotations, PyInputs, PyOutputs, PyAttributes, PyObservers, PyQueries, PyDefinition,
         PyIoEdits, PyMapping, PyCalls, PyServices, PyServiceEdits, PyNetwork

\* The binding of agents (agent.c).
LEMMA PyAgentStart ==
  ASSUME NEW t \in Users, python
  PROVE  /\ AllStart(t, PyAgentNames) /\ AllStart(t, PyAgentDefinition) /\ AllStart(t, PyAgentIo)
         /\ AllStart(t, PyAgentReads) /\ AllStart(t, PyAgentWrites) /\ AllStart(t, PyAgentAnnotations)
         /\ AllStart(t, PyAgentMapping) /\ AllStart(t, PyAgentServices) /\ AllStart(t, PyAgentQueries)
<1>1. AllFine(t, Activations \cup AgentQueries \cup AgentNames \cup States \cup Mutes)
  <2>1. AllFine(t, Activations \cup AgentQueries)
    BY FineSettings DEF AllFine
  <2>2. AllFine(t, AgentNames) /\ AllFine(t, States) /\ AllFine(t, Mutes)
    BY FineServices
  <2> QED
    BY <2>1, <2>2 DEF AllFine
<1>2. AllFine(t, DefinitionReads \cup DefinitionWrites \cup DefinitionFiles)
  BY FineFunctions DEF AllFine
<1>3. AllFine(t, IoEdits \cup TypeQueries \cup ListQueries \cup Observers)
  BY FineFunctions DEF AllFine
<1>4. AllFine(t, InputReads \cup OutputReads) /\ AllFine(t, InputWrites \cup OutputWrites \cup AttributeWrites)
  BY FineFunctions DEF AllFine
<1>5. AllFine(t, MappingLoads \cup MappingEdits \cup SplitEdits)
  BY FineFunctions DEF AllFine
<1>6. AllFine(t, ServiceEdits \cup ServiceTexts \cup ReplyEdits \cup ReplyTexts)
  BY FineServices DEF AllFine
<1>7. AllFine(t, ServiceQueries \cup ReplyQueries)
  BY FineServices DEF AllFine
<1> QED
  BY <1>1, <1>2, <1>3, <1>4, <1>5, <1>6, <1>7, FineFunctions, HeldStarts
     DEF PyAgentNames, PyAgentDefinition, PyAgentIo, PyAgentReads, PyAgentWrites, PyAgentAnnotations,
         PyAgentMapping, PyAgentServices, PyAgentQueries

\* Whatever the application calls.
LEMMA CallStarts ==
  ASSUME NEW t \in Users
  PROVE  AllStart(t, IF python THEN PyPrograms(t) ELSE Programs(t))
<1>1. CASE ~python
  BY <1>1, FinePrograms, FineStarts DEF AllStart, AllFine
<1>2. CASE python
  <2> DEFINE first == PyAgent \cup PyAnnotations \cup PyInputs \cup PyOutputs \cup PyAttributes
             second == first \cup PyObservers \cup PyQueries \cup PyDefinition \cup PyIoEdits
             third == second \cup PyMapping \cup PyCalls \cup PyServices \cup PyServiceEdits
             fourth == third \cup PyNetwork \cup PyAgentNames \cup PyAgentDefinition \cup PyAgentIo
             fifth == fourth \cup PyAgentReads \cup PyAgentWrites \cup PyAgentAnnotations
             sixth == fifth \cup PyAgentMapping \cup PyAgentServices \cup PyAgentQueries
             main == IF t = Main THEN PyStarts ELSE {}
  <2>1. AllStart(t, first)
    BY <1>2, PyCoreStart DEF AllStart
  <2> HIDE DEF first
  <2>2. AllStart(t, second)
    BY <1>2, <2>1, PyCoreStart DEF AllStart
  <2> HIDE DEF second
  <2>3. AllStart(t, third)
    BY <1>2, <2>2, PyCoreStart DEF AllStart
  <2> HIDE DEF third
  <2>4. AllStart(t, fourth)
    BY <1>2, <2>3, PyCoreStart, PyAgentStart DEF AllStart
  <2> HIDE DEF fourth
  <2>5. AllStart(t, fifth)
    BY <1>2, <2>4, PyAgentStart DEF AllStart
  <2> HIDE DEF fifth
  <2>6. AllStart(t, sixth)
    BY <1>2, <2>5, PyAgentStart DEF AllStart
  <2> HIDE DEF sixth
  <2>7. AllStart(t, main)
    BY <1>2, FineMain, HeldStarts DEF AllStart, PyStarts
  <2>8. PyPrograms(t) = sixth \cup main
    BY DEF PyPrograms, sixth, fifth, fourth, third, second, first
  <2> HIDE DEF main
  <2> QED
    BY <1>2, <2>6, <2>7, <2>8 DEF AllStart
<1> QED
  BY <1>1, <1>2

-----------------------------------------------------------------------------
\* What the network thread handles (igs_network.c).
LEMMA HandleStarts == AllStart(Net, NetPrograms)
<1>1. Net \notin Users
  BY ApiAssumption
<1>2. Fine(Net, Under("model", Quiet))
  <2>1. ASSUME NEW L \in Calm
        PROVE  Under("model", Quiet) \in Seq(Steps) /\ Runs(Net, L, Under("model", Quiet), L)
    <3>1. Quiet \in Seq(Steps) /\ Runs(Net, L \cup {"model"}, Quiet, L \cup {"model"})
      <4>1. "model" \in L \cup {"model"} /\ "model" \in Locks \ {"gil"}
        BY DEF Locks
      <4>2. L \cup {"model"} \in SUBSET Tokens /\ "ended" \notin L \cup {"model"}
        BY CalmFacts
      <4> QED
        BY <4>1, <4>2, PassRuns DEF Quiet
    <3> QED
      BY <3>1, CalmFacts, UnderRuns DEF Locks
  <2>2. {} \in Calm
    BY DEF Calm
  <2> QED
    BY <2>1, <2>2, FineSame
<1>3. Fine(Net, Under("model", Under("zyre", Logs)))
  <2>1. ASSUME NEW L \in Calm
        PROVE  /\ Under("model", Under("zyre", Logs)) \in Seq(Steps)
               /\ Runs(Net, L, Under("model", Under("zyre", Logs)), L)
    <3> DEFINE K == L \cup {"model"}
               p == Under("zyre", Logs)
    <3>1. /\ K \in SUBSET Tokens /\ "ended" \notin K /\ Below(K, "zyre") /\ "zyre" \in Locks \ K
          /\ K \cup {"zyre"} \in SUBSET Tokens
      BY CalmFacts DEF Calm, Locks, Tokens
    <3>2. "ended" \notin K \cup {"zyre"} /\ "log" \notin K \cup {"zyre"}
      BY DEF Calm
    <3> HIDE DEF K
    <3>3. Logs \in Seq(Steps) /\ Runs(Net, K \cup {"zyre"}, Logs, K \cup {"zyre"})
      BY <3>1, <3>2, LogsRuns
    <3>4. p \in Seq(Steps) /\ Runs(Net, K, p, K)
      BY <3>1, <3>3, UnderRuns
    <3> HIDE DEF p
    <3>5. Under("model", p) \in Seq(Steps) /\ Runs(Net, L, Under("model", p), L)
      BY <3>4, CalmFacts, UnderRuns DEF K, Locks
    <3> QED
      BY <3>5 DEF p
  <2>2. {} \in Calm
    BY DEF Calm
  <2> QED
    BY <2>1, <2>2, FineSame
<1>4. AllFine(Net, HandleWhispers) /\ AllFine(Net, HandleEvents) /\ AllFine(Net, HandleTimers)
  BY FineAnyTwo DEF HandleWhispers, HandleEvents, HandleTimers
<1>5. AllFine(Net, HandleReplays) /\ AllFine(Net, HandleQuestions)
  BY <1>2, <1>3, FinePieces DEF AllFine, HandleReplays, HandleQuestions
<1>6. AllFine(Net, NetPrograms)
  BY <1>4, <1>5 DEF AllFine, NetPrograms
<1> QED
  BY <1>1, <1>6, FineStarts DEF AllFine, AllStart

\* The start of the network thread.
LEMMA BootRuns == Boot \in Seq(Steps) /\ Runs(Net, {"booting"}, Boot, {})
<1> DEFINE A == {"booting"}
           B == {"booting", "network"}
           N == {"network"}
           p == Logs \o Send
           r == One("ready")
<1>1. /\ A \in SUBSET Tokens /\ B \in SUBSET Tokens /\ N \in SUBSET Tokens /\ {} \in SUBSET Tokens
      /\ "ended" \notin A /\ "ended" \notin B /\ "log" \notin B /\ "network" \in Locks \ A
      /\ A \cup {"network"} = B /\ {} \cup {"network"} = N
  BY DEF Tokens, Locks
<1>2. Below(A, "network") /\ Below(B, "zyre")
  BY RankIs DEF Below
<1>3. Lock("network") \in Seq(Steps) /\ Runs(Net, A, Lock("network"), B)
  <2> HIDE DEF A, B
  <2> QED
    BY <1>1, <1>2, LockRuns
<1>4. Logs \in Seq(Steps) /\ Runs(Net, B, Logs, B)
  BY <1>1, LogsRuns
<1>5. Send \in Seq(Steps) /\ Runs(Net, B, Send, B)
  BY <1>1, <1>2, PassRuns DEF Send, Locks
<1>6. r \in Seq(Steps) /\ Runs(Net, B, r, N)
  <2>1. Step("ready", None).do = "ready"
    BY StepIn DEF Dos
  <2>2. Allows(Net, B, Step("ready", None)) /\ After(B, Step("ready", None)) = N
    BY <2>1 DEF Allows, After
  <2> HIDE DEF B, N
  <2> QED
    BY <1>1, <2>2, OneRuns DEF Dos
<1>7. Free("network") \in Seq(Steps) /\ Runs(Net, N, Free("network"), {})
  <2>1. {} \in SUBSET Tokens /\ "network" \in Locks \ {}
    BY <1>1 DEF Locks
  <2>2. Free("network") \in Seq(Steps) /\ Runs(Net, {} \cup {"network"}, Free("network"), {})
    BY <2>1, FreeRuns
  <2>3. {} \cup {"network"} = N
    BY <1>1
  <2> QED
    BY <2>2, <2>3
<1> HIDE DEF A, B, N, r
<1>8. p \in Seq(Steps) /\ Runs(Net, B, p, B)
  BY <1>4, <1>5, RunsBoth
<1> HIDE DEF p
<1> DEFINE q == p \o r
<1>9. q \in Seq(Steps) /\ Runs(Net, B, q, N)
  BY <1>6, <1>8, RunsBoth
<1> HIDE DEF q
<1> DEFINE u == Lock("network") \o q
<1>10. u \in Seq(Steps) /\ Runs(Net, A, u, N)
  BY <1>3, <1>9, RunsBoth
<1>11. Boot = u \o Free("network")
  BY DEF Boot, Under, u, q, p, r
<1> HIDE DEF u
<1>12. u \o Free("network") \in Seq(Steps) /\ Runs(Net, A, u \o Free("network"), {})
  BY <1>7, <1>10, RunsBoth
<1> QED
  BY <1>11, <1>12 DEF A

\* Its end, where a stop from another peer is told with the lock.
LEMMA LeaveRuns ==
  ASSUME NEW forced \in BOOLEAN
  PROVE  Leave(forced) \in Seq(Steps) /\ Runs(Net, {}, Leave(forced), {"ended"})
<1> DEFINE N == {"network"}
           T == {"network", "telling"}
           E == {"ended"}
           p == Logs \o Send
           e == One("ended")
           told == One("tell") \o Tell
<1>1. /\ N \in SUBSET Tokens /\ T \in SUBSET Tokens /\ {} \in SUBSET Tokens /\ E \in SUBSET Tokens
      /\ "ended" \notin N /\ "ended" \notin T /\ "ended" \notin {} /\ "log" \notin N
      /\ {} \cup {"network"} = N /\ "network" \in Locks \ {}
  BY DEF Tokens, Locks
<1>2. Below({}, "network") /\ Below(N, "zyre")
  BY RankIs DEF Below
<1>3. Lock("network") \in Seq(Steps) /\ Runs(Net, {}, Lock("network"), N)
  <2> HIDE DEF N
  <2> QED
    BY <1>1, <1>2, LockRuns
<1>4. Logs \in Seq(Steps) /\ Runs(Net, N, Logs, N)
  BY <1>1, LogsRuns
<1>5. Send \in Seq(Steps) /\ Runs(Net, N, Send, N)
  BY <1>1, <1>2, PassRuns DEF Send, Locks
<1>6. p \in Seq(Steps) /\ Runs(Net, N, p, N)
  <2> HIDE DEF N
  <2> QED
    BY <1>4, <1>5, RunsBoth
<1>7. e \in Seq(Steps) /\ Runs(Net, {}, e, E)
  <2>1. Step("ended", None).do = "ended"
    BY StepIn DEF Dos
  <2>2. Allows(Net, {}, Step("ended", None)) /\ After({}, Step("ended", None)) = E
    BY <2>1 DEF Allows, After
  <2> HIDE DEF E
  <2> QED
    BY <1>1, <2>2, OneRuns DEF Dos
<1>8. Free("network") \in Seq(Steps) /\ Runs(Net, N, Free("network"), {})
  <2>1. {} \in SUBSET Tokens /\ "network" \in Locks \ {}
    BY <1>1 DEF Locks
  <2>2. Free("network") \in Seq(Steps) /\ Runs(Net, {} \cup {"network"}, Free("network"), {})
    BY <2>1, FreeRuns
  <2>3. {} \cup {"network"} = N
    BY <1>1
  <2> QED
    BY <2>2, <2>3
<1>9. Runs(Net, T, Free("network"), {})
  <2> DEFINE s == Step("free", "network")
  <2>1. s \in Steps /\ s.do = "free" /\ s.on = "network" /\ Free("network") = <<s>>
    BY StepIn DEF Dos, Locks, Free
  <2> HIDE DEF s
  <2>2. Allows(Net, T, s) /\ After(T, s) = {}
    BY <2>1 DEF Allows, After, Locks
  <2> HIDE DEF T
  <2> QED
    BY <1>1, <2>1, <2>2, RunsStep
<1>10. One("tell") \in Seq(Steps) /\ Runs(Net, N, One("tell"), T)
  <2>1. Step("tell", None).do = "tell"
    BY StepIn DEF Dos
  <2>2. Allows(Net, N, Step("tell", None)) /\ After(N, Step("tell", None)) = T
    BY <2>1 DEF Allows, After
  <2> HIDE DEF N, T
  <2> QED
    BY <1>1, <2>2, OneRuns DEF Dos
<1>11. Tell \in Seq(Steps) /\ Runs(Net, T, Tell, T)
  BY <1>1, TellRuns DEF Locks
<1> HIDE DEF N, T, E, p, e
<1>12. told \in Seq(Steps) /\ Runs(Net, N, told, T)
  BY <1>10, <1>11, RunsBoth
<1> HIDE DEF told
<1> DEFINE q == IF forced THEN told ELSE <<>>
           x == p \o q
           u == Lock("network") \o x
           v == u \o Free("network")
<1>13. \E M : Runs(Net, N, x, M) /\ Runs(Net, M, Free("network"), {}) /\ x \in Seq(Steps)
  <2>1. CASE forced
    <3>1. q = told
      BY <2>1
    <3> HIDE DEF q
    <3>2. x \in Seq(Steps) /\ Runs(Net, N, x, T)
      BY <1>6, <1>12, <3>1, RunsBoth
    <3> QED
      BY <1>9, <3>2
  <2>2. CASE ~forced
    <3>1. q = <<>> /\ <<>> \in Seq(Steps) /\ Runs(Net, N, <<>>, N)
      BY <1>1, <2>2, RunsNothing
    <3> HIDE DEF q
    <3>2. x \in Seq(Steps) /\ Runs(Net, N, x, N)
      BY <1>6, <3>1, RunsBoth
    <3> QED
      BY <1>8, <3>2
  <2> QED
    BY <2>1, <2>2
<1>14. Leave(forced) = v \o e
  BY DEF Leave, Under, v, u, x, p, q, told, e
<1> HIDE DEF q, x
<1>15. PICK M : Runs(Net, N, x, M) /\ Runs(Net, M, Free("network"), {}) /\ x \in Seq(Steps)
  BY <1>13
<1>16. u \in Seq(Steps) /\ Runs(Net, {}, u, M)
  BY <1>3, <1>15, RunsBoth
<1> HIDE DEF u
<1>17. v \in Seq(Steps) /\ Runs(Net, {}, v, {})
  BY <1>8, <1>15, <1>16, RunsBoth
<1> HIDE DEF v
<1>18. v \o e \in Seq(Steps) /\ Runs(Net, {}, v \o e, E)
  BY <1>7, <1>17, RunsBoth
<1> QED
  BY <1>14, <1>18 DEF E

-----------------------------------------------------------------------------
\* The steps that are replaced by what they do.
LEMMA LogExpands ==
  ASSUME NEW t, NEW L \in SUBSET Tokens, "ended" \notin L, "log" \notin L
  PROVE  /\ Pass("log") \in Seq(Steps) /\ Runs(t, L, Pass("log"), L)
         /\ Under("log", Send) \in Seq(Steps) /\ Runs(t, L, Under("log", Send), L)
<1>1. Below(L, "log")
  BY RankIs DEF Below
<1>2. Pass("log") \in Seq(Steps) /\ Runs(t, L, Pass("log"), L)
  BY <1>1, PassRuns DEF Locks
<1> DEFINE K == L \cup {"log"}
<1>3. K \in SUBSET Tokens /\ "ended" \notin K /\ "log" \in K
  BY DEF Tokens, Locks
<1> HIDE DEF K
<1>4. Send \in Seq(Steps) /\ Runs(t, K, Send, K)
  BY <1>3, PassRuns DEF Send, Locks
<1>5. Under("log", Send) \in Seq(Steps) /\ Runs(t, L, Under("log", Send), L)
  BY <1>1, <1>4, UnderRuns DEF K, Locks
<1> QED
  BY <1>2, <1>5

\* What a callback calls.
LEMMA NestedRuns ==
  ASSUME NEW t, NEW L \in SUBSET Tokens, "ended" \notin L, "model" \notin L,
         Outside(L) \/ "telling" \in L, NEW p \in Nested
  PROVE  p \in Seq(Steps) /\ Runs(t, L, p, L)
<1>1. Below(L, "model") /\ Below(L \cup {"model"}, "network")
  BY RankIs DEF Below, Outside
<1>2. Quiet \in Seq(Steps) /\ Runs(t, L, Quiet, L)
  BY <1>1, PassRuns DEF Quiet, Locks
<1>3. IsStarted \in Seq(Steps) /\ Runs(t, L, IsStarted, L)
  <2> DEFINE K == L \cup {"model"}
  <2>1. K \in SUBSET Tokens /\ "ended" \notin K /\ Below(K, "network")
    BY <1>1 DEF Tokens, Locks
  <2> HIDE DEF K
  <2>2. Pass("network") \in Seq(Steps) /\ Runs(t, K, Pass("network"), K)
    BY <2>1, PassRuns DEF Locks
  <2> QED
    BY <1>1, <2>2, UnderRuns DEF IsStarted, Locks, K
<1>4. <<>> \in Seq(Steps) /\ Runs(t, L, <<>>, L)
  BY RunsNothing
<1> QED
  BY <1>2, <1>3, <1>4 DEF Nested

\* PyGILState_Ensure takes the GIL, or gives it to others for a while.
LEMMA EnsuredRuns ==
  ASSUME NEW t, NEW L \in SUBSET Tokens, Faithful(t, L), "ended" \notin L, "new" \notin L,
         Outside(L) \/ ("telling" \in L /\ L \cap Locks = {"network"}), NEW p \in Nested, python
  PROVE  Ensured(t, p) \in Seq(Steps) /\ Runs(t, L, Ensured(t, p), L)
<1>1. "model" \notin L
  BY RankIs DEF Outside, Locks
<1>2. CASE owner["gil"] = t
  <2>1. "gil" \in L
    BY <1>2 DEF Faithful, Locks
  <2>2. Outside(L)
    BY <2>1 DEF Locks
  <2> DEFINE K == L \ {"gil"}
             u == Free("gil") \o Lock("gil")
  <2>3. /\ K \in SUBSET Tokens /\ "ended" \notin K /\ "new" \notin K /\ "gil" \in Locks \ K
        /\ K \cup {"gil"} = L
    BY <2>1 DEF Locks
  <2>4. Below(K, "gil")
    BY <2>2, RankIs DEF Below, Outside
  <2> HIDE DEF K
  <2>5. Free("gil") \in Seq(Steps) /\ Runs(t, L, Free("gil"), K)
    BY <2>3, FreeRuns
  <2>6. Lock("gil") \in Seq(Steps) /\ Runs(t, K, Lock("gil"), L)
    BY <2>3, <2>4, LockRuns
  <2>7. u \in Seq(Steps) /\ Runs(t, L, u, L)
    BY <2>5, <2>6, RunsBoth
  <2>8. p \in Seq(Steps) /\ Runs(t, L, p, L)
    BY <1>1, <2>2, NestedRuns
  <2>9. Ensured(t, p) = u \o p
    BY <1>2 DEF Ensured
  <2> HIDE DEF u
  <2>10. u \o p \in Seq(Steps) /\ Runs(t, L, u \o p, L)
    BY <2>7, <2>8, RunsBoth
  <2> QED
    BY <2>9, <2>10
<1>3. CASE owner["gil"] # t
  <2>1. "gil" \notin L
    BY <1>3 DEF Faithful, Locks
  <2>2. Below(L, "gil")
    BY <2>1, RankIs DEF Below, Outside
  <2> DEFINE K == L \cup {"gil"}
  <2>3. /\ K \in SUBSET Tokens /\ "ended" \notin K /\ "model" \notin K
        /\ Outside(K) \/ "telling" \in K
    BY <1>1 DEF Tokens, Locks, Outside
  <2> HIDE DEF K
  <2>4. p \in Seq(Steps) /\ Runs(t, K, p, K)
    BY <2>3, NestedRuns
  <2>5. Ensured(t, p) = Under("gil", p)
    BY <1>3 DEF Ensured
  <2>6. Under("gil", p) \in Seq(Steps) /\ Runs(t, L, Under("gil", p), L)
    BY <2>1, <2>2, <2>4, UnderRuns DEF K, Locks
  <2> QED
    BY <2>5, <2>6
<1> QED
  BY <1>2, <1>3

\* A callback, in C or in Python.
LEMMA CallbackExpands ==
  ASSUME NEW t, NEW L \in SUBSET Tokens, Faithful(t, L), "ended" \notin L, "new" \notin L,
         Outside(L) \/ ("telling" \in L /\ L \cap Locks = {"network"}), NEW p \in Called(t)
  PROVE  p \in Seq(Steps) /\ Runs(t, L, p, L)
<1>1. "model" \notin L
  BY RankIs DEF Outside, Locks
<1>2. CASE ~python
  <2>1. p \in Nested
    BY <1>2 DEF Called
  <2> QED
    BY <1>1, <2>1, NestedRuns
<1>3. CASE python
  <2>1. \A n \in Nested : Ensured(t, n) \in Seq(Steps) /\ Runs(t, L, Ensured(t, n), L)
    BY <1>3, EnsuredRuns
  <2>2. <<>> \in Nested
    BY DEF Nested
  <2>3. \A n \in Nested : EnsuredForEach(t, n) \in Seq(Steps) /\ Runs(t, L, EnsuredForEach(t, n), L)
    <3>1. SUFFICES ASSUME NEW n \in Nested
                   PROVE  EnsuredForEach(t, n) \in Seq(Steps) /\ Runs(t, L, EnsuredForEach(t, n), L)
      OBVIOUS
    <3> DEFINE a == Ensured(t, <<>>)
               b == Ensured(t, n)
    <3>2. a \in Seq(Steps) /\ Runs(t, L, a, L) /\ b \in Seq(Steps) /\ Runs(t, L, b, L)
      BY <2>1, <2>2
    <3>3. EnsuredForEach(t, n) = a \o b
      BY DEF EnsuredForEach
    <3> HIDE DEF a, b
    <3>4. a \o b \in Seq(Steps) /\ Runs(t, L, a \o b, L)
      BY <3>2, RunsBoth
    <3> QED
      BY <3>3, <3>4
  <2>4. \E n \in Nested : p = Ensured(t, n) \/ p = EnsuredForEach(t, n)
    BY <1>3 DEF Called
  <2> QED
    BY <2>1, <2>3, <2>4
<1> QED
  BY <1>2, <1>3

\* core_init_agent makes the global agent, alone when the GIL is kept.
LEMMA NewExpands ==
  ASSUME NEW t, NEW L \in Calm, NEW K, K = IF python /\ ~observed THEN L \cup {"new"} ELSE L
  PROVE  NewAgent \in Seq(Steps) /\ Runs(t, K, NewAgent, L) /\ K \in SUBSET Tokens
<1>1. /\ K \in SUBSET Tokens /\ "ended" \notin K /\ "model" \in Locks \ K /\ K \ {"new"} = L
      /\ python /\ ~observed => "new" \in K
  BY DEF Calm, Tokens, Locks
<1>2. Below(K, "model") /\ Below(K \cup {"model"}, "zyre")
  BY RankIs DEF Below, Calm
<1>3. Quiet \in Seq(Steps) /\ Runs(t, K, Quiet, K)
  BY <1>1, <1>2, PassRuns DEF Quiet
<1>4. Announced \in Seq(Steps) /\ Runs(t, K, Announced, K)
  <2> DEFINE N == K \cup {"model"}
  <2>1. N \in SUBSET Tokens /\ "ended" \notin N /\ Below(N, "zyre")
    BY <1>1, <1>2 DEF Tokens, Locks
  <2> HIDE DEF N
  <2>2. Send \in Seq(Steps) /\ Runs(t, N, Send, N)
    BY <2>1, PassRuns DEF Send, Locks
  <2> QED
    BY <1>1, <1>2, <2>2, UnderRuns DEF Announced, N
<1> DEFINE q == IF observed THEN Callbacks ELSE <<>>
           r == One("agent")
           u == Quiet \o Announced
           v == u \o q
<1>5. q \in Seq(Steps) /\ Runs(t, K, q, K)
  <2>1. CASE observed
    <3>1. K = L /\ "new" \notin K /\ Outside(K)
      BY <2>1, CalmFacts
    <3>2. Tell \in Seq(Steps) /\ Runs(t, K, Tell, K)
      BY <1>1, <3>1, TellRuns
    <3>3. Callbacks \in Seq(Steps) /\ Runs(t, K, Callbacks, K)
      BY <1>3, <3>2, RunsBoth DEF Callbacks
    <3> QED
      BY <2>1, <3>3
  <2>2. CASE ~observed
    BY <1>1, <2>2, RunsNothing
  <2> QED
    BY <2>1, <2>2
<1>6. r \in Seq(Steps) /\ Runs(t, K, r, L)
  <2>1. Step("agent", None).do = "agent"
    BY StepIn DEF Dos
  <2>2. Allows(t, K, Step("agent", None))
    BY <1>1, <2>1 DEF Allows
  <2>3. After(K, Step("agent", None)) = L
    BY <1>1, <2>1 DEF After
  <2> QED
    BY <1>1, <2>2, <2>3, OneRuns DEF Dos
<1>7. NewAgent = v \o r
  BY DEF NewAgent
<1> HIDE DEF q, r
<1>8. u \in Seq(Steps) /\ Runs(t, K, u, K)
  BY <1>3, <1>4, RunsBoth
<1> HIDE DEF u
<1>9. v \in Seq(Steps) /\ Runs(t, K, v, K)
  BY <1>5, <1>8, RunsBoth
<1> HIDE DEF v
<1>10. v \o r \in Seq(Steps) /\ Runs(t, K, v \o r, L)
  BY <1>6, <1>9, RunsBoth
<1> QED
  BY <1>1, <1>7, <1>10

-----------------------------------------------------------------------------
Ends == SUBSET {"off", "ended"}
Loops == {"off", "boot", "run", "leave", "telling", "ended"}

\* A thread follows what is left of its program.
Follows(t, L) == Faithful(t, L) /\ \E M \in Ends : Runs(t, L, todo[t], M)
AllFollow == \A t \in AllThreads : \E L \in SUBSET Tokens : Follows(t, L)
ApiTypes ==
  /\ todo \in [AllThreads -> Seq(Steps)] /\ owner \in [Locks -> AllThreads \cup {None}]
  /\ loop \in Loops /\ made \in Nat
GilOfPython == owner["gil"] # None => python
EndedRests == loop \in {"off", "ended"} => Resting(Net)
ApiInv == ApiTypes /\ AllFollow /\ GilOfPython /\ EndedRests /\ OneGlobalAgent

\* A thread without a program has no lock but a leaked one.
LEMMA RestingHolds ==
  ASSUME ApiInv, NEW t \in AllThreads, Resting(t)
  PROVE  \E L \in SUBSET {"off"} : Faithful(t, L)
<1>1. PICK L \in SUBSET Tokens : Follows(t, L)
  BY DEF ApiInv, AllFollow
<1>2. L \in Ends
  <2>1. PICK M \in Ends : Runs(t, L, todo[t], M)
    BY <1>1 DEF Follows
  <2>2. Runs(t, L, <<>>, M)
    BY <2>1 DEF Resting
  <2> QED
    BY <2>2, RunsNothing
<1> DEFINE K == L \ {"ended"}
<1>3. K \in SUBSET {"off"}
  BY <1>2 DEF Ends
<1>4. Faithful(t, K)
  <2>1. \A m \in Locks : m \in K <=> m \in L
    BY DEF Locks
  <2>2. ("booting" \in K <=> "booting" \in L) /\ "telling" \notin K /\ "ended" \notin K /\ "new" \notin K
    BY <1>3 
  <2>3. "off" \in K => "off" \in L
    OBVIOUS
  <2> HIDE DEF K
  <2>4. Faithful(t, L)
    BY <1>1 DEF Follows
  <2> QED
    BY <2>1, <2>2, <2>3, <2>4 DEF Faithful
<1> QED
  BY <1>3, <1>4

\* The step that a thread is at.
LEMMA StepHolds ==
  ASSUME ApiInv, NEW t \in AllThreads, ~Resting(t)
  PROVE  /\ Head(todo[t]) \in Steps /\ todo[t] \in Seq(Steps) /\ todo[t] # <<>>
         /\ \E L \in SUBSET Tokens : \E M \in Ends :
              /\ Faithful(t, L) /\ Runs(t, L, todo[t], M)
              /\ Allows(t, L, Head(todo[t])) /\ Runs(t, After(L, Head(todo[t])), Tail(todo[t]), M)
<1>1. todo[t] \in Seq(Steps) /\ todo[t] # <<>>
  BY DEF ApiInv, ApiTypes, Resting
<1>2. PICK L \in SUBSET Tokens : Follows(t, L)
  BY DEF ApiInv, AllFollow
<1>3. PICK M \in Ends : Runs(t, L, todo[t], M)
  BY <1>2 DEF Follows
<1>4. Allows(t, L, Head(todo[t])) /\ Runs(t, After(L, Head(todo[t])), Tail(todo[t]), M)
  BY <1>1, <1>3, RunsHead
<1>5. Head(todo[t]) \in Steps
  BY <1>1
<1> QED
  BY <1>1, <1>2, <1>3, <1>4, <1>5 DEF Follows

\* A step of a thread, which the others do not see.
LEMMA StepFollowed ==
  ASSUME ApiInv, NEW t \in AllThreads, NEW q \in Seq(Steps), ~Resting(t), Go(t, q),
         UNCHANGED <<python, observed>>,
         NEW L, NEW K \in SUBSET Tokens, NEW M \in Ends, Runs(t, L, todo[t], M),
         Runs(t, K, q, After(L, Head(todo[t]))), Faithful(t, K)',
         \A u \in AllThreads \ {t} : \A N \in SUBSET Tokens : Faithful(u, N) => Faithful(u, N)'
  PROVE  AllFollow' /\ todo' \in [AllThreads -> Seq(Steps)]
<1>1. todo[t] \in Seq(Steps) /\ todo[t] # <<>> /\ todo \in [AllThreads -> Seq(Steps)]
  BY DEF ApiInv, ApiTypes, Resting
<1>2. PICK p \in Seq(Steps) : p = q \o Tail(todo[t])
  <2>1. q \o Tail(todo[t]) \in Seq(Steps)
    BY <1>1
  <2> QED
    BY <2>1
<1>3. todo' = [todo EXCEPT ![t] = p]
  BY <1>2 DEF Go
<1>4. Runs(t, K, p, M)
  BY <1>1, <1>2, RunsReplaced
<1>5. todo' \in [AllThreads -> Seq(Steps)] /\ todo'[t] = p
  BY <1>1, <1>2, <1>3
<1>6. Runs(t, K, p, M)'
  BY <1>4, RunsSame
<1>7. Follows(t, K)'
  BY <1>5, <1>6 DEF Follows
<1>8. ASSUME NEW u \in AllThreads \ {t}
      PROVE  \E N \in SUBSET Tokens : Follows(u, N)'
  <2>1. PICK N \in SUBSET Tokens : Follows(u, N)
    BY DEF ApiInv, AllFollow
  <2>2. PICK O \in Ends : Runs(u, N, todo[u], O)
    BY <2>1 DEF Follows
  <2>3. PICK r : r = todo[u]
    OBVIOUS
  <2>4. todo'[u] = r
    BY <1>1, <1>3, <2>3
  <2>5. Runs(u, N, r, O)
    BY <2>2, <2>3
  <2>6. Runs(u, N, r, O)'
    BY <2>5, RunsSame
  <2>7. Faithful(u, N)'
    BY <2>1 DEF Follows
  <2>8. Follows(u, N)'
    BY <2>4, <2>6, <2>7 DEF Follows
  <2> QED
    BY <2>8
<1>9. \A u \in AllThreads : \E N \in SUBSET Tokens : Follows(u, N)'
  BY <1>7, <1>8
<1> QED
  BY <1>5, <1>9 DEF AllFollow

\* Nothing that a thread holds or knows has changed.
LEMMA FaithfulSame ==
  ASSUME UNCHANGED <<python, observed, owner, made, loop>>, leaked => leaked',
         Resting(Net) => Resting(Net)', NEW u, NEW N, Faithful(u, N)
  PROVE  Faithful(u, N)'
BY DEF Faithful

\* A network thread without a program has none after the step of another thread.
LEMMA NetRests ==
  ASSUME ApiInv, NEW t \in AllThreads, NEW q, ~Resting(t), Go(t, q)
  PROVE  Resting(Net) => Resting(Net)'
BY DEF ApiInv, ApiTypes, Resting, Go, AllThreads

\* What remains of the invariant when the network thread does not turn.
LEMMA InvariantKept ==
  ASSUME ApiInv, AllFollow', todo' \in [AllThreads -> Seq(Steps)],
         UNCHANGED <<python, observed, owner, made, loop>>, Resting(Net) => Resting(Net)'
  PROVE  ApiInv'
BY DEF ApiInv, ApiTypes, GilOfPython, EndedRests, OneGlobalAgent

\* A step that leaves the locks as they are: q replaces it.
LEMMA StepKept ==
  ASSUME ApiInv, NEW t \in AllThreads, NEW q \in Seq(Steps), ~Resting(t), Go(t, q),
         UNCHANGED <<python, observed, owner, made, loop>>, leaked => leaked',
         NEW L, NEW K \in SUBSET Tokens, NEW M \in Ends, Runs(t, L, todo[t], M),
         Runs(t, K, q, After(L, Head(todo[t]))), Faithful(t, K)'
  PROVE  ApiInv'
<1>1. Resting(Net) => Resting(Net)'
  BY NetRests
<1>2. \A u \in AllThreads \ {t} : \A N \in SUBSET Tokens : Faithful(u, N) => Faithful(u, N)'
  BY <1>1, FaithfulSame
<1>3. AllFollow' /\ todo' \in [AllThreads -> Seq(Steps)]
  BY <1>2, StepFollowed
<1> QED
  BY <1>1, <1>3, InvariantKept

\* A section in which nothing is waited for; the signal of the network thread.
LEMMA TraverseKeeps ==
  ASSUME ApiInv, NEW t \in AllThreads, Traverse(t) \/ Await(t)
  PROVE  ApiInv'
<1>1. /\ ~Resting(t) /\ Go(t, <<>>) /\ UNCHANGED <<python, observed, owner, made, loop, leaked>>
      /\ Head(todo[t]).do \in {"pass", "await"}
  BY DEF Traverse, Await, At
<1>2. PICK L \in SUBSET Tokens, M \in Ends : Faithful(t, L) /\ Runs(t, L, todo[t], M)
  BY <1>1, StepHolds
<1>3. After(L, Head(todo[t])) = L /\ Runs(t, L, <<>>, L) /\ <<>> \in Seq(Steps)
  BY <1>1, RunsNothing DEF After
<1>4. Faithful(t, L)'
  BY <1>1, <1>2, NetRests, FaithfulSame
<1> QED
  BY <1>1, <1>2, <1>3, <1>4, StepKept

\* admin_log.
LEMMA LogKeeps ==
  ASSUME ApiInv, NEW t \in AllThreads, Log(t)
  PROVE  ApiInv'
<1>1. ~Resting(t) /\ UNCHANGED <<python, observed, owner, made, loop, leaked>> /\ Head(todo[t]).do = "log"
  BY DEF Log, At
<1>2. PICK q \in {<<>>, Pass("log"), Under("log", Send)} : Go(t, q)
  BY DEF Log
<1>3. PICK L \in SUBSET Tokens, M \in Ends :
        Faithful(t, L) /\ Runs(t, L, todo[t], M) /\ Allows(t, L, Head(todo[t]))
  BY <1>1, StepHolds
<1>4. "ended" \notin L /\ "log" \notin L
  BY <1>1, <1>3 DEF Allows
<1>5. After(L, Head(todo[t])) = L
  BY <1>1 DEF After
<1>6. q \in Seq(Steps) /\ Runs(t, L, q, L)
  <2>1. <<>> \in Seq(Steps) /\ Runs(t, L, <<>>, L)
    BY RunsNothing
  <2>2. /\ Pass("log") \in Seq(Steps) /\ Runs(t, L, Pass("log"), L)
        /\ Under("log", Send) \in Seq(Steps) /\ Runs(t, L, Under("log", Send), L)
    BY <1>4, LogExpands
  <2>3. CASE q = <<>>
    BY <2>1, <2>3
  <2>4. CASE q = Pass("log")
    BY <2>2, <2>4
  <2>5. CASE q = Under("log", Send)
    BY <2>2, <2>5
  <2> QED
    BY <1>2, <2>3, <2>4, <2>5
<1>7. Faithful(t, L)'
  BY <1>1, <1>2, <1>3, NetRests, FaithfulSame
<1> QED
  BY <1>1, <1>2, <1>3, <1>5, <1>6, <1>7, StepKept

\* A callback of the application.
LEMMA CallbackKeeps ==
  ASSUME ApiInv, NEW t \in AllThreads, Callback(t)
  PROVE  ApiInv'
<1>1. /\ ~Resting(t) /\ UNCHANGED <<python, observed, owner, made, loop, leaked>>
      /\ Head(todo[t]).do = "callback"
  BY DEF Callback, At
<1>2. PICK q \in Called(t) : Go(t, q)
  BY DEF Callback
<1>3. PICK L \in SUBSET Tokens, M \in Ends :
        Faithful(t, L) /\ Runs(t, L, todo[t], M) /\ Allows(t, L, Head(todo[t]))
  BY <1>1, StepHolds
<1>4. /\ "ended" \notin L /\ "new" \notin L
      /\ Outside(L) \/ ("telling" \in L /\ L \cap Locks = {"network"})
  BY <1>1, <1>3 DEF Allows
<1>5. After(L, Head(todo[t])) = L
  BY <1>1 DEF After
<1>6. q \in Seq(Steps) /\ Runs(t, L, q, L)
  BY <1>2, <1>3, <1>4, CallbackExpands
<1>7. Faithful(t, L)'
  BY <1>1, <1>2, <1>3, NetRests, FaithfulSame
<1> QED
  BY <1>1, <1>2, <1>3, <1>5, <1>6, <1>7, StepKept

\* core_init_agent.
LEMMA InitKeeps ==
  ASSUME ApiInv, NEW t \in AllThreads, InitAgent(t)
  PROVE  ApiInv'
<1>1. /\ ~Resting(t) /\ UNCHANGED <<python, observed, owner, made, loop, leaked>>
      /\ Head(todo[t]).do = "init"
  BY DEF InitAgent, At
<1>2. Go(t, IF made = 0 THEN NewAgent ELSE <<>>)
  BY DEF InitAgent
<1>3. PICK L \in SUBSET Tokens, M \in Ends :
        Faithful(t, L) /\ Runs(t, L, todo[t], M) /\ Allows(t, L, Head(todo[t]))
  BY <1>1, StepHolds
<1>4. /\ "ended" \notin L /\ Outside(L) /\ {"telling", "new"} \cap L = {}
      /\ python => "gil" \in L
  BY <1>1, <1>3 DEF Allows
<1>5. L \in Calm
  <2>1. L \in SUBSET Tokens
    BY <1>3
  <2>2. "ended" \notin L /\ Outside(L) /\ "telling" \notin L /\ "new" \notin L
    BY <1>4
  <2> QED
    BY <2>1, <2>2, RankIs DEF Calm, Tokens, Locks, Outside
<1>6. After(L, Head(todo[t])) = L
  BY <1>1 DEF After
<1>7. Faithful(t, L)'
  BY <1>1, <1>2, <1>3, NetRests, FaithfulSame
<1>8. CASE made # 0
  <2>1. Go(t, <<>>) /\ <<>> \in Seq(Steps) /\ Runs(t, L, <<>>, L)
    BY <1>2, <1>8, RunsNothing
  <2> QED
    BY <1>1, <1>3, <1>6, <1>7, <2>1, StepKept
<1>9. CASE made = 0
  <2>1. PICK K : K = IF python /\ ~observed THEN L \cup {"new"} ELSE L
    OBVIOUS
  <2>2. NewAgent \in Seq(Steps) /\ Runs(t, K, NewAgent, L) /\ K \in SUBSET Tokens
    BY <1>5, <2>1, NewExpands
  <2>3. Faithful(t, K)'
    <3>1. CASE ~(python /\ ~observed)
      BY <1>7, <2>1, <3>1
    <3>2. CASE python /\ ~observed
      <4>1. K = L \cup {"new"} /\ "gil" \in L
        BY <1>4, <2>1, <3>2
      <4>2. \A m \in Locks : m \in K <=> m \in L
        BY <4>1 DEF Locks
      <4>3. /\ "booting" \in K <=> "booting" \in L
            /\ "telling" \in K <=> "telling" \in L
            /\ "off" \in K <=> "off" \in L
            /\ "ended" \in K <=> "ended" \in L
            /\ "gil" \in K
        BY <4>1
      <4>4. python' /\ ~observed' /\ made' = 0
        BY <1>1, <1>9, <3>2
      <4> QED
        BY <1>7, <4>2, <4>3, <4>4 DEF Faithful
    <3> QED
      BY <3>1, <3>2
  <2>4. Go(t, NewAgent)
    BY <1>2, <1>9
  <2> QED
    BY <1>1, <1>3, <1>6, <2>2, <2>3, <2>4, StepKept
<1> QED
  BY <1>8, <1>9

\* A return with the model lock: it stays owned.
LEMMA LeakKeeps ==
  ASSUME ApiInv, NEW t \in AllThreads, Leak(t)
  PROVE  ApiInv'
<1>1. /\ ~Resting(t) /\ UNCHANGED <<python, observed, owner, made, loop>> /\ leaked' = TRUE
      /\ Head(todo[t]).do = "leak" /\ Go(t, <<>>)
  BY DEF Leak, At
<1>2. PICK L \in SUBSET Tokens, M \in Ends : Faithful(t, L) /\ Runs(t, L, todo[t], M)
  BY <1>1, StepHolds
<1>3. PICK K : K = L \ {"model"}
  OBVIOUS
<1>4. After(L, Head(todo[t])) = K /\ K \in SUBSET Tokens
  BY <1>1, <1>3 DEF After
<1>5. Runs(t, K, <<>>, K) /\ <<>> \in Seq(Steps)
  BY <1>4, RunsNothing
<1>6. Faithful(t, K)'
  <2>1. Faithful(t, L)'
    BY <1>1, <1>2, NetRests, FaithfulSame
  <2>2. \A m \in Locks : (m \in K => m \in L) /\ (m \in L => m \in K \/ m = "model")
    BY <1>3
  <2>3. /\ "booting" \in K <=> "booting" \in L
        /\ "telling" \in K <=> "telling" \in L
        /\ "off" \in K <=> "off" \in L
        /\ "ended" \in K <=> "ended" \in L
        /\ "new" \in K <=> "new" \in L
        /\ "gil" \in K <=> "gil" \in L
    BY <1>3
  <2> QED
    BY <1>1, <2>1, <2>2, <2>3 DEF Faithful
<1> QED
  BY <1>1, <1>2, <1>4, <1>5, <1>6, StepKept

\* zactor_destroy: $TERM is sent.
LEMMA StopKeeps ==
  ASSUME ApiInv, NEW t \in AllThreads, SendTerm(t)
  PROVE  ApiInv'
<1>1. /\ ~Resting(t) /\ UNCHANGED <<python, observed, owner, made, loop, leaked>>
      /\ Head(todo[t]).do = "stop"
  BY DEF SendTerm, At
<1>2. Go(t, IF loop = "off" THEN <<>> ELSE One("join"))
  BY DEF SendTerm
<1>3. PICK L \in SUBSET Tokens, M \in Ends :
        Faithful(t, L) /\ Runs(t, L, todo[t], M) /\ Allows(t, L, Head(todo[t]))
  BY <1>1, StepHolds
<1>4. "ended" \notin L /\ Outside(L) /\ t = Main
  BY <1>1, <1>3 DEF Allows
<1>5. PICK K : K = L \cup {"off"}
  OBVIOUS
<1>6. After(L, Head(todo[t])) = K /\ K \in SUBSET Tokens
  BY <1>1, <1>5 DEF After, Tokens
<1>7. Faithful(t, L)'
  BY <1>1, <1>2, <1>3, NetRests, FaithfulSame
<1>8. CASE loop = "off"
  <2>1. Go(t, <<>>) /\ <<>> \in Seq(Steps) /\ Runs(t, K, <<>>, K)
    BY <1>2, <1>6, <1>8, RunsNothing
  <2>2. \A m \in Locks : m \in K <=> m \in L
    BY <1>5 DEF Locks
  <2>3. /\ "booting" \in K <=> "booting" \in L
        /\ "telling" \in K <=> "telling" \in L
        /\ "ended" \in K <=> "ended" \in L
        /\ "new" \in K <=> "new" \in L
        /\ "gil" \in K <=> "gil" \in L
    BY <1>5
  <2>4. t = Main /\ loop' = "off"
    BY <1>1, <1>4, <1>8
  <2>5. Faithful(t, K)'
    BY <1>7, <2>2, <2>3, <2>4 DEF Faithful
  <2> QED
    BY <1>1, <1>3, <1>6, <2>1, <2>5, StepKept
<1>9. CASE loop # "off"
  <2>1. Step("join", None).do = "join"
    BY StepIn DEF Dos
  <2>2. Allows(t, L, Step("join", None)) /\ After(L, Step("join", None)) = K
    BY <1>4, <1>5, <2>1 DEF Allows, After
  <2>3. One("join") \in Seq(Steps) /\ Runs(t, L, One("join"), K)
    BY <2>2, OneRuns DEF Dos
  <2>4. Go(t, One("join"))
    BY <1>2, <1>9
  <2> QED
    BY <1>1, <1>3, <1>6, <1>7, <2>3, <2>4, StepKept
<1> QED
  BY <1>8, <1>9

\* Locks.
LEMMA TakeKeeps ==
  ASSUME ApiInv, NEW t \in AllThreads, Take(t)
  PROVE  ApiInv'
<1>1. PICK m : m = On(t)
  OBVIOUS
<1>2. /\ ~Resting(t) /\ UNCHANGED <<python, observed, made, loop, leaked>> /\ Go(t, <<>>)
      /\ Head(todo[t]).do = "lock" /\ Head(todo[t]).on = m /\ owner[m] = None
      /\ owner' = [owner EXCEPT ![m] = t]
  BY <1>1 DEF Take, At, On
<1>3. PICK L \in SUBSET Tokens, M \in Ends :
        Faithful(t, L) /\ Runs(t, L, todo[t], M) /\ Allows(t, L, Head(todo[t]))
  BY <1>2, StepHolds
<1>4. "ended" \notin L /\ m \in Locks \ L /\ (m = "gil" => python)
  BY <1>2, <1>3 DEF Allows
<1>5. PICK K : K = L \cup {m}
  OBVIOUS
<1>6. After(L, Head(todo[t])) = K /\ K \in SUBSET Tokens
  BY <1>2, <1>4, <1>5 DEF After, Tokens
<1>7. Runs(t, K, <<>>, K) /\ <<>> \in Seq(Steps)
  BY <1>6, RunsNothing
<1>8. t # None /\ owner \in [Locks -> AllThreads \cup {None}]
  BY ApiAssumption DEF AllThreads, ApiInv, ApiTypes
<1>9. \A l \in Locks : owner'[l] = IF l = m THEN t ELSE owner[l]
  BY <1>2, <1>8
<1>10. Resting(Net) => Resting(Net)'
  BY <1>2, NetRests
<1>11. Faithful(t, K)'
  <2>1. \A l \in Locks : l \in K <=> l \in L \/ l = m
    BY <1>5
  <2>2. /\ "booting" \in K <=> "booting" \in L
        /\ "telling" \in K <=> "telling" \in L
        /\ "off" \in K <=> "off" \in L
        /\ "ended" \in K <=> "ended" \in L
        /\ "new" \in K <=> "new" \in L
        /\ "gil" \in L => "gil" \in K
    BY <1>4, <1>5 DEF Locks
  <2>3. "telling" \in L => owner'["network"] = Net
    BY <1>2, <1>3, <1>8, <1>9, ApiAssumption DEF Faithful, Locks, AllThreads
  <2> QED
    BY <1>2, <1>3, <1>9, <1>10, <2>1, <2>2, <2>3 DEF Faithful
<1>12. ASSUME NEW u \in AllThreads \ {t}, NEW N \in SUBSET Tokens, Faithful(u, N)
       PROVE  Faithful(u, N)'
  <2>1. u # None
    BY ApiAssumption DEF AllThreads
  <2>2. m \notin N
    BY <1>2, <1>4, <1>12, <2>1 DEF Faithful
  <2>3. \A l \in Locks : (l \in N => owner'[l] = u) /\ (owner'[l] = u => owner[l] = u)
    BY <1>9, <1>12, <2>2 DEF Faithful
  <2>4. "telling" \in N => owner'["network"] = Net
    BY <1>2, <1>8, <1>9, <1>12, ApiAssumption DEF Faithful, Locks, AllThreads
  <2> QED
    BY <1>2, <1>10, <1>12, <2>3, <2>4 DEF Faithful
<1>13. AllFollow' /\ todo' \in [AllThreads -> Seq(Steps)]
  BY <1>2, <1>3, <1>6, <1>7, <1>11, <1>12, StepFollowed
<1>14. owner' \in [Locks -> AllThreads \cup {None}]
  BY <1>2, <1>8
<1>15. GilOfPython'
  BY <1>2, <1>4, <1>9 DEF ApiInv, GilOfPython, Locks
<1> QED
  BY <1>2, <1>10, <1>13, <1>14, <1>15 DEF ApiInv, ApiTypes, EndedRests, OneGlobalAgent

\* The lock is given back.
LEMMA ReleaseKeeps ==
  ASSUME ApiInv, NEW t \in AllThreads, Release(t)
  PROVE  ApiInv'
<1>1. PICK m : m = On(t)
  OBVIOUS
<1>2. /\ ~Resting(t) /\ UNCHANGED <<python, observed, made, loop, leaked>> /\ Go(t, <<>>)
      /\ Head(todo[t]).do = "free" /\ Head(todo[t]).on = m
      /\ owner' = [owner EXCEPT ![m] = None]
  BY <1>1 DEF Release, At, On
<1>3. PICK L \in SUBSET Tokens, M \in Ends :
        Faithful(t, L) /\ Runs(t, L, todo[t], M) /\ Allows(t, L, Head(todo[t]))
  BY <1>2, StepHolds
<1>4. "ended" \notin L /\ m \in Locks \cap L /\ (m = "gil" => "new" \notin L)
  BY <1>2, <1>3 DEF Allows
<1>5. PICK K : K = IF m = "network" THEN L \ {"network", "telling"} ELSE L \ {m}
  OBVIOUS
<1>6. After(L, Head(todo[t])) = K /\ K \in SUBSET Tokens
  BY <1>2, <1>5 DEF After
<1>7. Runs(t, K, <<>>, K) /\ <<>> \in Seq(Steps)
  BY <1>6, RunsNothing
<1>8. t # None /\ owner \in [Locks -> AllThreads \cup {None}] /\ owner[m] = t
  BY <1>3, <1>4, ApiAssumption DEF AllThreads, ApiInv, ApiTypes, Faithful
<1>9. \A l \in Locks : owner'[l] = IF l = m THEN None ELSE owner[l]
  BY <1>2, <1>8
<1>10. Resting(Net) => Resting(Net)'
  BY <1>2, NetRests
<1>11. Faithful(t, K)'
  <2>1. \A l \in Locks : l \in K <=> l \in L /\ l # m
    BY <1>5 DEF Locks
  <2>2. /\ "booting" \in K <=> "booting" \in L
        /\ "telling" \in K => "telling" \in L /\ m # "network"
        /\ "off" \in K <=> "off" \in L
        /\ "ended" \in K <=> "ended" \in L
        /\ "new" \in K <=> "new" \in L
    BY <1>4, <1>5 DEF Locks
  <2>3. "new" \in K => "gil" \in K
    BY <1>3, <1>4, <2>1, <2>2 DEF Faithful, Locks
  <2>4. "telling" \in K => owner'["network"] = Net
    BY <1>3, <1>9, <2>2 DEF Faithful, Locks
  <2> QED
    BY <1>2, <1>3, <1>8, <1>9, <1>10, <2>1, <2>2, <2>3, <2>4 DEF Faithful
<1>12. ASSUME NEW u \in AllThreads \ {t}, NEW N \in SUBSET Tokens, Faithful(u, N)
       PROVE  Faithful(u, N)'
  <2>1. u # None
    BY ApiAssumption DEF AllThreads
  <2>2. m \notin N
    BY <1>4, <1>8, <1>12 DEF Faithful
  <2>3. \A l \in Locks : (l \in N => owner'[l] = u) /\ (owner'[l] = u => owner[l] = u)
    BY <1>9, <1>12, <2>1, <2>2 DEF Faithful
  <2>4. "telling" \in N => owner'["network"] = Net
    BY <1>8, <1>9, <1>12 DEF Faithful, Locks
  <2> QED
    BY <1>2, <1>10, <1>12, <2>3, <2>4 DEF Faithful
<1>13. AllFollow' /\ todo' \in [AllThreads -> Seq(Steps)]
  BY <1>2, <1>3, <1>6, <1>7, <1>11, <1>12, StepFollowed
<1>14. owner' \in [Locks -> AllThreads \cup {None}]
  BY <1>2, <1>8
<1>15. GilOfPython'
  BY <1>2, <1>9 DEF ApiInv, GilOfPython, Locks
<1> QED
  BY <1>2, <1>10, <1>13, <1>14, <1>15 DEF ApiInv, ApiTypes, EndedRests, OneGlobalAgent

\* The global agent is made, by one thread at most when the GIL is kept.
LEMMA AgentKeeps ==
  ASSUME ApiInv, NEW t \in AllThreads, SetAgent(t)
  PROVE  ApiInv'
<1>1. /\ ~Resting(t) /\ UNCHANGED <<python, observed, owner, loop, leaked>> /\ Go(t, <<>>)
      /\ Head(todo[t]).do = "agent" /\ made' = made + 1
  BY DEF SetAgent, At
<1>2. PICK L \in SUBSET Tokens, M \in Ends :
        Faithful(t, L) /\ Runs(t, L, todo[t], M) /\ Allows(t, L, Head(todo[t]))
  BY <1>1, StepHolds
<1>3. python /\ ~observed => "new" \in L /\ made = 0 /\ owner["gil"] = t
  BY <1>1, <1>2 DEF Allows, Faithful, Locks
<1>4. PICK K : K = L \ {"new"}
  OBVIOUS
<1>5. After(L, Head(todo[t])) = K /\ K \in SUBSET Tokens
  BY <1>1, <1>4 DEF After
<1>6. Runs(t, K, <<>>, K) /\ <<>> \in Seq(Steps)
  BY <1>5, RunsNothing
<1>7. Resting(Net) => Resting(Net)'
  BY <1>1, NetRests
<1>8. Faithful(t, K)'
  <2>1. \A m \in Locks : m \in K <=> m \in L
    BY <1>4 DEF Locks
  <2>2. /\ "booting" \in K <=> "booting" \in L
        /\ "telling" \in K <=> "telling" \in L
        /\ "off" \in K <=> "off" \in L
        /\ "ended" \in K <=> "ended" \in L
        /\ "new" \notin K
    BY <1>4
  <2> QED
    BY <1>1, <1>2, <1>7, <2>1, <2>2 DEF Faithful
<1>9. ASSUME NEW u \in AllThreads \ {t}, NEW N \in SUBSET Tokens, Faithful(u, N)
      PROVE  Faithful(u, N)'
  <2>1. "new" \notin N
    BY <1>3, <1>9 DEF Faithful, Locks
  <2> QED
    BY <1>1, <1>7, <1>9, <2>1 DEF Faithful
<1>10. AllFollow' /\ todo' \in [AllThreads -> Seq(Steps)]
  BY <1>1, <1>2, <1>5, <1>6, <1>8, <1>9, StepFollowed
<1>11. OneGlobalAgent' /\ made' \in Nat
  <2>1. made \in Nat
    BY DEF ApiInv, ApiTypes
  <2>2. made' \in Nat /\ (made = 0 => made' <= 1)
    BY <1>1, <2>1
  <2> QED
    BY <1>1, <1>3, <2>2 DEF OneGlobalAgent
<1> QED
  BY <1>1, <1>7, <1>10, <1>11 DEF ApiInv, ApiTypes, GilOfPython, EndedRests

\* The network thread has ended.
LEMMA JoinKeeps ==
  ASSUME ApiInv, NEW t \in AllThreads, Join(t)
  PROVE  ApiInv'
<1>1. /\ ~Resting(t) /\ UNCHANGED <<python, observed, owner, made, leaked>> /\ Go(t, <<>>)
      /\ Head(todo[t]).do = "join" /\ loop = "ended" /\ loop' = "off"
  BY DEF Join, At
<1>2. PICK L \in SUBSET Tokens, M \in Ends :
        Faithful(t, L) /\ Runs(t, L, todo[t], M) /\ Allows(t, L, Head(todo[t]))
  BY <1>1, StepHolds
<1>3. t = Main
  BY <1>1, <1>2 DEF Allows
<1>4. PICK K : K = L \cup {"off"}
  OBVIOUS
<1>5. After(L, Head(todo[t])) = K /\ K \in SUBSET Tokens
  BY <1>1, <1>4 DEF After, Tokens
<1>6. Runs(t, K, <<>>, K) /\ <<>> \in Seq(Steps)
  BY <1>5, RunsNothing
<1>7. Resting(Net) => Resting(Net)'
  BY <1>1, NetRests
<1>8. Faithful(t, K)'
  <2>1. \A m \in Locks : m \in K <=> m \in L
    BY <1>4 DEF Locks
  <2>2. /\ "booting" \in K <=> "booting" \in L
        /\ "telling" \in K <=> "telling" \in L
        /\ "ended" \in K <=> "ended" \in L
        /\ "new" \in K <=> "new" \in L
        /\ "gil" \in K <=> "gil" \in L
    BY <1>4
  <2>3. "booting" \notin L /\ "telling" \notin L
    BY <1>1, <1>2 DEF Faithful
  <2> QED
    BY <1>1, <1>2, <1>3, <1>7, <2>1, <2>2, <2>3 DEF Faithful
<1>9. ASSUME NEW u \in AllThreads \ {t}, NEW N \in SUBSET Tokens, Faithful(u, N)
      PROVE  Faithful(u, N)'
  <2>1. "booting" \notin N /\ "telling" \notin N /\ "off" \notin N
    BY <1>1, <1>9 DEF Faithful
  <2> QED
    BY <1>1, <1>7, <1>9, <2>1 DEF Faithful
<1>10. AllFollow' /\ todo' \in [AllThreads -> Seq(Steps)]
  BY <1>1, <1>2, <1>5, <1>6, <1>8, <1>9, StepFollowed
<1> QED
  BY <1>1, <1>7, <1>10 DEF ApiInv, ApiTypes, GilOfPython, EndedRests, OneGlobalAgent, Loops

\* The network thread changes the state of its loop.
LEMMA TurnKeeps ==
  ASSUME ApiInv, Turn
  PROVE  ApiInv'
<1>1. PICK do \in DOMAIN Becomes : At(Net, do) /\ loop' = Becomes[do]
  BY DEF Turn
<1>2. /\ ~Resting(Net) /\ UNCHANGED <<python, observed, owner, made, leaked>> /\ Go(Net, <<>>)
      /\ Head(todo[Net]).do = do /\ Net \in AllThreads
  BY <1>1 DEF Turn, At, AllThreads
<1>3. PICK L \in SUBSET Tokens, M \in Ends :
        /\ Faithful(Net, L) /\ Runs(Net, L, todo[Net], M) /\ Allows(Net, L, Head(todo[Net]))
        /\ Runs(Net, After(L, Head(todo[Net])), Tail(todo[Net]), M)
  BY <1>2, StepHolds
<1>4. PICK K : K = After(L, Head(todo[Net]))
  OBVIOUS
<1>5. K \in SUBSET Tokens
  BY <1>3, <1>4, AfterToken
<1>6. Runs(Net, K, <<>>, K) /\ <<>> \in Seq(Steps)
  BY <1>5, RunsNothing
<1>7. todo[Net] \in Seq(Steps) /\ todo[Net] # <<>> /\ Tail(todo[Net]) \in Seq(Steps)
  <2>1. todo[Net] \in Seq(Steps) /\ todo[Net] # <<>>
    BY <1>2, StepHolds
  <2> QED
    BY <2>1
<1>8. todo'[Net] = Tail(todo[Net])
  <2>1. todo' = [todo EXCEPT ![Net] = <<>> \o Tail(todo[Net])] /\ todo \in [AllThreads -> Seq(Steps)]
    BY <1>2 DEF Go, ApiInv, ApiTypes
  <2>2. <<>> \o Tail(todo[Net]) = Tail(todo[Net])
    BY <1>7
  <2> QED
    BY <1>2, <2>1, <2>2
<1>9. do \in {"ready", "tell", "ended"} /\ loop \notin {"off", "ended"}
  BY <1>1, <1>2 DEF Becomes, ApiInv, EndedRests
<1>10. /\ do = "ready" => L = {"network", "booting"} /\ K = {"network"} /\ loop' = "run"
       /\ do = "tell" => L = {"network"} /\ K = {"network", "telling"} /\ loop' = "telling"
       /\ do = "ended" => L = {} /\ K = {"ended"} /\ loop' = "ended"
  <2>1. CASE do = "ready"
    <3>1. L = {"network", "booting"} /\ K = L \ {"booting"} /\ loop' = "run"
      BY <1>1, <1>2, <1>3, <1>4, <2>1 DEF Allows, After, Becomes
    <3> QED
      BY <2>1, <3>1
  <2>2. CASE do = "tell"
    <3>1. L = {"network"} /\ K = L \cup {"telling"} /\ loop' = "telling"
      BY <1>1, <1>2, <1>3, <1>4, <2>2 DEF Allows, After, Becomes
    <3> QED
      BY <2>2, <3>1
  <2>3. CASE do = "ended"
    <3>1. L = {} /\ K = {"ended"} /\ loop' = "ended"
      BY <1>1, <1>2, <1>3, <1>4, <2>3 DEF Allows, After, Becomes
    <3> QED
      BY <2>3, <3>1
  <2> QED
    BY <1>9, <2>1, <2>2, <2>3
<1>11. do = "ended" => Resting(Net)'
  <2>1. SUFFICES ASSUME do = "ended"
                 PROVE  Tail(todo[Net]) = <<>>
    BY <1>8 DEF Resting
  <2>2. Runs(Net, K, Tail(todo[Net]), M) /\ "ended" \in K
    BY <1>3, <1>4, <1>10, <2>1
  <2>3. CASE Tail(todo[Net]) # <<>>
    <3>1. Allows(Net, K, Head(Tail(todo[Net])))
      BY <1>7, <2>2, <2>3, RunsHead
    <3> QED
      BY <2>2, <3>1 DEF Allows
  <2> QED
    BY <2>3
<1>12. Faithful(Net, K)'
  <2>1. \A m \in Locks : m \in K <=> m \in L
    BY <1>9, <1>10 DEF Locks
  <2>2. "booting" \notin K /\ "off" \notin K /\ "new" \notin K /\ loop' # "boot"
    BY <1>9, <1>10
  <2>3. "ended" \in K => do = "ended"
    BY <1>9, <1>10
  <2>4. "telling" \in K => loop' = "telling" /\ owner'["network"] = Net
    <3>1. "network" \in L => owner["network"] = Net
      BY <1>3 DEF Faithful, Locks
    <3> QED
      BY <1>2, <1>9, <1>10, <3>1
  <2>5. /\ \A m \in Locks : m \in K => owner'[m] = Net
        /\ \A m \in Locks : owner'[m] = Net => m \in K \/ (m = "model" /\ leaked')
    BY <1>2, <1>3, <2>1 DEF Faithful
  <2> QED
    BY <1>11, <2>2, <2>3, <2>4, <2>5 DEF Faithful
<1>13. ASSUME NEW u \in AllThreads \ {Net}, NEW N \in SUBSET Tokens, Faithful(u, N)
       PROVE  Faithful(u, N)'
  BY <1>2, <1>9, <1>13 DEF Faithful
<1>14. AllFollow' /\ todo' \in [AllThreads -> Seq(Steps)]
  BY <1>2, <1>3, <1>4, <1>5, <1>6, <1>12, <1>13, StepFollowed
<1>15. EndedRests' /\ loop' \in Loops
  BY <1>9, <1>10, <1>11 DEF EndedRests, Loops
<1> QED
  BY <1>2, <1>14, <1>15 DEF ApiInv, ApiTypes, GilOfPython, OneGlobalAgent

\* zactor_new: the network thread begins.
LEMMA SpawnKeeps ==
  ASSUME ApiInv, NEW t \in AllThreads, Spawn(t)
  PROVE  ApiInv'
<1>1. /\ ~Resting(t) /\ UNCHANGED <<python, observed, owner, made, leaked>> /\ loop' = "boot"
      /\ Head(todo[t]).do = "spawn" /\ todo' = [todo EXCEPT ![t] = Tail(@), ![Net] = Boot]
  BY DEF Spawn, At
<1>2. PICK L \in SUBSET Tokens, M \in Ends :
        /\ Faithful(t, L) /\ Runs(t, L, todo[t], M) /\ Allows(t, L, Head(todo[t]))
        /\ Runs(t, After(L, Head(todo[t])), Tail(todo[t]), M)
  BY <1>1, StepHolds
<1>3. t = Main /\ "off" \in L /\ "ended" \notin L /\ loop = "off"
  BY <1>1, <1>2 DEF Allows, Faithful
<1>4. Resting(Net) /\ Net \in AllThreads /\ Net # t /\ Main # Net
  BY <1>3, ApiAssumption DEF AllThreads, ApiInv, EndedRests
<1>5. PICK K : K = L \ {"off"}
  OBVIOUS
<1>6. After(L, Head(todo[t])) = K /\ K \in SUBSET Tokens
  BY <1>1, <1>5 DEF After
<1>7. PICK r \in Seq(Steps) : r = Tail(todo[t])
  <2>1. todo[t] \in Seq(Steps) /\ todo[t] # <<>>
    BY <1>1, StepHolds
  <2>2. Tail(todo[t]) \in Seq(Steps)
    BY <2>1
  <2> QED
    BY <2>2
<1>8. /\ todo' \in [AllThreads -> Seq(Steps)] /\ todo'[t] = r /\ todo'[Net] = Boot
      /\ \A u \in AllThreads \ {t, Net} : todo'[u] = todo[u]
  <2>1. todo \in [AllThreads -> Seq(Steps)] /\ Boot \in Seq(Steps)
    BY BootRuns DEF ApiInv, ApiTypes
  <2> QED
    BY <1>1, <1>4, <1>7, <2>1
<1>9. Follows(t, K)'
  <2>1. Runs(t, K, r, M)
    BY <1>2, <1>6, <1>7
  <2>2. Runs(t, K, r, M)'
    BY <1>1, <2>1, RunsSame
  <2>3. Faithful(t, K)'
    <3>1. \A m \in Locks : m \in K <=> m \in L
      BY <1>5 DEF Locks
    <3>2. /\ "booting" \in K <=> "booting" \in L
          /\ "telling" \in K <=> "telling" \in L
          /\ "ended" \notin K /\ "off" \notin K
          /\ "new" \in K <=> "new" \in L
          /\ "gil" \in K <=> "gil" \in L
      BY <1>3, <1>5
    <3> QED
      BY <1>1, <1>2, <1>4, <3>1, <3>2 DEF Faithful
  <2> QED
    BY <1>8, <2>2, <2>3 DEF Follows
<1>10. Follows(Net, {"booting"})'
  <2>1. Runs(Net, {"booting"}, Boot, {})'
    BY <1>1, BootRuns, RunsSame
  <2>2. {} \in Ends
    BY DEF Ends
  <2>3. Faithful(Net, {"booting"})'
    <3>1. PICK N \in SUBSET {"off"} : Faithful(Net, N)
      BY <1>4, RestingHolds
    <3>2. \A m \in Locks : m \notin N
      BY <3>1 DEF Locks
    <3>3. \A m \in Locks : owner'[m] = Net => m = "model" /\ leaked'
      BY <1>1, <3>1, <3>2 DEF Faithful
    <3>4. \A m \in Locks : m \notin {"booting"}
      BY DEF Locks
    <3> QED
      BY <1>1, <3>3, <3>4 DEF Faithful
  <2>4. Runs(Net, {"booting"}, todo[Net], {})'
    BY <1>8, <2>1 DEF Boot
  <2> QED
    BY <2>2, <2>3, <2>4 DEF Follows
<1>11. ASSUME NEW u \in AllThreads \ {t, Net}
       PROVE  \E N \in SUBSET Tokens : Follows(u, N)'
  <2>1. PICK N \in SUBSET Tokens : Follows(u, N)
    BY DEF ApiInv, AllFollow
  <2>2. PICK O \in Ends : Runs(u, N, todo[u], O)
    BY <2>1 DEF Follows
  <2>3. PICK x : x = todo[u]
    OBVIOUS
  <2>4. todo'[u] = x
    BY <1>8, <2>3
  <2>5. Runs(u, N, x, O)
    BY <2>2, <2>3
  <2>6. Runs(u, N, x, O)'
    BY <1>1, <2>5, RunsSame
  <2>7. Faithful(u, N)'
    BY <1>1, <1>3, <2>1 DEF Follows, Faithful
  <2>8. Follows(u, N)'
    BY <2>4, <2>6, <2>7 DEF Follows
  <2> QED
    BY <2>8
<1>12. AllFollow'
  <2>1. {"booting"} \in SUBSET Tokens
    BY DEF Tokens
  <2>2. \A u \in AllThreads : \E N \in SUBSET Tokens : Follows(u, N)'
    BY <1>6, <1>9, <1>10, <1>11, <2>1
  <2> QED
    BY <2>2 DEF AllFollow
<1>13. EndedRests' /\ loop' \in Loops
  BY <1>1 DEF EndedRests, Loops
<1> QED
  BY <1>1, <1>8, <1>12, <1>13 DEF ApiInv, ApiTypes, GilOfPython, OneGlobalAgent

\* A call of the application, a turn of the network thread.
LEMMA BeginKeeps ==
  ASSUME ApiInv, NEW t \in AllThreads, NEW p, Begins(t, p), Begin(t, p),
         UNCHANGED <<python, observed, owner, made, leaked>>,
         \/ UNCHANGED loop /\ (t = Net => loop = "run")
         \/ t = Net /\ loop = "run" /\ loop' = "leave"
  PROVE  ApiInv'
<1>1. Resting(t) /\ todo' = [todo EXCEPT ![t] = p] /\ p \in Seq(Steps)
  BY DEF Begin, Begins
<1>2. PICK L \in SUBSET {"off"} : Faithful(t, L)
  BY <1>1, RestingHolds
<1>3. PICK M \in Ends : Runs(t, L, p, M)
  <2>1. "off" \in L => t = Main
    BY <1>2 DEF Faithful
  <2> QED
    BY <2>1 DEF Begins, Ends
<1>4. /\ todo' \in [AllThreads -> Seq(Steps)] /\ todo'[t] = p
      /\ \A u \in AllThreads \ {t} : todo'[u] = todo[u]
  BY <1>1 DEF ApiInv, ApiTypes
<1>5. Follows(t, L)'
  <2>1. PICK q : q = p
    OBVIOUS
  <2>2. Runs(t, L, q, M)'
    BY <1>3, <2>1, RunsSame
  <2>3. Runs(t, L, todo[t], M)'
    BY <1>4, <2>1, <2>2
  <2>4. Faithful(t, L)'
    <3>1. "ended" \notin L /\ "telling" \notin L /\ "booting" \notin L /\ "new" \notin L
      BY <1>2
    <3>2. "off" \in L => t = Main /\ Main # Net
      BY <1>2, ApiAssumption DEF Faithful
    <3> QED
      BY <1>2, <3>1, <3>2 DEF Faithful
  <2> QED
    BY <2>3, <2>4 DEF Follows
<1>6. ASSUME NEW u \in AllThreads \ {t}
      PROVE  \E N \in SUBSET Tokens : Follows(u, N)'
  <2>1. PICK N \in SUBSET Tokens : Follows(u, N)
    BY DEF ApiInv, AllFollow
  <2>2. PICK O \in Ends : Runs(u, N, todo[u], O)
    BY <2>1 DEF Follows
  <2>3. PICK x : x = todo[u]
    OBVIOUS
  <2>4. todo'[u] = x
    BY <1>4, <2>3
  <2>5. Runs(u, N, x, O)
    BY <2>2, <2>3
  <2>6. Runs(u, N, x, O)'
    BY <2>5, RunsSame
  <2>7. Faithful(u, N)'
    <3>1. "ended" \in N => u = Net /\ Resting(Net)'
      BY <1>4, <2>1 DEF Follows, Faithful, Resting
    <3> QED
      BY <2>1, <3>1 DEF Follows, Faithful
  <2>8. Follows(u, N)'
    BY <2>4, <2>6, <2>7 DEF Follows
  <2> QED
    BY <2>8
<1>7. AllFollow'
  <2>1. L \in SUBSET Tokens
    BY DEF Tokens
  <2>2. \A u \in AllThreads : \E N \in SUBSET Tokens : Follows(u, N)'
    BY <1>5, <1>6, <2>1
  <2> QED
    BY <2>2 DEF AllFollow
<1>8. EndedRests' /\ loop' \in Loops
  <2>1. CASE t = Net
    BY <2>1 DEF EndedRests, Loops
  <2>2. CASE t # Net
    <3>1. todo'[Net] = todo[Net]
      BY <1>4, <2>2 DEF AllThreads
    <3> QED
      BY <2>2, <3>1 DEF ApiInv, ApiTypes, EndedRests, Resting
  <2> QED
    BY <2>1, <2>2
<1> QED
  BY <1>4, <1>7, <1>8 DEF ApiInv, ApiTypes, GilOfPython, OneGlobalAgent

\* Nothing runs and nothing is locked.
LEMMA ApiInitial == ApiInit => ApiInv
<1>1. SUFFICES ASSUME ApiInit
               PROVE  ApiInv
  OBVIOUS
<1>2. \A m \in Locks : owner[m] = None
  BY <1>1 DEF ApiInit
<1>3. \A t \in AllThreads : todo[t] = <<>> /\ t # None
  BY <1>1, ApiAssumption DEF ApiInit, AllThreads
<1>4. ApiTypes
  BY <1>1 DEF ApiInit, ApiTypes, Loops
<1>5. ASSUME NEW t \in AllThreads
      PROVE  Follows(t, {})
  <2>1. Runs(t, {}, <<>>, {}) /\ {} \in Ends
    BY RunsNothing DEF Ends
  <2>2. Faithful(t, {})
    BY <1>1, <1>2, <1>3 DEF Faithful, ApiInit
  <2> QED
    BY <1>3, <2>1, <2>2 DEF Follows
<1>6. AllFollow
  BY <1>5 DEF AllFollow
<1>7. GilOfPython /\ EndedRests /\ OneGlobalAgent
  <2>1. made <= 1
    BY <1>1 DEF ApiInit
  <2>2. Resting(Net)
    BY <1>3 DEF Resting, AllThreads
  <2>3. owner["gil"] = None
    BY <1>2 DEF Locks
  <2> QED
    BY <2>1, <2>2, <2>3 DEF GilOfPython, EndedRests, OneGlobalAgent
<1> QED
  BY <1>4, <1>6, <1>7 DEF ApiInv

\* The steps that every thread may take.
LEMMA LockingKeeps ==
  ASSUME ApiInv, NEW t \in AllThreads, Locking(t)
  PROVE  ApiInv'
BY TraverseKeeps, TakeKeeps, ReleaseKeeps, LogKeeps, CallbackKeeps, LeakKeeps DEF Locking

\* Every step keeps the invariant.
LEMMA ApiStep == ApiInv /\ [ApiNext]_apiVars => ApiInv'
<1>1. SUFFICES ASSUME ApiInv, [ApiNext]_apiVars
               PROVE  ApiInv'
  OBVIOUS
<1>2. Net \in AllThreads /\ Users \subseteq AllThreads /\ Net \notin Users
  BY ApiAssumption DEF AllThreads
<1>3. ASSUME NEW t \in Users, User(t)
      PROVE  ApiInv'
  <2>1. CASE CallFunction(t)
    <3>1. PICK p \in (IF python THEN PyPrograms(t) ELSE Programs(t)) : Begin(t, p)
      BY <2>1 DEF CallFunction
    <3>2. Begins(t, p)
      BY <3>1, CallStarts DEF AllStart
    <3>3. UNCHANGED <<python, observed, owner, made, loop, leaked>>
      BY <2>1 DEF CallFunction
    <3> QED
      BY <1>1, <1>2, <3>1, <3>2, <3>3, BeginKeeps
  <2>2. CASE Locking(t)
    BY <1>1, <1>2, <2>2, LockingKeeps
  <2>3. CASE InitAgent(t)
    BY <1>1, <1>2, <2>3, InitKeeps
  <2>4. CASE SetAgent(t)
    BY <1>1, <1>2, <2>4, AgentKeeps
  <2>5. CASE Spawn(t)
    BY <1>1, <1>2, <2>5, SpawnKeeps
  <2>6. CASE Await(t)
    BY <1>1, <1>2, <2>6, TraverseKeeps
  <2>7. CASE SendTerm(t)
    BY <1>1, <1>2, <2>7, StopKeeps
  <2>8. CASE Join(t)
    BY <1>1, <1>2, <2>8, JoinKeeps
  <2> QED
    BY <1>3, <2>1, <2>2, <2>3, <2>4, <2>5, <2>6, <2>7, <2>8 DEF User
<1>4. CASE Locking(Net)
  BY <1>1, <1>2, <1>4, LockingKeeps
<1>5. CASE Turn
  BY <1>1, <1>5, TurnKeeps
<1>6. CASE Handle
  <2>1. PICK p \in NetPrograms : Begin(Net, p)
    BY <1>6 DEF Handle
  <2>2. Begins(Net, p)
    BY <2>1, HandleStarts DEF AllStart
  <2>3. UNCHANGED <<python, observed, owner, made, loop, leaked>> /\ loop = "run"
    BY <1>6 DEF Handle
  <2> QED
    BY <1>1, <1>2, <2>1, <2>2, <2>3, BeginKeeps
<1>7. CASE EndLoop
  <2>1. PICK forced \in BOOLEAN : Begin(Net, Leave(forced))
    BY <1>7 DEF EndLoop
  <2>2. Begins(Net, Leave(forced))
    <3>1. Leave(forced) \in Seq(Steps) /\ Runs(Net, {}, Leave(forced), {"ended"})
      BY LeaveRuns
    <3>2. \A L \in SUBSET {"off"} : ("off" \in L => Net = Main) => L = {}
      BY ApiAssumption
    <3> QED
      BY <3>1, <3>2 DEF Begins
  <2>3. UNCHANGED <<python, observed, owner, made, leaked>> /\ loop = "run" /\ loop' = "leave"
    BY <1>7 DEF EndLoop
  <2> QED
    BY <1>1, <1>2, <2>1, <2>2, <2>3, BeginKeeps
<1>8. CASE UNCHANGED apiVars
  <2>1. AllFollow'
    <3>1. ASSUME NEW u \in AllThreads
          PROVE  \E N \in SUBSET Tokens : Follows(u, N)'
      <4>1. PICK N \in SUBSET Tokens : Follows(u, N)
        BY <1>1 DEF ApiInv, AllFollow
      <4>2. PICK O \in Ends : Runs(u, N, todo[u], O)
        BY <4>1 DEF Follows
      <4>3. PICK x : x = todo[u]
        OBVIOUS
      <4>4. todo'[u] = x
        BY <1>8, <4>3 DEF apiVars
      <4>5. Runs(u, N, x, O)
        BY <4>2, <4>3
      <4>6. Runs(u, N, x, O)'
        BY <1>8, <4>5, RunsSame DEF apiVars
      <4>7. Faithful(u, N)'
        BY <1>8, <4>1 DEF Follows, Faithful, Resting, apiVars
      <4>8. Follows(u, N)'
        BY <4>4, <4>6, <4>7 DEF Follows
      <4> QED
        BY <4>8
    <3> QED
      BY <3>1 DEF AllFollow
  <2> QED
    BY <1>1, <1>8, <2>1 DEF ApiInv, ApiTypes, GilOfPython, EndedRests, OneGlobalAgent, Resting, apiVars
<1> QED
  BY <1>1, <1>3, <1>4, <1>5, <1>6, <1>7, <1>8 DEF ApiNext, Network

\* What thread t waits for, in the order; 6 for the end of the network thread,
\* which is not in it.
Wants(t) ==
  IF At(t, "lock") \/ At(t, "pass") THEN Rank[On(t)] ELSE IF At(t, "await") THEN 2 ELSE 6

\* A thread that is waited for as the holder of l waits for something later,
\* but in the known cases.
LEMMA WaitsLater ==
  ASSUME ApiInv, NEW ts \in SUBSET AllThreads, NEW u \in ts, WaitsFor(u) # {},
         ~StopsWithGil(ts), ~ToldWithLock(ts), ~LogsWhileSending(ts), ~AsksWithLock(ts), ~leaked,
         NEW l \in DOMAIN Rank, l \in Locks => owner[l] = u, l = "booting" => u = Net /\ loop = "boot"
  PROVE  Wants(u) \in 0..5 /\ Wants(u) > Rank[l]
<1>1. At(u, "lock") \/ At(u, "pass") \/ At(u, "await") \/ At(u, "join")
  BY DEF WaitsFor
<1>2. ~Resting(u) /\ u \in AllThreads
  BY <1>1 DEF At
<1>3. PICK s \in Steps : s = Head(todo[u])
  BY <1>2, StepHolds
<1>4. PICK L \in SUBSET Tokens : Faithful(u, L) /\ Allows(u, L, s)
  BY <1>2, <1>3, StepHolds
<1>5. /\ \A do : At(u, do) <=> s.do = do
      /\ On(u) = s.on
  BY <1>2, <1>3 DEF At, On
<1>6. l \in L
  BY <1>4, RankIs DEF Faithful, Locks
<1>7. "telling" \notin L
  BY <1>4 DEF Faithful, ToldWithLock
<1>8. CASE s.do \in {"lock", "pass"}
  <2>1. s.on \in Locks
    BY <1>4, <1>8 DEF Allows
  <2>2. \A m \in Locks : m \in L => owner[m] = u
    BY <1>4 DEF Faithful
  <2>3. Below(L, s.on)
    <3>1. CASE s.do = "lock"
      BY <1>4, <3>1 DEF Allows
    <3>2. CASE s.do = "pass"
      <4>1. ~(s.on = "zyre" /\ "log" \in L)
        BY <1>5, <2>2, <3>2 DEF LogsWhileSending, Locks
      <4>2. ~(s.on = "model" /\ "model" \in L /\ u = Net)
        BY <1>5, <2>2, <3>2 DEF AsksWithLock, Locks
      <4> QED
        BY <1>4, <3>2, <4>1, <4>2 DEF Allows
    <3> QED
      BY <1>8, <3>1, <3>2
  <2>4. Rank[l] < Rank[s.on]
    BY <1>6, <1>7, <2>3 DEF Below
  <2>5. Wants(u) = Rank[s.on]
    BY <1>5, <1>8 DEF Wants
  <2> QED
    BY <2>1, <2>4, <2>5, RankIs
<1>9. CASE s.do = "await"
  <2>1. u = Main /\ l \in {"gil", "model"}
    BY <1>4, <1>6, <1>9 DEF Allows
  <2>2. Wants(u) = 2
    BY <1>5, <1>9 DEF Wants
  <2> QED
    BY <2>1, <2>2, RankIs
<1>10. CASE s.do = "join"
  <2>1. u = Main /\ l = "gil"
    BY <1>4, <1>6, <1>10 DEF Allows, Outside
  <2>2. python
    BY <2>1, ApiAssumption DEF ApiInv, GilOfPython, Locks
  <2>3. StopsWithGil(ts)
    BY <1>5, <1>10, <2>2 DEF StopsWithGil
  <2> QED
    BY <2>3
<1> QED
  BY <1>1, <1>5, <1>8, <1>9, <1>10

\* The network thread waits for a lock when it waits.
LEMMA NetWants ==
  ASSUME ApiInv, WaitsFor(Net) # {}
  PROVE  Wants(Net) \in 0..5
<1>1. At(Net, "lock") \/ At(Net, "pass") \/ At(Net, "await") \/ At(Net, "join")
  BY DEF WaitsFor
<1>2. ~Resting(Net) /\ Net \in AllThreads
  BY <1>1 DEF At, AllThreads
<1>3. PICK s \in Steps : s = Head(todo[Net])
  BY <1>2, StepHolds
<1>4. PICK L \in SUBSET Tokens : Allows(Net, L, s)
  BY <1>2, <1>3, StepHolds
<1>5. /\ \A do : At(Net, do) <=> s.do = do
      /\ On(Net) = s.on
  BY <1>2, <1>3 DEF At, On
<1>6. s.do \in {"lock", "pass"}
  BY <1>1, <1>4, <1>5, ApiAssumption DEF Allows
<1>7. s.on \in Locks
  BY <1>4, <1>6 DEF Allows
<1> QED
  BY <1>5, <1>6, <1>7, RankIs DEF Wants

\* Of threads that wait for each other, the one that waits for the last thing
\* in the order would wait for a later one.
LEMMA NoOtherDeadlock == ApiInv => OnlyKnownDeadlocks
<1>1. SUFFICES ASSUME ApiInv, NEW ts \in SUBSET AllThreads, Deadlocked(ts),
                      ~StopsWithGil(ts), ~ToldWithLock(ts), ~LogsWhileSending(ts), ~AsksWithLock(ts),
                      ~leaked
               PROVE  FALSE
  BY DEF OnlyKnownDeadlocks
<1>2. \A t \in ts : WaitsFor(t) # {} /\ \E u \in ts : u \in WaitsFor(t)
  BY <1>1 DEF Deadlocked
<1>3. ASSUME NEW t \in ts, Wants(t) \in 0..5
      PROVE  \E u \in ts : Wants(u) \in 0..5 /\ Wants(u) > Wants(t)
  <2>1. PICK u \in ts : u \in WaitsFor(t) /\ WaitsFor(u) # {}
    BY <1>2
  <2>2. CASE At(t, "lock") \/ At(t, "pass")
    <3>1. PICK m : m = On(t)
      OBVIOUS
    <3>2. owner[m] = u /\ Wants(t) = Rank[m]
      BY <2>1, <2>2, <3>1 DEF WaitsFor, Wants, At
    <3>3. m \in Locks
      <4>1. ~Resting(t) /\ t \in AllThreads
        BY <2>2 DEF At
      <4>2. PICK L \in SUBSET Tokens : Allows(t, L, Head(todo[t]))
        BY <1>1, <4>1, StepHolds
      <4> QED
        BY <2>2, <3>1, <4>2 DEF Allows, At, On
    <3>4. m \in DOMAIN Rank /\ m # "booting"
      BY <3>3, RankIs DEF Locks
    <3>5. Wants(u) \in 0..5 /\ Wants(u) > Rank[m]
      BY <1>1, <2>1, <3>2, <3>4, WaitsLater
    <3> QED
      BY <3>2, <3>5
  <2>3. CASE ~(At(t, "lock") \/ At(t, "pass")) /\ At(t, "await")
    <3>1. u = Net /\ loop = "boot" /\ Wants(t) = 2
      BY <2>1, <2>3 DEF WaitsFor, Wants, At
    <3>2. "booting" \in DOMAIN Rank /\ "booting" \notin Locks /\ Rank["booting"] = 2
      BY RankIs DEF Locks
    <3>3. Wants(u) \in 0..5 /\ Wants(u) > Rank["booting"]
      BY <1>1, <2>1, <3>1, <3>2, WaitsLater
    <3> QED
      BY <3>1, <3>2, <3>3
  <2> QED
    BY <1>3, <2>2, <2>3 DEF Wants
<1>4. \E t \in ts : Wants(t) \in 0..5
  <2>1. PICK t \in ts : TRUE
    BY <1>1 DEF Deadlocked
  <2>2. PICK u \in ts : u \in WaitsFor(t) /\ WaitsFor(u) # {}
    BY <1>2
  <2>3. At(t, "lock") \/ At(t, "pass") \/ At(t, "await") \/ At(t, "join")
    BY <2>2 DEF WaitsFor
  <2>4. CASE At(t, "lock") \/ At(t, "pass")
    <3>1. ~Resting(t) /\ t \in AllThreads
      BY <2>4 DEF At
    <3>2. PICK L \in SUBSET Tokens : Allows(t, L, Head(todo[t]))
      BY <1>1, <3>1, StepHolds
    <3>3. On(t) \in Locks
      BY <2>4, <3>2 DEF Allows, At, On
    <3>4. Wants(t) \in 0..5
      BY <2>4, <3>3, RankIs DEF Wants
    <3> QED
      BY <3>4
  <2>5. CASE ~(At(t, "lock") \/ At(t, "pass"))
    <3>1. u = Net
      BY <2>2, <2>5 DEF WaitsFor
    <3>2. Wants(u) \in 0..5
      BY <1>1, <2>2, <3>1, NetWants
    <3> QED
      BY <3>2
  <2> QED
    BY <2>4, <2>5
<1> DEFINE Reaches(k) == \E t \in ts : Wants(t) \in 0..5 /\ Wants(t) >= k
<1>5. Reaches(0)
  BY <1>4
<1>6. \A k \in 0..5 : Reaches(k) => Reaches(k + 1)
  <2>1. SUFFICES ASSUME NEW k \in 0..5, Reaches(k)
                 PROVE  Reaches(k + 1)
    OBVIOUS
  <2>2. PICK t \in ts : Wants(t) \in 0..5 /\ Wants(t) >= k
    BY <2>1
  <2>3. PICK u \in ts : Wants(u) \in 0..5 /\ Wants(u) > Wants(t)
    BY <1>3, <2>2
  <2>4. Wants(u) >= k + 1
    BY <2>2, <2>3
  <2> QED
    BY <2>3, <2>4
<1>7. ~Reaches(6)
  <2>1. \A n \in 0..5 : ~(n >= 6)
    OBVIOUS
  <2> QED
    BY <2>1
<1> HIDE DEF Reaches
<1>8. Reaches(1) /\ Reaches(2) /\ Reaches(3)
  <2>1. Reaches(0 + 1)
    BY <1>5, <1>6
  <2>2. Reaches(1 + 1)
    BY <1>6, <2>1
  <2>3. Reaches(2 + 1)
    BY <1>6, <2>2
  <2> QED
    BY <2>1, <2>2, <2>3
<1>9. Reaches(4 + 1)
  <2>1. Reaches(3 + 1)
    BY <1>6, <1>8
  <2> QED
    BY <1>6, <2>1
<1>10. Reaches(5 + 1)
  BY <1>6, <1>9
<1> QED
  BY <1>7, <1>10

\* A call, a callback and the network thread follow the order of the locks.
THEOREM ApiInvariant == ApiSpec => []ApiInv
<1> QED
  BY ApiInitial, ApiStep, PTL DEF ApiSpec

\* Threads that wait for each other for ever are in one of the known cases: the locks
\* are taken in one order, callbacks called without them (igs_core.c, igs_network.c).
THEOREM KnownDeadlocksOnly == ApiSpec => []OnlyKnownDeadlocks
<1> QED
  BY ApiInvariant, NoOtherDeadlock, PTL

\* Python threads make one global agent, as a call keeps the GIL from the test of
\* core_agent to its assignment, unless observers of another agent are told of it
\* in between (core_init_agent, igs_core.c).
THEOREM GlobalAgentOnce == ApiSpec => []OneGlobalAgent
<1>1. ApiInv => OneGlobalAgent
  BY DEF ApiInv
<1> QED
  BY <1>1, ApiInvariant, PTL
=============================================================================
