--------------------------- MODULE DataFlowProofs ---------------------------
(***************************************************************************)
(* Proofs about the data flow between two processes, for any agents,       *)
(* inputs, mappings and constraints and without the bounds of TLC.         *)
(***************************************************************************)
EXTENDS DataFlow, FiniteSetTheorems, SequenceTheorems, TLAPS

In(queue) == {queue[k] : k \in 1..Len(queue)}

-----------------------------------------------------------------------------
(***************************************************************************)
(* The inductive invariants.                                               *)
(***************************************************************************)
Handling == hand.phase \in {"walk", "call"}

\* What the phase of the publication being handled says of its other fields.
Posture ==
  /\ Handling => hand.from # None
  /\ ~Handling => hand.agent = None
  /\ hand.phase = "call" => hand.agent # None

\* A process that no user froze is not frozen.
Thawed == churn["freeze"] = 0 => ~frozen

Types == TypeOK /\ Posture /\ Thawed

\* Values of one publisher are queued, handled and held in the order of the
\* writes.
Queue(p) == {m \in In(publication) \cup In(pipe) : m.from = p}

Sorted(queue) ==
  \A j, k \in 1..Len(queue) :
    j < k /\ queue[j].from = queue[k].from => queue[j].value <= queue[k].value

\* Value n of p is none that is still to be handled has been overtaken by.
Oldest(p, n) == n <= output[p] /\ \A m \in Queue(p) : n <= m.value

QueuesSorted == Sorted(publication) /\ Sorted(pipe)
QueuesWritten == \A p \in Publishers : \A m \in Queue(p) : m.value <= output[p]
HandOldest == Handling /\ ~hand.reply => Oldest(hand.from, hand.value)
HeldBefore(v) ==
  v.from # None /\ ~v.reply =>
    /\ Oldest(v.from, v.value)
    /\ Handling /\ ~hand.reply /\ hand.from = v.from => v.value <= hand.value
InputsOldest == \A a \in Locals, i \in Inputs : HeldBefore(input[a][i])

Ordered == QueuesSorted /\ QueuesWritten /\ HandOldest /\ InputsOldest

\* The walk under way has still to write input i of a, mapped to p.
Ahead(a, i, p) == \E j \in 1..Len(mapping[a]) : hand.cursor < j /\ mapping[a][j] = <<i, p>>
Serving(a, i, p) ==
  /\ Handling /\ hand.from = p /\ a \notin hand.contacted
  /\ hand.agent = a => Ahead(a, i, p)

\* A value owed to an input is queued or being handled, and will be accepted.
OnItsWay(a, i, p, n) ==
  \/ p \in known /\ Published(p, n) \in In(publication)
  \/ Published(p, n) \in In(pipe)
  \/ Serving(a, i, p) /\ hand.value = n
Wanted(a, i, p, n) == a \in active /\ ~frozen /\ <<i, p>> \in MapSet(a) /\ Accepts(a, i, n)
Owing ==
  ~jumped => \A a \in Locals, i \in Inputs, p \in Publishers, n \in Numbers :
               <<a, i, p, n>> \in owed => Wanted(a, i, p, n) /\ OnItsWay(a, i, p, n)

\* The last news of r on their way, of what the other process said of r.
News == {"EXTERNAL_DEFINITION", "REMOTE_AGENT_EXIT"}
NewsOf(m, r) == m.agent = r /\ m.type \in News
NoNews(r) == \A k \in 1..Len(private) : ~NewsOf(private[k], r)
LastNews(r, type) ==
  \E k \in 1..Len(private) :
    /\ NewsOf(private[k], r) /\ private[k].type = type
    /\ \A l \in 1..Len(private) : k < l => ~NewsOf(private[l], r)
Announced(r) == r \in present /\ r \notin announce
Informed ==
  \A r \in Remotes :
    IF Announced(r)
    THEN LastNews(r, "EXTERNAL_DEFINITION") \/ (r \in known /\ NoNews(r))
    ELSE LastNews(r, "REMOTE_AGENT_EXIT") \/ (r \notin known /\ NoNews(r))

\* A value that an agent asked for is requested, on its way or being handled.
NoExit(r) == \A m \in In(private) : ~(m.type = "REMOTE_AGENT_EXIT" /\ m.agent = r)
Asked(r) ==
  \/ r \in pending \/ r \in In(request)
  \/ \E m \in In(private) : m.type = "CURRENT_OUTPUTS" /\ m.agent = r
Lacks(a, i, r) ==
  /\ a \in active /\ a \notin remap
  /\ r \in known /\ Announced(r) /\ NoExit(r)
  /\ <<i, r>> \in MapSet(a) /\ input[a][i] = NoValue
  /\ \A n \in Numbers : Accepts(a, i, n)
Asking ==
  churn["freeze"] = 0 /\ ~jumped =>
    \A a \in Requesting, i \in Inputs, r \in Remotes :
      Lacks(a, i, r) => Asked(r) \/ Serving(a, i, r)

DInv == Types /\ Ordered /\ Owing /\ Informed /\ Asking

-----------------------------------------------------------------------------
(***************************************************************************)
(* Queues.                                                                 *)
(***************************************************************************)
USE DEF farVars, agentVars, remoteVars, threadVars, channels, history

\* What is sent comes last in the queue.
LEMMA AppendFacts ==
  ASSUME NEW S, NEW queue \in Seq(S), NEW m \in S
  PROVE  /\ Append(queue, m) \in Seq(S)
         /\ Len(Append(queue, m)) = Len(queue) + 1 /\ Len(queue) \in Nat
         /\ \A k \in 1..Len(queue) : Append(queue, m)[k] = queue[k]
         /\ Append(queue, m)[Len(queue) + 1] = m
         /\ In(Append(queue, m)) = In(queue) \cup {m}
<1>1. /\ Append(queue, m) \in Seq(S)
      /\ Len(Append(queue, m)) = Len(queue) + 1 /\ Len(queue) \in Nat
      /\ \A k \in 1..Len(queue) : Append(queue, m)[k] = queue[k]
      /\ Append(queue, m)[Len(queue) + 1] = m
  OBVIOUS
<1>2. In(Append(queue, m)) \subseteq In(queue) \cup {m}
  BY <1>1 DEF In
<1>3. In(queue) \subseteq In(Append(queue, m))
  BY <1>1 DEF In
<1>4. m \in In(Append(queue, m))
  BY <1>1 DEF In
<1> QED BY <1>1, <1>2, <1>3, <1>4

\* What is left of a queue whose first message is taken.
LEMMA TailFacts ==
  ASSUME NEW S, NEW queue \in Seq(S), queue # <<>>
  PROVE  /\ Head(queue) \in S /\ Tail(queue) \in Seq(S)
         /\ Len(queue) \in Nat \ {0} /\ Head(queue) = queue[1]
         /\ Len(Tail(queue)) = Len(queue) - 1
         /\ \A k \in 1..Len(queue) - 1 : Tail(queue)[k] = queue[k + 1]
         /\ In(queue) = {Head(queue)} \cup In(Tail(queue))
<1>1. /\ Head(queue) \in S /\ Tail(queue) \in Seq(S)
      /\ Len(queue) \in Nat \ {0} /\ Head(queue) = queue[1]
      /\ Len(Tail(queue)) = Len(queue) - 1
      /\ \A k \in 1..Len(queue) - 1 : Tail(queue)[k] = queue[k + 1]
  OBVIOUS
<1>2. In(Tail(queue)) \subseteq In(queue)
  BY <1>1 DEF In
<1>3. Head(queue) \in In(queue)
  BY <1>1 DEF In
<1>4. ASSUME NEW k \in 1..Len(queue), k # 1 PROVE queue[k] \in In(Tail(queue))
  <2>1. k - 1 \in 1..Len(Tail(queue)) /\ Tail(queue)[k - 1] = queue[k]
    BY <1>1, <1>4
  <2> QED BY <2>1 DEF In
<1>5. In(queue) \subseteq {Head(queue)} \cup In(Tail(queue))
  BY <1>1, <1>4 DEF In
<1> QED BY <1>1, <1>2, <1>3, <1>5

LEMMA InType == ASSUME NEW S, NEW queue \in Seq(S) PROVE In(queue) \subseteq S
<1>1. \A k \in 1..Len(queue) : queue[k] \in S
  OBVIOUS
<1> QED BY <1>1 DEF In

\* The elements of a list that are to stay, and no other, are left.
LEMMA StayingFacts ==
  ASSUME NEW S, NEW list \in Seq(S), NEW gone, NEW f \in Staying(list, gone)
  PROVE  /\ [k \in DOMAIN f |-> list[f[k]]] \in Seq(S)
         /\ \A j \in 1..Len(list) : list[j] \notin gone => \E k \in DOMAIN f : f[k] = j
<1> DEFINE stay == {j \in DOMAIN list : list[j] \notin gone}
<1>1. DOMAIN list = 1..Len(list) /\ Len(list) \in Nat
  OBVIOUS
<1>2. IsFiniteSet(stay)
  <2>1. IsFiniteSet(1..Len(list))
    BY <1>1, FS_Interval
  <2> QED BY <1>1, <2>1, FS_Subset
<1>3. Cardinality(stay) \in Nat
  BY <1>2, FS_CardinalityType
<1>4. f \in [1..Cardinality(stay) -> stay] /\ stay = {f[k] : k \in DOMAIN f}
  BY DEF Staying
<1> HIDE DEF stay
<1>5. \A k \in 1..Cardinality(stay) : list[f[k]] \in S
  BY <1>1, <1>4 DEF stay
<1>6. [k \in DOMAIN f |-> list[f[k]]] = [k \in 1..Cardinality(stay) |-> list[f[k]]]
  BY <1>4
<1>7. [k \in 1..Cardinality(stay) |-> list[f[k]]] \in Seq(S)
  BY <1>3, <1>5
<1>8. ASSUME NEW j \in 1..Len(list), list[j] \notin gone
      PROVE  \E k \in DOMAIN f : f[k] = j
  <2>1. j \in stay
    BY <1>1, <1>8 DEF stay
  <2> QED BY <1>4, <2>1
<1> QED BY <1>6, <1>7, <1>8

-----------------------------------------------------------------------------
(***************************************************************************)
(* Types.                                                                  *)
(***************************************************************************)
LEMMA NumbersAreNatural == Numbers \subseteq Nat /\ 0 \in Numbers
BY DataFlowAssumption DEF Numbers

LEMMA InitTypes == Init => Types
<1>1. Idle \in [phase : {"idle", "walk", "call", "stuck"}, from : Publishers \cup {None},
                value : Numbers, reply : BOOLEAN, agent : Locals \cup {None},
                cursor : Nat, contacted : SUBSET Locals]
  BY NumbersAreNatural DEF Idle
<1>2. NoValue \in [from : Publishers \cup {None}, value : Numbers, reply : BOOLEAN]
  BY NumbersAreNatural DEF NoValue
<1>3. Init => TypeOK
  <2> SUFFICES ASSUME Init PROVE TypeOK
    OBVIOUS
  <2>1. hand.agent = None /\ hand.cursor = 0
    BY DEF Init, Idle
  <2>2. {farFrozen, frozen, jumped} \subseteq BOOLEAN
    BY DEF Init
  <2>3. /\ output \in [Publishers -> Numbers]
        /\ input \in [Locals -> [Inputs -> [from : Publishers \cup {None}, value : Numbers,
                                           reply : BOOLEAN]]]
        /\ filterQueue \in [Remotes -> Seq(BOOLEAN)]
        /\ churn \in [Kinds -> Nat]
    BY <1>2, NumbersAreNatural DEF Init
  <2>4. mapping \in [Locals -> Seq(Elements)]
    BY DataFlowAssumption DEF Init
  <2> QED BY <1>1, <2>1, <2>2, <2>3, <2>4 DEF Init, TypeOK
<1>4. Init => Posture /\ Thawed
  BY DEF Init, Posture, Handling, Thawed, Idle
<1> QED BY <1>3, <1>4 DEF Types

LEMMA FarTypes == ASSUME Types, Far PROVE Types'
<1> USE DEF Types, TypeOK, Posture, Handling, Thawed
<1>1. CASE AnswerRequest
  <2>1. Head(request) \in Remotes /\ Tail(request) \in Seq(Remotes)
    BY <1>1 DEF AnswerRequest
  <2>2. CurrentOutputs(Head(request)) \in Message
    BY <2>1 DEF CurrentOutputs, Message, Publishers
  <2>3. private' \in Seq(Message) /\ request' \in Seq(Remotes)
    BY <1>1, <2>1, <2>2 DEF AnswerRequest
  <2> QED BY <1>1, <2>3 DEF AnswerRequest
<1>2. ASSUME NEW r \in Remotes, SendDefinition(r) PROVE Types'
  BY <1>2, NumbersAreNatural DEF SendDefinition, Definition, Message
<1>3. ASSUME NEW r \in Remotes, FilterArrives(r) PROVE Types'
  <2>1. filterQueue[r] \in Seq(BOOLEAN) /\ Tail(filterQueue[r]) \in Seq(BOOLEAN)
    <3>1. filterQueue[r] \in Seq(BOOLEAN) /\ filterQueue[r] # <<>>
      BY <1>3 DEF FilterArrives
    <3> QED BY <3>1, TailFacts
  <2>2. filterQueue' \in [Remotes -> Seq(BOOLEAN)] /\ subscribed' \subseteq Remotes
    BY <1>3, <2>1 DEF FilterArrives
  <2> QED BY <1>3, <2>2 DEF FilterArrives
<1> QED BY <1>1, <1>2, <1>3 DEF Far

Hands == [phase : {"idle", "walk", "call", "stuck"}, from : Publishers \cup {None},
          value : Numbers, reply : BOOLEAN, agent : Locals \cup {None},
          cursor : Nat, contacted : SUBSET Locals]

\* Users who move the cursor of a list leave the rest of the walk alone.
LEMMA MoveTypes ==
  ASSUME Types, LockFree, NEW a \in Locals, NEW n \in Nat, MoveCursor(a, n),
         n <= Len(mapping'[a]),
         mapping' \in [Locals -> Seq(Elements)],
         \A b \in Locals : b # a => mapping'[b] = mapping[b]
  PROVE  /\ hand' \in Hands /\ Posture'
         /\ hand'.agent # None => hand'.cursor <= Len(mapping'[hand'.agent])
<1> USE DEF Types, TypeOK, Posture, Handling, LockFree, Hands, MoveCursor
<1>1. hand' \in Hands
  OBVIOUS
<1>2. Posture'
  OBVIOUS
<1>3. CASE hand.phase = "call" /\ hand.agent = a
  BY <1>3
<1>4. CASE hand.phase = "call" /\ hand.agent # a
  BY <1>4
<1>5. CASE hand.phase = "idle"
  BY <1>5
<1> QED BY <1>1, <1>2, <1>3, <1>4, <1>5

LEMMA WriteTypes ==
  ASSUME TypeOK, NEW p \in Publishers, WriteOutput(p)
  PROVE  /\ output' \in [Publishers -> Numbers]
         /\ output'[p] = output[p] + 1 /\ output'[p] \in Numbers /\ output[p] \in Nat
         /\ \A q \in Publishers : q # p => output'[q] = output[q]
         /\ Due(p, output'[p]) \subseteq Locals \X Inputs \X Publishers \X Numbers
<1>1. output[p] \in Nat /\ output[p] + 1 \in 0..MaxValue[p]
  <2>1. output[p] \in Nat
    BY NumbersAreNatural DEF TypeOK
  <2>2. MaxValue[p] \in Nat
    BY DataFlowAssumption
  <2> QED BY <2>1, <2>2 DEF WriteOutput
<1>2. output[p] + 1 \in Numbers
  BY <1>1 DEF Numbers
<1>3. output'[p] = output[p] + 1 /\ output' \in [Publishers -> Numbers]
  BY <1>2 DEF TypeOK, WriteOutput
<1>4. \A q \in Publishers : q # p => output'[q] = output[q]
  BY DEF TypeOK, WriteOutput
<1> QED BY <1>1, <1>2, <1>3, <1>4 DEF TypeOK, Due

\* The bound on what users do.
LEMMA UserChurn ==
  ASSUME churn \in [Kinds -> Nat], NEW kind \in Kinds \ {"freeze"}, UserOperation(kind)
  PROVE  churn' \in [Kinds -> Nat] /\ churn'["freeze"] = churn["freeze"]
<1>1. "freeze" \in Kinds /\ churn' = [churn EXCEPT ![kind] = churn[kind] + 1]
  BY DEF UserOperation, Kinds
<1> QED BY <1>1

LEMMA UserTypes == ASSUME Types, User PROVE Types'
<1> USE DEF Types, TypeOK, Posture, Handling, Thawed
<1>1. ASSUME NEW p \in Publishers, SetRemote(p) PROVE Types'
  <2>1. WriteOutput(p) /\ p \in Remotes
    BY <1>1 DEF SetRemote
  <2>2. /\ output' \in [Publishers -> Numbers] /\ output'[p] \in Numbers
        /\ Due(p, output'[p]) \subseteq Locals \X Inputs \X Publishers \X Numbers
    BY <2>1, WriteTypes
  <2>3. Published(p, output'[p]) \in [from : Remotes, value : Numbers]
    BY <2>1, <2>2 DEF Published
  <2>4. publication' \in Seq([from : Remotes, value : Numbers])
    <3>1. \/ publication' = Append(publication, Published(p, output'[p]))
          \/ publication' = publication
      BY <1>1 DEF SetRemote, Queued
    <3>2. publication \in Seq([from : Remotes, value : Numbers])
      OBVIOUS
    <3>3. Append(publication, Published(p, output'[p])) \in Seq([from : Remotes, value : Numbers])
      BY <2>3, <3>2, AppendFacts
    <3> QED BY <3>1, <3>2, <3>3
  <2>5. owed' \subseteq Locals \X Inputs \X Publishers \X Numbers
    BY <1>1, <2>2 DEF SetRemote
  <2> QED BY <1>1, <2>2, <2>4, <2>5 DEF SetRemote
<1>2. ASSUME NEW p \in Publishers, SetLocal(p) PROVE Types'
  <2>1. WriteOutput(p) /\ p \in Locals
    BY <1>2 DEF SetLocal
  <2>2. /\ output' \in [Publishers -> Numbers] /\ output'[p] \in Numbers
        /\ Due(p, output'[p]) \subseteq Locals \X Inputs \X Publishers \X Numbers
    BY <2>1, WriteTypes
  <2>3. Published(p, output'[p]) \in [from : Locals, value : Numbers]
    BY <2>1, <2>2 DEF Published
  <2>4. pipe' \in Seq([from : Locals, value : Numbers])
    <3>1. \/ pipe' = Append(pipe, Published(p, output'[p]))
          \/ pipe' = pipe
      BY <1>2 DEF SetLocal, Queued
    <3>2. pipe \in Seq([from : Locals, value : Numbers])
      OBVIOUS
    <3>3. Append(pipe, Published(p, output'[p])) \in Seq([from : Locals, value : Numbers])
      BY <2>3, <3>2, AppendFacts
    <3> QED BY <3>1, <3>2, <3>3
  <2>5. owed' \subseteq Locals \X Inputs \X Publishers \X Numbers
    BY <1>2, <2>2 DEF SetLocal
  <2> QED BY <1>2, <2>2, <2>4, <2>5 DEF SetLocal
<1>3. ASSUME NEW p \in Publishers, Mute(p) PROVE Types'
  <2>1. churn' \in [Kinds -> Nat] /\ churn'["freeze"] = churn["freeze"]
    <3>1. UserOperation("mute") /\ churn \in [Kinds -> Nat]
      BY <1>3 DEF Mute
    <3>2. "mute" \in Kinds \ {"freeze"}
      BY DEF Kinds
    <3> QED BY <3>1, <3>2, UserChurn
  <2> QED BY <1>3, <2>1 DEF Mute
<1>4. CASE FreezeFar
  BY <1>4 DEF FreezeFar, UserOperation, Kinds
<1>5. CASE Freeze
  BY <1>5 DEF Freeze, UserOperation, Kinds
<1>6. ASSUME NEW r \in Remotes, RemoteLeaves(r) PROVE Types'
  <2>1. churn' \in [Kinds -> Nat] /\ churn'["freeze"] = churn["freeze"]
    <3>1. UserOperation("remote") /\ churn \in [Kinds -> Nat]
      BY <1>6 DEF RemoteLeaves
    <3>2. "remote" \in Kinds \ {"freeze"}
      BY DEF Kinds
    <3> QED BY <3>1, <3>2, UserChurn
  <2>2. AgentExit(r) \in Message
    BY NumbersAreNatural DEF AgentExit, Message
  <2>3. private' \in Seq(Message)
    <3>1. private' = Append(private, AgentExit(r)) /\ private \in Seq(Message)
      BY <1>6 DEF RemoteLeaves
    <3> QED BY <2>2, <3>1, AppendFacts
  <2> QED BY <1>6, <2>1, <2>3 DEF RemoteLeaves
<1>7. ASSUME NEW r \in Remotes, RemoteReturns(r) PROVE Types'
  <2>1. churn' \in [Kinds -> Nat] /\ churn'["freeze"] = churn["freeze"]
    <3>1. UserOperation("remote") /\ churn \in [Kinds -> Nat]
      BY <1>7 DEF RemoteReturns
    <3>2. "remote" \in Kinds \ {"freeze"}
      BY DEF Kinds
    <3> QED BY <3>1, <3>2, UserChurn
  <2> QED BY <1>7, <2>1 DEF RemoteReturns
<1>8. ASSUME NEW a \in Locals, Activate(a) PROVE Types'
  <2>1. churn' \in [Kinds -> Nat] /\ churn'["freeze"] = churn["freeze"]
    <3>1. UserOperation("activate") /\ churn \in [Kinds -> Nat]
      BY <1>8 DEF Activate
    <3>2. "activate" \in Kinds \ {"freeze"}
      BY DEF Kinds
    <3> QED BY <3>1, <3>2, UserChurn
  <2> QED BY <1>8, <2>1 DEF Activate
<1>9. ASSUME NEW a \in Locals, Deactivate(a) PROVE Types'
  <2>1. churn' \in [Kinds -> Nat] /\ churn'["freeze"] = churn["freeze"]
    <3>1. UserOperation("activate") /\ churn \in [Kinds -> Nat]
      BY <1>9 DEF Deactivate
    <3>2. "activate" \in Kinds \ {"freeze"}
      BY DEF Kinds
    <3> QED BY <3>1, <3>2, UserChurn
  <2> QED BY <1>9, <2>1 DEF Deactivate
<1>10. ASSUME NEW a \in Locals, MappingSearch(a) PROVE Types'
  <2>1. LockFree /\ MoveCursor(a, 0) /\ mapping' = mapping
    BY <1>10 DEF MappingSearch
  <2>2. /\ hand' \in Hands /\ Posture'
        /\ hand'.agent # None => hand'.cursor <= Len(mapping'[hand'.agent])
    <3>1. 0 <= Len(mapping'[a]) /\ mapping' \in [Locals -> Seq(Elements)]
      BY <2>1
    <3> QED BY <2>1, <3>1, MoveTypes
  <2>3. churn' \in [Kinds -> Nat] /\ churn'["freeze"] = churn["freeze"]
    BY <1>10 DEF MappingSearch, UserOperation, Kinds
  <2> QED BY <1>10, <2>2, <2>3 DEF MappingSearch, Hands
<1>11. ASSUME NEW a \in Locals, NEW e \in Addable, MappingAdd(a, e) PROVE Types'
  <2>1. PICK n \in Nat :
          /\ MoveCursor(a, n) /\ n <= Len(mapping'[a])
          /\ mapping' \in [Locals -> Seq(Elements)]
          /\ \A b \in Locals : b # a => mapping'[b] = mapping[b]
    <3>1. CASE e \notin MapSet(a)
      <4>1. mapping' = [mapping EXCEPT ![a] = Append(@, e)] /\ MoveCursor(a, 0)
        BY <1>11, <3>1 DEF MappingAdd
      <4>2. mapping' \in [Locals -> Seq(Elements)] /\ Len(mapping'[a]) >= 0
        BY <4>1, DataFlowAssumption
      <4> QED BY <4>1, <4>2
    <3>2. CASE e \in MapSet(a)
      <4>1. mapping' = mapping /\ MoveCursor(a, Position(a, e))
        BY <1>11, <3>2 DEF MappingAdd
      <4>2. Position(a, e) \in 1..Len(mapping[a])
        BY <3>2 DEF Position, MapSet
      <4> QED BY <4>1, <4>2
    <3> QED BY <3>1, <3>2
  <2>2. LockFree
    BY <1>11 DEF MappingAdd
  <2>3. /\ hand' \in Hands /\ Posture'
        /\ hand'.agent # None => hand'.cursor <= Len(mapping'[hand'.agent])
    BY <2>1, <2>2, MoveTypes
  <2>4. churn' \in [Kinds -> Nat] /\ churn'["freeze"] = churn["freeze"]
    BY <1>11 DEF MappingAdd, UserOperation, Kinds
  <2>5. {jumped'} \subseteq BOOLEAN
    BY <1>11 DEF MappingAdd
  <2> QED BY <1>11, <2>1, <2>3, <2>4, <2>5 DEF MappingAdd, Hands
<1>12. ASSUME NEW a \in Locals, NEW gone, MappingRemove(a, gone) PROVE Types'
  <2>1. PICK f \in Staying(mapping[a], gone) :
          mapping' = [mapping EXCEPT ![a] = [k \in DOMAIN f |-> mapping[a][f[k]]]]
    BY <1>12 DEF MappingRemove
  <2>2. [k \in DOMAIN f |-> mapping[a][f[k]]] \in Seq(Elements)
    BY StayingFacts
  <2>3. /\ mapping' \in [Locals -> Seq(Elements)] /\ 0 <= Len(mapping'[a])
        /\ \A b \in Locals : b # a => mapping'[b] = mapping[b]
    BY <2>1, <2>2
  <2>4. LockFree /\ MoveCursor(a, 0)
    BY <1>12 DEF MappingRemove
  <2>5. /\ hand' \in Hands /\ Posture'
        /\ hand'.agent # None => hand'.cursor <= Len(mapping'[hand'.agent])
    BY <2>3, <2>4, MoveTypes
  <2>6. churn' \in [Kinds -> Nat] /\ churn'["freeze"] = churn["freeze"]
    BY <1>12 DEF MappingRemove, UserOperation, Kinds
  <2> QED BY <1>12, <2>3, <2>5, <2>6 DEF MappingRemove, Hands
<1> QED BY <1>1, <1>2, <1>3, <1>4, <1>5, <1>6, <1>7, <1>8, <1>9, <1>10, <1>11, <1>12 DEF User

\* Subscribing keeps the subscriptions to known agents and the requests to
\* agents that are subscribed to.
LEMMA ConfigureTypes ==
  ASSUME Types, NEW A \in SUBSET Locals, NEW K \in SUBSET Remotes, Configure(A, K)
  PROVE  /\ filters' = filters \cup Mapped(A, K)
         /\ pending' = pending \cup Mapped(A \cap Requesting, K) /\ pending' \subseteq filters'
         /\ filterQueue' \in [Remotes -> Seq(BOOLEAN)]
         /\ Mapped(A, K) \subseteq K
<1>1. Mapped(A, K) \subseteq K /\ Mapped(A \cap Requesting, K) \subseteq Mapped(A, K)
  BY DEF Mapped
<1>2. filters' = filters \cup Mapped(A, K)
  BY DEF Configure
<1>3. pending' = pending \cup Mapped(A \cap Requesting, K)
  BY DEF Configure, Requests
<1>4. filterQueue' \in [Remotes -> Seq(BOOLEAN)]
  <2>1. \A r \in Remotes : Append(filterQueue[r], TRUE) \in Seq(BOOLEAN)
    BY DEF Types, TypeOK
  <2> QED BY <2>1 DEF Configure, Types, TypeOK
<1> QED BY <1>1, <1>2, <1>3, <1>4 DEF Types, TypeOK

\* The next Zyre message.
LEMMA FromRemoteFacts ==
  ASSUME Types, NEW type, FromRemote(type)
  PROVE  /\ Head(private) \in Message /\ Head(private).type = type
         /\ Head(private).agent \in Remotes /\ Head(private).value \in Numbers
         /\ private' = Tail(private) /\ private' \in Seq(Message)
         /\ ~Handling
<1>1. private \in Seq(Message) /\ private # <<>>
  BY DEF Types, TypeOK, FromRemote
<1>2. Head(private) \in Message /\ Tail(private) \in Seq(Message)
  BY <1>1, TailFacts
<1> QED BY <1>2 DEF FromRemote, Message, NetworkReady, Handling

\* A publication begins to be handled, or is dropped when frozen.
LEMMA HandleTypes ==
  ASSUME NEW p \in Publishers, NEW n \in Numbers, NEW reply \in BOOLEAN,
         Handle(p, n, reply)
  PROVE  hand' \in Hands /\ Posture' /\ hand'.agent = None
<1>1. p # None
  BY DataFlowAssumption
<1>2. hand' = Idle \/ hand' = [Idle EXCEPT !.phase = "walk", !.from = p, !.value = n, !.reply = reply]
  BY DEF Handle
<1>3. CASE hand' = Idle
  BY <1>3, NumbersAreNatural DEF Idle, Hands, Posture, Handling
<1>4. CASE hand' = [Idle EXCEPT !.phase = "walk", !.from = p, !.value = n, !.reply = reply]
  <2>1. hand' = [phase |-> "walk", from |-> p, value |-> n, reply |-> reply,
                 agent |-> None, cursor |-> 0, contacted |-> {}]
    BY <1>4 DEF Idle
  <2> QED BY <1>1, <2>1 DEF Hands, Posture, Handling
<1> QED BY <1>2, <1>3, <1>4

LEMMA ReceiverTypes == ASSUME Types, Receiver PROVE Types'
<1> USE DEF Types, TypeOK, Thawed
<1>1. CASE RecvDefinition
  <2>1. /\ FromRemote("EXTERNAL_DEFINITION") /\ Configure(active, {Head(private).agent})
        /\ known' = known \cup {Head(private).agent}
    BY <1>1 DEF RecvDefinition
  <2>2. Head(private).agent \in Remotes /\ private' \in Seq(Message)
    BY <2>1, FromRemoteFacts
  <2>3. /\ filters' \subseteq known' /\ pending' \subseteq filters'
        /\ filterQueue' \in [Remotes -> Seq(BOOLEAN)]
    <3>1. {Head(private).agent} \in SUBSET Remotes /\ active \in SUBSET Locals
      BY <2>2
    <3>2. /\ filters' = filters \cup Mapped(active, {Head(private).agent})
          /\ pending' \subseteq filters' /\ filterQueue' \in [Remotes -> Seq(BOOLEAN)]
          /\ Mapped(active, {Head(private).agent}) \subseteq {Head(private).agent}
      BY <2>1, <3>1, ConfigureTypes
    <3> QED BY <2>1, <3>2
  <2> QED BY <1>1, <2>1, <2>2, <2>3 DEF RecvDefinition, Posture, Handling
<1>2. CASE RecvAgentExit
  <2>1. FromRemote("REMOTE_AGENT_EXIT")
    BY <1>2 DEF RecvAgentExit
  <2>2. Head(private).agent \in Remotes /\ private' \in Seq(Message)
    BY <2>1, FromRemoteFacts
  <2>3. filterQueue' \in [Remotes -> Seq(BOOLEAN)]
    <3>1. \A r \in Remotes : Append(filterQueue[r], FALSE) \in Seq(BOOLEAN)
      OBVIOUS
    <3> QED BY <1>2, <2>2, <3>1 DEF RecvAgentExit
  <2> QED BY <1>2, <2>2, <2>3 DEF RecvAgentExit, Posture, Handling
<1>3. CASE RecvCurrentOutputs
  <2>1. FromRemote("CURRENT_OUTPUTS")
    BY <1>3 DEF RecvCurrentOutputs
  <2>2. /\ Head(private).agent \in Publishers /\ Head(private).value \in Numbers
        /\ private' \in Seq(Message)
    BY <2>1, FromRemoteFacts DEF Publishers
  <2>3. hand' \in Hands /\ Posture' /\ hand'.agent = None
    <3>1. CASE Head(private).agent \in known
      BY <1>3, <2>2, <3>1, HandleTypes DEF RecvCurrentOutputs
    <3>2. CASE Head(private).agent \notin known
      <4>1. hand' = [Idle EXCEPT !.phase = "stuck"]
        BY <1>3, <3>2 DEF RecvCurrentOutputs
      <4> QED BY <4>1, NumbersAreNatural DEF Idle, Hands, Posture, Handling
    <3> QED BY <3>1, <3>2
  <2> QED BY <1>3, <2>2, <2>3 DEF RecvCurrentOutputs, Hands
<1>4. CASE ManageReceivedPublication
  <2>1. publication # <<>> /\ publication \in Seq([from : Remotes, value : Numbers])
    BY <1>4 DEF ManageReceivedPublication
  <2>2. /\ Head(publication) \in [from : Remotes, value : Numbers]
        /\ Tail(publication) \in Seq([from : Remotes, value : Numbers])
    BY <2>1, TailFacts
  <2>3. hand' = hand \/ (hand' \in Hands /\ Posture' /\ hand'.agent = None)
    BY <1>4, <2>2, HandleTypes DEF ManageReceivedPublication, Publishers
  <2> QED BY <1>4, <2>2, <2>3 DEF ManageReceivedPublication, Hands, Posture, Handling
<1>5. CASE ManageParent
  <2>1. pipe # <<>> /\ pipe \in Seq([from : Locals, value : Numbers])
    BY <1>5 DEF ManageParent
  <2>2. /\ Head(pipe) \in [from : Locals, value : Numbers]
        /\ Tail(pipe) \in Seq([from : Locals, value : Numbers])
    BY <2>1, TailFacts
  <2>3. hand' \in Hands /\ Posture' /\ hand'.agent = None
    BY <1>5, <2>2, HandleTypes DEF ManageParent, Publishers
  <2> QED BY <1>5, <2>2, <2>3 DEF ManageParent, Hands
<1>6. CASE NextAgent
  <2>1. hand \in Hands /\ hand.phase = "walk" /\ Posture
    BY <1>6 DEF NextAgent, Hands
  <2>2. CASE hand' = Idle
    BY <1>6, <2>2, NumbersAreNatural DEF NextAgent, Idle, Posture, Handling
  <2>3. ASSUME NEW a \in active, hand' = [hand EXCEPT !.agent = a, !.cursor = 0]
        PROVE  Types'
    <3>1. hand' \in Hands /\ Posture'
      BY <2>1, <2>3 DEF Hands, Posture, Handling
    <3>2. hand'.cursor <= Len(mapping'[hand'.agent])
      <4>1. hand'.cursor = 0 /\ hand'.agent \in Locals /\ mapping' = mapping
        BY <1>6, <2>1, <2>3 DEF NextAgent, Hands
      <4> QED BY <4>1
    <3> QED BY <1>6, <3>1, <3>2 DEF NextAgent, Hands
  <2> QED BY <1>6, <2>2, <2>3 DEF NextAgent
<1>7. CASE WalkMapping
  <2> DEFINE a == hand.agent
             rest == Matches(a, hand.cursor)
  <2>1. a \in Locals /\ a # None /\ hand.phase = "walk" /\ hand.from \in Publishers
    BY <1>7 DEF WalkMapping, Posture, Handling
  <2>2. CASE rest = {}
    <3>1. hand' = [hand EXCEPT !.contacted = @ \cup {a}, !.agent = None] /\ UNCHANGED <<input, owed>>
      BY <1>7, <2>2 DEF WalkMapping, Contacted
    <3>2. hand' \in Hands /\ Posture' /\ hand'.agent = None
      BY <2>1, <3>1 DEF Hands, Posture, Handling
    <3> QED BY <1>7, <3>1, <3>2 DEF WalkMapping, Hands
  <2>3. ASSUME NEW j \in rest,
               input' = ModelWrite(a, mapping[a][j][1]),
               hand' = [hand EXCEPT !.phase = "call", !.cursor = j],
               owed' \subseteq owed
        PROVE  Types'
    <3>1. j \in 1..Len(mapping[a])
      <4>1. hand.cursor \in Nat /\ Len(mapping[a]) \in Nat
        BY <2>1
      <4> QED BY <2>3, <4>1 DEF Matches
    <3>2. mapping[a][j][1] \in Inputs
      BY <2>1, <3>1 DEF Elements
    <3>3. input' \in [Locals -> [Inputs -> [from : Publishers \cup {None}, value : Numbers,
                                           reply : BOOLEAN]]]
      BY <2>1, <2>3, <3>2 DEF ModelWrite
    <3>4. hand' \in Hands /\ Posture' /\ hand'.cursor <= Len(mapping[hand'.agent])
      <4>1. hand \in Hands /\ hand.from # None
        BY <2>1 DEF Hands, Posture, Handling
      <4>2. j \in Nat
        BY <3>1
      <4>3. /\ hand' \in Hands /\ hand'.cursor = j /\ hand'.agent = a
            /\ hand'.from # None /\ hand'.phase = "call"
        BY <2>3, <4>1, <4>2 DEF Hands
      <4> QED BY <2>1, <3>1, <4>3 DEF Posture, Handling
    <3> QED BY <1>7, <2>3, <3>3, <3>4 DEF WalkMapping, Hands
  <2> QED BY <1>7, <2>2, <2>3 DEF WalkMapping
<1>8. CASE CallbacksReturn
  <2>1. hand.phase = "call" /\ hand.agent \in Locals /\ hand \in Hands
    BY <1>8 DEF CallbacksReturn, Posture, Hands
  <2>2. hand' \in Hands /\ Posture'
    BY <1>8, <2>1 DEF CallbacksReturn, Contacted, Hands, Posture, Handling
  <2>3. hand'.agent # None => hand'.agent = hand.agent /\ hand'.cursor = hand.cursor
    BY <1>8, <2>1 DEF CallbacksReturn, Contacted, Hands
  <2> QED BY <1>8, <2>1, <2>2, <2>3 DEF CallbacksReturn, Hands
<1>9. CASE MappingTimer
  BY <1>9 DEF MappingTimer, Posture, Handling
<1>10. ASSUME NEW a \in Locals, MappingUpdate(a) PROVE Types'
  <2>1. CASE a \in remap
    <3>1. Configure({a}, known) /\ remap' = remap \ {a}
      BY <1>10, <2>1 DEF MappingUpdate
    <3>2. /\ filters' \subseteq known /\ pending' \subseteq filters'
          /\ filterQueue' \in [Remotes -> Seq(BOOLEAN)]
      <4>1. {a} \in SUBSET Locals /\ known \in SUBSET Remotes
        OBVIOUS
      <4>2. /\ filters' = filters \cup Mapped({a}, known)
            /\ pending' \subseteq filters' /\ filterQueue' \in [Remotes -> Seq(BOOLEAN)]
            /\ Mapped({a}, known) \subseteq known
        BY <3>1, <4>1, ConfigureTypes
      <4> QED BY <4>2
    <3> QED BY <1>10, <3>1, <3>2 DEF MappingUpdate, Posture, Handling
  <2>2. CASE a \notin remap
    BY <1>10, <2>2 DEF MappingUpdate, Posture, Handling
  <2> QED BY <2>1, <2>2
<1>11. ASSUME NEW r \in Remotes, RequestTimer(r) PROVE Types'
  BY <1>11 DEF RequestTimer, Posture, Handling
<1> QED BY <1>1, <1>2, <1>3, <1>4, <1>5, <1>6, <1>7, <1>8, <1>9, <1>10, <1>11 DEF Receiver

LEMMA TypesKept == Types /\ [Next]_vars => Types'
<1> SUFFICES ASSUME Types, [Next]_vars PROVE Types'
  OBVIOUS
<1>1. CASE UNCHANGED vars
  BY <1>1 DEF vars, Types, TypeOK, Posture, Handling, Thawed
<1> QED BY <1>1, FarTypes, UserTypes, ReceiverTypes DEF Next

-----------------------------------------------------------------------------
(***************************************************************************)
(* Order of the values.                                                    *)
(***************************************************************************)
LEMMA AppendSorted ==
  ASSUME NEW S, NEW queue \in Seq(S), NEW m \in S, Sorted(queue),
         \A x \in In(queue) : x.from = m.from => x.value <= m.value
  PROVE  Sorted(Append(queue, m))
<1>1. /\ Len(Append(queue, m)) = Len(queue) + 1 /\ Len(queue) \in Nat
      /\ \A k \in 1..Len(queue) : Append(queue, m)[k] = queue[k]
      /\ Append(queue, m)[Len(queue) + 1] = m
  BY AppendFacts
<1>2. SUFFICES ASSUME NEW j \in 1..Len(queue) + 1, NEW k \in 1..Len(queue) + 1, j < k,
                      Append(queue, m)[j].from = Append(queue, m)[k].from
               PROVE  Append(queue, m)[j].value <= Append(queue, m)[k].value
  BY <1>1 DEF Sorted
<1>3. CASE k \in 1..Len(queue)
  <2>1. j \in 1..Len(queue)
    BY <1>1, <1>2, <1>3
  <2> QED BY <1>1, <1>2, <1>3, <2>1 DEF Sorted
<1>4. CASE k = Len(queue) + 1
  <2>1. j \in 1..Len(queue) /\ queue[j] \in In(queue)
    BY <1>1, <1>2, <1>4 DEF In
  <2> QED BY <1>1, <1>2, <1>4, <2>1
<1> QED BY <1>1, <1>3, <1>4

LEMMA TailSorted ==
  ASSUME NEW S, NEW queue \in Seq(S), queue # <<>>, Sorted(queue)
  PROVE  /\ Sorted(Tail(queue))
         /\ \A x \in In(Tail(queue)) : x.from = Head(queue).from => Head(queue).value <= x.value
<1>1. /\ Len(queue) \in Nat \ {0} /\ Head(queue) = queue[1]
      /\ Len(Tail(queue)) = Len(queue) - 1
      /\ \A k \in 1..Len(queue) - 1 : Tail(queue)[k] = queue[k + 1]
  BY TailFacts
<1>2. \A k \in 1..Len(Tail(queue)) : k + 1 \in 1..Len(queue) /\ Tail(queue)[k] = queue[k + 1]
  BY <1>1
<1>3. Sorted(Tail(queue))
  BY <1>1, <1>2 DEF Sorted
<1>4. ASSUME NEW k \in 1..Len(Tail(queue)), Tail(queue)[k].from = Head(queue).from
      PROVE  Head(queue).value <= Tail(queue)[k].value
  BY <1>1, <1>2, <1>4 DEF Sorted
<1> QED BY <1>3, <1>4 DEF In

\* Messages that are queued, and the publishers of each queue.
LEMMA QueueTypes ==
  ASSUME Types
  PROVE  /\ publication \in Seq([from : Remotes, value : Numbers])
         /\ pipe \in Seq([from : Locals, value : Numbers])
         /\ In(publication) \subseteq [from : Remotes, value : Numbers]
         /\ In(pipe) \subseteq [from : Locals, value : Numbers]
         /\ \A p \in Publishers : output[p] \in Nat
<1>1. /\ publication \in Seq([from : Remotes, value : Numbers])
      /\ pipe \in Seq([from : Locals, value : Numbers])
  BY DEF Types, TypeOK
<1>2. In(publication) \subseteq [from : Remotes, value : Numbers]
  BY <1>1, InType
<1>3. In(pipe) \subseteq [from : Locals, value : Numbers]
  BY <1>1, InType
<1>4. \A p \in Publishers : output[p] \in Nat
  BY NumbersAreNatural DEF Types, TypeOK
<1> QED BY <1>1, <1>2, <1>3, <1>4

\* The oldest value of a publisher stays so when later ones are queued.
LEMMA OldestKept ==
  ASSUME Types, NEW q \in Publishers, NEW n \in Nat, Oldest(q, n),
         output'[q] \in Nat, output[q] <= output'[q],
         \A m \in Queue(q)' : m \in Queue(q) \/ (m.value \in Nat /\ output[q] <= m.value)
  PROVE  Oldest(q, n)'
<1>1. n <= output[q] /\ output[q] \in Nat
  BY QueueTypes DEF Oldest
<1> QED BY <1>1 DEF Oldest

\* The values that are handled or held are natural numbers of publishers.
LEMMA HeldTypes ==
  ASSUME Types
  PROVE  /\ Handling => hand.from \in Publishers /\ hand.value \in Nat
         /\ \A a \in Locals, i \in Inputs :
              /\ input[a][i].value \in Nat
              /\ input[a][i].from # None => input[a][i].from \in Publishers
<1>1. Handling => hand.from \in Publishers /\ hand.value \in Nat
  BY NumbersAreNatural DEF Types, TypeOK, Posture
<1>2. ASSUME NEW a \in Locals, NEW i \in Inputs
      PROVE  /\ input[a][i].value \in Nat
             /\ input[a][i].from # None => input[a][i].from \in Publishers
  <2>1. input[a][i] \in [from : Publishers \cup {None}, value : Numbers, reply : BOOLEAN]
    BY DEF Types, TypeOK
  <2> QED BY <2>1, NumbersAreNatural
<1> QED BY <1>1, <1>2

\* Nothing is published, handled or held, or a walk goes on.
LEMMA OrderedFrame ==
  ASSUME Ordered, UNCHANGED <<publication, pipe, output, input>>,
         (Handling' /\ ~hand'.reply) =>
            Handling /\ ~hand.reply /\ hand'.from = hand.from /\ hand'.value = hand.value
  PROVE  Ordered'
<1> USE DEF Ordered, Queue, Oldest
<1>1. QueuesSorted'
  BY DEF QueuesSorted, Sorted
<1>2. QueuesWritten'
  BY DEF QueuesWritten, In
<1>3. HandOldest'
  BY DEF HandOldest, In
<1>4. InputsOldest'
  BY DEF InputsOldest, HeldBefore, In
<1> QED BY <1>1, <1>2, <1>3, <1>4

\* A value is published after all those before it.
LEMMA PublishOrdered ==
  ASSUME Types, Ordered, NEW p \in Publishers, WriteOutput(p), UNCHANGED <<hand, input>>,
         \/ /\ p \in Remotes /\ pipe' = pipe
            /\ publication' = Append(publication, Published(p, output'[p]))
         \/ /\ p \in Locals /\ publication' = publication
            /\ pipe' = Append(pipe, Published(p, output'[p]))
         \/ UNCHANGED <<publication, pipe>>
  PROVE  Ordered'
<1> DEFINE new == Published(p, output'[p])
<1>1. /\ output'[p] = output[p] + 1 /\ output[p] \in Nat /\ output'[p] \in Numbers
      /\ \A q \in Publishers : q # p => output'[q] = output[q]
  BY WriteTypes DEF Types
<1>2. new.from = p /\ new.value = output'[p]
  BY DEF Published
<1>3. /\ p \in Remotes => new \in [from : Remotes, value : Numbers]
      /\ p \in Locals => new \in [from : Locals, value : Numbers]
  BY <1>1 DEF Published
<1> HIDE DEF new
<1>4. In(publication)' \cup In(pipe)' \subseteq In(publication) \cup In(pipe) \cup {new}
  <2>1. CASE p \in Remotes /\ pipe' = pipe /\ publication' = Append(publication, new)
    <3>1. In(Append(publication, new)) = In(publication) \cup {new}
      <4> DEFINE T == [from : Remotes, value : Numbers]
      <4>1. publication \in Seq(T) /\ new \in T
        BY <1>3, <2>1, QueueTypes
      <4> HIDE DEF T
      <4> QED BY <4>1, AppendFacts
    <3>2. In(publication)' = In(Append(publication, new)) /\ In(pipe)' = In(pipe)
      BY <2>1 DEF In
    <3> QED BY <3>1, <3>2
  <2>2. CASE p \in Locals /\ publication' = publication /\ pipe' = Append(pipe, new)
    <3>1. In(Append(pipe, new)) = In(pipe) \cup {new}
      <4> DEFINE T == [from : Locals, value : Numbers]
      <4>1. pipe \in Seq(T) /\ new \in T
        BY <1>3, <2>2, QueueTypes
      <4> HIDE DEF T
      <4> QED BY <4>1, AppendFacts
    <3>2. In(pipe)' = In(Append(pipe, new)) /\ In(publication)' = In(publication)
      BY <2>2 DEF In
    <3> QED BY <3>1, <3>2
  <2>3. CASE UNCHANGED <<publication, pipe>>
    BY <2>3 DEF In
  <2> QED BY <2>1, <2>2, <2>3 DEF new
<1>5. \A q \in Publishers : output[q] \in Nat /\ output'[q] \in Nat /\ output[q] <= output'[q]
  BY <1>1, QueueTypes
<1>6. \A q \in Publishers : \A m \in Queue(q)' : m \in Queue(q) \/ (m = new /\ q = p)
  BY <1>2, <1>4 DEF Queue
<1>7. \A q \in Publishers, n \in Nat : Oldest(q, n) => Oldest(q, n)'
  <2>1. ASSUME NEW q \in Publishers, NEW n \in Nat, Oldest(q, n) PROVE Oldest(q, n)'
    <3>1. \A m \in Queue(q)' : m \in Queue(q) \/ (m.value \in Nat /\ output[q] <= m.value)
      BY <1>1, <1>2, <1>5, <1>6
    <3> QED BY <1>5, <2>1, <3>1, OldestKept
  <2> QED BY <2>1
<1>8. QueuesSorted'
  <2>1. \A x \in In(publication) \cup In(pipe) : x.from = new.from => x.value <= new.value
    <3>1. SUFFICES ASSUME NEW x \in In(publication) \cup In(pipe), x.from = p
                   PROVE  x.value <= output[p] + 1
      BY <1>1, <1>2
    <3>2. x.value <= output[p] /\ x.value \in Nat
      BY <3>1, QueueTypes, NumbersAreNatural DEF Ordered, QueuesWritten, Queue
    <3> QED BY <1>1, <3>2
  <2>2. CASE p \in Remotes /\ pipe' = pipe /\ publication' = Append(publication, new)
    BY <1>3, <2>1, <2>2, QueueTypes, AppendSorted DEF Ordered, QueuesSorted
  <2>3. CASE p \in Locals /\ publication' = publication /\ pipe' = Append(pipe, new)
    BY <1>3, <2>1, <2>3, QueueTypes, AppendSorted DEF Ordered, QueuesSorted
  <2>4. CASE UNCHANGED <<publication, pipe>>
    BY <2>4 DEF Ordered, QueuesSorted
  <2> QED BY <2>2, <2>3, <2>4 DEF new
<1>9. QueuesWritten'
  <2>1. SUFFICES ASSUME NEW q \in Publishers, NEW m \in Queue(q)'
                 PROVE  m.value <= output'[q]
    BY DEF QueuesWritten
  <2>2. CASE m = new /\ q = p
    BY <1>2, <1>5, <2>2
  <2>3. CASE m \in Queue(q)
    <3>1. m.value <= output[q] /\ m.value \in Nat
      BY <2>3, QueueTypes, NumbersAreNatural DEF Ordered, QueuesWritten, Queue
    <3> QED BY <1>5, <3>1
  <2> QED BY <1>6, <2>2, <2>3
<1>10. HandOldest'
  BY <1>7, HeldTypes DEF Ordered, HandOldest, Handling
<1>11. InputsOldest'
  BY <1>7, HeldTypes DEF Ordered, InputsOldest, HeldBefore, Handling
<1> QED BY <1>8, <1>9, <1>10, <1>11 DEF Ordered

\* The publication to handle is the oldest of its publisher.
LEMMA TakeOrdered ==
  ASSUME Types, Ordered, ~Handling, UNCHANGED <<output, input>>, NEW m,
         \/ /\ publication # <<>> /\ m = Head(publication)
            /\ publication' = Tail(publication) /\ pipe' = pipe
         \/ /\ pipe # <<>> /\ m = Head(pipe)
            /\ pipe' = Tail(pipe) /\ publication' = publication,
         Handling' => hand'.from = m.from /\ hand'.value = m.value
  PROVE  Ordered'
<1>1. /\ m \in In(publication) \cup In(pipe) /\ m.from \in Publishers /\ m.value \in Nat
      /\ In(publication)' \subseteq In(publication) /\ In(pipe)' \subseteq In(pipe)
      /\ QueuesSorted'
      /\ \A x \in In(publication)' \cup In(pipe)' : x.from = m.from => m.value <= x.value
  <2>1. CASE /\ publication # <<>> /\ m = Head(publication)
             /\ publication' = Tail(publication) /\ pipe' = pipe
    <3>1. /\ m \in [from : Remotes, value : Numbers]
          /\ In(publication) = {m} \cup In(Tail(publication))
      BY <2>1, QueueTypes, TailFacts
    <3>2. /\ Sorted(Tail(publication))
          /\ \A x \in In(Tail(publication)) : x.from = m.from => m.value <= x.value
      BY <2>1, QueueTypes, TailSorted DEF Ordered, QueuesSorted
    <3>3. In(publication)' = In(Tail(publication)) /\ In(pipe)' = In(pipe)
      BY <2>1 DEF In
    <3>4. \A x \in In(pipe) : x.from # m.from
      BY <3>1, QueueTypes, DataFlowAssumption
    <3>5. QueuesSorted'
      BY <2>1, <3>2 DEF Ordered, QueuesSorted
    <3> QED BY <3>1, <3>2, <3>3, <3>4, <3>5, NumbersAreNatural DEF Publishers
  <2>2. CASE /\ pipe # <<>> /\ m = Head(pipe)
             /\ pipe' = Tail(pipe) /\ publication' = publication
    <3>1. /\ m \in [from : Locals, value : Numbers]
          /\ In(pipe) = {m} \cup In(Tail(pipe))
      BY <2>2, QueueTypes, TailFacts
    <3>2. /\ Sorted(Tail(pipe))
          /\ \A x \in In(Tail(pipe)) : x.from = m.from => m.value <= x.value
      BY <2>2, QueueTypes, TailSorted DEF Ordered, QueuesSorted
    <3>3. In(pipe)' = In(Tail(pipe)) /\ In(publication)' = In(publication)
      BY <2>2 DEF In
    <3>4. \A x \in In(publication) : x.from # m.from
      BY <3>1, QueueTypes, DataFlowAssumption
    <3>5. QueuesSorted'
      BY <2>2, <3>2 DEF Ordered, QueuesSorted
    <3> QED BY <3>1, <3>2, <3>3, <3>4, <3>5, NumbersAreNatural DEF Publishers
  <2> QED BY <2>1, <2>2
<1>2. \A q \in Publishers : Queue(q)' \subseteq Queue(q)
  BY <1>1 DEF Queue
<1>3. QueuesWritten'
  BY <1>2 DEF Ordered, QueuesWritten
<1>4. m \in Queue(m.from) /\ m.value <= output[m.from]
  BY <1>1 DEF Ordered, QueuesWritten, Queue
<1>5. Oldest(m.from, m.value)'
  BY <1>1, <1>4 DEF Oldest, Queue
<1>6. HandOldest'
  BY <1>5 DEF HandOldest
<1>7. InputsOldest'
  <2>1. SUFFICES ASSUME NEW a \in Locals, NEW i \in Inputs,
                        input[a][i].from # None, ~input[a][i].reply
                 PROVE  /\ Oldest(input[a][i].from, input[a][i].value)'
                        /\ Handling' /\ hand'.from = input[a][i].from
                             => input[a][i].value <= hand'.value
    BY DEF InputsOldest, HeldBefore
  <2>2. /\ Oldest(input[a][i].from, input[a][i].value)
        /\ input[a][i].from \in Publishers
    BY <2>1, HeldTypes DEF Ordered, InputsOldest, HeldBefore
  <2>3. Oldest(input[a][i].from, input[a][i].value)'
    BY <1>2, <2>2 DEF Oldest
  <2>4. m.from = input[a][i].from => input[a][i].value <= m.value
    BY <1>4, <2>2 DEF Oldest
  <2> QED BY <2>3, <2>4
<1> QED BY <1>1, <1>3, <1>6, <1>7 DEF Ordered

\* A publication begins to be handled, or is dropped.
LEMMA HandleFacts ==
  ASSUME NEW p, NEW n, NEW reply, Handle(p, n, reply)
  PROVE  /\ Handling' => /\ hand'.from = p /\ hand'.value = n /\ hand'.reply = reply
                         /\ hand'.agent = None /\ hand'.contacted = {} /\ ~frozen
         /\ ~frozen => Handling'
<1>1. CASE frozen
  BY <1>1 DEF Handle, Idle, Handling
<1>2. CASE ~frozen
  <2>1. hand' = [phase |-> "walk", from |-> p, value |-> n, reply |-> reply,
                 agent |-> None, cursor |-> 0, contacted |-> {}]
    BY <1>2 DEF Handle, Idle
  <2> QED BY <1>2, <2>1 DEF Handling
<1> QED BY <1>1, <1>2

\* The input that the walk under way writes next: a step of WalkMapping ends the
\* visit of the agent, or writes an input.
LEMMA WalkFacts ==
  ASSUME Types, WalkMapping
  PROVE  /\ Handling /\ hand \in Hands /\ hand.agent \in Locals /\ hand.from \in Publishers
         /\ \/ /\ Matches(hand.agent, hand.cursor) = {}
               /\ hand' = [hand EXCEPT !.contacted = @ \cup {hand.agent}, !.agent = None]
               /\ UNCHANGED <<input, owed>>
            \/ \E j \in Matches(hand.agent, hand.cursor) :
                 /\ \A k \in Matches(hand.agent, hand.cursor) : j <= k
                 /\ j \in 1..Len(mapping[hand.agent])
                 /\ mapping[hand.agent][j] \in Elements
                 /\ input' = ModelWrite(hand.agent, mapping[hand.agent][j][1])
                 /\ hand' = [hand EXCEPT !.phase = "call", !.cursor = j]
                 /\ owed' = {d \in owed : ~(/\ d[1] = hand.agent
                                           /\ d[2] = mapping[hand.agent][j][1]
                                           /\ d[3] = hand.from /\ d[4] <= hand.value)}
<1>1. /\ hand \in Hands /\ hand.agent \in Locals /\ hand.phase = "walk" /\ hand.from \in Publishers
      /\ hand.cursor \in Nat /\ mapping[hand.agent] \in Seq(Elements)
  BY DEF WalkMapping, Types, TypeOK, Posture, Handling, Hands
<1>2. \A j \in Matches(hand.agent, hand.cursor) :
        j \in 1..Len(mapping[hand.agent]) /\ mapping[hand.agent][j] \in Elements
  BY <1>1 DEF Matches
<1>3. CASE Matches(hand.agent, hand.cursor) = {}
  BY <1>1, <1>3 DEF WalkMapping, Contacted, Handling
<1>4. CASE Matches(hand.agent, hand.cursor) # {}
  BY <1>1, <1>2, <1>4 DEF WalkMapping, Handling
<1> QED BY <1>3, <1>4

\* An input is written with the oldest value of its publisher.
LEMMA WalkOrdered == ASSUME Types, Ordered, WalkMapping PROVE Ordered'
<1>1. /\ Handling /\ hand \in Hands /\ hand.agent \in Locals /\ hand.from \in Publishers
      /\ UNCHANGED <<output, publication, pipe>>
  BY WalkFacts DEF WalkMapping
<1>2. hand'.from = hand.from /\ hand'.value = hand.value /\ hand'.reply = hand.reply
  BY <1>1, WalkFacts DEF Hands
<1>3. CASE input' = input
  BY <1>1, <1>2, <1>3, OrderedFrame
<1>4. ASSUME NEW i \in Inputs, input' = ModelWrite(hand.agent, i)
      PROVE  Ordered'
  <2>1. QueuesSorted' /\ QueuesWritten'
    BY <1>1 DEF Ordered, QueuesSorted, Sorted, QueuesWritten, Queue, In
  <2>2. HandOldest'
    BY <1>1, <1>2 DEF Ordered, HandOldest, Oldest, Queue, In
  <2>3. InputsOldest'
    <3>1. SUFFICES ASSUME NEW b \in Locals, NEW k \in Inputs PROVE HeldBefore(input[b][k])'
      BY DEF InputsOldest
    <3>2. CASE input'[b][k] = input[b][k]
      BY <1>1, <1>2, <3>2 DEF Ordered, InputsOldest, HeldBefore, Oldest, Queue, In
    <3>3. CASE input'[b][k] = [from |-> hand.from, value |-> hand.value, reply |-> hand.reply]
      <4>1. ~hand.reply => Oldest(hand.from, hand.value)'
        BY <1>1, <1>2 DEF Ordered, HandOldest, Oldest, Queue, In
      <4>2. hand.value <= hand'.value
        BY <1>1, <1>2, HeldTypes
      <4> QED BY <1>2, <3>3, <4>1, <4>2 DEF HeldBefore
    <3>4. input'[b][k] \in {input[b][k], [from |-> hand.from, value |-> hand.value,
                                        reply |-> hand.reply]}
      BY <1>1, <1>4 DEF ModelWrite, Types, TypeOK
    <3> QED BY <3>2, <3>3, <3>4
  <2> QED BY <2>1, <2>2, <2>3 DEF Ordered
<1>5. input' = input \/ \E i \in Inputs : input' = ModelWrite(hand.agent, i)
  BY WalkFacts DEF Elements
<1> QED BY <1>3, <1>4, <1>5

\* Inputs are written by the walk of a publication only.
LEMMA OnlyWalkWrites == ASSUME [Next]_vars PROVE WalkMapping \/ input' = input
<1>1. CASE UNCHANGED vars
  BY <1>1 DEF vars
<1>2. CASE Far
  BY <1>2 DEF Far, AnswerRequest, SendDefinition, FilterArrives
<1>3. CASE Receiver
  BY <1>3 DEF Receiver, RecvDefinition, RecvAgentExit, RecvCurrentOutputs,
              ManageReceivedPublication, ManageParent, NextAgent, CallbacksReturn,
              MappingTimer, MappingUpdate, RequestTimer
<1>4. CASE User
  BY <1>4 DEF User, SetRemote, SetLocal, Mute, FreezeFar, Freeze, RemoteLeaves, RemoteReturns,
              Activate, Deactivate, MappingSearch, MappingAdd, MappingRemove
<1> QED BY <1>1, <1>2, <1>3, <1>4 DEF Next

LEMMA OrderedKept == Types /\ Ordered /\ [Next]_vars => Ordered'
<1> SUFFICES ASSUME Types, Ordered, [Next]_vars PROVE Ordered'
  OBVIOUS
<1>1. CASE UNCHANGED vars
  BY <1>1, OrderedFrame DEF vars, Handling
<1>2. CASE Far
  <2>1. UNCHANGED <<publication, pipe, output, input, hand>>
    BY <1>2 DEF Far, AnswerRequest, SendDefinition, FilterArrives
  <2> QED BY <2>1, OrderedFrame DEF Handling
<1>3. ASSUME NEW p \in Publishers, SetRemote(p) PROVE Ordered'
  BY <1>3, PublishOrdered DEF SetRemote, Queued
<1>4. ASSUME NEW p \in Publishers, SetLocal(p) PROVE Ordered'
  BY <1>4, PublishOrdered DEF SetLocal, Queued
<1>5. ASSUME NEW a, NEW n, MoveCursor(a, n), UNCHANGED <<publication, pipe, output, input>>
      PROVE  Ordered'
  <2>1. hand \in Hands
    BY DEF Types, TypeOK, Hands
  <2>2. hand'.phase = hand.phase /\ hand'.from = hand.from /\ hand'.value = hand.value
        /\ hand'.reply = hand.reply
    BY <1>5, <2>1 DEF MoveCursor, Hands
  <2> QED BY <1>5, <2>2, OrderedFrame DEF Handling
<1>6. CASE User
  <2>1. ASSUME NEW a \in Locals,
               \/ MappingSearch(a)
               \/ \E e \in Addable : MappingAdd(a, e)
               \/ \E gone \in Removable(a) : MappingRemove(a, gone)
        PROVE  Ordered'
    BY <1>5, <2>1 DEF MappingSearch, MappingAdd, MappingRemove
  <2>2. ASSUME \/ \E p \in Publishers : Mute(p)
               \/ FreezeFar \/ Freeze
               \/ \E r \in Remotes : RemoteLeaves(r) \/ RemoteReturns(r)
               \/ \E a \in Locals : Activate(a) \/ Deactivate(a)
        PROVE  Ordered'
    <3>1. UNCHANGED <<publication, pipe, output, input, hand>>
      BY <2>2 DEF Mute, FreezeFar, Freeze, RemoteLeaves, RemoteReturns, Activate, Deactivate
    <3> QED BY <3>1, OrderedFrame DEF Handling
  <2> QED BY <1>3, <1>4, <1>6, <2>1, <2>2 DEF User
<1>7. CASE ManageReceivedPublication
  <2>1. ~Handling /\ UNCHANGED <<output, input>>
    BY <1>7 DEF ManageReceivedPublication, NetworkReady, Handling
  <2>2. Handling' => hand'.from = Head(publication).from /\ hand'.value = Head(publication).value
    BY <1>7, <2>1, HandleFacts DEF ManageReceivedPublication, Handling
  <2> QED BY <1>7, <2>1, <2>2, TakeOrdered DEF ManageReceivedPublication
<1>8. CASE ManageParent
  <2>1. ~Handling /\ UNCHANGED <<output, input>>
    BY <1>8 DEF ManageParent, NetworkReady, Handling
  <2>2. Handling' => hand'.from = Head(pipe).from /\ hand'.value = Head(pipe).value
    BY <1>8, HandleFacts DEF ManageParent
  <2> QED BY <1>8, <2>1, <2>2, TakeOrdered DEF ManageParent
<1>9. CASE RecvCurrentOutputs
  <2>1. UNCHANGED <<publication, pipe, output, input>>
    BY <1>9 DEF RecvCurrentOutputs
  <2>2. Handling' => hand'.reply = TRUE
    <3>1. CASE Head(private).agent \in known
      BY <1>9, <3>1, HandleFacts DEF RecvCurrentOutputs
    <3>2. CASE Head(private).agent \notin known
      BY <1>9, <3>2 DEF RecvCurrentOutputs, Idle, Handling
    <3> QED BY <3>1, <3>2
  <2> QED BY <2>1, <2>2, OrderedFrame
<1>10. CASE NextAgent \/ CallbacksReturn
  <2>1. hand \in Hands /\ UNCHANGED <<publication, pipe, output, input>> /\ Handling
    BY <1>10 DEF NextAgent, CallbacksReturn, Types, TypeOK, Hands, Handling
  <2>2. hand' = Idle \/ (/\ hand'.from = hand.from /\ hand'.value = hand.value
                         /\ hand'.reply = hand.reply)
    BY <1>10, <2>1 DEF NextAgent, CallbacksReturn, Contacted, Hands
  <2>3. hand' = Idle => ~Handling'
    BY DEF Handling, Idle
  <2> QED BY <2>1, <2>2, <2>3, OrderedFrame
<1>11. CASE \/ RecvDefinition \/ RecvAgentExit \/ MappingTimer
            \/ \E a \in Locals : MappingUpdate(a)
            \/ \E r \in Remotes : RequestTimer(r)
  <2>1. UNCHANGED <<publication, pipe, output, input, hand>>
    BY <1>11 DEF RecvDefinition, RecvAgentExit, MappingTimer, MappingUpdate, RequestTimer
  <2> QED BY <2>1, OrderedFrame DEF Handling
<1> QED BY <1>1, <1>2, <1>6, <1>7, <1>8, <1>9, <1>10, <1>11, WalkOrdered DEF Next, Receiver

-----------------------------------------------------------------------------
(***************************************************************************)
(* The walk of a publication reaches every input it is meant for.          *)
(***************************************************************************)
LEMMA MapSetIn == \A a \in Locals : MapSet(a) = In(mapping[a]) /\ MapSet(a)' = In(mapping'[a])
BY DEF MapSet, In

\* A user who moves the cursor back leaves what is ahead of it ahead.
LEMMA MoveServing ==
  ASSUME Types, LockFree, NEW b \in Locals, NEW k \in Nat, MoveCursor(b, k),
         \A c \in Locals : c # b => mapping'[c] = mapping[c],
         NEW a \in Locals, NEW i \in Inputs, NEW p \in Publishers, Serving(a, i, p),
         a = b /\ hand.agent = b =>
           (k = 0 /\ <<i, p>> \in MapSet(a)') \/ (k <= hand.cursor /\ mapping' = mapping)
  PROVE  Serving(a, i, p)' /\ hand'.value = hand.value
<1>1. hand \in Hands /\ hand.phase = "call" /\ hand.cursor \in Nat
  BY DEF Types, TypeOK, Hands, Serving, Handling, LockFree
<1>2. CASE hand.agent # b
  <2>1. hand' = hand
    BY <1>2 DEF MoveCursor
  <2>2. hand.agent = a => Ahead(a, i, p)'
    BY <1>2, <2>1 DEF Serving, Ahead
  <2> QED BY <2>1, <2>2 DEF Serving, Handling
<1>3. CASE hand.agent = b
  <2>1. hand' = [hand EXCEPT !.cursor = k]
    BY <1>1, <1>3 DEF MoveCursor
  <2>2. /\ hand'.phase = "call" /\ hand'.from = hand.from /\ hand'.value = hand.value
        /\ hand'.agent = hand.agent /\ hand'.contacted = hand.contacted /\ hand'.cursor = k
    BY <1>1, <2>1 DEF Hands
  <2>3. ASSUME a = b PROVE Ahead(a, i, p)'
    <3>1. CASE k = 0 /\ <<i, p>> \in MapSet(a)'
      <4>1. PICK j \in 1..Len(mapping'[a]) : mapping'[a][j] = <<i, p>>
        BY <3>1 DEF MapSet
      <4>2. 0 < j
        BY <4>1
      <4> QED BY <2>2, <3>1, <4>1, <4>2 DEF Ahead
    <3>2. CASE k <= hand.cursor /\ mapping' = mapping
      <4>1. PICK j \in 1..Len(mapping[a]) : hand.cursor < j /\ mapping[a][j] = <<i, p>>
        BY <1>3, <2>3 DEF Serving, Ahead
      <4>2. k < j
        BY <1>1, <3>2, <4>1
      <4> QED BY <2>2, <3>2, <4>1, <4>2 DEF Ahead
    <3> QED BY <1>3, <2>3, <3>1, <3>2
  <2> QED BY <1>3, <2>2, <2>3 DEF Serving, Handling
<1> QED BY <1>2, <1>3

LEMMA UserServing ==
  ASSUME Types, User, ~jumped', NEW a \in Locals, NEW i \in Inputs, NEW p \in Publishers,
         Serving(a, i, p), <<i, p>> \in MapSet(a)'
  PROVE  Serving(a, i, p)' /\ hand'.value = hand.value
<1>1. CASE UNCHANGED <<hand, mapping>>
  BY <1>1 DEF Serving, Ahead, Handling
<1>2. ASSUME NEW b \in Locals, MappingSearch(b)
      PROVE  Serving(a, i, p)' /\ hand'.value = hand.value
  BY <1>2, MoveServing DEF MappingSearch
<1>3. ASSUME NEW b \in Locals, NEW e, MappingAdd(b, e)
      PROVE  Serving(a, i, p)' /\ hand'.value = hand.value
  <2>1. CASE e \notin MapSet(b)
    <3>1. MoveCursor(b, 0) /\ mapping' = [mapping EXCEPT ![b] = Append(@, e)] /\ LockFree
      BY <1>3, <2>1 DEF MappingAdd
    <3>2. \A c \in Locals : c # b => mapping'[c] = mapping[c]
      BY <3>1 DEF Types, TypeOK
    <3> QED BY <3>1, <3>2, MoveServing
  <2>2. CASE e \in MapSet(b)
    <3>1. /\ MoveCursor(b, Position(b, e)) /\ mapping' = mapping /\ LockFree
          /\ jumped' = (jumped \/ Jumps(b, Position(b, e)))
      BY <1>3, <2>2 DEF MappingAdd
    <3>2. Position(b, e) \in Nat
      BY <2>2 DEF Position, MapSet
    <3>3. hand.phase = "call" /\ hand.cursor \in Nat
      BY <3>1 DEF Serving, Handling, LockFree, Types, TypeOK
    <3>4. hand.agent = b => Position(b, e) <= hand.cursor
      <4>1. ~Jumps(b, Position(b, e))
        BY <3>1, Zenon
      <4> QED BY <3>2, <3>3, <4>1 DEF Jumps
    <3> QED BY <3>1, <3>2, <3>4, MoveServing
  <2> QED BY <2>1, <2>2
<1>4. ASSUME NEW b \in Locals, NEW gone, MappingRemove(b, gone)
      PROVE  Serving(a, i, p)' /\ hand'.value = hand.value
  <2>1. MoveCursor(b, 0) /\ LockFree
    BY <1>4 DEF MappingRemove
  <2>2. \A c \in Locals : c # b => mapping'[c] = mapping[c]
    BY <1>4 DEF MappingRemove, Types, TypeOK
  <2> QED BY <2>1, <2>2, MoveServing
<1> QED BY <1>1, <1>2, <1>3, <1>4
        DEF User, SetRemote, SetLocal, Mute, FreezeFar, Freeze, RemoteLeaves, RemoteReturns,
            Activate, Deactivate

\* What is ahead is written, or stays ahead.
LEMMA WalkServing ==
  ASSUME Types, WalkMapping, NEW a \in Locals, NEW i \in Inputs, NEW p \in Publishers,
         Serving(a, i, p), Accepts(a, i, hand.value)
  PROVE  \/ Serving(a, i, p)' /\ hand'.value = hand.value
         \/ /\ hand.agent = a /\ input' = ModelWrite(a, i)
            /\ owed' = {d \in owed : ~(d[1] = a /\ d[2] = i /\ d[3] = p /\ d[4] <= hand.value)}
<1>1. /\ hand \in Hands /\ hand.agent \in Locals /\ hand.cursor \in Nat /\ mapping' = mapping
  BY WalkFacts DEF WalkMapping, Hands
<1>2. CASE hand.agent # a
  <2>1. /\ hand'.from = hand.from /\ hand'.value = hand.value
        /\ hand'.agent \in {None, hand.agent}
        /\ hand'.contacted \subseteq hand.contacted \cup {hand.agent}
    BY <1>1, WalkFacts DEF Hands
  <2>2. hand'.phase \in {"walk", "call"}
    BY <1>1, WalkFacts DEF Hands, Handling
  <2>3. a # None
    BY DataFlowAssumption DEF Publishers
  <2> QED BY <1>2, <2>1, <2>2, <2>3 DEF Serving, Handling
<1>3. CASE hand.agent = a
  <2>1. PICK j \in 1..Len(mapping[a]) : hand.cursor < j /\ mapping[a][j] = <<i, p>>
    BY <1>3 DEF Serving, Ahead
  <2>2. j \in Matches(a, hand.cursor)
    BY <1>1, <1>3, <2>1 DEF Matches, Serving
  <2>3. PICK l \in Matches(a, hand.cursor) :
          /\ \A k \in Matches(a, hand.cursor) : l <= k
          /\ l \in 1..Len(mapping[a]) /\ mapping[a][l] \in Elements
          /\ input' = ModelWrite(a, mapping[a][l][1])
          /\ hand' = [hand EXCEPT !.phase = "call", !.cursor = l]
          /\ owed' = {d \in owed : ~(/\ d[1] = a /\ d[2] = mapping[a][l][1]
                                    /\ d[3] = hand.from /\ d[4] <= hand.value)}
    BY <1>3, <2>2, WalkFacts
  <2>4. CASE l = j
    BY <1>3, <2>1, <2>3, <2>4 DEF Serving
  <2>5. CASE l # j
    <3>1. l < j
      BY <2>1, <2>2, <2>3, <2>5
    <3>2. /\ hand'.phase = "call" /\ hand'.from = hand.from /\ hand'.value = hand.value
          /\ hand'.agent = a /\ hand'.contacted = hand.contacted /\ hand'.cursor = l
      BY <1>1, <1>3, <2>3 DEF Hands
    <3>3. Ahead(a, i, p)'
      BY <1>1, <2>1, <3>1, <3>2 DEF Ahead
    <3> QED BY <3>2, <3>3 DEF Serving, Handling
  <2> QED BY <2>4, <2>5
<1> QED BY <1>2, <1>3

LEMMA ServingKept ==
  ASSUME Types, [Next]_vars, ~jumped', NEW a \in Locals, NEW i \in Inputs, NEW p \in Publishers,
         Serving(a, i, p), a \in active, <<i, p>> \in MapSet(a), <<i, p>> \in MapSet(a)',
         Accepts(a, i, hand.value)
  PROVE  \/ Serving(a, i, p)' /\ hand'.value = hand.value
         \/ /\ WalkMapping /\ hand.agent = a /\ input' = ModelWrite(a, i)
            /\ owed' = {d \in owed : ~(d[1] = a /\ d[2] = i /\ d[3] = p /\ d[4] <= hand.value)}
<1>1. Handling /\ hand \in Hands /\ a # None
  BY DataFlowAssumption DEF Serving, Types, TypeOK, Hands, Publishers
<1>2. CASE UNCHANGED <<hand, mapping>>
  BY <1>2 DEF Serving, Ahead, Handling
<1>3. CASE NextAgent
  <2>1. mapping' = mapping /\ hand.phase = "walk"
    BY <1>3 DEF NextAgent
  <2>2. PICK b \in active \ hand.contacted : hand' = [hand EXCEPT !.agent = b, !.cursor = 0]
    BY <1>3 DEF NextAgent, Serving
  <2>3. /\ hand'.phase = "walk" /\ hand'.from = hand.from /\ hand'.value = hand.value
        /\ hand'.contacted = hand.contacted /\ hand'.cursor = 0
    BY <1>1, <2>1, <2>2 DEF Hands
  <2>4. Ahead(a, i, p)'
    <3>1. PICK j \in 1..Len(mapping[a]) : mapping[a][j] = <<i, p>>
      BY DEF MapSet
    <3>2. 0 < j
      BY <3>1
    <3> QED BY <2>1, <2>3, <3>1, <3>2 DEF Ahead
  <2> QED BY <2>3, <2>4 DEF Serving, Handling
<1>4. CASE CallbacksReturn
  <2>1. mapping' = mapping
    BY <1>4 DEF CallbacksReturn
  <2>2. CASE hand.agent \in active
    <3>1. hand' = [hand EXCEPT !.phase = "walk"]
      BY <1>4, <2>2 DEF CallbacksReturn
    <3>2. /\ hand'.phase = "walk" /\ hand'.from = hand.from /\ hand'.value = hand.value
          /\ hand'.contacted = hand.contacted /\ hand'.cursor = hand.cursor
          /\ hand'.agent = hand.agent
      BY <1>1, <3>1 DEF Hands
    <3> QED BY <2>1, <3>2 DEF Serving, Handling, Ahead
  <2>3. CASE hand.agent \notin active
    <3>1. /\ hand'.phase = "walk" /\ hand'.from = hand.from /\ hand'.value = hand.value
          /\ hand'.contacted = hand.contacted \cup {hand.agent} /\ hand'.agent = None
      BY <1>1, <1>4, <2>3 DEF CallbacksReturn, Contacted, Hands
    <3> QED BY <1>1, <2>3, <3>1 DEF Serving, Handling
  <2> QED BY <2>2, <2>3
<1>5. CASE WalkMapping
  BY <1>5, WalkServing
<1>6. CASE User
  BY <1>6, UserServing
<1>7. ~NetworkReady
  BY <1>1 DEF NetworkReady, Handling
<1> QED BY <1>2, <1>3, <1>4, <1>5, <1>6, <1>7
        DEF Next, vars, Far, AnswerRequest, SendDefinition, FilterArrives, Receiver,
            RecvDefinition, RecvAgentExit, RecvCurrentOutputs, FromRemote, MappingTimer,
            ManageReceivedPublication, ManageParent, MappingUpdate, RequestTimer

-----------------------------------------------------------------------------
(***************************************************************************)
(* What is owed.                                                           *)
(***************************************************************************)
LEMMA JumpedStays == ASSUME [Next]_vars, ~jumped' PROVE ~jumped
<1>1. CASE UNCHANGED vars
  BY <1>1 DEF vars
<1>2. CASE Far
  BY <1>2 DEF Far, AnswerRequest, SendDefinition, FilterArrives
<1>3. CASE Receiver
  BY <1>3 DEF Receiver, RecvDefinition, RecvAgentExit, RecvCurrentOutputs,
              ManageReceivedPublication, ManageParent, NextAgent, WalkMapping, CallbacksReturn,
              MappingTimer, MappingUpdate, RequestTimer
<1>4. ASSUME NEW a, NEW e, MappingAdd(a, e) PROVE ~jumped
  <2>1. jumped' = (jumped \/ Jumps(a, Position(a, e))) \/ jumped' = jumped
    BY <1>4 DEF MappingAdd
  <2> QED BY <2>1, Zenon
<1>5. CASE User
  BY <1>4, <1>5 DEF User, SetRemote, SetLocal, Mute, FreezeFar, Freeze, RemoteLeaves,
              RemoteReturns, Activate, Deactivate, MappingSearch, MappingRemove
<1> QED BY <1>1, <1>2, <1>3, <1>5 DEF Next

\* What a user maps or unmaps.
LEMMA MapSetAppend ==
  ASSUME Types, NEW b \in Locals, NEW e \in Elements,
         mapping' = [mapping EXCEPT ![b] = Append(@, e)]
  PROVE  \A a \in Locals : MapSet(a) \subseteq MapSet(a)'
<1>1. mapping[b] \in Seq(Elements) /\ mapping \in [Locals -> Seq(Elements)]
  BY DEF Types, TypeOK
<1>2. In(mapping[b]) \subseteq In(mapping'[b])
  BY <1>1, AppendFacts
<1>3. \A a \in Locals : a # b => mapping'[a] = mapping[a]
  BY <1>1
<1> QED BY <1>2, <1>3, MapSetIn

LEMMA MapSetRemove ==
  ASSUME Types, NEW b \in Locals, NEW gone, MappingRemove(b, gone),
         NEW a \in Locals, NEW e \in MapSet(a), a = b => e \notin gone
  PROVE  e \in MapSet(a)'
<1>1. mapping[b] \in Seq(Elements) /\ mapping \in [Locals -> Seq(Elements)]
  BY DEF Types, TypeOK
<1>2. PICK f \in Staying(mapping[b], gone) :
        mapping' = [mapping EXCEPT ![b] = [k \in DOMAIN f |-> mapping[b][f[k]]]]
  BY DEF MappingRemove
<1>3. CASE a # b
  <2>1. mapping'[a] = mapping[a]
    BY <1>1, <1>2, <1>3
  <2> QED BY <2>1 DEF MapSet
<1>4. CASE a = b
  <2>1. PICK j \in 1..Len(mapping[b]) : mapping[b][j] = e
    BY <1>4 DEF MapSet
  <2>2. mapping'[b] = [k \in DOMAIN f |-> mapping[b][f[k]]]
    BY <1>1, <1>2
  <2>3. \E k \in 1..Len(mapping'[b]) : mapping'[b][k] = e
    <3>1. mapping'[b] \in Seq(Elements)
      BY <1>1, <1>2, <2>2, StayingFacts
    <3>2. DOMAIN mapping'[b] = 1..Len(mapping'[b])
      BY <3>1
    <3>3. PICK k \in DOMAIN f : f[k] = j
      BY <1>1, <1>2, <1>4, <2>1, StayingFacts
    <3>4. k \in DOMAIN mapping'[b] /\ mapping'[b][k] = mapping[b][j]
      BY <2>2, <3>3
    <3> QED BY <2>1, <3>2, <3>4
  <2> QED BY <1>4, <2>3 DEF MapSet
<1> QED BY <1>3, <1>4

\* A value stays owed as long as its input is there, mapped and not frozen.
LEMMA WantedKept ==
  ASSUME Types, [Next]_vars, NEW a \in Locals, NEW i \in Inputs, NEW p \in Publishers,
         NEW n \in Numbers, <<a, i, p, n>> \in owed', Wanted(a, i, p, n)
  PROVE  Wanted(a, i, p, n)'
<1>1. CASE UNCHANGED <<active, frozen, mapping>>
  BY <1>1 DEF Wanted, MapSet
<1>2. CASE Freeze
  BY <1>2 DEF Freeze
<1>3. ASSUME NEW b \in Locals, Activate(b) PROVE Wanted(a, i, p, n)'
  BY <1>3 DEF Activate, Wanted, MapSet
<1>4. ASSUME NEW b \in Locals, Deactivate(b) PROVE Wanted(a, i, p, n)'
  <2>1. a # b
    BY <1>4 DEF Deactivate
  <2> QED BY <1>4, <2>1 DEF Deactivate, Wanted, MapSet
<1>5. ASSUME NEW b \in Locals, NEW e \in Addable, MappingAdd(b, e) PROVE Wanted(a, i, p, n)'
  <2>1. \/ mapping' = mapping \/ mapping' = [mapping EXCEPT ![b] = Append(@, e)]
    BY <1>5 DEF MappingAdd
  <2>2. MapSet(a) \subseteq MapSet(a)'
    BY <2>1, MapSetAppend, DataFlowAssumption DEF MapSet
  <2> QED BY <1>5, <2>2 DEF MappingAdd, Wanted
<1>6. ASSUME NEW b \in Locals, NEW gone, MappingRemove(b, gone) PROVE Wanted(a, i, p, n)'
  <2>1. a = b => <<i, p>> \notin gone
    BY <1>6 DEF MappingRemove
  <2>2. <<i, p>> \in MapSet(a)'
    BY <1>6, <2>1, MapSetRemove DEF Wanted
  <2> QED BY <1>6, <2>2 DEF MappingRemove, Wanted
<1>7. CASE User
  BY <1>1, <1>2, <1>3, <1>4, <1>5, <1>6, <1>7
     DEF User, SetRemote, SetLocal, Mute, FreezeFar, RemoteLeaves, RemoteReturns, MappingSearch
<1>8. CASE Receiver
  BY <1>1, <1>8 DEF Receiver, RecvDefinition, RecvAgentExit, RecvCurrentOutputs,
              ManageReceivedPublication, ManageParent, NextAgent, WalkMapping, CallbacksReturn,
              MappingTimer, MappingUpdate, RequestTimer
<1>9. CASE Far
  BY <1>1, <1>9 DEF Far, AnswerRequest, SendDefinition, FilterArrives
<1> QED BY <1>1, <1>7, <1>8, <1>9 DEF Next, vars

\* What is published anew is owed because it is wanted, and queued.
LEMMA PublishOwes ==
  ASSUME Types, NEW p \in Publishers, SetRemote(p) \/ SetLocal(p),
         NEW a \in Locals, NEW i \in Inputs, NEW q \in Publishers, NEW n \in Numbers,
         <<a, i, q, n>> \in owed', <<a, i, q, n>> \notin owed
  PROVE  Wanted(a, i, q, n)' /\ OnItsWay(a, i, q, n)'
<1>1. WriteOutput(p) /\ UNCHANGED <<active, frozen, mapping, known, hand>>
  BY DEF SetRemote, SetLocal
<1>2. output'[p] \in Numbers
  BY <1>1, WriteTypes DEF Types
<1>3. <<a, i, q, n>> \in Due(p, output'[p])
  BY DEF SetRemote, SetLocal
<1>4. /\ q = p /\ n = output'[p] /\ a \in active /\ ~frozen /\ <<i, p>> \in MapSet(a)
      /\ Accepts(a, i, n)
  BY <1>3 DEF Due
<1>5. Wanted(a, i, q, n)'
  BY <1>1, <1>4 DEF Wanted, MapSet, Accepts
<1>6. CASE SetRemote(p)
  <2> DEFINE T == [from : Remotes, value : Numbers]
             m == Published(p, output'[p])
  <2>1. p \in known /\ publication' = Append(publication, m)
    BY <1>6 DEF SetRemote, Queued, Types, TypeOK
  <2>2. publication \in Seq(T) /\ m \in T
    BY <1>2, <1>6, QueueTypes DEF SetRemote, Published
  <2> HIDE DEF T, m
  <2>3. m \in In(publication')
    BY <2>1, <2>2, AppendFacts
  <2>4. In(publication') = In(publication)'
    BY DEF In
  <2> QED BY <1>1, <1>4, <1>5, <2>1, <2>3, <2>4 DEF OnItsWay, m, Published
<1>7. CASE SetLocal(p)
  <2> DEFINE T == [from : Locals, value : Numbers]
             m == Published(p, output'[p])
  <2>1. pipe' = Append(pipe, m)
    BY <1>7 DEF SetLocal, Queued
  <2>2. pipe \in Seq(T) /\ m \in T
    BY <1>2, <1>7, QueueTypes DEF SetLocal, Published
  <2> HIDE DEF T, m
  <2>3. m \in In(pipe')
    BY <2>1, <2>2, AppendFacts
  <2>4. In(pipe') = In(pipe)'
    BY DEF In
  <2> QED BY <1>4, <1>5, <2>3, <2>4 DEF OnItsWay, m, Published
<1> QED BY <1>6, <1>7

\* Only a user who writes the output makes its value owed.
LEMMA OnlySetOwes ==
  ASSUME [Next]_vars
  PROVE  (\E p \in Publishers : SetRemote(p) \/ SetLocal(p)) \/ owed' \subseteq owed
<1>1. CASE UNCHANGED vars
  BY <1>1 DEF vars
<1>2. CASE Far
  BY <1>2 DEF Far, AnswerRequest, SendDefinition, FilterArrives
<1>3. CASE Receiver
  <2>1. CASE WalkMapping
    BY <2>1 DEF WalkMapping
  <2> QED BY <1>3, <2>1 DEF Receiver, RecvDefinition, RecvAgentExit, RecvCurrentOutputs,
              ManageReceivedPublication, ManageParent, NextAgent, CallbacksReturn,
              MappingTimer, MappingUpdate, RequestTimer
<1>4. CASE User
  BY <1>4 DEF User, Mute, FreezeFar, Freeze, RemoteLeaves, RemoteReturns,
              Activate, Deactivate, MappingSearch, MappingAdd, MappingRemove
<1> QED BY <1>1, <1>2, <1>3, <1>4 DEF Next

\* The agent that published is known, unless its values are no longer owed.
LEMMA KnownKept ==
  ASSUME Types, [Next]_vars, NEW a, NEW i, NEW p \in known, NEW n,
         <<a, i, p, n>> \in owed'
  PROVE  p \in known'
<1>1. CASE UNCHANGED known
  BY <1>1
<1>2. CASE RecvAgentExit
  BY <1>2 DEF RecvAgentExit
<1>3. CASE RecvDefinition
  BY <1>3 DEF RecvDefinition
<1>4. CASE User
  BY <1>1, <1>4 DEF User, SetRemote, SetLocal, Mute, FreezeFar, Freeze, RemoteLeaves,
     RemoteReturns, Activate, Deactivate, MappingSearch, MappingAdd, MappingRemove
<1>5. CASE Far
  BY <1>1, <1>5 DEF Far, AnswerRequest, SendDefinition, FilterArrives
<1> QED BY <1>1, <1>2, <1>3, <1>4, <1>5
        DEF Next, vars, Receiver, RecvCurrentOutputs, ManageReceivedPublication, ManageParent,
            NextAgent, WalkMapping, CallbacksReturn, MappingTimer, MappingUpdate, RequestTimer

\* What is queued stays so until its turn comes.
LEMMA QueuedKept ==
  ASSUME Types, [Next]_vars, ~ManageReceivedPublication, ~ManageParent
  PROVE  In(publication) \subseteq In(publication)' /\ In(pipe) \subseteq In(pipe)'
<1>1. CASE UNCHANGED <<publication, pipe>>
  BY <1>1 DEF In
<1>2. ASSUME NEW p \in Publishers, SetRemote(p)
      PROVE  In(publication) \subseteq In(publication)' /\ In(pipe) \subseteq In(pipe)'
  <2> DEFINE T == [from : Remotes, value : Numbers]
             m == Published(p, output'[p])
  <2>1. publication' = publication \/ publication' = Append(publication, m)
    BY <1>2 DEF SetRemote, Queued
  <2>2. publication \in Seq(T) /\ m \in T /\ pipe' = pipe
    BY <1>2, QueueTypes, WriteTypes DEF SetRemote, Published, Types
  <2> HIDE DEF T, m
  <2>3. publication' = Append(publication, m) => In(publication) \subseteq In(publication')
    BY <2>2, AppendFacts
  <2> QED BY <2>1, <2>2, <2>3 DEF In
<1>3. ASSUME NEW p \in Publishers, SetLocal(p)
      PROVE  In(publication) \subseteq In(publication)' /\ In(pipe) \subseteq In(pipe)'
  <2> DEFINE T == [from : Locals, value : Numbers]
             m == Published(p, output'[p])
  <2>1. pipe' = pipe \/ pipe' = Append(pipe, m)
    BY <1>3 DEF SetLocal, Queued
  <2>2. pipe \in Seq(T) /\ m \in T /\ publication' = publication
    BY <1>3, QueueTypes, WriteTypes DEF SetLocal, Published, Types
  <2> HIDE DEF T, m
  <2>3. pipe' = Append(pipe, m) => In(pipe) \subseteq In(pipe')
    BY <2>2, AppendFacts
  <2> QED BY <2>1, <2>2, <2>3 DEF In
<1>4. CASE User
  BY <1>1, <1>2, <1>3, <1>4 DEF User, Mute, FreezeFar, Freeze, RemoteLeaves,
     RemoteReturns, Activate, Deactivate, MappingSearch, MappingAdd, MappingRemove
<1>5. CASE Far
  BY <1>1, <1>5 DEF Far, AnswerRequest, SendDefinition, FilterArrives
<1> QED BY <1>1, <1>4, <1>5
        DEF Next, vars, Receiver, RecvDefinition, RecvAgentExit, RecvCurrentOutputs,
            NextAgent, WalkMapping, CallbacksReturn, MappingTimer, MappingUpdate, RequestTimer

\* A value that is taken from its queue is handled.
LEMMA TakenIsServed ==
  ASSUME Types, ManageReceivedPublication \/ ManageParent,
         NEW a \in Locals, NEW i \in Inputs, NEW p \in Publishers, NEW n \in Numbers,
         ~frozen, OnItsWay(a, i, p, n)
  PROVE  OnItsWay(a, i, p, n)'
<1> DEFINE m == Published(p, n)
<1>1. m.from = p /\ m.value = n /\ ~Handling /\ a # None /\ known' = known
  BY DataFlowAssumption DEF Published, ManageReceivedPublication, ManageParent, NetworkReady,
                            Handling, Publishers
<1> HIDE DEF m
<1>2. ASSUME NEW reply, Handle(p, n, reply) PROVE OnItsWay(a, i, p, n)'
  BY <1>1, <1>2, HandleFacts DEF OnItsWay, Serving
<1>3. CASE ManageReceivedPublication
  <2>1. /\ publication # <<>> /\ publication' = Tail(publication) /\ pipe' = pipe
        /\ In(publication) = {Head(publication)} \cup In(publication')
    BY <1>3, QueueTypes, TailFacts DEF ManageReceivedPublication
  <2>2. CASE p \in known /\ m = Head(publication)
    BY <1>1, <1>2, <1>3, <2>2 DEF ManageReceivedPublication
  <2>3. CASE (p \in known /\ m \in In(publication')) \/ m \in In(pipe)
    BY <1>1, <2>1, <2>3 DEF OnItsWay, m, In
  <2> QED BY <1>1, <2>1, <2>2, <2>3 DEF OnItsWay, Serving, m
<1>4. CASE ManageParent
  <2>1. /\ pipe # <<>> /\ pipe' = Tail(pipe) /\ publication' = publication
        /\ In(pipe) = {Head(pipe)} \cup In(pipe')
    BY <1>4, QueueTypes, TailFacts DEF ManageParent
  <2>2. CASE m = Head(pipe)
    BY <1>1, <1>2, <1>4, <2>2 DEF ManageParent
  <2>3. CASE (p \in known /\ m \in In(publication)) \/ m \in In(pipe')
    BY <1>1, <2>1, <2>3 DEF OnItsWay, m, In
  <2> QED BY <1>1, <2>1, <2>2, <2>3 DEF OnItsWay, Serving, m
<1> QED BY <1>3, <1>4

LEMMA OwingKept == Types /\ Owing /\ [Next]_vars => Owing'
<1> SUFFICES ASSUME Types, Owing, [Next]_vars, ~jumped',
                    NEW a \in Locals, NEW i \in Inputs, NEW p \in Publishers, NEW n \in Numbers,
                    <<a, i, p, n>> \in owed'
             PROVE  Wanted(a, i, p, n)' /\ OnItsWay(a, i, p, n)'
  BY DEF Owing
<1>1. CASE <<a, i, p, n>> \notin owed
  BY <1>1, OnlySetOwes, PublishOwes
<1>2. CASE <<a, i, p, n>> \in owed
  <2>1. Wanted(a, i, p, n) /\ OnItsWay(a, i, p, n)
    BY <1>2, JumpedStays DEF Owing
  <2>2. Wanted(a, i, p, n)'
    BY <2>1, WantedKept
  <2>3. CASE ManageReceivedPublication \/ ManageParent
    BY <2>1, <2>2, <2>3, TakenIsServed DEF Wanted
  <2>4. CASE ~(ManageReceivedPublication \/ ManageParent)
    <3>1. In(publication) \subseteq In(publication)' /\ In(pipe) \subseteq In(pipe)'
      BY <2>4, QueuedKept
    <3>2. CASE p \in known /\ Published(p, n) \in In(publication)
      BY <2>2, <3>1, <3>2, KnownKept DEF OnItsWay, Published
    <3>3. CASE Published(p, n) \in In(pipe)
      BY <2>2, <3>1, <3>3 DEF OnItsWay, Published
    <3>4. CASE Serving(a, i, p) /\ hand.value = n
      <4>1. \/ Serving(a, i, p)' /\ hand'.value = hand.value
            \/ owed' = {d \in owed : ~(/\ d[1] = a /\ d[2] = i /\ d[3] = p
                                      /\ d[4] <= hand.value)}
        BY <2>1, <2>2, <3>4, ServingKept DEF Wanted
      <4>2. n <= n
        BY NumbersAreNatural
      <4> QED BY <2>2, <3>4, <4>1, <4>2 DEF OnItsWay
    <3> QED BY <2>1, <3>2, <3>3, <3>4 DEF OnItsWay
  <2> QED BY <2>3, <2>4
<1> QED BY <1>1, <1>2

-----------------------------------------------------------------------------
(***************************************************************************)
(* The news of the remote agents.                                          *)
(***************************************************************************)
LEMMA NewsAppend ==
  ASSUME Types, NEW m \in Message, private' = Append(private, m), NEW r
  PROVE  IF NewsOf(m, r)
         THEN LastNews(r, m.type)'
         ELSE /\ \A type : LastNews(r, type) => LastNews(r, type)'
              /\ NoNews(r) => NoNews(r)'
<1>1. /\ Len(private') = Len(private) + 1 /\ Len(private) \in Nat
      /\ \A k \in 1..Len(private) : private'[k] = private[k]
      /\ private'[Len(private) + 1] = m
  <2>1. private \in Seq(Message)
    BY DEF Types, TypeOK
  <2> QED BY <2>1, AppendFacts
<1>2. CASE NewsOf(m, r)
  <2>1. Len(private) + 1 \in 1..Len(private')
    BY <1>1
  <2>2. \A l \in 1..Len(private') : ~(Len(private) + 1 < l)
    BY <1>1
  <2> QED BY <1>1, <1>2, <2>1, <2>2 DEF LastNews
<1>3. CASE ~NewsOf(m, r)
  <2>1. ASSUME NEW type, LastNews(r, type) PROVE LastNews(r, type)'
    <3>1. PICK k \in 1..Len(private) :
            /\ NewsOf(private[k], r) /\ private[k].type = type
            /\ \A l \in 1..Len(private) : k < l => ~NewsOf(private[l], r)
      BY <2>1 DEF LastNews
    <3>2. k \in 1..Len(private') /\ NewsOf(private'[k], r) /\ private'[k].type = type
      BY <1>1, <3>1
    <3>3. \A l \in 1..Len(private') : l \in 1..Len(private) \/ l = Len(private) + 1
      BY <1>1
    <3> QED BY <1>1, <1>3, <3>1, <3>2, <3>3 DEF LastNews
  <2>2. NoNews(r) => NoNews(r)'
    <3>1. \A l \in 1..Len(private') : l \in 1..Len(private) \/ l = Len(private) + 1
      BY <1>1
    <3> QED BY <1>1, <1>3, <3>1 DEF NoNews
  <2> QED BY <1>3, <2>1, <2>2
<1> QED BY <1>2, <1>3

LEMMA NewsTail ==
  ASSUME Types, private # <<>>, private' = Tail(private), NEW r
  PROVE  IF NewsOf(Head(private), r)
         THEN /\ ~NoNews(r)
              /\ \A type : LastNews(r, type) =>
                    LastNews(r, type)' \/ (NoNews(r)' /\ Head(private).type = type)
         ELSE /\ \A type : LastNews(r, type) => LastNews(r, type)'
              /\ NoNews(r) => NoNews(r)'
<1>1. /\ Len(private) \in Nat \ {0} /\ Head(private) = private[1]
      /\ Len(private') = Len(private) - 1
      /\ \A k \in 1..Len(private) - 1 : private'[k] = private[k + 1]
  BY TailFacts DEF Types, TypeOK
<1>2. /\ 1 \in 1..Len(private)
      /\ \A k \in 1..Len(private') : k + 1 \in 1..Len(private) /\ private'[k] = private[k + 1]
      /\ \A k \in 1..Len(private) : k # 1 => k - 1 \in 1..Len(private')
                                           /\ private'[k - 1] = private[k]
  BY <1>1
<1>3. ASSUME NEW type, NEW k \in 1..Len(private), k # 1,
             NewsOf(private[k], r) /\ private[k].type = type,
             \A l \in 1..Len(private) : k < l => ~NewsOf(private[l], r)
      PROVE  LastNews(r, type)'
  <2>1. \A l \in 1..Len(private') : k - 1 < l => ~NewsOf(private'[l], r)
    <3>1. SUFFICES ASSUME NEW l \in 1..Len(private'), k - 1 < l PROVE ~NewsOf(private[l + 1], r)
      BY <1>2
    <3>2. l + 1 \in 1..Len(private) /\ k < l + 1
      BY <1>1, <1>2, <3>1
    <3> QED BY <1>3, <3>2
  <2> QED BY <1>2, <1>3, <2>1 DEF LastNews
<1>4. NoNews(r) => NoNews(r)'
  BY <1>2 DEF NoNews
<1>5. CASE NewsOf(Head(private), r)
  <2>1. ~NoNews(r)
    BY <1>1, <1>2, <1>5 DEF NoNews
  <2>2. ASSUME NEW type, LastNews(r, type)
        PROVE  LastNews(r, type)' \/ (NoNews(r)' /\ Head(private).type = type)
    <3>1. PICK k \in 1..Len(private) :
            /\ NewsOf(private[k], r) /\ private[k].type = type
            /\ \A l \in 1..Len(private) : k < l => ~NewsOf(private[l], r)
      BY <2>2 DEF LastNews
    <3>2. CASE k # 1
      BY <1>3, <3>1, <3>2
    <3>3. CASE k = 1
      <4>1. NoNews(r)'
        <5>1. SUFFICES ASSUME NEW l \in 1..Len(private') PROVE ~NewsOf(private'[l], r)
          BY DEF NoNews
        <5>2. l + 1 \in 1..Len(private) /\ k < l + 1
          BY <1>2, <3>3
        <5> QED BY <1>2, <3>1, <5>2
      <4> QED BY <1>1, <3>1, <3>3, <4>1
    <3> QED BY <3>2, <3>3
  <2> QED BY <1>5, <2>1, <2>2
<1>6. CASE ~NewsOf(Head(private), r)
  <2>1. ASSUME NEW type, LastNews(r, type) PROVE LastNews(r, type)'
    <3>1. PICK k \in 1..Len(private) :
            /\ NewsOf(private[k], r) /\ private[k].type = type
            /\ \A l \in 1..Len(private) : k < l => ~NewsOf(private[l], r)
      BY <2>1 DEF LastNews
    <3> QED BY <1>1, <1>3, <1>6, <3>1
  <2> QED BY <1>4, <1>6, <2>1
<1> QED BY <1>5, <1>6

\* What the receiving process will know of r once it got the news.
InformedOf(r) ==
  IF Announced(r)
  THEN LastNews(r, "EXTERNAL_DEFINITION") \/ (r \in known /\ NoNews(r))
  ELSE LastNews(r, "REMOTE_AGENT_EXIT") \/ (r \notin known /\ NoNews(r))

LEMMA InformedKept == Types /\ Informed /\ [Next]_vars => Informed'
<1> SUFFICES ASSUME Types, Informed, [Next]_vars, NEW r \in Remotes PROVE InformedOf(r)'
  BY DEF Informed, InformedOf
<1>0. InformedOf(r)
  BY DEF Informed, InformedOf
<1>1. CASE UNCHANGED <<present, announce, known, private>>
  BY <1>0, <1>1 DEF InformedOf, Announced, LastNews, NoNews
<1>2. CASE AnswerRequest
  <2>1. CASE Head(request) \in present
    <3> DEFINE m == CurrentOutputs(Head(request))
    <3>1. m \in Message /\ m.type = "CURRENT_OUTPUTS"
      BY <2>1 DEF CurrentOutputs, Message, Types, TypeOK, Publishers
    <3>2. private' = Append(private, m) /\ UNCHANGED <<present, announce, known>>
      BY <1>2, <2>1 DEF AnswerRequest
    <3> HIDE DEF m
    <3>3. ~NewsOf(m, r)
      BY <3>1 DEF NewsOf, News
    <3> QED BY <1>0, <3>1, <3>2, <3>3, NewsAppend DEF InformedOf, Announced
  <2>2. CASE Head(request) \notin present
    BY <1>1, <1>2, <2>2 DEF AnswerRequest
  <2> QED BY <2>1, <2>2
<1>3. ASSUME NEW q \in Remotes, SendDefinition(q) PROVE InformedOf(r)'
  <2> DEFINE m == Definition(q)
  <2>1. m \in Message /\ m.type = "EXTERNAL_DEFINITION" /\ m.agent = q
    BY NumbersAreNatural DEF Definition, Message
  <2>2. /\ private' = Append(private, m) /\ q \in present /\ announce' = announce \ {q}
        /\ UNCHANGED <<present, known>>
    BY <1>3 DEF SendDefinition
  <2> HIDE DEF m
  <2>3. CASE r = q
    <3>1. LastNews(r, "EXTERNAL_DEFINITION")'
      BY <2>1, <2>2, <2>3, NewsAppend DEF NewsOf, News
    <3> QED BY <2>2, <2>3, <3>1 DEF InformedOf, Announced
  <2>4. CASE r # q
    <3>1. ~NewsOf(m, r)
      BY <2>1, <2>4 DEF NewsOf
    <3> QED BY <1>0, <2>1, <2>2, <2>4, <3>1, NewsAppend DEF InformedOf, Announced
  <2> QED BY <2>3, <2>4
<1>4. ASSUME NEW q \in Remotes, RemoteLeaves(q) PROVE InformedOf(r)'
  <2> DEFINE m == AgentExit(q)
  <2>1. m \in Message /\ m.type = "REMOTE_AGENT_EXIT" /\ m.agent = q
    BY NumbersAreNatural DEF AgentExit, Message
  <2>2. /\ private' = Append(private, m) /\ present' = present \ {q}
        /\ UNCHANGED <<announce, known>>
    BY <1>4 DEF RemoteLeaves
  <2> HIDE DEF m
  <2>3. CASE r = q
    <3>1. LastNews(r, "REMOTE_AGENT_EXIT")'
      BY <2>1, <2>2, <2>3, NewsAppend DEF NewsOf, News
    <3> QED BY <2>2, <2>3, <3>1 DEF InformedOf, Announced
  <2>4. CASE r # q
    <3>1. ~NewsOf(m, r)
      BY <2>1, <2>4 DEF NewsOf
    <3> QED BY <1>0, <2>1, <2>2, <2>4, <3>1, NewsAppend DEF InformedOf, Announced
  <2> QED BY <2>3, <2>4
<1>5. ASSUME NEW q \in Remotes, RemoteReturns(q) PROVE InformedOf(r)'
  <2>1. /\ UNCHANGED <<private, known>> /\ q \notin present
        /\ present' = present \cup {q} /\ announce' = announce \cup {q}
    BY <1>5 DEF RemoteReturns
  <2>2. Announced(r)' <=> Announced(r)
    BY <2>1 DEF Announced
  <2> QED BY <1>0, <2>1, <2>2 DEF InformedOf, LastNews, NoNews
<1>6. CASE RecvDefinition
  <2>1. /\ FromRemote("EXTERNAL_DEFINITION") /\ known' = known \cup {Head(private).agent}
        /\ UNCHANGED <<present, announce>>
    BY <1>6 DEF RecvDefinition
  <2>2. Head(private).type = "EXTERNAL_DEFINITION" /\ private # <<>> /\ private' = Tail(private)
    BY <2>1 DEF FromRemote
  <2>3. CASE r = Head(private).agent
    <3>1. NewsOf(Head(private), r)
      BY <2>2, <2>3 DEF NewsOf, News
    <3> QED BY <1>0, <2>1, <2>2, <2>3, <3>1, NewsTail DEF InformedOf, Announced
  <2>4. CASE r # Head(private).agent
    <3>1. ~NewsOf(Head(private), r)
      BY <2>4 DEF NewsOf
    <3> QED BY <1>0, <2>1, <2>2, <2>4, <3>1, NewsTail DEF InformedOf, Announced
  <2> QED BY <2>3, <2>4
<1>7. CASE RecvAgentExit
  <2>1. /\ FromRemote("REMOTE_AGENT_EXIT") /\ known' = known \ {Head(private).agent}
        /\ UNCHANGED <<present, announce>>
    BY <1>7 DEF RecvAgentExit
  <2>2. Head(private).type = "REMOTE_AGENT_EXIT" /\ private # <<>> /\ private' = Tail(private)
    BY <2>1 DEF FromRemote
  <2>3. CASE r = Head(private).agent
    <3>1. NewsOf(Head(private), r)
      BY <2>2, <2>3 DEF NewsOf, News
    <3> QED BY <1>0, <2>1, <2>2, <2>3, <3>1, NewsTail DEF InformedOf, Announced
  <2>4. CASE r # Head(private).agent
    <3>1. ~NewsOf(Head(private), r)
      BY <2>4 DEF NewsOf
    <3> QED BY <1>0, <2>1, <2>2, <2>4, <3>1, NewsTail DEF InformedOf, Announced
  <2> QED BY <2>3, <2>4
<1>8. CASE RecvCurrentOutputs
  <2>1. FromRemote("CURRENT_OUTPUTS") /\ UNCHANGED <<present, announce, known>>
    BY <1>8 DEF RecvCurrentOutputs
  <2>2. Head(private).type = "CURRENT_OUTPUTS" /\ private # <<>> /\ private' = Tail(private)
    BY <2>1 DEF FromRemote
  <2>3. ~NewsOf(Head(private), r)
    BY <2>2 DEF NewsOf, News
  <2> QED BY <1>0, <2>1, <2>2, <2>3, NewsTail DEF InformedOf, Announced
<1>9. CASE User
  BY <1>1, <1>4, <1>5, <1>9 DEF User, SetRemote, SetLocal, Mute, FreezeFar, Freeze,
     Activate, Deactivate, MappingSearch, MappingAdd, MappingRemove
<1>10. CASE Far
  BY <1>1, <1>2, <1>3, <1>10 DEF Far, FilterArrives
<1>11. CASE Receiver
  BY <1>1, <1>6, <1>7, <1>8, <1>11
     DEF Receiver, ManageReceivedPublication, ManageParent,
         NextAgent, WalkMapping, CallbacksReturn, MappingTimer, MappingUpdate, RequestTimer
<1> QED BY <1>1, <1>9, <1>10, <1>11 DEF Next, vars

-----------------------------------------------------------------------------
(***************************************************************************)
(* What is asked for.                                                      *)
(***************************************************************************)
LEMMA SinceThawed ==
  ASSUME Types, [Next]_vars, churn'["freeze"] = 0
  PROVE  churn["freeze"] = 0 /\ ~frozen
<1>1. churn \in [Kinds -> Nat] /\ "freeze" \in Kinds /\ (churn["freeze"] = 0 => ~frozen)
  BY DEF Types, TypeOK, Kinds, Thawed
<1>2. ASSUME NEW kind \in Kinds, UserOperation(kind) PROVE churn["freeze"] = 0
  BY <1>1, <1>2 DEF UserOperation
<1>3. CASE User
  BY <1>1, <1>2, <1>3 DEF User, SetRemote, SetLocal, Mute, FreezeFar, Freeze, RemoteLeaves,
     RemoteReturns, Activate, Deactivate, MappingSearch, MappingAdd, MappingRemove, Kinds
<1>4. CASE Far
  BY <1>1, <1>4 DEF Far, AnswerRequest, SendDefinition, FilterArrives
<1>5. CASE Receiver
  BY <1>1, <1>5 DEF Receiver, RecvDefinition, RecvAgentExit, RecvCurrentOutputs,
      ManageReceivedPublication, ManageParent, NextAgent, WalkMapping, CallbacksReturn,
      MappingTimer, MappingUpdate, RequestTimer
<1> QED BY <1>1, <1>3, <1>4, <1>5 DEF Next, vars

\* A message that is sent, or taken.
LEMMA PrivateAppend ==
  ASSUME Types, NEW m \in Message, private' = Append(private, m)
  PROVE  In(private)' = In(private) \cup {m}
<1>1. private \in Seq(Message)
  BY DEF Types, TypeOK
<1>2. In(Append(private, m)) = In(private) \cup {m}
  BY <1>1, AppendFacts
<1> QED BY <1>2 DEF In

LEMMA PrivateTail ==
  ASSUME Types, NEW type, FromRemote(type)
  PROVE  In(private) = {Head(private)} \cup In(private)' /\ Head(private).type = type
<1>1. private \in Seq(Message) /\ private # <<>> /\ private' = Tail(private)
  BY DEF Types, TypeOK, FromRemote
<1>2. In(private) = {Head(private)} \cup In(Tail(private))
  BY <1>1, TailFacts
<1> QED BY <1>1, <1>2 DEF In, FromRemote

\* Subscribing for an agent that asks for outputs leads to a request.
LEMMA MappedFacts ==
  ASSUME NEW a \in Requesting, NEW i, NEW r, <<i, r>> \in MapSet(a), NEW A, a \in A, NEW K, r \in K
  PROVE  r \in Mapped(A \cap Requesting, K)
<1>1. <<i, r>>[2] \in {r, AnyAgent}
  OBVIOUS
<1> QED BY <1>1 DEF Mapped

\* What an agent lacks after a step it lacked before, or it has just been asked
\* for.
LEMMA LacksBefore ==
  ASSUME Types, Informed, [Next]_vars, NEW a \in Requesting, NEW i \in Inputs, NEW r \in Remotes,
         Lacks(a, i, r)'
  PROVE  Lacks(a, i, r) \/ r \in pending'
<1>0. a \in Locals /\ a # None /\ r # None /\ r \in Publishers
  BY DataFlowAssumption DEF Publishers
<1>1. CASE UNCHANGED <<active, remap, known, present, announce, private, mapping, input>>
  BY <1>1 DEF Lacks, Announced, NoExit, In, MapSet, Accepts
<1>2. CASE AnswerRequest
  <2>1. CASE Head(request) \in present
    <3> DEFINE m == CurrentOutputs(Head(request))
    <3>1. m \in Message
      BY <2>1 DEF CurrentOutputs, Message, Types, TypeOK, Publishers
    <3>2. private' = Append(private, m)
      BY <1>2, <2>1 DEF AnswerRequest
    <3> HIDE DEF m
    <3>3. In(private) \subseteq In(private)'
      BY <3>1, <3>2, PrivateAppend
    <3> QED BY <1>2, <3>3 DEF AnswerRequest, Lacks, Announced, NoExit, MapSet, Accepts
  <2>2. CASE Head(request) \notin present
    BY <1>1, <1>2, <2>2 DEF AnswerRequest
  <2> QED BY <2>1, <2>2
<1>3. ASSUME NEW q \in Remotes, SendDefinition(q) PROVE Lacks(a, i, r) \/ r \in pending'
  <2> DEFINE m == Definition(q)
  <2>1. m \in Message
    BY NumbersAreNatural DEF Definition, Message
  <2>2. private' = Append(private, m)
    BY <1>3 DEF SendDefinition
  <2> HIDE DEF m
  <2>3. In(private) \subseteq In(private)'
    BY <2>1, <2>2, PrivateAppend
  <2>4. NoExit(r) /\ r \in known
    BY <1>3, <2>3 DEF Lacks, NoExit, SendDefinition
  <2>5. ~LastNews(r, "REMOTE_AGENT_EXIT")
    BY <2>4 DEF LastNews, NoExit, NewsOf, In
  <2>6. Announced(r)
    BY <2>4, <2>5 DEF Informed
  <2> QED BY <1>3, <2>3, <2>6 DEF SendDefinition, Lacks, NoExit, MapSet, Accepts
<1>4. ASSUME NEW q \in Remotes, RemoteLeaves(q) PROVE Lacks(a, i, r) \/ r \in pending'
  <2> DEFINE m == AgentExit(q)
  <2>1. m \in Message
    BY NumbersAreNatural DEF AgentExit, Message
  <2>2. private' = Append(private, m)
    BY <1>4 DEF RemoteLeaves
  <2> HIDE DEF m
  <2>3. In(private) \subseteq In(private)'
    BY <2>1, <2>2, PrivateAppend
  <2> QED BY <1>4, <2>3 DEF RemoteLeaves, Lacks, Announced, NoExit, MapSet, Accepts
<1>5. ASSUME NEW q \in Remotes, RemoteReturns(q) PROVE Lacks(a, i, r) \/ r \in pending'
  BY <1>5 DEF RemoteReturns, Lacks, Announced, NoExit, In, MapSet, Accepts
<1>6. CASE RecvDefinition
  <2>1. /\ FromRemote("EXTERNAL_DEFINITION") /\ Configure(active, {Head(private).agent})
        /\ known' = known \cup {Head(private).agent}
        /\ UNCHANGED <<active, remap, present, announce, mapping, input>>
    BY <1>6 DEF RecvDefinition
  <2>2. CASE r = Head(private).agent
    <3>1. r \in Mapped(active \cap Requesting, {r})
      BY <2>1, MappedFacts DEF Lacks, MapSet
    <3> QED BY <2>1, <2>2, <3>1 DEF Configure, Requests
  <2>3. CASE r # Head(private).agent
    <3>1. In(private) = {Head(private)} \cup In(private)' /\ Head(private).type = "EXTERNAL_DEFINITION"
      BY <2>1, PrivateTail
    <3>2. NoExit(r)' => NoExit(r)
      BY <3>1 DEF NoExit
    <3> QED BY <2>1, <2>3, <3>2 DEF Lacks, Announced, MapSet, Accepts
  <2> QED BY <2>2, <2>3
<1>7. CASE RecvAgentExit
  <2>1. /\ FromRemote("REMOTE_AGENT_EXIT") /\ known' = known \ {Head(private).agent}
        /\ UNCHANGED <<active, remap, present, announce, mapping, input>>
    BY <1>7 DEF RecvAgentExit
  <2>2. In(private) = {Head(private)} \cup In(private)'
    BY <2>1, PrivateTail
  <2>3. r # Head(private).agent /\ r \in known
    BY <2>1 DEF Lacks
  <2>4. NoExit(r)' => NoExit(r)
    BY <2>2, <2>3 DEF NoExit
  <2> QED BY <2>1, <2>3, <2>4 DEF Lacks, Announced, MapSet, Accepts
<1>8. CASE RecvCurrentOutputs
  <2>1. /\ FromRemote("CURRENT_OUTPUTS")
        /\ UNCHANGED <<active, remap, known, present, announce, mapping, input>>
    BY <1>8 DEF RecvCurrentOutputs
  <2>2. In(private) = {Head(private)} \cup In(private)' /\ Head(private).type = "CURRENT_OUTPUTS"
    BY <2>1, PrivateTail
  <2>3. NoExit(r)' => NoExit(r)
    BY <2>2 DEF NoExit
  <2> QED BY <2>1, <2>3 DEF Lacks, Announced, MapSet, Accepts
<1>9. CASE WalkMapping
  <2>1. UNCHANGED <<active, remap, known, present, announce, private, mapping>>
    BY <1>9 DEF WalkMapping
  <2>2. input'[a][i] = NoValue => input[a][i] = NoValue
    <3>1. CASE input' = input
      BY <3>1
    <3>2. ASSUME NEW k \in Inputs, input' = ModelWrite(hand.agent, k)
          PROVE  input'[a][i] = NoValue => input[a][i] = NoValue
      <4>1. hand.from # None
        BY <1>9, WalkFacts, DataFlowAssumption
      <4>2. input'[a][i] \in {input[a][i], [from |-> hand.from, value |-> hand.value,
                                          reply |-> hand.reply]}
        <5>1. /\ input \in [Locals -> [Inputs -> [from : Publishers \cup {None}, value : Numbers,
                                                reply : BOOLEAN]]]
          BY DEF Types, TypeOK
        <5> QED BY <1>0, <3>2, <5>1, WalkFacts DEF ModelWrite
      <4> QED BY <4>1, <4>2 DEF NoValue
    <3> QED BY <1>9, <3>1, <3>2, WalkFacts DEF Elements
  <2> QED BY <2>1, <2>2 DEF Lacks, Announced, NoExit, In, MapSet, Accepts
<1>10. ASSUME NEW b \in Locals, MappingUpdate(b) PROVE Lacks(a, i, r) \/ r \in pending'
  <2>1. UNCHANGED <<active, known, present, announce, private, mapping, input>>
    BY <1>10 DEF MappingUpdate
  <2>2. CASE a = b /\ b \in remap
    <3>1. Configure({a}, known)
      BY <1>10, <2>2 DEF MappingUpdate
    <3>2. r \in Mapped({a} \cap Requesting, known)
      BY <2>1, MappedFacts DEF Lacks, MapSet
    <3> QED BY <3>1, <3>2 DEF Configure, Requests
  <2>3. CASE ~(a = b /\ b \in remap)
    <3>1. a \notin remap
      BY <1>10, <2>3 DEF MappingUpdate, Lacks
    <3> QED BY <2>1, <3>1 DEF Lacks, Announced, NoExit, In, MapSet, Accepts
  <2> QED BY <2>2, <2>3
<1>11. ASSUME NEW b \in Locals, Activate(b) \/ Deactivate(b)
       PROVE  Lacks(a, i, r) \/ r \in pending'
  BY <1>11 DEF Activate, Deactivate, Lacks, Announced, NoExit, In, MapSet, Accepts
<1>12. ASSUME NEW b \in Locals, NEW e, MappingAdd(b, e)
       PROVE  Lacks(a, i, r) \/ r \in pending'
  <2>1. CASE e \notin MapSet(b)
    <3>1. /\ remap' = remap \cup {b} /\ mapping' = [mapping EXCEPT ![b] = Append(@, e)]
          /\ UNCHANGED <<active, known, present, announce, private, input>>
      BY <1>12, <2>1 DEF MappingAdd
    <3>2. a # b /\ mapping'[a] = mapping[a]
      BY <1>0, <3>1 DEF Lacks, Types, TypeOK
    <3> QED BY <3>1, <3>2 DEF Lacks, Announced, NoExit, In, MapSet, Accepts
  <2>2. CASE e \in MapSet(b)
    BY <1>1, <1>12, <2>2 DEF MappingAdd
  <2> QED BY <2>1, <2>2
<1>13. ASSUME NEW b \in Locals, NEW gone, MappingRemove(b, gone)
       PROVE  Lacks(a, i, r) \/ r \in pending'
  <2>1. /\ remap' = remap \cup {b}
        /\ UNCHANGED <<active, known, present, announce, private, input>>
    BY <1>13 DEF MappingRemove
  <2>2. a # b /\ mapping'[a] = mapping[a]
    BY <1>0, <1>13, <2>1 DEF MappingRemove, Lacks, Types, TypeOK
  <2> QED BY <2>1, <2>2 DEF Lacks, Announced, NoExit, In, MapSet, Accepts
<1>14. CASE User
  BY <1>1, <1>4, <1>5, <1>11, <1>12, <1>13, <1>14
     DEF User, SetRemote, SetLocal, Mute, FreezeFar, Freeze, MappingSearch
<1>15. CASE Far
  BY <1>1, <1>2, <1>3, <1>15 DEF Far, FilterArrives
<1>16. CASE Receiver
  BY <1>1, <1>6, <1>7, <1>8, <1>9, <1>10, <1>16
     DEF Receiver, ManageReceivedPublication, ManageParent, NextAgent, CallbacksReturn,
         MappingTimer, RequestTimer
<1> QED BY <1>1, <1>14, <1>15, <1>16 DEF Next, vars

\* A request is sent, answered and its reply handled.
LEMMA AskedKept ==
  ASSUME Types, [Next]_vars, ~frozen, NEW a \in Locals, NEW i \in Inputs, NEW r \in Remotes,
         r \in known, r \in known', r \in present, Asked(r)
  PROVE  Asked(r)' \/ Serving(a, i, r)'
<1>0. a # None
  BY DataFlowAssumption DEF Publishers
<1>1. CASE UNCHANGED <<pending, request, private>>
  BY <1>1 DEF Asked, In
<1>2. CASE AnswerRequest
  <2>1. /\ request \in Seq(Remotes) /\ request # <<>> /\ request' = Tail(request)
        /\ pending' = pending
    BY <1>2 DEF AnswerRequest, Types, TypeOK
  <2>2. In(request) = {Head(request)} \cup In(Tail(request)) /\ Head(request) \in Remotes
    BY <2>1, TailFacts
  <2>3. In(Tail(request)) = In(request)'
    BY <2>1 DEF In
  <2>4. \/ private' = private
        \/ private' = Append(private, CurrentOutputs(Head(request)))
    BY <1>2 DEF AnswerRequest
  <2>5. CurrentOutputs(Head(request)) \in Message
    BY <2>2 DEF CurrentOutputs, Message, Types, TypeOK, Publishers
  <2>6. In(private) \subseteq In(private)'
    BY <2>4, <2>5, PrivateAppend DEF In
  <2>7. CASE Head(request) = r
    <3>1. In(private)' = In(private) \cup {CurrentOutputs(r)}
      BY <1>2, <2>5, <2>7, PrivateAppend DEF AnswerRequest
    <3> DEFINE m == CurrentOutputs(r)
    <3>2. m.type = "CURRENT_OUTPUTS" /\ m.agent = r
      BY DEF CurrentOutputs
    <3> HIDE DEF m
    <3>3. m \in In(private)'
      BY <3>1 DEF m
    <3> QED BY <3>2, <3>3 DEF Asked
  <2>8. CASE Head(request) # r
    BY <2>1, <2>2, <2>3, <2>6, <2>8 DEF Asked
  <2> QED BY <2>7, <2>8
<1>3. ASSUME NEW q \in Remotes, RequestTimer(q) PROVE Asked(r)'
  <2>1. /\ request \in Seq(Remotes) /\ request' = Append(request, q)
        /\ pending' = pending \ {q} /\ private' = private
    BY <1>3 DEF RequestTimer, Types, TypeOK
  <2>2. In(request') = In(request) \cup {q}
    BY <2>1, AppendFacts
  <2>3. In(request)' = In(request) \cup {q}
    BY <2>2 DEF In
  <2> QED BY <2>1, <2>3 DEF Asked, In
<1>4. ASSUME pending \subseteq pending', request' = request, In(private) \subseteq In(private)'
      PROVE  Asked(r)'
  BY <1>4 DEF Asked, In
<1>5. ASSUME NEW q \in Remotes, SendDefinition(q) PROVE Asked(r)'
  <2>1. Definition(q) \in Message
    BY NumbersAreNatural DEF Definition, Message
  <2> QED BY <1>4, <1>5, <2>1, PrivateAppend DEF SendDefinition
<1>6. ASSUME NEW q \in Remotes, RemoteLeaves(q) PROVE Asked(r)'
  <2>1. AgentExit(q) \in Message
    BY NumbersAreNatural DEF AgentExit, Message
  <2> QED BY <1>4, <1>6, <2>1, PrivateAppend DEF RemoteLeaves
<1>7. CASE RecvDefinition \/ RecvAgentExit
  <2>1. r \in pending => r \in pending'
    BY <1>7 DEF RecvDefinition, RecvAgentExit, Configure, Requests
  <2>2. request' = request
    BY <1>7 DEF RecvDefinition, RecvAgentExit
  <2>3. PICK type \in News : FromRemote(type)
    BY <1>7 DEF RecvDefinition, RecvAgentExit, News
  <2>4. In(private) = {Head(private)} \cup In(private)' /\ Head(private).type = type
    BY <2>3, PrivateTail
  <2> QED BY <2>1, <2>2, <2>3, <2>4 DEF Asked, News, In
<1>8. CASE RecvCurrentOutputs
  <2>1. FromRemote("CURRENT_OUTPUTS") /\ UNCHANGED <<pending, request>>
    BY <1>8 DEF RecvCurrentOutputs
  <2>2. In(private) = {Head(private)} \cup In(private)'
    BY <2>1, PrivateTail
  <2>3. CASE Head(private).agent = r
    <3>1. Handle(r, Head(private).value, TRUE)
      BY <1>8, <2>3 DEF RecvCurrentOutputs
    <3> QED BY <1>0, <3>1, HandleFacts DEF Serving
  <2>4. CASE Head(private).agent # r
    BY <2>1, <2>2, <2>4 DEF Asked, In
  <2> QED BY <2>3, <2>4
<1>9. ASSUME NEW b \in Locals, MappingUpdate(b) PROVE Asked(r)'
  BY <1>4, <1>9 DEF MappingUpdate, Configure, Requests, In
<1>10. CASE User
  BY <1>1, <1>6, <1>10
     DEF User, SetRemote, SetLocal, Mute, FreezeFar, Freeze, RemoteReturns,
         Activate, Deactivate, MappingSearch, MappingAdd, MappingRemove
<1>11. CASE Far
  BY <1>1, <1>2, <1>5, <1>11 DEF Far, FilterArrives
<1>12. CASE Receiver
  BY <1>1, <1>3, <1>7, <1>8, <1>9, <1>12
     DEF Receiver, ManageReceivedPublication, ManageParent, NextAgent, WalkMapping,
         CallbacksReturn, MappingTimer
<1> QED BY <1>1, <1>10, <1>11, <1>12 DEF Next, vars

LEMMA AskingKept == Types /\ Informed /\ Asking /\ [Next]_vars => Asking'
<1> SUFFICES ASSUME Types, Informed, Asking, [Next]_vars, churn'["freeze"] = 0, ~jumped',
                    NEW a \in Requesting, NEW i \in Inputs, NEW r \in Remotes,
                    Lacks(a, i, r)'
             PROVE  Asked(r)' \/ Serving(a, i, r)'
  BY DEF Asking
<1>1. churn["freeze"] = 0 /\ ~frozen /\ ~jumped
  BY SinceThawed, JumpedStays
<1>2. CASE r \in pending'
  BY <1>2 DEF Asked
<1>3. CASE Lacks(a, i, r)
  <2>1. a \in Locals /\ r \in Publishers /\ (Asked(r) \/ Serving(a, i, r))
    BY <1>1, <1>3, DataFlowAssumption DEF Asking, Publishers
  <2>2. CASE Asked(r)
    BY <1>1, <1>3, <2>2, AskedKept, DataFlowAssumption DEF Lacks, Announced
  <2>3. CASE Serving(a, i, r)
    <3>1. a \in Locals /\ r \in Publishers /\ hand.value \in Numbers
      BY DataFlowAssumption DEF Publishers, Types, TypeOK
    <3>2. /\ a \in active /\ <<i, r>> \in MapSet(a) /\ <<i, r>> \in MapSet(a)'
          /\ Accepts(a, i, hand.value)
      BY <1>3, <3>1 DEF Lacks, MapSet
    <3>3. Serving(a, i, r)' \/ (WalkMapping /\ hand.agent = a /\ input' = ModelWrite(a, i))
      BY <2>3, <3>1, <3>2, ServingKept
    <3>4. ASSUME WalkMapping, input' = ModelWrite(a, i) PROVE input'[a][i] # NoValue
      <4>1. hand.from # None
        BY <3>4, WalkFacts, DataFlowAssumption
      <4>2. input'[a][i].from = hand.from
        BY <3>1, <3>4 DEF ModelWrite, Types, TypeOK
      <4> QED BY <4>1, <4>2 DEF NoValue
    <3> QED BY <3>3, <3>4 DEF Lacks
  <2> QED BY <2>1, <2>2, <2>3
<1> QED BY <1>2, <1>3, LacksBefore

-----------------------------------------------------------------------------
(***************************************************************************)
(* The theorems.                                                           *)
(***************************************************************************)
LEMMA InitDInv == Init => DInv
<1> SUFFICES ASSUME Init PROVE DInv
  OBVIOUS
<1>1. Types
  BY InitTypes
<1>2. ~Handling /\ \A a \in Locals, i \in Inputs : input[a][i].from = None
  BY DEF Init, Handling, Idle, NoValue
<1>3. Ordered
  BY <1>2 DEF Init, Ordered, QueuesSorted, QueuesWritten, HandOldest, InputsOldest, HeldBefore,
              Sorted, Queue, In
<1>4. Owing
  BY DEF Init, Owing
<1>5. Informed
  BY DEF Init, Informed, Announced, NoNews
<1>6. Asking
  BY DEF Init, Asking, Lacks
<1> QED BY <1>1, <1>3, <1>4, <1>5, <1>6 DEF DInv

LEMMA NextDInv == DInv /\ [Next]_vars => DInv'
BY TypesKept, OrderedKept, OwingKept, InformedKept, AskingKept DEF DInv

LEMMA SpecDInv == Spec => []DInv
BY InitDInv, NextDInv, PTL DEF Spec

\* The state has its type; the cursor of a list under way stays within the list
\* whatever users edit during the callbacks of s_handle_publication.
THEOREM DataFlowType == Spec => []TypeOK
<1>1. DInv => TypeOK
  BY DEF DInv, Types
<1> QED BY <1>1, SpecDInv, PTL

\* Nothing published to a mapped input is missed, and nothing asked for stays
\* without an answer, whatever agents, mappings and definitions do meanwhile.
THEOREM NothingIsLost == Spec => []NothingLost
<1>1. DInv => NothingMissed
  <2> SUFFICES ASSUME DInv, NetworkReady, publication = <<>>, pipe = <<>>, ~jumped, owed # {}
               PROVE  FALSE
    BY DEF NothingMissed
  <2>1. PICK d \in owed : TRUE
    OBVIOUS
  <2>2. PICK a \in Locals, i \in Inputs, p \in Publishers, n \in Numbers : d = <<a, i, p, n>>
    BY <2>1 DEF DInv, Types, TypeOK
  <2>3. OnItsWay(a, i, p, n)
    BY <2>1, <2>2 DEF DInv, Owing
  <2>4. ~Handling /\ In(publication) = {} /\ In(pipe) = {}
    BY DEF NetworkReady, Handling, In
  <2> QED BY <2>3, <2>4 DEF OnItsWay, Serving
<1>2. DInv => AnsweredAtRest
  <2> SUFFICES ASSUME DInv, AtRest, churn["freeze"] = 0, ~jumped,
                      NEW a \in Requesting, NEW i \in Inputs, NEW r \in Remotes, Wants(a, i, r)
               PROVE  FALSE
    BY DEF AnsweredAtRest
  <2>1. ~Handling /\ In(private) = {} /\ In(request) = {}
    BY DEF AtRest, NetworkReady, Handling, In
  <2>2. Announced(r) /\ NoExit(r)
    BY <2>1 DEF AtRest, Wants, Announced, NoExit
  <2>3. ~LastNews(r, "EXTERNAL_DEFINITION")
    BY <2>1 DEF LastNews, In
  <2>4. r \in known
    BY <2>2, <2>3 DEF DInv, Informed
  <2>5. Lacks(a, i, r)
    BY <2>2, <2>4 DEF Lacks, Wants, AtRest
  <2>6. Asked(r) \/ Serving(a, i, r)
    BY <2>5 DEF DInv, Asking
  <2> QED BY <2>1, <2>6 DEF Asked, Serving, AtRest
<1>3. DInv => NothingLost
  BY <1>1, <1>2 DEF NothingLost
<1> QED BY <1>3, SpecDInv, PTL

\* An input never goes back to an earlier value of the output it holds, by
\* publications alone.
THEOREM ValuesInOrder == Spec => InOrder
<1> DEFINE A == \A a \in Locals, i \in Inputs :
                  LET old == input[a][i]
                      new == input'[a][i]
                  IN (old.from = new.from /\ ~old.reply /\ ~new.reply) => old.value <= new.value
<1>1. DInv /\ [Next]_vars => A
  <2> SUFFICES ASSUME DInv, [Next]_vars, NEW a \in Locals, NEW i \in Inputs,
                      input[a][i].from = input'[a][i].from,
                      ~input[a][i].reply, ~input'[a][i].reply
               PROVE  input[a][i].value <= input'[a][i].value
    OBVIOUS
  <2>1. Types /\ InputsOldest
    BY DEF DInv, Ordered
  <2>2. input[a][i].value \in Nat
    BY <2>1, HeldTypes
  <2>3. CASE input'[a][i] = input[a][i]
    BY <2>2, <2>3
  <2>4. CASE WalkMapping /\ input'[a][i] # input[a][i]
    <3>1. input'[a][i] = [from |-> hand.from, value |-> hand.value, reply |-> hand.reply]
      <4>1. PICK k \in Inputs : input' = ModelWrite(hand.agent, k)
        BY <2>1, <2>4, WalkFacts DEF Elements
      <4> QED BY <2>1, <2>4, <4>1, WalkFacts DEF ModelWrite, Types, TypeOK
    <3>2. Handling /\ hand.from # None
      BY <2>1, <2>4, WalkFacts, DataFlowAssumption
    <3> QED BY <2>1, <3>1, <3>2 DEF InputsOldest, HeldBefore
  <2> QED BY <2>3, <2>4, OnlyWalkWrites
<1> QED BY <1>1, SpecDInv, PTL DEF Spec, InOrder
=============================================================================
