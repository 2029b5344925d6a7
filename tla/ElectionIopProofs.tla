-------------------------- MODULE ElectionIopProofs --------------------------
(***************************************************************************)
(* Proofs about two components that share nothing: the elections of one    *)
(* process, for any agents and elections, then the values of inputs,       *)
(* outputs and attributes, for any IOs, writes, constraints and threads.   *)
(* None of the bounds that TLC needs is used.                              *)
(***************************************************************************)
EXTENDS Election, Iop, FiniteSetTheorems, TLAPS

-----------------------------------------------------------------------------
(***************************************************************************)
(* Elections (module Election).                                            *)
(***************************************************************************)

Once(list) == \A i, j \in 1..Len(list) : list[i] = list[j] => i = j

\* While a LEADER event is handled, those who stayed are still to be told its
\* outcome or have been told it; the others have all been told the same.
ToldSoFar ==
  \A e \in Elections :
    IF pc # "idle" /\ e = event.election
    THEN \A a \in stayed[e] : a \in In(todo) \/ verdict[a][e] = event.outcome
    ELSE \A a, b \in stayed[e] : verdict[a][e] = verdict[b][e]

StayedAttend == \A e \in Elections : stayed[e] \subseteq Members(e)

\* A callback has an attendee to call.
Attended == pc = "callback" => todo # <<>>

IInv ==
  /\ TypeOK /\ Participation /\ PeerRunsForAgents
  /\ StayedAttend /\ Attended /\ ToldSoFar

-----------------------------------------------------------------------------
\* zlist_remove on a list without duplicates takes out the element and nothing
\* else (the loop of igsagent_election_leave on the attendees).
LEMMA WithoutFacts ==
  ASSUME NEW S, NEW list \in Seq(S), NEW a, Once(list)
  PROVE  /\ Without(list, a) \in Seq(S)
         /\ In(Without(list, a)) = In(list) \ {a}
         /\ Once(Without(list, a))
<1>1. CASE a \notin In(list)
  BY <1>1 DEF Without, In
<1>2. CASE a \in In(list)
  <2> DEFINE f == FirstAt(list, a)
             W == Without(list, a)
  <2>1. PICK k \in 1..Len(list) : list[k] = a
    BY <1>2 DEF In
  <2>2. \A j \in 1..k - 1 : list[j] # a
    BY <2>1 DEF Once
  <2>3. f \in 1..Len(list) /\ list[f] = a
    BY <2>1, <2>2 DEF FirstAt
  <2>4. W = [i \in 1..Len(list) - 1 |-> IF i < f THEN list[i] ELSE list[i + 1]]
    BY <1>2 DEF Without
  <2> HIDE DEF f, W
  <2>5. Len(list) \in Nat /\ Len(list) - 1 \in Nat
    BY <2>3
  <2>6. W \in Seq(S) /\ Len(W) = Len(list) - 1
    BY <2>4, <2>5, <2>3
  <2>7. In(W) \subseteq In(list) \ {a}
    <3>1. SUFFICES ASSUME NEW i \in 1..Len(list) - 1
                   PROVE  W[i] \in In(list) /\ W[i] # a
      BY <2>6 DEF In
    <3>2. CASE i < f
      BY <3>1, <3>2, <2>3, <2>4, <2>5 DEF In, Once
    <3>3. CASE ~(i < f)
      BY <3>1, <3>3, <2>3, <2>4, <2>5 DEF In, Once
    <3> QED BY <3>2, <3>3
  <2>8. In(list) \ {a} \subseteq In(W)
    <3>1. SUFFICES ASSUME NEW i \in 1..Len(list), list[i] # a
                   PROVE  list[i] \in In(W)
      BY DEF In
    <3>2. CASE i < f
      <4>1. i \in 1..Len(W) /\ W[i] = list[i]
        BY <3>1, <3>2, <2>3, <2>4, <2>5, <2>6
      <4> QED BY <4>1 DEF In
    <3>3. CASE ~(i < f)
      <4>1. i - 1 \in 1..Len(W) /\ W[i - 1] = list[i]
        BY <3>1, <3>3, <2>3, <2>4, <2>5, <2>6
      <4> QED BY <4>1 DEF In
    <3> QED BY <3>2, <3>3
  <2>9. Once(W)
    <3>1. SUFFICES ASSUME NEW i \in 1..Len(list) - 1, NEW j \in 1..Len(list) - 1, W[i] = W[j]
                   PROVE  i = j
      BY <2>6 DEF Once
    <3>2. DEFINE at(x) == IF x < f THEN x ELSE x + 1
    <3>3. /\ at(i) \in 1..Len(list) /\ at(j) \in 1..Len(list)
          /\ list[at(i)] = W[i] /\ list[at(j)] = W[j]
      BY <2>3, <2>4, <2>5
    <3>4. at(i) = at(j)
      BY <3>1, <3>3 DEF Once
    <3> QED BY <3>4, <2>3, <2>5
  <2> QED BY <2>6, <2>7, <2>8, <2>9 DEF W
<1> QED BY <1>1, <1>2

\* An agent that joins is added to the attendees.
LEMMA AppendFacts ==
  ASSUME NEW S, NEW list \in Seq(S), NEW a \in S
  PROVE  /\ Append(list, a) \in Seq(S)
         /\ Append(list, a) # <<>>
         /\ In(Append(list, a)) = In(list) \cup {a}
         /\ a \notin In(list) /\ Once(list) => Once(Append(list, a))
<1>1. /\ Append(list, a) \in Seq(S) /\ Append(list, a) # <<>>
      /\ Len(Append(list, a)) = Len(list) + 1 /\ Len(list) \in Nat
      /\ \A i \in 1..Len(list) : Append(list, a)[i] = list[i]
      /\ Append(list, a)[Len(list) + 1] = a
  OBVIOUS
<1>2. In(Append(list, a)) = In(list) \cup {a}
  <2>1. In(Append(list, a)) \subseteq In(list) \cup {a}
    BY <1>1 DEF In
  <2>2. In(list) \subseteq In(Append(list, a))
    BY <1>1 DEF In
  <2>3. a \in In(Append(list, a))
    BY <1>1 DEF In
  <2> QED BY <2>1, <2>2, <2>3
<1>3. ASSUME a \notin In(list), Once(list) PROVE Once(Append(list, a))
  BY <1>1, <1>3 DEF In, Once
<1> QED BY <1>1, <1>2, <1>3

\* What is left of a list whose head is taken.
LEMMA TailFacts ==
  ASSUME NEW S, NEW list \in Seq(S), list # <<>>
  PROVE  /\ Head(list) \in S /\ Tail(list) \in Seq(S)
         /\ \A x \in In(list) : x = Head(list) \/ x \in In(Tail(list))
<1>1. /\ Len(list) \in Nat \ {0} /\ Head(list) = list[1] /\ Head(list) \in S
      /\ Tail(list) \in Seq(S) /\ Len(Tail(list)) = Len(list) - 1
      /\ \A i \in 1..Len(list) - 1 : Tail(list)[i] = list[i + 1]
  OBVIOUS
<1>2. ASSUME NEW i \in 1..Len(list), i # 1 PROVE list[i] \in In(Tail(list))
  <2>1. i - 1 \in 1..Len(Tail(list)) /\ Tail(list)[i - 1] = list[i]
    BY <1>1, <1>2
  <2> QED BY <2>1 DEF In
<1> QED BY <1>1, <1>2 DEF In

-----------------------------------------------------------------------------
(***************************************************************************)
(* IInv holds initially and is preserved by every action.                  *)
(***************************************************************************)
USE DEF Outcomes, locked

LEMMA InitIInv == Init => IInv
<1> SUFFICES ASSUME Init PROVE IInv
  OBVIOUS
<1>1. TypeOK
  <2>1. event \in [election : Elections, outcome : {"won", "lost"}]
    BY DEF Init
  <2>2. /\ attendees \in [Elections -> Seq(Agents)] /\ todo \in Seq(Agents)
        /\ inbox \in Seq([election : Elections, outcome : {"won", "lost"}])
    BY DEF Init
  <2>3. verdict \in [Agents -> [Elections -> {"won", "lost"} \cup {"none"}]]
    BY DEF Init
  <2> QED BY <2>1, <2>2, <2>3 DEF Init, TypeOK
<1>2. Participation
  BY DEF Init, Participation, EntriesAttended, ViewsAgree, AttendOnce, Members, In
<1>3. PeerRunsForAgents /\ StayedAttend /\ Attended /\ ToldSoFar
  BY DEF Init, PeerRunsForAgents, StayedAttend, Attended, ToldSoFar
<1> QED BY <1>1, <1>2, <1>3 DEF IInv

\* A join.
LEMMA JoinIInv ==
  ASSUME IInv, NEW a \in Agents, NEW e \in Elections, Join(a, e)
  PROVE  IInv'
<1> USE DEF IInv
<1>1. attendees[e] \in Seq(Agents) /\ Once(attendees[e])
  BY DEF TypeOK, Participation, AttendOnce, Once
<1>2. a \notin In(attendees[e])
  BY DEF Join, MayJoin, Participation, EntriesAttended, Members, In, TypeOK
<1> DEFINE new == Append(attendees[e], a)
<1>3. /\ new \in Seq(Agents) /\ new # <<>> /\ In(new) = In(attendees[e]) \cup {a} /\ Once(new)
  BY <1>1, <1>2, AppendFacts
<1>4. attendees' = [attendees EXCEPT ![e] = new]
  BY DEF Join
<1> HIDE DEF new
<1>5. \A f \in Elections : attendees'[f] = IF f = e THEN new ELSE attendees[f]
  BY <1>4 DEF TypeOK
<1>6. \A f \in Elections : Members(f)' = IF f = e THEN Members(e) \cup {a} ELSE Members(f)
  BY <1>3, <1>5 DEF Members
<1>7. verdict' = [verdict EXCEPT ![a] = [verdict[a] EXCEPT ![e] = "none"]]
  BY DEF Join
<1>8. TypeOK'
  <2>1. groups' \subseteq Elections
    BY DEF Join, JoinGroup, TypeOK
  <2>2. [verdict[a] EXCEPT ![e] = "none"] \in [Elections -> {"won", "lost"} \cup {"none"}]
    BY DEF TypeOK
  <2>3. verdict' \in [Agents -> [Elections -> {"won", "lost"} \cup {"none"}]]
    BY <1>7, <2>2 DEF TypeOK
  <2> QED BY <1>3, <1>4, <2>1, <2>3 DEF Join, TypeOK
<1>9. Participation'
  <2>1. EntriesAttended'
    BY <1>3, <1>5 DEF Join, Participation, EntriesAttended
  <2>2. ViewsAgree'
    BY <1>6 DEF Join, Participation, ViewsAgree, TypeOK
  <2>3. AttendOnce'
    BY <1>3, <1>5 DEF Participation, AttendOnce, Once
  <2> QED BY <2>1, <2>2, <2>3 DEF Participation
<1>10. PeerRunsForAgents'
  BY DEF Join, JoinGroup, PeerRunsForAgents
<1>11. StayedAttend' /\ Attended'
  BY <1>6 DEF Join, StayedAttend, Attended
<1>12. ToldSoFar'
  <2>1. \A f \in Elections : \A b \in stayed[f] : b \in Agents /\ verdict'[b][f] = verdict[b][f]
    <3>1. a \notin stayed[e]
      BY <1>2 DEF StayedAttend, Members
    <3> QED BY <1>7, <3>1 DEF TypeOK
  <2> QED BY <2>1 DEF Join, ToldSoFar
<1> QED BY <1>8, <1>9, <1>10, <1>11, <1>12

\* A leave.
LEMMA LeaveIInv ==
  ASSUME IInv, NEW a \in Agents, NEW e \in Elections, Leave(a, e)
  PROVE  IInv'
<1> USE DEF IInv
<1>1. attendees[e] \in Seq(Agents) /\ Once(attendees[e])
  BY DEF TypeOK, Participation, AttendOnce, Once
<1> DEFINE new == Without(attendees[e], a)
<1>2. new \in Seq(Agents) /\ In(new) = In(attendees[e]) \ {a} /\ Once(new)
  BY <1>1, WithoutFacts
<1>3. attendees' = [attendees EXCEPT ![e] = new]
  BY DEF Leave
<1>4. /\ entries' = IF new = <<>> THEN entries \ {e} ELSE entries
      /\ groups' = IF new = <<>> THEN groups \ {e} ELSE groups
  BY DEF Leave
<1> HIDE DEF new
<1>5. \A f \in Elections : attendees'[f] = IF f = e THEN new ELSE attendees[f]
  BY <1>3 DEF TypeOK
<1>6. \A f \in Elections : Members(f)' = IF f = e THEN Members(e) \ {a} ELSE Members(f)
  BY <1>2, <1>5 DEF Members
<1>7. TypeOK'
  BY <1>2, <1>3, <1>4 DEF Leave, TypeOK
<1>8. Participation'
  <2>1. EntriesAttended'
    BY <1>4, <1>5 DEF Leave, Participation, EntriesAttended
  <2>2. ViewsAgree'
    BY <1>6 DEF Leave, Participation, ViewsAgree, TypeOK
  <2>3. AttendOnce'
    BY <1>2, <1>5 DEF Participation, AttendOnce, Once
  <2> QED BY <2>1, <2>2, <2>3 DEF Participation
<1>9. PeerRunsForAgents'
  BY <1>4 DEF Leave, PeerRunsForAgents
<1>10. StayedAttend' /\ Attended'
  BY <1>6 DEF Leave, StayedAttend, Attended, TypeOK
<1>11. ToldSoFar'
  <2>1. \A f \in Elections : stayed'[f] \subseteq stayed[f]
    BY DEF Leave, TypeOK
  <2> QED BY <2>1 DEF Leave, ToldSoFar
<1> QED BY <1>7, <1>8, <1>9, <1>10, <1>11

\* The steps of users and of Zyre that leave participation and verdicts alone.
LEMMA OtherIInv ==
  ASSUME IInv,
         \/ \E a \in Agents : Activate(a) \/ Deactivate(a) \/ Destroy(a)
         \/ Start \/ Stop
         \/ \E e \in Elections, o \in Outcomes : Elect(e, o)
  PROVE  IInv'
<1> USE DEF IInv
<1>1. UNCHANGED <<entries, attendees, joined, pc, event, todo, verdict, stayed>>
  BY DEF Activate, Deactivate, Destroy, Start, Stop, Elect
<1>2. TypeOK'
  <2>1. CASE \E a \in Agents : Activate(a) \/ Deactivate(a) \/ Destroy(a)
    BY <1>1, <2>1 DEF Activate, Deactivate, Destroy, TypeOK
  <2>2. CASE Start
    BY <1>1, <2>2 DEF Start, StartGroups, TypeOK
  <2>4. CASE Stop
    <3>1. inbox' \in Seq([election : Elections, outcome : {"won", "lost"}])
      BY <2>4 DEF Stop
    <3> QED BY <1>1, <2>4, <3>1 DEF Stop, TypeOK
  <2>3. ASSUME NEW e \in Elections, NEW o \in Outcomes, Elect(e, o) PROVE TypeOK'
    <3>1. Append(inbox, [election |-> e, outcome |-> o])
            \in Seq([election : Elections, outcome : {"won", "lost"}])
      BY DEF TypeOK
    <3> QED BY <1>1, <2>3, <3>1 DEF Elect, TypeOK
  <2> QED BY <2>1, <2>2, <2>3, <2>4
<1>3. Participation'
  BY <1>1 DEF Participation, EntriesAttended, ViewsAgree, AttendOnce, Members, In
<1>4. PeerRunsForAgents'
  <2>1. CASE Start
    BY <1>1, <2>1 DEF PeerRunsForAgents, Start, StartGroups
  <2>2. CASE Stop
    BY <1>1, <2>2 DEF PeerRunsForAgents, Stop
  <2>3. CASE \/ \E a \in Agents : Activate(a) \/ Deactivate(a) \/ Destroy(a)
             \/ \E e \in Elections, o \in Outcomes : Elect(e, o)
    <3>1. UNCHANGED <<node, groups, entries>>
      BY <2>3 DEF Activate, Deactivate, Destroy, Elect
    <3> QED BY <3>1 DEF PeerRunsForAgents
  <2> QED BY <2>1, <2>2, <2>3
<1>5. StayedAttend' /\ Attended' /\ ToldSoFar'
  BY <1>1 DEF StayedAttend, Attended, ToldSoFar, Members, In
<1> QED BY <1>2, <1>3, <1>4, <1>5

\* A LEADER event is taken: those attending now are to be told together.
LEMMA TakeLeaderIInv == ASSUME IInv, TakeLeader PROVE IInv'
<1> USE DEF IInv
<1> DEFINE e == Head(inbox).election
<1>1. /\ Head(inbox) \in [election : Elections, outcome : {"won", "lost"}]
      /\ Tail(inbox) \in Seq([election : Elections, outcome : {"won", "lost"}])
  BY TailFacts DEF TakeLeader, TypeOK
<1>2. UNCHANGED <<created, active, entries, attendees, joined, node, groups, verdict, events>>
  BY DEF TakeLeader
<1>3. Participation' /\ PeerRunsForAgents'
  BY <1>2 DEF Participation, EntriesAttended, ViewsAgree, AttendOnce, Members, In,
              PeerRunsForAgents
<1>4. CASE e \notin entries
  BY <1>1, <1>2, <1>3, <1>4 DEF TakeLeader, TypeOK, StayedAttend, Attended, ToldSoFar, Members, In
<1>5. CASE e \in entries
  <2>1. /\ pc' = "loop" /\ event' = Head(inbox) /\ todo' = attendees[e]
        /\ stayed' = [stayed EXCEPT ![e] = Members(e)]
    BY <1>5 DEF TakeLeader
  <2>2. e \in Elections /\ Members(e) \subseteq Agents /\ Members(e) = In(attendees[e])
    BY <1>1 DEF TypeOK, Members, In
  <2>3. TypeOK'
    <3>1. inbox' = Tail(inbox)
      BY DEF TakeLeader
    <3>2. attendees[e] \in Seq(Agents) /\ stayed' \in [Elections -> SUBSET Agents]
      BY <2>1, <2>2 DEF TypeOK
    <3> HIDE DEF e
    <3> QED BY <1>1, <1>2, <2>1, <3>1, <3>2 DEF TypeOK
  <2>4. StayedAttend' /\ Attended'
    <3>1. \A f \in Elections : Members(f)' = Members(f)
      BY <1>2 DEF Members
    <3>2. \A f \in Elections : stayed'[f] = IF f = e THEN Members(e) ELSE stayed[f]
      BY <2>1 DEF TypeOK
    <3> QED BY <2>1, <3>1, <3>2 DEF StayedAttend, Attended
  <2>5. ToldSoFar'
    BY <1>2, <2>1, <2>2 DEF TakeLeader, ToldSoFar, TypeOK
  <2> QED BY <1>3, <2>3, <2>4, <2>5
<1> QED BY <1>4, <1>5

\* The observer of the next attendee is told the outcome.
LEMMA CallbackIInv == ASSUME IInv, Callback PROVE IInv'
<1> USE DEF IInv
<1> DEFINE a == Head(todo)
           e == event.election
<1>1. a \in Agents /\ Tail(todo) \in Seq(Agents) /\ \A b \in In(todo) : b = a \/ b \in In(Tail(todo))
  BY TailFacts DEF TypeOK, Attended, Callback
<1>2. e \in Elections /\ event.outcome \in {"won", "lost"}
  BY DEF TypeOK
<1>3. UNCHANGED <<created, active, entries, attendees, joined, node, groups, inbox, event,
                  stayed, events>>
  BY DEF Callback
<1>4. /\ pc = "callback" /\ pc' = "loop" /\ todo' = Tail(todo)
      /\ verdict' = [verdict EXCEPT ![a] = [verdict[a] EXCEPT ![e] = event.outcome]]
  BY DEF Callback, Outcome, Rest
<1>5. TypeOK'
  <2>1. [verdict[a] EXCEPT ![e] = event.outcome] \in [Elections -> {"won", "lost"} \cup {"none"}]
    BY <1>1, <1>2 DEF TypeOK
  <2>2. verdict' \in [Agents -> [Elections -> {"won", "lost"} \cup {"none"}]]
    BY <1>1, <1>4, <2>1 DEF TypeOK
  <2> QED BY <1>1, <1>3, <1>4, <2>2 DEF TypeOK
<1>6. Participation' /\ PeerRunsForAgents' /\ StayedAttend' /\ Attended'
  BY <1>3, <1>4 DEF Attended, Participation, EntriesAttended, ViewsAgree, AttendOnce, Members, In,
              PeerRunsForAgents, StayedAttend
<1>7. ToldSoFar'
  <2>1. \A b \in Agents, f \in Elections :
          verdict'[b][f] = IF b = a /\ f = e THEN event.outcome ELSE verdict[b][f]
    BY <1>1, <1>2, <1>4 DEF TypeOK
  <2>2. ASSUME NEW b \in stayed[e]
        PROVE  b \in In(todo)' \/ verdict'[b][e] = event.outcome
    <3>1. b \in Agents /\ (b \in In(todo) \/ verdict[b][e] = event.outcome)
      BY <1>2, <1>4 DEF TypeOK, ToldSoFar
    <3>2. b = a \/ b \in In(todo)' \/ verdict[b][e] = event.outcome
      BY <1>1, <1>4, <3>1
    <3> QED BY <1>2, <2>1, <3>1, <3>2
  <2>3. ASSUME NEW f \in Elections, f # e, NEW b \in stayed[f], NEW c \in stayed[f]
        PROVE  verdict'[b][f] = verdict'[c][f]
    <3>1. b \in Agents /\ c \in Agents /\ verdict[b][f] = verdict[c][f]
      BY <2>3 DEF TypeOK, ToldSoFar
    <3> QED BY <2>1, <2>3, <3>1
  <2> QED BY <1>3, <1>4, <2>2, <2>3 DEF ToldSoFar
<1> QED BY <1>5, <1>6, <1>7

LEMMA LoopIInv == ASSUME IInv, CallNext \/ EndLeader PROVE IInv'
<1> USE DEF IInv
<1>1. UNCHANGED <<created, active, entries, attendees, joined, node, groups, inbox, event,
                  todo, verdict, stayed, events>>
  BY DEF CallNext, EndLeader
<1>2. TypeOK' /\ Participation' /\ PeerRunsForAgents' /\ StayedAttend'
  BY <1>1 DEF CallNext, EndLeader, TypeOK, Participation, EntriesAttended, ViewsAgree,
              AttendOnce, Members, In, PeerRunsForAgents, StayedAttend
<1>3. CASE CallNext
  BY <1>1, <1>2, <1>3 DEF CallNext, Attended, ToldSoFar
<1>4. CASE EndLeader
  BY <1>1, <1>2, <1>4 DEF EndLeader, Attended, ToldSoFar, In
<1> QED BY <1>3, <1>4

LEMMA NextIInv == IInv /\ [Next]_vars => IInv'
<1> SUFFICES ASSUME IInv, [Next]_vars PROVE IInv'
  OBVIOUS
<1>1. CASE UNCHANGED vars
  BY <1>1 DEF vars, IInv, TypeOK, Participation, EntriesAttended, ViewsAgree, AttendOnce,
              Members, In, PeerRunsForAgents, StayedAttend, Attended, ToldSoFar
<1>2. CASE UserNext
  BY <1>2, JoinIInv, LeaveIInv, OtherIInv DEF UserNext
<1>3. CASE \E e \in Elections, o \in Outcomes : Elect(e, o)
  BY <1>3, OtherIInv
<1>4. CASE LeaderNext
  BY <1>4, TakeLeaderIInv, CallbackIInv, LoopIInv DEF LeaderNext
<1> QED BY <1>1, <1>2, <1>3, <1>4 DEF Next

LEMMA SpecIInv == Spec => []IInv
<1> QED BY InitIInv, NextIInv, PTL DEF Spec

-----------------------------------------------------------------------------
\* Every variable keeps its type.
THEOREM ElectionType == Spec => []TypeOK
<1>1. IInv => TypeOK
  BY DEF IInv
<1> QED BY <1>1, SpecIInv, PTL

\* The table of elections, the lists of attendees and the lists of elections of
\* the agents agree at all times (igsagent_election_join and _leave).
THEOREM ElectionParticipation == Spec => []Participation
<1>1. IInv => Participation
  BY DEF IInv
<1> QED BY <1>1, SpecIInv, PTL

\* The peer is in the Zyre groups of exactly the elections its agents
\* participate in (zyre_join and zyre_leave in join, leave and s_init_loop).
THEOREM ElectionGroups == Spec => []PeerRunsForAgents
<1>1. IInv => PeerRunsForAgents
  BY DEF IInv
<1> QED BY <1>1, SpecIInv, PTL

\* The tables of elections, of the agents and of Zyre agree at all times.
THEOREM ElectionTables == Spec => []TablesAgree
<1>1. IInv => TablesAgree
  BY DEF IInv, TablesAgree
<1> QED BY <1>1, SpecIInv, PTL

\* Between two LEADER events, the agents that attended the last one of an
\* election and have not left it since were told the same outcome.
THEOREM ElectionTold == Spec => []ToldTogether
<1>1. IInv => ToldTogether
  BY DEF IInv, ToldSoFar, ToldTogether
<1> QED BY <1>1, SpecIInv, PTL

-----------------------------------------------------------------------------
(***************************************************************************)
(* The values of inputs, outputs and attributes (module Iop).              *)
(***************************************************************************)

Contents == Blocks \cup {Null}
Origins == [vtype : ValueTypes, block : Contents, via : SUBSET ValueTypes]
Stamps == Times \cup {0, 1}
Frames == [output : Outputs, vtype : ValueTypes, block : Contents, origin : Origins \cup {Null},
           stamp : Stamps]

IopTyped ==
  /\ io \in [Ios -> [type : ValueTypes, value : Contents, size : Nat,
                     constraint : Constraints \cup {Null}, muted : BOOLEAN]]
  /\ observing \in [Ios -> Seq(Observers)]
  /\ call \in [Workers -> [io : Ios \cup {Null}, state : {"idle", "written", "observing"},
                           left : Seq(Observers)]]
  /\ channel \in Seq(Frames)
  /\ time \in Times \cup {0}
  /\ ticking \in Seq(Outputs)
  /\ last \in [Ios -> [vtype : ValueTypes, block : Contents, verified : BOOLEAN,
                       origin : Origins \cup {Null}] \cup {Null}]
  /\ seen \in [Ios -> [Observers -> Contents \cup {NotCalled}]]

\* A value v that says the same as a block b of type vtype.
Says(vtype, b, v) ==
  CASE vtype = "INTEGER" -> Number(v) = 2 * b.n
    [] vtype = "DOUBLE" -> Number(v) = b.n
    [] vtype = "BOOL" -> Number(v) = 2 * b.n
    [] OTHER -> v = b

\* The block v, held with type type, tells what was written where origin says.
Tells(o, v, type) ==
  o.block # Null /\ o.via \subseteq Holders(o.vtype) =>
    /\ type \in o.via /\ v \in Blocks /\ v.as \in Shapes[type]
    /\ o.block \in Blocks /\ o.block.as \in Shapes[o.vtype]
    /\ Says(o.vtype, o.block, v)

\* What IOs hold and what is on its way to inputs.
OriginsTold ==
  /\ \A x \in Ios :
       last[x] # Null /\ last[x].origin # Null => Tells(last[x].origin, io[x].value, io[x].type)
  /\ \A i \in DOMAIN channel :
       channel[i].origin # Null => Tells(channel[i].origin, channel[i].block, channel[i].vtype)

\* What a thread has left to do is consistent with its state.
CallsSound ==
  \A t \in Workers :
    /\ call[t].io = Null <=> call[t] = Idle
    /\ call[t].state = "idle" => call[t] = Idle
    /\ call[t].state = "observing" => call[t].left # <<>>

\* Observers that were called, or are to be, are registered.
Registered ==
  /\ \A x \in Ios, o \in Observers :
       seen[x][o] # NotCalled => \E i \in DOMAIN observing[x] : observing[x][i] = o
  /\ \A t \in Workers : \A j \in DOMAIN call[t].left :
       \E i \in DOMAIN observing[call[t].io] : observing[call[t].io][i] = call[t].left[j]

\* Thread t is going to call observer o for x.
WillTell(t, x, o) ==
  /\ call[t].io = x
  /\ call[t].state = "written" \/ \E j \in DOMAIN call[t].left : call[t].left[j] = o

\* An observer that is not up to date is about to be called.
ToldOrPending ==
  \A x \in Ios, o \in Observers :
    last[x] # Null =>
      seen[x][o] \in {NotCalled, io[x].value} \/ \E t \in Workers : WillTell(t, x, o)

IopInv ==
  /\ IopTyped /\ IopTypeOK /\ ConstraintHolds
  /\ OriginsTold /\ CallsSound /\ Registered /\ ToldOrPending

-----------------------------------------------------------------------------
\* Conversions of numbers: integers are cut, and halves kept in full.
LEMMA TruncFacts ==
  /\ \A h \in Int : Trunc(h) \in Int
  /\ \A k \in Int : Trunc(2 * k) = k /\ Round(2 * k) = k
BY DEF Trunc, Round

\* The parts of a block.
LEMMA BlockParts ==
  ASSUME NEW b \in Blocks
  PROVE  /\ b.as \in {"int", "double", "bool", "text"} /\ b.n \in Int /\ b.w \in Words
         /\ b # Null /\ b = Block(b.as, b.n, b.w)
         /\ b.as # "text" => b.w = ""
         /\ b.as = "bool" => b.n \in {0, 1}
         /\ Number(b) \in Int
<1>1. /\ b.as \in {"int", "double", "bool", "text"} /\ b.n \in Int /\ b.w \in Words
      /\ b = Block(b.as, b.n, b.w)
      /\ b.as # "text" => b.w = ""
      /\ b.as = "bool" => b.n \in {0, 1}
  <2>1. CASE b \in [as : {"int", "double"}, n : Int, w : {""}]
    BY <2>1 DEF Words, Block
  <2>2. CASE b \in [as : {"bool"}, n : {0, 1}, w : {""}]
    <3>1. b.as = "bool" /\ b.n \in {0, 1} /\ b.w = ""
      BY <2>2
    <3>2. b.n \in Int /\ b.w \in Words
      <4>1. b.n \in Int
        <5>1. b.n \in {0, 1}
          BY <2>2
        <5> QED
          BY <5>1
      <4>2. b.w \in Words
        BY <3>1 DEF Words
      <4> QED
        BY <4>1, <4>2
    <3>3. b = Block(b.as, b.n, b.w)
      BY <2>2 DEF Block
    <3> QED
      BY <3>1, <3>2, <3>3
  <2>3. CASE b \in [as : {"text"}, n : Int, w : Words]
    BY <2>3 DEF Block
  <2> QED
    BY <2>1, <2>2, <2>3 DEF Blocks
<1>2. b # Null
  BY IopAssumption
<1>3. Number(b) \in Int
  <2>1. b.n \in Int
    BY <1>1
  <2>2. 2 * b.n \in Int
    BY <2>1
  <2> QED
    BY <2>1, <2>2 DEF Number
<1> QED
  BY <1>1, <1>2, <1>3

\* The blocks that values are made of (igs_model.c:1070-1374).
LEMMA BlockMade ==
  /\ \A n \in Int : AnInt(n) \in Blocks /\ AnInt(n).as = "int" /\ AnInt(n).n = n
  /\ \A h \in Int : ADouble(h) \in Blocks /\ ADouble(h).as = "double" /\ ADouble(h).n = h
  /\ \A p \in BOOLEAN : /\ ABool(p) \in Blocks /\ ABool(p).as = "bool"
                        /\ ABool(p).n = (IF p THEN 1 ELSE 0)
  /\ \A h \in Int, w \in Words : /\ Text(h, w) \in Blocks /\ Text(h, w).as = "text"
                                 /\ Text(h, w).n = h /\ Text(h, w).w = w
BY DEF AnInt, ADouble, ABool, Text, Block, Blocks

\* What atoi, atof and printf make of a block.
LEMMA Conversions ==
  ASSUME NEW b \in Blocks
  PROVE  /\ Number(b) \in Int /\ Trunc(Number(b)) \in Int /\ Truth(b) \in BOOLEAN
         /\ Printed(b) \in Blocks /\ Printed(b).as = "text" /\ Number(Printed(b)) = Number(b)
         /\ Decoded(b) \in Blocks
<1>1. Number(b) \in Int /\ Trunc(Number(b)) \in Int
  <2>1. Number(b) \in Int
    BY BlockParts
  <2> QED
    BY <2>1, TruncFacts
<1>2. Truth(b) \in BOOLEAN
  BY DEF Truth
<1>3. b.n \in Int /\ 2 * b.n \in Int /\ b.as \in {"int", "double", "bool", "text"}
  <2>1. b.n \in Int /\ b.as \in {"int", "double", "bool", "text"}
    BY BlockParts
  <2>2. 2 * b.n \in Int
    BY <2>1
  <2> QED
    BY <2>1, <2>2
<1>4. Printed(b) \in Blocks /\ Printed(b).as = "text" /\ Number(Printed(b)) = Number(b)
  <2>1. CASE b.as \in {"int", "bool"}
    <3>1. Printed(b) = Text(2 * b.n, "int") /\ Number(b) = 2 * b.n
      BY <2>1 DEF Printed, Number
    <3>2. "int" \in Words
      BY DEF Words
    <3>3. /\ Text(2 * b.n, "int") \in Blocks /\ Text(2 * b.n, "int").as = "text"
          /\ Text(2 * b.n, "int").n = 2 * b.n
      BY <1>3, <3>2, BlockMade
    <3> QED
      BY <3>1, <3>3 DEF Number
  <2>2. CASE b.as = "double"
    <3>1. Printed(b) = Text(b.n, "real") /\ Number(b) = b.n
      BY <2>2 DEF Printed, Number
    <3>2. "real" \in Words
      BY DEF Words
    <3>3. Text(b.n, "real") \in Blocks /\ Text(b.n, "real").as = "text" /\ Text(b.n, "real").n = b.n
      BY <1>3, <3>2, BlockMade
    <3> QED
      BY <3>1, <3>3 DEF Number
  <2>3. CASE b.as = "text"
    BY <2>3 DEF Printed
  <2> QED
    BY <1>3, <2>1, <2>2, <2>3
<1>5. Decoded(b) \in Blocks
  <2>1. "raw" \in Words /\ 0 \in Int
    BY DEF Words
  <2>2. Text(0, "raw") \in Blocks
    BY <2>1, BlockMade
  <2> QED
    BY <2>2 DEF Decoded
<1> QED
  BY <1>1, <1>2, <1>4, <1>5

\* sizeof the value of each type.
LEMMA SizeFacts ==
  /\ SizeOf(Null) = 0
  /\ \A b \in Blocks : /\ SizeOf(b) \in Nat
                       /\ SizeOf(b) = 4 <=> b.as = "int"
                       /\ SizeOf(b) = 8 <=> b.as = "double"
<1>1. SizeOf(Null) = 0
  BY DEF SizeOf
<1>2. ASSUME NEW b \in Blocks
      PROVE  SizeOf(b) \in Nat /\ (SizeOf(b) = 4 <=> b.as = "int") /\ (SizeOf(b) = 8 <=> b.as = "double")
  <2>1. b # Null /\ b.as \in {"int", "double", "bool", "text"} /\ (b.as # "text" => b.w = "")
    BY BlockParts
  <2>2. CASE b.as = "int"
    <3>1. SizeOf(b) = 4
      BY <2>1, <2>2 DEF SizeOf
    <3> QED
      BY <2>2, <3>1
  <2>3. CASE b.as = "double"
    <3>1. SizeOf(b) = 8
      BY <2>1, <2>3 DEF SizeOf
    <3> QED
      BY <2>3, <3>1
  <2>4. CASE b.as = "bool"
    <3>1. SizeOf(b) = 1
      BY <2>1, <2>4 DEF SizeOf
    <3> QED
      BY <2>4, <3>1
  <2>5. CASE b.as = "text"
    BY <2>1, <2>5 DEF SizeOf
  <2> QED
    BY <2>1, <2>2, <2>3, <2>4, <2>5
<1> QED
  BY <1>1, <1>2

\* A value that an IO of that type may hold.
Fits(type, v) ==
  IF v = Null THEN type \in {"STRING", "IMPULSION", "DATA"}
  ELSE v \in Blocks /\ v.as \in Shapes[type]

\* The shape that goes with each type.
LEMMA ShapesFit ==
  ASSUME NEW b \in Blocks
  PROVE  /\ b.as = "int" => Fits("INTEGER", b)
         /\ b.as = "double" => Fits("DOUBLE", b)
         /\ b.as = "bool" => Fits("BOOL", b)
         /\ b.as = "text" => Fits("STRING", b)
         /\ Fits("DATA", b)
BY BlockParts DEF Fits, Shapes

\* The value of an IO after a write has the shape of its type.
LEMMA StoredFits ==
  ASSUME NEW type \in ValueTypes, NEW vtype \in ValueTypes, NEW b \in Contents,
         Storable(type, vtype, b)
  PROVE  Fits(type, Stored(type, vtype, b))
<1>1. CASE b = Null
  <2>1. Stored(type, vtype, b) = Zero(type)
    BY <1>1 DEF Stored
  <2>2. 0 \in Int /\ FALSE \in BOOLEAN
    OBVIOUS
  <2>3. CASE type = "INTEGER"
    <3>1. Stored(type, vtype, b) = AnInt(0)
      BY <2>1, <2>3 DEF Zero
    <3>2. AnInt(0) \in Blocks /\ AnInt(0).as = "int"
      BY <2>2, BlockMade
    <3> QED
      BY <2>3, <3>1, <3>2, ShapesFit
  <2>4. CASE type = "DOUBLE"
    <3>1. Stored(type, vtype, b) = ADouble(0)
      BY <2>1, <2>4 DEF Zero
    <3>2. ADouble(0) \in Blocks /\ ADouble(0).as = "double"
      BY <2>2, BlockMade
    <3> QED
      BY <2>4, <3>1, <3>2, ShapesFit
  <2>5. CASE type = "BOOL"
    <3>1. Stored(type, vtype, b) = ABool(FALSE)
      BY <2>1, <2>5 DEF Zero
    <3>2. ABool(FALSE) \in Blocks /\ ABool(FALSE).as = "bool"
      BY <2>2, BlockMade
    <3> QED
      BY <2>5, <3>1, <3>2, ShapesFit
  <2>6. CASE type \in {"STRING", "IMPULSION", "DATA"}
    BY <2>1, <2>6 DEF Zero, Fits
  <2> QED
    BY <2>3, <2>4, <2>5, <2>6 DEF ValueTypes
<1>2. CASE b # Null /\ vtype = "DATA"
  <2>1. b \in Blocks /\ Stored(type, vtype, b) = FromData(type, b) /\ DataFits(type, b)
    BY <1>2 DEF Stored, Storable, Contents
  <2>2. CASE type = "BOOL"
    <3>1. FromData(type, b) = ABool(b.n # 0 \/ b.as = "text")
      BY <2>2 DEF FromData
    <3>2. (b.n # 0 \/ b.as = "text") \in BOOLEAN
      OBVIOUS
    <3>3. FromData(type, b) \in Blocks /\ FromData(type, b).as = "bool"
      BY <3>1, <3>2, BlockMade
    <3> QED
      BY <2>1, <2>2, <3>3, ShapesFit
  <2>3. CASE type = "STRING"
    <3>1. FromData(type, b) = IF b.as = "text" THEN b ELSE Text(0, "raw")
      BY <2>3 DEF FromData
    <3>2. 0 \in Int /\ "raw" \in Words
      BY DEF Words
    <3>3. FromData(type, b) \in Blocks /\ FromData(type, b).as = "text"
      BY <2>1, <3>1, <3>2, BlockMade
    <3> QED
      BY <2>1, <2>3, <3>3, ShapesFit
  <2>4. CASE type = "IMPULSION"
    BY <2>1, <2>4 DEF FromData, Fits
  <2>5. CASE type = "INTEGER"
    <3>1. FromData(type, b) = b /\ SizeOf(b) = 4
      BY <2>1, <2>5 DEF FromData, DataFits
    <3> QED
      BY <2>1, <2>5, <3>1, SizeFacts, ShapesFit
  <2>6. CASE type = "DOUBLE"
    <3>1. FromData(type, b) = b /\ SizeOf(b) = 8
      BY <2>1, <2>6 DEF FromData, DataFits
    <3> QED
      BY <2>1, <2>6, <3>1, SizeFacts, ShapesFit
  <2>7. CASE type = "DATA"
    <3>1. FromData(type, b) = b
      BY <2>7 DEF FromData
    <3> QED
      BY <2>1, <2>7, <3>1, ShapesFit
  <2> QED
    BY <2>2, <2>3, <2>4, <2>5, <2>6, <2>7 DEF ValueTypes
<1>3. CASE b # Null /\ vtype # "DATA"
  <2>1. b \in Blocks /\ Stored(type, vtype, b) = Converted(type, b)
    BY <1>3 DEF Stored, Contents
  <2>2. /\ Number(b) \in Int /\ Trunc(Number(b)) \in Int /\ Truth(b) \in BOOLEAN
        /\ Printed(b) \in Blocks /\ Printed(b).as = "text" /\ Decoded(b) \in Blocks
    BY <2>1, Conversions
  <2>3. CASE type = "INTEGER"
    <3>1. Converted(type, b) = AnInt(Trunc(Number(b)))
      BY <2>3 DEF Converted
    <3> QED
      BY <2>1, <2>2, <2>3, <3>1, BlockMade, ShapesFit
  <2>4. CASE type = "DOUBLE"
    <3>1. Converted(type, b) = ADouble(Number(b))
      BY <2>4 DEF Converted
    <3> QED
      BY <2>1, <2>2, <2>4, <3>1, BlockMade, ShapesFit
  <2>5. CASE type = "BOOL"
    <3>1. Converted(type, b) = ABool(Truth(b))
      BY <2>5 DEF Converted
    <3>2. ABool(Truth(b)) \in Blocks /\ ABool(Truth(b)).as = "bool"
      BY <2>2, BlockMade
    <3> QED
      BY <2>1, <2>5, <3>1, <3>2, ShapesFit
  <2>6. CASE type = "STRING"
    <3>1. Converted(type, b) = Printed(b)
      BY <2>6 DEF Converted
    <3> QED
      BY <2>1, <2>2, <2>6, <3>1, ShapesFit
  <2>7. CASE type = "DATA"
    <3>1. Converted(type, b) = Decoded(b)
      BY <2>7 DEF Converted
    <3> QED
      BY <2>1, <2>2, <2>7, <3>1, ShapesFit
  <2>8. CASE type = "IMPULSION"
    BY <2>1, <2>8 DEF Converted, Fits
  <2> QED
    BY <2>3, <2>4, <2>5, <2>6, <2>7, <2>8 DEF ValueTypes
<1> QED
  BY <1>1, <1>2, <1>3

\* Numbers go through conversions unchanged, as long as the type can hold them.
LEMMA NumberKept ==
  ASSUME NEW v \in Blocks
  PROVE  /\ Number(Converted("DOUBLE", v)) = Number(v)
         /\ Number(Converted("STRING", v)) = Number(v)
         /\ \A k \in Int : Number(v) = 2 * k => Number(Converted("INTEGER", v)) = 2 * k
         /\ \A k \in {0, 1} : Number(v) = 2 * k /\ v.as # "text" => Number(Converted("BOOL", v)) = 2 * k
         /\ v.as = "text" => Converted("STRING", v) = v
<1>1. Number(v) \in Int /\ Trunc(Number(v)) \in Int /\ Truth(v) \in BOOLEAN
  BY Conversions
<1>2. Number(Converted("DOUBLE", v)) = Number(v)
  <2>1. Converted("DOUBLE", v) = ADouble(Number(v))
    BY DEF Converted
  <2>2. ADouble(Number(v)).as = "double" /\ ADouble(Number(v)).n = Number(v)
    BY <1>1, BlockMade
  <2>3. Number(ADouble(Number(v))) = ADouble(Number(v)).n
    BY <2>2 DEF Number
  <2> QED
    BY <2>1, <2>2, <2>3
<1>3. Number(Converted("STRING", v)) = Number(v)
  BY Conversions DEF Converted
<1>4. ASSUME NEW k \in Int, Number(v) = 2 * k
      PROVE  Number(Converted("INTEGER", v)) = 2 * k
  <2>1. Converted("INTEGER", v) = AnInt(Trunc(2 * k))
    BY <1>4 DEF Converted
  <2>2. Trunc(2 * k) = k
    BY TruncFacts
  <2>3. AnInt(k).as = "int" /\ AnInt(k).n = k
    BY BlockMade
  <2> QED
    BY <2>1, <2>2, <2>3 DEF Number
<1>5. ASSUME NEW k \in {0, 1}, Number(v) = 2 * k, v.as # "text"
      PROVE  Number(Converted("BOOL", v)) = 2 * k
  <2>1. Converted("BOOL", v) = ABool(Truth(v))
    BY DEF Converted
  <2>2. Truth(v) <=> v.n # 0
    BY <1>5 DEF Truth
  <2>3. v.n \in Int /\ (Number(v) = v.n \/ Number(v) = 2 * v.n)
    BY BlockParts DEF Number
  <2>4. Truth(v) <=> k = 1
    BY <1>5, <2>2, <2>3
  <2>5. /\ ABool(Truth(v)).as = "bool"
        /\ ABool(Truth(v)).n = IF Truth(v) THEN 1 ELSE 0
    BY <1>1, BlockMade
  <2>6. ABool(Truth(v)).n = k
    BY <2>4, <2>5
  <2> QED
    BY <2>1, <2>5, <2>6 DEF Number
<1>6. v.as = "text" => Converted("STRING", v) = v
  BY DEF Converted, Printed
<1> QED
  BY <1>2, <1>3, <1>4, <1>5, <1>6

\* Number of the blocks of each shape.
LEMMA NumberOf ==
  ASSUME NEW b \in Blocks
  PROVE  /\ b.as \in {"int", "bool"} => Number(b) = 2 * b.n
         /\ b.as \in {"double", "text"} => Number(b) = b.n
BY DEF Number

\* A value that tells what was written goes on telling it in the IO it is
\* converted for (igs_network.c:185-272, igs_model.c:1106-1255).
LEMMA TellsOn ==
  ASSUME NEW o \in Origins, NEW v \in Blocks, NEW from \in ValueTypes, NEW type \in ValueTypes,
         v.as \in Shapes[from],
         from # "DATA",
         type \in Holders(o.vtype), from = o.vtype \/ from \in Holders(o.vtype),
         o.block \in Blocks, o.block.as \in Shapes[o.vtype],
         Says(o.vtype, o.block, v)
  PROVE  Says(o.vtype, o.block, Converted(type, v))
<1>1. CASE o.vtype = "INTEGER"
  <2>1. Number(v) = 2 * o.block.n /\ type \in {"INTEGER", "DOUBLE", "STRING"}
    BY <1>1 DEF Holders, Says
  <2>2. o.block.n \in Int
    BY BlockParts
  <2>3. Number(Converted(type, v)) = 2 * o.block.n
    BY <2>1, <2>2, NumberKept
  <2> QED
    BY <1>1, <2>3 DEF Says
<1>2. CASE o.vtype = "DOUBLE"
  <2>1. Number(v) = o.block.n /\ type \in {"DOUBLE", "STRING"}
    BY <1>2 DEF Holders, Says
  <2>2. Number(Converted(type, v)) = o.block.n
    BY <2>1, NumberKept
  <2> QED
    BY <1>2, <2>2 DEF Says
<1>3. CASE o.vtype = "BOOL"
  <2>1. Number(v) = 2 * o.block.n /\ {type, from} \subseteq {"BOOL", "INTEGER", "DOUBLE"}
    BY <1>3 DEF Holders, Says
  <2>2. o.block.n \in {0, 1}
    <3>1. o.block.as = "bool"
      BY <1>3 DEF Shapes
    <3> QED
      BY <3>1, BlockParts
  <2>3. o.block.n \in Int
    BY BlockParts
  <2>4. v.as # "text"
    BY <2>1 DEF Shapes
  <2>5. Number(Converted(type, v)) = 2 * o.block.n
    BY <2>1, <2>2, <2>3, <2>4, NumberKept
  <2> QED
    BY <1>3, <2>5 DEF Says
<1>4. CASE o.vtype = "STRING"
  <2>1. v = o.block /\ type = "STRING" /\ from = "STRING"
    BY <1>4 DEF Holders, Says
  <2>2. v.as = "text"
    BY <2>1 DEF Shapes
  <2>3. Converted(type, v) = o.block
    BY <2>1, <2>2, NumberKept
  <2> QED
    BY <1>4, <2>3 DEF Says
<1>5. CASE o.vtype \in {"IMPULSION", "DATA"}
  BY <1>5 DEF Holders
<1> QED
  BY <1>1, <1>2, <1>3, <1>4, <1>5 DEF Origins, ValueTypes

\* What a first write leaves tells what was written: SetIo.
LEMMA TellsFirst ==
  ASSUME NEW type \in ValueTypes, NEW vtype \in ValueTypes, NEW b \in Contents,
         b # Null => b.as \in Shapes[vtype],
         Storable(type, vtype, b)
  PROVE  Tells([vtype |-> vtype, block |-> b, via |-> {type}], Stored(type, vtype, b), type)
<1> DEFINE o == [vtype |-> vtype, block |-> b, via |-> {type}]
           v == Stored(type, vtype, b)
<1>1. SUFFICES ASSUME b # Null, type \in Holders(vtype)
               PROVE  /\ type \in o.via /\ v \in Blocks /\ v.as \in Shapes[type]
                      /\ Says(vtype, b, v)
  BY DEF Tells, Contents
<1>2. b \in Blocks /\ b.as \in Shapes[vtype] /\ vtype # "DATA"
  BY <1>1 DEF Contents, Holders
<1>3. v = Converted(type, b)
  BY <1>1, <1>2 DEF Stored
<1>4. v \in Blocks /\ v.as \in Shapes[type]
  <2>1. Fits(type, v)
    BY StoredFits
  <2>2. type \in {"INTEGER", "DOUBLE", "STRING", "BOOL"}
    BY <1>1 DEF Holders, ValueTypes
  <2>3. v # Null
    <3>1. CASE type = "STRING"
      BY <1>2, <1>3, <3>1, Conversions, BlockParts DEF Converted
    <3>2. CASE type # "STRING"
      BY <2>1, <2>2, <3>2 DEF Fits
    <3> QED
      BY <3>1, <3>2
  <2> QED
    BY <2>1, <2>3 DEF Fits
<1>5. o \in Origins /\ o.vtype = vtype /\ o.block = b /\ o.via = {type}
  BY DEF Origins
<1> HIDE DEF o, v
<1>6. Says(o.vtype, o.block, b)
  <2>1. CASE vtype = "INTEGER"
    <3>1. b.as = "int"
      BY <1>2, <2>1 DEF Shapes
    <3> QED
      BY <1>2, <1>5, <2>1, <3>1, NumberOf DEF Says
  <2>2. CASE vtype = "DOUBLE"
    <3>1. b.as = "double"
      BY <1>2, <2>2 DEF Shapes
    <3> QED
      BY <1>2, <1>5, <2>2, <3>1, NumberOf DEF Says
  <2>3. CASE vtype = "BOOL"
    <3>1. b.as = "bool"
      BY <1>2, <2>3 DEF Shapes
    <3> QED
      BY <1>2, <1>5, <2>3, <3>1, NumberOf DEF Says
  <2>4. CASE vtype \notin {"INTEGER", "DOUBLE", "BOOL"}
    BY <1>5, <2>4 DEF Says
  <2> QED
    BY <2>1, <2>2, <2>3, <2>4
<1>7. Says(o.vtype, o.block, Converted(type, b))
  BY <1>1, <1>2, <1>5, <1>6, TellsOn
<1> QED
  BY <1>3, <1>4, <1>5, <1>7

\* What a publication leaves in an input tells what its output tells: Receive.
LEMMA TellsNext ==
  ASSUME NEW o \in Origins, NEW b \in Contents, NEW from \in ValueTypes, NEW type \in ValueTypes,
         Tells(o, b, from), Storable(type, from, b)
  PROVE  Tells([o EXCEPT !.via = o.via \cup {type}], Stored(type, from, b), type)
<1> DEFINE p == [o EXCEPT !.via = o.via \cup {type}]
           v == Stored(type, from, b)
<1>1. p.vtype = o.vtype /\ p.block = o.block /\ p.via = o.via \cup {type}
  BY DEF Origins
<1> HIDE DEF p
<1>2. SUFFICES ASSUME o.block # Null, o.via \cup {type} \subseteq Holders(o.vtype)
               PROVE  /\ v \in Blocks /\ v.as \in Shapes[type]
                      /\ o.block \in Blocks /\ o.block.as \in Shapes[o.vtype]
                      /\ Says(o.vtype, o.block, v)
  BY <1>1 DEF Tells
<1>3. /\ from \in o.via /\ b \in Blocks /\ b.as \in Shapes[from]
      /\ o.block \in Blocks /\ o.block.as \in Shapes[o.vtype]
      /\ Says(o.vtype, o.block, b)
  BY <1>2 DEF Tells
<1>4. from \in Holders(o.vtype) /\ type \in Holders(o.vtype) /\ from # "DATA"
  BY <1>2, <1>3 DEF Holders
<1>5. v = Converted(type, b)
  BY <1>3, <1>4, BlockParts DEF Stored
<1>6. v \in Blocks /\ v.as \in Shapes[type]
  <2>1. Fits(type, v)
    BY StoredFits
  <2>2. type \in {"INTEGER", "DOUBLE", "STRING", "BOOL"}
    BY <1>4 DEF Holders, ValueTypes
  <2>3. v # Null
    <3>1. CASE type = "STRING"
      BY <1>3, <1>5, <3>1, Conversions, BlockParts DEF Converted
    <3>2. CASE type # "STRING"
      BY <2>1, <2>2, <3>2 DEF Fits
    <3> QED
      BY <3>1, <3>2
  <2> QED
    BY <2>1, <2>3 DEF Fits
<1>7. Says(o.vtype, o.block, Converted(type, b))
  BY <1>3, <1>4, TellsOn
<1> QED
  BY <1>3, <1>5, <1>6, <1>7

\* A number that is told is what is read (igs_model.c:114-287, 1558-1707).
LEMMA TellsRead ==
  ASSUME NEW x \in Ios, NEW o \in Origins, io[x].type \in ValueTypes,
         Tells(o, io[x].value, io[x].type),
         o.block # Null, o.via \subseteq Holders(o.vtype)
  PROVE  Result(x, o.vtype) = o.block
<1> DEFINE v == io[x].value
           type == io[x].type
           b == o.block
<1>1. /\ type \in Holders(o.vtype) /\ v \in Blocks /\ v.as \in Shapes[type]
      /\ b \in Blocks /\ b.as \in Shapes[o.vtype]
      /\ Says(o.vtype, b, v)
  BY DEF Tells
<1>2. v # Null /\ v.n \in Int /\ b.n \in Int /\ b = Block(b.as, b.n, b.w)
  BY <1>1, BlockParts
<1>3. CASE o.vtype = "INTEGER"
  <2>1. b = AnInt(b.n) /\ Number(v) = 2 * b.n
    <3>1. b.as = "int"
      BY <1>1, <1>3 DEF Shapes
    <3>2. b.w = ""
      BY <1>1, <3>1, BlockParts
    <3>3. Number(v) = 2 * b.n
      BY <1>1, <1>3 DEF Says
    <3> QED
      BY <1>2, <3>1, <3>2, <3>3 DEF AnInt
  <2>2. Result(x, "INTEGER") = ReadInt(x)
    BY DEF Result
  <2>3. CASE type = "STRING"
    <3>1. v.as = "text"
      BY <1>1, <2>3 DEF Shapes
    <3>2. v.n = 2 * b.n
      BY <1>1, <2>1, <3>1, NumberOf
    <3>3. ReadInt(x) = AnInt(Trunc(v.n))
      BY <1>2, <2>3 DEF ReadInt
    <3>4. Trunc(v.n) = b.n
      BY <1>2, <3>2, TruncFacts
    <3> QED
      BY <1>3, <2>1, <2>2, <3>3, <3>4
  <2>4. CASE type = "DOUBLE"
    <3>1. v.as = "double"
      BY <1>1, <2>4 DEF Shapes
    <3>2. v.n = 2 * b.n
      BY <1>1, <2>1, <3>1, NumberOf
    <3>3. ReadInt(x) = AnInt(Round(v.n))
      BY <1>2, <2>4 DEF ReadInt
    <3>4. Round(v.n) = b.n
      BY <1>2, <3>2, TruncFacts
    <3> QED
      BY <1>3, <2>1, <2>2, <3>3, <3>4
  <2>5. CASE type = "INTEGER"
    <3>1. v.as = "int"
      BY <1>1, <2>5 DEF Shapes
    <3>2. 2 * v.n = 2 * b.n
      BY <1>1, <2>1, <3>1, NumberOf
    <3>3. ReadInt(x) = AnInt(v.n)
      BY <1>2, <2>5 DEF ReadInt
    <3>4. v.n = b.n
      BY <1>2, <3>2
    <3> QED
      BY <1>3, <2>1, <2>2, <3>3, <3>4
  <2> QED
    BY <1>1, <1>3, <2>3, <2>4, <2>5 DEF Holders
<1>4. CASE o.vtype = "DOUBLE"
  <2>1. b = ADouble(b.n) /\ Number(v) = b.n
    <3>1. b.as = "double"
      BY <1>1, <1>4 DEF Shapes
    <3>2. b.w = ""
      BY <1>1, <3>1, BlockParts
    <3>3. Number(v) = b.n
      BY <1>1, <1>4 DEF Says
    <3> QED
      BY <1>2, <3>1, <3>2, <3>3 DEF ADouble
  <2>2. Result(x, "DOUBLE") = ReadDouble(x)
    BY DEF Result
  <2>3. CASE type = "STRING"
    <3>1. v.as = "text"
      BY <1>1, <2>3 DEF Shapes
    <3>2. v.n = b.n
      BY <1>1, <2>1, <3>1, NumberOf
    <3>3. ReadDouble(x) = ADouble(v.n)
      BY <1>2, <2>3 DEF ReadDouble
    <3> QED
      BY <1>4, <2>1, <2>2, <3>2, <3>3
  <2>4. CASE type = "DOUBLE"
    <3>1. ReadDouble(x) = ADouble(Number(v))
      BY <1>2, <2>4 DEF ReadDouble
    <3> QED
      BY <1>4, <2>1, <2>2, <3>1
  <2> QED
    BY <1>1, <1>4, <2>3, <2>4 DEF Holders
<1>5. CASE o.vtype = "BOOL"
  <2>1. b.as = "bool"
    BY <1>1, <1>5 DEF Shapes
  <2>2. b.w = "" /\ b.n \in {0, 1}
    BY <1>1, <2>1, BlockParts
  <2>3. Number(v) = 2 * b.n
    BY <1>1, <1>5 DEF Says
  <2>4. Result(x, "BOOL") = ReadBool(x)
    BY DEF Result
  <2>5. type \in {"BOOL", "INTEGER", "DOUBLE"}
    BY <1>1, <1>5 DEF Holders
  <2>6. ReadBool(x) = ABool(v.n # 0)
    BY <1>2, <2>5 DEF ReadBool
  <2>7. v.n # 0 <=> b.n # 0
    <3>1. Number(v) = v.n \/ Number(v) = 2 * v.n
      BY DEF Number
    <3> QED
      BY <1>2, <2>3, <3>1
  <2>8. ABool(v.n # 0) = Block("bool", b.n, "")
    BY <2>2, <2>7 DEF ABool
  <2>9. b = Block("bool", b.n, "")
    BY <1>2, <2>1, <2>2
  <2> QED
    BY <1>5, <2>4, <2>6, <2>8, <2>9
<1>6. CASE o.vtype = "STRING"
  <2>1. v = b /\ type = "STRING"
    BY <1>1, <1>6 DEF Holders, Says
  <2>2. v.as = "text"
    BY <1>1, <2>1 DEF Shapes
  <2>3. Result(x, "STRING") = ReadString(x)
    BY DEF Result
  <2>4. ReadString(x) = Printed(v)
    BY <1>2, <2>1 DEF ReadString
  <2>5. Printed(v) = v
    BY <2>2 DEF Printed
  <2> QED
    BY <1>6, <2>1, <2>3, <2>4, <2>5
<1>7. CASE o.vtype \in {"IMPULSION", "DATA"}
  BY <1>1, <1>7 DEF Holders
<1> QED
  BY <1>3, <1>4, <1>5, <1>6, <1>7 DEF Origins, ValueTypes

\* What is verified is what is stored: the value obeys the constraint
\* (model_write, igs_model.c:921-1067), except for bools and for raw data in
\* a string.
LEMMA VerifiedObeys ==
  ASSUME NEW x \in Ios, NEW vtype \in ValueTypes, NEW b \in Contents,
         io[x].type \in ValueTypes,
         Storable(io[x].type, vtype, b), TRUE \in Verified(x, vtype, b), x \in enforce,
         vtype # "BOOL", vtype = "DATA" => io[x].type # "STRING",
         io[x].constraint # Null, Suits(io[x].type, io[x].constraint)
  PROVE  LET v == Stored(io[x].type, vtype, b)
             c == io[x].constraint
         IN IF io[x].type = "STRING" THEN v # Null /\ v.w \in c.words
            ELSE Within(io[x].type, c, Number(v))
<1> DEFINE v == Stored(io[x].type, vtype, b)
           c == io[x].constraint
           type == io[x].type
<1>1. type \in {"INTEGER", "DOUBLE", "STRING"}
  BY DEF Suits
<1>2. CASE type = "STRING"
  <2>1. TRUE \in VerifiedText(c, vtype, b)
    BY <1>2 DEF Verified
  <2>2. b # Null /\ b \in Blocks
    BY <2>1 DEF VerifiedText, Contents
  <2>3. vtype # "DATA"
    BY <1>2
  <2>4. Printed(b).w \in c.words
    BY <2>1, <2>2, <2>3 DEF VerifiedText
  <2>5. v = Printed(b)
    BY <1>2, <2>2, <2>3 DEF Stored, Converted
  <2>6. v # Null
    BY <2>2, <2>5, Conversions, BlockParts
  <2> QED
    BY <1>2, <2>4, <2>5, <2>6
<1>3. CASE type \in {"INTEGER", "DOUBLE"} /\ b = Null
  <2>1. TRUE \in VerifiedNumber(type, c, vtype, b)
    BY <1>3 DEF Verified
  <2>2. Within(type, c, 0)
    BY <1>3, <2>1 DEF VerifiedNumber
  <2>3. v = Zero(type)
    BY <1>3 DEF Stored
  <2>4. Number(v) = 0
    <3>1. 0 \in Int
      OBVIOUS
    <3>2. CASE type = "INTEGER"
      <4>1. v = AnInt(0)
        BY <2>3, <3>2 DEF Zero
      <4> QED
        BY <4>1, <3>1, BlockMade DEF Number
    <3>3. CASE type = "DOUBLE"
      <4>1. v = ADouble(0)
        BY <2>3, <3>3 DEF Zero
      <4> QED
        BY <4>1, <3>1, BlockMade DEF Number
    <3> QED
      BY <1>3, <3>2, <3>3
  <2> QED
    BY <1>3, <2>2, <2>4
<1>4. CASE type \in {"INTEGER", "DOUBLE"} /\ b # Null /\ vtype = "DATA"
  <2>1. b \in Blocks /\ DataFits(type, b) /\ v = FromData(type, b)
    BY <1>4 DEF Contents, Storable, Stored
  <2>2. TRUE \in VerifiedNumber(type, c, vtype, b)
    BY <1>4 DEF Verified
  <2>3. v = b
    BY <1>4, <2>1 DEF FromData
  <2>4. CASE type = "INTEGER"
    <3>1. Within(type, c, 2 * Trunc(Number(b)))
      BY <1>4, <2>1, <2>2, <2>4 DEF VerifiedNumber
    <3>2. b.as = "int"
      BY <2>1, <2>4, SizeFacts DEF DataFits
    <3>3. b.n \in Int /\ Number(b) = 2 * b.n
      BY <2>1, <3>2, BlockParts, NumberOf
    <3>4. 2 * Trunc(Number(b)) = Number(b)
      BY <3>3, TruncFacts
    <3> QED
      BY <2>3, <2>4, <3>1, <3>4
  <2>5. CASE type = "DOUBLE"
    <3>1. Within(type, c, Number(b))
      BY <1>4, <2>1, <2>2, <2>5 DEF VerifiedNumber
    <3> QED
      BY <2>3, <2>5, <3>1
  <2> QED
    BY <1>4, <2>4, <2>5
<1>5. CASE type \in {"INTEGER", "DOUBLE"} /\ b # Null /\ vtype # "DATA"
  <2>1. b \in Blocks /\ v = Converted(type, b)
    BY <1>5 DEF Contents, Stored
  <2>2. TRUE \in VerifiedNumber(type, c, vtype, b)
    BY <1>5 DEF Verified
  <2>3. CASE type = "INTEGER"
    <3>1. Within(type, c, 2 * Trunc(Number(b)))
      BY <1>5, <2>1, <2>2, <2>3 DEF VerifiedNumber
    <3>2. v = AnInt(Trunc(Number(b)))
      BY <2>1, <2>3 DEF Converted
    <3>3. Trunc(Number(b)) \in Int
      BY <2>1, Conversions
    <3>4. Number(v) = 2 * Trunc(Number(b))
      BY <3>2, <3>3, BlockMade DEF Number
    <3> QED
      BY <2>3, <3>1, <3>4
  <2>4. CASE type = "DOUBLE"
    <3>1. Within(type, c, Number(b))
      BY <1>5, <2>1, <2>2, <2>4 DEF VerifiedNumber
    <3>2. Number(v) = Number(b)
      BY <2>1, <2>4, NumberKept
    <3> QED
      BY <2>4, <3>1, <3>2
  <2> QED
    BY <1>5, <2>3, <2>4
<1> QED
  BY <1>1, <1>2, <1>3, <1>4, <1>5

-----------------------------------------------------------------------------
\* A write that is accepted: of a user, or of a publication that arrives.
Put(t, x, vtype, b, o) ==
  /\ TRUE \in Verified(x, vtype, b) /\ Storable(io[x].type, vtype, b)
  /\ io' = [io EXCEPT ![x].value = Stored(io[x].type, vtype, b),
                      ![x].size = SizeOf(Stored(io[x].type, vtype, b))]
  /\ last' = [last EXCEPT ![x] = [vtype |-> vtype, block |-> b, verified |-> x \in enforce,
                                  origin |-> o]]
  /\ call' = [call EXCEPT ![t] = [io |-> x, state |-> "written", left |-> <<>>]]

\* All of the invariant but the part about the channel.
HeldTold ==
  \A x \in Ios :
    last[x] # Null /\ last[x].origin # Null => Tells(last[x].origin, io[x].value, io[x].type)
SentTold ==
  \A i \in DOMAIN channel :
    channel[i].origin # Null => Tells(channel[i].origin, channel[i].block, channel[i].vtype)

IoTyped ==
  io \in [Ios -> [type : ValueTypes, value : Contents, size : Nat,
                  constraint : Constraints \cup {Null}, muted : BOOLEAN]]
LastTyped ==
  last \in [Ios -> [vtype : ValueTypes, block : Contents, verified : BOOLEAN,
                    origin : Origins \cup {Null}] \cup {Null}]
CallTyped ==
  call \in [Workers -> [io : Ios \cup {Null}, state : {"idle", "written", "observing"},
                        left : Seq(Observers)]]

\* Fields of an IO after a write.
LEMMA PutFields ==
  ASSUME IopInv, NEW t \in Workers, NEW x \in Ios, NEW vtype \in ValueTypes, NEW b \in Contents,
         NEW o \in Origins \cup {Null}, Put(t, x, vtype, b, o)
  PROVE  /\ IoTyped' /\ LastTyped' /\ CallTyped'
         /\ \A y \in Ios : /\ io'[y].type = io[y].type
                           /\ io'[y].constraint = io[y].constraint
                           /\ y # x => io'[y] = io[y] /\ last'[y] = last[y]
         /\ io'[x].value = Stored(io[x].type, vtype, b)
         /\ io'[x].size = SizeOf(io'[x].value)
         /\ Fits(io[x].type, io'[x].value)
         /\ last'[x].vtype = vtype /\ last'[x].verified = (x \in enforce) /\ last'[x].origin = o
         /\ call'[t] = [io |-> x, state |-> "written", left |-> <<>>]
         /\ \A u \in Workers \ {t} : call'[u] = call[u]
<1> DEFINE v == Stored(io[x].type, vtype, b)
           z == SizeOf(v)
           l == [vtype |-> vtype, block |-> b, verified |-> x \in enforce, origin |-> o]
           k == [io |-> x, state |-> "written", left |-> <<>>]
<1>1. /\ io' = [io EXCEPT ![x].value = v, ![x].size = z]
      /\ last' = [last EXCEPT ![x] = l]
      /\ call' = [call EXCEPT ![t] = k]
  BY DEF Put
<1>2. io \in [Ios -> [type : ValueTypes, value : Contents, size : Nat,
                      constraint : Constraints \cup {Null}, muted : BOOLEAN]]
  BY DEF IopInv, IopTyped
<1>3. Fits(io[x].type, v) /\ v \in Contents /\ z \in Nat
  <2>1. io[x].type \in ValueTypes
    BY <1>2
  <2>2. Fits(io[x].type, v)
    BY <2>1, StoredFits DEF Put
  <2>3. v \in Contents
    BY <2>2 DEF Fits, Contents
  <2>4. z \in Nat
    BY <2>3, SizeFacts DEF Contents
  <2> QED
    BY <2>2, <2>3, <2>4
<1>4. /\ l \in [vtype : ValueTypes, block : Contents, verified : BOOLEAN, origin : Origins \cup {Null}]
      /\ l.vtype = vtype /\ l.verified = (x \in enforce) /\ l.origin = o
  OBVIOUS
<1>5. k \in [io : Ios \cup {Null}, state : {"idle", "written", "observing"}, left : Seq(Observers)]
  OBVIOUS
<1> HIDE DEF v, z, l, k
<1>6. /\ IoTyped'
      /\ \A y \in Ios : /\ io'[y].type = io[y].type
                        /\ io'[y].constraint = io[y].constraint
                        /\ y # x => io'[y] = io[y]
      /\ io'[x].value = v /\ io'[x].size = z
  BY <1>1, <1>2, <1>3 DEF IoTyped
<1>7. LastTyped' /\ last'[x] = l /\ \A y \in Ios : y # x => last'[y] = last[y]
  <2>1. LastTyped
    BY DEF IopInv, IopTyped, LastTyped
  <2> QED
    BY <1>1, <1>4, <2>1 DEF LastTyped
<1>8. CallTyped' /\ call'[t] = k /\ \A u \in Workers \ {t} : call'[u] = call[u]
  <2>1. CallTyped
    BY DEF IopInv, IopTyped, CallTyped
  <2> QED
    BY <1>1, <1>5, <2>1 DEF CallTyped
<1> QED
  BY <1>3, <1>4, <1>6, <1>7, <1>8 DEF v, z, k

\* A write keeps everything but what is about the channel.
LEMMA PutKeeps ==
  ASSUME IopInv, NEW t \in Workers, NEW x \in Ios, NEW vtype \in ValueTypes, NEW b \in Contents,
         NEW o \in Origins \cup {Null}, Put(t, x, vtype, b, o),
         call[t] = Idle, UNCHANGED <<seen, observing>>,
         o # Null => Tells(o, Stored(io[x].type, vtype, b), io[x].type)
  PROVE  /\ IopTypeOK' /\ ConstraintHolds' /\ HeldTold'
         /\ CallsSound' /\ Registered' /\ ToldOrPending'
<1> DEFINE k == [io |-> x, state |-> "written", left |-> <<>>]
<1>1. /\ IoTyped' /\ LastTyped' /\ CallTyped'
      /\ \A y \in Ios : /\ io'[y].type = io[y].type
                        /\ io'[y].constraint = io[y].constraint
                        /\ y # x => io'[y] = io[y] /\ last'[y] = last[y]
      /\ io'[x].value = Stored(io[x].type, vtype, b)
      /\ io'[x].size = SizeOf(io'[x].value)
      /\ Fits(io[x].type, io'[x].value)
      /\ last'[x].vtype = vtype /\ last'[x].verified = (x \in enforce) /\ last'[x].origin = o
      /\ call'[t] = k
      /\ \A u \in Workers \ {t} : call'[u] = call[u]
  BY PutFields
<1>2. io[x].type \in ValueTypes
  BY DEF IopInv, IopTyped
<1>3. x # Null /\ k # Idle /\ k.io = x /\ k.state = "written" /\ k.left = <<>>
  BY IopAssumption DEF Idle
<1> HIDE DEF k
<1>4. IopTypeOK'
  <2>1. ASSUME NEW y \in Ios
        PROVE  /\ IF io'[y].value = Null THEN io'[y].type \in {"STRING", "IMPULSION", "DATA"}
                  ELSE io'[y].value.as \in Shapes[io'[y].type]
               /\ io'[y].size = SizeOf(io'[y].value)
               /\ io'[y].constraint # Null => Suits(io'[y].type, io'[y].constraint)
    <3>1. CASE y = x
      <4>1. io[x].constraint # Null => Suits(io[x].type, io[x].constraint)
        BY DEF IopInv, IopTypeOK
      <4> QED
        BY <1>1, <3>1, <4>1 DEF Fits
    <3>2. CASE y # x
      BY <1>1, <3>2 DEF IopInv, IopTypeOK
    <3> QED
      BY <3>1, <3>2
  <2>2. ASSUME NEW u \in Workers
        PROVE  call'[u].io = Null <=> call'[u] = Idle
    <3>1. CASE u = t
      BY <1>1, <1>3, <3>1
    <3>2. CASE u # t
      BY <1>1, <3>2 DEF IopInv, IopTypeOK
    <3> QED
      BY <3>1, <3>2
  <2> QED
    BY <2>1, <2>2 DEF IopTypeOK
<1>5. ConstraintHolds'
  <2>1. SUFFICES ASSUME NEW y \in Ios, last'[y] # Null, last'[y].verified, last'[y].vtype # "BOOL",
                        last'[y].vtype = "DATA" => io'[y].type # "STRING"
                 PROVE  Obeys(y)'
    BY DEF ConstraintHolds
  <2>2. CASE y = x
    <3>1. x \in enforce /\ vtype # "BOOL" /\ (vtype = "DATA" => io[x].type # "STRING")
      BY <1>1, <2>1, <2>2
    <3>2. Storable(io[x].type, vtype, b) /\ TRUE \in Verified(x, vtype, b)
      BY DEF Put
    <3>3. io[x].constraint # Null => Suits(io[x].type, io[x].constraint)
      BY DEF IopInv, IopTypeOK
    <3>4. ASSUME io[x].constraint # Null
          PROVE  IF io[x].type = "STRING"
                 THEN io'[x].value # Null /\ io'[x].value.w \in io[x].constraint.words
                 ELSE Within(io[x].type, io[x].constraint, Number(io'[x].value))
      BY <1>1, <1>2, <3>1, <3>2, <3>3, <3>4, VerifiedObeys
    <3> QED
      BY <1>1, <2>2, <3>4 DEF Obeys
  <2>3. CASE y # x
    <3>1. io'[y] = io[y] /\ last'[y] = last[y]
      BY <1>1, <2>3
    <3>2. Obeys(y)
      BY <2>1, <3>1 DEF IopInv, ConstraintHolds
    <3> QED
      BY <3>1, <3>2 DEF Obeys
  <2> QED
    BY <2>2, <2>3
<1>6. HeldTold'
  <2>1. SUFFICES ASSUME NEW y \in Ios, last'[y] # Null, last'[y].origin # Null
                 PROVE  Tells(last'[y].origin, io'[y].value, io'[y].type)
    BY DEF HeldTold
  <2>2. CASE y = x
    BY <1>1, <2>1, <2>2
  <2>3. CASE y # x
    BY <1>1, <2>1, <2>3 DEF IopInv, OriginsTold
  <2> QED
    BY <2>2, <2>3
<1>7. CallsSound'
  <2>1. SUFFICES ASSUME NEW u \in Workers
                 PROVE  /\ call'[u].io = Null <=> call'[u] = Idle
                        /\ call'[u].state = "idle" => call'[u] = Idle
                        /\ call'[u].state = "observing" => call'[u].left # <<>>
    BY DEF CallsSound
  <2>2. CASE u = t
    BY <1>1, <1>3, <2>2
  <2>3. CASE u # t
    BY <1>1, <2>3 DEF IopInv, CallsSound
  <2> QED
    BY <2>2, <2>3
<1>8. Registered'
  <2>1. ASSUME NEW u \in Workers, NEW j \in DOMAIN call'[u].left
        PROVE  \E i \in DOMAIN observing[call'[u].io] : observing[call'[u].io][i] = call'[u].left[j]
    <3>1. CASE u = t
      BY <1>1, <1>3, <2>1, <3>1
    <3>2. CASE u # t
      BY <1>1, <2>1, <3>2 DEF IopInv, Registered
    <3> QED
      BY <3>1, <3>2
  <2> QED
    BY <2>1 DEF IopInv, Registered
<1>9. ToldOrPending'
  <2>1. SUFFICES ASSUME NEW y \in Ios, NEW a \in Observers, last'[y] # Null
                 PROVE  \/ seen[y][a] \in {NotCalled, io'[y].value}
                        \/ \E u \in Workers : WillTell(u, y, a)'
    BY DEF ToldOrPending
  <2>2. CASE y = x
    <3>1. WillTell(t, x, a)'
      BY <1>1, <1>3 DEF WillTell
    <3> QED
      BY <2>2, <3>1
  <2>3. CASE y # x
    <3>1. \/ seen[y][a] \in {NotCalled, io[y].value}
          \/ \E u \in Workers : WillTell(u, y, a)
      BY <1>1, <2>1, <2>3 DEF IopInv, ToldOrPending
    <3>2. CASE seen[y][a] \in {NotCalled, io[y].value}
      BY <1>1, <2>3, <3>2
    <3>3. ASSUME NEW u \in Workers, WillTell(u, y, a)
          PROVE  WillTell(u, y, a)'
      <4>1. u # t
        <5>1. Idle.io = Null /\ y # Null
          BY IopAssumption DEF Idle
        <5> QED
          BY <3>3, <5>1 DEF WillTell
      <4> QED
        BY <1>1, <3>3, <4>1 DEF WillTell
    <3> QED
      BY <3>1, <3>2, <3>3
  <2> QED
    BY <2>2, <2>3
<1> QED
  BY <1>4, <1>5, <1>6, <1>7, <1>8, <1>9

-----------------------------------------------------------------------------
\* A publication is a frame that tells what its output tells (network_publish_output).
LEMMA PublishKeeps ==
  ASSUME IopInv, NEW x \in Outputs, NEW v \in Contents, NEW o \in Origins \cup {Null},
         Publish(x, v, o), o # Null => Tells(o, v, io[x].type)
  PROVE  channel' \in Seq(Frames) /\ SentTold'
<1> DEFINE m == Frame(x, v, o)
<1>1. m \in Frames /\ m.vtype = io[x].type /\ m.block = v /\ m.origin = o
  <2>1. x \in Ios /\ io[x].type \in ValueTypes /\ time \in Times \cup {0}
    BY DEF IopInv, IopTyped, Ios
  <2>2. (IF ~stamps THEN 0 ELSE IF time # 0 THEN time ELSE 1) \in Stamps
    BY <2>1 DEF Stamps
  <2> QED
    BY <2>1, <2>2 DEF Frame, Frames
<1>2. channel \in Seq(Frames) /\ SentTold
  BY DEF IopInv, IopTyped, OriginsTold, SentTold
<1>3. CASE channel' = channel
  BY <1>2, <1>3 DEF SentTold
<1>4. CASE channel' = Append(channel, m)
  <2> HIDE DEF m
  <2>1. channel' \in Seq(Frames)
    BY <1>1, <1>2, <1>4
  <2>2. ASSUME NEW i \in DOMAIN channel'
        PROVE  (i \in DOMAIN channel /\ channel'[i] = channel[i]) \/ channel'[i] = m
    BY <1>1, <1>2, <1>4, <2>2
  <2> QED
    BY <1>1, <1>2, <2>1, <2>2 DEF SentTold
<1> QED
  BY <1>3, <1>4 DEF Publish

\* The channel without its first publication.
LEMMA TakenKeeps ==
  ASSUME IopInv, channel # <<>>, channel' = Tail(channel)
  PROVE  /\ Head(channel) \in Frames /\ channel' \in Seq(Frames) /\ SentTold'
         /\ Head(channel).origin # Null =>
              Tells(Head(channel).origin, Head(channel).block, Head(channel).vtype)
<1>1. channel \in Seq(Frames) /\ SentTold
  BY DEF IopInv, IopTyped, OriginsTold, SentTold
<1>2. channel' \in Seq(Frames) /\ Head(channel) \in Frames
  BY <1>1
<1>3. 1 \in DOMAIN channel /\ Head(channel) = channel[1]
  BY <1>1
<1>4. ASSUME NEW i \in DOMAIN channel'
      PROVE  i + 1 \in DOMAIN channel /\ channel'[i] = channel[i + 1]
  BY <1>1, <1>4
<1> QED
  BY <1>1, <1>2, <1>3, <1>4 DEF SentTold

\* What changes neither values nor observers: flags, time and publications.
LEMMA OthersKeep ==
  ASSUME IopInv, UNCHANGED <<io, observing, call, last, seen>>,
         channel' \in Seq(Frames), SentTold', time' \in Times \cup {0}, ticking' \in Seq(Outputs)
  PROVE  IopInv'
<1>1. IopTyped'
  BY DEF IopInv, IopTyped
<1>2. IopTypeOK'
  BY DEF IopInv, IopTypeOK
<1>3. ConstraintHolds'
  BY DEF IopInv, ConstraintHolds, Obeys
<1>4. OriginsTold'
  BY DEF IopInv, OriginsTold, SentTold
<1>5. CallsSound'
  BY DEF IopInv, CallsSound
<1>6. Registered'
  BY DEF IopInv, Registered
<1>7. ToldOrPending'
  BY DEF IopInv, ToldOrPending, WillTell
<1> QED
  BY <1>1, <1>2, <1>3, <1>4, <1>5, <1>6, <1>7 DEF IopInv

\* A user writes an IO, and publishes an output.
LEMMA SetIoKeeps ==
  ASSUME IopInv, NEW t \in Threads, NEW x \in Ios, NEW w \in Writes, SetIo(t, x, w)
  PROVE  IopInv'
<1> DEFINE o == Sent(x, w.vtype, w.block)
           v == Stored(io[x].type, w.vtype, w.block)
<1>1. /\ call[t] = Idle /\ Write(t, x, w.vtype, w.block)
      /\ UNCHANGED <<enforce, observing, stamps, sync, time, ticking, seen, edits>>
  BY DEF SetIo
<1>2. /\ t \in Workers /\ w.vtype \in ValueTypes /\ w.block \in Contents
      /\ w.block # Null => w.block.as \in Shapes[w.vtype]
      /\ io[x].type \in ValueTypes
  BY IopAssumption DEF Workers, Contents, IopInv, IopTyped
<1>3. CASE UNCHANGED <<io, last, call, channel>>
  <2>1. /\ channel' \in Seq(Frames) /\ SentTold' /\ time' \in Times \cup {0}
        /\ ticking' \in Seq(Outputs)
    BY <1>1, <1>3 DEF IopInv, IopTyped, OriginsTold, SentTold
  <2> QED
    BY <1>1, <1>3, <2>1, OthersKeep
<1>4. CASE ~UNCHANGED <<io, last, call, channel>>
  <2>1. Storable(io[x].type, w.vtype, w.block)
    BY <1>1, <1>4 DEF Write
  <2>2. Put(t, x, w.vtype, w.block, o)
    BY <1>1, <1>4 DEF Write, Put
  <2>3. (x \in Outputs /\ Publish(x, v, o)) \/ UNCHANGED channel
    BY <1>1, <1>4 DEF Write
  <2>4. o \in Origins
    BY <1>2 DEF Sent, Origins
  <2>5. Tells(o, v, io[x].type)
    BY <1>2, <2>1, TellsFirst DEF Sent
  <2>6. v \in Contents
    BY <1>2, <2>1, StoredFits DEF Fits, Contents
  <2> HIDE DEF o, v
  <2>7. channel' \in Seq(Frames) /\ SentTold'
    <3>1. CASE x \in Outputs /\ Publish(x, v, o)
      BY <2>4, <2>5, <2>6, <3>1, PublishKeeps
    <3>2. CASE UNCHANGED channel
      BY <3>2 DEF IopInv, IopTyped, OriginsTold, SentTold
    <3> QED
      BY <2>3, <3>1, <3>2
  <2>8. IoTyped' /\ LastTyped' /\ CallTyped'
    BY <1>2, <2>2, <2>4, PutFields
  <2>9. /\ IopTypeOK' /\ ConstraintHolds' /\ HeldTold'
        /\ CallsSound' /\ Registered' /\ ToldOrPending'
    BY <1>1, <1>2, <2>2, <2>4, <2>5, PutKeeps DEF v
  <2>10. IopTyped'
    BY <1>1, <2>7, <2>8 DEF IopInv, IopTyped, IoTyped, LastTyped, CallTyped
  <2>11. OriginsTold'
    BY <2>7, <2>9 DEF OriginsTold, HeldTold, SentTold
  <2> QED
    BY <2>9, <2>10, <2>11 DEF IopInv
<1> QED
  BY <1>3, <1>4

\* A publication arrives in an input: its block is converted once more, and its
\* path is one type longer.
LEMMA ReceiveKeeps ==
  ASSUME IopInv, NEW x \in Inputs, Receive(x)
  PROVE  IopInv'
<1> DEFINE m == Head(channel)
           o == Passed(x, m.origin)
<1>1. /\ call[Net] = Idle /\ channel # <<>> /\ channel' = Tail(channel)
      /\ UNCHANGED <<enforce, observing, stamps, sync, time, ticking, seen, written, edits>>
      /\ \/ Put(Net, x, m.vtype, m.block, o)
         \/ UNCHANGED <<io, last, call>>
  BY DEF Receive, Put
<1>2. /\ m \in Frames /\ channel' \in Seq(Frames) /\ SentTold'
      /\ m.origin # Null => Tells(m.origin, m.block, m.vtype)
  BY <1>1, TakenKeeps
<1>3. /\ m.vtype \in ValueTypes /\ m.block \in Contents /\ m.origin \in Origins \cup {Null}
      /\ x \in Ios /\ Net \in Workers /\ io[x].type \in ValueTypes
  BY <1>2 DEF Frames, Ios, Workers, IopInv, IopTyped
<1> HIDE DEF m
<1>4. CASE UNCHANGED <<io, last, call>>
  <2>1. time' \in Times \cup {0} /\ ticking' \in Seq(Outputs)
    BY <1>1 DEF IopInv, IopTyped
  <2> QED
    BY <1>1, <1>2, <1>4, <2>1, OthersKeep
<1>5. CASE Put(Net, x, m.vtype, m.block, o)
  <2>1. Storable(io[x].type, m.vtype, m.block)
    BY <1>5 DEF Put
  <2>2. o \in Origins \cup {Null}
    BY <1>3 DEF Passed, Origins
  <2>3. o # Null => Tells(o, Stored(io[x].type, m.vtype, m.block), io[x].type)
    <3>1. SUFFICES ASSUME o # Null
                   PROVE  Tells(o, Stored(io[x].type, m.vtype, m.block), io[x].type)
      OBVIOUS
    <3>2. m.origin # Null /\ m.origin \in Origins
      BY <1>3, <3>1 DEF Passed
    <3>3. o = [m.origin EXCEPT !.via = m.origin.via \cup {io[x].type}]
      BY <3>2 DEF Passed
    <3> QED
      BY <1>2, <1>3, <2>1, <3>2, <3>3, TellsNext
  <2> HIDE DEF o
  <2>8. IoTyped' /\ LastTyped' /\ CallTyped'
    BY <1>3, <1>5, <2>2, PutFields
  <2>9. /\ IopTypeOK' /\ ConstraintHolds' /\ HeldTold'
        /\ CallsSound' /\ Registered' /\ ToldOrPending'
    BY <1>1, <1>3, <1>5, <2>2, <2>3, PutKeeps
  <2>10. IopTyped'
    BY <1>1, <1>2, <2>8 DEF IopInv, IopTyped, IoTyped, LastTyped, CallTyped
  <2>11. OriginsTold'
    BY <1>2, <2>9 DEF OriginsTold, HeldTold, SentTold
  <2> QED
    BY <2>9, <2>10, <2>11 DEF IopInv
<1> QED
  BY <1>1, <1>4, <1>5

\* The flags and the time of the publisher, and the outputs that are due.
LEMMA RtKeeps ==
  ASSUME IopInv, RtStep
  PROVE  IopInv'
<1>1. UNCHANGED <<io, observing, call, channel, last, seen>>
  BY DEF RtStep, ConstraintsEnforce, SetTimestamps, SetSynchronousMode, RtSetTime
<1>2. channel' \in Seq(Frames) /\ SentTold'
  BY <1>1 DEF IopInv, IopTyped, OriginsTold, SentTold
<1>3. time' \in Times \cup {0} /\ ticking' \in Seq(Outputs)
  <2>1. time \in Times \cup {0} /\ ticking \in Seq(Outputs)
    BY DEF IopInv, IopTyped
  <2>2. CASE UNCHANGED <<time, ticking>>
    BY <2>1, <2>2
  <2>3. ASSUME NEW now \in Times, RtSetTime(now)
        PROVE  time' \in Times \cup {0} /\ ticking' \in Seq(Outputs)
    <3>1. PICK order \in Orders : time' = now /\ ticking' = IF sync THEN order ELSE <<>>
      BY <2>3 DEF RtSetTime
    <3>2. Cardinality(Outputs) \in Nat
      BY IopAssumption, FS_CardinalityType
    <3>3. order \in [1..Cardinality(Outputs) -> Outputs]
      BY DEF Orders
    <3>4. order \in Seq(Outputs)
      BY <3>2, <3>3
    <3> QED
      BY <3>1, <3>4
  <2> QED
    BY <2>2, <2>3 DEF RtStep, ConstraintsEnforce, SetTimestamps, SetSynchronousMode
<1> QED
  BY <1>1, <1>2, <1>3, OthersKeep

\* igs_rt_set_time publishes what an output holds with the origin it has.
LEMMA TickKeeps ==
  ASSUME IopInv, TickPublish
  PROVE  IopInv'
<1> DEFINE x == Head(ticking)
           o == IF last[x] = Null THEN Null ELSE last[x].origin
<1>1. /\ ticking # <<>> /\ Publish(x, io[x].value, o) /\ ticking' = Tail(ticking)
      /\ UNCHANGED <<io, enforce, observing, call, stamps, sync, time, last, seen, written, edits>>
  BY DEF TickPublish
<1>2. ticking \in Seq(Outputs) /\ time \in Times \cup {0}
  BY DEF IopInv, IopTyped
<1>3. x \in Outputs /\ ticking' \in Seq(Outputs)
  BY <1>1, <1>2
<1> HIDE DEF x
<1>4. x \in Ios
  BY <1>3 DEF Ios
<1>5. io[x].value \in Contents /\ o \in Origins \cup {Null}
  BY <1>4 DEF IopInv, IopTyped
<1>6. o # Null => Tells(o, io[x].value, io[x].type)
  BY <1>4 DEF IopInv, OriginsTold
<1> HIDE DEF o
<1>7. channel' \in Seq(Frames) /\ SentTold'
  BY <1>1, <1>3, <1>5, <1>6, PublishKeeps
<1> QED
  BY <1>1, <1>2, <1>3, <1>7, OthersKeep

\* A thread copies the observers of what it wrote.
LEMMA SnapshotKeeps ==
  ASSUME IopInv, NEW t \in Workers, Snapshot(t)
  PROVE  IopInv'
<1> DEFINE x == call[t].io
           s == observing[x]
           k == IF s = <<>> THEN Idle ELSE [io |-> x, state |-> "observing", left |-> s]
<1>1. /\ call[t].state = "written" /\ call' = [call EXCEPT ![t] = k]
      /\ UNCHANGED <<io, enforce, observing, channel, stamps, sync, time, ticking, last, seen,
                     written, edits>>
  BY DEF Snapshot, CallbacksOf
<1>2. CallTyped /\ observing \in [Ios -> Seq(Observers)]
  BY DEF IopInv, IopTyped, CallTyped
<1>3. x \in Ios
  <2>1. call[t] # Idle
    BY <1>1 DEF Idle
  <2> QED
    BY <1>2, <2>1 DEF IopInv, CallsSound, CallTyped
<1>4. s \in Seq(Observers) /\ x # Null
  BY <1>2, <1>3, IopAssumption
<1>5. k \in [io : Ios \cup {Null}, state : {"idle", "written", "observing"}, left : Seq(Observers)]
  BY <1>3, <1>4 DEF Idle
<1>6. /\ k.io = Null <=> k = Idle
      /\ k.state = "idle" => k = Idle
      /\ k.state = "observing" => k.left # <<>>
      /\ k # Idle => k.io = x /\ k.left = s
      /\ k = Idle => s = <<>>
      /\ k.left = s
  BY <1>4 DEF Idle
<1> HIDE DEF k
<1>7. CallTyped' /\ call'[t] = k /\ \A u \in Workers \ {t} : call'[u] = call[u]
  BY <1>1, <1>2, <1>5 DEF CallTyped
<1>8. IopTyped'
  BY <1>1, <1>7 DEF IopInv, IopTyped, CallTyped
<1>9. CallsSound'
  <2>1. SUFFICES ASSUME NEW u \in Workers
                 PROVE  /\ call'[u].io = Null <=> call'[u] = Idle
                        /\ call'[u].state = "idle" => call'[u] = Idle
                        /\ call'[u].state = "observing" => call'[u].left # <<>>
    BY DEF CallsSound
  <2>2. CASE u = t
    BY <1>6, <1>7, <2>2
  <2>3. CASE u # t
    BY <1>7, <2>3 DEF IopInv, CallsSound
  <2> QED
    BY <2>2, <2>3
<1>10. IopTypeOK'
  BY <1>1, <1>9 DEF IopInv, IopTypeOK, CallsSound
<1>11. ConstraintHolds' /\ OriginsTold'
  <2>1. ConstraintHolds'
    BY <1>1 DEF IopInv, ConstraintHolds, Obeys
  <2>2. OriginsTold'
    BY <1>1 DEF IopInv, OriginsTold
  <2> QED
    BY <2>1, <2>2
<1>12. Registered'
  <2>1. ASSUME NEW u \in Workers, NEW j \in DOMAIN call'[u].left
        PROVE  \E i \in DOMAIN observing[call'[u].io] : observing[call'[u].io][i] = call'[u].left[j]
    <3>1. CASE u = t
      <4>1. call'[u].left = s /\ j \in DOMAIN s
        BY <1>6, <1>7, <2>1, <3>1
      <4>2. s # <<>>
        BY <1>4, <4>1
      <4>3. call'[u].io = x
        BY <1>6, <1>7, <3>1, <4>2
      <4> QED
        BY <4>1, <4>3
    <3>2. CASE u # t
      BY <1>7, <2>1, <3>2 DEF IopInv, Registered
    <3> QED
      BY <3>1, <3>2
  <2> QED
    BY <1>1, <2>1 DEF IopInv, Registered
<1>13. ToldOrPending'
  <2>1. SUFFICES ASSUME NEW y \in Ios, NEW a \in Observers, last[y] # Null,
                        seen[y][a] \notin {NotCalled, io[y].value}
                 PROVE  \E u \in Workers : WillTell(u, y, a)'
    BY <1>1 DEF ToldOrPending
  <2>2. PICK u \in Workers : WillTell(u, y, a)
    BY <2>1 DEF IopInv, ToldOrPending
  <2>3. CASE u = t
    <3>1. y = x
      BY <2>2, <2>3 DEF WillTell
    <3>2. PICK i \in DOMAIN observing[y] : observing[y][i] = a
      BY <2>1 DEF IopInv, Registered
    <3>3. s # <<>>
      BY <1>4, <3>1, <3>2
    <3>4. call'[t].io = y /\ call'[t].left = s
      BY <1>6, <1>7, <3>1, <3>3
    <3>5. WillTell(t, y, a)'
      BY <3>1, <3>2, <3>4 DEF WillTell
    <3> QED
      BY <3>5
  <2>4. CASE u # t
    <3>1. WillTell(u, y, a)'
      BY <1>7, <2>2, <2>4 DEF WillTell
    <3> QED
      BY <3>1
  <2> QED
    BY <2>3, <2>4
<1> QED
  BY <1>8, <1>9, <1>10, <1>11, <1>12, <1>13 DEF IopInv

\* A sequence of one has an empty tail.
LEMMA TailOfOne ==
  ASSUME NEW S, NEW s \in Seq(S), s # <<>>
  PROVE  Tail(s) = <<>> <=> Len(s) = 1
<1>1. Tail(s) \in Seq(S) /\ Len(s) \in Nat /\ Len(s) # 0 /\ Len(Tail(s)) = Len(s) - 1
  OBVIOUS
<1>2. \A u \in Seq(S) : u = <<>> <=> Len(u) = 0
  OBVIOUS
<1>3. Tail(s) = <<>> <=> Len(Tail(s)) = 0
  <2> DEFINE u == Tail(s)
  <2>1. u \in Seq(S)
    BY <1>1
  <2> HIDE DEF u
  <2>2. u = <<>> <=> Len(u) = 0
    BY <1>2, <2>1
  <2> QED
    BY <2>2 DEF u
<1>4. Len(Tail(s)) = 0 <=> Len(s) = 1
  BY <1>1
<1> QED
  BY <1>3, <1>4

\* An observer is called: it sees what the IO holds now (igs_model.c:62-109).
LEMMA CallObserverKeeps ==
  ASSUME IopInv, NEW t \in Workers, CallObserver(t)
  PROVE  IopInv'
<1> DEFINE x == call[t].io
           s == call[t].left
           e == Head(s)
           k == IF Len(s) = 1 THEN Idle ELSE [io |-> x, state |-> "observing", left |-> Tail(s)]
<1>1. /\ call[t].state = "observing" /\ call' = [call EXCEPT ![t] = k]
      /\ seen' = [seen EXCEPT ![x][e] = io[x].value]
      /\ UNCHANGED <<io, enforce, observing, channel, stamps, sync, time, ticking, last,
                     written, edits>>
  BY DEF CallObserver
<1>2. CallTyped /\ seen \in [Ios -> [Observers -> Contents \cup {NotCalled}]]
  BY DEF IopInv, IopTyped, CallTyped
<1>3. x \in Ios /\ s \in Seq(Observers) /\ s # <<>> /\ call[t].io = x
  <2>1. call[t] # Idle
    BY <1>1 DEF Idle
  <2> QED
    BY <1>1, <1>2, <2>1 DEF IopInv, CallsSound, CallTyped
<1>4. x # Null /\ e \in Observers /\ 1 \in DOMAIN s /\ s[1] = e /\ Tail(s) \in Seq(Observers)
  BY <1>3, IopAssumption
<1>5. io[x].value \in Contents
  BY <1>3 DEF IopInv, IopTyped
<1>6. k \in [io : Ios \cup {Null}, state : {"idle", "written", "observing"}, left : Seq(Observers)]
  BY <1>3, <1>4 DEF Idle
<1>7. /\ k.io = Null <=> k = Idle
      /\ k.state = "idle" => k = Idle
      /\ k.state = "observing" => k.left # <<>>
      /\ k # Idle => k.io = x /\ k.left = Tail(s)
      /\ k = Idle => k.left = <<>> /\ Len(s) = 1
  <2>1. CASE Len(s) = 1
    BY <2>1 DEF Idle
  <2>2. CASE Len(s) # 1
    <3>1. Tail(s) # <<>>
      <4>1. s \in Seq(Observers) /\ s # <<>>
        BY <1>3
      <4> HIDE DEF s
      <4> QED
        BY <2>2, <4>1, TailOfOne
    <3>2. k = [io |-> x, state |-> "observing", left |-> Tail(s)]
      BY <2>2
    <3>3. k # Idle
      BY <1>4, <3>2 DEF Idle
    <3> QED
      BY <1>4, <3>1, <3>2, <3>3
  <2> QED
    BY <2>1, <2>2
<1>8. \A j \in DOMAIN s : s[j] = e \/ (j - 1 \in DOMAIN Tail(s) /\ Tail(s)[j - 1] = s[j])
  BY <1>3
<1>9. \A j \in DOMAIN Tail(s) : j + 1 \in DOMAIN s /\ Tail(s)[j] = s[j + 1]
  BY <1>3
<1> HIDE DEF k, e, s, x
<1>10. CallTyped' /\ call'[t] = k /\ \A u \in Workers \ {t} : call'[u] = call[u]
  BY <1>1, <1>2, <1>6 DEF CallTyped
<1>11. /\ seen' \in [Ios -> [Observers -> Contents \cup {NotCalled}]]
       /\ seen'[x][e] = io[x].value
       /\ \A y \in Ios, a \in Observers : (y # x \/ a # e) => seen'[y][a] = seen[y][a]
  BY <1>1, <1>2, <1>3, <1>4, <1>5
<1>12. IopTyped'
  BY <1>1, <1>10, <1>11 DEF IopInv, IopTyped, CallTyped
<1>13. CallsSound'
  <2>1. SUFFICES ASSUME NEW u \in Workers
                 PROVE  /\ call'[u].io = Null <=> call'[u] = Idle
                        /\ call'[u].state = "idle" => call'[u] = Idle
                        /\ call'[u].state = "observing" => call'[u].left # <<>>
    BY DEF CallsSound
  <2>2. CASE u = t
    BY <1>7, <1>10, <2>2
  <2>3. CASE u # t
    BY <1>10, <2>3 DEF IopInv, CallsSound
  <2> QED
    BY <2>2, <2>3
<1>14. IopTypeOK'
  BY <1>1, <1>13 DEF IopInv, IopTypeOK, CallsSound
<1>15. ConstraintHolds' /\ OriginsTold'
  <2>1. ConstraintHolds'
    BY <1>1 DEF IopInv, ConstraintHolds, Obeys
  <2>2. OriginsTold'
    BY <1>1 DEF IopInv, OriginsTold
  <2> QED
    BY <2>1, <2>2
<1>16. Registered'
  <2>1. \A j \in DOMAIN s : \E i \in DOMAIN observing[x] : observing[x][i] = s[j]
    BY <1>3 DEF IopInv, Registered, s
  <2>2. ASSUME NEW y \in Ios, NEW a \in Observers, seen'[y][a] # NotCalled
        PROVE  \E i \in DOMAIN observing[y] : observing[y][i] = a
    <3>1. CASE y = x /\ a = e
      BY <1>4, <2>1, <3>1
    <3>2. CASE y # x \/ a # e
      BY <1>11, <2>2, <3>2 DEF IopInv, Registered
    <3> QED
      BY <3>1, <3>2
  <2>3. ASSUME NEW u \in Workers, NEW j \in DOMAIN call'[u].left
        PROVE  \E i \in DOMAIN observing[call'[u].io] : observing[call'[u].io][i] = call'[u].left[j]
    <3>1. CASE u = t
      <4>1. k # Idle
        BY <1>7, <1>10, <2>3, <3>1
      <4>2. call'[u].io = x /\ call'[u].left = Tail(s)
        BY <1>7, <1>10, <3>1, <4>1
      <4>3. j + 1 \in DOMAIN s /\ Tail(s)[j] = s[j + 1]
        BY <1>9, <2>3, <4>2
      <4> QED
        BY <2>1, <4>2, <4>3
    <3>2. CASE u # t
      BY <1>10, <2>3, <3>2 DEF IopInv, Registered
    <3> QED
      BY <3>1, <3>2
  <2> QED
    BY <1>1, <2>2, <2>3 DEF Registered
<1>17. ToldOrPending'
  <2>1. SUFFICES ASSUME NEW y \in Ios, NEW a \in Observers, last[y] # Null,
                        seen'[y][a] \notin {NotCalled, io[y].value}
                 PROVE  \E u \in Workers : WillTell(u, y, a)'
    BY <1>1 DEF ToldOrPending
  <2>2. y # x \/ a # e
    BY <1>11, <2>1
  <2>3. seen[y][a] \notin {NotCalled, io[y].value}
    BY <1>11, <2>1, <2>2
  <2>4. PICK u \in Workers : WillTell(u, y, a)
    BY <2>1, <2>3 DEF IopInv, ToldOrPending
  <2>5. CASE u = t
    <3>1. y = x /\ a # e
      BY <1>3, <2>2, <2>4, <2>5 DEF WillTell
    <3>2. PICK j \in DOMAIN s : s[j] = a
      BY <1>1, <2>4, <2>5 DEF WillTell, s
    <3>3. j - 1 \in DOMAIN Tail(s) /\ Tail(s)[j - 1] = a
      BY <1>8, <3>1, <3>2
    <3>4. Tail(s) # <<>>
      BY <3>3
    <3>5. k # Idle
      <4>1. Len(s) # 1
        <5>1. Len(s) = 1 => Tail(s) = <<>>
          BY <1>3, TailOfOne
        <5> QED
          BY <3>4, <5>1
      <4> QED
        BY <1>7, <4>1
    <3>6. call'[t].io = y /\ call'[t].left = Tail(s)
      BY <1>7, <1>10, <3>1, <3>5
    <3>7. WillTell(t, y, a)'
      BY <3>3, <3>6 DEF WillTell
    <3> QED
      BY <3>7
  <2>6. CASE u # t
    <3>1. WillTell(u, y, a)'
      BY <1>10, <2>4, <2>6 DEF WillTell
    <3> QED
      BY <3>1
  <2> QED
    BY <2>5, <2>6
<1> QED
  BY <1>12, <1>13, <1>14, <1>15, <1>16, <1>17 DEF IopInv

\* A change of one IO, or of its last write, that calls no observer.
LEMMA EditKeeps ==
  ASSUME IopInv, NEW x \in Ios, IoTyped', LastTyped',
         UNCHANGED <<observing, call, channel, time, ticking, seen>>,
         \A y \in Ios : /\ io'[y].type = io[y].type
                        /\ y # x => io'[y] = io[y] /\ last'[y] = last[y],
         Fits(io'[x].type, io'[x].value), io'[x].size = SizeOf(io'[x].value),
         io'[x].constraint # Null => Suits(io'[x].type, io'[x].constraint),
         \/ last'[x] = Null
         \/ /\ last[x] # Null /\ io'[x].value = io[x].value
            /\ last'[x].origin = last[x].origin
            /\ \/ ~last'[x].verified
               \/ last'[x] = last[x] /\ io'[x].constraint = io[x].constraint
  PROVE  IopInv'
<1>1. IopTyped'
  BY DEF IopInv, IopTyped, IoTyped, LastTyped
<1>2. IopTypeOK'
  <2>1. ASSUME NEW y \in Ios
        PROVE  /\ IF io'[y].value = Null THEN io'[y].type \in {"STRING", "IMPULSION", "DATA"}
                  ELSE io'[y].value.as \in Shapes[io'[y].type]
               /\ io'[y].size = SizeOf(io'[y].value)
               /\ io'[y].constraint # Null => Suits(io'[y].type, io'[y].constraint)
    <3>1. CASE y = x
      BY <3>1 DEF Fits
    <3>2. CASE y # x
      BY <3>2 DEF IopInv, IopTypeOK
    <3> QED
      BY <3>1, <3>2
  <2>2. \A t \in Workers : call'[t].io = Null <=> call'[t] = Idle
    BY DEF IopInv, IopTypeOK
  <2> QED
    BY <2>1, <2>2 DEF IopTypeOK
<1>3. ConstraintHolds'
  <2>1. SUFFICES ASSUME NEW y \in Ios, last'[y] # Null, last'[y].verified, last'[y].vtype # "BOOL",
                        last'[y].vtype = "DATA" => io'[y].type # "STRING"
                 PROVE  Obeys(y)'
    BY DEF ConstraintHolds
  <2>2. /\ io'[y].type = io[y].type /\ io'[y].value = io[y].value
        /\ io'[y].constraint = io[y].constraint /\ last'[y] = last[y]
    <3>1. CASE y = x
      BY <2>1, <3>1
    <3>2. CASE y # x
      BY <3>2
    <3> QED
      BY <3>1, <3>2
  <2>3. Obeys(y)
    BY <2>1, <2>2 DEF IopInv, ConstraintHolds
  <2> QED
    BY <2>2, <2>3 DEF Obeys
<1>4. OriginsTold'
  <2>1. ASSUME NEW y \in Ios, last'[y] # Null, last'[y].origin # Null
        PROVE  Tells(last'[y].origin, io'[y].value, io'[y].type)
    <3>1. /\ last[y] # Null /\ last'[y].origin = last[y].origin
          /\ io'[y].value = io[y].value /\ io'[y].type = io[y].type
      <4>1. CASE y = x
        BY <2>1, <4>1
      <4>2. CASE y # x
        BY <2>1, <4>2
      <4> QED
        BY <4>1, <4>2
    <3> QED
      BY <2>1, <3>1 DEF IopInv, OriginsTold
  <2> QED
    BY <2>1 DEF IopInv, OriginsTold
<1>5. CallsSound' /\ Registered'
  BY DEF IopInv, CallsSound, Registered
<1>6. ToldOrPending'
  <2>1. SUFFICES ASSUME NEW y \in Ios, NEW a \in Observers, last'[y] # Null
                 PROVE  \/ seen[y][a] \in {NotCalled, io'[y].value}
                        \/ \E u \in Workers : WillTell(u, y, a)
    BY DEF ToldOrPending, WillTell
  <2>2. last[y] # Null /\ io'[y].value = io[y].value
    <3>1. CASE y = x
      BY <2>1, <3>1
    <3>2. CASE y # x
      BY <2>1, <3>2
    <3> QED
      BY <3>1, <3>2
  <2> QED
    BY <2>2 DEF IopInv, ToldOrPending
<1> QED
  BY <1>1, <1>2, <1>3, <1>4, <1>5, <1>6 DEF IopInv

\* What the invariant says of the IO that a step edits.
LEMMA IoFacts ==
  ASSUME IopInv, NEW x \in Ios
  PROVE  /\ IoTyped /\ LastTyped
         /\ io[x].type \in ValueTypes /\ io[x].value \in Contents
         /\ Fits(io[x].type, io[x].value) /\ io[x].size = SizeOf(io[x].value)
         /\ io[x].constraint # Null => Suits(io[x].type, io[x].constraint)
<1>1. IoTyped /\ LastTyped /\ io[x].type \in ValueTypes /\ io[x].value \in Contents
  BY DEF IopInv, IopTyped, IoTyped, LastTyped
<1>2. Fits(io[x].type, io[x].value)
  BY <1>1 DEF IopInv, IopTypeOK, Fits, Contents
<1> QED
  BY <1>1, <1>2 DEF IopInv, IopTypeOK

\* Zeros have the shape of their type, and clearing keeps their size right
\* (s_model_clear_io, igs_model.c:487-533).
LEMMA ZeroFits ==
  ASSUME NEW type \in ValueTypes
  PROVE  /\ Fits(type, Zero(type)) /\ Zero(type) \in Contents /\ SizeOf(Zero(type)) \in Nat
         /\ \A v \in Contents : Fits(type, v) =>
              SizeOf(Zero(type)) = IF type \in {"STRING", "DATA"} THEN 0 ELSE SizeOf(v)
<1>1. Fits(type, Zero(type))
  <2>1. Storable(type, "IMPULSION", Null) /\ Stored(type, "IMPULSION", Null) = Zero(type)
    BY DEF Storable, Stored
  <2>2. Null \in Contents /\ "IMPULSION" \in ValueTypes
    BY DEF Contents, ValueTypes
  <2> QED
    BY <2>1, <2>2, StoredFits
<1>2. Zero(type) \in Contents
  BY <1>1 DEF Fits, Contents
<1>3. ASSUME NEW v \in Contents, Fits(type, v)
      PROVE  SizeOf(Zero(type)) = IF type \in {"STRING", "DATA"} THEN 0 ELSE SizeOf(v)
  <2>1. CASE type \in {"STRING", "DATA"}
    <3>1. Zero(type) = Null
      BY <2>1 DEF Zero
    <3> QED
      BY <2>1, <3>1, SizeFacts
  <2>2. CASE type = "IMPULSION"
    <3>1. Zero(type) = Null /\ v = Null
      BY <1>3, <2>2 DEF Zero, Fits, Shapes
    <3> QED
      BY <2>2, <3>1
  <2>3. CASE type \in {"INTEGER", "DOUBLE", "BOOL"}
    <3>1. /\ v \in Blocks /\ v # Null /\ v.as \in Shapes[type]
          /\ Zero(type) \in Blocks /\ Zero(type) # Null /\ Zero(type).as \in Shapes[type]
      BY <1>1, <1>3, <2>3 DEF Fits
    <3>2. CASE type = "INTEGER"
      <4>1. v.as = "int" /\ Zero(type).as = "int"
        BY <3>1, <3>2 DEF Shapes
      <4> QED
        BY <3>1, <3>2, <4>1, SizeFacts
    <3>3. CASE type = "DOUBLE"
      <4>1. v.as = "double" /\ Zero(type).as = "double"
        BY <3>1, <3>3 DEF Shapes
      <4> QED
        BY <3>1, <3>3, <4>1, SizeFacts
    <3>4. CASE type = "BOOL"
      <4>1. v.as = "bool" /\ Zero(type).as = "bool"
        BY <3>1, <3>4 DEF Shapes
      <4>2. \A b \in Blocks : b.as = "bool" => SizeOf(b) = 1
        <5>1. SUFFICES ASSUME NEW b \in Blocks, b.as = "bool"
                       PROVE  SizeOf(b) = 1
          OBVIOUS
        <5>2. b # Null /\ b.w = ""
          BY <5>1, BlockParts
        <5> QED
          BY <5>1, <5>2 DEF SizeOf
      <4>3. SizeOf(v) = 1 /\ SizeOf(Zero(type)) = 1
        BY <3>1, <4>1, <4>2
      <4> QED
        BY <3>4, <4>3
    <3> QED
      BY <2>3, <3>2, <3>3, <3>4
  <2> QED
    BY <2>1, <2>2, <2>3 DEF ValueTypes
<1>4. SizeOf(Zero(type)) \in Nat
  BY <1>2, SizeFacts DEF Contents
<1> QED
  BY <1>1, <1>2, <1>3, <1>4

\* Clearing puts a zero of the right size.
LEMMA ClearKeeps ==
  ASSUME IopInv, NEW x \in Ios, Clear(x)
  PROVE  IopInv'
<1> DEFINE v == Zero(io[x].type)
           z == SizeCleared(x)
<1>1. /\ io' = [io EXCEPT ![x].value = v, ![x].size = z]
      /\ last' = [last EXCEPT ![x] = Null]
      /\ UNCHANGED <<observing, call, channel, time, ticking, seen>>
  BY DEF Clear
<1>2. /\ IoTyped /\ LastTyped
      /\ io[x].type \in ValueTypes /\ io[x].value \in Contents
      /\ Fits(io[x].type, io[x].value) /\ io[x].size = SizeOf(io[x].value)
      /\ io[x].constraint # Null => Suits(io[x].type, io[x].constraint)
  BY IoFacts
<1>3. Fits(io[x].type, v) /\ v \in Contents /\ z = SizeOf(v) /\ z \in Nat
  BY <1>2, ZeroFits DEF SizeCleared
<1> HIDE DEF v, z
<1>4. /\ IoTyped'
      /\ \A y \in Ios : /\ io'[y].type = io[y].type
                        /\ y # x => io'[y] = io[y]
      /\ io'[x].value = v /\ io'[x].size = z /\ io'[x].constraint = io[x].constraint
  BY <1>1, <1>2, <1>3 DEF IoTyped
<1>5. LastTyped' /\ last'[x] = Null /\ \A y \in Ios : y # x => last'[y] = last[y]
  BY <1>1, <1>2 DEF LastTyped
<1> QED
  BY <1>1, <1>2, <1>3, <1>4, <1>5, EditKeeps

\* A new constraint was verified by no write yet.
LEMMA AddConstraintKeeps ==
  ASSUME IopInv, NEW x \in Ios, NEW c \in Constraints, AddConstraint(x, c)
  PROVE  IopInv'
<1> DEFINE d == IF Suits(io[x].type, c) THEN c ELSE Null
           l == IF last[x] = Null THEN Null ELSE [last[x] EXCEPT !.verified = FALSE]
<1>1. /\ io' = [io EXCEPT ![x].constraint = d]
      /\ last' = [last EXCEPT ![x] = l]
      /\ UNCHANGED <<observing, call, channel, time, ticking, seen>>
  BY DEF AddConstraint
<1>2. /\ IoTyped /\ LastTyped
      /\ io[x].type \in ValueTypes /\ io[x].value \in Contents
      /\ Fits(io[x].type, io[x].value) /\ io[x].size = SizeOf(io[x].value)
  BY IoFacts
<1>3. d \in Constraints \cup {Null} /\ (d # Null => Suits(io[x].type, d))
  OBVIOUS
<1>4. /\ l \in [vtype : ValueTypes, block : Contents, verified : BOOLEAN,
                origin : Origins \cup {Null}] \cup {Null}
      /\ l = Null \/ (last[x] # Null /\ l.origin = last[x].origin /\ ~l.verified)
  BY <1>2 DEF LastTyped
<1> HIDE DEF d, l
<1>5. /\ IoTyped'
      /\ \A y \in Ios : /\ io'[y].type = io[y].type
                        /\ y # x => io'[y] = io[y]
      /\ io'[x].value = io[x].value /\ io'[x].size = io[x].size /\ io'[x].constraint = d
  BY <1>1, <1>2, <1>3 DEF IoTyped
<1>6. LastTyped' /\ last'[x] = l /\ \A y \in Ios : y # x => last'[y] = last[y]
  BY <1>1, <1>2, <1>4 DEF LastTyped
<1> QED
  BY <1>1, <1>2, <1>3, <1>4, <1>5, <1>6, EditKeeps

\* Muting changes nothing of the value.
LEMMA MuteKeeps ==
  ASSUME IopInv, NEW x \in Ios, Mute(x)
  PROVE  IopInv'
<1>1. /\ io' = [io EXCEPT ![x].muted = ~io[x].muted]
      /\ UNCHANGED <<observing, call, channel, time, ticking, last, seen>>
  BY DEF Mute
<1>2. /\ IoTyped /\ LastTyped
      /\ Fits(io[x].type, io[x].value) /\ io[x].size = SizeOf(io[x].value)
      /\ io[x].constraint # Null => Suits(io[x].type, io[x].constraint)
  BY IoFacts
<1>3. /\ IoTyped'
      /\ \A y \in Ios : /\ io'[y].type = io[y].type
                        /\ y # x => io'[y] = io[y]
      /\ io'[x].value = io[x].value /\ io'[x].size = io[x].size
      /\ io'[x].constraint = io[x].constraint
  BY <1>1, <1>2 DEF IoTyped
<1>4. LastTyped' /\ \A y \in Ios : last'[y] = last[y]
  BY <1>1, <1>2 DEF LastTyped
<1> QED
  BY <1>1, <1>2, <1>3, <1>4, EditKeeps

\* A new observer was not called yet, so it is up to date.
LEMMA ObserveKeeps ==
  ASSUME IopInv, NEW x \in Ios, NEW o \in Observers, Observe(x, o)
  PROVE  IopInv'
<1>1. /\ observing' = [observing EXCEPT ![x] = Append(observing[x], o)]
      /\ UNCHANGED <<io, call, channel, time, ticking, last, seen>>
  BY DEF Observe
<1>2. observing \in [Ios -> Seq(Observers)]
  BY DEF IopInv, IopTyped
<1>3. /\ observing' \in [Ios -> Seq(Observers)]
      /\ \A y \in Ios : \A i \in DOMAIN observing[y] :
           i \in DOMAIN observing'[y] /\ observing'[y][i] = observing[y][i]
  BY <1>1, <1>2
<1>4. IopTyped'
  BY <1>1, <1>3 DEF IopInv, IopTyped
<1>5. IopTypeOK'
  BY <1>1 DEF IopInv, IopTypeOK
<1>6. ConstraintHolds'
  BY <1>1 DEF IopInv, ConstraintHolds, Obeys
<1>7. OriginsTold'
  BY <1>1 DEF IopInv, OriginsTold
<1>8. CallsSound'
  BY <1>1 DEF IopInv, CallsSound
<1>9. Registered'
  <2>1. ASSUME NEW y \in Ios, NEW a \in Observers, seen[y][a] # NotCalled
        PROVE  \E i \in DOMAIN observing'[y] : observing'[y][i] = a
    <3>1. PICK i \in DOMAIN observing[y] : observing[y][i] = a
      BY <2>1 DEF IopInv, Registered
    <3> QED
      BY <1>3, <3>1
  <2>2. ASSUME NEW u \in Workers, NEW j \in DOMAIN call[u].left
        PROVE  \E i \in DOMAIN observing'[call[u].io] : observing'[call[u].io][i] = call[u].left[j]
    <3>1. PICK i \in DOMAIN observing[call[u].io] : observing[call[u].io][i] = call[u].left[j]
      BY <2>2 DEF IopInv, Registered
    <3>2. call[u].io \in Ios
      <4>1. CASE call[u] = Idle
        BY <2>2, <4>1 DEF Idle
      <4>2. CASE call[u] # Idle
        BY <4>2 DEF IopInv, IopTyped, CallsSound
      <4> QED
        BY <4>1, <4>2
    <3> QED
      BY <1>3, <3>1, <3>2
  <2> QED
    BY <1>1, <2>1, <2>2 DEF Registered
<1>10. ToldOrPending'
  BY <1>1 DEF IopInv, ToldOrPending, WillTell
<1> QED
  BY <1>4, <1>5, <1>6, <1>7, <1>8, <1>9, <1>10 DEF IopInv

\* IOs are created with the zero of their type.
LEMMA IopStart == IopInit => IopInv
<1> SUFFICES ASSUME IopInit PROVE IopInv
  OBVIOUS
<1>1. PICK type \in [Ios -> Types] :
        io = [x \in Ios |-> [type |-> type[x], value |-> Zero(type[x]), size |-> SizeOf(Zero(type[x])),
                            constraint |-> Null, muted |-> FALSE]]
  BY DEF IopInit
<1>2. ASSUME NEW x \in Ios
      PROVE  /\ type[x] \in ValueTypes /\ Zero(type[x]) \in Contents
             /\ SizeOf(Zero(type[x])) \in Nat /\ Fits(type[x], Zero(type[x]))
             /\ io[x].type = type[x] /\ io[x].value = Zero(type[x])
             /\ io[x].size = SizeOf(Zero(type[x])) /\ io[x].constraint = Null
  <2>1. type[x] \in ValueTypes
    BY IopAssumption
  <2> QED
    BY <1>1, <2>1, ZeroFits
<1>3. /\ observing = [x \in Ios |-> <<>>] /\ call = [t \in Workers |-> Idle] /\ channel = <<>>
      /\ time = 0 /\ ticking = <<>> /\ last = [x \in Ios |-> Null]
      /\ seen = [x \in Ios |-> [o \in Observers |-> NotCalled]]
  BY DEF IopInit
<1>4. IopTyped
  <2>1. io \in [Ios -> [type : ValueTypes, value : Contents, size : Nat,
                       constraint : Constraints \cup {Null}, muted : BOOLEAN]]
    BY <1>1, <1>2
  <2>2. Idle \in [io : Ios \cup {Null}, state : {"idle", "written", "observing"},
                 left : Seq(Observers)]
    BY DEF Idle
  <2> QED
    BY <1>3, <2>1, <2>2 DEF IopTyped
<1>5. IopTypeOK
  BY <1>2, <1>3 DEF IopTypeOK, Fits, Idle
<1>6. CallsSound
  BY <1>3 DEF CallsSound, Idle
<1>7. Registered
  BY <1>3 DEF Registered, Idle
<1>8. ConstraintHolds /\ OriginsTold /\ ToldOrPending
  BY <1>3 DEF ConstraintHolds, OriginsTold, ToldOrPending
<1> QED
  BY <1>4, <1>5, <1>6, <1>7, <1>8 DEF IopInv

\* The invariant is inductive.
LEMMA IopStep == IopInv /\ [IopNext]_iopVars => IopInv'
<1> SUFFICES ASSUME IopInv, [IopNext]_iopVars
             PROVE  IopInv'
  OBVIOUS
<1>1. ASSUME NEW t \in Threads, NEW x \in Ios, NEW w \in Writes, SetIo(t, x, w)
      PROVE  IopInv'
  BY <1>1, SetIoKeeps
<1>2. ASSUME NEW t \in Workers, Snapshot(t) \/ CallObserver(t)
      PROVE  IopInv'
  BY <1>2, SnapshotKeeps, CallObserverKeeps
<1>3. ASSUME NEW x \in Inputs, Receive(x)
      PROVE  IopInv'
  BY <1>3, ReceiveKeeps
<1>4. ASSUME NEW x \in Ios, EditStep(x)
      PROVE  IopInv'
  <2>1. CASE Clear(x)
    BY <2>1, ClearKeeps
  <2>2. CASE Mute(x)
    BY <2>2, MuteKeeps
  <2>3. ASSUME NEW c \in Constraints, AddConstraint(x, c)
        PROVE  IopInv'
    BY <2>3, AddConstraintKeeps
  <2>4. ASSUME NEW o \in Observers, Observe(x, o)
        PROVE  IopInv'
    BY <2>4, ObserveKeeps
  <2> QED
    BY <1>4, <2>1, <2>2, <2>3, <2>4 DEF EditStep
<1>5. CASE RtStep
  BY <1>5, RtKeeps
<1>6. CASE TickPublish
  BY <1>6, TickKeeps
<1>7. CASE UNCHANGED iopVars
  <2>1. UNCHANGED <<io, observing, call, channel, time, ticking, last, seen>>
    BY <1>7 DEF iopVars
  <2>2. /\ channel' \in Seq(Frames) /\ SentTold' /\ time' \in Times \cup {0}
        /\ ticking' \in Seq(Outputs)
    BY <2>1 DEF IopInv, IopTyped, OriginsTold, SentTold
  <2> QED
    BY <2>1, <2>2, OthersKeep
<1> QED
  BY <1>1, <1>2, <1>3, <1>4, <1>5, <1>6, <1>7 DEF IopNext

\* The invariant holds all along.
LEMMA IopInvariant == IopSpec => []IopInv
BY IopStart, IopStep, PTL DEF IopSpec

\* Values keep the shape of their type, value_size is their size, constraints
\* suit the type, and only busy threads have an IO (igs_model.c:1070-1374).
THEOREM IopTypeCorrect == IopSpec => []IopTypeOK
<1>1. IopInv => IopTypeOK
  BY DEF IopInv
<1> QED
  BY IopInvariant, <1>1, PTL

\* A verified write leaves a value that obeys the constraint, and what was
\* written is what is read, through every output and input that can hold it
\* (igs_model.c:909-1313, 1558-1820).
THEOREM IopValuesRight == IopSpec => []ValuesRight
<1>1. IopInv => ValuesRight
  <2>1. SUFFICES ASSUME IopInv, NEW x \in Ios, last[x] # Null, last[x].origin # Null,
                        last[x].origin.block # Null,
                        last[x].origin.via \subseteq Holders(last[x].origin.vtype)
                 PROVE  Result(x, last[x].origin.vtype) = last[x].origin.block
    BY DEF ValuesRight, ReadsBack, IopInv
  <2>2. last[x].origin \in Origins /\ io[x].type \in ValueTypes
    BY <2>1 DEF IopInv, IopTyped
  <2>3. Tells(last[x].origin, io[x].value, io[x].type)
    BY <2>1 DEF IopInv, OriginsTold
  <2> QED
    BY <2>1, <2>2, <2>3, TellsRead
<1> QED
  BY IopInvariant, <1>1, PTL

\* Observers that were called saw last what the IO holds, as soon as no
\* thread is about to call them, though they are called without the lock and
\* several threads may call them (model_LOCKED_handle_io_callbacks,
\* igs_model.c:62-109).
THEOREM IopObserversUpToDate == IopSpec => []ObserversUpToDate
<1>1. IopInv => ObserversUpToDate
  BY DEF IopInv, ToldOrPending, WillTell, ObserversUpToDate
<1> QED
  BY IopInvariant, <1>1, PTL
=============================================================================
