-------------------- MODULE AgentEventsDefinitionProofs --------------------
(***************************************************************************)
(* Proofs about two components that share nothing.  Agent events, for any  *)
(* number of agents, observers and user threads: what an observer was not  *)
(* told yet is owed to it by a thread whose loop still has it ahead.  The  *)
(* definition and the mapping of an agent, for any names, constraints,     *)
(* texts and peers: every function leaves a definition that is well made,  *)
(* and the texts cached for it.                                            *)
(***************************************************************************)
EXTENDS AgentEvents, Definition, FiniteSetTheorems, WellFoundedInduction, TLAPS
-----------------------------------------------------------------------------
(***************************************************************************)
(* The invariant.                                                          *)
(***************************************************************************)
\* What a thread is doing fits its operation, and its loop fits its stage.
Doing(t) ==
  \/ op[t] = "none" /\ stage[t] = "idle"
  \/ op[t] = "activate" /\ t \in Users /\ subject[t] \in Agents
       /\ stage[t] \in {"locals", "remotes", "entered", "knows", "observers"}
  \/ op[t] = "deactivate" /\ t \in Users /\ subject[t] \in Agents /\ stage[t] \in {"observers", "exited"}
  \/ op[t] = "enter" /\ t = Network /\ subject[t] \in remotes /\ stage[t] = "entered"
  \/ op[t] = "exit" /\ t = Network /\ subject[t] \in Remotes \ remotes /\ stage[t] = "exited"

Propagating == {"entered", "knows", "exited"}
Looping(t) ==
  /\ stage[t] = "locals" => target[t] \in Agents \ {subject[t]}
  /\ stage[t] = "remotes" => target[t] \in Remotes
  /\ stage[t] \in Propagating => target[t] \in (Agents \ {subject[t]}) \cup {Nobody}
  /\ point[t] = "call" => target[t] # Nobody /\ stage[t] # "idle"

Shape == \A t \in Threads : Doing(t) /\ Looping(t)

\* The loop of thread t has observer k of agent x ahead of it.
Ahead(t, x, k) ==
  IF x = target[t] THEN observer[t] < k \/ (observer[t] = k /\ point[t] = "call")
                   ELSE x \notin contacted[t]

\* The activation of a by thread t will tell observer k of a about b.
WillHear(t, a, b, k) ==
  op[t] = "activate" /\ subject[t] = a /\ stage[t] = "locals" /\ Ahead(t, b, k)

\* The activation of b by thread t will tell observer k of a event e about b.
WillTell(t, a, b, k, e) ==
  /\ op[t] = "activate" /\ subject[t] = b
  /\ \/ stage[t] \in {"locals", "remotes"}
     \/ stage[t] = "entered" /\ (e = "KNOWS_US" \/ Ahead(t, a, k))
     \/ stage[t] = "knows" /\ e = "KNOWS_US" /\ Ahead(t, a, k)

Owes(t, a, b, k, e) == WillHear(t, a, b, k) \/ WillTell(t, a, b, k, e)
Owed(a, b, k, e) == \E t \in Users : Owes(t, a, b, k, e)
EventKinds == {"ENTERED", "KNOWS_US"}

\* What an active agent was not told about another one, a thread will tell it.
ToldOrOwed ==
  \A a, b \in active, k \in Indices, e \in EventKinds :
    a # b => <<e, b>> \in told[a][k] \/ Owed(a, b, k, e)

\* The same of remote agents, for first observers.
WillHearRemote(t, a, r) ==
  /\ op[t] = "activate" /\ subject[t] = a
  /\ stage[t] = "locals" \/ (stage[t] = "remotes" /\ Ahead(t, r, 1))
WillTellRemote(a, r) ==
  op[Network] = "enter" /\ subject[Network] = r /\ Ahead(Network, a, 1)
RemotesSeenOrOwed ==
  \A a \in active, r \in remotes :
    \/ r \in view[a][1]
    \/ (\E t \in Users : WillHearRemote(t, a, r)) \/ WillTellRemote(a, r)

\* When threads take turns: one operation at a time, on the agents as they are.
OneByOne == \A t, u \in Users : op[t] # "none" /\ op[u] # "none" => t = u
Current(t) ==
  /\ op[t] = "activate" => subject[t] \in active
  /\ op[t] = "deactivate" => subject[t] \notin active
  /\ stage[t] = "locals" => target[t] \in active

\* The deactivation of b will tell observer k of a that b exited.
WillExit(t, a, b, k) ==
  /\ op[t] = "deactivate" /\ subject[t] = b
  /\ stage[t] = "observers" \/ (stage[t] = "exited" /\ Ahead(t, a, k))

ViewsOrOwed ==
  /\ \A a, b \in active, k \in Indices : a # b => b \in view[a][k] \/ Owed(a, b, k, "ENTERED")
  /\ \A a \in active, b \in Agents \ active, k \in Indices :
       b \notin view[a][k] \/ \E t \in Users : WillExit(t, a, b, k)
  /\ \A a \in active, k \in Indices : a \notin view[a][k]

\* The activation callback has had, or will have, the last word.
WillSay(t, a) ==
  /\ subject[t] = a
  /\ \/ op[t] = "activate" /\ (stage[t] \in {"locals", "remotes", "entered", "knows"}
                                \/ (stage[t] = "observers" /\ (point[t] = "call" \/ target[t] = Nobody)))
     \/ op[t] = "deactivate" /\ stage[t] = "observers" /\ point[t] = "call"
StatusOrOwed == \A a \in Agents : status[a] = (a \in active) \/ \E t \in Users : WillSay(t, a)

TakingTurns ==
  ~overlapped => OneByOne /\ (\A t \in Users : Current(t)) /\ ViewsOrOwed /\ StatusOrOwed

EventsInv == TypeOK /\ Shape /\ ToldOrOwed /\ RemotesSeenOrOwed /\ TakingTurns

-----------------------------------------------------------------------------
(***************************************************************************)
(* Steps of the loops.                                                     *)
(***************************************************************************)
\* A thread that a step leaves alone.
Same(u) ==
  /\ op'[u] = op[u] /\ subject'[u] = subject[u] /\ stage'[u] = stage[u] /\ point'[u] = point[u]
  /\ target'[u] = target[u] /\ observer'[u] = observer[u] /\ contacted'[u] = contacted[u]

\* The part of it that loops change.
SameLoop(u) ==
  /\ stage'[u] = stage[u] /\ point'[u] = point[u]
  /\ target'[u] = target[u] /\ observer'[u] = observer[u] /\ contacted'[u] = contacted[u]

\* What is not an agent, a remote agent or a user.
LEMMA Different ==
  /\ Agents \cap Remotes = {} /\ Nobody \notin Ids /\ Network \notin Users
  /\ Network \in Threads /\ Users \subseteq Threads /\ Agents \subseteq Ids /\ Remotes \subseteq Ids
  /\ 1 \in Indices /\ Observers \in Nat
BY AgentEventsAssumption DEF Ids, Threads, Indices

\* What going on with a call changes, and that other threads stay.
LEMMA CallsSet ==
  ASSUME TypeOK, NEW t \in Threads, NEW st, NEW x, NEW k, NEW done, Calls(t, st, x, k, done)
  PROVE  /\ stage'[t] = st /\ target'[t] = x /\ observer'[t] = k /\ contacted'[t] = done /\ point'[t] = "call"
         /\ \A u \in Threads : u # t => SameLoop(u)
BY DEF TypeOK, Calls, SameLoop

\* What going on with another loop changes.
LEMMA EntersSet ==
  ASSUME TypeOK, NEW t \in Threads, NEW st, Enters(t, st)
  PROVE  /\ stage'[t] = st /\ target'[t] = Nobody /\ observer'[t] = 1 /\ contacted'[t] = {} /\ point'[t] = "lock"
         /\ \A u \in Threads : u # t => SameLoop(u)
BY DEF TypeOK, Enters, SameLoop

\* What the end of an operation changes.
LEMMA ReturnsSet ==
  ASSUME TypeOK, NEW t \in Threads, Returns(t)
  PROVE  /\ stage'[t] = "idle" /\ op'[t] = "none" /\ point'[t] = "lock" /\ target'[t] = Nobody
         /\ \A u \in Threads : u # t => Same(u)
<1>1. /\ stage'[t] = "idle" /\ point'[t] = "lock" /\ target'[t] = Nobody
      /\ \A u \in Threads : u # t => SameLoop(u)
  BY EntersSet DEF Returns
<1>2. /\ op'[t] = "none"
      /\ \A u \in Threads : u # t => op'[u] = op[u] /\ subject'[u] = subject[u]
  BY DEF Returns, TypeOK
<1> QED BY <1>1, <1>2 DEF Same, SameLoop

\* Types of the variables of the loops.
LoopTypes ==
  /\ stage \in [Threads -> {"idle", "locals", "remotes", "entered", "knows", "exited", "observers"}]
  /\ point \in [Threads -> {"lock", "call"}]
  /\ target \in [Threads -> Ids \cup {Nobody}]
  /\ observer \in [Threads -> Indices]
  /\ contacted \in [Threads -> SUBSET Ids]
Stages == {"idle", "locals", "remotes", "entered", "knows", "exited", "observers"}

\* Calls keeps the types of the loops.
LEMMA CallsTyped ==
  ASSUME TypeOK, NEW t \in Threads, NEW st \in Stages, NEW x \in Ids, NEW k \in Indices,
         NEW done \in SUBSET Ids, Calls(t, st, x, k, done)
  PROVE  LoopTypes'
BY DEF TypeOK, Calls, LoopTypes, Stages

\* The same of Enters.
LEMMA EntersTyped ==
  ASSUME TypeOK, NEW t \in Threads, NEW st \in Stages, Enters(t, st)
  PROVE  LoopTypes'
BY Different DEF TypeOK, Enters, LoopTypes, Stages

\* The loop of a thread goes on with the next observer, the next agent, or another loop.
LEMMA AheadNext ==
  ASSUME TypeOK, NEW t \in Threads, NEW st, NEW x, NEW k \in Indices, Ahead(t, x, k), point[t] = "lock",
         Calls(t, st, target[t], observer[t] + 1, contacted[t])
  PROVE  Ahead(t, x, k)'
<1>1. /\ target'[t] = target[t] /\ observer'[t] = observer[t] + 1 /\ contacted'[t] = contacted[t]
      /\ point'[t] = "call"
  BY CallsSet
<1>2. observer[t] \in Nat /\ k \in Nat
  BY DEF TypeOK, Indices
<1> QED BY <1>1, <1>2 DEF Ahead

\* When a loop leaves an agent, it has not that agent ahead of it any more.
LEMMA AheadDone ==
  ASSUME TypeOK, NEW t \in Threads, NEW x \in active, NEW k \in Indices, Ahead(t, x, k), point[t] = "lock",
         ~NextObserver(t)
  PROVE  x # target[t] /\ x \notin Done(t)
<1>1. observer[t] \in Nat /\ k \in Nat /\ k <= Observers /\ Observers \in Nat
  BY Different DEF TypeOK, Indices
<1>2. x # target[t]
  BY <1>1 DEF Ahead, NextObserver
<1> QED BY <1>2 DEF Ahead, Done

\* An agent not marked as contacted is ahead of the loop that calls another one.
LEMMA AheadCalls ==
  ASSUME TypeOK, NEW t \in Threads, NEW st, NEW y, NEW done, Calls(t, st, y, 1, done),
         NEW x, x \notin done, NEW k \in Indices
  PROVE  Ahead(t, x, k)'
<1>1. target'[t] = y /\ observer'[t] = 1 /\ contacted'[t] = done /\ point'[t] = "call"
  BY CallsSet
<1>2. k \in Nat /\ (1 < k \/ 1 = k)
  BY DEF Indices
<1> QED BY <1>1, <1>2 DEF Ahead

\* A loop that begins has every agent ahead of it.
LEMMA AheadEnters ==
  ASSUME TypeOK, NEW t \in Threads, NEW st, Enters(t, st), NEW x, x # Nobody, NEW k \in Indices
  PROVE  Ahead(t, x, k)'
BY EntersSet DEF Ahead

\* What it does when it has the lock again.
LEMMA LocalLoopGoes ==
  ASSUME NEW t \in Threads, NEW a, NEW done, NEW present, LocalLoop(t, a, done, present)
  PROVE  \/ \E b \in present \ (done \cup {a}) : Calls(t, "locals", b, 1, done)
         \/ /\ present \subseteq done \cup {a}
            /\ \/ \E r \in remotes : Calls(t, "remotes", r, 1, {})
               \/ remotes = {} /\ Enters(t, "entered")
<1>1. CASE present \ (done \cup {a}) # {}
  BY <1>1 DEF LocalLoop
<1>2. CASE present \ (done \cup {a}) = {}
  <2>1. RemoteLoop(t, {}) /\ present \subseteq done \cup {a}
    BY <1>2 DEF LocalLoop
  <2> QED BY <2>1 DEF RemoteLoop
<1> QED BY <1>1, <1>2

-----------------------------------------------------------------------------
(***************************************************************************)
(* Threads go on.                                                          *)
(***************************************************************************)
\* What others owe does not change.
LEMMA SameOwes ==
  ASSUME NEW u, Same(u)
  PROVE  /\ \A a, b, k, e : Owes(u, a, b, k, e)' <=> Owes(u, a, b, k, e)
         /\ \A a, r : WillHearRemote(u, a, r)' <=> WillHearRemote(u, a, r)
         /\ \A a, b, k : WillExit(u, a, b, k)' <=> WillExit(u, a, b, k)
         /\ \A a : WillSay(u, a)' <=> WillSay(u, a)
         /\ u = Network => \A a, r : WillTellRemote(a, r)' <=> WillTellRemote(a, r)
         /\ Looping(u)' <=> Looping(u)
         /\ remotes' = remotes \/ u # Network => (Doing(u)' <=> Doing(u))
<1>1. \A x, k : Ahead(u, x, k)' <=> Ahead(u, x, k)
  BY DEF Same, Ahead
<1>2. \A a, b, k, e : Owes(u, a, b, k, e)' <=> Owes(u, a, b, k, e)
  BY <1>1 DEF Same, Owes, WillHear, WillTell
<1>3. \A a, r : WillHearRemote(u, a, r)' <=> WillHearRemote(u, a, r)
  BY <1>1 DEF Same, WillHearRemote
<1>4. \A a, b, k : WillExit(u, a, b, k)' <=> WillExit(u, a, b, k)
  BY <1>1 DEF Same, WillExit
<1>5. \A a : WillSay(u, a)' <=> WillSay(u, a)
  BY DEF Same, WillSay
<1>6. u = Network => \A a, r : WillTellRemote(a, r)' <=> WillTellRemote(a, r)
  BY <1>1 DEF Same, WillTellRemote
<1>7. Looping(u)' <=> Looping(u)
  BY DEF Same, Looping
<1>8. remotes' = remotes \/ u # Network => (Doing(u)' <=> Doing(u))
  BY DEF Same, Doing
<1> QED BY <1>2, <1>3, <1>4, <1>5, <1>6, <1>7, <1>8

\* What thread t owes it owes still.
KeepsOwed(t) ==
  \A a, b \in active, k \in Indices, e \in EventKinds : a # b /\ Owes(t, a, b, k, e) => Owes(t, a, b, k, e)'
KeepsRemotes(t) ==
  \A a \in active, r \in remotes :
    /\ WillHearRemote(t, a, r) => WillHearRemote(t, a, r)'
    /\ t = Network /\ WillTellRemote(a, r) => WillTellRemote(a, r)'
KeepsExits(t) ==
  \A a \in active, b \in Agents \ active, k \in Indices : WillExit(t, a, b, k) => WillExit(t, a, b, k)'
KeepsStatus(t) == \A a \in Agents : WillSay(t, a) => WillSay(t, a)'

\* A step of a thread in which nothing is told.
LEMMA SilentStep ==
  ASSUME EventsInv, NEW t \in Threads, UNCHANGED <<active, remotes, toldVars, history>>,
         \A u \in Threads : u # t => Same(u),
         Doing(t)', Looping(t)', TypeOK',
         KeepsOwed(t), KeepsRemotes(t), KeepsExits(t), KeepsStatus(t),
         Current(t) => Current(t)', op'[t] \in {op[t], "none"}
  PROVE  EventsInv'
<1>1. /\ TypeOK /\ Shape /\ ToldOrOwed /\ RemotesSeenOrOwed /\ TakingTurns
      /\ active' = active /\ remotes' = remotes /\ view' = view /\ told' = told /\ status' = status
      /\ overlapped' = overlapped
  BY DEF EventsInv, toldVars, history
<1>2. Users \subseteq Threads /\ Network \in Threads
  BY Different
<1>3. Shape'
  BY <1>1, SameOwes DEF Shape
<1>4. \A a, b \in active, k \in Indices, e \in EventKinds : a # b /\ Owed(a, b, k, e) => Owed(a, b, k, e)'
  BY <1>2, SameOwes DEF Owed, KeepsOwed
<1>5. ToldOrOwed'
  BY <1>1, <1>4 DEF ToldOrOwed
<1>6. RemotesSeenOrOwed'
  <2> SUFFICES ASSUME NEW a \in active, NEW r \in remotes, r \notin view[a][1]
               PROVE  (\E u \in Users : WillHearRemote(u, a, r)') \/ WillTellRemote(a, r)'
    BY <1>1 DEF RemotesSeenOrOwed
  <2>1. (\E u \in Users : WillHearRemote(u, a, r)) \/ WillTellRemote(a, r)
    BY <1>1 DEF RemotesSeenOrOwed
  <2>2. ASSUME NEW u \in Users, WillHearRemote(u, a, r) PROVE WillHearRemote(u, a, r)'
    BY <1>2, <2>2, SameOwes DEF KeepsRemotes
  <2>3. WillTellRemote(a, r) => WillTellRemote(a, r)'
    BY <1>2, SameOwes DEF KeepsRemotes
  <2> QED BY <2>1, <2>2, <2>3
<1>7. ASSUME ~overlapped PROVE OneByOne' /\ (\A u \in Users : Current(u)') /\ ViewsOrOwed' /\ StatusOrOwed'
  <2>1. OneByOne /\ (\A u \in Users : Current(u)) /\ ViewsOrOwed /\ StatusOrOwed
    BY <1>1, <1>7 DEF TakingTurns
  <2>2. \A u \in Threads : op'[u] \in {op[u], "none"}
    BY DEF Same
  <2>3. OneByOne'
    BY <1>2, <2>1, <2>2 DEF OneByOne
  <2>4. \A u \in Users : Current(u)'
    BY <1>1, <1>2, <2>1 DEF Same, Current
  <2>5. ViewsOrOwed'
    <3>1. \A a, b \in active, k \in Indices : a # b => b \in view[a][k] \/ Owed(a, b, k, "ENTERED")'
      BY <1>4, <2>1 DEF ViewsOrOwed, EventKinds
    <3>2. ASSUME NEW a \in active, NEW b \in Agents \ active, NEW k \in Indices
          PROVE  b \notin view[a][k] \/ \E u \in Users : WillExit(u, a, b, k)'
      <4>1. b \notin view[a][k] \/ \E u \in Users : WillExit(u, a, b, k)
        BY <2>1 DEF ViewsOrOwed
      <4>2. \A u \in Users : WillExit(u, a, b, k) => WillExit(u, a, b, k)'
        BY <1>2, SameOwes DEF KeepsExits
      <4> QED BY <4>1, <4>2
    <3> QED BY <1>1, <2>1, <3>1, <3>2 DEF ViewsOrOwed
  <2>6. StatusOrOwed'
    <3>1. ASSUME NEW a \in Agents PROVE status[a] = (a \in active) \/ \E u \in Users : WillSay(u, a)'
      <4>1. status[a] = (a \in active) \/ \E u \in Users : WillSay(u, a)
        BY <2>1 DEF StatusOrOwed
      <4>2. \A u \in Users : WillSay(u, a) => WillSay(u, a)'
        BY <1>2, SameOwes DEF KeepsStatus
      <4> QED BY <4>1, <4>2
    <3> QED BY <1>1, <3>1 DEF StatusOrOwed
  <2> QED BY <2>3, <2>4, <2>5, <2>6
<1>8. TakingTurns'
  BY <1>1, <1>7 DEF TakingTurns
<1> QED BY <1>3, <1>5, <1>6, <1>8 DEF EventsInv

\* Types, when a thread goes on in its loops.
LEMMA LoopTyped ==
  ASSUME TypeOK, LoopTypes', UNCHANGED <<active, remotes, toldVars, history>>,
         op' \in [Threads -> {"none", "activate", "deactivate", "enter", "exit"}],
         subject' \in [Threads -> Ids \cup {Nobody}]
  PROVE  TypeOK'
BY DEF TypeOK, LoopTypes, toldVars, history

\* igsagent_activate goes on with the local agents.
LEMMA LocalStepKeeps ==
  ASSUME EventsInv, NEW t \in Threads, LocalStep(t)
  PROVE  EventsInv'
<1>1. TypeOK /\ Doing(t) /\ Looping(t)
  BY DEF EventsInv, Shape
<1>2. /\ stage[t] = "locals" /\ point[t] = "lock" /\ UNCHANGED <<active, remotes, toldVars, history>>
      /\ op' = op /\ subject' = subject
  BY DEF LocalStep
<1>3. op[t] = "activate" /\ t \in Users /\ subject[t] \in Agents /\ target[t] \in Agents \ {subject[t]}
  BY <1>1, <1>2 DEF Doing, Looping
<1>4. active \subseteq Agents /\ remotes \subseteq Remotes /\ contacted[t] \subseteq Ids /\ Done(t) \subseteq Ids
  BY <1>1, <1>3, Different DEF TypeOK, Done
<1>5. CASE NextObserver(t)
  <2>1. Calls(t, "locals", target[t], observer[t] + 1, contacted[t])
    BY <1>2, <1>5 DEF LocalStep
  <2>2. /\ stage'[t] = "locals" /\ target'[t] = target[t] /\ point'[t] = "call"
        /\ \A u \in Threads : u # t => SameLoop(u)
    BY <1>1, <2>1, CallsSet
  <2>3. \A u \in Threads : u # t => Same(u)
    BY <1>2, <2>2 DEF Same, SameLoop
  <2>4. observer[t] + 1 \in Indices /\ "locals" \in Stages /\ target[t] \in Ids
    BY <1>1, <1>3, <1>5, Different DEF NextObserver, TypeOK, Indices, Stages
  <2>5. TypeOK'
    <3>1. LoopTypes'
      BY <1>1, <1>4, <2>1, <2>4, CallsTyped
    <3> QED BY <1>1, <1>2, <3>1, LoopTyped DEF TypeOK
  <2>6. Doing(t)' /\ Looping(t)'
    BY <1>2, <1>3, <1>4, <2>2, Different DEF Doing, Looping, Propagating, Ids
  <2>7. KeepsOwed(t)
    <3> SUFFICES ASSUME NEW a \in active, NEW b \in active, NEW k \in Indices, NEW e \in EventKinds, a # b,
                        Owes(t, a, b, k, e)
                 PROVE  Owes(t, a, b, k, e)'
      BY DEF KeepsOwed
    <3>1. Ahead(t, b, k) => Ahead(t, b, k)'
      BY <1>1, <1>2, <2>1, AheadNext
    <3> QED BY <1>2, <1>3, <2>2, <3>1 DEF Owes, WillHear, WillTell
  <2>8. KeepsRemotes(t) /\ KeepsExits(t) /\ KeepsStatus(t)
    BY <1>2, <1>3, <2>2, Different DEF KeepsRemotes, WillHearRemote, KeepsExits, WillExit, KeepsStatus, WillSay
  <2>9. Current(t) => Current(t)'
    BY <1>2, <2>2 DEF Current
  <2> QED BY <1>2, <2>3, <2>5, <2>6, <2>7, <2>8, <2>9, SilentStep
<1>6. CASE ~NextObserver(t)
  <2>1. LocalLoop(t, subject[t], Done(t), active)
    BY <1>2, <1>6 DEF LocalStep
  <2>2. CASE \E b \in active \ (Done(t) \cup {subject[t]}) : Calls(t, "locals", b, 1, Done(t))
    <3>1. PICK c \in active \ (Done(t) \cup {subject[t]}) : Calls(t, "locals", c, 1, Done(t))
      BY <2>2
    <3>2. /\ stage'[t] = "locals" /\ target'[t] = c /\ point'[t] = "call"
          /\ \A u \in Threads : u # t => SameLoop(u)
      BY <1>1, <3>1, CallsSet
    <3>3. \A u \in Threads : u # t => Same(u)
      BY <1>2, <3>2 DEF Same, SameLoop
    <3>4. TypeOK'
      <4>1. LoopTypes'
        BY <1>1, <1>4, <3>1, CallsTyped, Different DEF Stages
      <4> QED BY <1>1, <1>2, <4>1, LoopTyped DEF TypeOK
    <3>5. Doing(t)' /\ Looping(t)'
      BY <1>2, <1>3, <1>4, <3>1, <3>2, Different DEF Doing, Looping, Propagating, Ids
    <3>6. KeepsOwed(t)
      <4> SUFFICES ASSUME NEW a \in active, NEW b \in active, NEW k \in Indices, NEW e \in EventKinds, a # b,
                          Owes(t, a, b, k, e)
                   PROVE  Owes(t, a, b, k, e)'
        BY DEF KeepsOwed
      <4>1. Ahead(t, b, k) => Ahead(t, b, k)'
        BY <1>1, <1>2, <1>6, <3>1, AheadDone, AheadCalls
      <4> QED BY <1>2, <1>3, <3>2, <4>1 DEF Owes, WillHear, WillTell
    <3>7. KeepsRemotes(t) /\ KeepsExits(t) /\ KeepsStatus(t)
      BY <1>2, <1>3, <3>2, Different DEF KeepsRemotes, WillHearRemote, KeepsExits, WillExit, KeepsStatus, WillSay
    <3>8. Current(t) => Current(t)'
      BY <1>2, <3>1, <3>2 DEF Current
    <3> QED BY <1>2, <3>3, <3>4, <3>5, <3>6, <3>7, <3>8, SilentStep
  <2>3. ASSUME active \subseteq Done(t) \cup {subject[t]},
               \/ \E r \in remotes : Calls(t, "remotes", r, 1, {})
               \/ remotes = {} /\ Enters(t, "entered")
        PROVE  EventsInv'
    <3>1. /\ \/ \E r \in remotes : stage'[t] = "remotes" /\ target'[t] = r
             \/ stage'[t] = "entered" /\ target'[t] = Nobody /\ point'[t] = "lock"
          /\ \A u \in Threads : u # t => SameLoop(u)
      BY <1>1, <2>3, CallsSet, EntersSet
    <3>2. \A u \in Threads : u # t => Same(u)
      BY <1>2, <3>1 DEF Same, SameLoop
    <3>3. TypeOK'
      <4>1. LoopTypes'
        <5>1. CASE \E r \in remotes : Calls(t, "remotes", r, 1, {})
          BY <1>1, <1>4, <5>1, CallsTyped, Different DEF Stages
        <5>2. CASE Enters(t, "entered")
          BY <1>1, <5>2, EntersTyped DEF Stages
        <5> QED BY <2>3, <5>1, <5>2
      <4> QED BY <1>1, <1>2, <4>1, LoopTyped DEF TypeOK
    <3>4. Doing(t)' /\ Looping(t)'
      BY <1>2, <1>3, <1>4, <3>1, Different DEF Doing, Looping, Propagating, Ids
    <3>5. KeepsOwed(t)
      <4> SUFFICES ASSUME NEW a \in active, NEW b \in active, NEW k \in Indices, NEW e \in EventKinds, a # b,
                          Owes(t, a, b, k, e)
                   PROVE  Owes(t, a, b, k, e)'
        BY DEF KeepsOwed
      <4>1. ~WillHear(t, a, b, k)
        <5>1. Ahead(t, b, k) => b \notin Done(t)
          BY <1>1, <1>2, <1>6, AheadDone
        <5> QED BY <2>3, <5>1 DEF WillHear
      <4>2. subject[t] = b
        BY <4>1 DEF Owes, WillTell
      <4>3. CASE \E r \in remotes : Calls(t, "remotes", r, 1, {})
        <5>1. stage'[t] = "remotes"
          BY <1>1, <4>3, CallsSet
        <5> QED BY <1>2, <1>3, <4>2, <5>1 DEF Owes, WillTell
      <4>4. CASE Enters(t, "entered")
        <5>1. stage'[t] = "entered" /\ Ahead(t, a, k)'
          BY <1>1, <1>4, <4>4, AheadEnters, EntersSet, Different
        <5> QED BY <1>2, <1>3, <4>2, <5>1 DEF Owes, WillTell
      <4> QED BY <2>3, <4>3, <4>4
    <3>6. KeepsRemotes(t)
      <4> SUFFICES ASSUME NEW a \in active, NEW r \in remotes, WillHearRemote(t, a, r)
                   PROVE  WillHearRemote(t, a, r)'
        BY <1>3, Different DEF KeepsRemotes
      <4>1. PICK s \in remotes : Calls(t, "remotes", s, 1, {})
        BY <2>3
      <4>2. stage'[t] = "remotes" /\ Ahead(t, r, 1)'
        BY <1>1, <4>1, CallsSet, AheadCalls, Different
      <4> QED BY <1>2, <4>2 DEF WillHearRemote
    <3>7. KeepsExits(t) /\ KeepsStatus(t)
      BY <1>2, <1>3, <3>1 DEF KeepsExits, WillExit, KeepsStatus, WillSay
    <3>8. Current(t) => Current(t)'
      BY <1>2, <3>1 DEF Current
    <3> QED BY <1>2, <3>2, <3>3, <3>4, <3>5, <3>6, <3>7, <3>8, SilentStep
  <2> QED BY <2>1, <2>2, <2>3, LocalLoopGoes
<1> QED BY <1>5, <1>6

\* A thread goes on in a loop, goes on with another one, or ends its operation.
LEMMA CallsStep ==
  ASSUME TypeOK, NEW t \in Threads, NEW st \in Stages, NEW x \in Ids, NEW k \in Indices,
         NEW done \in SUBSET Ids, Calls(t, st, x, k, done),
         UNCHANGED <<active, remotes, toldVars, history>>, op' = op, subject' = subject
  PROVE  /\ TypeOK' /\ stage'[t] = st /\ target'[t] = x /\ point'[t] = "call"
         /\ \A u \in Threads : u # t => Same(u)
<1>1. LoopTypes'
  BY CallsTyped
<1>2. TypeOK'
  BY <1>1, LoopTyped DEF TypeOK
<1> QED BY <1>2, CallsSet DEF Same, SameLoop

\* The same when it goes on with another loop.
LEMMA EntersStep ==
  ASSUME TypeOK, NEW t \in Threads, NEW st \in Stages, Enters(t, st),
         UNCHANGED <<active, remotes, toldVars, history>>, op' = op, subject' = subject
  PROVE  /\ TypeOK' /\ stage'[t] = st /\ target'[t] = Nobody /\ point'[t] = "lock"
         /\ \A u \in Threads : u # t => Same(u)
<1>1. LoopTypes'
  BY EntersTyped
<1>2. TypeOK'
  BY <1>1, LoopTyped DEF TypeOK
<1> QED BY <1>2, EntersSet DEF Same, SameLoop

\* The end of an operation that owes nothing.
LEMMA ReturnKeeps ==
  ASSUME EventsInv, NEW t \in Threads, Returns(t), UNCHANGED <<active, remotes, toldVars, history>>,
         \A a, b \in active, k \in Indices, e \in EventKinds : a # b => ~Owes(t, a, b, k, e),
         \A a \in active, r \in remotes : ~WillHearRemote(t, a, r) /\ ~(t = Network /\ WillTellRemote(a, r)),
         \A a \in active, b \in Agents \ active, k \in Indices : ~WillExit(t, a, b, k),
         \A a \in Agents : ~WillSay(t, a)
  PROVE  EventsInv'
<1>1. TypeOK
  BY DEF EventsInv
<1>2. /\ stage'[t] = "idle" /\ op'[t] = "none" /\ point'[t] = "lock" /\ target'[t] = Nobody
      /\ \A u \in Threads : u # t => Same(u)
  BY <1>1, ReturnsSet
<1>3. TypeOK'
  <2>1. LoopTypes'
    BY <1>1, EntersTyped DEF Returns, Stages
  <2>2. /\ op' \in [Threads -> {"none", "activate", "deactivate", "enter", "exit"}]
        /\ subject' \in [Threads -> Ids \cup {Nobody}]
    BY <1>1 DEF Returns, TypeOK
  <2> QED BY <1>1, <2>1, <2>2, LoopTyped
<1>4. Doing(t)' /\ Looping(t)'
  BY <1>2 DEF Doing, Looping, Propagating
<1>5. KeepsOwed(t) /\ KeepsRemotes(t) /\ KeepsExits(t) /\ KeepsStatus(t)
  BY DEF KeepsOwed, KeepsRemotes, KeepsExits, KeepsStatus
<1>6. Current(t)'
  BY <1>2 DEF Current
<1> QED BY <1>2, <1>3, <1>4, <1>5, <1>6, SilentStep

\* It goes on with the remote agents: one observer of it is told about each.
LEMMA RemoteStepKeeps ==
  ASSUME EventsInv, NEW t \in Threads, RemoteStep(t)
  PROVE  EventsInv'
<1>1. TypeOK /\ Doing(t) /\ Looping(t)
  BY DEF EventsInv, Shape
<1>2. /\ stage[t] = "remotes" /\ point[t] = "lock" /\ UNCHANGED <<active, remotes, toldVars, history>>
      /\ op' = op /\ subject' = subject
  BY DEF RemoteStep
<1>3. op[t] = "activate" /\ t \in Users /\ subject[t] \in Agents /\ target[t] \in Remotes
  BY <1>1, <1>2 DEF Doing, Looping
<1>4. active \subseteq Agents /\ remotes \subseteq Remotes /\ Done(t) \subseteq Ids
  BY <1>1, <1>3, Different DEF TypeOK, Done
<1>5. RemoteLoop(t, Done(t))
  <2>1. ~NextObserver(t)
    BY <1>3, <1>4, Different DEF NextObserver
  <2> QED BY <1>2, <2>1 DEF RemoteStep
<1>6. \A r \in remotes : Ahead(t, r, 1) => r \notin Done(t)
  <2> SUFFICES ASSUME NEW r \in remotes, Ahead(t, r, 1) PROVE r \notin Done(t)
    OBVIOUS
  <2>1. observer[t] \in Nat \ {0}
    BY <1>1 DEF TypeOK, Indices
  <2>2. r # target[t]
    BY <1>2, <2>1 DEF Ahead
  <2> QED BY <2>2 DEF Ahead, Done
<1>7. CASE \E r \in remotes \ Done(t) : Calls(t, "remotes", r, 1, Done(t))
  <2>1. PICK s \in remotes \ Done(t) : Calls(t, "remotes", s, 1, Done(t))
    BY <1>7
  <2>2. /\ TypeOK' /\ stage'[t] = "remotes" /\ target'[t] = s /\ point'[t] = "call"
        /\ \A u \in Threads : u # t => Same(u)
    BY <1>1, <1>2, <1>4, <2>1, CallsStep, Different DEF Stages
  <2>3. Doing(t)' /\ Looping(t)'
    BY <1>2, <1>3, <1>4, <2>1, <2>2, Different DEF Doing, Looping, Propagating, Ids
  <2>4. KeepsOwed(t) /\ KeepsExits(t) /\ KeepsStatus(t)
    BY <1>2, <1>3, <2>2 DEF KeepsOwed, Owes, WillHear, WillTell, KeepsExits, WillExit, KeepsStatus, WillSay
  <2>5. KeepsRemotes(t)
    <3> SUFFICES ASSUME NEW a \in active, NEW r \in remotes, WillHearRemote(t, a, r)
                 PROVE  WillHearRemote(t, a, r)'
      BY <1>3, Different DEF KeepsRemotes
    <3>1. Ahead(t, r, 1)
      BY <1>2 DEF WillHearRemote
    <3>2. Ahead(t, r, 1)'
      BY <1>1, <1>6, <2>1, <3>1, AheadCalls, Different
    <3> QED BY <1>2, <2>2, <3>2 DEF WillHearRemote
  <2>6. Current(t) => Current(t)'
    BY <1>2, <2>2 DEF Current
  <2> QED BY <1>2, <2>2, <2>3, <2>4, <2>5, <2>6, SilentStep
<1>8. CASE remotes \ Done(t) = {} /\ Enters(t, "entered")
  <2>1. /\ TypeOK' /\ stage'[t] = "entered" /\ target'[t] = Nobody /\ point'[t] = "lock"
        /\ \A u \in Threads : u # t => Same(u)
    BY <1>1, <1>2, <1>8, EntersStep DEF Stages
  <2>2. Doing(t)' /\ Looping(t)'
    BY <1>2, <1>3, <2>1 DEF Doing, Looping, Propagating
  <2>3. KeepsOwed(t)
    <3> SUFFICES ASSUME NEW a \in active, NEW b \in active, NEW k \in Indices, NEW e \in EventKinds, a # b,
                        Owes(t, a, b, k, e)
                 PROVE  Owes(t, a, b, k, e)'
      BY DEF KeepsOwed
    <3>1. Ahead(t, a, k)'
      BY <1>1, <1>4, <1>8, AheadEnters, Different
    <3> QED BY <1>2, <1>3, <2>1, <3>1 DEF Owes, WillHear, WillTell
  <2>4. KeepsRemotes(t)
    <3> SUFFICES ASSUME NEW a \in active, NEW r \in remotes, WillHearRemote(t, a, r)
                 PROVE  FALSE
      BY <1>3, Different DEF KeepsRemotes
    <3> QED BY <1>2, <1>6, <1>8 DEF WillHearRemote
  <2>5. KeepsExits(t) /\ KeepsStatus(t)
    BY <1>2, <1>3, <2>1 DEF KeepsExits, WillExit, KeepsStatus, WillSay
  <2>6. Current(t) => Current(t)'
    BY <1>2, <2>1 DEF Current
  <2> QED BY <1>2, <2>1, <2>2, <2>3, <2>4, <2>5, <2>6, SilentStep
<1> QED BY <1>5, <1>7, <1>8 DEF RemoteLoop

\* An event is propagated to the agents that are not contacted yet.
LEMMA PropagateStepKeeps ==
  ASSUME EventsInv, NEW t \in Threads, PropagateStep(t)
  PROVE  EventsInv'
<1>1. TypeOK /\ Doing(t) /\ Looping(t)
  BY DEF EventsInv, Shape
<1>2. stage[t] \in Propagating /\ point[t] = "lock" /\ UNCHANGED <<active, remotes, toldVars, history>>
  BY DEF PropagateStep, Propagating
<1>3. /\ target[t] \in (Agents \ {subject[t]}) \cup {Nobody}
      /\ op[t] \in {"activate", "deactivate"} => t \in Users /\ t # Network
      /\ stage[t] \in Stages
  BY <1>1, <1>2, Different DEF Doing, Looping, Propagating, Stages
<1>4. active \subseteq Agents /\ remotes \subseteq Remotes /\ contacted[t] \subseteq Ids /\ Done(t) \subseteq Ids
  BY <1>1, <1>3, Different DEF TypeOK, Done
\* The loop goes on, and reaches all it has not reached yet.
<1>5. ASSUME NEW x \in active \ {subject[t]}, NEW k \in Indices, NEW done \in SUBSET Ids,
             Calls(t, stage[t], x, k, done), op' = op, subject' = subject,
             \A a \in active, j \in Indices : Ahead(t, a, j) => Ahead(t, a, j)'
      PROVE  EventsInv'
  <2>1. /\ TypeOK' /\ stage'[t] = stage[t] /\ target'[t] = x /\ point'[t] = "call"
        /\ \A u \in Threads : u # t => Same(u)
    <3>1. x \in Ids
      BY <1>4, Different
    <3> QED BY <1>1, <1>2, <1>3, <1>5, <3>1, CallsStep
  <2>2. Doing(t)' /\ Looping(t)'
    BY <1>1, <1>2, <1>4, <1>5, <2>1, Different DEF Doing, Looping, Propagating, Ids
  <2>3. KeepsOwed(t)
    BY <1>2, <1>5, <2>1 DEF KeepsOwed, Owes, WillHear, WillTell, Propagating
  <2>4. KeepsRemotes(t)
    BY <1>2, <1>5, <2>1, Different DEF KeepsRemotes, WillHearRemote, WillTellRemote, Propagating
  <2>5. KeepsExits(t) /\ KeepsStatus(t)
    BY <1>2, <1>5, <2>1 DEF KeepsExits, WillExit, KeepsStatus, WillSay, Propagating
  <2>6. Current(t) => Current(t)'
    BY <1>2, <1>5, <2>1 DEF Current, Propagating
  <2> QED BY <1>2, <1>5, <2>1, <2>2, <2>3, <2>4, <2>5, <2>6, SilentStep
<1>6. CASE NextObserver(t)
  <2>1. Calls(t, stage[t], target[t], observer[t] + 1, contacted[t]) /\ op' = op /\ subject' = subject
    BY <1>6 DEF PropagateStep
  <2>2. target[t] \in active \ {subject[t]}
    BY <1>3, <1>4, <1>6, Different DEF NextObserver
  <2>3. observer[t] + 1 \in Indices
    BY <1>1, <1>6, Different DEF NextObserver, TypeOK, Indices
  <2>4. \A a \in active, j \in Indices : Ahead(t, a, j) => Ahead(t, a, j)'
    BY <1>1, <1>2, <2>1, AheadNext
  <2> QED BY <1>4, <1>5, <2>1, <2>2, <2>3, <2>4
<1>7. CASE ~NextObserver(t) /\ Uncontacted(Done(t), subject[t]) # {}
  <2>1. /\ \E b \in Uncontacted(Done(t), subject[t]) : Calls(t, stage[t], b, 1, Done(t))
        /\ op' = op /\ subject' = subject
    BY <1>7 DEF PropagateStep
  <2>2. PICK c \in Uncontacted(Done(t), subject[t]) : Calls(t, stage[t], c, 1, Done(t))
    BY <2>1
  <2>3. c \in active \ {subject[t]}
    BY DEF Uncontacted
  <2>4. \A a \in active, j \in Indices : Ahead(t, a, j) => Ahead(t, a, j)'
    BY <1>1, <1>2, <1>7, <2>2, AheadDone, AheadCalls
  <2> QED BY <1>4, <1>5, <2>1, <2>2, <2>3, <2>4, Different
\* The loop is over: nothing of it is ahead.
<1>8. CASE ~NextObserver(t) /\ Uncontacted(Done(t), subject[t]) = {}
  <2>1. \A a \in active \ {subject[t]}, j \in Indices : ~Ahead(t, a, j)
    <3> SUFFICES ASSUME NEW a \in active \ {subject[t]}, NEW j \in Indices, Ahead(t, a, j) PROVE FALSE
      OBVIOUS
    <3>1. a \notin Done(t)
      BY <1>1, <1>2, <1>8, AheadDone
    <3> QED BY <1>8, <3>1 DEF Uncontacted
  <2>2. AfterPropagation(t)
    BY <1>8 DEF PropagateStep
  <2>3. CASE stage[t] = "entered" /\ op[t] = "activate"
    <3>1. Enters(t, "knows") /\ op' = op /\ subject' = subject
      BY <2>2, <2>3 DEF AfterPropagation
    <3>2. /\ TypeOK' /\ stage'[t] = "knows" /\ target'[t] = Nobody /\ point'[t] = "lock"
          /\ \A u \in Threads : u # t => Same(u)
      BY <1>1, <1>2, <3>1, EntersStep DEF Stages
    <3>3. Doing(t)' /\ Looping(t)'
      BY <1>1, <1>2, <2>3, <3>1, <3>2 DEF Doing, Looping, Propagating
    <3>4. KeepsOwed(t)
      <4> SUFFICES ASSUME NEW a \in active, NEW b \in active, NEW k \in Indices, NEW e \in EventKinds, a # b,
                          Owes(t, a, b, k, e)
                   PROVE  Owes(t, a, b, k, e)'
        BY DEF KeepsOwed
      <4>1. subject[t] = b /\ e = "KNOWS_US"
        BY <2>1, <2>3 DEF Owes, WillHear, WillTell
      <4>2. Ahead(t, a, k)'
        BY <1>1, <1>4, <3>1, AheadEnters, Different
      <4> QED BY <2>3, <3>1, <3>2, <4>1, <4>2 DEF Owes, WillTell
    <3>5. KeepsRemotes(t) /\ KeepsExits(t) /\ KeepsStatus(t)
      BY <1>3, <2>3, <3>1, <3>2 DEF KeepsRemotes, WillHearRemote, KeepsExits, WillExit, KeepsStatus, WillSay
    <3>6. Current(t) => Current(t)'
      BY <1>2, <3>1, <3>2 DEF Current
    <3> QED BY <1>2, <3>1, <3>2, <3>3, <3>4, <3>5, <3>6, SilentStep
  <2>4. CASE stage[t] = "knows"
    <3>1. Enters(t, "observers") /\ op' = op /\ subject' = subject
      BY <2>2, <2>4 DEF AfterPropagation
    <3>2. /\ TypeOK' /\ stage'[t] = "observers" /\ target'[t] = Nobody /\ point'[t] = "lock"
          /\ \A u \in Threads : u # t => Same(u)
      BY <1>1, <1>2, <3>1, EntersStep DEF Stages
    <3>3. op[t] = "activate"
      BY <1>1, <2>4 DEF Doing
    <3>4. Doing(t)' /\ Looping(t)'
      BY <1>1, <1>2, <2>4, <3>1, <3>2 DEF Doing, Looping, Propagating
    <3>5. KeepsOwed(t)
      BY <2>1, <2>4 DEF KeepsOwed, Owes, WillHear, WillTell
    <3>6. KeepsRemotes(t) /\ KeepsExits(t) /\ KeepsStatus(t)
      BY <1>3, <2>4, <3>1, <3>2, <3>3 DEF KeepsRemotes, WillHearRemote, KeepsExits, WillExit, KeepsStatus, WillSay
    <3>7. Current(t) => Current(t)'
      BY <1>2, <3>1, <3>2 DEF Current
    <3> QED BY <1>2, <3>1, <3>2, <3>4, <3>5, <3>6, <3>7, SilentStep
  <2>5. CASE (stage[t] = "entered" /\ op[t] # "activate") \/ stage[t] = "exited"
    <3>1. Returns(t)
      BY <2>2, <2>5 DEF AfterPropagation
    <3>2. /\ op[t] # "activate"
          /\ op[t] = "enter" => subject[t] \in remotes
          /\ op[t] = "deactivate" => stage[t] = "exited"
      BY <1>1, <2>5 DEF Doing
    <3>3. \A a \in active, b \in active, k \in Indices, e \in EventKinds : a # b => ~Owes(t, a, b, k, e)
      BY <3>2 DEF Owes, WillHear, WillTell
    <3>4. ASSUME NEW a \in active, NEW r \in remotes
          PROVE  ~WillHearRemote(t, a, r) /\ ~(t = Network /\ WillTellRemote(a, r))
      <4>1. a # r
        BY <1>4, Different
      <4>2. t = Network /\ WillTellRemote(a, r) => FALSE
        BY <2>1, <4>1, Different DEF WillTellRemote
      <4> QED BY <3>2, <4>2 DEF WillHearRemote
    <3>5. \A a \in active, b \in Agents \ active, k \in Indices : ~WillExit(t, a, b, k)
      BY <2>1, <2>5 DEF WillExit
    <3>6. \A a \in Agents : ~WillSay(t, a)
      BY <2>5, <3>2 DEF WillSay
    <3> QED BY <1>2, <3>1, <3>3, <3>4, <3>5, <3>6, ReturnKeeps
  <2> QED BY <1>2, <2>3, <2>4, <2>5 DEF Propagating
<1> QED BY <1>6, <1>7, <1>8

\* The activation callbacks are called, or have been called.
LEMMA ObserversStepKeeps ==
  ASSUME EventsInv, NEW t \in Threads, ObserversStep(t)
  PROVE  EventsInv'
<1>1. TypeOK /\ Doing(t) /\ Looping(t)
  BY DEF EventsInv, Shape
<1>2. stage[t] = "observers" /\ point[t] = "lock" /\ UNCHANGED <<active, remotes, toldVars, history>>
  BY DEF ObserversStep
<1>3. op[t] \in {"activate", "deactivate"} /\ t \in Users /\ t # Network /\ subject[t] \in Agents
  BY <1>1, <1>2, Different DEF Doing
<1>4. active \subseteq Agents
  BY <1>1 DEF TypeOK
<1>5. CASE target[t] = Nobody
  <2>1. Calls(t, "observers", subject[t], 1, {}) /\ op' = op /\ subject' = subject
    BY <1>5 DEF ObserversStep
  <2>2. /\ TypeOK' /\ stage'[t] = "observers" /\ target'[t] = subject[t] /\ point'[t] = "call"
        /\ \A u \in Threads : u # t => Same(u)
    <3>1. "observers" \in Stages /\ subject[t] \in Ids /\ 1 \in Indices /\ {} \in SUBSET Ids
      BY <1>3, Different DEF Stages
    <3> QED BY <1>1, <1>2, <2>1, <3>1, CallsStep
  <2>3. Doing(t)' /\ Looping(t)'
    BY <1>1, <1>2, <1>3, <2>1, <2>2, Different DEF Doing, Looping, Propagating, Ids
  <2>4. KeepsOwed(t) /\ KeepsRemotes(t)
    BY <1>2, <1>3 DEF KeepsOwed, Owes, WillHear, WillTell, KeepsRemotes, WillHearRemote
  <2>5. KeepsExits(t) /\ KeepsStatus(t)
    BY <1>2, <1>3, <2>1, <2>2 DEF KeepsExits, WillExit, KeepsStatus, WillSay
  <2>6. Current(t) => Current(t)'
    BY <1>2, <2>1, <2>2 DEF Current
  <2> QED BY <1>2, <2>1, <2>2, <2>3, <2>4, <2>5, <2>6, SilentStep
<1>6. CASE target[t] # Nobody /\ op[t] = "deactivate"
  <2>1. Enters(t, "exited") /\ op' = op /\ subject' = subject
    BY <1>6 DEF ObserversStep
  <2>2. /\ TypeOK' /\ stage'[t] = "exited" /\ target'[t] = Nobody /\ point'[t] = "lock"
        /\ \A u \in Threads : u # t => Same(u)
    BY <1>1, <1>2, <2>1, EntersStep DEF Stages
  <2>3. Doing(t)' /\ Looping(t)'
    BY <1>3, <1>6, <2>1, <2>2 DEF Doing, Looping, Propagating
  <2>4. KeepsOwed(t) /\ KeepsRemotes(t)
    BY <1>2, <1>3 DEF KeepsOwed, Owes, WillHear, WillTell, KeepsRemotes, WillHearRemote
  <2>5. KeepsExits(t)
    <3>1. \A a \in active, k \in Indices : Ahead(t, a, k)'
      BY <1>1, <1>4, <2>1, AheadEnters, Different
    <3> QED BY <1>6, <2>1, <2>2, <3>1 DEF KeepsExits, WillExit
  <2>6. KeepsStatus(t)
    BY <1>2, <1>6 DEF KeepsStatus, WillSay
  <2>7. Current(t) => Current(t)'
    BY <1>2, <2>1, <2>2 DEF Current
  <2> QED BY <1>2, <2>1, <2>2, <2>3, <2>4, <2>5, <2>6, <2>7, SilentStep
<1>7. CASE target[t] # Nobody /\ op[t] # "deactivate"
  <2>1. Returns(t) /\ op[t] = "activate"
    BY <1>3, <1>7 DEF ObserversStep
  <2>2. /\ \A a \in active, b \in active, k \in Indices, e \in EventKinds : a # b => ~Owes(t, a, b, k, e)
        /\ \A a \in active, r \in remotes : ~WillHearRemote(t, a, r) /\ ~(t = Network /\ WillTellRemote(a, r))
        /\ \A a \in active, b \in Agents \ active, k \in Indices : ~WillExit(t, a, b, k)
        /\ \A a \in Agents : ~WillSay(t, a)
    BY <1>2, <1>3, <1>7 DEF Owes, WillHear, WillTell, WillHearRemote, WillExit, WillSay
  <2> QED BY <1>2, <2>1, <2>2, ReturnKeeps
<1> QED BY <1>5, <1>6, <1>7

-----------------------------------------------------------------------------
(***************************************************************************)
(* Observers are called.                                                   *)
(***************************************************************************)
\* One observer is told one thing; all else that is believed stays.
LEMMA CallEventSet ==
  ASSUME EventsInv, NEW t \in Threads, CallEvent(t)
  PROVE  /\ Listener(t) \in Agents /\ About(t) \in Ids /\ Listener(t) # About(t) /\ TypeOK'
         /\ \A a \in Agents, k \in Indices :
              /\ told[a][k] \subseteq told'[a][k]
              /\ a = Listener(t) /\ k = observer[t] => Events(stage[t]) \X {About(t)} \subseteq told'[a][k]
              /\ \A b : b \in view'[a][k] /\ b \notin view[a][k] =>
                   /\ a = Listener(t) /\ b = About(t) /\ stage[t] \in {"locals", "remotes", "entered"}
              /\ \A b : b \notin view'[a][k] /\ b \in view[a][k] => b = About(t) /\ stage[t] = "exited"
              /\ a = Listener(t) /\ k = observer[t] =>
                   /\ stage[t] \in {"locals", "remotes", "entered"} => About(t) \in view'[a][k]
                   /\ stage[t] = "exited" => About(t) \notin view'[a][k]
<1>1. TypeOK /\ Doing(t) /\ Looping(t)
  BY DEF EventsInv, Shape
<1>2. /\ point[t] = "call" /\ stage[t] \in {"locals", "remotes", "entered", "knows", "exited"}
      /\ point' = [point EXCEPT ![t] = "lock"]
      /\ UNCHANGED <<active, remotes, op, subject, stage, target, observer, contacted, status, history>>
  BY <1>1 DEF CallEvent, TypeOK, Looping
<1> DEFINE x == Listener(t)
           b0 == About(t)
           k0 == observer[t]
           seen == IF stage[t] = "exited" THEN view[x][k0] \ {b0}
                   ELSE IF "ENTERED" \in Events(stage[t]) THEN view[x][k0] \cup {b0}
                   ELSE view[x][k0]
           tells == told[x][k0] \cup (Events(stage[t]) \X {b0})
<1>3. x \in Agents /\ b0 \in Ids /\ x # b0 /\ k0 \in Indices
  <2>1. CASE stage[t] \in {"locals", "remotes"}
    BY <1>1, <2>1, Different DEF Listener, About, Doing, Looping, TypeOK, Ids
  <2>2. CASE stage[t] \in Propagating
    BY <1>1, <1>2, <2>2, Different DEF Listener, About, Doing, Looping, TypeOK, Ids, Propagating
  <2> QED BY <1>2, <2>1, <2>2 DEF Propagating
<1>4. view' = [view EXCEPT ![x][k0] = seen] /\ told' = [told EXCEPT ![x][k0] = tells]
  BY DEF CallEvent
<1>5. /\ "ENTERED" \in Events(stage[t]) <=> stage[t] \in {"locals", "remotes", "entered"}
      /\ Events(stage[t]) \subseteq EventKinds
  BY <1>2 DEF Events, EventKinds
<1>6. view \in [Agents -> [Indices -> SUBSET Ids]] /\ told \in [Agents -> [Indices -> SUBSET (EventKinds \X Ids)]]
  BY <1>1 DEF TypeOK, EventKinds
<1> HIDE DEF x, b0, k0
<1>7. seen \in SUBSET Ids /\ tells \in SUBSET (EventKinds \X Ids)
  <2>1. seen \in SUBSET Ids
    BY <1>3, <1>6
  <2>2. told[x][k0] \in SUBSET (EventKinds \X Ids)
    BY <1>3, <1>6
  <2>3. Events(stage[t]) \X {b0} \in SUBSET (EventKinds \X Ids)
    BY <1>3, <1>5
  <2> QED BY <2>1, <2>2, <2>3
<1>8. /\ TypeOK'
      /\ \A a \in Agents, k \in Indices :
           /\ view'[a][k] = IF a = x /\ k = k0 THEN seen ELSE view[a][k]
           /\ told'[a][k] = IF a = x /\ k = k0 THEN tells ELSE told[a][k]
  <2> HIDE DEF seen, tells
  <2>1. view' \in [Agents -> [Indices -> SUBSET Ids]]
    BY <1>3, <1>4, <1>6, <1>7
  <2>2. told' \in [Agents -> [Indices -> SUBSET (EventKinds \X Ids)]]
    <3> DEFINE S == SUBSET (EventKinds \X Ids)
    <3>1. told \in [Agents -> [Indices -> S]] /\ tells \in S
      BY <1>6, <1>7
    <3> HIDE DEF S
    <3>2. told' \in [Agents -> [Indices -> S]]
      BY <1>3, <1>4, <3>1
    <3> QED BY <3>2 DEF S
  <2>3. ASSUME NEW a \in Agents, NEW k \in Indices
        PROVE  view'[a][k] = IF a = x /\ k = k0 THEN seen ELSE view[a][k]
    BY <1>3, <1>4, <1>6
  <2>4. ASSUME NEW a \in Agents, NEW k \in Indices
        PROVE  told'[a][k] = IF a = x /\ k = k0 THEN tells ELSE told[a][k]
    <3> DEFINE S == SUBSET (EventKinds \X Ids)
    <3>1. told \in [Agents -> [Indices -> S]]
      BY <1>6
    <3> HIDE DEF S
    <3> QED BY <1>3, <1>4, <3>1
  <2>5. TypeOK'
    BY <1>1, <1>2, <2>1, <2>2 DEF TypeOK, EventKinds, history
  <2> QED BY <2>3, <2>4, <2>5
<1>9. ASSUME NEW a \in Agents, NEW k \in Indices
      PROVE  /\ told[a][k] \subseteq told'[a][k]
             /\ a = x /\ k = k0 => Events(stage[t]) \X {b0} \subseteq told'[a][k]
             /\ \A b : b \in view'[a][k] /\ b \notin view[a][k] =>
                  /\ a = x /\ b = b0 /\ stage[t] \in {"locals", "remotes", "entered"}
             /\ \A b : b \notin view'[a][k] /\ b \in view[a][k] => b = b0 /\ stage[t] = "exited"
             /\ a = x /\ k = k0 =>
                  /\ stage[t] \in {"locals", "remotes", "entered"} => b0 \in view'[a][k]
                  /\ stage[t] = "exited" => b0 \notin view'[a][k]
  <2>1. CASE a = x /\ k = k0
    <3>1. view'[a][k] = seen /\ told'[a][k] = tells /\ view[a][k] = view[x][k0] /\ told[a][k] = told[x][k0]
      BY <1>8, <2>1
    <3> QED BY <1>5, <2>1, <3>1
  <2>2. CASE ~(a = x /\ k = k0)
    <3>1. view'[a][k] = view[a][k] /\ told'[a][k] = told[a][k]
      BY <1>8, <2>2
    <3> QED BY <2>2, <3>1
  <2> QED BY <2>1, <2>2
<1> QED BY <1>3, <1>8, <1>9 DEF x, b0, k0

\* What the observer was told is not owed to it any more, and nothing else is lost.
LEMMA CallEventKeeps ==
  ASSUME EventsInv, NEW t \in Threads, CallEvent(t)
  PROVE  EventsInv'
<1>1. /\ TypeOK /\ Shape /\ ToldOrOwed /\ RemotesSeenOrOwed /\ TakingTurns /\ Doing(t) /\ Looping(t)
  BY DEF EventsInv, Shape
<1>2. /\ point[t] = "call" /\ stage[t] \in {"locals", "remotes", "entered", "knows", "exited"}
      /\ point' = [point EXCEPT ![t] = "lock"] /\ point'[t] = "lock"
      /\ active' = active /\ remotes' = remotes /\ op' = op /\ subject' = subject /\ stage' = stage
      /\ target' = target /\ observer' = observer /\ contacted' = contacted /\ status' = status
      /\ overlapped' = overlapped
  BY <1>1 DEF CallEvent, TypeOK, Looping, history
<1>3. \A u \in Threads : u # t => Same(u)
  BY <1>1, <1>2 DEF Same, TypeOK
<1>4. active \subseteq Agents /\ remotes \subseteq Remotes /\ Users \subseteq Threads /\ Network \in Threads
      /\ Network \notin Users /\ 1 \in Indices
  BY <1>1, Different DEF TypeOK
<1>5. TypeOK'
  BY CallEventSet
<1>6. Shape'
  <2>1. Doing(t)' /\ Looping(t)'
    BY <1>1, <1>2 DEF Doing, Looping
  <2>2. \A u \in Threads : u # t => Doing(u)' /\ Looping(u)'
    BY <1>1, <1>2, <1>3, SameOwes DEF Shape
  <2> QED BY <2>1, <2>2 DEF Shape
<1>7. \A x, k : Ahead(t, x, k) /\ ~(x = target[t] /\ k = observer[t]) => Ahead(t, x, k)'
  BY <1>2 DEF Ahead
\* What it owes no more has been said.
<1>8. ASSUME NEW a \in active, NEW b \in active, NEW k \in Indices, NEW e \in EventKinds, Owed(a, b, k, e)
      PROVE  \/ Owed(a, b, k, e)'
             \/ a = Listener(t) /\ b = About(t) /\ k = observer[t] /\ e \in Events(stage[t])
  <2>1. PICK u \in Users : Owes(u, a, b, k, e)
    BY <1>8 DEF Owed
  <2>2. CASE u # t
    BY <1>3, <1>4, <2>1, <2>2, SameOwes DEF Owed
  <2>3. CASE u = t
    <3>1. CASE WillHear(t, a, b, k)
      BY <1>2, <1>7, <2>3, <3>1 DEF WillHear, Owed, Owes, Listener, About, Events, EventKinds
    <3>2. CASE WillTell(t, a, b, k, e)
      <4>1. CASE stage[t] \in {"locals", "remotes"}
        BY <1>2, <2>3, <3>2, <4>1 DEF WillTell, Owed, Owes
      <4>2. CASE stage[t] = "entered" /\ e = "KNOWS_US"
        BY <1>2, <2>3, <3>2, <4>2 DEF WillTell, Owed, Owes
      <4>3. CASE stage[t] = "entered" /\ e = "ENTERED"
        BY <1>2, <1>7, <2>3, <3>2, <4>3 DEF WillTell, Owed, Owes, Listener, About, Events
      <4>4. CASE stage[t] = "knows"
        BY <1>2, <1>7, <2>3, <3>2, <4>4 DEF WillTell, Owed, Owes, Listener, About, Events
      <4> QED BY <3>2, <4>1, <4>2, <4>3, <4>4 DEF WillTell, EventKinds
    <3> QED BY <2>1, <2>3, <3>1, <3>2 DEF Owes
  <2> QED BY <2>2, <2>3
<1>9. ToldOrOwed'
  <2> SUFFICES ASSUME NEW a \in active, NEW b \in active, NEW k \in Indices, NEW e \in EventKinds, a # b
               PROVE  <<e, b>> \in told'[a][k] \/ Owed(a, b, k, e)'
    BY <1>2 DEF ToldOrOwed
  <2>1. CASE <<e, b>> \in told[a][k]
    BY <1>4, <2>1, CallEventSet
  <2>2. CASE Owed(a, b, k, e)
    <3>1. ASSUME a = Listener(t), b = About(t), k = observer[t], e \in Events(stage[t])
          PROVE  <<e, b>> \in told'[a][k]
      BY <1>4, <3>1, CallEventSet
    <3> QED BY <1>8, <2>2, <3>1
  <2> QED BY <1>1, <2>1, <2>2 DEF ToldOrOwed
<1>10. RemotesSeenOrOwed'
  <2> SUFFICES ASSUME NEW a \in active, NEW r \in remotes
               PROVE  \/ r \in view'[a][1]
                      \/ (\E u \in Users : WillHearRemote(u, a, r)') \/ WillTellRemote(a, r)'
    BY <1>2 DEF RemotesSeenOrOwed
  <2>1. CASE r \in view[a][1]
    <3>1. stage[t] = "exited" => About(t) # r
      BY <1>1, <1>4, Different DEF About, Doing
    <3> QED BY <1>4, <2>1, <3>1, CallEventSet
  <2>2. ASSUME a = Listener(t), r = About(t), 1 = observer[t], stage[t] \in {"remotes", "entered"}
        PROVE  r \in view'[a][1]
    BY <1>4, <2>2, CallEventSet
  <2>3. ASSUME NEW u \in Users, WillHearRemote(u, a, r)
        PROVE  WillHearRemote(u, a, r)' \/ r \in view'[a][1]
    <3>1. CASE u # t
      BY <1>3, <1>4, <2>3, <3>1, SameOwes
    <3>2. CASE u = t
      BY <1>2, <1>7, <2>2, <2>3, <3>2 DEF WillHearRemote, Listener, About
    <3> QED BY <3>1, <3>2
  <2>4. ASSUME WillTellRemote(a, r) PROVE WillTellRemote(a, r)' \/ r \in view'[a][1]
    <3>1. CASE Network # t
      BY <1>3, <1>4, <2>4, <3>1, SameOwes
    <3>2. CASE Network = t
      <4>1. stage[t] = "entered"
        BY <1>1, <2>4, <3>2 DEF WillTellRemote, Doing
      <4> QED BY <1>2, <1>7, <2>2, <2>4, <3>2, <4>1 DEF WillTellRemote, Listener, About
    <3> QED BY <3>1, <3>2
  <2> QED BY <1>1, <2>1, <2>3, <2>4 DEF RemotesSeenOrOwed
<1>11. ASSUME ~overlapped PROVE OneByOne' /\ (\A u \in Users : Current(u)') /\ ViewsOrOwed' /\ StatusOrOwed'
  <2>1. OneByOne /\ (\A u \in Users : Current(u)) /\ ViewsOrOwed /\ StatusOrOwed
    BY <1>1, <1>11 DEF TakingTurns
  <2>2. OneByOne' /\ (\A u \in Users : Current(u)')
    BY <1>2, <2>1 DEF OneByOne, Current
  <2>3. ASSUME NEW a \in active, NEW b \in active, NEW k \in Indices, a # b
        PROVE  b \in view'[a][k] \/ Owed(a, b, k, "ENTERED")'
    <3>1. CASE b \in view[a][k]
      <4>1. stage[t] = "exited" => About(t) # b
        BY <1>1, <1>4, <2>1, Different DEF About, Doing, Current
      <4> QED BY <1>4, <3>1, <4>1, CallEventSet
    <3>2. CASE Owed(a, b, k, "ENTERED")
      <4>1. ASSUME a = Listener(t), b = About(t), k = observer[t], "ENTERED" \in Events(stage[t])
            PROVE  b \in view'[a][k]
        <5>1. stage[t] \in {"locals", "remotes", "entered"}
          BY <1>2, <4>1 DEF Events
        <5> QED BY <1>4, <4>1, <5>1, CallEventSet
      <4>2. "ENTERED" \in EventKinds
        BY DEF EventKinds
      <4> QED BY <1>8, <3>2, <4>1, <4>2
    <3> QED BY <2>1, <2>3, <3>1, <3>2 DEF ViewsOrOwed
  <2>4. ASSUME NEW a \in active, NEW b \in Agents \ active, NEW k \in Indices
        PROVE  b \notin view'[a][k] \/ \E u \in Users : WillExit(u, a, b, k)'
    <3>1. CASE b \notin view[a][k]
      <4>1. stage[t] \in {"locals", "remotes", "entered"} => About(t) # b
        BY <1>1, <1>4, <2>1, Different DEF About, Doing, Looping, Current
      <4> QED BY <1>4, <3>1, <4>1, CallEventSet
    <3>2. ASSUME NEW u \in Users, WillExit(u, a, b, k)
          PROVE  b \notin view'[a][k] \/ WillExit(u, a, b, k)'
      <4>1. CASE u # t
        BY <1>3, <1>4, <3>2, <4>1, SameOwes
      <4>2. CASE u = t
        <5>1. stage[t] = "exited" /\ op[t] = "deactivate" /\ subject[t] = b /\ Ahead(t, a, k)
          BY <1>2, <3>2, <4>2 DEF WillExit
        <5>2. CASE a = target[t] /\ k = observer[t]
          <6>1. a = Listener(t) /\ b = About(t)
            BY <5>1, <5>2 DEF Listener, About
          <6> QED BY <1>4, <5>1, <5>2, <6>1, CallEventSet
        <5>3. CASE ~(a = target[t] /\ k = observer[t])
          BY <1>2, <1>7, <4>2, <5>1, <5>3 DEF WillExit
        <5> QED BY <5>2, <5>3
      <4> QED BY <4>1, <4>2
    <3> QED BY <2>1, <3>1, <3>2 DEF ViewsOrOwed
  <2>5. \A a \in active, k \in Indices : a \notin view'[a][k]
    BY <1>4, <2>1, CallEventSet DEF ViewsOrOwed
  <2>6. ViewsOrOwed'
    BY <1>2, <2>3, <2>4, <2>5 DEF ViewsOrOwed
  <2>7. StatusOrOwed'
    <3>1. \A u \in Users, a \in Agents : WillSay(u, a) => WillSay(u, a)'
      <4>1. \A a \in Agents : WillSay(t, a) => WillSay(t, a)'
        BY <1>2 DEF WillSay
      <4> QED BY <1>3, <1>4, <4>1, SameOwes
    <3> QED BY <1>2, <2>1, <3>1 DEF StatusOrOwed
  <2> QED BY <2>2, <2>6, <2>7
<1>12. TakingTurns'
  BY <1>2, <1>11 DEF TakingTurns
<1> QED BY <1>5, <1>6, <1>9, <1>10, <1>12 DEF EventsInv

\* An activation callback is called.
LEMMA CallActivationKeeps ==
  ASSUME EventsInv, NEW t \in Threads, CallActivation(t)
  PROVE  EventsInv'
<1>1. /\ TypeOK /\ Shape /\ ToldOrOwed /\ RemotesSeenOrOwed /\ TakingTurns /\ Doing(t) /\ Looping(t)
  BY DEF EventsInv, Shape
<1>2. /\ point[t] = "call" /\ stage[t] = "observers"
      /\ status' = [status EXCEPT ![subject[t]] = op[t] = "activate"]
      /\ point' = [point EXCEPT ![t] = "lock"] /\ point'[t] = "lock"
      /\ active' = active /\ remotes' = remotes /\ op' = op /\ subject' = subject /\ stage' = stage
      /\ target' = target /\ observer' = observer /\ contacted' = contacted
      /\ view' = view /\ told' = told /\ overlapped' = overlapped /\ ops' = ops
  BY <1>1 DEF CallActivation, TypeOK, history
<1>3. \A u \in Threads : u # t => Same(u)
  BY <1>1, <1>2 DEF Same, TypeOK
<1>4. Users \subseteq Threads /\ Network \in Threads /\ Network \notin Users
  BY Different
<1>5. op[t] \in {"activate", "deactivate"} /\ t \in Users /\ subject[t] \in Agents
  BY <1>1, <1>2 DEF Doing
<1>6. TypeOK'
  BY <1>1, <1>2, <1>5 DEF TypeOK
<1>7. Shape'
  <2>1. Doing(t)' /\ Looping(t)'
    BY <1>1, <1>2 DEF Doing, Looping
  <2>2. \A u \in Threads : u # t => Doing(u)' /\ Looping(u)'
    BY <1>1, <1>2, <1>3, SameOwes DEF Shape
  <2> QED BY <2>1, <2>2 DEF Shape
<1>8. \A u \in Users :
        /\ \A a, b, k, e : Owes(u, a, b, k, e) => Owes(u, a, b, k, e)'
        /\ \A a, r : WillHearRemote(u, a, r) => WillHearRemote(u, a, r)'
        /\ \A a, b, k : WillExit(u, a, b, k) => WillExit(u, a, b, k)'
  <2>1. /\ \A a, b, k, e : Owes(t, a, b, k, e) => Owes(t, a, b, k, e)'
        /\ \A a, r : WillHearRemote(t, a, r) => WillHearRemote(t, a, r)'
        /\ \A a, b, k : WillExit(t, a, b, k) => WillExit(t, a, b, k)'
    BY <1>2 DEF Owes, WillHear, WillTell, WillHearRemote, WillExit
  <2> QED BY <1>3, <1>4, <2>1, SameOwes
<1>9. ToldOrOwed'
  BY <1>1, <1>2, <1>8 DEF ToldOrOwed, Owed
<1>10. RemotesSeenOrOwed'
  <2>1. \A a, r : WillTellRemote(a, r) => WillTellRemote(a, r)'
    BY <1>3, <1>4, <1>5, SameOwes
  <2> QED BY <1>1, <1>2, <1>8, <2>1 DEF RemotesSeenOrOwed
<1>11. ASSUME ~overlapped PROVE OneByOne' /\ (\A u \in Users : Current(u)') /\ ViewsOrOwed' /\ StatusOrOwed'
  <2>1. OneByOne /\ (\A u \in Users : Current(u)) /\ ViewsOrOwed /\ StatusOrOwed
    BY <1>1, <1>11 DEF TakingTurns
  <2>2. OneByOne' /\ (\A u \in Users : Current(u)')
    BY <1>2, <2>1 DEF OneByOne, Current
  <2>3. ViewsOrOwed'
    BY <1>2, <1>8, <2>1 DEF ViewsOrOwed, Owed
  <2>4. ASSUME NEW a \in Agents
        PROVE  status'[a] = (a \in active) \/ \E u \in Users : WillSay(u, a)'
    <3>1. CASE a = subject[t]
      <4>1. status'[a] = (op[t] = "activate")
        BY <1>1, <1>2, <1>5, <3>1 DEF TypeOK
      <4>2. (op[t] = "activate") = (a \in active)
        BY <1>5, <2>1, <3>1 DEF Current
      <4> QED BY <4>1, <4>2
    <3>2. CASE a # subject[t]
      <4>1. status'[a] = status[a]
        BY <1>1, <1>2, <3>2 DEF TypeOK
      <4>2. \A u \in Users : WillSay(u, a) => WillSay(u, a)'
        BY <1>3, <1>4, <3>2, SameOwes DEF WillSay
      <4> QED BY <2>1, <4>1, <4>2 DEF StatusOrOwed
    <3> QED BY <3>1, <3>2
  <2>5. StatusOrOwed'
    BY <1>2, <2>4 DEF StatusOrOwed
  <2> QED BY <2>2, <2>3, <2>5
<1>12. TakingTurns'
  BY <1>2, <1>11 DEF TakingTurns
<1> QED BY <1>6, <1>7, <1>9, <1>10, <1>12 DEF EventsInv

-----------------------------------------------------------------------------
(***************************************************************************)
(* Operations start.                                                       *)
(***************************************************************************)
\* A thread that starts owed nothing; the others owe what they owed.
LEMMA StartsSet ==
  ASSUME TypeOK, Shape, NEW t \in Threads, NEW name \in {"activate", "deactivate", "enter", "exit"},
         NEW x \in Ids, Starts(t, name, x), \A u \in Threads : u # t => SameLoop(u)
  PROVE  /\ op[t] = "none" /\ op'[t] = name /\ subject'[t] = x
         /\ op' \in [Threads -> {"none", "activate", "deactivate", "enter", "exit"}]
         /\ subject' \in [Threads -> Ids \cup {Nobody}]
         /\ ops' \in Nat /\ overlapped' \in BOOLEAN
         /\ \A u \in Threads : u # t => Same(u)
         /\ \A a, b, k, e : Owed(a, b, k, e) => Owed(a, b, k, e)'
         /\ \A a, r : (\E u \in Users : WillHearRemote(u, a, r)) => (\E u \in Users : WillHearRemote(u, a, r)')
         /\ t # Network => \A a, r : WillTellRemote(a, r) => WillTellRemote(a, r)'
<1>1. /\ op[t] = "none" /\ op'[t] = name /\ subject'[t] = x
      /\ op' \in [Threads -> {"none", "activate", "deactivate", "enter", "exit"}]
      /\ subject' \in [Threads -> Ids \cup {Nobody}]
      /\ ops' \in Nat
      /\ \A u \in Threads : u # t => op'[u] = op[u] /\ subject'[u] = subject[u]
  BY DEF Starts, TypeOK
<1>2. overlapped' \in BOOLEAN
  BY DEF Starts, TypeOK
<1>3. \A u \in Threads : u # t => Same(u)
  BY <1>1 DEF Same, SameLoop
<1>4. \A a, b, k, e : Owed(a, b, k, e) => Owed(a, b, k, e)'
  <2> SUFFICES ASSUME NEW a, NEW b, NEW k, NEW e, NEW u \in Users, Owes(u, a, b, k, e)
               PROVE  Owes(u, a, b, k, e)'
    BY DEF Owed
  <2>1. u # t
    BY <1>1 DEF Owes, WillHear, WillTell
  <2> QED BY <1>3, <2>1, SameOwes, Different
<1>5. \A a, r : (\E u \in Users : WillHearRemote(u, a, r)) => (\E u \in Users : WillHearRemote(u, a, r)')
  <2> SUFFICES ASSUME NEW a, NEW r, NEW u \in Users, WillHearRemote(u, a, r)
               PROVE  WillHearRemote(u, a, r)'
    OBVIOUS
  <2>1. u # t
    BY <1>1 DEF WillHearRemote
  <2> QED BY <1>3, <2>1, SameOwes, Different
<1>6. t # Network => \A a, r : WillTellRemote(a, r) => WillTellRemote(a, r)'
  BY <1>3, SameOwes, Different
<1> QED BY <1>1, <1>2, <1>3, <1>4, <1>5, <1>6

\* When no two user threads have overlapped, one that starts finds no other one at work.
LEMMA StartsAlone ==
  ASSUME EventsInv, NEW t \in Users, NEW name, NEW x, Starts(t, name, x), ~overlapped'
  PROVE  /\ ~overlapped /\ (\A u \in Users : op[u] = "none" /\ stage[u] = "idle") /\ StatusOrOwed /\ ViewsOrOwed
         /\ \A a, b \in active, k \in Indices : a # b => b \in view[a][k]
         /\ \A a \in active, b \in Agents \ active, k \in Indices : b \notin view[a][k]
         /\ \A a \in Agents : status[a] = (a \in active)
<1>1. ~overlapped /\ \A u \in Users : op[u] = "none"
  BY DEF Starts
<1>2. \A u \in Users : stage[u] = "idle"
  BY <1>1, Different DEF EventsInv, Shape, Doing
<1>3. StatusOrOwed /\ ViewsOrOwed
  BY <1>1 DEF EventsInv, TakingTurns
<1>4. \A a, b, k, e : ~Owed(a, b, k, e)
  BY <1>1 DEF Owed, Owes, WillHear, WillTell
<1>5. \A u \in Users : (\A a, b, k : ~WillExit(u, a, b, k)) /\ \A a : ~WillSay(u, a)
  BY <1>1 DEF WillExit, WillSay
<1>6. /\ \A a, b \in active, k \in Indices : a # b => b \in view[a][k]
      /\ \A a \in active, b \in Agents \ active, k \in Indices : b \notin view[a][k]
  BY <1>3, <1>4, <1>5 DEF ViewsOrOwed
<1>7. \A a \in Agents : status[a] = (a \in active)
  BY <1>3, <1>5 DEF StatusOrOwed
<1> QED BY <1>1, <1>2, <1>3, <1>6, <1>7

\* igsagent_activate.
LEMMA ActivateKeeps ==
  ASSUME EventsInv, NEW t \in Users, NEW a \in Agents, Activate(t, a)
  PROVE  EventsInv'
<1>1. /\ TypeOK /\ Shape /\ ToldOrOwed /\ RemotesSeenOrOwed /\ TakingTurns
  BY DEF EventsInv
<1>2. /\ a \notin active /\ Starts(t, "activate", a) /\ active' = active \cup {a}
      /\ view' = [view EXCEPT ![a] = [k \in Indices |-> {}]] /\ told' = Forget(told, a)
      /\ remotes' = remotes /\ status' = status
  BY DEF Activate
<1>3. /\ active \subseteq Agents /\ active' \subseteq Agents /\ remotes \subseteq Remotes
      /\ t \in Threads /\ Network # t /\ a \in Ids /\ a # Nobody /\ 1 \in Indices
  BY <1>1, <1>2, Different DEF TypeOK
<1>4. \/ \E b \in active' \ {a} : Calls(t, "locals", b, 1, {})
      \/ /\ active' \subseteq {a}
         /\ \/ \E r \in remotes : Calls(t, "remotes", r, 1, {})
            \/ remotes = {} /\ Enters(t, "entered")
  <2>1. LocalLoop(t, a, {}, active \cup {a})
    BY <1>2 DEF Activate
  <2> QED BY <1>2, <1>3, <2>1, LocalLoopGoes
<1>5. /\ \/ stage'[t] = "locals" /\ target'[t] \in active' \ {a}
         \/ stage'[t] = "remotes" /\ target'[t] \in remotes /\ active' \subseteq {a}
         \/ /\ stage'[t] = "entered" /\ target'[t] = Nobody /\ point'[t] = "lock"
            /\ active' \subseteq {a} /\ remotes = {}
      /\ LoopTypes'
      /\ \A u \in Threads : u # t => SameLoop(u)
      /\ stage'[t] \in {"locals", "remotes"} => \A x : \A k \in Indices : Ahead(t, x, k)'
  <2>1. CASE \E b \in active' \ {a} : Calls(t, "locals", b, 1, {})
    <3>1. PICK b \in active' \ {a} : Calls(t, "locals", b, 1, {})
      BY <2>1
    <3>2. LoopTypes'
      BY <1>1, <1>3, <3>1, CallsTyped, Different DEF Stages
    <3>3. \A x : \A k \in Indices : Ahead(t, x, k)'
      BY <1>1, <1>3, <3>1, AheadCalls
    <3> QED BY <1>1, <1>3, <3>1, <3>2, <3>3, CallsSet
  <2>2. CASE active' \subseteq {a} /\ \E r \in remotes : Calls(t, "remotes", r, 1, {})
    <3>1. PICK r \in remotes : Calls(t, "remotes", r, 1, {})
      BY <2>2
    <3>2. LoopTypes'
      BY <1>1, <1>3, <3>1, CallsTyped, Different DEF Stages
    <3>3. \A x : \A k \in Indices : Ahead(t, x, k)'
      BY <1>1, <1>3, <3>1, AheadCalls
    <3> QED BY <1>1, <1>3, <2>2, <3>1, <3>2, <3>3, CallsSet
  <2>3. CASE active' \subseteq {a} /\ remotes = {} /\ Enters(t, "entered")
    <3>1. LoopTypes'
      BY <1>1, <1>3, <2>3, EntersTyped DEF Stages
    <3> QED BY <1>1, <1>3, <2>3, <3>1, EntersSet
  <2> QED BY <1>4, <2>1, <2>2, <2>3
<1>6. /\ op[t] = "none" /\ op'[t] = "activate" /\ subject'[t] = a
      /\ op' \in [Threads -> {"none", "activate", "deactivate", "enter", "exit"}]
      /\ subject' \in [Threads -> Ids \cup {Nobody}]
      /\ ops' \in Nat /\ overlapped' \in BOOLEAN
      /\ \A u \in Threads : u # t => Same(u)
      /\ \A x, y, k, e : Owed(x, y, k, e) => Owed(x, y, k, e)'
      /\ \A x, r : (\E u \in Users : WillHearRemote(u, x, r)) => (\E u \in Users : WillHearRemote(u, x, r)')
      /\ \A x, r : WillTellRemote(x, r) => WillTellRemote(x, r)'
  BY <1>1, <1>2, <1>3, <1>5, StartsSet
<1>7. /\ told' \in [Agents -> [Indices -> SUBSET (EventKinds \X Ids)]]
      /\ \A x \in active, y \in active, k \in Indices, e \in EventKinds :
           <<e, y>> \in told[x][k] => <<e, y>> \in told'[x][k]
  <2>1. told \in [Agents -> [Indices -> SUBSET (EventKinds \X Ids)]]
    BY <1>1 DEF TypeOK, EventKinds
  <2>2. told' = [x \in Agents |-> [k \in Indices |-> IF x = a THEN {} ELSE {e \in told[x][k] : e[2] # a}]]
    BY <1>2 DEF Forget
  <2>3. ASSUME NEW x \in Agents, NEW k \in Indices
        PROVE  (IF x = a THEN {} ELSE {e \in told[x][k] : e[2] # a}) \in SUBSET (EventKinds \X Ids)
    <3>1. told[x][k] \in SUBSET (EventKinds \X Ids)
      BY <2>1
    <3> QED BY <3>1
  <2>4. ASSUME NEW x \in active, NEW y \in active, NEW k \in Indices, NEW e \in EventKinds, <<e, y>> \in told[x][k]
        PROVE  <<e, y>> \in told'[x][k]
    <3>1. told'[x][k] = {f \in told[x][k] : f[2] # a}
      BY <1>2, <1>3, <2>2
    <3>2. <<e, y>>[2] # a
      BY <1>2
    <3> QED BY <2>4, <3>1, <3>2
  <2> QED BY <2>2, <2>3, <2>4
<1>8. /\ view' \in [Agents -> [Indices -> SUBSET Ids]]
      /\ \A k \in Indices : view'[a][k] = {}
      /\ \A x \in active : view'[x] = view[x]
  BY <1>1, <1>2, <1>3 DEF TypeOK
<1>9. TypeOK'
  BY <1>1, <1>2, <1>3, <1>5, <1>6, <1>7, <1>8 DEF TypeOK, LoopTypes, EventKinds
<1>10. Shape'
  <2>1. Doing(t)' /\ Looping(t)'
    BY <1>2, <1>3, <1>5, <1>6, Different DEF Doing, Looping, Propagating, Ids
  <2>2. \A u \in Threads : u # t => Doing(u)' /\ Looping(u)'
    BY <1>1, <1>2, <1>6, SameOwes DEF Shape
  <2> QED BY <2>1, <2>2 DEF Shape
\* The thread that activates a owes all that concerns a.
<1>11. ASSUME NEW x \in active', NEW y \in active', NEW k \in Indices, NEW e \in EventKinds, x # y, x = a \/ y = a
       PROVE  Owed(x, y, k, e)'
  <2>1. stage'[t] \in {"locals", "remotes"}
    BY <1>5, <1>11
  <2>2. x = a => stage'[t] = "locals"
    BY <1>5, <1>11
  <2>3. Ahead(t, y, k)'
    BY <1>5, <2>1
  <2>4. CASE x = a
    BY <1>6, <2>2, <2>3, <2>4 DEF Owed, Owes, WillHear
  <2>5. CASE y = a
    BY <1>6, <2>1, <2>5 DEF Owed, Owes, WillTell
  <2> QED BY <1>11, <2>4, <2>5
<1>12. ToldOrOwed'
  <2> SUFFICES ASSUME NEW x \in active', NEW y \in active', NEW k \in Indices, NEW e \in EventKinds, x # y
               PROVE  <<e, y>> \in told'[x][k] \/ Owed(x, y, k, e)'
    BY DEF ToldOrOwed
  <2>1. CASE x = a \/ y = a
    BY <1>11, <2>1
  <2>2. CASE x # a /\ y # a
    <3>1. x \in active /\ y \in active
      BY <1>2, <2>2
    <3>2. <<e, y>> \in told[x][k] \/ Owed(x, y, k, e)
      BY <1>1, <3>1 DEF ToldOrOwed
    <3> QED BY <1>6, <1>7, <3>1, <3>2
  <2> QED BY <2>1, <2>2
<1>13. RemotesSeenOrOwed'
  <2> SUFFICES ASSUME NEW x \in active', NEW r \in remotes
               PROVE  \/ r \in view'[x][1]
                      \/ (\E u \in Users : WillHearRemote(u, x, r)') \/ WillTellRemote(x, r)'
    BY <1>2 DEF RemotesSeenOrOwed
  <2>1. CASE x = a
    <3>1. stage'[t] = "locals" \/ (stage'[t] = "remotes" /\ Ahead(t, r, 1)')
      BY <1>3, <1>5
    <3> QED BY <1>6, <2>1, <3>1 DEF WillHearRemote
  <2>2. CASE x # a
    <3>1. x \in active
      BY <1>2, <2>2
    <3> QED BY <1>1, <1>6, <1>8, <3>1 DEF RemotesSeenOrOwed
  <2> QED BY <2>1, <2>2
<1>14. ASSUME ~overlapped' PROVE OneByOne' /\ (\A u \in Users : Current(u)') /\ ViewsOrOwed' /\ StatusOrOwed'
  <2>1. /\ \A u \in Users : op[u] = "none" /\ stage[u] = "idle"
        /\ ViewsOrOwed
        /\ \A x, y \in active, k \in Indices : x # y => y \in view[x][k]
        /\ \A x \in active, y \in Agents \ active, k \in Indices : y \notin view[x][k]
        /\ \A x \in Agents : status[x] = (x \in active)
    BY <1>2, <1>14, StartsAlone
  <2>2. \A u \in Users : u # t => op'[u] = "none" /\ stage'[u] = "idle"
    BY <1>6, <2>1, Different DEF Same
  <2>3. OneByOne'
    BY <2>2 DEF OneByOne
  <2>4. \A u \in Users : Current(u)'
    <3>1. Current(t)'
      BY <1>2, <1>5, <1>6 DEF Current
    <3>2. \A u \in Users : u # t => Current(u)'
      BY <2>2 DEF Current
    <3> QED BY <3>1, <3>2
  <2>5. ViewsOrOwed'
    <3>1. ASSUME NEW x \in active', NEW y \in active', NEW k \in Indices, x # y
          PROVE  y \in view'[x][k] \/ Owed(x, y, k, "ENTERED")'
      <4>1. CASE x = a \/ y = a
        BY <1>11, <3>1, <4>1 DEF EventKinds
      <4>2. CASE x # a /\ y # a
        BY <1>2, <1>8, <2>1, <3>1, <4>2
      <4> QED BY <4>1, <4>2
    <3>2. ASSUME NEW x \in active', NEW y \in Agents \ active', NEW k \in Indices
          PROVE  y \notin view'[x][k]
      <4>1. CASE x = a
        BY <1>8, <4>1
      <4>2. CASE x # a
        BY <1>2, <1>8, <2>1, <4>2
      <4> QED BY <4>1, <4>2
    <3>3. ASSUME NEW x \in active', NEW k \in Indices PROVE x \notin view'[x][k]
      <4>1. CASE x = a
        BY <1>8, <4>1
      <4>2. CASE x # a
        BY <1>2, <1>8, <2>1, <4>2 DEF ViewsOrOwed
      <4> QED BY <4>1, <4>2
    <3> QED BY <3>1, <3>2, <3>3 DEF ViewsOrOwed
  <2>6. StatusOrOwed'
    <3>1. WillSay(t, a)'
      BY <1>5, <1>6 DEF WillSay
    <3>2. \A x \in Agents : x # a => status'[x] = (x \in active')
      BY <1>2, <2>1
    <3> QED BY <3>1, <3>2 DEF StatusOrOwed
  <2> QED BY <2>3, <2>4, <2>5, <2>6
<1>15. TakingTurns'
  BY <1>14 DEF TakingTurns
<1> QED BY <1>9, <1>10, <1>12, <1>13, <1>15 DEF EventsInv

\* igsagent_deactivate.
LEMMA DeactivateKeeps ==
  ASSUME EventsInv, NEW t \in Users, NEW a \in Agents, Deactivate(t, a)
  PROVE  EventsInv'
<1>1. /\ TypeOK /\ Shape /\ ToldOrOwed /\ RemotesSeenOrOwed /\ TakingTurns
  BY DEF EventsInv
<1>2. /\ a \in active /\ Starts(t, "deactivate", a) /\ active' = active \ {a}
      /\ Calls(t, "observers", a, 1, {})
      /\ view' = view /\ told' = told /\ remotes' = remotes /\ status' = status
  BY DEF Deactivate, toldVars
<1>3. /\ active \subseteq Agents /\ active' \subseteq active /\ remotes \subseteq Remotes
      /\ t \in Threads /\ Network # t /\ a \in Ids /\ a # Nobody /\ 1 \in Indices
  BY <1>1, <1>2, Different DEF TypeOK
<1>4. /\ stage'[t] = "observers" /\ target'[t] = a /\ point'[t] = "call"
      /\ \A u \in Threads : u # t => SameLoop(u)
  BY <1>1, <1>2, <1>3, CallsSet
<1>5. LoopTypes'
  BY <1>1, <1>2, <1>3, CallsTyped DEF Stages
<1>6. /\ op[t] = "none" /\ op'[t] = "deactivate" /\ subject'[t] = a
      /\ op' \in [Threads -> {"none", "activate", "deactivate", "enter", "exit"}]
      /\ subject' \in [Threads -> Ids \cup {Nobody}]
      /\ ops' \in Nat /\ overlapped' \in BOOLEAN
      /\ \A u \in Threads : u # t => Same(u)
      /\ \A x, y, k, e : Owed(x, y, k, e) => Owed(x, y, k, e)'
      /\ \A x, r : (\E u \in Users : WillHearRemote(u, x, r)) => (\E u \in Users : WillHearRemote(u, x, r)')
      /\ \A x, r : WillTellRemote(x, r) => WillTellRemote(x, r)'
  BY <1>1, <1>2, <1>3, <1>4, StartsSet
<1>7. TypeOK'
  BY <1>1, <1>2, <1>3, <1>5, <1>6 DEF TypeOK, LoopTypes
<1>8. Shape'
  <2>1. Doing(t)' /\ Looping(t)'
    BY <1>2, <1>3, <1>4, <1>6, Different DEF Doing, Looping, Propagating
  <2>2. \A u \in Threads : u # t => Doing(u)' /\ Looping(u)'
    BY <1>1, <1>2, <1>6, SameOwes DEF Shape
  <2> QED BY <2>1, <2>2 DEF Shape
<1>9. ToldOrOwed'
  BY <1>1, <1>2, <1>3, <1>6 DEF ToldOrOwed
<1>10. RemotesSeenOrOwed'
  BY <1>1, <1>2, <1>3, <1>6 DEF RemotesSeenOrOwed
<1>11. ASSUME ~overlapped' PROVE OneByOne' /\ (\A u \in Users : Current(u)') /\ ViewsOrOwed' /\ StatusOrOwed'
  <2>1. /\ \A u \in Users : op[u] = "none" /\ stage[u] = "idle"
        /\ ViewsOrOwed
        /\ \A x, y \in active, k \in Indices : x # y => y \in view[x][k]
        /\ \A x \in active, y \in Agents \ active, k \in Indices : y \notin view[x][k]
        /\ \A x \in Agents : status[x] = (x \in active)
    BY <1>2, <1>11, StartsAlone
  <2>2. \A u \in Users : u # t => op'[u] = "none" /\ stage'[u] = "idle"
    BY <1>6, <2>1, Different DEF Same
  <2>3. OneByOne'
    BY <2>2 DEF OneByOne
  <2>4. \A u \in Users : Current(u)'
    <3>1. Current(t)'
      BY <1>2, <1>4, <1>6 DEF Current
    <3>2. \A u \in Users : u # t => Current(u)'
      BY <2>2 DEF Current
    <3> QED BY <3>1, <3>2
  <2>5. ViewsOrOwed'
    <3>1. \A x \in active', y \in active', k \in Indices : x # y => y \in view'[x][k]
      BY <1>2, <1>3, <2>1
    <3>2. ASSUME NEW x \in active', NEW y \in Agents \ active', NEW k \in Indices
          PROVE  y \notin view'[x][k] \/ \E u \in Users : WillExit(u, x, y, k)'
      <4>1. CASE y = a
        BY <1>4, <1>6, <4>1 DEF WillExit
      <4>2. CASE y # a
        BY <1>2, <1>3, <2>1, <4>2
      <4> QED BY <4>1, <4>2
    <3>3. \A x \in active', k \in Indices : x \notin view'[x][k]
      BY <1>2, <1>3, <2>1 DEF ViewsOrOwed
    <3> QED BY <3>1, <3>2, <3>3 DEF ViewsOrOwed
  <2>6. StatusOrOwed'
    <3>1. WillSay(t, a)'
      BY <1>4, <1>6 DEF WillSay
    <3>2. \A x \in Agents : x # a => status'[x] = (x \in active')
      BY <1>2, <2>1
    <3> QED BY <3>1, <3>2 DEF StatusOrOwed
  <2> QED BY <2>3, <2>4, <2>5, <2>6
<1>12. TakingTurns'
  BY <1>11 DEF TakingTurns
<1> QED BY <1>7, <1>8, <1>9, <1>10, <1>12 DEF EventsInv

\* A remote agent enters or exits.
LEMMA NetworkKeeps ==
  ASSUME EventsInv, NEW r \in Remotes, RemoteEnters(r) \/ RemoteExits(r)
  PROVE  EventsInv'
<1> DEFINE name == IF RemoteEnters(r) THEN "enter" ELSE "exit"
           st == IF RemoteEnters(r) THEN "entered" ELSE "exited"
<1>1. /\ TypeOK /\ Shape /\ ToldOrOwed /\ RemotesSeenOrOwed /\ TakingTurns
  BY DEF EventsInv
<1>2. /\ Starts(Network, name, r) /\ Enters(Network, st)
      /\ active' = active /\ view' = view /\ told' = told /\ status' = status
  BY DEF RemoteEnters, RemoteExits, toldVars
<1>3. \/ RemoteEnters(r) /\ remotes' = remotes \cup {r}
      \/ ~RemoteEnters(r) /\ r \in remotes /\ remotes' = remotes \ {r}
  BY DEF RemoteEnters, RemoteExits
<1>4. /\ active \subseteq Agents /\ remotes \subseteq Remotes /\ Network \in Threads /\ r \in Ids
      /\ \A u \in Users : u \in Threads /\ u # Network
      /\ 1 \in Indices /\ \A a \in active : a # Nobody
  BY <1>1, Different DEF TypeOK
<1>5. /\ stage'[Network] = st /\ target'[Network] = Nobody /\ point'[Network] = "lock"
      /\ LoopTypes'
      /\ \A u \in Threads : u # Network => SameLoop(u)
  BY <1>1, <1>2, <1>4, EntersSet, EntersTyped DEF Stages
<1>6. /\ op[Network] = "none" /\ op'[Network] = name /\ subject'[Network] = r
      /\ op' \in [Threads -> {"none", "activate", "deactivate", "enter", "exit"}]
      /\ subject' \in [Threads -> Ids \cup {Nobody}]
      /\ ops' \in Nat /\ overlapped' \in BOOLEAN
      /\ \A u \in Threads : u # Network => Same(u)
      /\ \A x, y, k, e : Owed(x, y, k, e) => Owed(x, y, k, e)'
      /\ \A x, s : (\E u \in Users : WillHearRemote(u, x, s)) => (\E u \in Users : WillHearRemote(u, x, s)')
  <2>1. name \in {"activate", "deactivate", "enter", "exit"}
    OBVIOUS
  <2> HIDE DEF name
  <2> QED BY <1>1, <1>2, <1>4, <1>5, <2>1, StartsSet
<1>7. TypeOK'
  BY <1>1, <1>2, <1>3, <1>4, <1>5, <1>6 DEF TypeOK, LoopTypes
<1>8. Shape'
  <2>1. Doing(Network)' /\ Looping(Network)'
    BY <1>3, <1>4, <1>5, <1>6 DEF Doing, Looping, Propagating
  <2>2. \A u \in Threads : u # Network => Doing(u)' /\ Looping(u)'
    BY <1>1, <1>6, SameOwes DEF Shape
  <2> QED BY <2>1, <2>2 DEF Shape
<1>9. ToldOrOwed'
  BY <1>1, <1>2, <1>6 DEF ToldOrOwed
<1>10. RemotesSeenOrOwed'
  <2> SUFFICES ASSUME NEW x \in active, NEW s \in remotes'
               PROVE  \/ s \in view[x][1]
                      \/ (\E u \in Users : WillHearRemote(u, x, s)') \/ WillTellRemote(x, s)'
    BY <1>2 DEF RemotesSeenOrOwed
  <2>1. CASE s \in remotes
    <3>1. ~WillTellRemote(x, s)
      BY <1>6 DEF WillTellRemote
    <3> QED BY <1>1, <1>6, <2>1, <3>1 DEF RemotesSeenOrOwed
  <2>2. CASE s \notin remotes
    <3>1. RemoteEnters(r) /\ s = r
      BY <1>3, <2>2
    <3>2. Ahead(Network, x, 1)'
      BY <1>1, <1>2, <1>4, AheadEnters
    <3> QED BY <1>6, <3>1, <3>2 DEF WillTellRemote
  <2> QED BY <2>1, <2>2
<1>11. ASSUME ~overlapped' PROVE OneByOne' /\ (\A u \in Users : Current(u)') /\ ViewsOrOwed' /\ StatusOrOwed'
  <2>1. OneByOne /\ (\A u \in Users : Current(u)) /\ ViewsOrOwed /\ StatusOrOwed
    BY <1>1, <1>2, <1>11 DEF TakingTurns, Starts
  <2>2. \A u \in Users : Same(u)
    BY <1>4, <1>6
  <2>3. OneByOne' /\ (\A u \in Users : Current(u)')
    BY <1>2, <2>1, <2>2 DEF Same, OneByOne, Current
  <2>4. \A u \in Users : (\A x, y, k : WillExit(u, x, y, k) => WillExit(u, x, y, k)')
                         /\ \A x : WillSay(u, x) => WillSay(u, x)'
    BY <2>2, SameOwes
  <2>5. ViewsOrOwed'
    BY <1>2, <1>6, <2>1, <2>4 DEF ViewsOrOwed
  <2>6. StatusOrOwed'
    BY <1>2, <2>1, <2>4 DEF StatusOrOwed
  <2> QED BY <2>3, <2>5, <2>6
<1>12. TakingTurns'
  BY <1>11 DEF TakingTurns
<1> QED BY <1>7, <1>8, <1>9, <1>10, <1>12 DEF EventsInv

-----------------------------------------------------------------------------
(***************************************************************************)
(* The theorems.                                                           *)
(***************************************************************************)
LEMMA EventsInit == Init => EventsInv
<1> SUFFICES ASSUME Init PROVE EventsInv
  OBVIOUS
<1>1. TypeOK
  BY Different DEF Init, TypeOK, Indices
<1>2. \A t \in Threads : op[t] = "none" /\ stage[t] = "idle" /\ point[t] = "lock"
  BY DEF Init
<1>3. Shape
  BY <1>2 DEF Shape, Doing, Looping, Propagating
<1>4. ToldOrOwed /\ RemotesSeenOrOwed
  BY DEF Init, ToldOrOwed, RemotesSeenOrOwed
<1>5. OneByOne /\ \A t \in Users : Current(t)
  BY <1>2, Different DEF OneByOne, Current
<1>6. ViewsOrOwed
  BY DEF Init, ViewsOrOwed
<1>7. StatusOrOwed
  <2>1. \A a \in Agents : ~status[a] /\ status[a] \in BOOLEAN /\ a \notin active
    BY DEF Init
  <2> QED BY <2>1 DEF StatusOrOwed
<1> QED BY <1>1, <1>3, <1>4, <1>5, <1>6, <1>7 DEF EventsInv, TakingTurns

\* A step that changes nothing.
LEMMA EventsStutter ==
  ASSUME EventsInv, UNCHANGED vars
  PROVE  EventsInv'
<1>1. /\ active' = active /\ remotes' = remotes /\ view' = view /\ told' = told /\ status' = status
      /\ overlapped' = overlapped /\ ops' = ops /\ op' = op /\ subject' = subject /\ stage' = stage
      /\ point' = point /\ target' = target /\ observer' = observer /\ contacted' = contacted
  BY DEF vars, threadVars, toldVars, history
<1>2. TypeOK' /\ Shape'
  BY <1>1 DEF EventsInv, TypeOK, Shape, Doing, Looping
<1>3. ToldOrOwed'
  BY <1>1 DEF EventsInv, ToldOrOwed, Owed, Owes, WillHear, WillTell, Ahead
<1>4. RemotesSeenOrOwed'
  BY <1>1 DEF EventsInv, RemotesSeenOrOwed, WillHearRemote, WillTellRemote, Ahead
<1>5. TakingTurns'
  BY <1>1 DEF EventsInv, TakingTurns, OneByOne, Current, ViewsOrOwed, StatusOrOwed, Owed, Owes,
              WillHear, WillTell, WillExit, WillSay, Ahead
<1> QED BY <1>2, <1>3, <1>4, <1>5 DEF EventsInv

\* Every step keeps the invariant.
LEMMA EventsStep == EventsInv /\ [Next]_vars => EventsInv'
<1> SUFFICES ASSUME EventsInv, [Next]_vars PROVE EventsInv'
  OBVIOUS
<1>1. ASSUME NEW t \in Users, NEW a \in Agents, Activate(t, a) \/ Deactivate(t, a) PROVE EventsInv'
  BY <1>1, ActivateKeeps, DeactivateKeeps
<1>2. ASSUME NEW r \in Remotes, RemoteEnters(r) \/ RemoteExits(r) PROVE EventsInv'
  BY <1>2, NetworkKeeps
<1>3. ASSUME NEW t \in Threads, Goes(t) PROVE EventsInv'
  BY <1>3, LocalStepKeeps, RemoteStepKeeps, PropagateStepKeeps, ObserversStepKeeps, CallEventKeeps,
     CallActivationKeeps DEF Goes
<1>4. CASE UNCHANGED vars
  BY <1>4, EventsStutter
<1> QED BY <1>1, <1>2, <1>3, <1>4 DEF Next

\* When no thread is operating, nothing is owed.
LEMMA EventsRight == EventsInv => ViewsRight
<1> SUFFICES ASSUME EventsInv, Quiet PROVE ViewsRight
  BY DEF ViewsRight, NobodyMissed, ViewsExact, FirstObserverKnowsRemotes
<1>1. TypeOK /\ ToldOrOwed /\ RemotesSeenOrOwed /\ TakingTurns
  BY DEF EventsInv
<1>2. op[Network] = "none" /\ \A t \in Users : op[t] = "none"
  BY Different DEF Quiet
<1>3. /\ \A a, b, k, e : ~Owed(a, b, k, e)
      /\ \A a, r : ~(\E t \in Users : WillHearRemote(t, a, r)) /\ ~WillTellRemote(a, r)
      /\ \A t \in Users : (\A a, b, k : ~WillExit(t, a, b, k)) /\ \A a : ~WillSay(t, a)
  BY <1>2 DEF Owed, Owes, WillHear, WillTell, WillHearRemote, WillTellRemote, WillExit, WillSay
<1>4. NobodyMissed
  <2> SUFFICES ASSUME NEW a \in active, NEW k \in Indices, NEW e \in EventKinds, NEW b \in active \ {a}
               PROVE  <<e, b>> \in told[a][k]
    BY DEF NobodyMissed, EventKinds
  <2> QED BY <1>1, <1>3 DEF ToldOrOwed
<1>5. ViewsExact
  <2> SUFFICES ASSUME ~overlapped
               PROVE  /\ \A a \in active, k \in Indices : view[a][k] \cap Agents = active \ {a}
                      /\ \A a \in Agents : status[a] = (a \in active)
    BY DEF ViewsExact
  <2>1. ViewsOrOwed /\ StatusOrOwed
    BY <1>1 DEF TakingTurns
  <2>2. ASSUME NEW a \in active, NEW k \in Indices PROVE view[a][k] \cap Agents = active \ {a}
    <3>1. /\ \A b \in active : a # b => b \in view[a][k]
          /\ \A b \in Agents \ active : b \notin view[a][k]
          /\ a \notin view[a][k]
      BY <1>3, <2>1 DEF ViewsOrOwed
    <3>2. active \subseteq Agents
      BY <1>1 DEF TypeOK
    <3> QED BY <3>1, <3>2
  <2> QED BY <1>3, <2>1, <2>2 DEF StatusOrOwed
<1>6. FirstObserverKnowsRemotes
  BY <1>1, <1>3 DEF FirstObserverKnowsRemotes, RemotesSeenOrOwed
<1> QED BY <1>4, <1>5, <1>6 DEF ViewsRight

\* The variables of the activation of agents have their types, whatever threads
\* do in igsagent_activate, igsagent_deactivate and the propagation of events.
THEOREM EventsType == Spec => []TypeOK
<1>1. EventsInv => TypeOK
  BY DEF EventsInv
<1> QED BY <1>1, EventsInit, EventsStep, PTL DEF Spec

\* When the threads are done, every observer of an active agent was told that each
\* other active agent entered and knows it, first observers know the remote agents,
\* and, if no two user threads overlapped, what is believed is exact and the
\* activation callback had the last word (igsagent.c:90-267).
THEOREM ViewsAreRight == Spec => []ViewsRight
BY EventsInit, EventsStep, EventsRight, PTL DEF Spec
-----------------------------------------------------------------------------
(***************************************************************************)
(* Definitions and mappings (module Definition).                           *)
(***************************************************************************)

\* A number of ten-millionths is cut to an integer, or rounded to six decimals.
LEMMA NumbersWritten ==
  ASSUME NEW b \in Int
  PROVE  /\ Cut(b) \in Int /\ Cut(Cut(b)) = Cut(b)
         /\ Rounded(b) \in Int /\ Rounded(Cut(b)) = Cut(b)
BY DEF Cut, Rounded

\* What is parsed is parsed again as it is, also after it was written
\* (model_parse_constraint, parser_export_definition).
LEMMA ParsedAgain ==
  ASSUME NEW type, NEW c \in Limits \cup {None}
  PROVE  /\ Parsed(type, c) \in Limits \cup {None}
         /\ Parsed(type, Parsed(type, c)) = Parsed(type, c)
         /\ Written(c) \in Limits \cup {None}
         /\ Parsed(type, c) = c => Parsed(type, Written(c)) = Written(c)
<1>1. CASE c = None
  BY <1>1 DEF Parsed, Written
<1>2. CASE c # None /\ c.form = "regexp"
  BY <1>2 DEF Parsed, Written
<1>3. CASE c # None /\ c.form # "regexp"
  <2>1. c \in Limits /\ None \notin Limits
    BY <1>3, DefinitionAssumption
  <2> DEFINE cut == [c EXCEPT !.bound = Cut(c.bound)]
             rounded == [c EXCEPT !.bound = Rounded(c.bound)]
  <2>2. c.bound \in Int
    BY <2>1 DEF Limits
  <2>3. cut \in Limits /\ cut.bound = Cut(c.bound) /\ cut.form = c.form
    BY <2>1, <2>2, NumbersWritten DEF Limits
  <2>4. rounded \in Limits /\ rounded.bound = Rounded(c.bound) /\ rounded.form = c.form
    BY <2>1, <2>2, NumbersWritten DEF Limits
  <2>5. Written(c) = rounded
    BY <1>3 DEF Written
  <2>6. CASE type = "INTEGER"
    <3>1. Parsed(type, c) = cut
      BY <1>3, <2>6 DEF Parsed
    <3>2. Parsed(type, cut) = [cut EXCEPT !.bound = Cut(cut.bound)]
      BY <1>3, <2>1, <2>3, <2>6 DEF Parsed
    <3>3. [cut EXCEPT !.bound = Cut(cut.bound)] = cut
      BY <2>2, <2>3, NumbersWritten DEF Limits
    <3>4. ASSUME cut = c
          PROVE  Parsed(type, rounded) = rounded
      <4>1. Rounded(c.bound) = c.bound /\ Cut(c.bound) = c.bound
        BY <2>2, <2>3, <3>4, NumbersWritten
      <4>2. rounded = c
        BY <2>1, <4>1 DEF Limits
      <4> QED
        BY <3>1, <3>4, <4>2
    <3> QED
      BY <2>3, <2>4, <2>5, <3>1, <3>2, <3>3, <3>4
  <2>7. CASE type = "DOUBLE"
    <3>1. Parsed(type, c) = c
      BY <1>3, <2>7 DEF Parsed
    <3>2. Parsed(type, rounded) = rounded
      BY <1>3, <2>1, <2>4, <2>7 DEF Parsed
    <3> QED
      BY <2>4, <2>5, <3>1, <3>2
  <2>8. CASE type \notin {"INTEGER", "DOUBLE"}
    <3>1. Parsed(type, c) = None /\ Parsed(type, None) = None
      BY <1>3, <2>8 DEF Parsed
    <3> QED
      BY <1>3, <2>4, <2>5, <3>1
  <2> QED
    BY <2>6, <2>7, <2>8
<1> QED
  BY <1>1, <1>2, <1>3

\* The element of a name is the first that has it.
LEMMA NameFound ==
  ASSUME NEW S, NEW s \in Seq(S), NEW n, HasName(s, n)
  PROVE  /\ OfName(s, n) \in 1..Len(s) /\ Get(s, n) = s[OfName(s, n)]
         /\ s[OfName(s, n)].name = n /\ Get(s, n) \in S
<1> DEFINE I == {i \in 1..Len(s) : s[i].name = n}
<1>1. I # {} /\ I \subseteq Nat
  BY DEF HasName
<1> DEFINE R == OpToRel(<, Nat)
<1>2. IsWellFoundedOn(R, Nat)
  BY NatLessThanWellFounded
<1>3. \A j, m \in Nat : j < m => <<j, m>> \in R
  <2>1. SUFFICES ASSUME NEW j \in Nat, NEW m \in Nat, j < m
                 PROVE  <<j, m>> \in R
    OBVIOUS
  <2>2. <<j, m>> \in Nat \X Nat /\ <<j, m>>[1] < <<j, m>>[2]
    BY <2>1
  <2> QED
    BY <2>2 DEF OpToRel
<1> HIDE DEF R
<1>4. PICK m \in I : \A j \in I : ~ <<j, m>> \in R
  <2> HIDE DEF I
  <2> QED
    BY <1>1, <1>2, WFMin
<1>5. \A j \in I : m <= j
  <2> HIDE DEF I
  <2>1. SUFFICES ASSUME NEW j \in I
                 PROVE  m <= j
    OBVIOUS
  <2>2. j \in Nat /\ m \in Nat
    BY <1>1
  <2>3. ~ (j < m)
    BY <1>3, <1>4, <2>2
  <2> QED
    BY <2>2, <2>3
<1>6. Min(I) \in I
  BY <1>4, <1>5 DEF Min
<1>7. OfName(s, n) = Min(I)
  BY <1>1 DEF OfName, SelectInSeq
<1> QED
  BY <1>6, <1>7 DEF Get

\* A sequence without its element at a position.
LEMMA WithoutOne ==
  ASSUME NEW S, NEW s \in Seq(S), NEW m \in 1..Len(s)
  PROVE  /\ RemoveAt(s, m) \in Seq(S)
         /\ Len(RemoveAt(s, m)) = Len(s) - 1
         /\ \A i \in 1..Len(s) - 1 : RemoveAt(s, m)[i] = IF i < m THEN s[i] ELSE s[i + 1]
<1> DEFINE a == SubSeq(s, 1, m - 1)
           b == SubSeq(s, m + 1, Len(s))
<1>1. /\ a \in Seq(S) /\ Len(a) = m - 1 /\ \A i \in 1..m - 1 : a[i] = s[i]
  OBVIOUS
<1>2. /\ b \in Seq(S) /\ Len(b) = Len(s) - m /\ \A i \in 1..Len(s) - m : b[i] = s[m + i]
  OBVIOUS
<1>3. RemoveAt(s, m) = a \o b
  BY DEF RemoveAt
<1> HIDE DEF a, b
<1>4. /\ a \o b \in Seq(S) /\ Len(a \o b) = Len(a) + Len(b)
      /\ \A i \in 1..Len(a) + Len(b) : (a \o b)[i] = IF i <= Len(a) THEN a[i] ELSE b[i - Len(a)]
  <2>1. a \in Seq(S) /\ b \in Seq(S)
    BY <1>1, <1>2
  <2> QED
    BY <2>1
<1>5. Len(a) + Len(b) = Len(s) - 1
  BY <1>1, <1>2
<1>6. ASSUME NEW i \in 1..Len(s) - 1
      PROVE  (a \o b)[i] = IF i < m THEN s[i] ELSE s[i + 1]
  <2>1. (a \o b)[i] = IF i <= Len(a) THEN a[i] ELSE b[i - Len(a)]
    BY <1>4, <1>5, <1>6
  <2>2. CASE i < m
    BY <1>1, <2>1, <2>2
  <2>3. CASE ~(i < m)
    <3>1. i - (m - 1) \in 1..Len(s) - m
      BY <2>3
    <3>2. b[i - (m - 1)] = s[m + (i - (m - 1))]
      BY <1>2, <3>1
    <3> QED
      BY <1>1, <2>1, <2>3, <3>2
  <2> QED
    BY <2>2, <2>3
<1> QED
  BY <1>3, <1>4, <1>5, <1>6

\* What removing a name leaves (definition_free_io, igsagent_service_remove).
LEMMA DroppedFacts ==
  ASSUME NEW S, NEW s \in Seq(S), NEW n
  PROVE  /\ Dropped(s, n) \in Seq(S)
         /\ \A i \in DOMAIN Dropped(s, n) : \E j \in DOMAIN s : Dropped(s, n)[i] = s[j]
         /\ NamesOnce(s) => NamesOnce(Dropped(s, n))
<1>1. CASE ~HasName(s, n)
  BY <1>1 DEF Dropped
<1>2. CASE HasName(s, n)
  <2> DEFINE t == Dropped(s, n)
             m == OfName(s, n)
             at(i) == IF i < m THEN i ELSE i + 1
  <2>1. m \in 1..Len(s)
    BY <1>2, NameFound
  <2>2. t = RemoveAt(s, m)
    BY <1>2 DEF Dropped
  <2> HIDE DEF t, m
  <2>3. /\ t \in Seq(S) /\ Len(t) = Len(s) - 1
        /\ \A i \in 1..Len(s) - 1 : t[i] = IF i < m THEN s[i] ELSE s[i + 1]
    BY <2>1, <2>2, WithoutOne
  <2>4. \A i \in DOMAIN t : at(i) \in DOMAIN s /\ t[i] = s[at(i)]
    BY <2>1, <2>3
  <2>5. \A i, j \in DOMAIN t : at(i) = at(j) => i = j
    BY <2>1, <2>3
  <2>6. NamesOnce(s) => NamesOnce(t)
    <3>1. SUFFICES ASSUME NamesOnce(s), NEW i \in DOMAIN t, NEW j \in DOMAIN t, t[i].name = t[j].name
                   PROVE  i = j
      BY DEF NamesOnce
    <3>2. s[at(i)].name = s[at(j)].name
      BY <2>4, <3>1
    <3>3. at(i) = at(j)
      BY <2>4, <3>1, <3>2 DEF NamesOnce
    <3> QED
      BY <2>5, <3>3
  <2> QED
    BY <2>3, <2>4, <2>6 DEF t
<1> QED
  BY <1>1, <1>2

\* What changing the element of a name leaves.
LEMMA ChangedFacts ==
  ASSUME NEW S, NEW s \in Seq(S), NEW n, HasName(s, n), NEW x \in S
  PROVE  /\ Changed(s, n, x) \in Seq(S) /\ DOMAIN Changed(s, n, x) = DOMAIN s
         /\ \A i \in DOMAIN s : Changed(s, n, x)[i] = IF i = OfName(s, n) THEN x ELSE s[i]
         /\ NamesOnce(s) /\ x.name = n => NamesOnce(Changed(s, n, x))
<1> DEFINE m == OfName(s, n)
<1>1. m \in 1..Len(s) /\ s[m].name = n
  BY NameFound
<1>2. Changed(s, n, x) = [s EXCEPT ![m] = x]
  BY DEF Changed
<1> HIDE DEF m
<1> DEFINE t == [s EXCEPT ![m] = x]
<1>3. /\ t \in Seq(S) /\ DOMAIN t = DOMAIN s
      /\ \A i \in DOMAIN s : t[i] = IF i = m THEN x ELSE s[i]
  BY <1>1
<1> HIDE DEF t
<1>4. ASSUME NamesOnce(s), x.name = n
      PROVE  NamesOnce(t)
  <2>1. \A i \in DOMAIN s : t[i].name = s[i].name
    BY <1>1, <1>3, <1>4
  <2> QED
    BY <1>3, <1>4, <2>1 DEF NamesOnce
<1> QED
  BY <1>2, <1>3, <1>4 DEF m, t

\* What adding an element leaves.
LEMMA AddedFacts ==
  ASSUME NEW S, NEW s \in Seq(S), NEW x \in S
  PROVE  /\ Append(s, x) \in Seq(S)
         /\ \A i \in DOMAIN Append(s, x) :
              Append(s, x)[i] = x \/ (i \in DOMAIN s /\ Append(s, x)[i] = s[i])
         /\ NamesOnce(s) /\ ~HasName(s, x.name) => NamesOnce(Append(s, x))
<1> DEFINE t == Append(s, x)
<1>1. /\ t \in Seq(S) /\ DOMAIN t = 1..Len(s) + 1 /\ DOMAIN s = 1..Len(s) /\ Len(s) \in Nat
      /\ t[Len(s) + 1] = x /\ \A i \in 1..Len(s) : t[i] = s[i]
  OBVIOUS
<1> HIDE DEF t
<1>2. \A i \in DOMAIN t : (i = Len(s) + 1 /\ t[i] = x) \/ (i \in DOMAIN s /\ t[i] = s[i])
  BY <1>1
<1>3. ASSUME NamesOnce(s), ~HasName(s, x.name)
      PROVE  NamesOnce(t)
  BY <1>1, <1>2, <1>3 DEF NamesOnce, HasName
<1> QED
  BY <1>1, <1>2, <1>3 DEF t

\* The first elements of each name, in their order: each name is kept once, and
\* a sequence of different names is kept as it is (definition_add_io_to_definition).
LEMMA FirstOnlyFacts ==
  ASSUME NEW S, NEW s \in Seq(S)
  PROVE  /\ FirstOnly(s) \in Seq(S) /\ NamesOnce(FirstOnly(s))
         /\ NamesOnce(s) => FirstOnly(s) = s
<1> DEFINE K == {i \in DOMAIN s : \A j \in 1..i - 1 : s[j].name # s[i].name}
           rank == [i \in K |-> Cardinality(K \cap 1..i)]
           card == Cardinality(K)
           pick(n) == CHOOSE i \in K : Cardinality(K \cap 1..i) = n
<1>1. K \subseteq 1..Len(s) /\ Len(s) \in Nat
  OBVIOUS
<1>2. IsFiniteSet(1..Len(s)) /\ Cardinality(1..Len(s)) = Len(s)
  BY <1>1, FS_Interval
<1>3. IsFiniteSet(K) /\ card \in Nat
  <2> HIDE DEF K
  <2>1. IsFiniteSet(K)
    BY <1>1, <1>2, FS_Subset
  <2> QED
    BY <2>1, FS_CardinalityType
<1>4. \A i, j \in K : s[i].name = s[j].name => i = j
  <2>1. SUFFICES ASSUME NEW i \in K, NEW j \in K, s[i].name = s[j].name, i < j
                 PROVE  FALSE
    BY <1>1
  <2>2. i \in 1..j - 1
    BY <1>1, <2>1
  <2> QED
    BY <2>1, <2>2
<1>5. NamesOnce(s) => K = 1..Len(s)
  BY DEF NamesOnce
<1>6. FirstOnly(s) = [n \in 1..card |-> s[pick(n)]]
  BY DEF FirstOnly
<1> HIDE DEF K
<1>7. \A i \in K : IsFiniteSet(K \cap 1..i) /\ rank[i] \in 1..card
  <2>1. SUFFICES ASSUME NEW i \in K
                 PROVE  IsFiniteSet(K \cap 1..i) /\ Cardinality(K \cap 1..i) \in 1..card
    OBVIOUS
  <2>2. K \cap 1..i \in SUBSET K /\ i \in K \cap 1..i
    BY <1>1
  <2>3. IsFiniteSet(K \cap 1..i) /\ Cardinality(K \cap 1..i) <= card
    BY <1>3, <2>2, FS_Subset
  <2>4. Cardinality(K \cap 1..i) \in Nat /\ Cardinality(K \cap 1..i) # 0
    BY <2>2, <2>3, FS_CardinalityType, FS_EmptySet
  <2> QED
    BY <1>3, <2>3, <2>4
<1>8. \A i, j \in K : i < j => rank[i] < rank[j]
  <2>1. SUFFICES ASSUME NEW i \in K, NEW j \in K, i < j
                 PROVE  Cardinality(K \cap 1..i) < Cardinality(K \cap 1..j)
    OBVIOUS
  <2>2. /\ K \cap 1..i \in SUBSET (K \cap 1..j)
        /\ j \in K \cap 1..j /\ j \notin K \cap 1..i
    BY <1>1, <2>1
  <2>3. IsFiniteSet(K \cap 1..j)
    BY <1>7
  <2>4. /\ Cardinality(K \cap 1..i) <= Cardinality(K \cap 1..j)
        /\ Cardinality(K \cap 1..i) # Cardinality(K \cap 1..j)
    BY <2>2, <2>3, FS_Subset
  <2>5. Cardinality(K \cap 1..i) \in Nat /\ Cardinality(K \cap 1..j) \in Nat
    BY <1>7, FS_CardinalityType
  <2> QED
    BY <2>4, <2>5
<1>9. rank \in Surjection(K, 1..card)
  <2>1. rank \in [K -> 1..card]
    BY <1>7
  <2>2. \A i, j \in K : rank[i] = rank[j] => i = j
    <3>1. SUFFICES ASSUME NEW i \in K, NEW j \in K, rank[i] = rank[j], i < j
                   PROVE  FALSE
      BY <1>1
    <3>2. rank[i] < rank[j]
      BY <1>8, <3>1
    <3>3. rank[i] \in 1..card
      BY <1>7
    <3> HIDE DEF rank
    <3>4. rank[i] \in Nat
      BY <1>3, <3>3
    <3> QED
      BY <3>1, <3>2, <3>4
  <2> HIDE DEF rank, card
  <2>3. rank \in Injection(K, 1..card)
    BY <2>1, <2>2 DEF Injection, IsInjective
  <2>4. IsFiniteSet(1..card) /\ Cardinality(1..card) = card
    BY <1>3, FS_Interval
  <2>5. Cardinality(K) = Cardinality(1..card)
    BY <2>4 DEF card
  <2> QED
    BY <2>3, <2>4, <2>5, FS_Injection
<1>10. \A n \in 1..card : pick(n) \in K /\ Cardinality(K \cap 1..pick(n)) = n
  <2>1. SUFFICES ASSUME NEW n \in 1..card
                 PROVE  \E i \in K : Cardinality(K \cap 1..i) = n
    OBVIOUS
  <2>2. PICK i \in K : rank[i] = n
    BY <1>9 DEF Surjection
  <2> QED
    BY <2>2
<1> DEFINE f == [n \in 1..card |-> s[pick(n)]]
<1>11. f \in Seq(S) /\ DOMAIN f = 1..card
  <2> HIDE DEF card, pick
  <2>1. \A n \in 1..card : s[pick(n)] \in S
    <3>1. SUFFICES ASSUME NEW n \in 1..card
                   PROVE  s[pick(n)] \in S
      OBVIOUS
    <3>2. pick(n) \in 1..Len(s)
      BY <1>1, <1>10
    <3> QED
      BY <3>2
  <2> QED
    BY <1>3, <2>1
<1>12. NamesOnce(f)
  <2>1. SUFFICES ASSUME NEW i \in 1..card, NEW j \in 1..card, s[pick(i)].name = s[pick(j)].name
                 PROVE  i = j
    BY DEF NamesOnce
  <2>2. pick(i) = pick(j)
    BY <1>4, <1>10, <2>1
  <2> QED
    BY <1>10, <2>2
<1>13. ASSUME NamesOnce(s)
       PROVE  f = s
  <2>1. K = 1..Len(s) /\ card = Len(s)
    BY <1>2, <1>5, <1>13
  <2>2. \A n \in 1..Len(s) : pick(n) = n
    <3>1. SUFFICES ASSUME NEW n \in 1..Len(s)
                   PROVE  pick(n) = n
      OBVIOUS
    <3>2. pick(n) \in 1..Len(s) /\ Cardinality(K \cap 1..pick(n)) = n
      BY <1>10, <2>1, <3>1
    <3>3. K \cap 1..pick(n) = 1..pick(n)
      <4> HIDE DEF pick
      <4> QED
        BY <1>1, <2>1, <3>2
    <3>4. Cardinality(1..pick(n)) = pick(n)
      <4> HIDE DEF pick
      <4> QED
        BY <3>2, FS_Interval
    <3> QED
      BY <3>2, <3>3, <3>4
  <2>3. \A n \in 1..Len(s) : f[n] = s[n]
    BY <2>1, <2>2
  <2> HIDE DEF f
  <2>4. f \in Seq(S) /\ DOMAIN f = 1..Len(s)
    BY <1>11, <2>1
  <2> QED
    BY <2>3, <2>4
<1> QED
  BY <1>6, <1>11, <1>12, <1>13

\* A function of the positions 1..n is a sequence.
LEMMA SequenceOf ==
  ASSUME NEW T, NEW n \in Nat, NEW f, f = [i \in 1..n |-> f[i]], \A i \in 1..n : f[i] \in T
  PROVE  f \in Seq(T) /\ Len(f) = n /\ DOMAIN f = 1..n
OBVIOUS

\* The sequences that are exported and loaded have the length and the names of
\* the ones they come from (parser_export_definition, parser_parse_node).
LEMMA IosWritten ==
  ASSUME NEW s \in Seq(IoRecords)
  PROVE  /\ MapSeq(s, ExportedIo) \in Seq(IoRecords)
         /\ DOMAIN MapSeq(s, ExportedIo) = DOMAIN s
         /\ \A i \in DOMAIN s :
              MapSeq(s, ExportedIo)[i] = [s[i] EXCEPT !.constraint = Written(s[i].constraint)]
         /\ NamesOnce(s) => NamesOnce(MapSeq(s, ExportedIo))
<1> DEFINE t == MapSeq(s, ExportedIo)
<1>1. t = [i \in 1..Len(s) |-> [s[i] EXCEPT !.constraint = Written(s[i].constraint)]]
  BY DEF MapSeq, ExportedIo
<1>2. ASSUME NEW i \in 1..Len(s)
      PROVE  t[i] \in IoRecords /\ t[i].name = s[i].name
  <2>1. s[i] \in IoRecords
    OBVIOUS
  <2>2. Written(s[i].constraint) \in Limits \cup {None}
    BY <2>1, ParsedAgain DEF IoRecords
  <2>3. t[i] = [s[i] EXCEPT !.constraint = Written(s[i].constraint)]
    BY <1>1
  <2> QED
    BY <2>1, <2>2, <2>3 DEF IoRecords
<1> HIDE DEF t
<1>3. t \in Seq(IoRecords) /\ DOMAIN t = DOMAIN s
  BY <1>1, <1>2
<1>4. NamesOnce(s) => NamesOnce(t)
  BY <1>2, <1>3 DEF NamesOnce
<1> QED
  BY <1>1, <1>3, <1>4 DEF t

LEMMA IosRead ==
  ASSUME NEW s \in Seq(IoRecords)
  PROVE  /\ MapSeq(s, LoadedIo) \in Seq(IoRecords)
         /\ DOMAIN MapSeq(s, LoadedIo) = DOMAIN s
         /\ \A i \in DOMAIN s :
              MapSeq(s, LoadedIo)[i] = [s[i] EXCEPT !.constraint = Parsed(s[i].type, s[i].constraint)]
         /\ NamesOnce(s) => NamesOnce(MapSeq(s, LoadedIo))
<1> DEFINE t == MapSeq(s, LoadedIo)
<1>1. t = [i \in 1..Len(s) |-> [s[i] EXCEPT !.constraint = Parsed(s[i].type, s[i].constraint)]]
  BY DEF MapSeq, LoadedIo
<1>2. ASSUME NEW i \in 1..Len(s)
      PROVE  t[i] \in IoRecords /\ t[i].name = s[i].name
  <2>1. s[i] \in IoRecords
    OBVIOUS
  <2>2. Parsed(s[i].type, s[i].constraint) \in Limits \cup {None}
    BY <2>1, ParsedAgain DEF IoRecords
  <2>3. t[i] = [s[i] EXCEPT !.constraint = Parsed(s[i].type, s[i].constraint)]
    BY <1>1
  <2> QED
    BY <2>1, <2>2, <2>3 DEF IoRecords
<1> HIDE DEF t
<1>3. t \in Seq(IoRecords) /\ DOMAIN t = DOMAIN s
  BY <1>1, <1>2
<1>4. NamesOnce(s) => NamesOnce(t)
  BY <1>2, <1>3 DEF NamesOnce
<1> QED
  BY <1>1, <1>3, <1>4 DEF t

LEMMA ServicesWritten ==
  ASSUME NEW s \in Seq(ServiceRecords)
  PROVE  /\ ExportedServices(s) \in Seq(ServiceTexts)
         /\ DOMAIN ExportedServices(s) = DOMAIN s
         /\ \A i \in DOMAIN s : ExportedServices(s)[i] = ExportedService(s[i])
         /\ NamesOnce(s) => NamesOnce(ExportedServices(s))
<1> DEFINE t == ExportedServices(s)
<1>1. t = [i \in 1..Len(s) |-> ExportedService(s[i])]
  BY DEF ExportedServices, MapSeq
<1>2. ASSUME NEW i \in 1..Len(s)
      PROVE  t[i] \in ServiceTexts /\ t[i].name = s[i].name
  <2>1. s[i] \in ServiceRecords /\ t[i] = ExportedService(s[i])
    BY <1>1
  <2> HIDE DEF t
  <2> QED
    BY <2>1 DEF ServiceRecords, ServiceTexts, ExportedService
<1> HIDE DEF t
<1>3. t \in Seq(ServiceTexts) /\ DOMAIN t = DOMAIN s
  BY <1>1, <1>2
<1>4. NamesOnce(s) => NamesOnce(t)
  BY <1>2, <1>3 DEF NamesOnce
<1> QED
  BY <1>1, <1>3, <1>4 DEF t

LEMMA ServicesRead ==
  ASSUME NEW s \in Seq(ServiceTexts)
  PROVE  /\ MapSeq(s, LoadedService) \in Seq(ServiceRecords)
         /\ DOMAIN MapSeq(s, LoadedService) = DOMAIN s
         /\ \A i \in DOMAIN s : MapSeq(s, LoadedService)[i] = LoadedService(s[i])
         /\ NamesOnce(s) => NamesOnce(MapSeq(s, LoadedService))
<1> DEFINE t == MapSeq(s, LoadedService)
<1>1. t = [i \in 1..Len(s) |-> LoadedService(s[i])]
  BY DEF MapSeq
<1>2. ASSUME NEW i \in 1..Len(s)
      PROVE  t[i] \in ServiceRecords /\ t[i].name = s[i].name
  <2>1. s[i] \in ServiceTexts /\ t[i] = LoadedService(s[i])
    BY <1>1
  <2> HIDE DEF t
  <2> QED
    BY <2>1 DEF ServiceRecords, ServiceTexts, LoadedService
<1> HIDE DEF t
<1>3. t \in Seq(ServiceRecords) /\ DOMAIN t = DOMAIN s
  BY <1>1, <1>2
<1>4. NamesOnce(s) => NamesOnce(t)
  BY <1>2, <1>3 DEF NamesOnce
<1> QED
  BY <1>1, <1>3, <1>4 DEF t

\* What a definition says is a document (parser_export_definition).
LEMMA ExportedDocument ==
  ASSUME NEW d \in Definitions
  PROVE  Exported(d) \in Documents
<1>1. /\ d.name \in Names /\ d.class \in Names \cup {None} /\ d.package \in Names \cup {None}
      /\ d.texts \in SUBSET Texts /\ d.ios \in [Kinds -> Seq(IoRecords)]
      /\ d.services \in Seq(ServiceRecords)
  BY DEF Definitions
<1>2. ExportedIos(d.ios) \in [Kinds -> Seq(IoRecords)]
  BY <1>1, IosWritten DEF ExportedIos
<1>3. ExportedServices(d.services) \in Seq(ServiceTexts)
  BY <1>1, ServicesWritten
<1> QED
  BY <1>1, <1>2, <1>3 DEF Exported, Documents

\* What is loaded is a definition with one entry for each name, and the
\* constraints that suit their types (parser_parse_definition_from_node).
LEMMA LoadedDefinition ==
  ASSUME NEW j \in Documents, IsValid(j)
  PROVE  Loaded(j) \in Definitions /\ Sound(Loaded(j))
<1>1. /\ j.name \in Names /\ j.class \in Names \cup {None} /\ j.package \in Names \cup {None}
      /\ j.texts \in SUBSET Texts /\ j.ios \in [Kinds -> Seq(IoRecords)]
      /\ j.services \in Seq(ServiceTexts)
  BY DEF Documents, IsValid
<1>2. \A k \in Kinds : /\ FirstOnly(j.ios[k]) \in Seq(IoRecords)
                       /\ NamesOnce(FirstOnly(j.ios[k]))
  BY <1>1, FirstOnlyFacts
<1>3. FirstOnly(j.services) \in Seq(ServiceTexts) /\ NamesOnce(FirstOnly(j.services))
  BY <1>1, FirstOnlyFacts
<1> DEFINE ios == LoadedIos(j.ios)
           services == LoadedServices(j.services)
<1>4. ASSUME NEW k \in Kinds
      PROVE  /\ ios[k] \in Seq(IoRecords) /\ NamesOnce(ios[k])
             /\ \A i \in DOMAIN ios[k] :
                  Parsed(ios[k][i].type, ios[k][i].constraint) = ios[k][i].constraint
  <2> DEFINE s == FirstOnly(j.ios[k])
             t == ios[k]
  <2>1. s \in Seq(IoRecords) /\ NamesOnce(s)
    BY <1>2
  <2>2. t = MapSeq(s, LoadedIo)
    BY DEF LoadedIos
  <2> HIDE DEF s, t
  <2>3. /\ t \in Seq(IoRecords) /\ NamesOnce(t) /\ DOMAIN t = DOMAIN s
        /\ \A i \in DOMAIN s : t[i] = [s[i] EXCEPT !.constraint = Parsed(s[i].type, s[i].constraint)]
    BY <2>1, <2>2, IosRead
  <2>4. ASSUME NEW i \in DOMAIN t
        PROVE  Parsed(t[i].type, t[i].constraint) = t[i].constraint
    <3>1. s[i] \in IoRecords
      BY <2>1, <2>3
    <3>2. /\ t[i].type = s[i].type
          /\ t[i].constraint = Parsed(s[i].type, s[i].constraint)
          /\ s[i].constraint \in Limits \cup {None}
      BY <2>3, <3>1 DEF IoRecords
    <3> QED
      BY <3>2, ParsedAgain
  <2> QED
    BY <2>3, <2>4 DEF t
<1>5. services \in Seq(ServiceRecords) /\ NamesOnce(services)
  BY <1>3, ServicesRead DEF LoadedServices
<1>6. ios \in [Kinds -> Seq(IoRecords)]
  <2>1. ios = [k \in Kinds |-> ios[k]]
    BY DEF LoadedIos
  <2> HIDE DEF ios
  <2> QED
    BY <1>4, <2>1
<1> HIDE DEF ios, services
<1>7. Loaded(j) = [name |-> j.name, class |-> j.class, explicit |-> FALSE, package |-> j.package,
                   texts |-> j.texts, ios |-> ios, services |-> services]
  BY DEF Loaded, ios, services
<1>8. Loaded(j) \in Definitions
  BY <1>1, <1>5, <1>6, <1>7 DEF Definitions
<1>9. Loaded(j).ios = ios /\ Loaded(j).services = services
  BY <1>7
<1> QED
  BY <1>4, <1>5, <1>8, <1>9 DEF Sound

\* Saving and loading keep a definition whose names are there once and whose
\* constraints suit their types.
LEMMA LoadedAsKept ==
  ASSUME NEW d \in Definitions, Sound(d)
  PROVE  Loaded(Exported(d)) = Kept(d)
<1>1. d.ios \in [Kinds -> Seq(IoRecords)] /\ d.services \in Seq(ServiceRecords)
  BY DEF Definitions
<1>2. /\ \A k \in Kinds :
           /\ NamesOnce(d.ios[k])
           /\ \A i \in DOMAIN d.ios[k] :
                Parsed(d.ios[k][i].type, d.ios[k][i].constraint) = d.ios[k][i].constraint
      /\ NamesOnce(d.services)
  BY DEF Sound
<1>3. LoadedIos(ExportedIos(d.ios)) = ExportedIos(d.ios)
  <2>1. ASSUME NEW k \in Kinds
        PROVE  MapSeq(FirstOnly(MapSeq(d.ios[k], ExportedIo)), LoadedIo) = MapSeq(d.ios[k], ExportedIo)
    <3> DEFINE s == d.ios[k]
               t == MapSeq(s, ExportedIo)
               u == MapSeq(t, LoadedIo)
    <3>1. s \in Seq(IoRecords) /\ NamesOnce(s)
      BY <1>1, <1>2
    <3>2. /\ t \in Seq(IoRecords) /\ NamesOnce(t) /\ DOMAIN t = DOMAIN s
          /\ \A i \in DOMAIN s : t[i] = [s[i] EXCEPT !.constraint = Written(s[i].constraint)]
      <4> HIDE DEF s
      <4> QED
        BY <3>1, IosWritten
    <3>3. FirstOnly(t) = t
      <4> HIDE DEF t
      <4> QED
        BY <3>2, FirstOnlyFacts
    <3>4. /\ u \in Seq(IoRecords) /\ DOMAIN u = DOMAIN t
          /\ \A i \in DOMAIN t : u[i] = [t[i] EXCEPT !.constraint = Parsed(t[i].type, t[i].constraint)]
      <4> HIDE DEF t
      <4> QED
        BY <3>2, IosRead
    <3>5. \A i \in DOMAIN s : Parsed(s[i].type, s[i].constraint) = s[i].constraint
      BY <1>2
    <3> HIDE DEF s, t, u
    <3>6. ASSUME NEW i \in DOMAIN s
          PROVE  u[i] = t[i]
      <4>1. s[i] \in IoRecords /\ t[i] \in IoRecords
        BY <3>1, <3>2
      <4>2. /\ t[i].type = s[i].type /\ t[i].constraint = Written(s[i].constraint)
            /\ s[i].constraint \in Limits \cup {None}
        BY <3>2, <4>1 DEF IoRecords
      <4>3. Parsed(t[i].type, t[i].constraint) = t[i].constraint
        BY <3>5, <4>2, ParsedAgain
      <4> QED
        BY <3>2, <3>4, <4>1, <4>3 DEF IoRecords
    <3>7. u = t
      BY <3>2, <3>4, <3>6
    <3> QED
      BY <3>3, <3>7 DEF s, t, u
  <2> QED
    BY <2>1 DEF LoadedIos, ExportedIos
<1>4. LoadedServices(ExportedServices(d.services)) = MapSeq(d.services, LAMBDA s : [s EXCEPT !.cb = FALSE])
  <2> DEFINE s == d.services
             t == ExportedServices(s)
             u == MapSeq(t, LoadedService)
  <2>1. s \in Seq(ServiceRecords) /\ NamesOnce(s)
    BY <1>1, <1>2
  <2>2. /\ t \in Seq(ServiceTexts) /\ NamesOnce(t) /\ DOMAIN t = DOMAIN s
        /\ \A i \in DOMAIN s : t[i] = ExportedService(s[i])
    <3> HIDE DEF s
    <3> QED
      BY <2>1, ServicesWritten
  <2>3. FirstOnly(t) = t
    <3> HIDE DEF t
    <3> QED
      BY <2>2, FirstOnlyFacts
  <2>4. /\ u \in Seq(ServiceRecords) /\ DOMAIN u = DOMAIN t
        /\ \A i \in DOMAIN t : u[i] = LoadedService(t[i])
    <3> HIDE DEF t
    <3> QED
      BY <2>2, ServicesRead
  <2>5. LoadedServices(t) = u
    BY <2>3 DEF LoadedServices
  <2> HIDE DEF t, u
  <2>6. ASSUME NEW i \in DOMAIN s
        PROVE  u[i] = [s[i] EXCEPT !.cb = FALSE]
    <3>1. s[i] \in ServiceRecords
      BY <2>1
    <3>2. u[i] = LoadedService(ExportedService(s[i]))
      BY <2>2, <2>4
    <3>3. ASSUME NEW r \in ServiceRecords
          PROVE  LoadedService(ExportedService(r)) = [r EXCEPT !.cb = FALSE]
      <4>1. ExportedService(r) = [name |-> r.name, described |-> r.described, args |-> r.args,
                                  replies |-> r.replies]
        BY DEF ExportedService
      <4>2. LoadedService(ExportedService(r)) =
              [name |-> r.name, described |-> r.described, cb |-> FALSE, args |-> r.args,
               replies |-> r.replies]
        BY <4>1 DEF LoadedService
      <4> QED
        <5>1. ASSUME NEW v
              PROVE  [r EXCEPT !.cb = v] =
                       [name |-> r.name, described |-> r.described, cb |-> v, args |-> r.args,
                        replies |-> r.replies]
          BY <3>3 DEF ServiceRecords
        <5> QED
          BY <4>2, <5>1
    <3> HIDE DEF s
    <3> QED
      BY <3>1, <3>2, <3>3
  <2>7. u = [i \in DOMAIN s |-> [s[i] EXCEPT !.cb = FALSE]]
    <3> HIDE DEF s
    <3> QED
      BY <2>2, <2>4, <2>6
  <2>8. MapSeq(s, LAMBDA x : [x EXCEPT !.cb = FALSE]) = [i \in DOMAIN s |-> [s[i] EXCEPT !.cb = FALSE]]
    BY DEF MapSeq
  <2> QED
    BY <2>5, <2>7, <2>8 DEF t
<1> DEFINE ios == ExportedIos(d.ios)
           services == MapSeq(d.services, LAMBDA s : [s EXCEPT !.cb = FALSE])
<1> HIDE DEF ios, services
<1>5. Loaded(Exported(d)) =
        [name |-> d.name, class |-> d.class, explicit |-> FALSE, package |-> d.package,
         texts |-> d.texts, ios |-> ios, services |-> services]
  BY <1>3, <1>4 DEF Loaded, Exported, ios, services
<1>6. Kept(d) = [d EXCEPT !.explicit = FALSE, !.ios = ios, !.services = services]
  BY DEF Kept, ios, services
<1> QED
  BY <1>5, <1>6 DEF Definitions

\* A definition that the functions of the library make.
WellMade(d) == d \in Definitions /\ Sound(d)

\* The constraints of a sequence are such as they are parsed.
AllParsed(s) == \A i \in DOMAIN s : Parsed(s[i].type, s[i].constraint) = s[i].constraint

LEMMA WellMadeParts ==
  ASSUME NEW d, WellMade(d)
  PROVE  /\ d.name \in Names /\ d.class \in Names \cup {None}
         /\ d.ios \in [Kinds -> Seq(IoRecords)] /\ d.services \in Seq(ServiceRecords)
         /\ \A k \in Kinds : NamesOnce(d.ios[k]) /\ AllParsed(d.ios[k])
         /\ NamesOnce(d.services)
BY DEF WellMade, Definitions, Sound, AllParsed

LEMMA WithIosMade ==
  ASSUME WellMade(definition), NEW k \in Kinds,
         NEW s \in Seq(IoRecords), NamesOnce(s), AllParsed(s)
  PROVE  WellMade(WithIos(k, s))
<1> DEFINE ios == [definition.ios EXCEPT ![k] = s]
           d == WithIos(k, s)
<1>1. definition \in Definitions /\ definition.ios \in [Kinds -> Seq(IoRecords)]
  BY DEF WellMade, Definitions
<1>2. ios \in [Kinds -> Seq(IoRecords)] /\ \A m \in Kinds : ios[m] = IF m = k THEN s ELSE definition.ios[m]
  BY <1>1
<1>3. d = [definition EXCEPT !.ios = ios]
  BY DEF WithIos
<1> HIDE DEF ios, d
<1>4. d \in Definitions /\ d.ios = ios /\ d.services = definition.services
  BY <1>1, <1>2, <1>3 DEF Definitions
<1>5. Sound(d)
  BY <1>2, <1>4, WellMadeParts DEF Sound, AllParsed
<1> QED
  BY <1>4, <1>5 DEF WellMade, d

LEMMA WithServicesMade ==
  ASSUME WellMade(definition), NEW s \in Seq(ServiceRecords), NamesOnce(s)
  PROVE  WellMade(WithServices(s))
<1> DEFINE d == WithServices(s)
<1>1. definition \in Definitions
  BY DEF WellMade
<1>2. d = [definition EXCEPT !.services = s]
  BY DEF WithServices
<1> HIDE DEF d
<1>3. d \in Definitions /\ d.services = s /\ d.ios = definition.ios
  BY <1>1, <1>2 DEF Definitions
<1>4. Sound(d)
  BY <1>3, WellMadeParts DEF Sound, AllParsed
<1> QED
  BY <1>3, <1>4 DEF WellMade, d

\* Renaming keeps a definition well made (igsagent_set_name).
LEMMA RenamedMade ==
  ASSUME NEW d, WellMade(d), NEW n \in Names
  PROVE  WellMade(Renamed(d, n))
<1> DEFINE class == IF d.class = None \/ (d.class = d.name /\ ~d.explicit) THEN n ELSE d.class
           e == Renamed(d, n)
<1>1. d \in Definitions /\ class \in Names \cup {None}
  BY WellMadeParts DEF WellMade
<1>2. e = [d EXCEPT !.name = n, !.class = class]
  BY <1>1 DEF Renamed, Definitions
<1> HIDE DEF class, e
<1>3. e \in Definitions /\ e.ios = d.ios /\ e.services = d.services
  BY <1>1, <1>2 DEF Definitions
<1> QED
  BY <1>3 DEF WellMade, Sound, e

\* The inductive invariant.  What the agent holds, what it wrote, and what it
\* is about to be called.
DocumentsInv ==
  /\ WellMade(definition)
  /\ json.full \in Documents
  /\ file \in Documents \cup {None}
  /\ loading \in Names \cup {None}
  /\ CacheCurrent

\* Texts and copies are with the peers that joined, of an agent that runs.
HoldersInv ==
  /\ DOMAIN channel = Peers /\ DOMAIN copy = Peers
  /\ joined # {} => started
  /\ \A p \in Peers : channel[p] # <<>> \/ copy[p] # None => p \in joined

DefinitionInv == DocumentsInv /\ HoldersInv

LEMMA HoldersSame == ASSUME HoldersInv, UNCHANGED network PROVE HoldersInv'
BY DEF HoldersInv, network

LEMMA ExportsFull == \A d : Exports(d).full = Exported(d)
BY DEF Exports

\* The documents after an export of a definition that is well made.
LEMMA ExportMade ==
  ASSUME DocumentsInv, NEW d, WellMade(d), definition' = d, Export(d),
         file' \in Documents \cup {None}, loading' \in Names \cup {None},
         UNCHANGED <<mapping, mapJson>>
  PROVE  DocumentsInv'
<1>1. json' = Exports(d) /\ WellMade(definition')
  BY DEF Export
<1>2. json'.full \in Documents
  BY <1>1, ExportsFull, ExportedDocument DEF WellMade
<1>3. CacheCurrent'
  BY <1>1 DEF DocumentsInv, CacheCurrent
<1>4. WellMade(definition)'
  BY <1>1 DEF WellMade, Sound
<1> QED
  BY <1>2, <1>3, <1>4 DEF DocumentsInv

\* Every edit ends with an export.
LEMMA CommitMade ==
  ASSUME DefinitionInv, NEW d, WellMade(d), Commit(d)
  PROVE  DefinitionInv'
<1>1. /\ definition' = d /\ Export(d) /\ UNCHANGED <<file, loading, mapping, mapJson>>
      /\ UNCHANGED network
  BY DEF Commit, EditFrame
<1>2. file' \in Documents \cup {None} /\ loading' \in Names \cup {None}
  BY <1>1 DEF DefinitionInv, DocumentsInv
<1>3. DocumentsInv'
  BY <1>1, <1>2, ExportMade DEF DefinitionInv
<1> QED
  BY <1>1, <1>3, HoldersSame DEF DefinitionInv

\* The edits of inputs, outputs and attributes.
LEMMA IoCreateKeeps ==
  ASSUME DefinitionInv, NEW k \in Kinds, NEW n \in Ios, NEW type \in Types, IoCreate(k, n, type)
  PROVE  DefinitionInv'
<1> DEFINE s == definition.ios[k]
           x == [name |-> n, type |-> type, constraint |-> None, notes |-> {}]
           t == Append(s, x)
<1>1. WellMade(definition)
  BY DEF DefinitionInv, DocumentsInv
<1>2. s \in Seq(IoRecords) /\ NamesOnce(s) /\ AllParsed(s)
  BY <1>1, WellMadeParts
<1>3. x \in IoRecords /\ x.name = n /\ Parsed(x.type, x.constraint) = x.constraint
  BY DefinitionAssumption DEF IoRecords, Parsed
<1>4. ~HasName(s, n) /\ Commit(WithIos(k, t))
  BY DEF IoCreate, MayCreate
<1> HIDE DEF s, x
<1>5. t \in Seq(IoRecords) /\ NamesOnce(t) /\ AllParsed(t)
  <2>1. t \in Seq(IoRecords) /\ NamesOnce(t)
    BY <1>2, <1>3, <1>4, AddedFacts
  <2>2. \A i \in DOMAIN t : t[i] = x \/ (i \in DOMAIN s /\ t[i] = s[i])
    BY <1>2, <1>3, AddedFacts
  <2> HIDE DEF t
  <2>3. AllParsed(t)
    BY <1>2, <1>3, <2>2 DEF AllParsed
  <2> QED
    BY <2>1, <2>3
<1> HIDE DEF t
<1> QED
  BY <1>1, <1>4, <1>5, WithIosMade, CommitMade

LEMMA IoRemoveKeeps ==
  ASSUME DefinitionInv, NEW k \in Kinds, NEW n \in Ios, IoRemove(k, n)
  PROVE  DefinitionInv'
<1> DEFINE s == definition.ios[k]
           t == Dropped(s, n)
<1>1. WellMade(definition)
  BY DEF DefinitionInv, DocumentsInv
<1>2. s \in Seq(IoRecords) /\ NamesOnce(s) /\ AllParsed(s)
  BY <1>1, WellMadeParts
<1>3. Commit(WithIos(k, t))
  BY DEF IoRemove
<1> HIDE DEF s
<1>4. /\ t \in Seq(IoRecords) /\ NamesOnce(t)
      /\ \A i \in DOMAIN t : \E j \in DOMAIN s : t[i] = s[j]
  BY <1>2, DroppedFacts
<1> HIDE DEF t
<1>5. AllParsed(t)
  BY <1>2, <1>4 DEF AllParsed
<1> QED
  BY <1>1, <1>3, <1>4, <1>5, WithIosMade, CommitMade

\* An IO that is changed in place.
LEMMA IoChanged ==
  ASSUME WellMade(definition), NEW k \in Kinds, NEW n, HasName(definition.ios[k], n),
         NEW x \in IoRecords, x.name = n, Parsed(x.type, x.constraint) = x.constraint
  PROVE  WellMade(WithIos(k, Changed(definition.ios[k], n, x)))
<1> DEFINE s == definition.ios[k]
           t == Changed(s, n, x)
<1>1. s \in Seq(IoRecords) /\ NamesOnce(s) /\ AllParsed(s)
  BY WellMadeParts
<1>2. HasName(s, n)
  OBVIOUS
<1>3. WellMade(WithIos(k, t))
  <2> HIDE DEF s
  <2>1. /\ t \in Seq(IoRecords) /\ NamesOnce(t) /\ DOMAIN t = DOMAIN s
        /\ \A i \in DOMAIN s : t[i] = IF i = OfName(s, n) THEN x ELSE s[i]
    BY <1>1, <1>2, ChangedFacts
  <2> HIDE DEF t
  <2>2. AllParsed(t)
    BY <1>1, <2>1 DEF AllParsed
  <2> QED
    BY <2>1, <2>2, WithIosMade
<1> QED
  BY <1>3

LEMMA AnnotateKeeps ==
  ASSUME DefinitionInv, NEW k \in Kinds, NEW n \in Ios, NEW note \in IoNotes, Annotate(k, n, note)
  PROVE  DefinitionInv'
<1> DEFINE s == definition.ios[k]
           io == Get(s, n)
           x == [io EXCEPT !.notes = @ \cup {note}]
<1>1. WellMade(definition)
  BY DEF DefinitionInv, DocumentsInv
<1>2. s \in Seq(IoRecords) /\ NamesOnce(s) /\ AllParsed(s)
  BY <1>1, WellMadeParts
<1>3. HasName(s, n) /\ Commit(WithIos(k, Changed(s, n, x)))
  BY DEF Annotate
<1>4. io \in IoRecords /\ io.name = n /\ Parsed(io.type, io.constraint) = io.constraint
  <2> HIDE DEF s
  <2> QED
    BY <1>2, <1>3, NameFound DEF AllParsed
<1>5. x \in IoRecords /\ x.name = n /\ x.type = io.type /\ x.constraint = io.constraint
  <2> HIDE DEF io
  <2> QED
    BY <1>4 DEF IoRecords
<1> HIDE DEF x
<1>6. WellMade(WithIos(k, Changed(s, n, x)))
  BY <1>1, <1>3, <1>4, <1>5, IoChanged
<1> QED
  BY <1>3, <1>6, CommitMade

\* A constraint that is refused leaves none, and the texts still have the one
\* there was, unless there was none (s_model_add_constraint).
LEMMA AddConstraintKeeps ==
  ASSUME DefinitionInv, NEW k \in Kinds, NEW n \in Ios, NEW c \in Constraints, AddConstraint(k, n, c)
  PROVE  DefinitionInv'
<1> DEFINE s == definition.ios[k]
           io == Get(s, n)
           x == [io EXCEPT !.constraint = Parsed(io.type, c)]
           t == Changed(s, n, x)
           d == WithIos(k, t)
<1>1. WellMade(definition) /\ CacheCurrent
  BY DEF DefinitionInv, DocumentsInv
<1>2. s \in Seq(IoRecords) /\ NamesOnce(s) /\ AllParsed(s)
  BY <1>1, WellMadeParts
<1>3. HasName(s, n)
  BY DEF AddConstraint
<1>4. /\ io \in IoRecords /\ io.name = n
      /\ OfName(s, n) \in 1..Len(s) /\ io = s[OfName(s, n)]
  <2> HIDE DEF s
  <2> QED
    BY <1>2, <1>3, NameFound
<1>5. Parsed(io.type, c) \in Limits \cup {None}
      /\ Parsed(io.type, Parsed(io.type, c)) = Parsed(io.type, c)
  BY DefinitionAssumption, ParsedAgain
<1>6. /\ x \in IoRecords /\ x.name = n /\ x.type = io.type
      /\ x.constraint = Parsed(io.type, c)
  <2> HIDE DEF io
  <2> QED
    BY <1>4, <1>5 DEF IoRecords
<1>7. WellMade(d)
  <2> HIDE DEF x
  <2> QED
    BY <1>1, <1>3, <1>5, <1>6, IoChanged
<1>8. CASE Parsed(io.type, c) # None
  <2>1. Commit(d)
    BY <1>8 DEF AddConstraint
  <2> HIDE DEF d
  <2> QED
    BY <1>7, <2>1, CommitMade
<1>9. CASE Parsed(io.type, c) = None
  <2>1. /\ definition' = d /\ uncached' = (uncached \/ io.constraint # None)
        /\ UNCHANGED json /\ EditFrame
    BY <1>9 DEF AddConstraint
  <2>2. io.constraint = None => d = definition
    <3>1. SUFFICES ASSUME io.constraint = None
                   PROVE  d = definition
      OBVIOUS
    <3>2. x = io
      <4> HIDE DEF io
      <4> QED
        BY <1>4, <1>9, <3>1 DEF IoRecords
    <3>3. t = s
      <4> HIDE DEF s, io, x
      <4> QED
        BY <1>2, <1>4, <3>2 DEF Changed
    <3>4. definition \in Definitions
      BY <1>1 DEF WellMade
    <3> HIDE DEF t
    <3> QED
      BY <3>3, <3>4 DEF WithIos, Definitions
  <2> HIDE DEF d, io
  <2>3. CacheCurrent'
    BY <1>1, <2>1, <2>2 DEF CacheCurrent, EditFrame
  <2>4. WellMade(definition)'
    BY <1>7, <2>1 DEF WellMade, Sound
  <2> QED
    BY <2>1, <2>3, <2>4, HoldersSame DEF DefinitionInv, DocumentsInv, EditFrame
<1> QED
  BY <1>8, <1>9

\* A service that is changed in place.
LEMMA ServiceChanged ==
  ASSUME WellMade(definition), NEW n, HasName(definition.services, n),
         NEW x \in ServiceRecords, x.name = n
  PROVE  WellMade(WithService(n, x))
<1> DEFINE s == definition.services
           t == Changed(s, n, x)
<1>1. s \in Seq(ServiceRecords) /\ NamesOnce(s) /\ HasName(s, n)
  BY WellMadeParts
<1>2. WithService(n, x) = WithServices(t)
  BY DEF WithService
<1>3. t \in Seq(ServiceRecords) /\ NamesOnce(t)
  <2> HIDE DEF s
  <2> QED
    BY <1>1, ChangedFacts
<1> HIDE DEF t
<1> QED
  BY <1>2, <1>3, WithServicesMade

\* The service that an edit finds.
LEMMA ServiceFound ==
  ASSUME WellMade(definition), NEW n, HasName(definition.services, n)
  PROVE  /\ Service(n) \in ServiceRecords /\ Service(n).name = n
         /\ Service(n).args \in Seq(Arguments) /\ Service(n).replies \in Seq(Replies)
         /\ OfName(definition.services, n) \in DOMAIN definition.services
         /\ Service(n) = definition.services[OfName(definition.services, n)]
<1> DEFINE s == definition.services
<1>1. s \in Seq(ServiceRecords) /\ HasName(s, n)
  BY WellMadeParts
<1>2. Service(n) = Get(s, n)
  BY DEF Service
<1>3. /\ OfName(s, n) \in 1..Len(s) /\ Get(s, n) = s[OfName(s, n)] /\ Get(s, n).name = n
      /\ Get(s, n) \in ServiceRecords
  <2> HIDE DEF s
  <2> QED
    BY <1>1, NameFound
<1>4. Service(n) \in ServiceRecords
  BY <1>2, <1>3
<1>5. Service(n).args \in Seq(Arguments) /\ Service(n).replies \in Seq(Replies)
  BY <1>4 DEF ServiceRecords
<1> QED
  BY <1>1, <1>2, <1>3, <1>5

\* A callback that is registered for a service that was loaded: what is exported
\* stays the same (igsagent_service_init).
LEMMA ServiceInitKeeps ==
  ASSUME DefinitionInv, NEW n \in Ios, ServiceInit(n)
  PROVE  DefinitionInv'
<1> DEFINE s == definition.services
<1>1. WellMade(definition) /\ CacheCurrent
  BY DEF DefinitionInv, DocumentsInv
<1>2. s \in Seq(ServiceRecords) /\ NamesOnce(s)
  BY <1>1, WellMadeParts
<1>3. CASE ~HasName(s, n)
  <2> DEFINE x == [name |-> n, described |-> FALSE, cb |-> TRUE, args |-> <<>>, replies |-> <<>>]
             t == Append(s, x)
  <2>1. Commit(WithServices(t))
    BY <1>3 DEF ServiceInit
  <2>2. x \in ServiceRecords /\ x.name = n
    BY DEF ServiceRecords
  <2> HIDE DEF x, s
  <2>3. t \in Seq(ServiceRecords) /\ NamesOnce(t)
    BY <1>2, <1>3, <2>2, AddedFacts
  <2> HIDE DEF t
  <2> QED
    BY <1>1, <2>1, <2>3, WithServicesMade, CommitMade
<1>4. CASE HasName(s, n)
  <2> DEFINE x == [Service(n) EXCEPT !.cb = TRUE]
             t == Changed(s, n, x)
             d == WithService(n, x)
  <2>1. definition' = d /\ EditFrame /\ UNCHANGED <<json, uncached>>
    BY <1>4 DEF ServiceInit
  <2>2. /\ Service(n) \in ServiceRecords /\ Service(n).name = n
        /\ OfName(s, n) \in DOMAIN s /\ Service(n) = s[OfName(s, n)]
    BY <1>1, <1>4, ServiceFound
  <2>3. x \in ServiceRecords /\ x.name = n /\ ExportedService(x) = ExportedService(Service(n))
    <3>1. ASSUME NEW r \in ServiceRecords, NEW v \in BOOLEAN
          PROVE  /\ [r EXCEPT !.cb = v] \in ServiceRecords /\ [r EXCEPT !.cb = v].name = r.name
                 /\ ExportedService([r EXCEPT !.cb = v]) = ExportedService(r)
      BY <3>1 DEF ServiceRecords, ExportedService
    <3> QED
      BY <2>2, <3>1
  <2>4. WellMade(d)
    <3> HIDE DEF x
    <3> QED
      BY <1>1, <1>4, <2>3, ServiceChanged
  <2>5. ExportedServices(t) = ExportedServices(s)
    <3> HIDE DEF x, s
    <3>1. DOMAIN t = DOMAIN s /\ t \in Seq(ServiceRecords)
          /\ \A i \in DOMAIN s : t[i] = IF i = OfName(s, n) THEN x ELSE s[i]
      BY <1>2, <1>4, <2>3, ChangedFacts
    <3> HIDE DEF t
    <3>2. \A i \in DOMAIN s : ExportedService(t[i]) = ExportedService(s[i])
      BY <2>2, <2>3, <3>1
    <3> QED
      BY <3>1, <3>2 DEF ExportedServices, MapSeq
  <2>6. Exported(d) = Exported(definition)
    <3> HIDE DEF t
    <3>1. d = [definition EXCEPT !.services = t]
      BY DEF t, WithService, WithServices
    <3>2. definition \in Definitions
      BY <1>1 DEF WellMade
    <3> HIDE DEF d
    <3>3. /\ d.name = definition.name /\ d.class = definition.class
          /\ d.package = definition.package /\ d.texts = definition.texts
          /\ d.ios = definition.ios /\ d.services = t
      BY <3>1, <3>2 DEF Definitions
    <3> QED
      BY <2>5, <3>3 DEF Exported
  <2>7. Exports(d) = Exports(definition)
    <3> HIDE DEF d
    <3> QED
      BY <2>6 DEF Exports, ExportedV4, ExportedV3
  <2> HIDE DEF d
  <2>8. CacheCurrent'
    BY <1>1, <2>1, <2>7 DEF CacheCurrent, EditFrame
  <2>9. WellMade(definition)'
    BY <2>1, <2>4 DEF WellMade, Sound
  <2> QED
    BY <2>1, <2>8, <2>9, HoldersSame DEF DefinitionInv, DocumentsInv, EditFrame
<1> QED
  BY <1>3, <1>4

LEMMA ServiceRemoveKeeps ==
  ASSUME DefinitionInv, NEW n \in Ios, ServiceRemove(n)
  PROVE  DefinitionInv'
<1> DEFINE s == definition.services
           t == Dropped(s, n)
<1>1. WellMade(definition)
  BY DEF DefinitionInv, DocumentsInv
<1>2. s \in Seq(ServiceRecords) /\ NamesOnce(s)
  BY <1>1, WellMadeParts
<1>3. Commit(WithServices(t))
  BY DEF ServiceRemove
<1> HIDE DEF s
<1>4. t \in Seq(ServiceRecords) /\ NamesOnce(t)
  BY <1>2, DroppedFacts
<1> HIDE DEF t
<1> QED
  BY <1>1, <1>3, <1>4, WithServicesMade, CommitMade

\* What the edits of a service leave of its record.
LEMMA ServiceParts ==
  ASSUME NEW r \in ServiceRecords
  PROVE  /\ [r EXCEPT !.described = TRUE] \in ServiceRecords
         /\ [r EXCEPT !.described = TRUE].name = r.name
         /\ \A args \in Seq(Arguments) :
              [r EXCEPT !.args = args] \in ServiceRecords /\ [r EXCEPT !.args = args].name = r.name
         /\ \A replies \in Seq(Replies) :
              [r EXCEPT !.replies = replies] \in ServiceRecords
              /\ [r EXCEPT !.replies = replies].name = r.name
<1> DEFINE A == Seq(Arguments)
           R == Seq(Replies)
<1>1. ServiceRecords = [name : Ios, described : BOOLEAN, cb : BOOLEAN, args : A, replies : R]
  BY DEF ServiceRecords
<1> HIDE DEF A, R
<1>2. /\ [r EXCEPT !.described = TRUE] \in ServiceRecords
      /\ [r EXCEPT !.described = TRUE].name = r.name
  BY <1>1
<1>3. \A args \in A :
        [r EXCEPT !.args = args] \in ServiceRecords /\ [r EXCEPT !.args = args].name = r.name
  BY <1>1
<1>4. \A replies \in R :
        [r EXCEPT !.replies = replies] \in ServiceRecords
        /\ [r EXCEPT !.replies = replies].name = r.name
  BY <1>1
<1> QED
  BY <1>2, <1>3, <1>4 DEF A, R

LEMMA ServiceDescribeKeeps ==
  ASSUME DefinitionInv, NEW n \in Ios, ServiceDescribe(n)
  PROVE  DefinitionInv'
<1> DEFINE x == [Service(n) EXCEPT !.described = TRUE]
<1>1. WellMade(definition) /\ HasName(definition.services, n) /\ Commit(WithService(n, x))
  BY DEF DefinitionInv, DocumentsInv, ServiceDescribe
<1>2. x \in ServiceRecords /\ x.name = n
  BY <1>1, ServiceFound, ServiceParts
<1> HIDE DEF x
<1> QED
  BY <1>1, <1>2, ServiceChanged, CommitMade

\* The arguments after an edit are arguments.
LEMMA ArgumentsEdited ==
  ASSUME NEW args \in Seq(Arguments), NEW a \in Ios, NEW type \in Types,
         NEW e \in ArgumentEdits(args, a, type)
  PROVE  e \in Seq(Arguments)
<1> DEFINE x == [name |-> a, type |-> type, described |-> FALSE]
           y == [Get(args, a) EXCEPT !.described = TRUE]
<1>1. \/ e = Append(args, x)
      \/ HasName(args, a) /\ (e = Dropped(args, a) \/ e = Changed(args, a, y))
  BY DEF ArgumentEdits
<1>2. x \in Arguments
  BY DefinitionAssumption DEF Arguments
<1> HIDE DEF x
<1>3. CASE e = Append(args, x)
  BY <1>2, <1>3, AddedFacts
<1>4. CASE e = Dropped(args, a)
  BY <1>4, DroppedFacts
<1>5. CASE HasName(args, a) /\ e = Changed(args, a, y)
  <2>1. Get(args, a) \in Arguments
    BY <1>5, NameFound
  <2>2. y \in Arguments
    BY <2>1 DEF Arguments
  <2> HIDE DEF y
  <2> QED
    BY <1>5, <2>2, ChangedFacts
<1> QED
  BY <1>1, <1>3, <1>4, <1>5

LEMMA EditArgumentsKeeps ==
  ASSUME DefinitionInv, NEW n \in Ios, NEW a \in Ios, NEW type \in Types, EditArguments(n, a, type)
  PROVE  DefinitionInv'
<1>1. WellMade(definition) /\ HasName(definition.services, n)
  BY DEF DefinitionInv, DocumentsInv, EditArguments
<1>2. PICK args \in ArgumentEdits(Service(n).args, a, type) :
        Commit(WithService(n, [Service(n) EXCEPT !.args = args]))
  BY DEF EditArguments
<1>3. args \in Seq(Arguments)
  BY <1>1, ServiceFound, ArgumentsEdited
<1> DEFINE x == [Service(n) EXCEPT !.args = args]
<1>4. x \in ServiceRecords /\ x.name = n
  BY <1>1, <1>3, ServiceFound, ServiceParts
<1> HIDE DEF x
<1>5. WellMade(WithService(n, x))
  BY <1>1, <1>4, ServiceChanged
<1>6. Commit(WithService(n, x))
  BY <1>2 DEF x
<1> QED
  BY <1>5, <1>6, CommitMade

\* The replies of a service that is changed.
LEMMA RepliesChanged ==
  ASSUME DefinitionInv, NEW n, HasName(definition.services, n), NEW replies \in Seq(Replies),
         Commit(WithService(n, [Service(n) EXCEPT !.replies = replies]))
  PROVE  DefinitionInv'
<1> DEFINE x == [Service(n) EXCEPT !.replies = replies]
<1>1. WellMade(definition)
  BY DEF DefinitionInv, DocumentsInv
<1>2. x \in ServiceRecords /\ x.name = n
  BY <1>1, ServiceFound, ServiceParts
<1>3. Commit(WithService(n, x))
  OBVIOUS
<1> HIDE DEF x
<1>4. WellMade(WithService(n, x))
  BY <1>1, <1>2, ServiceChanged
<1> QED
  BY <1>3, <1>4, CommitMade

LEMMA ReplyAddKeeps ==
  ASSUME DefinitionInv, NEW n \in Ios, NEW r \in Ios, ReplyAdd(n, r)
  PROVE  DefinitionInv'
<1> DEFINE x == [name |-> r, described |-> FALSE, args |-> <<>>]
           t == Append(Service(n).replies, x)
<1>1. WellMade(definition) /\ HasName(definition.services, n)
  BY DEF DefinitionInv, DocumentsInv, ReplyAdd
<1>2. x \in Replies
  BY DEF Replies
<1>3. Commit(WithService(n, [Service(n) EXCEPT !.replies = t]))
  BY DEF ReplyAdd
<1> HIDE DEF x
<1>4. t \in Seq(Replies)
  BY <1>1, <1>2, ServiceFound, AddedFacts
<1> HIDE DEF t
<1> QED
  BY <1>1, <1>3, <1>4, RepliesChanged

LEMMA EditReplyKeeps ==
  ASSUME DefinitionInv, NEW n \in Ios, NEW r \in Ios, NEW a \in Ios, NEW type \in Types,
         EditReply(n, r, a, type)
  PROVE  DefinitionInv'
<1> DEFINE replies == Service(n).replies
           reply == Get(replies, r)
           described == [reply EXCEPT !.described = TRUE]
           with(args) == [reply EXCEPT !.args = args]
<1>1. /\ WellMade(definition) /\ HasName(definition.services, n)
      /\ HasName(replies, r)
  BY DEF DefinitionInv, DocumentsInv, EditReply
<1>2. PICK edited \in {Dropped(replies, r), Changed(replies, r, described)}
             \cup {Changed(replies, r, with(args)) : args \in ArgumentEdits(reply.args, a, type)} :
        Commit(WithService(n, [Service(n) EXCEPT !.replies = edited]))
  BY DEF EditReply
<1>3. replies \in Seq(Replies)
  BY <1>1, ServiceFound
<1> HIDE DEF replies
<1>4. reply \in Replies
  BY <1>1, <1>3, NameFound
<1> HIDE DEF reply
<1>5. edited \in Seq(Replies)
  <2>1. CASE edited = Dropped(replies, r)
    BY <1>3, <2>1, DroppedFacts
  <2>2. CASE edited = Changed(replies, r, described)
    <3>1. described \in Replies
      BY <1>4 DEF Replies
    <3> HIDE DEF described
    <3> QED
      BY <1>1, <1>3, <2>2, <3>1, ChangedFacts
  <2>3. ASSUME NEW args \in ArgumentEdits(reply.args, a, type),
               edited = Changed(replies, r, with(args))
        PROVE  edited \in Seq(Replies)
    <3>1. reply.args \in Seq(Arguments)
      BY <1>4 DEF Replies
    <3>2. args \in Seq(Arguments)
      BY <3>1, ArgumentsEdited
    <3>3. with(args) \in Replies
      BY <1>4, <3>2 DEF Replies
    <3> HIDE DEF with
    <3> QED
      BY <1>1, <1>3, <2>3, <3>3, ChangedFacts
  <2> QED
    BY <2>1, <2>2, <2>3
<1> QED
  BY <1>1, <1>2, <1>5, RepliesChanged

\* The texts of the agent, its package, its class, its name.
LEMMA EditAgentKeeps ==
  ASSUME DefinitionInv, EditAgent
  PROVE  DefinitionInv'
<1>1. WellMade(definition) /\ definition \in Definitions
  BY DEF DefinitionInv, DocumentsInv, WellMade
<1>2. ASSUME NEW text \in Texts, SetText(text)
      PROVE  DefinitionInv'
  <2> DEFINE d == [definition EXCEPT !.texts = @ \cup {text}]
  <2>1. d \in Definitions /\ d.ios = definition.ios /\ d.services = definition.services
    BY <1>1 DEF Definitions
  <2>2. Commit(d)
    BY <1>2 DEF SetText
  <2> HIDE DEF d
  <2>3. WellMade(d)
    BY <1>1, <2>1 DEF WellMade, Sound
  <2> QED
    BY <2>2, <2>3, CommitMade
<1>3. ASSUME NEW n \in Names, SetPackage(n)
      PROVE  DefinitionInv'
  <2> DEFINE d == [definition EXCEPT !.package = n]
  <2>1. d \in Definitions /\ d.ios = definition.ios /\ d.services = definition.services
    BY <1>1 DEF Definitions
  <2>2. Commit(d)
    BY <1>3 DEF SetPackage
  <2> HIDE DEF d
  <2>3. WellMade(d)
    BY <1>1, <2>1 DEF WellMade, Sound
  <2> QED
    BY <2>2, <2>3, CommitMade
<1>4. ASSUME NEW n \in Names, SetClass(n)
      PROVE  DefinitionInv'
  <2> DEFINE d == [definition EXCEPT !.class = n, !.explicit = TRUE]
  <2>1. d \in Definitions /\ d.ios = definition.ios /\ d.services = definition.services
    BY <1>1 DEF Definitions
  <2>2. Commit(d)
    BY <1>4 DEF SetClass
  <2> HIDE DEF d
  <2>3. WellMade(d)
    BY <1>1, <2>1 DEF WellMade, Sound
  <2> QED
    BY <2>2, <2>3, CommitMade
<1>5. ASSUME NEW n \in Names, SetName(n)
      PROVE  DefinitionInv'
  BY <1>1, <1>5, RenamedMade, CommitMade DEF SetName
<1>6. ASSUME ClearDefinition
      PROVE  DefinitionInv'
  <2> DEFINE d == Empty(definition.name)
  <2>1. definition.name \in Names
    BY <1>1, WellMadeParts
  <2>2. /\ d \in Definitions /\ d.services = <<>>
        /\ \A k \in Kinds : d.ios[k] = <<>>
    BY <2>1 DEF Empty, Definitions, NoIo
  <2> HIDE DEF d
  <2>3. WellMade(d)
    BY <2>2 DEF WellMade, Sound, NamesOnce
  <2> QED
    BY <1>6, <2>3, CommitMade DEF ClearDefinition, d
<1> QED
  BY <1>2, <1>3, <1>4, <1>5, <1>6 DEF EditAgent

\* A definition that is loaded, and the name that is set after it
\* (igsagent_definition_load_str).
LEMMA LoadKeeps ==
  ASSUME DefinitionInv, NEW j \in Foreign \cup {file}, Load(j)
  PROVE  DefinitionInv'
<1>1. j \in Documents /\ IsValid(j)
  BY DefinitionAssumption DEF Load, DefinitionInv, DocumentsInv
<1>2. WellMade(Loaded(j))
  BY <1>1, LoadedDefinition DEF WellMade
<1>3. j.name \in Names
  BY <1>1 DEF Documents, IsValid
<1>4. /\ definition' = Loaded(j) /\ Export(Loaded(j)) /\ loading' = j.name
      /\ UNCHANGED <<mapping, mapJson, network, file>>
  BY DEF Load
<1>5. DocumentsInv'
  BY <1>2, <1>3, <1>4, ExportMade DEF DefinitionInv, DocumentsInv
<1> QED
  BY <1>4, <1>5, HoldersSame DEF DefinitionInv

LEMMA LoadNameKeeps ==
  ASSUME DefinitionInv, LoadName
  PROVE  DefinitionInv'
<1>1. WellMade(definition) /\ loading \in Names
  BY DEF DefinitionInv, DocumentsInv, LoadName
<1>2. /\ loading' = None /\ UNCHANGED <<mapping, mapJson, network, file>>
  BY DEF LoadName
<1>3. PICK n \in IF definition.name = loading THEN {loading} ELSE Names :
        IF n = definition.name
        THEN UNCHANGED <<definition, json, redefine, uncached>>
        ELSE /\ definition' = Renamed(definition, n)
             /\ Export(Renamed(definition, n)) /\ redefine' = TRUE
  BY DEF LoadName
<1>4. n \in Names
  BY <1>1, <1>3
<1>5. CASE n = definition.name
  <2>1. UNCHANGED <<definition, json, uncached>>
    BY <1>3, <1>5
  <2>2. DocumentsInv'
    BY <1>2, <2>1 DEF DefinitionInv, DocumentsInv, CacheCurrent, WellMade, Sound
  <2> QED
    BY <1>2, <2>2, HoldersSame DEF DefinitionInv
<1>6. CASE n # definition.name
  <2>1. definition' = Renamed(definition, n) /\ Export(Renamed(definition, n))
    BY <1>3, <1>6
  <2>2. WellMade(Renamed(definition, n))
    BY <1>1, <1>4, RenamedMade
  <2>3. DocumentsInv'
    BY <1>2, <2>1, <2>2, ExportMade DEF DefinitionInv, DocumentsInv
  <2> QED
    BY <1>2, <2>3, HoldersSame DEF DefinitionInv
<1> QED
  BY <1>5, <1>6

\* Every change of the mapping ends with its export.
LEMMA RemapMade ==
  ASSUME DefinitionInv, NEW m, Remap(m)
  PROVE  DefinitionInv'
<1>1. /\ mapping' = m /\ mapJson' = MapExports(m)
      /\ UNCHANGED <<definition, json, uncached, network, file, loading>>
  BY DEF Remap, MapExport
<1>2. DocumentsInv'
  BY <1>1 DEF DefinitionInv, DocumentsInv, CacheCurrent, WellMade, Sound
<1> QED
  BY <1>1, <1>2, HoldersSame DEF DefinitionInv

\* What leaves the documents of the agent and its files as they are.
LEMMA DocumentsSame ==
  ASSUME DocumentsInv, UNCHANGED <<definition, mapping, json, mapJson, uncached, file, loading>>
  PROVE  DocumentsInv'
BY DEF DocumentsInv, CacheCurrent, WellMade, Sound

LEMMA MappingKeeps ==
  ASSUME DefinitionInv, MappingStep
  PROVE  DefinitionInv'
<1>1. ASSUME NEW part \in {"maps", "splits"}, NEW e \in Elements, EditMapping(part, e)
      PROVE  DefinitionInv'
  BY <1>1, RemapMade DEF EditMapping
<1>2. ASSUME NEW m, MapRead(m)
      PROVE  DefinitionInv'
  BY <1>2, DocumentsSame, HoldersSame DEF MapRead, documents, DefinitionInv
<1>3. ASSUME NEW m, MapCommand(m)
      PROVE  DefinitionInv'
  BY <1>3, RemapMade DEF MapCommand
<1>4. ASSUME ClearMapping
      PROVE  DefinitionInv'
  BY <1>4, RemapMade DEF ClearMapping
<1>5. ASSUME MapLoad
      PROVE  DefinitionInv'
  <2>1. CASE SameMapping(comparing.new, comparing.current)
    BY <1>5, <2>1, DocumentsSame, HoldersSame DEF MapLoad, documents, DefinitionInv
  <2>2. CASE ~SameMapping(comparing.new, comparing.current)
    BY <1>5, <2>2, RemapMade DEF MapLoad
  <2> QED
    BY <2>1, <2>2
<1> QED
  BY <1>1, <1>2, <1>3, <1>4, <1>5 DEF MappingStep

\* A step of the network thread that sends to peers that joined.
LEMMA SentToJoined ==
  ASSUME DefinitionInv, started, DOMAIN channel' = Peers,
         \A p \in Peers : p \notin joined' => channel'[p] = channel[p],
         joined \subseteq joined', UNCHANGED <<definition, mapping, json, mapJson, uncached>>,
         UNCHANGED <<file, loading, started, copy>>
  PROVE  DefinitionInv'
<1>1. DocumentsInv'
  BY DocumentsSame DEF DefinitionInv
<1>2. HoldersInv'
  BY DEF DefinitionInv, HoldersInv
<1> QED
  BY <1>1, <1>2 DEF DefinitionInv

LEMMA LoopKeeps ==
  ASSUME DefinitionInv,
         Start \/ Stop \/ DefinitionTimer \/ MappingTimer \/ \E p \in Peers : Join(p) \/ Receive(p)
  PROVE  DefinitionInv'
<1>1. ASSUME Start
      PROVE  DefinitionInv'
  <2>1. DocumentsInv'
    BY <1>1, DocumentsSame DEF Start, DefinitionInv
  <2>2. HoldersInv'
    BY <1>1 DEF Start, DefinitionInv, HoldersInv
  <2> QED
    BY <2>1, <2>2 DEF DefinitionInv
<1>2. ASSUME Stop
      PROVE  DefinitionInv'
  <2>1. DocumentsInv'
    BY <1>2, DocumentsSame DEF Stop, DefinitionInv, documents
  <2>2. HoldersInv'
    BY <1>2 DEF Stop, HoldersInv
  <2> QED
    BY <2>1, <2>2 DEF DefinitionInv
<1>3. ASSUME DefinitionTimer
      PROVE  DefinitionInv'
  <2>1. DOMAIN channel' = Peers /\ \A p \in Peers : p \notin joined => channel'[p] = channel[p]
    BY <1>3 DEF DefinitionTimer, SendTo
  <2> QED
    BY <1>3, <2>1, SentToJoined DEF DefinitionTimer, users
<1>4. ASSUME MappingTimer
      PROVE  DefinitionInv'
  <2>1. DOMAIN channel' = Peers /\ \A p \in Peers : p \notin joined => channel'[p] = channel[p]
    BY <1>4 DEF MappingTimer, SendTo
  <2> QED
    BY <1>4, <2>1, SentToJoined DEF MappingTimer, users
<1>5. ASSUME NEW p \in Peers, Join(p)
      PROVE  DefinitionInv'
  <2>1. DOMAIN channel' = Peers /\ \A q \in Peers : q # p => channel'[q] = channel[q]
    BY <1>5 DEF Join, SendTo
  <2> QED
    BY <1>5, <2>1, SentToJoined DEF Join, users, documents
<1>6. ASSUME NEW p \in Peers, Receive(p)
      PROVE  DefinitionInv'
  <2>1. DocumentsInv'
    BY <1>6, DocumentsSame DEF Receive, DefinitionInv, documents, users
  <2>2. /\ DOMAIN channel' = DOMAIN channel /\ DOMAIN copy' = DOMAIN copy
        /\ \A q \in Peers : q # p => (DOMAIN channel = Peers => channel'[q] = channel[q])
                                     /\ (DOMAIN copy = Peers => copy'[q] = copy[q])
    <3> DEFINE m == Head(channel[p])
    <3>1. /\ copy' = copy \/ copy' = [copy EXCEPT ![p] = Loaded(m.text)]
          /\ channel' = [channel EXCEPT ![p] = Tail(channel[p])]
      BY <1>6 DEF Receive
    <3> QED
      BY <3>1
  <2>3. channel[p] # <<>> /\ UNCHANGED <<started, joined>>
    BY <1>6 DEF Receive
  <2>4. HoldersInv'
    BY <2>2, <2>3 DEF DefinitionInv, HoldersInv
  <2> QED
    BY <2>1, <2>4 DEF DefinitionInv
<1> QED
  BY <1>1, <1>2, <1>3, <1>4, <1>5, <1>6

LEMMA DefinitionInitially ==
  ASSUME DefinitionInit
  PROVE  DefinitionInv
<1>1. PICK b \in Beginnings : definition = b /\ json = Exports(b)
  BY DEF DefinitionInit
<1>2. WellMade(definition)
  BY <1>1, DefinitionAssumption DEF WellMade
<1>3. json.full \in Documents
  BY <1>1, <1>2, ExportsFull, ExportedDocument DEF WellMade
<1>4. DocumentsInv
  BY <1>1, <1>2, <1>3 DEF DefinitionInit, DocumentsInv, CacheCurrent
<1>5. HoldersInv
  BY DEF DefinitionInit, HoldersInv
<1> QED
  BY <1>4, <1>5 DEF DefinitionInv

LEMMA DefinitionStep ==
  ASSUME DefinitionInv, [DefinitionNext]_definitionVars
  PROVE  DefinitionInv'
<1>1. CASE EditIo
  BY <1>1, IoCreateKeeps, IoRemoveKeeps, AddConstraintKeeps, AnnotateKeeps DEF EditIo
<1>2. CASE EditService
  BY <1>2, ServiceInitKeeps, ServiceRemoveKeeps, ServiceDescribeKeeps, EditArgumentsKeeps,
     ReplyAddKeeps, EditReplyKeeps DEF EditService
<1>3. CASE EditAgent
  BY <1>3, EditAgentKeeps
<1>4. CASE MappingStep
  BY <1>4, MappingKeeps
<1>5. CASE Save
  <2>1. file' \in Documents \cup {None} /\ UNCHANGED <<documents, network, loading>>
    BY <1>5 DEF Save, DefinitionInv, DocumentsInv
  <2>2. DocumentsInv'
    BY <2>1 DEF documents, DefinitionInv, DocumentsInv, CacheCurrent, WellMade, Sound
  <2> QED
    BY <2>1, <2>2, HoldersSame DEF DefinitionInv
<1>6. CASE LoadName
  BY <1>6, LoadNameKeeps
<1>7. CASE \E j \in Foreign \cup {file} : Load(j)
  BY <1>7, LoadKeeps
<1>8. CASE Start \/ Stop \/ DefinitionTimer \/ MappingTimer \/ \E p \in Peers : Join(p) \/ Receive(p)
  BY <1>8, LoopKeeps
<1>9. CASE UNCHANGED definitionVars
  BY <1>9, DocumentsSame, HoldersSame DEF DefinitionInv, definitionVars, documents, users
<1> QED
  BY <1>1, <1>2, <1>3, <1>4, <1>5, <1>6, <1>7, <1>8, <1>9 DEF DefinitionNext, FileStep

\* Whatever is edited, saved, loaded, started and stopped, the definition is
\* well made, and the texts and the copies are as the invariant says.
THEOREM DefinitionInvariant == DefinitionSpec => []DefinitionInv
<1>1. DefinitionInit => DefinitionInv
  BY DefinitionInitially
<1>2. DefinitionInv /\ [DefinitionNext]_definitionVars => DefinitionInv'
  BY DefinitionStep
<1> QED
  BY <1>1, <1>2, PTL DEF DefinitionSpec

\* The tables of a definition have one entry for each name, after any edits,
\* loads and renamings, and only peers that joined hold something of a running
\* agent (definition_add_io_to_definition, igsagent_service_init, igs_stop).
THEOREM DefinitionTypeCorrect == DefinitionSpec => []DefinitionTypeOK
<1>1. DefinitionInv => DefinitionTypeOK
  BY WellMadeParts DEF DefinitionInv, DocumentsInv, HoldersInv, DefinitionTypeOK
<1> QED
  BY <1>1, DefinitionInvariant, PTL

\* The cached texts are the exports of the documents at the end of every
\* function, but for a constraint that was refused (definition_update_json,
\* mapping_update_json, s_model_add_constraint).
THEOREM CachesCurrent == DefinitionSpec => []CacheCurrent
<1>1. DefinitionInv => CacheCurrent
  BY DEF DefinitionInv, DocumentsInv
<1> QED
  BY <1>1, DefinitionInvariant, PTL

\* What is saved and loaded again is the same definition but for its callbacks,
\* class_set_explicitly and the seventh decimal of its constraints
\* (parser_export_definition, parser_parse_definition_from_node).
THEOREM SavedIsLoaded == DefinitionSpec => []SaveLoad
<1>1. DefinitionInv => SaveLoad
  BY LoadedAsKept DEF DefinitionInv, DocumentsInv, WellMade, SaveLoad
<1> QED
  BY <1>1, DefinitionInvariant, PTL
=============================================================================
