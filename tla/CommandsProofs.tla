--------------------------- MODULE CommandsProofs ---------------------------
(***************************************************************************)
(* Proofs about commands, for any agents, commands, calls and users.       *)
(***************************************************************************)
EXTENDS Commands, TLAPS
-----------------------------------------------------------------------------
(***************************************************************************)
(* The invariant.                                                          *)
(***************************************************************************)
\* What tasks there may be, whoever does them.
Args == {None} \cup BOOLEAN \cup States \cup (SUBSET Agents) \cup Nat
        \cup [rest : SUBSET Agents, flag : BOOLEAN]
Ops == {"tell", "new state", "mute", "each", "definition", "mapping", "name", "activate",
        "deactivate", "free", "pong"}
AnyTask == Commands \cup Calls \cup [op : Ops, a : Agents \cup {None}, arg : Args]
Stacks == doing \in [Workers -> Seq(AnyTask)] /\ inbox \in Seq(AnyTask)

\* They fit.
TasksFit ==
  /\ \A w \in Workers : \A i \in 1..Len(doing[w]) : Fits(doing[w][i])
  /\ \A i \in 1..Len(inbox) : FitsCommand(inbox[i])

InboxFits == inbox \in Seq(AnyTask) /\ \A i \in 1..Len(inbox) : FitsCommand(inbox[i])

\* What the other peer heard, field by field.
HeardType == [muted : BOOLEAN \cup {None}, quiet : BOOLEAN \cup {None}, state : States \cup {None},
              path : Paths \cup {None}, mapping : (SUBSET Elements) \cup {None},
              frozen : BOOLEAN \cup {None}, stream : BOOLEAN \cup {None}, file : BOOLEAN \cup {None}]
ContextType == [frozen : BOOLEAN, stream : BOOLEAN, file : BOOLEAN, path : BOOLEAN]
MoreTypes ==
  /\ heard \in [Agents -> HeardType] /\ context \in ContextType
  /\ progress \in [counter : Nat, target : Nat]
  /\ None \notin active \cup created

AgreesOn(a) ==
  /\ heard[a].muted = agent[a].muted /\ heard[a].quiet = agent[a].quiet
  /\ heard[a].state = agent[a].state /\ heard[a].path = agent[a].path
  /\ heard[a].frozen = context.frozen /\ heard[a].stream = context.stream
  /\ heard[a].file = context.file
HeardNow(a) ==
  a \in active /\ visitor = "in" /\ ~broken /\ "definition" \notin update[a] =>
    AgreesOn(a) /\ ("mapping" \notin update[a] => heard[a].mapping = agent[a].mapping)

\* Nothing that was heard and matters to publications is out of date.
NotStale(a) ==
  /\ heard[a].muted \in {None, agent[a].muted} /\ heard[a].quiet \in {None, agent[a].quiet}
  /\ heard[a].frozen \in {None, context.frozen}
  /\ a \notin active => heard[a].muted = None /\ heard[a].frozen = None
  /\ visitor = "out" => heard[a].muted = None /\ heard[a].quiet = None /\ heard[a].frozen = None
HeardRight == \A a \in Agents : HeardNow(a) /\ NotStale(a)

\* An agent that MUTE_ALL has still to reach is in a task of the network thread.
Covers(t, a) == (t.op = "mute" /\ t.a = a) \/ (t.op = "each" /\ a \in t.arg.rest)
Pending(a) == \E i \in 1..Len(doing[Net]) : Covers(doing[Net][i], a)
Reaching == broken \/ (due \subseteq created /\ (met \/ \A a \in due : Pending(a)))

CInv == TypeOK /\ Stacks /\ TasksFit /\ MoreTypes /\ HeardRight /\ Reaching

-----------------------------------------------------------------------------
(***************************************************************************)
(* Stacks of tasks.                                                        *)
(***************************************************************************)
Workable == TypeOK /\ Stacks /\ TasksFit /\ MoreTypes

\* Constants: the network thread is no user, and None is no agent, flag or thread.
LEMMA Facts ==
  /\ Net \in Workers /\ Users \subseteq Workers /\ Net \notin Users /\ Born \subseteq Agents
  /\ None \notin Agents /\ None # TRUE /\ None # FALSE /\ None # Net
BY CommandsAssumption DEF Workers

\* The task at hand, and what is left when other tasks replace it.
LEMMA TopFits ==
  ASSUME Stacks, TasksFit, NEW w \in Workers, doing[w] # <<>>
  PROVE  Fits(Top(w)) /\ Len(doing[w]) \in Nat \ {0} /\ Top(w) = doing[w][1]
BY DEF Stacks, TasksFit, Top

\* Commands that were received stay.
LEMMA InboxSame ==
  ASSUME Stacks, TasksFit, inbox' = inbox
  PROVE  InboxFits'
<1>1. \A i \in 1..Len(inbox') : FitsCommand(inbox'[i])
  BY DEF TasksFit
<1>2. \A c : FitsCommand(c)' <=> FitsCommand(c)
  BY DEF FitsCommand, Fits
<1> QED BY <1>1, <1>2 DEF Stacks, InboxFits

\* Other tasks replace the one at hand: what was pending is, but for that one.
LEMMA DoTasks ==
  ASSUME Stacks, TasksFit, NEW w \in Workers, doing[w] # <<>>,
         NEW tasks \in Seq(AnyTask), Do(w, tasks), \A i \in 1..Len(tasks) : Fits(tasks[i]),
         InboxFits'
  PROVE  /\ Stacks' /\ TasksFit'
         /\ \A a : Pending(a) => Pending(a)' \/ (w = Net /\ Covers(Top(w), a))
         /\ w = Net => \A a : (\E i \in 1..Len(tasks) : Covers(tasks[i], a)) => Pending(a)'
<1> DEFINE s == doing[w]
<1>1. s \in Seq(AnyTask) /\ Len(s) \in Nat \ {0} /\ Tail(s) \in Seq(AnyTask) /\ Len(Tail(s)) = Len(s) - 1
      /\ Top(w) = s[1]
  BY DEF Stacks, Top
<1>2. \A i \in 1..Len(Tail(s)) : Tail(s)[i] = s[i + 1]
  BY <1>1
<1>3. doing' = [doing EXCEPT ![w] = tasks \o Tail(s)]
  BY DEF Do
<1>4. doing'[w] = tasks \o Tail(s) /\ \A u \in Workers : u # w => doing'[u] = doing[u]
  BY <1>3 DEF Stacks
<1> HIDE DEF s
<1>5. /\ Len(tasks) \in Nat /\ tasks \o Tail(s) \in Seq(AnyTask)
      /\ Len(tasks \o Tail(s)) = Len(tasks) + Len(s) - 1
      /\ \A i \in 1..Len(tasks) : (tasks \o Tail(s))[i] = tasks[i]
      /\ \A i \in 1..Len(tasks \o Tail(s)) : i > Len(tasks) =>
           i - Len(tasks) + 1 \in 2..Len(s) /\ (tasks \o Tail(s))[i] = s[i - Len(tasks) + 1]
      /\ \A i \in 2..Len(s) : i + Len(tasks) - 1 \in 1..Len(tasks \o Tail(s))
                              /\ (tasks \o Tail(s))[i + Len(tasks) - 1] = s[i]
  <2> DEFINE r == tasks \o Tail(s)
  <2>1. Len(tasks) \in Nat /\ r \in Seq(AnyTask) /\ Len(r) = Len(tasks) + Len(s) - 1
    BY <1>1
  <2>2. \A i \in 1..Len(tasks) : r[i] = tasks[i]
    BY <1>1
  <2>3. \A i \in 1..Len(Tail(s)) : r[i + Len(tasks)] = Tail(s)[i]
    BY <1>1
  <2> HIDE DEF r
  <2>4. ASSUME NEW i \in 1..Len(r), i > Len(tasks)
        PROVE  i - Len(tasks) + 1 \in 2..Len(s) /\ r[i] = s[i - Len(tasks) + 1]
    <3>1. PICK j \in 1..Len(Tail(s)) : i = j + Len(tasks)
      <4>1. i - Len(tasks) \in 1..Len(Tail(s)) /\ i = (i - Len(tasks)) + Len(tasks)
        BY <1>1, <2>1, <2>4
      <4> QED BY <4>1
    <3>2. r[i] = s[j + 1]
      BY <1>2, <2>3, <3>1
    <3>3. j + 1 \in 2..Len(s) /\ j + 1 = i - Len(tasks) + 1
      BY <1>1, <2>1, <3>1
    <3> QED BY <3>2, <3>3
  <2>5. ASSUME NEW i \in 2..Len(s)
        PROVE  i + Len(tasks) - 1 \in 1..Len(r) /\ r[i + Len(tasks) - 1] = s[i]
    <3>1. PICK j \in 1..Len(Tail(s)) : i = j + 1
      <4>1. i - 1 \in 1..Len(Tail(s)) /\ i = (i - 1) + 1
        BY <1>1, <2>5
      <4> QED BY <4>1
    <3>2. r[j + Len(tasks)] = s[i]
      BY <1>2, <2>3, <3>1
    <3>3. j + Len(tasks) = i + Len(tasks) - 1 /\ j + Len(tasks) \in 1..Len(r)
      BY <1>1, <2>1, <3>1
    <3> QED BY <3>2, <3>3
  <2> QED BY <2>1, <2>2, <2>4, <2>5 DEF r
<1>6. Stacks'
  BY <1>3, <1>5 DEF Stacks, InboxFits
<1>7. TasksFit'
  <2>1. ASSUME NEW u \in Workers, NEW i \in 1..Len(doing'[u]) PROVE Fits(doing'[u][i])
    <3>1. CASE u # w
      BY <1>4, <2>1, <3>1 DEF TasksFit
    <3>2. CASE u = w /\ i <= Len(tasks)
      BY <1>4, <1>5, <2>1, <3>2
    <3>3. CASE u = w /\ i > Len(tasks)
      <4>1. i - Len(tasks) + 1 \in 1..Len(s) /\ doing'[u][i] = s[i - Len(tasks) + 1]
        <5>1. i \in 1..Len(tasks \o Tail(s)) /\ doing'[u] = tasks \o Tail(s)
          BY <1>4, <2>1, <3>3
        <5>2. i - Len(tasks) + 1 \in 2..Len(s) /\ doing'[u][i] = s[i - Len(tasks) + 1]
          BY <1>5, <3>3, <5>1
        <5> QED BY <1>1, <5>2
      <4> QED BY <3>3, <4>1 DEF TasksFit, s
    <3> QED BY <1>5, <2>1, <3>1, <3>2, <3>3
  <2>2. \A t : Fits(t)' <=> Fits(t)
    BY DEF Fits
  <2> QED BY <2>1, <2>2 DEF TasksFit, InboxFits
<1>8. ASSUME NEW a, Pending(a) PROVE Pending(a)' \/ (w = Net /\ Covers(Top(w), a))
  <2>1. CASE w # Net
    BY <1>4, <1>8, <2>1, Facts DEF Pending, Covers
  <2>2. CASE w = Net
    <3>1. PICK i \in 1..Len(s) : Covers(s[i], a)
      BY <1>8, <2>2 DEF Pending, s
    <3>2. CASE i = 1
      BY <1>1, <2>2, <3>1, <3>2
    <3>3. CASE i # 1
      <4>1. i + Len(tasks) - 1 \in 1..Len(doing'[Net]) /\ doing'[Net][i + Len(tasks) - 1] = s[i]
        <5>1. i \in 2..Len(s)
          BY <1>1, <3>3
        <5>2. doing'[Net] = tasks \o Tail(s)
          BY <1>4, <2>2
        <5> QED BY <1>5, <5>1, <5>2
      <4> QED BY <3>1, <4>1 DEF Pending, Covers
    <3> QED BY <3>2, <3>3
  <2> QED BY <2>1, <2>2
<1>9. ASSUME w = Net, NEW a, NEW i \in 1..Len(tasks), Covers(tasks[i], a) PROVE Pending(a)'
  <2>1. i \in 1..Len(doing'[Net]) /\ doing'[Net][i] = tasks[i]
    BY <1>1, <1>4, <1>5, <1>9
  <2> QED BY <1>9, <2>1 DEF Pending, Covers
<1> QED BY <1>6, <1>7, <1>8, <1>9

\* Nothing replaces it.
LEMMA DoReturn ==
  ASSUME Stacks, TasksFit, NEW w \in Workers, doing[w] # <<>>, Return(w), inbox' = inbox
  PROVE  /\ Stacks' /\ TasksFit'
         /\ \A a : Pending(a) => Pending(a)' \/ (w = Net /\ Covers(Top(w), a))
<1>1. <<>> \in Seq(AnyTask) /\ \A i \in 1..Len(<<>>) : Fits(<<>>[i])
  OBVIOUS
<1> QED BY <1>1, InboxSame, DoTasks DEF Return

\* One task.
LEMMA DoOne ==
  ASSUME Stacks, TasksFit, NEW w \in Workers, doing[w] # <<>>, NEW t \in AnyTask, Fits(t),
         Do(w, <<t>>), inbox' = inbox
  PROVE  /\ Stacks' /\ TasksFit'
         /\ \A a : Pending(a) => Pending(a)' \/ (w = Net /\ Covers(Top(w), a))
         /\ w = Net => \A a : Covers(t, a) => Pending(a)'
<1> DEFINE tasks == <<t>>
<1>1. tasks \in Seq(AnyTask) /\ Len(tasks) = 1 /\ tasks[1] = t
  OBVIOUS
<1> HIDE DEF tasks
<1>2. Do(w, tasks)
  BY DEF tasks
<1>3. \A i \in 1..Len(tasks) : Fits(tasks[i])
  BY <1>1
<1>4. \A a : Covers(t, a) => \E i \in 1..Len(tasks) : Covers(tasks[i], a)
  BY <1>1
<1> QED BY <1>1, <1>2, <1>3, <1>4, InboxSame, DoTasks

\* Two tasks.
LEMMA DoTwo ==
  ASSUME Stacks, TasksFit, NEW w \in Workers, doing[w] # <<>>, NEW t \in AnyTask, Fits(t),
         NEW u \in AnyTask, Fits(u), Do(w, <<t, u>>), inbox' = inbox
  PROVE  /\ Stacks' /\ TasksFit'
         /\ \A a : Pending(a) => Pending(a)' \/ (w = Net /\ Covers(Top(w), a))
         /\ w = Net => \A a : Covers(t, a) \/ Covers(u, a) => Pending(a)'
<1> DEFINE tasks == <<t, u>>
<1>1. tasks \in Seq(AnyTask) /\ Len(tasks) = 2 /\ tasks[1] = t /\ tasks[2] = u
  OBVIOUS
<1> HIDE DEF tasks
<1>2. Do(w, tasks)
  BY DEF tasks
<1>3. \A i \in 1..Len(tasks) : Fits(tasks[i])
  BY <1>1
<1>4. \A a : Covers(t, a) \/ Covers(u, a) => \E i \in 1..Len(tasks) : Covers(tasks[i], a)
  BY <1>1
<1> QED BY <1>1, <1>2, <1>3, <1>4, InboxSame, DoTasks

\* Tasks that the functions leave for later.
LEMMA TaskFields ==
  ASSUME NEW op, NEW a, NEW arg
  PROVE  Task(op, a, arg).op = op /\ Task(op, a, arg).a = a /\ Task(op, a, arg).arg = arg
BY DEF Task

\* Tasks that the functions leave for later.
LEMMA TaskAny ==
  \A op \in Ops, a \in Agents \cup {None}, arg \in Args : Task(op, a, arg) \in AnyTask
<1> SUFFICES ASSUME NEW op \in Ops, NEW a \in Agents \cup {None}, NEW arg \in Args
             PROVE  Task(op, a, arg) \in AnyTask
  OBVIOUS
<1>1. Task(op, a, arg) \in [op : Ops, a : Agents \cup {None}, arg : Args]
  <2> HIDE DEF Args
  <2> QED BY DEF Task
<1> QED BY <1>1 DEF AnyTask

\* A callback.
LEMMA TellTask ==
  ASSUME NEW a \in Agents \cup {None}, NEW arg \in Args
  PROVE  Task("tell", a, arg) \in AnyTask /\ Fits(Task("tell", a, arg))
<1> HIDE DEF Args
<1> DEFINE t == Task("tell", a, arg)
<1>1. Fits(t)
  <2>1. t.op = "tell" /\ t.a = a /\ t.arg = arg
    BY DEF Task
  <2> HIDE DEF t
  <2> QED BY <2>1 DEF Fits
<1>2. "tell" \in Ops
  BY DEF Ops
<1>3. t \in AnyTask
  BY <1>2, TaskAny
<1> QED BY <1>1, <1>3

\* The second section of igsagent_set_state.
LEMMA NewStateTask ==
  ASSUME NEW a \in Agents, NEW arg \in States \cup {None}
  PROVE  Task("new state", a, arg) \in AnyTask /\ Fits(Task("new state", a, arg))
<1> DEFINE t == Task("new state", a, arg)
<1>1. Fits(t)
  <2>1. t.op = "new state" /\ t.a = a /\ t.arg = arg
    BY DEF Task
  <2> HIDE DEF t
  <2> QED BY <2>1 DEF Fits
<1>2. arg \in Args
  BY DEF Args
<1>3. "new state" \in Ops
  BY DEF Ops
<1>4. t \in AnyTask
  BY <1>2, <1>3, TaskAny
<1> QED BY <1>1, <1>4

\* Arguments of tasks that the functions leave.
LEMMA SomeArgs == None \in Args /\ TRUE \in Args /\ FALSE \in Args
BY DEF Args

-----------------------------------------------------------------------------
(***************************************************************************)
(* Functions.                                                              *)
(***************************************************************************)
\* What the other peer knows of an agent that a step leaves alone.
LEMMA HeardSame ==
  ASSUME NEW b, HeardNow(b), NotStale(b), agent'[b] = agent[b], heard'[b] = heard[b],
         context'.frozen = context.frozen, context'.stream = context.stream, context'.file = context.file,
         visitor' = visitor, update[b] \subseteq update'[b], b \in active' <=> b \in active,
         broken => broken'
  PROVE  HeardNow(b)' /\ NotStale(b)'
BY DEF HeardNow, AgreesOn, NotStale

\* Pending tasks, when one of another kind is done.
LEMMA ReachingKept ==
  ASSUME Reaching, NEW w, Top(w).op \notin {"mute", "each"} \/ w # Net,
         created' = created, met' = met, broken' = broken, due' \subseteq due,
         \A a : Pending(a) => Pending(a)' \/ (w = Net /\ Covers(Top(w), a))
  PROVE  Reaching'
BY DEF Reaching, Covers

\* A step that leaves no change of what the other peer may hear.
LEMMA UnheardStep ==
  ASSUME CInv, NEW w \in Workers, doing[w] # <<>>, Top(w).op \notin {"mute", "each"} \/ w # Net,
         created' = created, named' = named, broken' = broken, visitor' = visitor, progress' = progress,
         active' = active, agent' = agent, context' = context, lock' \in {None, Net}, heard' = heard,
         due' = due, met' = met,
         update' \in [Agents -> SUBSET {"definition", "mapping"}],
         \A b \in Agents : update[b] \subseteq update'[b],
         Stacks', TasksFit', \A a : Pending(a) => Pending(a)' \/ (w = Net /\ Covers(Top(w), a))
  PROVE  CInv'
<1>1. TypeOK' /\ MoreTypes'
  BY DEF CInv, TypeOK, MoreTypes
<1>2. HeardRight'
  BY HeardSame DEF CInv, HeardRight
<1>3. Reaching'
  BY ReachingKept DEF CInv
<1> QED BY <1>1, <1>2, <1>3 DEF CInv

\* Callbacks and the walk of the agent events change nothing here.
LEMMA CallbackKeeps ==
  ASSUME CInv, NEW w \in Workers, Callback(w)
  PROVE  CInv'
<1>1. doing[w] # <<>> /\ Top(w).op = "tell" /\ Return(w) /\ inbox' = inbox
  BY DEF Callback, At, rest
<1>2. Stacks' /\ TasksFit' /\ \A a : Pending(a) => Pending(a)' \/ (w = Net /\ Covers(Top(w), a))
  BY <1>1, DoReturn DEF CInv
<1>3. /\ created' = created /\ named' = named /\ broken' = broken /\ visitor' = visitor /\ progress' = progress
      /\ active' = active /\ agent' = agent /\ context' = context /\ lock' = lock /\ heard' = heard
      /\ due' = due /\ met' = met /\ update' = update
  BY DEF Callback, rest
<1>4. lock' \in {None, Net} /\ update' \in [Agents -> SUBSET {"definition", "mapping"}]
  BY <1>3 DEF CInv, TypeOK
<1> QED BY <1>1, <1>2, <1>3, <1>4, UnheardStep

\* A publication changes nothing that the other peer heard of the agent.
LEMMA WriteKeeps ==
  ASSUME CInv, NEW w \in Workers, Write(w)
  PROVE  CInv'
<1>1. doing[w] # <<>> /\ Top(w).op = "write" /\ Return(w) /\ inbox' = inbox
  BY DEF Write, Locked, At, rest
<1>2. Stacks' /\ TasksFit' /\ \A a : Pending(a) => Pending(a)' \/ (w = Net /\ Covers(Top(w), a))
  BY <1>1, DoReturn DEF CInv
<1>3. /\ created' = created /\ named' = named /\ broken' = broken /\ visitor' = visitor /\ progress' = progress
      /\ active' = active /\ agent' = agent /\ context' = context /\ lock' = lock /\ heard' = heard
      /\ due' = due /\ met' = met /\ update' = update
  BY DEF Write, rest
<1>4. lock' \in {None, Net} /\ update' \in [Agents -> SUBSET {"definition", "mapping"}]
  BY <1>3 DEF CInv, TypeOK
<1> QED BY <1>1, <1>2, <1>3, <1>4, UnheardStep

\* igsagent_set_state, before it takes the lock.
LEMMA SetStateKeeps ==
  ASSUME CInv, NEW w \in Workers, SetState(w)
  PROVE  CInv'
<1>1. doing[w] # <<>> /\ Top(w).op = "state" /\ inbox' = inbox
      /\ (Return(w) \/ Do(w, <<Task("new state", Top(w).a, Top(w).arg)>>))
  BY DEF SetState, At, rest, Return
<1>2. Top(w).a \in Agents /\ Top(w).arg \in States \cup {None}
  BY <1>1, TopFits DEF CInv, Fits
<1>3. Task("new state", Top(w).a, Top(w).arg) \in AnyTask /\ Fits(Task("new state", Top(w).a, Top(w).arg))
  BY <1>2, NewStateTask
<1>4. Stacks' /\ TasksFit' /\ \A a : Pending(a) => Pending(a)' \/ (w = Net /\ Covers(Top(w), a))
  BY <1>1, <1>3, DoReturn, DoOne DEF CInv
<1>5. /\ created' = created /\ named' = named /\ broken' = broken /\ visitor' = visitor /\ progress' = progress
      /\ active' = active /\ agent' = agent /\ context' = context /\ lock' = lock /\ heard' = heard
      /\ due' = due /\ met' = met /\ update' = update
  BY DEF SetState, rest
<1>6. lock' \in {None, Net} /\ update' \in [Agents -> SUBSET {"definition", "mapping"}]
  BY <1>5 DEF CInv, TypeOK
<1> QED BY <1>1, <1>4, <1>5, <1>6, UnheardStep

\* One field of one agent changes, and is announced.
LEMMA ShoutStep ==
  ASSUME CInv, created' = created, named' = named, broken' = broken, visitor' = visitor, progress' = progress,
         active' = active, context' = context, lock' = lock, update' = update, due' \subseteq due, met' = met,
         NEW a \in Agents, agent' \in [Agents -> AgentType], heard' \in [Agents -> HeardType],
         \A b \in Agents : b # a => agent'[b] = agent[b] /\ heard'[b] = heard[b],
         HeardNow(a)', NotStale(a)', Stacks', TasksFit', Reaching'
  PROVE  CInv'
<1>1. TypeOK' /\ MoreTypes'
  BY DEF CInv, TypeOK, MoreTypes
<1>2. HeardRight'
  BY HeardSame DEF CInv, HeardRight
<1> QED BY <1>1, <1>2 DEF CInv

\* igsagent_set_state, with the lock.
LEMMA NewStateKeeps ==
  ASSUME CInv, NEW w \in Workers, NewState(w)
  PROVE  CInv'
<1>1. doing[w] # <<>> /\ Top(w).op = "new state" /\ inbox' = inbox /\ Do(w, <<Task("tell", None, None)>>)
  BY DEF NewState, Locked, At, rest
<1>2. PICK a \in Agents, v \in States \cup {None} : a = Top(w).a /\ v = Top(w).arg
  BY <1>1, TopFits DEF CInv, Fits
<1>3. Stacks' /\ TasksFit' /\ \A b : Pending(b) => Pending(b)' \/ (w = Net /\ Covers(Top(w), b))
  <2>1. Task("tell", None, None) \in AnyTask /\ Fits(Task("tell", None, None))
    BY TellTask, SomeArgs
  <2> QED BY <1>1, <2>1, DoOne DEF CInv
<1>4. /\ created' = created /\ named' = named /\ broken' = broken /\ visitor' = visitor /\ progress' = progress
      /\ active' = active /\ context' = context /\ lock' = lock /\ update' = update
      /\ due' = due /\ met' = met
      /\ agent' = [agent EXCEPT ![a].state = v]
      /\ heard' = IF a \in active /\ visitor # "out" THEN [heard EXCEPT ![a]["state"] = v] ELSE heard
  BY <1>2 DEF NewState, rest, Shout
<1>5. agent \in [Agents -> AgentType] /\ heard \in [Agents -> HeardType] /\ HeardNow(a) /\ NotStale(a)
  BY <1>2 DEF CInv, TypeOK, MoreTypes, HeardRight
<1>6. agent' \in [Agents -> AgentType] /\ heard' \in [Agents -> HeardType]
  <2>1. agent' \in [Agents -> AgentType]
    BY <1>2, <1>4, <1>5 DEF AgentType
  <2>2. ASSUME heard' = [heard EXCEPT ![a]["state"] = v] PROVE heard' \in [Agents -> HeardType]
    BY <1>2, <1>5, <2>2 DEF HeardType
  <2> QED BY <1>4, <1>5, <2>1, <2>2
<1>7. \A b \in Agents : b # a => agent'[b] = agent[b] /\ heard'[b] = heard[b]
  BY <1>2, <1>4, <1>5
<1>8. /\ agent'[a].state = v
      /\ agent'[a].muted = agent[a].muted /\ agent'[a].quiet = agent[a].quiet
      /\ agent'[a].path = agent[a].path /\ agent'[a].mapping = agent[a].mapping
  BY <1>2, <1>4, <1>5 DEF AgentType
<1>9. /\ heard'[a].state = v \/ a \notin active \/ visitor = "out"
      /\ heard'[a].muted = heard[a].muted /\ heard'[a].quiet = heard[a].quiet
      /\ heard'[a].path = heard[a].path /\ heard'[a].mapping = heard[a].mapping
      /\ heard'[a].frozen = heard[a].frozen /\ heard'[a].stream = heard[a].stream /\ heard'[a].file = heard[a].file
  <2>1. CASE heard' = heard /\ (a \notin active \/ visitor = "out")
    BY <2>1
  <2>2. CASE heard' = [heard EXCEPT ![a]["state"] = v]
    BY <1>2, <1>5, <2>2 DEF HeardType
  <2> QED BY <1>4, <2>1, <2>2
<1>10. HeardNow(a)' /\ NotStale(a)'
  <2>1. /\ a \in active' <=> a \in active
        /\ broken => broken'
        /\ visitor' = visitor /\ update' = update /\ context' = context
    BY <1>4
  <2>2. HeardNow(a)'
    BY <1>5, <1>8, <1>9, <2>1 DEF HeardNow, AgreesOn
  <2>3. NotStale(a)'
    BY <1>5, <1>8, <1>9, <2>1 DEF NotStale
  <2> QED BY <2>2, <2>3
<1>11. Reaching'
  BY <1>1, <1>3, <1>4, ReachingKept DEF CInv
<1> QED BY <1>3, <1>4, <1>6, <1>7, <1>10, <1>11, ShoutStep

\* igsagent_output_mute and _unmute.
LEMMA MuteOutputKeeps ==
  ASSUME CInv, NEW w \in Workers, MuteOutput(w)
  PROVE  CInv'
<1>1. doing[w] # <<>> /\ Top(w).op = "quiet" /\ inbox' = inbox /\ Return(w)
  BY DEF MuteOutput, Locked, At, rest
<1>2. PICK a \in Agents, v \in BOOLEAN : a = Top(w).a /\ v = Top(w).arg
  BY <1>1, TopFits DEF CInv, Fits
<1>3. Stacks' /\ TasksFit' /\ \A b : Pending(b) => Pending(b)' \/ (w = Net /\ Covers(Top(w), b))
  BY <1>1, DoReturn DEF CInv
<1>4. /\ created' = created /\ named' = named /\ broken' = broken /\ visitor' = visitor /\ progress' = progress
      /\ active' = active /\ context' = context /\ lock' = lock /\ update' = update
      /\ due' = due /\ met' = met
      /\ agent' = [agent EXCEPT ![a].quiet = v]
      /\ heard' = IF visitor = "out" THEN heard ELSE [heard EXCEPT ![a]["quiet"] = v]
  BY <1>2 DEF MuteOutput, rest, Shout
<1>5. agent \in [Agents -> AgentType] /\ heard \in [Agents -> HeardType] /\ HeardNow(a) /\ NotStale(a)
  BY <1>2 DEF CInv, TypeOK, MoreTypes, HeardRight
<1>6. agent' \in [Agents -> AgentType] /\ heard' \in [Agents -> HeardType]
  <2>1. agent' \in [Agents -> AgentType]
    BY <1>2, <1>4, <1>5 DEF AgentType
  <2>2. ASSUME heard' = [heard EXCEPT ![a]["quiet"] = v] PROVE heard' \in [Agents -> HeardType]
    BY <1>2, <1>5, <2>2 DEF HeardType
  <2> QED BY <1>4, <1>5, <2>1, <2>2
<1>7. \A b \in Agents : b # a => agent'[b] = agent[b] /\ heard'[b] = heard[b]
  BY <1>2, <1>4, <1>5
<1>8. /\ agent'[a].quiet = v
      /\ agent'[a].muted = agent[a].muted /\ agent'[a].state = agent[a].state
      /\ agent'[a].path = agent[a].path /\ agent'[a].mapping = agent[a].mapping
  BY <1>2, <1>4, <1>5 DEF AgentType
<1>9. /\ (heard'[a].quiet = v /\ visitor # "out") \/ (visitor = "out" /\ heard' = heard)
      /\ heard'[a].muted = heard[a].muted /\ heard'[a].state = heard[a].state /\ heard'[a].path = heard[a].path /\ heard'[a].mapping = heard[a].mapping
      /\ heard'[a].frozen = heard[a].frozen /\ heard'[a].stream = heard[a].stream /\ heard'[a].file = heard[a].file
  <2>1. CASE heard' = heard /\ visitor = "out"
    BY <2>1
  <2>2. CASE heard' = [heard EXCEPT ![a]["quiet"] = v] /\ visitor # "out"
    BY <1>2, <1>5, <2>2 DEF HeardType
  <2> QED BY <1>4, <2>1, <2>2
<1>10. HeardNow(a)' /\ NotStale(a)'
  <2>1. /\ a \in active' <=> a \in active
        /\ broken => broken'
        /\ visitor' = visitor /\ update' = update /\ context' = context
    BY <1>4
  <2>2. HeardNow(a)'
    BY <1>5, <1>8, <1>9, <2>1 DEF HeardNow, AgreesOn
  <2>3. NotStale(a)'
    <3>1. CASE heard' = heard
      BY <1>5, <1>8, <1>9, <2>1, <3>1 DEF NotStale
    <3>2. CASE heard'[a].quiet = v /\ visitor # "out"
      BY <1>5, <1>8, <1>9, <2>1, <3>2 DEF NotStale
    <3> QED BY <1>9, <3>1, <3>2
  <2> QED BY <2>2, <2>3
<1>11. Reaching'
  BY <1>1, <1>3, <1>4, ReachingKept DEF CInv
<1> QED BY <1>3, <1>4, <1>6, <1>7, <1>10, <1>11, ShoutStep

\* igsagent_definition_set_path.
LEMMA SetPathKeeps ==
  ASSUME CInv, NEW w \in Workers, SetPath(w)
  PROVE  CInv'
<1>1. doing[w] # <<>> /\ Top(w).op = "path" /\ inbox' = inbox /\ Return(w)
  BY DEF SetPath, Locked, At, rest
<1>2. PICK a \in Agents, v \in Paths \cup {None} : a = Top(w).a /\ v = Top(w).arg
  BY <1>1, TopFits DEF CInv, Fits
<1>3. Stacks' /\ TasksFit' /\ \A b : Pending(b) => Pending(b)' \/ (w = Net /\ Covers(Top(w), b))
  BY <1>1, DoReturn DEF CInv
<1>4. /\ created' = created /\ named' = named /\ broken' = broken /\ visitor' = visitor /\ progress' = progress
      /\ active' = active /\ context' = context /\ lock' = lock /\ update' = update
      /\ due' = due /\ met' = met
      /\ agent' = [agent EXCEPT ![a].path = v]
      /\ heard' = IF visitor = "out" THEN heard ELSE [heard EXCEPT ![a]["path"] = v]
  BY <1>2 DEF SetPath, rest, Shout
<1>5. agent \in [Agents -> AgentType] /\ heard \in [Agents -> HeardType] /\ HeardNow(a) /\ NotStale(a)
  BY <1>2 DEF CInv, TypeOK, MoreTypes, HeardRight
<1>6. agent' \in [Agents -> AgentType] /\ heard' \in [Agents -> HeardType]
  <2>1. agent' \in [Agents -> AgentType]
    BY <1>2, <1>4, <1>5 DEF AgentType
  <2>2. ASSUME heard' = [heard EXCEPT ![a]["path"] = v] PROVE heard' \in [Agents -> HeardType]
    BY <1>2, <1>5, <2>2 DEF HeardType
  <2> QED BY <1>4, <1>5, <2>1, <2>2
<1>7. \A b \in Agents : b # a => agent'[b] = agent[b] /\ heard'[b] = heard[b]
  BY <1>2, <1>4, <1>5
<1>8. /\ agent'[a].path = v
      /\ agent'[a].muted = agent[a].muted /\ agent'[a].quiet = agent[a].quiet
      /\ agent'[a].state = agent[a].state /\ agent'[a].mapping = agent[a].mapping
  BY <1>2, <1>4, <1>5 DEF AgentType
<1>9. /\ heard'[a].path = v \/ (visitor = "out" /\ heard' = heard)
      /\ heard'[a].muted = heard[a].muted /\ heard'[a].quiet = heard[a].quiet /\ heard'[a].state = heard[a].state /\ heard'[a].mapping = heard[a].mapping
      /\ heard'[a].frozen = heard[a].frozen /\ heard'[a].stream = heard[a].stream /\ heard'[a].file = heard[a].file
  <2>1. CASE heard' = heard /\ visitor = "out"
    BY <2>1
  <2>2. CASE heard' = [heard EXCEPT ![a]["path"] = v] /\ visitor # "out"
    BY <1>2, <1>5, <2>2 DEF HeardType
  <2> QED BY <1>4, <2>1, <2>2
<1>10. HeardNow(a)' /\ NotStale(a)'
  <2>1. /\ a \in active' <=> a \in active
        /\ broken => broken'
        /\ visitor' = visitor /\ update' = update /\ context' = context
    BY <1>4
  <2>2. HeardNow(a)'
    BY <1>5, <1>8, <1>9, <2>1 DEF HeardNow, AgreesOn
  <2>3. NotStale(a)'
    BY <1>5, <1>8, <1>9, <2>1 DEF NotStale
  <2> QED BY <2>2, <2>3
<1>11. Reaching'
  BY <1>1, <1>3, <1>4, ReachingKept DEF CInv
<1> QED BY <1>3, <1>4, <1>6, <1>7, <1>10, <1>11, ShoutStep

\* igsagent_mute and igsagent_unmute: MUTE_ALL reached the agent.
LEMMA MuteKeeps ==
  ASSUME CInv, NEW w \in Workers, Mute(w)
  PROVE  CInv'
<1>1. doing[w] # <<>> /\ Top(w).op = "mute" /\ inbox' = inbox /\ Do(w, CallbacksOf(Top(w).a))
  BY DEF Mute, Locked, At, rest
<1>2. PICK a \in Agents, v \in BOOLEAN : a = Top(w).a /\ v = Top(w).arg
  BY <1>1, TopFits DEF CInv, Fits
<1>3. Stacks' /\ TasksFit' /\ \A b : Pending(b) => Pending(b)' \/ (w = Net /\ Covers(Top(w), b))
  <2>1. Task("tell", a, None) \in AnyTask /\ Fits(Task("tell", a, None))
    BY TellTask, SomeArgs
  <2>2. Return(w) \/ Do(w, <<Task("tell", a, None)>>)
    BY <1>1, <1>2 DEF CallbacksOf, Return
  <2> QED BY <1>1, <2>1, <2>2, DoReturn, DoOne DEF CInv
<1>4. /\ created' = created /\ named' = named /\ broken' = broken /\ visitor' = visitor /\ progress' = progress
      /\ active' = active /\ context' = context /\ lock' = lock /\ update' = update
      /\ due' = (IF w = Net THEN due \ {a} ELSE due) /\ met' = met
      /\ agent' = [agent EXCEPT ![a].muted = v]
      /\ heard' = IF agent[a].muted = v \/ a \notin active \/ visitor = "out" THEN heard ELSE [heard EXCEPT ![a]["muted"] = v]
  BY <1>2 DEF Mute, rest, Shout
<1>5. agent \in [Agents -> AgentType] /\ heard \in [Agents -> HeardType] /\ HeardNow(a) /\ NotStale(a)
  BY <1>2 DEF CInv, TypeOK, MoreTypes, HeardRight
<1>6. agent' \in [Agents -> AgentType] /\ heard' \in [Agents -> HeardType]
  <2>1. agent' \in [Agents -> AgentType]
    BY <1>2, <1>4, <1>5 DEF AgentType
  <2>2. ASSUME heard' = [heard EXCEPT ![a]["muted"] = v] PROVE heard' \in [Agents -> HeardType]
    BY <1>2, <1>5, <2>2 DEF HeardType
  <2> QED BY <1>4, <1>5, <2>1, <2>2
<1>7. \A b \in Agents : b # a => agent'[b] = agent[b] /\ heard'[b] = heard[b]
  BY <1>2, <1>4, <1>5
<1>8. /\ agent'[a].muted = v
      /\ agent'[a].quiet = agent[a].quiet /\ agent'[a].state = agent[a].state
      /\ agent'[a].path = agent[a].path /\ agent'[a].mapping = agent[a].mapping
  BY <1>2, <1>4, <1>5 DEF AgentType
<1>9. /\ (heard'[a].muted = v /\ a \in active /\ visitor # "out") \/ ((agent[a].muted = v \/ a \notin active \/ visitor = "out") /\ heard' = heard)
      /\ heard'[a].quiet = heard[a].quiet /\ heard'[a].state = heard[a].state /\ heard'[a].path = heard[a].path /\ heard'[a].mapping = heard[a].mapping
      /\ heard'[a].frozen = heard[a].frozen /\ heard'[a].stream = heard[a].stream /\ heard'[a].file = heard[a].file
  <2>1. CASE heard' = heard /\ (agent[a].muted = v \/ a \notin active \/ visitor = "out")
    BY <2>1
  <2>2. CASE heard' = [heard EXCEPT ![a]["muted"] = v] /\ a \in active /\ visitor # "out"
    BY <1>2, <1>5, <2>2 DEF HeardType
  <2> QED BY <1>4, <2>1, <2>2
<1>10. HeardNow(a)' /\ NotStale(a)'
  <2>1. /\ a \in active' <=> a \in active
        /\ broken => broken'
        /\ visitor' = visitor /\ update' = update /\ context' = context
    BY <1>4
  <2>2. HeardNow(a)'
    BY <1>5, <1>8, <1>9, <2>1 DEF HeardNow, AgreesOn
  <2>3. NotStale(a)'
    <3>1. CASE heard' = heard
      BY <1>5, <1>8, <1>9, <2>1, <3>1 DEF NotStale
    <3>2. CASE heard'[a].muted = v /\ visitor # "out" /\ a \in active
      BY <1>5, <1>8, <1>9, <2>1, <3>2 DEF NotStale
    <3> QED BY <1>9, <3>1, <3>2
  <2> QED BY <2>2, <2>3
<1>11. Reaching'
  <2>1. \A b \in due' : Pending(b) => Pending(b)'
    BY <1>1, <1>2, <1>3, <1>4 DEF Covers
  <2> QED BY <1>4, <2>1 DEF CInv, Reaching
<1> QED BY <1>3, <1>4, <1>6, <1>7, <1>10, <1>11, ShoutStep

\* A mapping that changed is flagged.
LEMMA MapKeeps ==
  ASSUME CInv, NEW w \in Workers, Map(w)
  PROVE  CInv'
<1>1. doing[w] # <<>> /\ Top(w).op = "map" /\ inbox' = inbox /\ Return(w)
  BY DEF Map, Locked, At, rest
<1>2. PICK a \in Agents : a = Top(w).a
  BY <1>1, TopFits DEF CInv, Fits
<1>3. Stacks' /\ TasksFit' /\ \A b : Pending(b) => Pending(b)' \/ (w = Net /\ Covers(Top(w), b))
  BY <1>1, DoReturn DEF CInv
<1>4. agent \in [Agents -> AgentType] /\ update \in [Agents -> SUBSET {"definition", "mapping"}]
      /\ HeardNow(a) /\ NotStale(a)
  BY <1>2 DEF CInv, TypeOK, MoreTypes, HeardRight
<1>5. PICK new \in SUBSET Elements :
        /\ agent' = [agent EXCEPT ![a].mapping = new]
        /\ update' = [update EXCEPT ![a] = @ \cup {"mapping"}] \/ (update' = update /\ new = agent[a].mapping)
  <2>1. Top(w).arg[1] \in {"add", "remove", "clear"} /\ (Top(w).arg[1] = "add" => Top(w).arg[2] \in Elements)
    BY <1>1, TopFits DEF CInv, Fits
  <2>2. agent[a].mapping \in SUBSET Elements
    BY <1>2, <1>4 DEF AgentType
  <2>3. Edited(agent[a].mapping, Top(w).arg) \in SUBSET Elements
    BY <2>1, <2>2 DEF Edited
  <2> QED BY <1>2, <2>3 DEF Map
<1>6. /\ created' = created /\ named' = named /\ broken' = broken /\ visitor' = visitor /\ progress' = progress
      /\ active' = active /\ context' = context /\ lock' = lock /\ heard' = heard
      /\ due' = due /\ met' = met
  BY DEF Map, rest
<1>7. agent' \in [Agents -> AgentType] /\ update' \in [Agents -> SUBSET {"definition", "mapping"}]
  BY <1>4, <1>5 DEF AgentType
<1>8. TypeOK' /\ MoreTypes'
  BY <1>6, <1>7 DEF CInv, TypeOK, MoreTypes
<1>9. /\ agent'[a].muted = agent[a].muted /\ agent'[a].quiet = agent[a].quiet
      /\ agent'[a].path = agent[a].path /\ agent'[a].state = agent[a].state
      /\ update[a] \subseteq update'[a]
      /\ "mapping" \in update'[a] \/ agent'[a].mapping = agent[a].mapping
  BY <1>4, <1>5 DEF AgentType
<1>10. HeardNow(a)' /\ NotStale(a)'
  BY <1>4, <1>6, <1>9 DEF HeardNow, NotStale, AgreesOn
<1>11. ASSUME NEW b \in Agents, b # a PROVE HeardNow(b)' /\ NotStale(b)'
  <2>1. HeardNow(b) /\ NotStale(b)
    BY DEF CInv, HeardRight
  <2>2. agent'[b] = agent[b] /\ update'[b] = update[b]
    BY <1>4, <1>5, <1>11
  <2> QED BY <1>6, <2>1, <2>2, HeardSame
<1>12. HeardRight'
  BY <1>10, <1>11 DEF HeardRight
<1>13. Reaching'
  BY <1>1, <1>3, <1>6, ReachingKept DEF CInv
<1> QED BY <1>3, <1>8, <1>12, <1>13 DEF CInv

\* A field of the context changes, and is announced for every active agent.
LEMMA AllStep ==
  ASSUME CInv, created' = created, named' = named, broken' = broken, visitor' = visitor, progress' = progress,
         active' = active, agent' = agent, lock' = lock, update' = update, due' = due, met' = met,
         context' \in ContextType, heard' \in [Agents -> HeardType],
         \A b \in Agents : HeardNow(b)' /\ NotStale(b)', Stacks', TasksFit', Reaching'
  PROVE  CInv'
<1>1. TypeOK' /\ MoreTypes'
  BY DEF CInv, TypeOK, MoreTypes
<1> QED BY <1>1 DEF CInv, HeardRight

\* igs_freeze and igs_unfreeze tell every active agent.
LEMMA FreezeKeeps ==
  ASSUME CInv, NEW w \in Workers, Freeze(w)
  PROVE  CInv'
<1>1. doing[w] # <<>> /\ Top(w).op = "freeze" /\ inbox' = inbox
      /\ (Return(w) \/ Do(w, <<Task("tell", None, Top(w).arg)>>))
  BY DEF Freeze, Locked, At, rest, Return
<1>2. PICK v \in BOOLEAN : v = Top(w).arg
  BY <1>1, TopFits DEF CInv, Fits
<1>3. Stacks' /\ TasksFit' /\ \A b : Pending(b) => Pending(b)' \/ (w = Net /\ Covers(Top(w), b))
  <2>1. v \in Args
    BY DEF Args
  <2>2. Task("tell", None, v) \in AnyTask /\ Fits(Task("tell", None, v))
    BY <2>1, TellTask
  <2> QED BY <1>1, <1>2, <2>2, DoReturn, DoOne DEF CInv
<1>4. /\ created' = created /\ named' = named /\ broken' = broken /\ visitor' = visitor /\ progress' = progress
      /\ active' = active /\ agent' = agent /\ lock' = lock /\ update' = update
      /\ due' = due /\ met' = met
      /\ context' = [context EXCEPT !.frozen = v]
      /\ heard' = IF context.frozen = v \/ visitor = "out" THEN heard
                  ELSE [b \in Agents |-> IF b \in active THEN [heard[b] EXCEPT !["frozen"] = v] ELSE heard[b]]
  BY <1>2 DEF Freeze, rest, ShoutAll
<1>5. context \in ContextType /\ heard \in [Agents -> HeardType]
  BY DEF CInv, MoreTypes
<1>6. /\ context' \in ContextType
      /\ context'.frozen = v /\ context'.stream = context.stream /\ context'.file = context.file
  BY <1>4, <1>5 DEF ContextType
<1>7. ASSUME NEW b \in Agents
      PROVE  heard'[b] \in HeardType /\ HeardNow(b)' /\ NotStale(b)'
  <2>1. HeardNow(b) /\ NotStale(b) /\ heard[b] \in HeardType
    BY <1>5 DEF CInv, HeardRight
  <2>2. CASE context.frozen = v
    BY <1>4, <1>6, <2>1, <2>2, HeardSame
  <2>3. CASE context.frozen # v /\ visitor = "out"
    BY <1>4, <1>6, <2>1, <2>3 DEF HeardNow, NotStale
  <2>4. CASE context.frozen # v /\ visitor # "out" /\ b \notin active
    <3>1. heard'[b] = heard[b]
      BY <1>4, <2>4
    <3> QED BY <1>4, <1>6, <2>1, <2>4, <3>1 DEF HeardNow, NotStale
  <2>5. CASE context.frozen # v /\ visitor # "out" /\ b \in active
    <3>1. heard'[b] = [heard[b] EXCEPT !["frozen"] = v]
      BY <1>4, <2>5
    <3>2. /\ heard'[b] \in HeardType /\ heard'[b].frozen = v
          /\ heard'[b].muted = heard[b].muted /\ heard'[b].quiet = heard[b].quiet
          /\ heard'[b].state = heard[b].state /\ heard'[b].path = heard[b].path
          /\ heard'[b].mapping = heard[b].mapping
          /\ heard'[b].stream = heard[b].stream /\ heard'[b].file = heard[b].file
      BY <2>1, <3>1 DEF HeardType
    <3>3. HeardNow(b)'
      BY <1>4, <1>6, <2>1, <3>2 DEF HeardNow, AgreesOn
    <3>4. NotStale(b)'
      BY <1>4, <1>6, <2>1, <2>5, <3>2 DEF NotStale
    <3> QED BY <3>2, <3>3, <3>4
  <2> QED BY <2>2, <2>3, <2>4, <2>5
<1>8. heard' \in [Agents -> HeardType]
  <2>1. heard' = [b \in Agents |-> heard'[b]]
    BY <1>4, <1>5
  <2> QED BY <1>7, <2>1
<1>9. Reaching'
  BY <1>1, <1>3, <1>4, ReachingKept DEF CInv
<1> QED BY <1>3, <1>4, <1>6, <1>7, <1>8, <1>9, AllStep

\* igs_log_set_stream and igs_log_set_file.
LEMMA SetLogKeeps ==
  ASSUME CInv, NEW w \in Workers, SetLog(w)
  PROVE  CInv'
<1>1. doing[w] # <<>> /\ Top(w).op = "log" /\ inbox' = inbox /\ Return(w)
  BY DEF SetLog, Locked, At, rest
<1>2. PICK f \in {"stream", "file"}, v \in BOOLEAN : f = Top(w).arg[1] /\ v = Top(w).arg[2]
  BY <1>1, TopFits DEF CInv, Fits
<1>3. Stacks' /\ TasksFit' /\ \A b : Pending(b) => Pending(b)' \/ (w = Net /\ Covers(Top(w), b))
  BY <1>1, DoReturn DEF CInv
<1>4. /\ created' = created /\ named' = named /\ broken' = broken /\ visitor' = visitor /\ progress' = progress
      /\ active' = active /\ agent' = agent /\ lock' = lock /\ update' = update
      /\ due' = due /\ met' = met
      /\ context' = [context EXCEPT ![f] = v]
      /\ heard' = IF context[f] = v \/ visitor = "out" THEN heard
                  ELSE [b \in Agents |-> IF b \in active THEN [heard[b] EXCEPT ![f] = v] ELSE heard[b]]
  BY <1>2 DEF SetLog, rest, ShoutAll
<1>5. context \in ContextType /\ heard \in [Agents -> HeardType]
  BY DEF CInv, MoreTypes
<1>6. /\ context' \in ContextType /\ context'.frozen = context.frozen
      /\ f = "stream" => context'.stream = v /\ context'.file = context.file
      /\ f = "file" => context'.file = v /\ context'.stream = context.stream
  <2>1. CASE f = "stream"
    BY <1>4, <1>5, <2>1 DEF ContextType
  <2>2. CASE f = "file"
    BY <1>4, <1>5, <2>2 DEF ContextType
  <2> QED BY <2>1, <2>2
<1>7. ASSUME NEW b \in Agents
      PROVE  heard'[b] \in HeardType /\ HeardNow(b)' /\ NotStale(b)'
  <2>1. HeardNow(b) /\ NotStale(b) /\ heard[b] \in HeardType
    BY <1>5 DEF CInv, HeardRight
  <2>2. CASE context[f] = v
    <3>1. context'.stream = context.stream /\ context'.file = context.file
      BY <1>6, <2>2
    <3> QED BY <1>4, <1>6, <2>1, <2>2, <3>1, HeardSame
  <2>3. CASE context[f] # v /\ (visitor = "out" \/ b \notin active)
    <3>1. heard'[b] = heard[b]
      BY <1>4, <2>3
    <3> QED BY <1>4, <1>6, <2>1, <2>3, <3>1 DEF HeardNow, NotStale
  <2>4. CASE context[f] # v /\ visitor # "out" /\ b \in active
    <3>1. heard'[b] = [heard[b] EXCEPT ![f] = v]
      BY <1>4, <2>4
    <3>2. /\ heard'[b] \in HeardType /\ heard'[b].frozen = heard[b].frozen
          /\ heard'[b].muted = heard[b].muted /\ heard'[b].quiet = heard[b].quiet
          /\ heard'[b].state = heard[b].state /\ heard'[b].path = heard[b].path
          /\ heard'[b].mapping = heard[b].mapping
          /\ f = "stream" => heard'[b].stream = v /\ heard'[b].file = heard[b].file
          /\ f = "file" => heard'[b].file = v /\ heard'[b].stream = heard[b].stream
      <4>1. CASE f = "stream"
        BY <2>1, <3>1, <4>1 DEF HeardType
      <4>2. CASE f = "file"
        BY <2>1, <3>1, <4>2 DEF HeardType
      <4> QED BY <4>1, <4>2
    <3>3. HeardNow(b)'
      BY <1>4, <1>6, <2>1, <3>2 DEF HeardNow, AgreesOn
    <3>4. NotStale(b)'
      BY <1>4, <1>6, <2>1, <2>4, <3>2 DEF NotStale
    <3> QED BY <3>2, <3>3, <3>4
  <2> QED BY <2>2, <2>3, <2>4
<1>8. heard' \in [Agents -> HeardType]
  <2>1. heard' = [b \in Agents |-> heard'[b]]
    BY <1>4, <1>5
  <2> QED BY <1>7, <2>1
<1>9. Reaching'
  BY <1>1, <1>3, <1>4, ReachingKept DEF CInv
<1> QED BY <1>3, <1>4, <1>6, <1>7, <1>8, <1>9, AllStep

\* igsagent_activate flags the definition.
LEMMA ActivateKeeps ==
  ASSUME CInv, NEW w \in Workers, Activate(w)
  PROVE  CInv'
<1>1. doing[w] # <<>> /\ Top(w).op = "activate" /\ inbox' = inbox /\ ~broken
      /\ (Return(w) \/ Do(w, <<Task("tell", Top(w).a, None)>>))
  BY DEF Activate, Locked, At, rest, Return
<1>2. PICK a \in created : a = Top(w).a /\ a \in Agents
  <2>1. Top(w).a \in Agents
    BY <1>1, TopFits DEF CInv, Fits
  <2> QED BY <2>1, Facts DEF Activate, Locked, At
<1>3. Stacks' /\ TasksFit' /\ \A b : Pending(b) => Pending(b)' \/ (w = Net /\ Covers(Top(w), b))
  <2>1. Task("tell", a, None) \in AnyTask /\ Fits(Task("tell", a, None))
    BY <1>2, TellTask, SomeArgs
  <2> QED BY <1>1, <1>2, <2>1, DoReturn, DoOne DEF CInv
<1>4. /\ created' = created /\ named' = named /\ broken' = broken /\ visitor' = visitor /\ progress' = progress
      /\ agent' = agent /\ context' = context /\ lock' = lock /\ heard' = heard
      /\ due' = due /\ met' = met
      /\ active' = active \cup {a}
      /\ update' = IF a \in active THEN update ELSE [update EXCEPT ![a] = @ \cup {"definition"}]
  BY <1>2 DEF Activate, rest, Flags
<1>5. update \in [Agents -> SUBSET {"definition", "mapping"}]
  BY DEF CInv, TypeOK
<1>6. TypeOK' /\ MoreTypes'
  <2>1. update' \in [Agents -> SUBSET {"definition", "mapping"}]
    BY <1>4, <1>5
  <2> QED BY <1>2, <1>4, <2>1 DEF CInv, TypeOK, MoreTypes
<1>7. ASSUME NEW b \in Agents PROVE HeardNow(b)' /\ NotStale(b)'
  <2>1. HeardNow(b) /\ NotStale(b)
    BY DEF CInv, HeardRight
  <2>2. CASE b # a \/ a \in active
    <3>1. (b \in active' <=> b \in active) /\ update'[b] = update[b]
      BY <1>4, <1>5, <2>2
    <3> QED BY <1>4, <2>1, <3>1, HeardSame
  <2>3. CASE b = a /\ a \notin active
    <3>1. "definition" \in update'[b]
      BY <1>2, <1>4, <1>5, <2>3
    <3> QED BY <1>4, <2>1, <2>3, <3>1 DEF HeardNow, NotStale
  <2> QED BY <2>2, <2>3
<1>8. Reaching'
  BY <1>1, <1>3, <1>4, ReachingKept DEF CInv
<1> QED BY <1>3, <1>6, <1>7, <1>8 DEF CInv, HeardRight

\* What was heard of an agent that is not known.
LEMMA UnknownType ==
  /\ Unknown \in HeardType /\ Unknown.muted = None /\ Unknown.quiet = None /\ Unknown.frozen = None
BY DEF Unknown, HeardType

\* igsagent_deactivate: the other peer forgets the agent.
LEMMA DeactivateKeeps ==
  ASSUME CInv, NEW w \in Workers, Deactivate(w)
  PROVE  CInv'
<1>1. doing[w] # <<>> /\ Top(w).op = "deactivate" /\ inbox' = inbox
      /\ (Return(w) \/ Do(w, <<Task("tell", Top(w).a, None)>>))
  BY DEF Deactivate, Locked, At, rest, Return
<1>2. PICK a \in Agents : a = Top(w).a
  BY <1>1, TopFits DEF CInv, Fits
<1>3. Stacks' /\ TasksFit' /\ \A b : Pending(b) => Pending(b)' \/ (w = Net /\ Covers(Top(w), b))
  <2>1. Task("tell", a, None) \in AnyTask /\ Fits(Task("tell", a, None))
    BY <1>2, TellTask, SomeArgs
  <2> QED BY <1>1, <1>2, <2>1, DoReturn, DoOne DEF CInv
<1>4. /\ created' = created /\ named' = named /\ broken' = broken /\ visitor' = visitor /\ progress' = progress
      /\ agent' = agent /\ context' = context /\ lock' = lock /\ update' = update
      /\ due' = due /\ met' = met
      /\ active' = active \ {a}
      /\ heard' = IF a \in active /\ visitor # "out" THEN [heard EXCEPT ![a] = Unknown] ELSE heard
  BY <1>2 DEF Deactivate, rest
<1>5. heard \in [Agents -> HeardType] /\ HeardNow(a) /\ NotStale(a)
  BY DEF CInv, MoreTypes, HeardRight
<1>6. TypeOK' /\ MoreTypes'
  <2>1. heard' \in [Agents -> HeardType]
    BY <1>4, <1>5, UnknownType
  <2> QED BY <1>2, <1>4, <2>1 DEF CInv, TypeOK, MoreTypes
<1>7. ASSUME NEW b \in Agents PROVE HeardNow(b)' /\ NotStale(b)'
  <2>1. HeardNow(b) /\ NotStale(b)
    BY DEF CInv, HeardRight
  <2>2. CASE b # a
    <3>1. (b \in active' <=> b \in active) /\ heard'[b] = heard[b]
      BY <1>4, <1>5, <2>2
    <3> QED BY <1>4, <2>1, <3>1, HeardSame
  <2>3. CASE b = a
    <3>1. HeardNow(b)'
      BY <1>4, <2>3 DEF HeardNow
    <3>2. CASE a \in active /\ visitor # "out"
      <4>1. heard'[b] = Unknown
        BY <1>4, <1>5, <2>3, <3>2
      <4> QED BY <1>4, <3>1, <4>1, UnknownType DEF NotStale
    <3>3. CASE ~(a \in active /\ visitor # "out")
      BY <1>4, <2>1, <2>3, <3>1, <3>3 DEF NotStale
    <3> QED BY <3>2, <3>3
  <2> QED BY <2>2, <2>3
<1>8. Reaching'
  BY <1>1, <1>3, <1>4, ReachingKept DEF CInv
<1> QED BY <1>3, <1>6, <1>7, <1>8 DEF CInv, HeardRight

\* A step that only changes stacks, the lock and what was met or broken.
LEMMA StackStep ==
  ASSUME CInv, created' = created, named' = named, visitor' = visitor, progress' = progress,
         active' = active, agent' = agent, lock' \in {None, Net}, heard' = heard, update' = update,
         context' \in ContextType, context'.frozen = context.frozen,
         context'.stream = context.stream, context'.file = context.file,
         due' \subseteq Agents, broken => broken', Stacks', TasksFit', Reaching'
  PROVE  CInv'
<1>1. TypeOK' /\ MoreTypes'
  BY DEF CInv, TypeOK, MoreTypes
<1>2. HeardRight'
  BY HeardSame DEF CInv, HeardRight
<1> QED BY <1>1, <1>2 DEF CInv

\* Stacks that stay.
LEMMA StacksSame ==
  ASSUME Stacks, TasksFit, doing' = doing, inbox' = inbox
  PROVE  Stacks' /\ TasksFit' /\ \A b : Pending(b) => Pending(b)'
<1>1. \A t : (Fits(t)' <=> Fits(t)) /\ (FitsCommand(t)' <=> FitsCommand(t))
  BY DEF Fits, FitsCommand
<1> QED BY <1>1 DEF Stacks, TasksFit, Pending, Covers

\* A freed agent is none of those MUTE_ALL has to reach.
LEMMA DanglingKeeps ==
  ASSUME CInv, NEW w \in Workers, Dangling(w)
  PROVE  CInv'
<1>1. doing[w] # <<>> /\ inbox' = inbox /\ ~broken
  BY DEF Dangling
<1>2. /\ created' = created /\ named' = named /\ visitor' = visitor /\ progress' = progress
      /\ active' = active /\ agent' = agent /\ lock' = lock /\ heard' = heard /\ update' = update
      /\ context' = context /\ due' = due /\ met' = met
  BY DEF Dangling
<1>3. lock' \in {None, Net} /\ due' \subseteq Agents /\ context' \in ContextType
  BY <1>2 DEF CInv, TypeOK, MoreTypes
<1>4. CASE Return(w) /\ broken' = broken
  <2>1. Stacks' /\ TasksFit' /\ \A b : Pending(b) => Pending(b)' \/ (w = Net /\ Covers(Top(w), b))
    BY <1>1, <1>4, DoReturn DEF CInv
  <2>2. \A b \in created : ~Covers(Top(w), b)
    <3>1. Top(w).op = "each" => Top(w).a = None
      BY <1>1, TopFits DEF CInv, Fits
    <3>2. Top(w).a \notin created /\ Top(w).a # None
      BY DEF Dangling
    <3> QED BY <3>1, <3>2 DEF Covers
  <2>3. Reaching'
    BY <1>1, <1>2, <1>4, <2>1, <2>2 DEF CInv, Reaching
  <2> QED BY <1>1, <1>2, <1>3, <2>1, <2>3, StackStep
<1>5. CASE broken' = TRUE /\ doing' = doing
  <2>1. Stacks' /\ TasksFit'
    BY <1>1, <1>5, StacksSame DEF CInv
  <2>2. Reaching'
    BY <1>5 DEF Reaching
  <2> QED BY <1>1, <1>2, <1>3, <1>5, <2>1, <2>2, StackStep
<1> QED BY <1>4, <1>5 DEF Dangling

\* GET_CURRENT_*: the thread may wait for itself.
LEMMA GetKeeps ==
  ASSUME CInv, Get(Net)
  PROVE  CInv'
<1>1. /\ doing[Net] # <<>> /\ inbox' = inbox /\ ~broken /\ Top(Net).op = "get"
      /\ (Return(Net) /\ lock' = lock) \/ (lock' = Net /\ doing' = doing)
  BY DEF Get, Locked, At, rest
<1>2. /\ created' = created /\ named' = named /\ visitor' = visitor /\ progress' = progress /\ broken' = broken
      /\ active' = active /\ agent' = agent /\ heard' = heard /\ update' = update
      /\ context' = context /\ due' = due /\ met' = met
  BY DEF Get, rest
<1>3. lock' \in {None, Net} /\ due' \subseteq Agents /\ context' \in ContextType
  BY <1>1, <1>2 DEF CInv, TypeOK, MoreTypes
<1>4. Stacks' /\ TasksFit' /\ \A b : Pending(b) => Pending(b)' \/ Covers(Top(Net), b)
  BY <1>1, DoReturn, StacksSame, Facts DEF CInv
<1>5. Reaching'
  BY <1>1, <1>2, <1>4, ReachingKept DEF CInv
<1> QED BY <1>1, <1>2, <1>3, <1>4, <1>5, StackStep

\* igsagent_destroy, last section: MUTE_ALL has not to reach the agent any more.
LEMMA FreeKeeps ==
  ASSUME CInv, NEW w \in Users, Free(w)
  PROVE  CInv'
<1>1. doing[w] # <<>> /\ inbox' = inbox /\ ~broken /\ Top(w).op = "free" /\ Return(w) /\ w \in Workers /\ w # Net
  BY Facts DEF Free, Locked, At
<1>2. PICK a \in Agents : a = Top(w).a
  BY <1>1, TopFits DEF CInv, Fits
<1>3. Stacks' /\ TasksFit' /\ \A b : Pending(b) => Pending(b)' \/ (w = Net /\ Covers(Top(w), b))
  BY <1>1, DoReturn DEF CInv
<1>4. /\ visitor' = visitor /\ progress' = progress
      /\ active' = active /\ agent' = agent /\ heard' = heard /\ update' = update
      /\ context' = context /\ lock' = lock /\ met' = met
      /\ created' = created \ {a} /\ named' = named \ {a} /\ due' = due \ {a} /\ (broken' <=> a \in active)
  BY <1>2 DEF Free, DefinitionsLeft
<1>5. TypeOK' /\ MoreTypes'
  BY <1>1, <1>4 DEF CInv, TypeOK, MoreTypes
<1>6. HeardRight'
  BY <1>1, <1>4, HeardSame DEF CInv, HeardRight
<1>7. Reaching'
  BY <1>1, <1>3, <1>4 DEF CInv, Reaching
<1> QED BY <1>3, <1>5, <1>6, <1>7 DEF CInv

\* igsagent_new sets the definition, which flags it.
LEMMA NameKeeps ==
  ASSUME CInv, NEW w \in Users, Name(w)
  PROVE  CInv'
<1>1. doing[w] # <<>> /\ inbox' = inbox /\ ~broken /\ Top(w).op = "name" /\ Return(w) /\ w \in Workers /\ w # Net
  BY Facts DEF Name, Locked, At
<1>2. PICK a \in created : a = Top(w).a /\ a \in Agents
  <2>1. Top(w).a \in Agents
    BY <1>1, TopFits DEF CInv, Fits
  <2> QED BY <2>1, Facts DEF Name, Locked, At
<1>3. Stacks' /\ TasksFit' /\ \A b : Pending(b) => Pending(b)' \/ (w = Net /\ Covers(Top(w), b))
  BY <1>1, DoReturn DEF CInv
<1>4. /\ visitor' = visitor /\ progress' = progress /\ broken' = broken /\ created' = created
      /\ active' = active /\ agent' = agent /\ heard' = heard
      /\ context' = context /\ lock' = lock /\ met' = met /\ due' = due
      /\ named' = named \cup {a} /\ update' = [update EXCEPT ![a] = {"definition", "mapping"}]
  BY <1>2 DEF Name
<1>5. update \in [Agents -> SUBSET {"definition", "mapping"}]
  BY DEF CInv, TypeOK
<1>6. TypeOK' /\ MoreTypes'
  <2>1. update' \in [Agents -> SUBSET {"definition", "mapping"}]
    BY <1>4, <1>5
  <2> QED BY <1>4, <2>1 DEF CInv, TypeOK, MoreTypes
<1>7. ASSUME NEW b \in Agents PROVE HeardNow(b)' /\ NotStale(b)'
  <2>1. HeardNow(b) /\ NotStale(b)
    BY DEF CInv, HeardRight
  <2>2. update[b] \subseteq update'[b]
    BY <1>4, <1>5
  <2> QED BY <1>4, <2>1, <2>2, HeardSame
<1>8. Reaching'
  BY <1>1, <1>3, <1>4 DEF CInv, Reaching
<1> QED BY <1>3, <1>6, <1>7, <1>8 DEF CInv, HeardRight

-----------------------------------------------------------------------------
(***************************************************************************)
(* The network thread.                                                     *)
(***************************************************************************)
\* Whether a command fits does not depend on the state.
LEMMA SameFit == \A c : FitsCommand(c)' <=> FitsCommand(c)
BY DEF FitsCommand, Fits

\* The command at hand fits.
LEMMA HeadFits ==
  ASSUME Stacks, TasksFit, inbox # <<>>
  PROVE  Head(inbox) \in AnyTask /\ FitsCommand(Head(inbox))
<1>1. 1 \in 1..Len(inbox) /\ Head(inbox) = inbox[1] /\ inbox[1] \in AnyTask
  BY DEF Stacks
<1> QED BY <1>1 DEF TasksFit

\* ... and those after it.
LEMMA InboxTail ==
  ASSUME Stacks, TasksFit, inbox # <<>>, inbox' = Tail(inbox)
  PROVE  InboxFits'
<1>1. inbox' \in Seq(AnyTask) /\ Len(inbox') = Len(inbox) - 1 /\ Len(inbox) \in Nat
      /\ \A i \in 1..Len(inbox') : inbox'[i] = inbox[i + 1]
  BY DEF Stacks
<1>2. \A i \in 1..Len(inbox') : FitsCommand(inbox'[i])
  <2>1. \A i \in 1..Len(inbox') : i + 1 \in 1..Len(inbox)
    BY <1>1
  <2> QED BY <1>1, <2>1 DEF TasksFit
<1> QED BY <1>1, <1>2, SameFit DEF InboxFits

\* A command at the end of a list of commands.
LEMMA AppendFits ==
  ASSUME NEW s \in Seq(AnyTask), \A i \in 1..Len(s) : FitsCommand(s[i]),
         NEW c \in AnyTask, FitsCommand(c)
  PROVE  Append(s, c) \in Seq(AnyTask) /\ \A i \in 1..Len(Append(s, c)) : FitsCommand(Append(s, c)[i])
<1>1. Append(s, c) \in Seq(AnyTask) /\ Len(Append(s, c)) = Len(s) + 1 /\ Len(s) \in Nat
      /\ \A i \in 1..Len(s) : Append(s, c)[i] = s[i]
      /\ Append(s, c)[Len(s) + 1] = c
  OBVIOUS
<1> QED BY <1>1

\* A command that comes.
LEMMA InboxAppend ==
  ASSUME Stacks, TasksFit, NEW c \in AnyTask, FitsCommand(c), inbox' = Append(inbox, c)
  PROVE  InboxFits'
<1>1. inbox' \in Seq(AnyTask) /\ \A i \in 1..Len(inbox') : FitsCommand(inbox'[i])
  BY AppendFits DEF Stacks, TasksFit
<1> QED BY <1>1, SameFit DEF InboxFits

\* The stacks stay, the inbox changes.
LEMMA OtherInbox ==
  ASSUME Stacks, TasksFit, doing' = doing, InboxFits'
  PROVE  Stacks' /\ TasksFit' /\ \A b : Pending(b) => Pending(b)'
<1>1. \A t : Fits(t)' <=> Fits(t)
  BY DEF Fits
<1> QED BY <1>1 DEF Stacks, TasksFit, InboxFits, Pending, Covers

\* An idle worker gets tasks.
LEMMA NewTasks ==
  ASSUME Stacks, TasksFit, NEW w \in Workers, doing[w] = <<>>, NEW tasks \in Seq(AnyTask),
         \A i \in 1..Len(tasks) : Fits(tasks[i]), doing' = [doing EXCEPT ![w] = tasks], InboxFits'
  PROVE  /\ Stacks' /\ TasksFit'
         /\ \A a : Pending(a) => Pending(a)'
         /\ w = Net => \A a : (\E i \in 1..Len(tasks) : Covers(tasks[i], a)) => Pending(a)'
<1>1. doing'[w] = tasks /\ \A u \in Workers : u # w => doing'[u] = doing[u]
  BY DEF Stacks
<1>2. Stacks'
  BY DEF Stacks, InboxFits
<1>3. \A t : Fits(t)' <=> Fits(t)
  BY DEF Fits
<1>4. \A u \in Workers : \A i \in 1..Len(doing'[u]) : Fits(doing'[u][i])
  BY <1>1 DEF TasksFit
<1>5. TasksFit'
  BY <1>3, <1>4 DEF TasksFit, InboxFits
<1>6. ASSUME NEW a, Pending(a) PROVE Pending(a)'
  <2>1. w # Net
    BY <1>6 DEF Pending
  <2> QED BY <1>1, <1>6, <2>1, Facts DEF Pending, Covers
<1>7. ASSUME w = Net, NEW a, NEW i \in 1..Len(tasks), Covers(tasks[i], a) PROVE Pending(a)'
  BY <1>1, <1>7 DEF Pending, Covers
<1> QED BY <1>2, <1>5, <1>6, <1>7

\* One task.
LEMMA NewTask ==
  ASSUME Stacks, TasksFit, NEW w \in Workers, doing[w] = <<>>, NEW t \in AnyTask, Fits(t),
         doing' = [doing EXCEPT ![w] = <<t>>], InboxFits'
  PROVE  /\ Stacks' /\ TasksFit' /\ \A a : Pending(a) => Pending(a)'
         /\ w = Net => \A a : Covers(t, a) => Pending(a)'
<1> DEFINE tasks == <<t>>
<1>1. tasks \in Seq(AnyTask) /\ Len(tasks) = 1 /\ tasks[1] = t
  OBVIOUS
<1> HIDE DEF tasks
<1>2. doing' = [doing EXCEPT ![w] = tasks]
  BY DEF tasks
<1>3. \A i \in 1..Len(tasks) : Fits(tasks[i])
  BY <1>1
<1>4. \A a : Covers(t, a) => \E i \in 1..Len(tasks) : Covers(tasks[i], a)
  BY <1>1
<1> QED BY <1>1, <1>2, <1>3, <1>4, NewTasks

\* No task.
LEMMA NoTask ==
  ASSUME Stacks, TasksFit, NEW w \in Workers, doing[w] = <<>>,
         doing' = [doing EXCEPT ![w] = <<>>], InboxFits'
  PROVE  Stacks' /\ TasksFit' /\ \A a : Pending(a) => Pending(a)'
<1>1. <<>> \in Seq(AnyTask) /\ \A i \in 1..Len(<<>>) : Fits(<<>>[i])
  OBVIOUS
<1> QED BY <1>1, NewTasks

\* A log may open the log file.
LEMMA LoggedType ==
  ASSUME context \in ContextType
  PROVE  /\ Logged \in ContextType /\ Logged.frozen = context.frozen
         /\ Logged.stream = context.stream /\ Logged.file = context.file
BY DEF Logged, ContextType

\* Tasks for one agent without an argument.
LEMMA LaterTask ==
  ASSUME NEW op \in {"name", "activate", "deactivate", "free"}, NEW a \in Agents
  PROVE  Fits(Task(op, a, None))
<1> DEFINE t == Task(op, a, None)
<1>1. t.op = op /\ t.a = a
  BY DEF Task
<1> HIDE DEF t
<1>2. Fits(t)
  BY <1>1 DEF Fits
<1> QED BY <1>2 DEF t

\* Tasks of the two timers.
LEMMA WalkTask ==
  ASSUME NEW op \in {"definition", "mapping"}, NEW todo \in SUBSET Agents
  PROVE  Fits(Task(op, None, todo))
<1> DEFINE t == Task(op, None, todo)
<1>1. t.op = op /\ t.arg = todo
  BY DEF Task
<1> HIDE DEF t
<1>2. Fits(t)
  BY <1>1 DEF Fits
<1> QED BY <1>2 DEF t

\* They are tasks, too.
LEMMA WalkTaskAny ==
  ASSUME NEW op \in {"definition", "mapping"}, NEW todo \in SUBSET Agents
  PROVE  Task(op, None, todo) \in AnyTask /\ Fits(Task(op, None, todo))
<1>1. op \in Ops
  BY DEF Ops
<1>2. todo \in Args
  BY DEF Args
<1> QED BY <1>1, <1>2, TaskAny, WalkTask

\* igs_net_performance_check.
LEMMA CheckKeeps ==
  ASSUME CInv, NEW w \in Users, Check(w)
  PROVE  CInv'
<1>1. doing[w] # <<>> /\ Top(w).op = "check" /\ Return(w) /\ w \in Workers /\ w # Net
      /\ (inbox' = inbox \/ inbox' = Append(inbox, Task("pong", None, 1)))
  BY Facts DEF Check, At
<1>2. /\ created' = created /\ named' = named /\ visitor' = visitor /\ progress' = progress
      /\ active' = active /\ agent' = agent /\ lock' = lock /\ heard' = heard /\ update' = update
      /\ context' = context /\ due' = due /\ met' = met /\ broken' = broken
  BY DEF Check
<1>3. InboxFits'
  <2>1. 1 \in Args
    BY DEF Args
  <2>2. "pong" \in Ops
    BY DEF Ops
  <2>3. Task("pong", None, 1) \in AnyTask
    BY <2>1, <2>2, TaskAny
  <2>4. FitsCommand(Task("pong", None, 1))
    BY TaskFields DEF FitsCommand
  <2> QED BY <1>1, <2>3, <2>4, InboxSame, InboxAppend DEF CInv
<1>4. Stacks' /\ TasksFit' /\ \A b : Pending(b) => Pending(b)' \/ (w = Net /\ Covers(Top(w), b))
  <2>1. <<>> \in Seq(AnyTask) /\ \A i \in 1..Len(<<>>) : Fits(<<>>[i])
    OBVIOUS
  <2> QED BY <1>1, <1>3, <2>1, DoTasks DEF Return, CInv
<1>5. Reaching'
  BY <1>1, <1>2, <1>4, ReachingKept DEF CInv
<1>6. lock' \in {None, Net} /\ due' \subseteq Agents /\ context' \in ContextType
  BY <1>2 DEF CInv, TypeOK, MoreTypes
<1> QED BY <1>2, <1>4, <1>5, <1>6, StackStep

\* START_AGENT reads a name that is not there.
LEMMA StartMeetsNewKeeps ==
  ASSUME CInv, StartMeetsNew
  PROVE  CInv'
<1>1. /\ created' = created /\ named' = named /\ visitor' = visitor /\ progress' = progress
      /\ active' = active /\ agent' = agent /\ lock' = lock /\ heard' = heard /\ update' = update
      /\ context' = context /\ due' = due /\ met' = met /\ broken' = TRUE /\ doing' = doing /\ inbox' = inbox
  BY DEF StartMeetsNew
<1>2. lock' \in {None, Net} /\ due' \subseteq Agents /\ context' \in ContextType
  BY <1>1 DEF CInv, TypeOK, MoreTypes
<1>3. Stacks' /\ TasksFit'
  BY <1>1, StacksSame DEF CInv
<1>4. Reaching'
  BY <1>1 DEF Reaching
<1> QED BY <1>1, <1>2, <1>3, <1>4, StackStep

\* START_AGENT finds an agent, or none.
LEMMA ReceiveStartKeeps ==
  ASSUME CInv, ReceiveStart
  PROVE  CInv'
<1>1. doing[Net] = <<>> /\ inbox # <<>> /\ inbox' = Tail(inbox) /\ Net \in Workers
  BY Facts DEF ReceiveStart, Idle
<1>2. /\ created' = created /\ named' = named /\ visitor' = visitor /\ progress' = progress
      /\ active' = active /\ agent' = agent /\ lock' = lock /\ heard' = heard /\ update' = update
      /\ due' = due /\ met' = met /\ broken' = broken /\ context' = Logged
  BY DEF ReceiveStart
<1>3. /\ lock' \in {None, Net} /\ due' \subseteq Agents /\ context' \in ContextType
      /\ context'.frozen = context.frozen /\ context'.stream = context.stream /\ context'.file = context.file
  BY <1>2, LoggedType DEF CInv, TypeOK, MoreTypes
<1>4. InboxFits'
  BY <1>1, InboxTail DEF CInv
<1>5. Stacks' /\ TasksFit' /\ \A b : Pending(b) => Pending(b)'
  <2>1. CASE doing' = doing
    BY <1>4, <2>1, OtherInbox DEF CInv
  <2>2. CASE \E a \in named : doing' = [doing EXCEPT ![Net] = <<Task("activate", a, None)>>]
    <3>1. PICK a \in Agents : doing' = [doing EXCEPT ![Net] = <<Task("activate", a, None)>>]
      BY <2>2 DEF CInv, TypeOK
    <3>2. "activate" \in Ops
      BY DEF Ops
    <3>3. Task("activate", a, None) \in AnyTask
      BY <3>2, TaskAny, SomeArgs
    <3>4. Fits(Task("activate", a, None))
      BY LaterTask
    <3> QED BY <1>1, <1>4, <3>1, <3>3, <3>4, NewTask DEF CInv
  <2> QED BY <2>1, <2>2 DEF ReceiveStart
<1>6. Reaching'
  BY <1>2, <1>5 DEF CInv, Reaching
<1> QED BY <1>2, <1>3, <1>5, <1>6, StackStep

\* The two timers walk copies of the active agents.
LEMMA TickKeeps ==
  ASSUME CInv, Tick
  PROVE  CInv'
<1>1. doing[Net] = <<>> /\ inbox' = inbox /\ Net \in Workers /\ active \in SUBSET Agents
  BY Facts DEF Tick, Idle, rest, CInv, TypeOK
<1>2. /\ created' = created /\ named' = named /\ visitor' = visitor /\ progress' = progress
      /\ active' = active /\ agent' = agent /\ lock' = lock /\ heard' = heard /\ update' = update
      /\ due' = due /\ met' = met /\ broken' = broken /\ context' = context
  BY DEF Tick, rest
<1>3. lock' \in {None, Net} /\ due' \subseteq Agents /\ context' \in ContextType
  BY <1>2 DEF CInv, TypeOK, MoreTypes
<1>4. PICK what \in {"definition", "mapping"} : doing' = [doing EXCEPT ![Net] = <<Task(what, None, active)>>]
  BY DEF Tick
<1>5. Stacks' /\ TasksFit' /\ \A b : Pending(b) => Pending(b)'
  <2>1. what \in Ops
    BY DEF Ops
  <2>2. active \in Args
    BY <1>1 DEF Args
  <2>3. Task(what, None, active) \in AnyTask
    BY <2>1, <2>2, TaskAny
  <2>4. Fits(Task(what, None, active))
    BY <1>1, WalkTask
  <2> QED BY <1>1, <1>4, <2>3, <2>4, InboxSame, NewTask DEF CInv
<1>6. Reaching'
  BY <1>2, <1>5 DEF CInv, Reaching
<1> QED BY <1>2, <1>3, <1>5, <1>6, StackStep

\* A walk of MUTE_ALL.
LEMMA EachTask ==
  ASSUME NEW r \in SUBSET Agents, NEW flag \in BOOLEAN
  PROVE  Task("each", None, [rest |-> r, flag |-> flag]) \in AnyTask
         /\ Fits(Task("each", None, [rest |-> r, flag |-> flag]))
<1> DEFINE arg == [rest |-> r, flag |-> flag]
           t == Task("each", None, arg)
<1>1. arg \in [rest : SUBSET Agents, flag : BOOLEAN]
  OBVIOUS
<1> HIDE DEF arg
<1>2. t.op = "each" /\ t.a = None /\ t.arg = arg
  BY DEF Task
<1>3. arg \in Args
  BY <1>1 DEF Args
<1>4. "each" \in Ops
  BY DEF Ops
<1>5. t \in AnyTask
  BY <1>3, <1>4, TaskAny
<1> HIDE DEF t
<1>6. Fits(t)
  BY <1>1, <1>2 DEF Fits
<1> QED BY <1>5, <1>6 DEF t, arg

\* A command starts its function; MUTE_ALL has to reach the active agents.
LEMMA ReceiveKeeps ==
  ASSUME CInv, Receive
  PROVE  CInv'
<1> DEFINE c == Head(inbox)
<1>1. /\ doing[Net] = <<>> /\ inbox # <<>> /\ inbox' = Tail(inbox) /\ Net \in Workers /\ ~broken
      /\ c.op \notin {"start", "pong"}
  BY Facts DEF Receive, Idle
<1>2. c \in AnyTask /\ FitsCommand(c)
  BY <1>1, HeadFits DEF CInv
<1>3. /\ created' = created /\ named' = named /\ visitor' = visitor /\ progress' = progress
      /\ active' = active /\ agent' = agent /\ heard' = heard /\ update' = update
      /\ broken' = broken /\ (context' = context \/ context' = Logged)
      /\ (c.op = "each" => due' = active /\ met' = FALSE)
      /\ (c.op # "each" => due' = due /\ met' = met)
  BY DEF Receive
<1>4. active \in SUBSET Agents /\ active \subseteq created /\ lock \in {None, Net} /\ due \subseteq Agents
      /\ context \in ContextType
  BY <1>1 DEF CInv, TypeOK, MoreTypes
<1>5. /\ context' \in ContextType
      /\ context'.frozen = context.frozen /\ context'.stream = context.stream /\ context'.file = context.file
  BY <1>3, <1>4, LoggedType
<1>6. InboxFits'
  BY <1>1, InboxTail DEF CInv
<1>7. CASE c.op = "replay" /\ c.a \in active
  <2>1. lock' = Net /\ doing' = doing
    BY <1>7 DEF Receive, Replay
  <2>2. Stacks' /\ TasksFit' /\ \A b : Pending(b) => Pending(b)'
    BY <1>6, <2>1, OtherInbox DEF CInv
  <2>3. c.op # "each"
    BY <1>7
  <2>4. Reaching'
    BY <1>3, <2>2, <2>3 DEF CInv, Reaching
  <2> QED BY <1>3, <1>4, <1>5, <2>1, <2>2, <2>3, <2>4, StackStep
<1>8. CASE ~(c.op = "replay" /\ c.a \in active)
  <2>1. lock' = lock /\ doing' = [doing EXCEPT ![Net] = CalledBy(c)]
    BY <1>8 DEF Receive
  <2>2. CASE c.op = "each"
    <3> DEFINE t == Task("each", None, [rest |-> active, flag |-> c.arg])
    <3>1. CalledBy(c) = <<t>>
      BY <2>2 DEF CalledBy, ToEveryone
    <3>2. t \in AnyTask /\ Fits(t)
      BY <1>2, <1>4, <2>2, EachTask DEF FitsCommand
    <3>3. t.op = "each" /\ t.arg.rest = active
      BY DEF Task
    <3> HIDE DEF t, c
    <3>4. Stacks' /\ TasksFit' /\ \A b : Covers(t, b) => Pending(b)'
      BY <1>1, <1>6, <2>1, <3>1, <3>2, NewTask DEF CInv
    <3>5. Reaching'
      BY <1>3, <1>4, <2>2, <3>3, <3>4 DEF Reaching, Covers
    <3> QED BY <1>3, <1>4, <1>5, <2>1, <2>2, <3>4, <3>5, StackStep
  <2>3. CASE c.op # "each"
    <3>1. CalledBy(c) = <<>> \/ CalledBy(c) = <<c>>
      BY <2>3 DEF CalledBy, ToPeer, ToAgent, SetValue
    <3>2. Fits(c)
      BY <1>1, <1>2, <2>3 DEF FitsCommand
    <3> HIDE DEF c
    <3>3. Stacks' /\ TasksFit' /\ \A b : Pending(b) => Pending(b)'
      BY <1>1, <1>2, <1>6, <2>1, <3>1, <3>2, NewTask, NoTask DEF CInv
    <3>4. Reaching'
      BY <1>3, <2>3, <3>3 DEF CInv, Reaching
    <3> QED BY <1>3, <1>4, <1>5, <2>1, <2>3, <3>3, <3>4, StackStep
  <2> QED BY <2>2, <2>3
<1> QED BY <1>7, <1>8

\* PONG is answered when it has the number of the counter.
LEMMA ReceivePongKeeps ==
  ASSUME CInv, ReceivePong
  PROVE  CInv'
<1> DEFINE n == Head(inbox).arg
<1>1. /\ doing' = doing /\ inbox # <<>> /\ Net \in Workers /\ ~broken
  BY Facts DEF ReceivePong, Idle
<1>2. /\ created' = created /\ named' = named /\ visitor' = visitor
      /\ active' = active /\ agent' = agent /\ heard' = heard /\ update' = update /\ lock' = lock
      /\ broken' = broken /\ context' = Logged /\ due' = due /\ met' = met
  BY DEF ReceivePong
<1>3. progress \in [counter : Nat, target : Nat] /\ context \in ContextType
  BY DEF CInv, MoreTypes
<1>4. /\ progress' = progress \/ progress' = [progress EXCEPT !.target = 0]
         \/ progress' = [progress EXCEPT !.counter = @ + 1]
      /\ inbox' = Tail(inbox) \/ (n = progress.counter /\ inbox' = Append(Tail(inbox), Task("pong", None, n + 1)))
  BY DEF ReceivePong
<1>5. progress' \in [counter : Nat, target : Nat]
  BY <1>3, <1>4
<1>6. InboxFits'
  <2>1. CASE inbox' = Tail(inbox)
    BY <1>1, <2>1, InboxTail DEF CInv
  <2>2. CASE n = progress.counter /\ inbox' = Append(Tail(inbox), Task("pong", None, n + 1))
    <3> DEFINE c == Task("pong", None, n + 1)
    <3>1. n + 1 \in Args
      BY <1>3, <2>2 DEF Args
    <3>2. "pong" \in Ops
      BY DEF Ops
    <3>3. c \in AnyTask
      BY <3>1, <3>2, TaskAny
    <3>4. c.op = "pong"
      BY DEF Task
    <3> HIDE DEF c
    <3>5. FitsCommand(c)
      BY <3>4 DEF FitsCommand
    <3> DEFINE s == Tail(inbox)
    <3>6. s \in Seq(AnyTask) /\ \A i \in 1..Len(s) : FitsCommand(s[i])
      <4>1. s \in Seq(AnyTask) /\ Len(s) = Len(inbox) - 1 /\ Len(inbox) \in Nat
            /\ \A i \in 1..Len(s) : s[i] = inbox[i + 1]
        BY <1>1 DEF CInv, Stacks
      <4> HIDE DEF s
      <4>2. \A i \in 1..Len(s) : i + 1 \in 1..Len(inbox)
        BY <4>1
      <4> QED BY <4>1, <4>2 DEF CInv, TasksFit
    <3>7. inbox' = Append(s, c)
      BY <2>2 DEF c
    <3> HIDE DEF s, n
    <3>8. inbox' \in Seq(AnyTask) /\ \A i \in 1..Len(inbox') : FitsCommand(inbox'[i])
      BY <3>3, <3>5, <3>6, <3>7, AppendFits
    <3> QED BY <3>8, SameFit DEF InboxFits
  <2> QED BY <1>4, <2>1, <2>2
<1>7. Stacks' /\ TasksFit' /\ \A b : Pending(b) => Pending(b)'
  BY <1>1, <1>6, OtherInbox DEF CInv
<1>8. TypeOK' /\ MoreTypes'
  BY <1>2, <1>3, <1>5, LoggedType DEF CInv, TypeOK, MoreTypes
<1>9. HeardRight'
  BY <1>2, <1>3, LoggedType, HeardSame DEF CInv, HeardRight
<1>10. Reaching'
  BY <1>2, <1>7 DEF CInv, Reaching
<1> QED BY <1>7, <1>8, <1>9, <1>10 DEF CInv

\* MUTE_ALL goes on: an agent is muted next, or was freed.
LEMMA EachKeeps ==
  ASSUME CInv, Each(Net)
  PROVE  CInv'
<1> DEFINE arg == Top(Net).arg
<1>1. /\ doing[Net] # <<>> /\ Top(Net).op = "each" /\ inbox' = inbox /\ ~broken /\ Net \in Workers
  BY Facts DEF Each, Locked, At
<1>2. arg \in [rest : SUBSET Agents, flag : BOOLEAN]
  BY <1>1, TopFits DEF CInv, Fits
<1>3. /\ created' = created /\ named' = named /\ visitor' = visitor /\ progress' = progress
      /\ active' = active /\ agent' = agent /\ lock' = lock /\ heard' = heard /\ update' = update
      /\ context' = context /\ due' = due
  BY DEF Each
<1>4. lock' \in {None, Net} /\ due' \subseteq Agents /\ context' \in ContextType /\ (broken \/ due \subseteq created)
  BY <1>3 DEF CInv, TypeOK, MoreTypes, Reaching
<1>5. CASE arg.rest = {} /\ Return(Net) /\ broken' = broken /\ met' = met
  <2>1. Stacks' /\ TasksFit' /\ \A b : Pending(b) => Pending(b)' \/ Covers(Top(Net), b)
    BY <1>1, <1>5, DoReturn DEF CInv
  <2>2. \A b : ~Covers(Top(Net), b)
    BY <1>1, <1>5 DEF Covers
  <2>3. Reaching'
    BY <1>3, <1>5, <2>1, <2>2 DEF CInv, Reaching
  <2> QED BY <1>3, <1>4, <1>5, <2>1, <2>3, StackStep
<1>6. ASSUME NEW a \in arg.rest
      PROVE  LET next == Task("each", None, [rest |-> Left(arg, a), flag |-> arg.flag])
             IN  next \in AnyTask /\ Fits(next) /\ next.op = "each" /\ next.arg.rest = Left(arg, a)
  <2>1. Left(arg, a) \in SUBSET Agents /\ arg.flag \in BOOLEAN
    BY <1>2 DEF Left
  <2> HIDE DEF arg
  <2> QED BY <2>1, EachTask DEF Task
<1>7. ASSUME NEW a \in arg.rest, a \in created,
             Do(Net, <<Task("mute", a, arg.flag),
                       Task("each", None, [rest |-> Left(arg, a), flag |-> arg.flag])>>),
             broken' = broken, met' = met
      PROVE  CInv'
  <2> DEFINE next == Task("each", None, [rest |-> Left(arg, a), flag |-> arg.flag])
             mute == Task("mute", a, arg.flag)
  <2>1. next \in AnyTask /\ Fits(next) /\ next.op = "each" /\ next.arg.rest = arg.rest \ {a}
    BY <1>6, <1>7 DEF Left
  <2>2. mute.op = "mute" /\ mute.a = a /\ mute.arg = arg.flag
    BY DEF Task
  <2>3. arg.flag \in Args /\ arg.flag \in BOOLEAN /\ a \in Agents
    BY <1>2, <1>7 DEF Args
  <2>4. mute \in AnyTask
    <3>1. "mute" \in Ops
      BY DEF Ops
    <3> HIDE DEF arg
    <3> QED BY <2>3, <3>1, TaskAny
  <2>5. Do(Net, <<mute, next>>)
    BY <1>7
  <2> HIDE DEF next, mute
  <2>6. Fits(mute)
    <3> HIDE DEF arg
    <3> QED BY <2>2, <2>3 DEF Fits
  <2>7. /\ Stacks' /\ TasksFit'
        /\ \A b : Pending(b) => Pending(b)' \/ Covers(Top(Net), b)
        /\ \A b : Covers(mute, b) \/ Covers(next, b) => Pending(b)'
    BY <1>1, <2>1, <2>4, <2>5, <2>6, DoTwo DEF CInv
  <2>8. \A b : Covers(Top(Net), b) => Covers(mute, b) \/ Covers(next, b)
    BY <1>1, <2>1, <2>2 DEF Covers
  <2>9. Reaching'
    BY <1>3, <1>7, <2>7, <2>8 DEF CInv, Reaching
  <2> QED BY <1>3, <1>4, <1>7, <2>7, <2>9, StackStep
<1>8. ASSUME NEW a \in arg.rest, met' = TRUE,
             \/ Do(Net, <<Task("each", None, [rest |-> Left(arg, a), flag |-> arg.flag])>>) /\ broken' = broken
             \/ broken' = TRUE /\ doing' = doing
      PROVE  CInv'
  <2> DEFINE next == Task("each", None, [rest |-> Left(arg, a), flag |-> arg.flag])
  <2>1. next \in AnyTask /\ Fits(next)
    BY <1>6
  <2>2. Do(Net, <<next>>) \/ doing' = doing
    BY <1>8
  <2> HIDE DEF next
  <2>3. Stacks' /\ TasksFit'
    BY <1>1, <2>1, <2>2, DoOne, StacksSame DEF CInv
  <2>4. Reaching'
    BY <1>1, <1>3, <1>4, <1>8 DEF Reaching
  <2> QED BY <1>1, <1>3, <1>4, <1>8, <2>3, <2>4, StackStep
<1> QED BY <1>5, <1>7, <1>8 DEF Each

\* Every field of what the other peer heard of an agent is replaced.
LEMMA ShownType ==
  ASSUME NEW a \in Agents, agent \in [Agents -> AgentType], heard \in [Agents -> HeardType],
         context \in ContextType
  PROVE  /\ Shown(a) \in HeardType
         /\ Shown(a).muted = agent[a].muted /\ Shown(a).quiet = agent[a].quiet
         /\ Shown(a).state = agent[a].state /\ Shown(a).path = agent[a].path
         /\ Shown(a).mapping = heard[a].mapping /\ Shown(a).frozen = context.frozen
         /\ Shown(a).stream = context.stream /\ Shown(a).file = context.file
<1>1. agent[a] \in AgentType /\ heard[a] \in HeardType
  OBVIOUS
<1> DEFINE B == BOOLEAN \cup {None}
           S == States \cup {None}
           P == Paths \cup {None}
           E == (SUBSET Elements) \cup {None}
<1>2. agent[a].muted \in B /\ agent[a].quiet \in B
  BY <1>1 DEF AgentType
<1>3. agent[a].state \in S /\ agent[a].path \in P
  BY <1>1 DEF AgentType
<1>4. heard[a].mapping \in E
  BY <1>1 DEF HeardType
<1>5. context.frozen \in B /\ context.stream \in B /\ context.file \in B
  BY DEF ContextType
<1>6. HeardType = [muted : B, quiet : B, state : S, path : P, mapping : E, frozen : B, stream : B, file : B]
  BY DEF HeardType
<1> HIDE DEF B, S, P, E
<1>7. Shown(a) \in HeardType
  BY <1>2, <1>3, <1>4, <1>5, <1>6 DEF Shown
<1>8. /\ Shown(a).muted = agent[a].muted /\ Shown(a).quiet = agent[a].quiet
      /\ Shown(a).state = agent[a].state /\ Shown(a).path = agent[a].path
      /\ Shown(a).mapping = heard[a].mapping /\ Shown(a).frozen = context.frozen
      /\ Shown(a).stream = context.stream /\ Shown(a).file = context.file
  BY DEF Shown
<1> QED BY <1>7, <1>8

\* s_trigger_definition_update sends everything but the mapping, which it flags.
LEMMA SendDefinitionKeeps ==
  ASSUME CInv, SendDefinition(Net)
  PROVE  CInv'
<1> DEFINE todo == Top(Net).arg
<1>1. /\ doing[Net] # <<>> /\ Top(Net).op = "definition" /\ inbox' = inbox /\ ~broken /\ Net \in Workers
  BY Facts DEF SendDefinition, Locked, At, rest
<1>2. todo \in SUBSET Agents
  BY <1>1, TopFits DEF CInv, Fits
<1>3. /\ created' = created /\ named' = named /\ visitor' = visitor /\ progress' = progress
      /\ active' = active /\ agent' = agent /\ lock' = lock /\ broken' = broken
      /\ context' = context /\ due' = due /\ met' = met
  BY DEF SendDefinition, rest
<1>4. /\ agent \in [Agents -> AgentType] /\ heard \in [Agents -> HeardType] /\ context \in ContextType
      /\ update \in [Agents -> SUBSET {"definition", "mapping"}]
  BY DEF CInv, TypeOK, MoreTypes
<1>5. Stacks' /\ TasksFit' /\ \A b : Pending(b) => Pending(b)' \/ Covers(Top(Net), b)
  <2>1. CASE Return(Net)
    BY <1>1, <2>1, DoReturn DEF CInv
  <2>2. ASSUME NEW a \in todo, Do(Net, <<Task("definition", None, todo \ {a})>>)
        PROVE  Stacks' /\ TasksFit' /\ \A b : Pending(b) => Pending(b)' \/ Covers(Top(Net), b)
    <3>1. Task("definition", None, todo \ {a}) \in AnyTask /\ Fits(Task("definition", None, todo \ {a}))
      BY <1>2, WalkTaskAny
    <3> QED BY <1>1, <2>2, <3>1, DoOne DEF CInv
  <2>3. ASSUME NEW a \in todo, Do(Net, <<Task("tell", None, None), Task("definition", None, todo \ {a})>>)
        PROVE  Stacks' /\ TasksFit' /\ \A b : Pending(b) => Pending(b)' \/ Covers(Top(Net), b)
    <3>1. Task("definition", None, todo \ {a}) \in AnyTask /\ Fits(Task("definition", None, todo \ {a}))
      BY <1>2, WalkTaskAny
    <3>2. Task("tell", None, None) \in AnyTask /\ Fits(Task("tell", None, None))
      BY TellTask, SomeArgs
    <3> QED BY <1>1, <2>3, <3>1, <3>2, DoTwo DEF CInv
  <2> QED BY <2>1, <2>2, <2>3 DEF SendDefinition
<1>6. Reaching'
  BY <1>1, <1>3, <1>5, ReachingKept DEF CInv
<1>7. CASE update' = update /\ heard' = heard
  <2>1. \A b \in Agents : update[b] \subseteq update'[b]
    BY <1>7
  <2>2. lock' \in {None, Net}
    BY <1>3 DEF CInv, TypeOK
  <2> QED BY <1>1, <1>3, <1>4, <1>5, <1>7, <2>1, <2>2, UnheardStep
<1>8. ASSUME NEW a \in Agents, a \in active, update' = [update EXCEPT ![a] = {"mapping"}],
             heard' = IF visitor = "out" THEN heard ELSE [heard EXCEPT ![a] = Shown(a)]
      PROVE  CInv'
  <2>1. update' \in [Agents -> SUBSET {"definition", "mapping"}] /\ heard' \in [Agents -> HeardType]
    BY <1>4, <1>8, ShownType
  <2>2. TypeOK' /\ MoreTypes'
    BY <1>3, <2>1 DEF CInv, TypeOK, MoreTypes
  <2>3. HeardNow(a)' /\ NotStale(a)'
    <3>1. HeardNow(a) /\ NotStale(a)
      BY DEF CInv, HeardRight
    <3>2. CASE visitor = "out"
      BY <1>3, <1>8, <3>1, <3>2 DEF HeardNow, NotStale
    <3>3. CASE visitor # "out"
      <4>1. heard'[a] = Shown(a) /\ "mapping" \in update'[a]
        BY <1>4, <1>8, <3>3
      <4>2. HeardNow(a)'
        BY <1>3, <1>4, <4>1, ShownType DEF HeardNow, AgreesOn
      <4>3. NotStale(a)'
        BY <1>3, <1>4, <1>8, <3>3, <4>1, ShownType DEF NotStale
      <4> QED BY <4>2, <4>3
    <3> QED BY <3>2, <3>3
  <2>4. ASSUME NEW b \in Agents, b # a PROVE HeardNow(b)' /\ NotStale(b)'
    <3>1. HeardNow(b) /\ NotStale(b)
      BY DEF CInv, HeardRight
    <3>2. heard'[b] = heard[b] /\ update'[b] = update[b]
      BY <1>4, <1>8, <2>4
    <3> QED BY <1>3, <3>1, <3>2, HeardSame
  <2> QED BY <1>5, <1>6, <2>2, <2>3, <2>4 DEF CInv, HeardRight
<1>9. (update' = update /\ heard' = heard)
      \/ \E a \in Agents : /\ a \in active /\ update' = [update EXCEPT ![a] = {"mapping"}]
                           /\ heard' = IF visitor = "out" THEN heard ELSE [heard EXCEPT ![a] = Shown(a)]
  BY <1>2 DEF SendDefinition, Known
<1> QED BY <1>7, <1>8, <1>9

\* s_trigger_mapping_update sends the mapping.
LEMMA SendMappingKeeps ==
  ASSUME CInv, SendMapping(Net)
  PROVE  CInv'
<1> DEFINE todo == Top(Net).arg
<1>1. /\ doing[Net] # <<>> /\ Top(Net).op = "mapping" /\ inbox' = inbox /\ ~broken /\ Net \in Workers
  BY Facts DEF SendMapping, Locked, At, rest
<1>2. todo \in SUBSET Agents
  BY <1>1, TopFits DEF CInv, Fits
<1>3. /\ created' = created /\ named' = named /\ visitor' = visitor /\ progress' = progress
      /\ active' = active /\ agent' = agent /\ lock' = lock /\ broken' = broken
      /\ context' = context /\ due' = due /\ met' = met
  BY DEF SendMapping, rest
<1>4. /\ agent \in [Agents -> AgentType] /\ heard \in [Agents -> HeardType] /\ context \in ContextType
      /\ update \in [Agents -> SUBSET {"definition", "mapping"}]
  BY DEF CInv, TypeOK, MoreTypes
<1>5. Stacks' /\ TasksFit' /\ \A b : Pending(b) => Pending(b)' \/ Covers(Top(Net), b)
  <2>1. CASE Return(Net)
    BY <1>1, <2>1, DoReturn DEF CInv
  <2>2. ASSUME NEW a \in todo, Do(Net, <<Task("mapping", None, todo \ {a})>>)
        PROVE  Stacks' /\ TasksFit' /\ \A b : Pending(b) => Pending(b)' \/ Covers(Top(Net), b)
    <3>1. Task("mapping", None, todo \ {a}) \in AnyTask /\ Fits(Task("mapping", None, todo \ {a}))
      BY <1>2, WalkTaskAny
    <3> QED BY <1>1, <2>2, <3>1, DoOne DEF CInv
  <2>3. ASSUME NEW a \in todo, Do(Net, <<Task("tell", None, None), Task("mapping", None, todo \ {a})>>)
        PROVE  Stacks' /\ TasksFit' /\ \A b : Pending(b) => Pending(b)' \/ Covers(Top(Net), b)
    <3>1. Task("mapping", None, todo \ {a}) \in AnyTask /\ Fits(Task("mapping", None, todo \ {a}))
      BY <1>2, WalkTaskAny
    <3>2. Task("tell", None, None) \in AnyTask /\ Fits(Task("tell", None, None))
      BY TellTask, SomeArgs
    <3> QED BY <1>1, <2>3, <3>1, <3>2, DoTwo DEF CInv
  <2> QED BY <2>1, <2>2, <2>3 DEF SendMapping
<1>6. Reaching'
  BY <1>1, <1>3, <1>5, ReachingKept DEF CInv
<1>7. CASE update' = update /\ heard' = heard
  <2>1. \A b \in Agents : update[b] \subseteq update'[b]
    BY <1>7
  <2>2. lock' \in {None, Net}
    BY <1>3 DEF CInv, TypeOK
  <2> QED BY <1>1, <1>3, <1>4, <1>5, <1>7, <2>1, <2>2, UnheardStep
<1>8. ASSUME NEW a \in Agents, update' = [update EXCEPT ![a] = @ \ {"mapping"}],
             heard' = IF visitor = "in" /\ a \in active
                        THEN [heard EXCEPT ![a].mapping = agent[a].mapping] ELSE heard
      PROVE  CInv'
  <2>1. update' \in [Agents -> SUBSET {"definition", "mapping"}]
    BY <1>4, <1>8
  <2>2. CASE visitor = "in" /\ a \in active
    <3>1. heard' = [heard EXCEPT ![a].mapping = agent[a].mapping]
      BY <1>8, <2>2
    <3>2. heard[a] \in HeardType /\ agent[a].mapping \in SUBSET Elements
      BY <1>4 DEF AgentType
    <3>3. /\ heard'[a].mapping = agent[a].mapping
          /\ heard'[a].muted = heard[a].muted /\ heard'[a].quiet = heard[a].quiet
          /\ heard'[a].path = heard[a].path /\ heard'[a].state = heard[a].state
          /\ heard'[a].frozen = heard[a].frozen /\ heard'[a].stream = heard[a].stream /\ heard'[a].file = heard[a].file
          /\ heard' \in [Agents -> HeardType]
      BY <1>4, <3>1, <3>2 DEF HeardType
    <3>4. TypeOK' /\ MoreTypes'
      BY <1>3, <2>1, <3>3 DEF CInv, TypeOK, MoreTypes
    <3>5. HeardNow(a) /\ NotStale(a)
      BY DEF CInv, HeardRight
    <3>6. "definition" \in update'[a] <=> "definition" \in update[a]
      BY <1>4, <1>8
    <3>7. HeardNow(a)' /\ NotStale(a)'
      BY <1>3, <3>3, <3>5, <3>6 DEF HeardNow, NotStale, AgreesOn
    <3>8. ASSUME NEW b \in Agents, b # a PROVE HeardNow(b)' /\ NotStale(b)'
      <4>1. HeardNow(b) /\ NotStale(b)
        BY DEF CInv, HeardRight
      <4>2. heard'[b] = heard[b] /\ update'[b] = update[b]
        BY <1>4, <1>8, <3>1, <3>8
      <4> QED BY <1>3, <4>1, <4>2, HeardSame
    <3> QED BY <1>5, <1>6, <3>4, <3>7, <3>8 DEF CInv, HeardRight
  <2>3. CASE ~(visitor = "in" /\ a \in active)
    <3>1. heard' = heard
      BY <1>8, <2>3
    <3>2. TypeOK' /\ MoreTypes'
      BY <1>3, <2>1, <3>1 DEF CInv, TypeOK, MoreTypes
    <3>3. ASSUME NEW b \in Agents PROVE HeardNow(b)' /\ NotStale(b)'
      <4>1. HeardNow(b) /\ NotStale(b)
        BY DEF CInv, HeardRight
      <4>2. CASE b = a
        BY <1>3, <2>3, <3>1, <4>1, <4>2 DEF HeardNow, NotStale
      <4>3. CASE b # a
        <5>1. update'[b] = update[b]
          BY <1>4, <1>8, <4>3
        <5> QED BY <1>3, <3>1, <4>1, <5>1, HeardSame
      <4> QED BY <4>2, <4>3
    <3> QED BY <1>5, <1>6, <3>2, <3>3 DEF CInv, HeardRight
  <2> QED BY <2>2, <2>3
<1>9. (update' = update /\ heard' = heard)
      \/ \E a \in Agents : /\ update' = [update EXCEPT ![a] = @ \ {"mapping"}]
                           /\ heard' = IF visitor = "in" /\ a \in active
                                         THEN [heard EXCEPT ![a].mapping = agent[a].mapping] ELSE heard
  BY <1>2 DEF SendMapping
<1> QED BY <1>7, <1>8, <1>9

\* JOIN: everything about every active agent is sent.
LEMMA JoinedKeeps ==
  ASSUME CInv, Joined
  PROVE  CInv'
<1>1. /\ created' = created /\ named' = named /\ visitor' = "in" /\ progress' = progress
      /\ active' = active /\ agent' = agent /\ lock' = lock /\ broken' = broken /\ update' = update
      /\ context' = context /\ due' = due /\ met' = met /\ doing' = doing /\ inbox' = inbox
      /\ heard' = [a \in Agents |-> IF a \in active
                                    THEN [Shown(a) EXCEPT !.mapping = agent[a].mapping] ELSE heard[a]]
  BY DEF Joined
<1>2. /\ agent \in [Agents -> AgentType] /\ heard \in [Agents -> HeardType] /\ context \in ContextType
  BY DEF CInv, TypeOK, MoreTypes
<1>3. ASSUME NEW a \in Agents
      PROVE  heard'[a] \in HeardType /\ HeardNow(a)' /\ NotStale(a)'
  <2>1. HeardNow(a) /\ NotStale(a) /\ heard[a] \in HeardType
    BY <1>2 DEF CInv, HeardRight
  <2>2. CASE a \in active
    <3>1. heard'[a] = [Shown(a) EXCEPT !.mapping = agent[a].mapping]
      BY <1>1, <2>2
    <3>2. agent[a].mapping \in SUBSET Elements
      BY <1>2 DEF AgentType
    <3>3. Shown(a) \in HeardType
      BY <1>2, ShownType
    <3>4. /\ heard'[a] \in HeardType /\ heard'[a].mapping = agent[a].mapping
          /\ heard'[a].muted = Shown(a).muted /\ heard'[a].quiet = Shown(a).quiet
          /\ heard'[a].state = Shown(a).state /\ heard'[a].path = Shown(a).path
          /\ heard'[a].frozen = Shown(a).frozen
          /\ heard'[a].stream = Shown(a).stream /\ heard'[a].file = Shown(a).file
      BY <3>1, <3>2, <3>3 DEF HeardType
    <3>5. HeardNow(a)'
      BY <1>1, <1>2, <3>4, ShownType DEF HeardNow, AgreesOn
    <3>6. NotStale(a)'
      BY <1>1, <1>2, <2>2, <3>4, ShownType DEF NotStale
    <3> QED BY <3>4, <3>5, <3>6
  <2>3. CASE a \notin active
    <3>1. heard'[a] = heard[a]
      BY <1>1, <2>3
    <3> QED BY <1>1, <2>1, <2>3, <3>1 DEF HeardNow, NotStale
  <2> QED BY <2>2, <2>3
<1>4. heard' \in [Agents -> HeardType]
  <2>1. heard' = [a \in Agents |-> heard'[a]]
    BY <1>1
  <2> QED BY <1>3, <2>1
<1>5. TypeOK' /\ MoreTypes'
  BY <1>1, <1>4 DEF CInv, TypeOK, MoreTypes
<1>6. Stacks' /\ TasksFit' /\ \A b : Pending(b) => Pending(b)'
  BY <1>1, StacksSame DEF CInv
<1>7. Reaching'
  BY <1>1, <1>6 DEF CInv, Reaching
<1> QED BY <1>3, <1>5, <1>6, <1>7 DEF CInv, HeardRight

-----------------------------------------------------------------------------
(***************************************************************************)
(* The other peer and the users.                                           *)
(***************************************************************************)
\* The other peer arrives, and has heard nothing of a mute or a freeze.
LEMMA VisitKeeps ==
  ASSUME CInv, Visit
  PROVE  CInv'
<1>1. /\ created' = created /\ named' = named /\ visitor = "out" /\ visitor' = "joining" /\ progress' = progress
      /\ active' = active /\ agent' = agent /\ lock' = lock /\ broken' = broken /\ update' = update
      /\ context' = context /\ due' = due /\ met' = met /\ doing' = doing /\ inbox' = inbox
      /\ heard' = heard
  BY DEF Visit
<1>2. TypeOK' /\ MoreTypes'
  BY <1>1 DEF CInv, TypeOK, MoreTypes
<1>3. Stacks' /\ TasksFit' /\ \A b : Pending(b) => Pending(b)'
  BY <1>1, StacksSame DEF CInv
<1>4. Reaching'
  BY <1>1, <1>3 DEF CInv, Reaching
<1>5. HeardRight'
  BY <1>1 DEF CInv, HeardRight, HeardNow, NotStale
<1> QED BY <1>2, <1>3, <1>4, <1>5 DEF CInv

\* It leaves, and forgets.
LEMMA LeaveKeeps ==
  ASSUME CInv, Leave
  PROVE  CInv'
<1>1. /\ created' = created /\ named' = named /\ visitor' = "out" /\ progress' = progress
      /\ active' = active /\ agent' = agent /\ lock' = lock /\ broken' = broken /\ update' = update
      /\ context' = context /\ due' = due /\ met' = met /\ doing' = doing /\ inbox' = inbox
      /\ heard' = [a \in Agents |-> Unknown]
  BY DEF Leave
<1>2. TypeOK' /\ MoreTypes'
  BY <1>1, UnknownType DEF CInv, TypeOK, MoreTypes
<1>3. Stacks' /\ TasksFit' /\ \A b : Pending(b) => Pending(b)'
  BY <1>1, StacksSame DEF CInv
<1>4. Reaching'
  BY <1>1, <1>3 DEF CInv, Reaching
<1>5. HeardRight'
  BY <1>1, UnknownType DEF HeardRight, HeardNow, NotStale
<1> QED BY <1>2, <1>3, <1>4, <1>5 DEF CInv

\* It whispers a command.
LEMMA WhisperKeeps ==
  ASSUME CInv, Whisper
  PROVE  CInv'
<1>1. /\ created' = created /\ named' = named /\ visitor' = visitor /\ progress' = progress
      /\ active' = active /\ agent' = agent /\ lock' = lock /\ broken' = broken /\ update' = update
      /\ context' = context /\ due' = due /\ met' = met /\ doing' = doing /\ heard' = heard
  BY DEF Whisper
<1>2. PICK c \in Commands : inbox' = Append(inbox, c)
  BY DEF Whisper
<1>3. c \in AnyTask /\ FitsCommand(c)
  BY <1>2, CommandsAssumption DEF AnyTask
<1>4. Stacks' /\ TasksFit' /\ \A b : Pending(b) => Pending(b)'
  BY <1>1, <1>2, <1>3, InboxAppend, OtherInbox DEF CInv
<1>5. lock' \in {None, Net} /\ due' \subseteq Agents /\ context' \in ContextType
  BY <1>1 DEF CInv, TypeOK, MoreTypes
<1>6. Reaching'
  BY <1>1, <1>4 DEF CInv, Reaching
<1> QED BY <1>1, <1>4, <1>5, <1>6, StackStep

\* An idle worker gets two tasks.
LEMMA NewTwoTasks ==
  ASSUME Stacks, TasksFit, NEW w \in Workers, doing[w] = <<>>, NEW t \in AnyTask, Fits(t),
         NEW u \in AnyTask, Fits(u), doing' = [doing EXCEPT ![w] = <<t, u>>], InboxFits'
  PROVE  Stacks' /\ TasksFit' /\ \A a : Pending(a) => Pending(a)'
<1> DEFINE tasks == <<t, u>>
<1>1. tasks \in Seq(AnyTask) /\ Len(tasks) = 2 /\ tasks[1] = t /\ tasks[2] = u
  OBVIOUS
<1> HIDE DEF tasks
<1>2. doing' = [doing EXCEPT ![w] = tasks]
  BY DEF tasks
<1>3. \A i \in 1..Len(tasks) : Fits(tasks[i])
  BY <1>1
<1> QED BY <1>1, <1>2, <1>3, NewTasks

\* They are tasks.
LEMMA LaterTaskAny ==
  ASSUME NEW op \in {"name", "activate", "deactivate", "free"}, NEW a \in Agents
  PROVE  Task(op, a, None) \in AnyTask /\ Fits(Task(op, a, None))
<1>1. op \in Ops
  BY DEF Ops
<1> QED BY <1>1, TaskAny, SomeArgs, LaterTask

\* An agent that igsagent_new made.
LEMMA FreshType == Fresh \in AgentType
BY DEF Fresh, AgentType

\* A user calls a function, or creates an agent.
LEMMA CallKeeps ==
  ASSUME CInv, NEW u \in Users, Call(u)
  PROVE  CInv'
<1>1. u \in Workers /\ u # Net /\ doing[u] = <<>> /\ ~broken
  BY Facts DEF Call
<1>2. /\ named' = named /\ visitor' = visitor /\ progress' = progress
      /\ active' = active /\ lock' = lock /\ broken' = broken /\ update' = update
      /\ context' = context /\ due' = due /\ met' = met /\ inbox' = inbox
  BY DEF Call
<1>3. InboxFits'
  BY <1>2, InboxSame DEF CInv
<1>4. ASSUME NEW t \in Calls, created' = created, agent' = agent, heard' = heard,
             doing' = [doing EXCEPT ![u] =
                         IF t.op = "destroy"
                           THEN <<Task("deactivate", t.a, None), Task("free", t.a, None)>>
                           ELSE <<t>>]
      PROVE  CInv'
  <2>1. t \in AnyTask /\ Fits(t)
    BY CommandsAssumption DEF AnyTask
  <2>2. Stacks' /\ TasksFit' /\ \A b : Pending(b) => Pending(b)'
    <3>1. CASE t.op = "destroy"
      <4>1. t.a \in Agents
        BY <2>1, <3>1 DEF Fits
      <4>2. Task("deactivate", t.a, None) \in AnyTask /\ Fits(Task("deactivate", t.a, None))
        BY <4>1, LaterTaskAny
      <4>3. Task("free", t.a, None) \in AnyTask /\ Fits(Task("free", t.a, None))
        BY <4>1, LaterTaskAny
      <4>4. doing' = [doing EXCEPT ![u] = <<Task("deactivate", t.a, None), Task("free", t.a, None)>>]
        BY <1>4, <3>1
      <4> QED BY <1>1, <1>3, <4>2, <4>3, <4>4, NewTwoTasks DEF CInv
    <3>2. CASE t.op # "destroy"
      <4>1. doing' = [doing EXCEPT ![u] = <<t>>]
        BY <1>4, <3>2
      <4> QED BY <1>1, <1>3, <2>1, <4>1, NewTask DEF CInv
    <3> QED BY <3>1, <3>2
  <2>3. lock' \in {None, Net} /\ due' \subseteq Agents /\ context' \in ContextType
    BY <1>2 DEF CInv, TypeOK, MoreTypes
  <2>4. Reaching'
    BY <1>2, <1>4, <2>2 DEF CInv, Reaching
  <2> QED BY <1>2, <1>4, <2>2, <2>3, <2>4, StackStep
<1>5. ASSUME NEW a \in Agents, a \notin active, created' = created \cup {a},
             agent' = [agent EXCEPT ![a] = Fresh], heard' = [heard EXCEPT ![a] = Unknown],
             doing' = [doing EXCEPT ![u] = <<Task("name", a, None), Task("activate", a, None)>>]
      PROVE  CInv'
  <2>1. Task("name", a, None) \in AnyTask /\ Fits(Task("name", a, None))
    BY LaterTaskAny
  <2>2. Task("activate", a, None) \in AnyTask /\ Fits(Task("activate", a, None))
    BY LaterTaskAny
  <2>3. Stacks' /\ TasksFit' /\ \A b : Pending(b) => Pending(b)'
    BY <1>1, <1>3, <1>5, <2>1, <2>2, NewTwoTasks DEF CInv
  <2>4. agent \in [Agents -> AgentType] /\ heard \in [Agents -> HeardType]
    BY DEF CInv, TypeOK, MoreTypes
  <2>5. agent' \in [Agents -> AgentType] /\ heard' \in [Agents -> HeardType]
    BY <1>5, <2>4, FreshType, UnknownType
  <2>6. TypeOK' /\ MoreTypes'
    BY <1>2, <1>5, <2>5, Facts DEF CInv, TypeOK, MoreTypes
  <2>7. ASSUME NEW b \in Agents PROVE HeardNow(b)' /\ NotStale(b)'
    <3>1. HeardNow(b) /\ NotStale(b)
      BY DEF CInv, HeardRight
    <3>2. CASE b # a
      <4>1. agent'[b] = agent[b] /\ heard'[b] = heard[b]
        BY <1>5, <2>4, <3>2
      <4> QED BY <1>2, <3>1, <4>1, HeardSame
    <3>3. CASE b = a
      <4>1. heard'[b] = Unknown
        BY <1>5, <2>4, <3>3
      <4>2. HeardNow(b)'
        BY <1>2, <1>5, <3>3 DEF HeardNow
      <4>3. NotStale(b)'
        BY <4>1, UnknownType DEF NotStale
      <4> QED BY <4>2, <4>3
    <3> QED BY <3>2, <3>3
  <2>8. Reaching'
    BY <1>2, <1>5, <2>3 DEF CInv, Reaching
  <2> QED BY <2>3, <2>6, <2>7, <2>8 DEF CInv, HeardRight
<1>6. (\E t \in Calls : /\ created' = created /\ agent' = agent /\ heard' = heard
                        /\ doing' = [doing EXCEPT ![u] =
                             IF t.op = "destroy"
                               THEN <<Task("deactivate", t.a, None), Task("free", t.a, None)>>
                               ELSE <<t>>])
      \/ \E a \in Agents : /\ a \notin active /\ created' = created \cup {a}
                           /\ agent' = [agent EXCEPT ![a] = Fresh] /\ heard' = [heard EXCEPT ![a] = Unknown]
                           /\ doing' = [doing EXCEPT ![u] = <<Task("name", a, None), Task("activate", a, None)>>]
  BY DEF Call
<1> QED BY <1>4, <1>5, <1>6

-----------------------------------------------------------------------------
(***************************************************************************)
(* The specification.                                                      *)
(***************************************************************************)
\* Nothing was heard, and nobody is at work.
LEMMA InitInv == Init => CInv
<1> SUFFICES ASSUME Init PROVE CInv
  OBVIOUS
<1>1. TypeOK
  <2>1. agent \in [Agents -> AgentType]
    BY FreshType DEF Init
  <2> QED BY <2>1, Facts DEF Init, TypeOK
<1>2. MoreTypes
  <2>1. heard \in [Agents -> HeardType]
    BY UnknownType DEF Init
  <2>2. context \in ContextType
    BY DEF Init, ContextType
  <2> QED BY <2>1, <2>2, Facts DEF Init, MoreTypes
<1>3. Stacks
  BY DEF Init, Stacks
<1>4. TasksFit
  BY DEF Init, TasksFit
<1>5. HeardRight
  <2>1. ASSUME NEW a \in Agents PROVE heard[a] = Unknown /\ visitor = "out"
    BY DEF Init
  <2> QED BY <2>1, UnknownType DEF HeardRight, HeardNow, NotStale
<1>6. Reaching
  BY DEF Init, Reaching
<1> QED BY <1>1, <1>2, <1>3, <1>4, <1>5, <1>6 DEF CInv

\* Functions, whoever calls them.
LEMMA FunctionKeeps ==
  ASSUME CInv, NEW w \in Workers, Function(w)
  PROVE  CInv'
BY MuteKeeps, CallbackKeeps, FreezeKeeps, SetStateKeeps, NewStateKeeps, MuteOutputKeeps, SetPathKeeps,
   SetLogKeeps, MapKeeps, WriteKeeps, ActivateKeeps, DeactivateKeeps, DanglingKeeps DEF Function

\* Steps that change nothing.
LEMMA StutterKeeps ==
  ASSUME CInv, UNCHANGED vars
  PROVE  CInv'
<1>1. /\ created' = created /\ named' = named /\ visitor' = visitor /\ progress' = progress
      /\ active' = active /\ agent' = agent /\ lock' = lock /\ broken' = broken /\ update' = update
      /\ context' = context /\ due' = due /\ met' = met /\ doing' = doing /\ heard' = heard /\ inbox' = inbox
  BY DEF vars
<1>2. Stacks' /\ TasksFit' /\ \A b : Pending(b) => Pending(b)'
  BY <1>1, StacksSame DEF CInv
<1>3. lock' \in {None, Net} /\ due' \subseteq Agents /\ context' \in ContextType
  BY <1>1 DEF CInv, TypeOK, MoreTypes
<1>4. Reaching'
  BY <1>1, <1>2 DEF CInv, Reaching
<1> QED BY <1>1, <1>2, <1>3, <1>4, StackStep

\* Every step keeps the invariant.
LEMMA NextInv == CInv /\ [Next]_vars => CInv'
<1> SUFFICES ASSUME CInv, [Next]_vars PROVE CInv'
  OBVIOUS
<1>1. CASE Network
  BY <1>1, Facts, FunctionKeeps, GetKeeps, EachKeeps, SendDefinitionKeeps, SendMappingKeeps,
     ReceiveKeeps, ReceiveStartKeeps, StartMeetsNewKeeps, ReceivePongKeeps, TickKeeps, JoinedKeeps
     DEF Network
<1>2. CASE Visit \/ Leave \/ Whisper
  BY <1>2, VisitKeeps, LeaveKeeps, WhisperKeeps
<1>3. ASSUME NEW u \in Users, User(u) PROVE CInv'
  BY <1>3, Facts, FunctionKeeps, CallKeeps, FreeKeeps, NameKeeps, CheckKeeps DEF User
<1>4. CASE UNCHANGED vars
  BY <1>4, StutterKeeps
<1> QED BY <1>1, <1>2, <1>3, <1>4 DEF Next

\* The invariant of every proof below: types, tasks that fit, what the other
\* peer heard, and the agents that MUTE_ALL has still to reach.
THEOREM Invariant == Spec => []CInv
<1> QED BY InitInv, NextInv, PTL DEF Spec

\* Agents, their tables, updates and the lock have their types: an active
\* agent exists as long as nothing is broken (igsagent_destroy), and only the
\* network thread keeps the lock.
THEOREM CommandsType == Spec => []TypeOK
<1>1. CInv => TypeOK
  BY DEF CInv
<1> QED BY <1>1, Invariant, PTL

\* Commands and calls take effect: what the other peer heard of an agent with
\* no update to send is what the agent is (igsagent_mute, igs_freeze,
\* igsagent_set_state, s_send_state_to), and MUTE_ALL and UNMUTE_ALL reach
\* every agent.
THEOREM CommandsTakeEffect == Spec => []TakeEffect
<1>1. CInv => HeardIsState
  <2> SUFFICES ASSUME CInv, NEW a \in active, visitor = "in", ~broken, "definition" \notin update[a]
               PROVE  heard[a] = Shown(a) /\ ("mapping" \notin update[a] => heard[a].mapping = agent[a].mapping)
    BY DEF HeardIsState
  <2>1. a \in Agents /\ agent \in [Agents -> AgentType] /\ heard \in [Agents -> HeardType] /\ context \in ContextType
    BY DEF CInv, TypeOK, MoreTypes
  <2>2. AgreesOn(a) /\ ("mapping" \notin update[a] => heard[a].mapping = agent[a].mapping)
    BY <2>1 DEF CInv, HeardRight, HeardNow
  <2>3. heard[a] = Shown(a)
    <3>1. heard[a] = [muted |-> heard[a].muted, quiet |-> heard[a].quiet, state |-> heard[a].state,
                      path |-> heard[a].path, mapping |-> heard[a].mapping, frozen |-> heard[a].frozen,
                      stream |-> heard[a].stream, file |-> heard[a].file]
      BY <2>1 DEF HeardType
    <3> QED BY <2>2, <3>1 DEF AgreesOn, Shown
  <2> QED BY <2>2, <2>3
<1>2. CInv => AllReached
  <2> SUFFICES ASSUME CInv, Idle, ~met PROVE due = {}
    BY DEF AllReached
  <2>1. doing[Net] = <<>> /\ ~broken
    BY DEF Idle
  <2>2. \A a : ~Pending(a)
    BY <2>1 DEF Pending
  <2> QED BY <2>1, <2>2 DEF CInv, Reaching
<1> QED BY <1>1, <1>2, Invariant, PTL DEF TakeEffect

\* Publications are counted for every agent.
Counting == published \in [Agents -> Nat]

\* A publication is an output's.
LEMMA OnlyWrites ==
  ASSUME [Next]_vars, published' # published
  PROVE  \E w \in Workers : Write(w)
<1>1. ASSUME NEW w \in Workers, Function(w) PROVE Write(w)
  BY <1>1 DEF Function, Mute, Callback, Freeze, SetState, NewState, MuteOutput, SetPath,
     SetLog, Map, Activate, Deactivate, Dangling
<1>2. CASE Network
  BY <1>1, <1>2, Facts DEF Network, Get, Each, SendDefinition, SendMapping, Receive,
     ReceiveStart, StartMeetsNew, ReceivePong, Tick, Joined
<1>3. ASSUME NEW u \in Users, User(u) PROVE \E w \in Workers : Write(w)
  BY <1>1, <1>3, Facts DEF User, Call, Free, Name, Check
<1> QED BY <1>2, <1>3 DEF Next, Visit, Leave, Whisper, vars

\* An output adds one to its agent, if the agent may publish.
LEMMA WritesOne ==
  ASSUME CInv, Counting, NEW w \in Workers, Write(w), published' # published
  PROVE  \E a \in Agents : MayPublish(a) /\ published' = [published EXCEPT ![a] = @ + 1]
<1>1. doing[w] # <<>> /\ Top(w).op = "write"
  BY DEF Write, Locked, At
<1>2. Top(w).a \in Agents
  BY <1>1, TopFits DEF CInv, Fits
<1> QED BY <1>2 DEF Write

\* Every agent has its count of publications (network_publish_output).
THEOREM Counted == Spec => []Counting
<1>1. Init => Counting
  BY DEF Init, Counting
<1>2. CInv /\ Counting /\ [Next]_vars => Counting'
  <2> SUFFICES ASSUME CInv, Counting, [Next]_vars PROVE Counting'
    OBVIOUS
  <2>1. CASE published' = published
    BY <2>1 DEF Counting
  <2>2. CASE published' # published
    <3>1. PICK a \in Agents : published' = [published EXCEPT ![a] = @ + 1]
      BY <2>2, OnlyWrites, WritesOne
    <3> QED BY <3>1 DEF Counting
  <2> QED BY <2>1, <2>2
<1> QED BY <1>1, <1>2, Invariant, PTL DEF Spec

\* A peer that heard an agent is muted, its output is, or the peer is frozen
\* receives no publication of it before it hears the contrary
\* (network_publish_output, under the model lock).
THEOREM QuietIsHeard == Spec => QuietAsHeard
<1>1. ASSUME CInv, Counting, [Next]_vars, NEW a \in Agents, published'[a] # published[a]
      PROVE  TRUE \notin {heard[a].muted, heard[a].quiet, heard[a].frozen}
  <2>1. PICK b \in Agents : MayPublish(b) /\ published' = [published EXCEPT ![b] = @ + 1]
    BY <1>1, OnlyWrites, WritesOne
  <2>2. b = a
    BY <1>1, <2>1 DEF Counting
  <2>3. MayPublish(a)
    BY <2>1, <2>2
  <2>4. agent[a].muted # TRUE /\ agent[a].quiet # TRUE /\ context.frozen # TRUE
    BY <2>3 DEF MayPublish
  <2> QED BY <1>1, <2>4, Facts DEF CInv, HeardRight, NotStale
<1>2. CInv /\ Counting /\ [Next]_vars => [\A a \in Agents : published'[a] # published[a] =>
                                TRUE \notin {heard[a].muted, heard[a].quiet, heard[a].frozen}]_vars
  BY <1>1
<1> QED BY <1>2, Invariant, Counted, PTL DEF Spec, QuietAsHeard
=============================================================================
