--------------------------- MODULE DiscoveryProofs --------------------------
(***************************************************************************)
(* Proofs about the discovery of remote agents, for any peers, agents and  *)
(* numbers of restarts, reconnections and activations.                     *)
(***************************************************************************)
EXTENDS Discovery, FiniteSetTheorems, FunctionTheorems, SequenceTheorems, TLAPS

In(queue) == {queue[k] : k \in 1..Len(queue)}

-----------------------------------------------------------------------------
(***************************************************************************)
(* What node n and peer p exchange: channel c, the record k of n in the    *)
(* table of p, how often it reconnected, whether it is being removed and   *)
(* whether it still lives.                                                 *)
(***************************************************************************)
\* A node enters and joins at once.
Opens(c) == Len(c) >= 2 /\ c[1] = Enter /\ c[2] = Join

\* The exit at place i of c is the timeout of a reconnection.
Timeout(c, k, r, i) ==
  \/ i >= 3 /\ c[i - 2] = Enter /\ c[i - 1] = Join /\ (k = "unknown" => i > 3)
  \/ r > 0 /\ (i = 1 \/ (i = 2 /\ c[1] = Join))

\* Any other exit is the last message of a node that is gone, and only such a
\* node is removed.
Pair(c, k, r, leave, live) ==
  /\ k = "unknown" => r = 0 /\ ~leave /\ (c = <<>> \/ Opens(c))
  /\ k = "entered" => c # <<>> /\ c[1] = Join
  /\ \A i \in 1..Len(c) : c[i].type = "EXIT" => (i = Len(c) /\ ~live) \/ Timeout(c, k, r, i)
  /\ leave => ~live /\ c = <<>> /\ k = "joined" /\ r = 0

NoExit(list) == \A i \in 1..Len(list) : list[i].type # "EXIT"

Table == {"unknown", "entered", "joined"}

\* A queue without its head.
LEMMA TailIs ==
  ASSUME NEW T, NEW c \in Seq(T), c # <<>>
  PROVE  /\ Len(c) \in Nat /\ Len(c) > 0 /\ Head(c) = c[1] /\ Head(c) \in T
         /\ Tail(c) \in Seq(T) /\ Len(Tail(c)) = Len(c) - 1
         /\ \A i \in 1..Len(c) - 1 : Tail(c)[i] = c[i + 1]
  BY HeadTailProperties, EmptySeq, LenProperties, ElementOfSeq

\* A queue with more at its end.
LEMMA ConcatIs ==
  ASSUME NEW T, NEW c \in Seq(T), NEW d \in Seq(T)
  PROVE  /\ c \o d \in Seq(T) /\ Len(c \o d) = Len(c) + Len(d)
         /\ Len(c) \in Nat /\ Len(d) \in Nat
         /\ \A i \in 1..Len(c) : (c \o d)[i] = c[i]
         /\ \A i \in 1..Len(d) : (c \o d)[Len(c) + i] = d[i]
         /\ \A i \in 1..Len(c \o d) : i > Len(c) => (c \o d)[i] = d[i - Len(c)] /\ i - Len(c) \in 1..Len(d)
  BY ConcatProperties, LenProperties

LEMMA ConcatOfThree ==
  ASSUME NEW T, NEW c \in Seq(T), NEW d \in Seq(T), Len(d) = 3
  PROVE  /\ c \o d \in Seq(T) /\ Len(c \o d) = Len(c) + 3 /\ Len(c) \in Nat
         /\ \A i \in 1..Len(c) : (c \o d)[i] = c[i]
         /\ \A i \in 1..3 : (c \o d)[Len(c) + i] = d[i]
  BY ConcatIs

\* A timeout is told by the two messages before it.
LEMMA TimeoutKept ==
  ASSUME NEW T, NEW c \in Seq(T), NEW e, \A i \in 1..Len(c) : e[i] = c[i],
         NEW k, NEW r, NEW i \in 1..Len(c), Timeout(c, k, r, i)
  PROVE  Timeout(e, k, r, i)
<1>1. Len(c) \in Nat /\ i \in Nat
  BY LenProperties
<1>2. CASE i >= 3
  <2>1. e[i - 2] = c[i - 2] /\ e[i - 1] = c[i - 1]
    BY <1>1, <1>2
  <2> QED
    BY <1>1, <1>2, <2>1 DEF Timeout
<1>3. CASE i = 1 \/ i = 2
  <2>1. e[1] = c[1]
    BY <1>1, <1>3
  <2> QED
    BY <1>1, <1>3, <2>1 DEF Timeout
<1> QED
  BY <1>1, <1>2, <1>3

\* Messages other than exits that a live node sends to a peer it met.
LEMMA PairSent ==
  ASSUME NEW T, NEW c \in Seq(T), NEW d \in Seq(T), NEW k \in Table, NEW r \in Nat,
         NEW leave \in BOOLEAN, Pair(c, k, r, leave, TRUE),
         c # <<>> \/ k # "unknown", NoExit(d)
  PROVE  Pair(c \o d, k, r, leave, TRUE)
<1> DEFINE e == c \o d
<1>1. /\ e \in Seq(T) /\ Len(e) = Len(c) + Len(d) /\ Len(c) \in Nat /\ Len(d) \in Nat
      /\ \A i \in 1..Len(c) : e[i] = c[i]
      /\ \A i \in 1..Len(e) : i > Len(c) => e[i] = d[i - Len(c)] /\ i - Len(c) \in 1..Len(d)
  BY ConcatIs
<1>2. c # <<>> => Len(c) > 0
  BY EmptySeq, LenProperties
<1> HIDE DEF e
<1>3. k = "unknown" => r = 0 /\ ~leave /\ (e = <<>> \/ Opens(e))
  BY <1>1 DEF Pair, Opens
<1>4. k = "entered" => e # <<>> /\ e[1] = Join
  BY <1>1, <1>2, EmptySeq DEF Pair
<1>5. ASSUME NEW i \in 1..Len(e), e[i].type = "EXIT" PROVE Timeout(e, k, r, i)
  <2>1. i <= Len(c)
    BY <1>5, <1>1 DEF NoExit
  <2>2. c[i].type = "EXIT" /\ i \in 1..Len(c)
    BY <1>5, <2>1, <1>1
  <2>3. Timeout(c, k, r, i)
    BY <2>2 DEF Pair
  <2> QED
    BY <2>3, <2>2, <1>1, TimeoutKept
<1>6. ~leave
  BY DEF Pair
<1> QED
  BY <1>3, <1>4, <1>5, <1>6 DEF Pair, e

\* A node enters and joins once more, then its timeout is reported.
LEMMA PairReconnects ==
  ASSUME NEW T, NEW c \in Seq(T), NEW k \in Table, NEW r \in Nat, NEW leave \in BOOLEAN,
         Pair(c, k, r, leave, TRUE), c # <<>> \/ k # "unknown",
         Enter \in T, Join \in T, Exit \in T
  PROVE  Pair(c \o <<Enter, Join, Exit>>, k, r, leave, TRUE)
<1> DEFINE d == <<Enter, Join, Exit>>
           e == c \o d
<1>0. d \in Seq(T) /\ Len(d) = 3 /\ d[1] = Enter /\ d[2] = Join /\ d[3] = Exit
  OBVIOUS
<1>1. /\ e \in Seq(T) /\ Len(e) = Len(c) + 3 /\ Len(c) \in Nat
      /\ \A i \in 1..Len(c) : e[i] = c[i]
      /\ e[Len(c) + 1] = Enter /\ e[Len(c) + 2] = Join /\ e[Len(c) + 3] = Exit
  <2> HIDE DEF d
  <2> SUFFICES /\ c \o d \in Seq(T) /\ Len(c \o d) = Len(c) + 3 /\ Len(c) \in Nat
               /\ \A i \in 1..Len(c) : (c \o d)[i] = c[i]
               /\ \A i \in 1..3 : (c \o d)[Len(c) + i] = d[i]
    BY <1>0
  <2> QED
    BY <1>0, ConcatOfThree
<1>2. c # <<>> => Len(c) > 0
  BY EmptySeq, LenProperties
<1>3. Enter.type # "EXIT" /\ Join.type # "EXIT"
  BY DEF Enter, Join, Simple
<1> HIDE DEF e
<1>4. k = "unknown" => r = 0 /\ ~leave /\ (e = <<>> \/ Opens(e)) /\ Len(c) >= 2
  BY <1>1 DEF Pair, Opens
<1>5. k = "entered" => e # <<>> /\ e[1] = Join
  BY <1>1, <1>2, EmptySeq DEF Pair
<1>6. ASSUME NEW i \in 1..Len(e), e[i].type = "EXIT" PROVE Timeout(e, k, r, i)
  <2>1. CASE i \in 1..Len(c)
    <3>1. c[i].type = "EXIT"
      BY <1>6, <2>1, <1>1
    <3>2. Timeout(c, k, r, i)
      BY <2>1, <3>1 DEF Pair
    <3> QED
      BY <3>2, <2>1, <1>1, TimeoutKept
  <2>2. CASE i \notin 1..Len(c)
    <3>1. i = Len(c) + 3
      BY <2>2, <1>6, <1>1, <1>3
    <3>2. e[i - 2] = Enter /\ e[i - 1] = Join
      BY <3>1, <1>1
    <3> QED
      BY <3>1, <3>2, <1>1, <1>4 DEF Timeout
  <2> QED
    BY <2>1, <2>2
<1>7. ~leave
  BY DEF Pair
<1> QED
  BY <1>4, <1>5, <1>6, <1>7 DEF Pair, e

\* Whatever the next message is, the exits behind it keep their kind.
LEMMA ExitsBehind ==
  ASSUME NEW T, NEW c \in Seq(T), NEW k \in Table, NEW r \in Nat, NEW leave \in BOOLEAN,
         NEW live \in BOOLEAN, NEW k2 \in Table, NEW r2 \in Nat,
         Pair(c, k, r, leave, live), c # <<>>,
         k2 # "unknown", c[1] = Enter => k = "unknown" \/ r2 > 0, c[1] = Join => r2 = r
  PROVE  \A i \in 1..Len(Tail(c)) : Tail(c)[i].type = "EXIT" =>
           (i = Len(Tail(c)) /\ ~live) \/ Timeout(Tail(c), k2, r2, i)
<1> DEFINE e == Tail(c)
<1>1. /\ Len(c) \in Nat /\ Len(c) > 0 /\ Len(e) = Len(c) - 1
      /\ \A i \in 1..Len(c) - 1 : e[i] = c[i + 1]
  BY TailIs
<1>2. Enter # Join /\ Enter.type # "EXIT" /\ Join.type # "EXIT"
  BY DEF Enter, Join, Simple
<1> HIDE DEF e
<1>3. ASSUME NEW i \in 1..Len(e), e[i].type = "EXIT", i # Len(e) \/ live
      PROVE  Timeout(e, k2, r2, i)
  <2>1. i + 1 \in 1..Len(c) /\ c[i + 1].type = "EXIT" /\ (i + 1 # Len(c) \/ live) /\ e[i] = c[i + 1]
    BY <1>3, <1>1
  <2>2. Timeout(c, k, r, i + 1)
    BY <2>1 DEF Pair
  <2>3. CASE i + 1 = 2 /\ c[1] = Join /\ r > 0
    BY <2>3, <2>1 DEF Timeout
  <2>4. CASE i + 1 = 3 /\ c[1] = Enter /\ c[2] = Join /\ k # "unknown"
    <3>1. e[1] = Join /\ r2 > 0 /\ i = 2
      BY <2>4, <1>1, <2>1
    <3> QED
      BY <3>1 DEF Timeout
  <2>5. CASE i + 1 > 3 /\ c[i + 1 - 2] = Enter /\ c[i + 1 - 1] = Join
    <3>1. /\ i >= 3 /\ i - 2 \in 1..Len(c) - 1 /\ i - 1 \in 1..Len(c) - 1
          /\ (i - 2) + 1 = i + 1 - 2 /\ (i - 1) + 1 = i + 1 - 1
      BY <2>5, <1>1, <2>1
    <3>2. e[i - 2] = c[(i - 2) + 1] /\ e[i - 1] = c[(i - 1) + 1]
      BY <1>1, <3>1
    <3>3. e[i - 2] = Enter /\ e[i - 1] = Join /\ i >= 3
      BY <2>5, <3>1, <3>2
    <3> QED
      BY <3>3 DEF Timeout
  <2> QED
    BY <2>1, <2>2, <2>3, <2>4, <2>5 DEF Timeout
<1> QED
  BY <1>3 DEF e

\* The next message is an ENTER: of a new node, or of one that reconnects.
LEMMA PairEntered ==
  ASSUME NEW T, NEW c \in Seq(T), NEW k \in Table, NEW r \in Nat, NEW live \in BOOLEAN,
         Pair(c, k, r, FALSE, live), c # <<>>, c[1].type = "ENTER"
  PROVE  /\ k = "unknown" => Pair(Tail(c), "entered", r, FALSE, live)
         /\ k # "unknown" => Pair(Tail(c), k, r + 1, FALSE, live)
<1>1. /\ Len(c) \in Nat /\ Len(c) > 0 /\ Len(Tail(c)) = Len(c) - 1
      /\ \A i \in 1..Len(c) - 1 : Tail(c)[i] = c[i + 1]
      /\ Tail(c) \in Seq(T)
  BY TailIs
<1>2. c[1] # Join
  BY DEF Join, Simple
<1>3. k # "entered" /\ (k = "unknown" => Opens(c) /\ c[1] = Enter)
  BY <1>2 DEF Pair, Opens
<1>4. CASE k = "unknown"
  <2>1. Tail(c) # <<>> /\ Tail(c)[1] = Join
    BY <1>1, <1>3, <1>4, EmptySeq DEF Opens
  <2>2. \A i \in 1..Len(Tail(c)) : Tail(c)[i].type = "EXIT" =>
           (i = Len(Tail(c)) /\ ~live) \/ Timeout(Tail(c), "entered", r, i)
    BY <1>2, <1>3, <1>4, ExitsBehind DEF Table
  <2> QED
    BY <2>1, <2>2, <1>4 DEF Pair
<1>5. CASE k # "unknown"
  <2>1. \A i \in 1..Len(Tail(c)) : Tail(c)[i].type = "EXIT" =>
           (i = Len(Tail(c)) /\ ~live) \/ Timeout(Tail(c), k, r + 1, i)
    <3>1. r + 1 \in Nat /\ r + 1 > 0
      OBVIOUS
    <3> QED
      BY <3>1, <1>2, <1>5, ExitsBehind
  <2> QED
    BY <2>1, <1>3, <1>5 DEF Pair
<1> QED
  BY <1>4, <1>5

\* A JOIN comes from a node that has entered.
LEMMA PairJoined ==
  ASSUME NEW T, NEW c \in Seq(T), NEW k \in Table, NEW r \in Nat, NEW live \in BOOLEAN,
         Pair(c, k, r, FALSE, live), c # <<>>, c[1].type = "JOIN"
  PROVE  k # "unknown" /\ Pair(Tail(c), "joined", r, FALSE, live)
<1>1. c[1] # Enter
  BY DEF Enter, Simple
<1>2. k # "unknown"
  BY <1>1 DEF Pair, Opens
<1>3. \A i \in 1..Len(Tail(c)) : Tail(c)[i].type = "EXIT" =>
         (i = Len(Tail(c)) /\ ~live) \/ Timeout(Tail(c), "joined", r, i)
  BY <1>1, <1>2, ExitsBehind DEF Table
<1> QED
  BY <1>2, <1>3 DEF Pair

\* A message of ingescape comes from a node that has joined.
LEMMA PairReceived ==
  ASSUME NEW T, NEW c \in Seq(T), NEW k \in Table, NEW r \in Nat, NEW live \in BOOLEAN,
         Pair(c, k, r, FALSE, live), c # <<>>, c[1].type \notin {"ENTER", "JOIN", "EXIT"}
  PROVE  k = "joined" /\ Pair(Tail(c), k, r, FALSE, live)
<1>1. c[1] # Enter /\ c[1] # Join
  BY DEF Enter, Join, Simple
<1>2. k = "joined"
  BY <1>1 DEF Pair, Opens, Table
<1>3. \A i \in 1..Len(Tail(c)) : Tail(c)[i].type = "EXIT" =>
         (i = Len(Tail(c)) /\ ~live) \/ Timeout(Tail(c), k, r, i)
  BY <1>1, <1>2, ExitsBehind DEF Table
<1> QED
  BY <1>2, <1>3 DEF Pair

\* An exit is a timeout, which is ignored, or the last message of a dead node.
LEMMA PairExited ==
  ASSUME NEW T, NEW c \in Seq(T), NEW k \in Table, NEW r \in Nat, NEW live \in BOOLEAN,
         Pair(c, k, r, FALSE, live), c # <<>>, c[1].type = "EXIT"
  PROVE  /\ k = "joined"
         /\ r > 0 => Pair(Tail(c), k, r - 1, FALSE, live)
         /\ r = 0 => ~live /\ Pair(Tail(c), k, r, TRUE, live)
<1>1. c[1] # Enter /\ c[1] # Join
  BY DEF Enter, Join, Simple
<1>2. k = "joined"
  BY <1>1 DEF Pair, Opens, Table
<1>3. /\ Len(c) \in Nat /\ Len(c) > 0 /\ Len(Tail(c)) = Len(c) - 1 /\ Tail(c) \in Seq(T)
  BY TailIs
<1>4. CASE r > 0
  <2>1. \A i \in 1..Len(Tail(c)) : Tail(c)[i].type = "EXIT" =>
           (i = Len(Tail(c)) /\ ~live) \/ Timeout(Tail(c), k, r - 1, i)
    <3>1. r - 1 \in Nat
      BY <1>4
    <3> QED
      BY <3>1, <1>1, <1>2, ExitsBehind DEF Table
  <2> QED
    BY <2>1, <1>2, <1>4 DEF Pair
<1>5. CASE r = 0
  <2>1. Len(c) = 1 /\ ~live
    <3>1. 1 \in 1..Len(c)
      BY <1>3
    <3>2. ~Timeout(c, k, r, 1)
      BY <1>5 DEF Timeout
    <3> QED
      BY <3>1, <3>2 DEF Pair
  <2>2. Tail(c) = <<>>
    <3>1. Len(Tail(c)) = 0
      BY <2>1, <1>3
    <3> QED
      BY <3>1, <1>3, EmptySeq
  <2> QED
    BY <2>1, <2>2, <1>2, <1>3, <1>5 DEF Pair
<1> QED
  BY <1>2, <1>4, <1>5

\* Two nodes that never met, and two that just did.
LEMMA PairStrangers ==
  ASSUME NEW live \in BOOLEAN
  PROVE  Pair(<<>>, "unknown", 0, FALSE, live) /\ Pair(<<Enter, Join>>, "unknown", 0, FALSE, live)
  BY DEF Pair, Opens, Enter, Join, Simple

\* A node that is gone is forgotten.
LEMMA PairLeft ==
  ASSUME NEW c, NEW k \in Table, NEW r \in Nat, NEW live \in BOOLEAN, Pair(c, k, r, TRUE, live)
  PROVE  c = <<>> /\ r = 0 /\ Pair(c, "unknown", r, FALSE, live)
  BY DEF Pair

\* A node dies: with a last message to the peers it met, or with none.
LEMMA PairDies ==
  ASSUME NEW T, NEW c \in Seq(T), NEW k \in Table, NEW r \in Nat, NEW leave \in BOOLEAN,
         NEW live \in BOOLEAN, Pair(c, k, r, leave, live), Exit \in T
  PROVE  /\ Pair(c, k, r, leave, FALSE)
         /\ live /\ (c # <<>> \/ k # "unknown") => Pair(Append(c, Exit), k, r, leave, FALSE)
<1>1. Pair(c, k, r, leave, FALSE)
  BY DEF Pair
<1>2. ASSUME live, c # <<>> \/ k # "unknown" PROVE Pair(Append(c, Exit), k, r, leave, FALSE)
  <2> DEFINE e == Append(c, Exit)
  <2>1. /\ Len(c) \in Nat /\ Len(e) = Len(c) + 1 /\ e # <<>>
        /\ \A i \in 1..Len(c) : e[i] = c[i]
    BY AppendProperties, LenProperties
  <2>2. c # <<>> => Len(c) > 0
    BY EmptySeq, LenProperties
  <2> HIDE DEF e
  <2>3. k = "unknown" => r = 0 /\ ~leave /\ Opens(e)
    BY <1>2, <2>1 DEF Pair, Opens
  <2>4. k = "entered" => e # <<>> /\ e[1] = Join
    BY <2>1, <2>2 DEF Pair
  <2>5. ASSUME NEW i \in 1..Len(e), e[i].type = "EXIT", i # Len(e) PROVE Timeout(e, k, r, i)
    <3>1. i \in 1..Len(c) /\ c[i].type = "EXIT"
      BY <2>5, <2>1
    <3>2. Timeout(c, k, r, i)
      BY <1>2, <3>1 DEF Pair
    <3> QED
      BY <3>1, <3>2, <2>1 DEF Timeout
  <2>6. ~leave
    BY <1>2 DEF Pair
  <2> QED
    BY <2>3, <2>4, <2>5, <2>6 DEF Pair, e
<1> QED
  BY <1>1, <1>2

-----------------------------------------------------------------------------
(***************************************************************************)
(* Types, and what each action does to the channels.                       *)
(***************************************************************************)
LEMMA NodesAre ==
  /\ Lives \subseteq Nat \ {0} /\ None \notin Nodes
  /\ \A n \in Nodes : n[1] \in Peers /\ n[2] \in Nat \ {0} /\ n = <<n[1], n[2]>>
  /\ \A p \in Peers : Node(p)[1] = p /\ Node(p)[2] = started[p]
  /\ \A p, q \in Peers : Node(p) = Node(q) => p = q
  /\ \A a \in Agents : Home[a] \in Peers
<1>1. \A b \in Churn : b["restart"] \in Nat
  BY DiscoveryAssumption DEF Kinds
<1>2. Lives \subseteq Nat \ {0}
  BY <1>1 DEF Lives
<1>3. None \notin Nodes
  BY <1>2, DiscoveryAssumption DEF Nodes
<1>4. \A n \in Nodes : n[1] \in Peers /\ n[2] \in Nat \ {0} /\ n = <<n[1], n[2]>>
  <2>1. \A n \in Peers \X Lives : n[1] \in Peers /\ n[2] \in Lives /\ n = <<n[1], n[2]>>
    OBVIOUS
  <2> QED
    BY <2>1, <1>2 DEF Nodes
<1>5. \A p \in Peers : Node(p)[1] = p /\ Node(p)[2] = started[p]
  BY DEF Node
<1>6. \A p, q \in Peers : Node(p) = Node(q) => p = q
  BY DEF Node
<1> QED
  BY <1>2, <1>3, <1>4, <1>5, <1>6, DiscoveryAssumption

LEMMA MessagesAre ==
  /\ Enter \in Messages /\ Enter.type = "ENTER" /\ Join \in Messages /\ Join.type = "JOIN"
  /\ Exit \in Messages /\ Exit.type = "EXIT" /\ NoExit(<<Enter, Join>>)
  /\ \A a \in Agents :
       /\ \A b \in BOOLEAN : /\ Definition(a, b) \in Messages /\ Definition(a, b).type = "DEFINITION"
                             /\ Definition(a, b).agent = a /\ Definition(a, b).runtime = b
       /\ Knows(a) \in Messages /\ Knows(a).type = "KNOWS" /\ Knows(a).agent = a
       /\ AgentExit(a) \in Messages /\ AgentExit(a).type = "AGENT_EXIT" /\ AgentExit(a).agent = a
<1>1. /\ Enter \in Messages /\ Enter.type = "ENTER" /\ Join \in Messages /\ Join.type = "JOIN"
      /\ Exit \in Messages /\ Exit.type = "EXIT"
  BY DEF Messages, Enter, Join, Exit, Simple
<1>2. NoExit(<<Enter, Join>>)
  BY <1>1 DEF NoExit
<1> QED
  BY <1>1, <1>2 DEF Messages, Definition, Knows, AgentExit

\* The agent of a message of ingescape.
LEMMA MessageAgent ==
  ASSUME NEW m \in Messages, m.type \notin {"ENTER", "JOIN", "EXIT"}
  PROVE  /\ m.agent \in Agents /\ m.type \in {"DEFINITION", "KNOWS", "AGENT_EXIT"}
         /\ m.runtime \in BOOLEAN
         /\ m.type = "DEFINITION" => m = Definition(m.agent, m.runtime)
         /\ m.type = "KNOWS" => m = Knows(m.agent)
         /\ m.type = "AGENT_EXIT" => m = AgentExit(m.agent)
  BY DEF Messages, Definition, Knows, AgentExit

Channels == [Nodes -> [Peers -> Seq(Messages)]]

LEMMA SentIs ==
  ASSUME NEW ch \in Channels, NEW n \in Nodes, NEW to, NEW list \in Seq(Messages)
  PROVE  /\ Sent(ch, n, to, list) \in Channels
         /\ \A m \in Nodes, q \in Peers :
              Sent(ch, n, to, list)[m][q] =
                IF m = n /\ up[q] /\ Node(q) \in to THEN ch[m][q] \o list ELSE ch[m][q]
<1>1. \A q \in Peers : ch[n][q] \in Seq(Messages) /\ ch[n][q] \o list \in Seq(Messages)
  BY ConcatIs DEF Channels
<1> QED
  BY <1>1 DEF Sent, Channels

LEMMA RestIs ==
  ASSUME channel \in Channels, NEW n \in Nodes, NEW p \in Peers, channel[n][p] # <<>>
  PROVE  /\ Rest(n, p) \in Channels
         /\ \A m \in Nodes, q \in Peers :
              Rest(n, p)[m][q] = IF m = n /\ q = p THEN Tail(channel[n][p]) ELSE channel[m][q]
<1>1. Tail(channel[n][p]) \in Seq(Messages)
  BY TailIs DEF Channels
<1> QED
  BY <1>1 DEF Rest, Channels

UpIsNode == \A p \in Peers : up[p] => Node(p) \in Nodes

LEMMA ConnectSends ==
  ASSUME channel \in Channels, UpIsNode, NEW p \in Peers, NEW q \in Peers, Connect(p, q)
  PROVE  /\ channel' \in Channels
         /\ \A m \in Nodes, r \in Peers :
              channel'[m][r] = IF (m = Node(p) /\ r = q) \/ (m = Node(q) /\ r = p)
                               THEN channel[m][r] \o <<Enter, Join>> ELSE channel[m][r]
<1>1. p # q /\ Node(p) \in Nodes /\ Node(q) \in Nodes /\ Node(p) # Node(q)
  BY NodesAre DEF Connect, UpIsNode
<1>2. <<Enter, Join>> \in Seq(Messages)
  BY MessagesAre
<1> DEFINE d == <<Enter, Join>>
           one == channel[Node(p)][q] \o d
           two == channel[Node(q)][p] \o d
<1>3. channel' = [channel EXCEPT ![Node(p)][q] = one, ![Node(q)][p] = two]
  BY DEF Connect
<1>4. one \in Seq(Messages) /\ two \in Seq(Messages)
  BY <1>1, <1>2, ConcatIs DEF Channels
<1>5. /\ channel' \in Channels
      /\ \A m \in Nodes, r \in Peers :
           channel'[m][r] = IF m = Node(p) /\ r = q THEN one
                            ELSE IF m = Node(q) /\ r = p THEN two ELSE channel[m][r]
  <2> HIDE DEF one, two
  <2> DEFINE n1 == Node(p)
             n2 == Node(q)
  <2>1. /\ n1 \in Nodes /\ n2 \in Nodes /\ n1 # n2 /\ n1 = Node(p) /\ n2 = Node(q)
        /\ channel' = [channel EXCEPT ![n1][q] = one, ![n2][p] = two]
    BY <1>1, <1>3
  <2> HIDE DEF n1, n2
  <2>2. channel' \in Channels
    BY <2>1, <1>4 DEF Channels
  <2>3. ASSUME NEW m \in Nodes, NEW r \in Peers
        PROVE  channel'[m][r] = IF m = Node(p) /\ r = q THEN one
                                ELSE IF m = Node(q) /\ r = p THEN two ELSE channel[m][r]
    <3>1. channel'[m][r] = IF m = n1 /\ r = q THEN one
                           ELSE IF m = n2 /\ r = p THEN two ELSE channel[m][r]
      BY <2>1 DEF Channels
    <3> QED
      BY <2>1, <3>1
  <2> QED
    BY <2>2, <2>3
<1> QED
  BY <1>5

LEMMA ReconnectSends ==
  ASSUME channel \in Channels, UpIsNode, NEW p \in Peers, NEW q \in Peers, Reconnect(p, q)
  PROVE  /\ channel' \in Channels
         /\ \A m \in Nodes, r \in Peers :
              channel'[m][r] = IF m = Node(p) /\ r = q
                               THEN channel[m][r] \o <<Enter, Join, Exit>> ELSE channel[m][r]
<1>1. Node(p) \in Nodes
  BY DEF Reconnect, UpIsNode
<1>2. <<Enter, Join, Exit>> \in Seq(Messages)
  BY MessagesAre
<1> DEFINE one == channel[Node(p)][q] \o <<Enter, Join, Exit>>
<1>3. channel' = [channel EXCEPT ![Node(p)][q] = one]
  BY DEF Reconnect
<1>4. one \in Seq(Messages)
  BY <1>1, <1>2, ConcatIs DEF Channels
<1>5. /\ channel' \in Channels
      /\ \A m \in Nodes, r \in Peers :
           channel'[m][r] = IF m = Node(p) /\ r = q THEN one ELSE channel[m][r]
  <2> HIDE DEF one
  <2> QED
    BY <1>1, <1>3, <1>4 DEF Channels
<1> QED
  BY <1>5

LEMMA DeactivateSends ==
  ASSUME channel \in Channels, UpIsNode, NEW a \in Agents, Deactivate(a)
  PROVE  /\ channel' \in Channels
         /\ \A m \in Nodes, q \in Peers :
              channel'[m][q] = IF /\ up[Home[a]] /\ m = Node(Home[a]) /\ up[q]
                                  /\ Node(q) \in Linked(Node(Home[a]))
                               THEN channel[m][q] \o <<AgentExit(a)>> ELSE channel[m][q]
<1>1. <<AgentExit(a)>> \in Seq(Messages) /\ Home[a] \in Peers
  BY MessagesAre, NodesAre
<1>2. CASE up[Home[a]]
  <2>1. channel' = Sent(channel, Node(Home[a]), Linked(Node(Home[a])), <<AgentExit(a)>>)
    BY <1>2 DEF Deactivate
  <2>2. Node(Home[a]) \in Nodes
    BY <1>1, <1>2 DEF UpIsNode
  <2> DEFINE to == Linked(Node(Home[a]))
             list == <<AgentExit(a)>>
  <2>3. channel' = Sent(channel, Node(Home[a]), to, list) /\ list \in Seq(Messages)
    BY <2>1, <1>1
  <2> HIDE DEF to, list
  <2>4. /\ channel' \in Channels
        /\ \A m \in Nodes, q \in Peers :
             channel'[m][q] = IF m = Node(Home[a]) /\ up[q] /\ Node(q) \in to
                              THEN channel[m][q] \o list ELSE channel[m][q]
    BY <2>3, <2>2, SentIs
  <2> QED
    BY <2>4, <1>2 DEF to, list
<1>3. CASE ~up[Home[a]]
  BY <1>3 DEF Deactivate
<1> QED
  BY <1>2, <1>3

LEMMA StopSends ==
  ASSUME channel \in Channels, NEW p \in Peers, Stop(p)
  PROVE  /\ channel' \in Channels
         /\ \A m \in Nodes, q \in Peers :
              channel'[m][q] = IF q = p THEN <<>>
                               ELSE IF m = Node(p) /\ up[q] /\ Node(q) \in Linked(m)
                               THEN Append(channel[m][q], Exit) ELSE channel[m][q]
<1>1. \A m \in Nodes, q \in Peers : Append(channel[m][q], Exit) \in Seq(Messages)
  BY MessagesAre, AppendProperties DEF Channels
<1>2. <<>> \in Seq(Messages)
  OBVIOUS
<1> QED
  BY <1>1, <1>2 DEF Stop, Channels

LEMMA SendDefinitionSends ==
  ASSUME channel \in Channels, UpIsNode, atRuntime \in [Agents -> BOOLEAN],
         NEW a \in Agents, SendDefinition(a)
  PROVE  /\ channel' \in Channels
         /\ \A m \in Nodes, q \in Peers :
              channel'[m][q] = IF /\ m = Node(Home[a]) /\ up[q] /\ Node(q) \in Linked(Node(Home[a]))
                                  /\ known[Home[a]][Node(q)] = "joined"
                               THEN channel[m][q] \o <<Definition(a, atRuntime[a])>>
                               ELSE channel[m][q]
<1>1. Node(Home[a]) \in Nodes
  BY NodesAre DEF SendDefinition, Ready, UpIsNode
<1>2. <<Definition(a, atRuntime[a])>> \in Seq(Messages)
  BY MessagesAre
<1>3. channel' = Sent(channel, Node(Home[a]),
                      {m \in Linked(Node(Home[a])) : known[Home[a]][m] = "joined"},
                      <<Definition(a, atRuntime[a])>>)
  BY DEF SendDefinition, Notified
<1> DEFINE to == {m \in Linked(Node(Home[a])) : known[Home[a]][m] = "joined"}
           list == <<Definition(a, atRuntime[a])>>
<1>4. channel' = Sent(channel, Node(Home[a]), to, list) /\ list \in Seq(Messages)
  BY <1>2, <1>3
<1> HIDE DEF to, list
<1>5. /\ channel' \in Channels
      /\ \A m \in Nodes, q \in Peers :
           channel'[m][q] = IF m = Node(Home[a]) /\ up[q] /\ Node(q) \in to
                            THEN channel[m][q] \o list ELSE channel[m][q]
  BY <1>1, <1>4, SentIs
<1> QED
  BY <1>5 DEF to, list

\* The definitions sent to a newcomer, one for each active agent.
Announcement(p, list) ==
  /\ list \in Seq(Messages)
  /\ \A i \in 1..Len(list) : \E a \in NewcomerAgents(p) : list[i] = Definition(a, FALSE)
  /\ \A a \in NewcomerAgents(p) : \E i \in 1..Len(list) : list[i] = Definition(a, FALSE)
  /\ \A i, j \in 1..Len(list) : list[i].agent = list[j].agent => i = j

LEMMA RecvJoinSends ==
  ASSUME channel \in Channels, UpIsNode, active \subseteq Agents,
         NEW n \in Nodes, NEW p \in Peers, n[1] # p, RecvJoin(n, p)
  PROVE  /\ channel' \in Channels
         /\ \E list : /\ Announcement(p, list)
                      /\ \A m \in Nodes, q \in Peers :
                           channel'[m][q] =
                             IF m = n /\ q = p THEN Tail(channel[n][p])
                             ELSE IF m = Node(p) /\ up[q] /\ Node(q) = n /\ n \in Linked(Node(p))
                             THEN channel[m][q] \o list ELSE channel[m][q]
<1>1. PICK f \in Orders(NewcomerAgents(p)) :
        channel' = Sent(Rest(n, p), Node(p), {n} \cap Linked(Node(p)),
                        [i \in DOMAIN f |-> Definition(f[i], FALSE)])
  BY DEF RecvJoin
<1> DEFINE S == NewcomerAgents(p)
           list == [i \in DOMAIN f |-> Definition(f[i], FALSE)]
<1>2. IsFiniteSet(S) /\ S \subseteq Agents
  BY FS_Subset, DiscoveryAssumption DEF NewcomerAgents, On
<1>3. Cardinality(S) \in Nat
  BY <1>2, FS_CardinalityType
<1>4. f \in [1..Cardinality(S) -> S] /\ \A a \in S : \E i \in DOMAIN f : f[i] = a
  BY <1>1 DEF Orders
<1>5. list \in Seq(Messages) /\ Len(list) = Cardinality(S) /\ DOMAIN f = 1..Len(list)
  <2> HIDE DEF S
  <2>1. \A i \in DOMAIN f : Definition(f[i], FALSE) \in Messages
    BY <1>2, <1>4, MessagesAre
  <2>2. list \in [1..Cardinality(S) -> Messages] /\ DOMAIN f = 1..Cardinality(S)
    BY <2>1, <1>4
  <2> HIDE DEF list
  <2>3. list \in Seq(Messages) /\ Len(list) = Cardinality(S)
    BY <2>2, <1>3
  <2> QED
    BY <2>2, <2>3
<1>12. \A i, j \in DOMAIN f : f[i] = f[j] => i = j
  <2> HIDE DEF S
  <2> DEFINE I == 1..Cardinality(S)
  <2>1. IsFiniteSet(I) /\ Cardinality(I) = Cardinality(S)
    BY <1>3, FS_Interval
  <2>2. f \in Surjection(I, S)
    BY <1>4 DEF Surjection
  <2>3. f \in Injection(I, S)
    <3> HIDE DEF I
    <3> QED
      BY <2>1, <2>2, FS_SurjSameCardinalityImpliesInj
  <2>4. I = DOMAIN f
    BY <1>4
  <2> HIDE DEF I
  <2>5. \A i, j \in I : f[i] = f[j] => i = j
    BY <2>3, Fun_InjectionProperties
  <2> QED
    BY <2>4, <2>5
<1>6. Announcement(p, list)
  <2>1. \A i, j \in 1..Len(list) : list[i].agent = list[j].agent => i = j
    <3>1. \A i \in DOMAIN f : f[i] \in Agents
      BY <1>2, <1>4
    <3>2. \A i \in 1..Len(list) : list[i].agent = f[i]
      BY <1>5, <3>1, MessagesAre
    <3>3. ASSUME NEW i \in 1..Len(list), NEW j \in 1..Len(list), list[i].agent = list[j].agent
          PROVE  i = j
      <4>1. f[i] = f[j] /\ i \in DOMAIN f /\ j \in DOMAIN f
        BY <1>5, <3>2, <3>3
      <4> QED
        BY <1>12, <4>1
    <3> QED
      BY <3>3
  <2> QED
    BY <1>4, <1>5, <2>1 DEF Announcement
<1>7. channel[n][p] # <<>> /\ Node(p) \in Nodes /\ n # Node(p)
  BY NodesAre DEF RecvJoin, Next1, Ready, UpIsNode
<1>8. Rest(n, p) \in Channels
  BY <1>7, RestIs
<1> DEFINE to == {n} \cap Linked(Node(p))
           rest == Rest(n, p)
<1>11. channel' = Sent(rest, Node(p), to, list) /\ rest \in Channels
  BY <1>1, <1>8
<1> HIDE DEF list, to, rest
<1>9. /\ channel' \in Channels
      /\ \A m \in Nodes, q \in Peers :
           channel'[m][q] = IF m = Node(p) /\ up[q] /\ Node(q) \in to
                            THEN rest[m][q] \o list ELSE rest[m][q]
  BY <1>5, <1>7, <1>11, SentIs
<1>10. \A m \in Nodes, q \in Peers :
         channel'[m][q] = IF m = n /\ q = p THEN Tail(channel[n][p])
                          ELSE IF m = Node(p) /\ up[q] /\ Node(q) = n /\ n \in Linked(Node(p))
                          THEN channel[m][q] \o list ELSE channel[m][q]
  BY <1>7, <1>9, RestIs DEF to, rest
<1> QED
  BY <1>6, <1>9, <1>10

LEMMA RecvDefinitionSends ==
  ASSUME channel \in Channels, UpIsNode,
         NEW n \in Nodes, NEW p \in Peers, n[1] # p, RecvDefinition(n, p)
  PROVE  /\ channel' \in Channels
         /\ Head(channel[n][p]).agent \in Agents
         /\ \A m \in Nodes, q \in Peers :
              channel'[m][q] =
                IF m = n /\ q = p THEN Tail(channel[n][p])
                ELSE IF /\ remotes[p][Head(channel[n][p]).agent] = None
                        /\ m = Node(p) /\ up[q] /\ Node(q) = n /\ n \in Linked(Node(p))
                THEN channel[m][q] \o <<Knows(Head(channel[n][p]).agent)>> ELSE channel[m][q]
<1> DEFINE r == Head(channel[n][p]).agent
<1>1. channel[n][p] # <<>> /\ Node(p) \in Nodes /\ n # Node(p)
  BY NodesAre DEF RecvDefinition, Next1, Ready, UpIsNode
<1>2. r \in Agents
  <2>1. Head(channel[n][p]) \in Messages /\ Head(channel[n][p]).type = "DEFINITION"
    BY <1>1, TailIs DEF RecvDefinition, Next1, Channels
  <2> QED
    BY <2>1, MessageAgent
<1>3. <<Knows(r)>> \in Seq(Messages)
  <2> HIDE DEF r
  <2> QED
    BY <1>2, MessagesAre
<1>4. Rest(n, p) \in Channels
  BY <1>1, RestIs
<1>5. CASE remotes[p][r] = None
  <2>1. channel' = Sent(Rest(n, p), Node(p), {n} \cap Linked(Node(p)), <<Knows(r)>>)
    BY <1>5 DEF RecvDefinition
  <2> HIDE DEF r
  <2> DEFINE to == {n} \cap Linked(Node(p))
             rest == Rest(n, p)
             list == <<Knows(r)>>
  <2>3. channel' = Sent(rest, Node(p), to, list) /\ rest \in Channels /\ list \in Seq(Messages)
    BY <2>1, <1>3, <1>4
  <2> HIDE DEF to, rest, list
  <2>2. /\ channel' \in Channels
        /\ \A m \in Nodes, q \in Peers :
             channel'[m][q] = IF m = Node(p) /\ up[q] /\ Node(q) \in to
                              THEN rest[m][q] \o list ELSE rest[m][q]
    BY <2>3, <1>1, SentIs
  <2> QED
    BY <2>2, <1>1, <1>2, <1>5, RestIs DEF r, to, rest, list
<1>6. CASE remotes[p][r] # None
  <2>1. channel' = Rest(n, p)
    BY <1>6 DEF RecvDefinition
  <2> QED
    BY <2>1, <1>1, <1>2, <1>4, <1>6, RestIs
<1> QED
  BY <1>5, <1>6

-----------------------------------------------------------------------------
(***************************************************************************)
(* Who meets whom.                                                         *)
(***************************************************************************)
Live(n) == up[n[1]] /\ n = Node(n[1])
Link(n, p) == {n, Node(p)} \in links
Met(n, p) == channel[n][p] # <<>> \/ known[p][n] # "unknown"

\* Links are between nodes that are up.
LinksLive ==
  \A l \in links : \E p, q \in Peers : p # q /\ up[p] /\ up[q] /\ l = {Node(p), Node(q)}

\* Nothing is left of a peer that is down.
DownIsEmpty ==
  \A p \in Peers : ~up[p] => telling[p] = <<>> /\ \A n \in Nodes : ~Met(n, p)

\* Nodes that are met were started.
MetStarted ==
  \A n \in Nodes, p \in Peers : Met(n, p) => n[1] # p /\ n[2] <= started[n[1]]

\* Two nodes meet once they are linked.
MetLinked ==
  \A n \in Nodes, p \in Peers : Live(n) /\ up[p] /\ n[1] # p => (Link(n, p) <=> Met(n, p))

Places == UpIsNode /\ LinksLive /\ DownIsEmpty /\ MetStarted /\ MetLinked

PairAt(n, p) ==
  Pair(channel[n][p], known[p][n], reconnected[p][n], leaving[p] = n, Live(n))
Pairs == \A n \in Nodes, p \in Peers : PairAt(n, p)

\* A remote agent belongs to a peer that has joined.
CarrierJoined ==
  \A p \in Peers, r \in Agents :
    remotes[p][r] # None => known[p][remotes[p][r]] = "joined"

Shape == TypeOK /\ Places /\ Pairs /\ CarrierJoined

LEMMA LinkedMeet ==
  ASSUME Shape, NEW n \in Nodes, NEW q \in Peers, up[q], Node(q) \in Linked(n)
  PROVE  Live(n) /\ Met(n, q) /\ n[1] # q
<1>1. {n, Node(q)} \in links /\ Node(q) \in Nodes
  BY DEF Linked
<1>2. PICK p1 \in Peers, p2 \in Peers : p1 # p2 /\ up[p1] /\ up[p2] /\ {n, Node(q)} = {Node(p1), Node(p2)}
  BY <1>1 DEF Shape, Places, LinksLive
<1>3. Node(p1) # Node(p2)
  BY <1>2, NodesAre
<1>4. \E p \in {p1, p2} : n = Node(p) /\ Node(p) # Node(q)
  BY <1>2, <1>3
<1>5. PICK p \in {p1, p2} : n = Node(p) /\ Node(p) # Node(q)
  BY <1>4
<1>6. Live(n) /\ n[1] # q
  BY <1>2, <1>5, NodesAre DEF Live
<1>7. Link(n, q)
  BY <1>1 DEF Link
<1> QED
  BY <1>6, <1>7 DEF Shape, Places, MetLinked

\* Pairs that a step leaves alone or where messages that are not exits are sent.
Untouched(n, p) ==
  /\ known'[p][n] = known[p][n] /\ reconnected'[p][n] = reconnected[p][n]
  /\ (leaving'[p] = n) = (leaving[p] = n)
  /\ \/ channel'[n][p] = channel[n][p]
     \/ /\ Live(n) /\ Met(n, p)
        /\ \E d \in Seq(Messages) : NoExit(d) /\ channel'[n][p] = channel[n][p] \o d

LEMMA ConcatEmpty ==
  ASSUME NEW T, NEW c \in Seq(T), NEW d \in Seq(T), c # <<>>
  PROVE  c \o d # <<>>
<1>1. Len(c) > 0 /\ Len(c) \in Nat /\ Len(d) \in Nat /\ Len(c \o d) = Len(c) + Len(d)
  BY TailIs, ConcatIs
<1>2. c \o d \in Seq(T) /\ Len(c \o d) > 0
  BY <1>1, ConcatIs
<1> QED
  BY <1>2, EmptySeq

LEMMA UntouchedKept ==
  ASSUME Shape, UNCHANGED <<up, started>>, NEW n \in Nodes, NEW p \in Peers, Untouched(n, p)
  PROVE  PairAt(n, p)' /\ (Met(n, p)' <=> Met(n, p))
<1> DEFINE c == channel[n][p]
           k == known[p][n]
           r == reconnected[p][n]
           leave == leaving[p] = n
           live == Live(n)
<1>1. c \in Seq(Messages) /\ k \in Table /\ r \in Nat /\ leave \in BOOLEAN /\ live \in BOOLEAN
  <2>1. live \in BOOLEAN
    BY DEF Live, Shape, TypeOK
  <2> QED
    BY <2>1 DEF Shape, TypeOK, Table
<1>2. Pair(c, k, r, leave, live)
  BY DEF Shape, Pairs, PairAt
<1>3. Live(n)' = live
  BY DEF Live, Node
<1>4. known'[p][n] = k /\ reconnected'[p][n] = r /\ (leaving'[p] = n) = leave
  BY DEF Untouched
<1>5. CASE channel'[n][p] = c
  <2>1. Met(n, p)' <=> Met(n, p)
    BY <1>4, <1>5 DEF Met
  <2>2. PairAt(n, p)' = Pair(channel'[n][p], known'[p][n], reconnected'[p][n], leaving'[p] = n, Live(n)')
    BY DEF PairAt
  <2> HIDE DEF c, k, r, leave, live
  <2>3. PairAt(n, p)'
    BY <1>2, <1>3, <1>4, <1>5, <2>2
  <2> QED
    BY <2>1, <2>3
<1>6. ASSUME Live(n), Met(n, p), NEW d \in Seq(Messages), NoExit(d), channel'[n][p] = c \o d
      PROVE  PairAt(n, p)' /\ (Met(n, p)' <=> Met(n, p))
  <2>1. c # <<>> \/ k # "unknown"
    BY <1>6 DEF Met
  <2>2. c # <<>> => c \o d # <<>>
    BY <1>1, ConcatEmpty
  <2>3. Met(n, p)'
    BY <1>4, <1>6, <2>1, <2>2 DEF Met
  <2>4. PairAt(n, p)' = Pair(channel'[n][p], known'[p][n], reconnected'[p][n], leaving'[p] = n, Live(n)')
    BY DEF PairAt
  <2>5. live = TRUE
    BY <1>6, <1>1
  <2> HIDE DEF c, k, r, leave, live
  <2>6. Pair(c, k, r, leave, TRUE)
    BY <1>2, <2>5
  <2>7. Pair(c \o d, k, r, leave, TRUE)
    BY <1>1, <2>6, <2>1, <1>6, PairSent
  <2>8. PairAt(n, p)'
    BY <2>4, <2>5, <2>7, <1>3, <1>4, <1>6
  <2> QED
    BY <2>3, <2>8, <1>6
<1> QED
  BY <1>5, <1>6 DEF Untouched

LEMMA PlacesKept ==
  ASSUME Shape, UNCHANGED <<up, started, links>>,
         \A n \in Nodes, p \in Peers : Met(n, p)' <=> Met(n, p),
         \A p \in Peers : ~up[p] => telling'[p] = <<>>
  PROVE  Places'
<1>1. UpIsNode'
  BY DEF Shape, Places, UpIsNode, Node
<1>2. LinksLive'
  BY DEF Shape, Places, LinksLive, Node
<1>3. DownIsEmpty'
  BY DEF Shape, Places, DownIsEmpty
<1>4. MetStarted'
  BY DEF Shape, Places, MetStarted
<1>5. MetLinked'
  BY DEF Shape, Places, MetLinked, Live, Link, Node
<1> QED
  BY <1>1, <1>2, <1>3, <1>4, <1>5 DEF Places

\* A step where a message of node n is received by p and every other pair is
\* left alone.
LEMMA Received ==
  ASSUME Shape, UNCHANGED <<up, started, links>>, NEW n \in Nodes, NEW p \in Peers,
         \A q \in Peers : ~up[q] => telling'[q] = <<>>,
         \A m \in Nodes, q \in Peers : (m = n /\ q = p) \/ Untouched(m, q),
         Met(n, p), known'[p][n] # "unknown", PairAt(n, p)'
  PROVE  Pairs' /\ Places'
<1>1. ASSUME NEW m \in Nodes, NEW q \in Peers
      PROVE  PairAt(m, q)' /\ (Met(m, q)' <=> Met(m, q))
  <2>1. CASE m = n /\ q = p
    <3>1. Met(n, p)'
      BY DEF Met
    <3> QED
      BY <2>1, <3>1
  <2>2. CASE Untouched(m, q)
    BY <2>2, UntouchedKept
  <2> QED
    BY <2>1, <2>2
<1>2. Pairs'
  BY <1>1 DEF Pairs
<1> QED
  BY <1>1, <1>2, PlacesKept

LEMMA OnlySent ==
  ASSUME Shape, UNCHANGED <<up, started, links>>,
         \A q \in Peers : ~up[q] => telling'[q] = <<>>,
         \A m \in Nodes, q \in Peers : Untouched(m, q)
  PROVE  Pairs' /\ Places'
<1>1. ASSUME NEW m \in Nodes, NEW q \in Peers
      PROVE  PairAt(m, q)' /\ (Met(m, q)' <=> Met(m, q))
  BY UntouchedKept
<1>2. Pairs'
  BY <1>1 DEF Pairs
<1> QED
  BY <1>1, <1>2, PlacesKept

\* What holds when the network thread of p handles a message of n.
LEMMA Handling ==
  ASSUME Shape, NEW n \in Nodes, NEW p \in Peers, NEW type, Next1(n, p, type)
  PROVE  /\ channel \in Channels /\ channel[n][p] \in Seq(Messages) /\ channel[n][p] # <<>>
         /\ Head(channel[n][p]) = channel[n][p][1] /\ Head(channel[n][p]) \in Messages
         /\ channel[n][p][1].type = type
         /\ up[p] /\ leaving[p] = None /\ telling[p] = <<>> /\ leaving[p] # n
         /\ Met(n, p) /\ n[1] # p
         /\ known[p][n] \in Table /\ reconnected[p][n] \in Nat /\ Live(n) \in BOOLEAN
         /\ Pair(channel[n][p], known[p][n], reconnected[p][n], FALSE, Live(n))
<1>1. channel \in Channels /\ channel[n][p] \in Seq(Messages) /\ channel[n][p] # <<>>
  BY DEF Shape, TypeOK, Channels, Next1
<1>2. /\ Head(channel[n][p]) = channel[n][p][1] /\ Head(channel[n][p]) \in Messages
      /\ channel[n][p][1].type = type
  BY <1>1, TailIs DEF Next1
<1>3. up[p] /\ leaving[p] = None /\ telling[p] = <<>> /\ leaving[p] # n
  BY NodesAre DEF Next1, Ready
<1>4. Met(n, p)
  BY <1>1 DEF Met
<1>5. n[1] # p
  BY <1>4 DEF Shape, Places, MetStarted
<1>6. known[p][n] \in Table /\ reconnected[p][n] \in Nat /\ Live(n) \in BOOLEAN
  BY DEF Shape, TypeOK, Live, Table
<1>7. PairAt(n, p)
  BY DEF Shape, Pairs
<1>8. Pair(channel[n][p], known[p][n], reconnected[p][n], FALSE, Live(n))
  BY <1>7, <1>3 DEF PairAt, Pair
<1> QED
  BY <1>1, <1>2, <1>3, <1>4, <1>5, <1>6, <1>8

-----------------------------------------------------------------------------
(***************************************************************************)
(* Every step keeps types, places, pairs and carriers.                     *)
(***************************************************************************)
LEMMA CarriersKept ==
  ASSUME Shape,
         \A p \in Peers, n \in Nodes : known[p][n] = "joined" => known'[p][n] = "joined",
         \A p \in Peers, r \in Agents :
           \/ remotes'[p][r] \in {None, remotes[p][r]}
           \/ known'[p][remotes'[p][r]] = "joined"
  PROVE  CarrierJoined'
<1>1. ASSUME NEW p \in Peers, NEW r \in Agents, remotes'[p][r] # None
      PROVE  known'[p][remotes'[p][r]] = "joined"
  <2>1. CASE remotes'[p][r] = remotes[p][r]
    <3>1. remotes[p][r] \in Nodes
      BY <1>1, <2>1 DEF Shape, TypeOK
    <3>2. known[p][remotes[p][r]] = "joined"
      BY <1>1, <2>1 DEF Shape, CarrierJoined
    <3> QED
      BY <2>1, <3>1, <3>2
  <2> QED
    BY <1>1, <2>1
<1> QED
  BY <1>1 DEF CarrierJoined

LEMMA ChurnType ==
  ASSUME TypeOK, NEW kind \in Kinds, UserOperation(kind)
  PROVE  churn' \in [Kinds -> Nat]
  BY DEF TypeOK, UserOperation

LEMMA ConnectShape ==
  ASSUME Shape, NEW p \in Peers, NEW q \in Peers, Connect(p, q)
  PROVE  Shape'
<1>1. /\ channel' \in Channels
      /\ \A m \in Nodes, r \in Peers :
           channel'[m][r] = IF (m = Node(p) /\ r = q) \/ (m = Node(q) /\ r = p)
                            THEN channel[m][r] \o <<Enter, Join>> ELSE channel[m][r]
  <2>1. channel \in Channels /\ UpIsNode
    BY DEF Shape, TypeOK, Places, Channels
  <2> QED
    BY <2>1, ConnectSends
<1>2. /\ p # q /\ up[p] /\ up[q] /\ Node(p) \in Nodes /\ Node(q) \in Nodes /\ Node(p) # Node(q)
      /\ Node(p)[1] = p /\ Node(q)[1] = q
      /\ {Node(p), Node(q)} \notin links /\ links' = links \cup {{Node(p), Node(q)}}
      /\ UNCHANGED <<agentVars, up, started, registryVars, leaving, telling, told, churn>>
  BY NodesAre DEF Connect, Shape, Places, UpIsNode
<1>3. TypeOK'
  <2>1. links' \subseteq SUBSET Nodes
    BY <1>2 DEF Shape, TypeOK
  <2>2. UNCHANGED <<agentVars, up, started, registryVars, leaving, telling, told, churn>>
    BY DEF Connect
  <2> QED
    BY <1>1, <2>1, <2>2 DEF Shape, TypeOK, Channels, agentVars, registryVars
<1>4. Live(Node(p)) /\ Live(Node(q)) /\ ~Link(Node(p), q) /\ ~Link(Node(q), p)
  <2>1. {Node(p), Node(q)} = {Node(q), Node(p)}
    OBVIOUS
  <2> QED
    BY <1>2, <2>1 DEF Live, Link
<1>5. ~Met(Node(p), q) /\ ~Met(Node(q), p)
  BY <1>2, <1>4 DEF Shape, Places, MetLinked
<1>6. \A m \in Nodes, r \in Peers :
         IF (m = Node(p) /\ r = q) \/ (m = Node(q) /\ r = p)
         THEN PairAt(m, r)' /\ Met(m, r)' ELSE PairAt(m, r)' /\ (Met(m, r)' <=> Met(m, r))
  <2> SUFFICES ASSUME NEW m \in Nodes, NEW r \in Peers
               PROVE  IF (m = Node(p) /\ r = q) \/ (m = Node(q) /\ r = p)
                      THEN PairAt(m, r)' /\ Met(m, r)'
                      ELSE PairAt(m, r)' /\ (Met(m, r)' <=> Met(m, r))
    OBVIOUS
  <2>1. CASE (m = Node(p) /\ r = q) \/ (m = Node(q) /\ r = p)
    <3>1. channel[m][r] = <<>> /\ known[r][m] = "unknown"
      BY <1>5, <2>1 DEF Met
    <3>2. channel'[m][r] = <<Enter, Join>>
      <4>1. channel'[m][r] = <<>> \o <<Enter, Join>>
        BY <1>1, <2>1, <3>1
      <4>2. <<Enter, Join>> \in Seq(Messages)
        BY MessagesAre
      <4>3. <<>> \o <<Enter, Join>> = <<Enter, Join>>
        BY <4>2, ConcatEmptySeq
      <4> QED
        BY <4>1, <4>3
    <3>3. reconnected[r][m] = 0 /\ leaving[r] # m
      <4>1. PairAt(m, r)
        BY DEF Shape, Pairs
      <4> QED
        BY <4>1, <3>1 DEF PairAt, Pair
    <3>4. known'[r][m] = "unknown" /\ reconnected'[r][m] = 0 /\ leaving'[r] # m /\ Live(m)' \in BOOLEAN
      BY <1>2, <1>3, <3>1, <3>3 DEF registryVars, TypeOK, Live
    <3>5. (leaving[r] = m)' = FALSE
      BY <3>4
    <3>6. PairAt(m, r)' = Pair(channel'[m][r], known'[r][m], reconnected'[r][m], (leaving[r] = m)', Live(m)')
      BY DEF PairAt
    <3>7. Met(m, r)'
      BY <3>2 DEF Met
    <3> QED
      BY <2>1, <3>2, <3>4, <3>5, <3>6, <3>7, PairStrangers
  <2>2. CASE ~((m = Node(p) /\ r = q) \/ (m = Node(q) /\ r = p))
    <3>1. Untouched(m, r)
      BY <1>1, <1>2, <2>2 DEF Untouched, registryVars
    <3> QED
      BY <1>2, <2>2, <3>1, UntouchedKept
  <2> QED
    BY <2>1, <2>2
<1>7. Pairs'
  BY <1>6 DEF Pairs
<1>8. UpIsNode' /\ LinksLive'
  <2>1. UpIsNode'
    BY <1>2 DEF Shape, Places, UpIsNode, Node
  <2>2. ASSUME NEW l \in links'
        PROVE  \E p1, p2 \in Peers : p1 # p2 /\ up'[p1] /\ up'[p2] /\ l = {Node(p1)', Node(p2)'}
    <3>1. CASE l \in links
      BY <1>2, <3>1 DEF Shape, Places, LinksLive, Node
    <3>2. CASE l = {Node(p), Node(q)}
      BY <1>2, <3>2 DEF Node
    <3> QED
      BY <1>2, <2>2, <3>1, <3>2
  <2> QED
    BY <2>1, <2>2 DEF LinksLive
<1>9. DownIsEmpty'
  <2> SUFFICES ASSUME NEW r \in Peers, ~up'[r] PROVE telling'[r] = <<>> /\ \A m \in Nodes : ~Met(m, r)'
    BY DEF DownIsEmpty
  <2>1. r # p /\ r # q /\ ~up[r]
    BY <1>2
  <2> QED
    BY <1>2, <1>6, <2>1 DEF Shape, Places, DownIsEmpty
<1>10. MetStarted'
  <2> SUFFICES ASSUME NEW m \in Nodes, NEW r \in Peers, Met(m, r)'
               PROVE  m[1] # r /\ m[2] <= started'[m[1]]
    BY DEF MetStarted
  <2>1. CASE (m = Node(p) /\ r = q) \/ (m = Node(q) /\ r = p)
    <3>1. \A s \in Peers : Node(s)[1] = s /\ Node(s)[2] = started[s] /\ started[s] \in Nat
      <4>1. started \in [Peers -> Lives \cup {0}]
        BY DEF Shape, TypeOK
      <4>2. Lives \subseteq Nat
        BY NodesAre
      <4>3. \A s \in Peers : started[s] \in Nat
        <5>1. \A n \in Lives \cup {0} : n \in Nat
          BY <4>2
        <5> QED
          BY <4>1, <5>1
      <4> QED
        BY <4>3, NodesAre
    <3>3. p # q
      BY <1>2
    <3>2. m[1] # r /\ m[2] = started[m[1]] /\ started[m[1]] \in Nat
      BY <2>1, <3>1, <3>3
    <3> QED
      BY <3>2, <1>2
  <2>2. CASE ~((m = Node(p) /\ r = q) \/ (m = Node(q) /\ r = p))
    <3>1. Met(m, r)
      BY <1>6, <2>2
    <3> QED
      BY <3>1, <1>2 DEF Shape, Places, MetStarted
  <2> QED
    BY <2>1, <2>2
<1>11. MetLinked'
  <2> SUFFICES ASSUME NEW m \in Nodes, NEW r \in Peers, Live(m)', up'[r], m[1] # r
               PROVE  Link(m, r)' <=> Met(m, r)'
    BY DEF MetLinked
  <2>1. Live(m) /\ up[r] /\ Node(r) = Node(r)'
    BY <1>2 DEF Live, Node
  <2>2. Link(m, r)' <=> Link(m, r) \/ {m, Node(r)} = {Node(p), Node(q)}
    BY <1>2, <2>1 DEF Link
  <2>3. {m, Node(r)} = {Node(p), Node(q)} <=> (m = Node(p) /\ r = q) \/ (m = Node(q) /\ r = p)
    <3>1. m = Node(m[1]) /\ m[1] \in Peers
      BY <2>1, NodesAre DEF Live
    <3>2. Node(r) = Node(p) => r = p
      BY NodesAre
    <3>3. Node(r) = Node(q) => r = q
      BY NodesAre
    <3> QED
      BY <3>1, <3>2, <3>3
  <2>4. Link(m, r) <=> Met(m, r)
    BY <2>1 DEF Shape, Places, MetLinked
  <2> QED
    BY <1>6, <2>2, <2>3, <2>4
<1>12. CarrierJoined'
  BY <1>2 DEF Shape, CarrierJoined, registryVars
<1> QED
  BY <1>3, <1>7, <1>8, <1>9, <1>10, <1>11, <1>12 DEF Shape, Places

LEMMA ReconnectShape ==
  ASSUME Shape, NEW p \in Peers, NEW q \in Peers, Reconnect(p, q)
  PROVE  Shape'
<1>1. /\ channel' \in Channels
      /\ \A m \in Nodes, r \in Peers :
           channel'[m][r] = IF m = Node(p) /\ r = q
                            THEN channel[m][r] \o <<Enter, Join, Exit>> ELSE channel[m][r]
  <2>1. channel \in Channels /\ UpIsNode
    BY DEF Shape, TypeOK, Places, Channels
  <2> QED
    BY <2>1, ReconnectSends
<1>2. /\ UNCHANGED <<agentVars, zyreVars, registryVars, leaving, telling, told>>
      /\ up[q] /\ Node(p) \in Nodes /\ {Node(p), Node(q)} \in links /\ UserOperation("reconnect")
  BY DEF Reconnect, Shape, Places, UpIsNode
<1>3. TypeOK'
  <2>1. churn' \in [Kinds -> Nat]
    BY <1>2, ChurnType DEF Shape, Kinds
  <2> QED
    BY <1>1, <1>2, <2>1 DEF Shape, TypeOK, Channels, agentVars, registryVars, zyreVars
<1>4. Live(Node(p)) /\ Met(Node(p), q)
  <2>1. Node(q) \in Linked(Node(p))
    BY <1>2 DEF Linked, Shape, Places, UpIsNode
  <2> QED
    BY <1>2, <2>1, LinkedMeet
<1>5. \A m \in Nodes, r \in Peers : PairAt(m, r)' /\ (Met(m, r)' <=> Met(m, r))
  <2> SUFFICES ASSUME NEW m \in Nodes, NEW r \in Peers
               PROVE  PairAt(m, r)' /\ (Met(m, r)' <=> Met(m, r))
    OBVIOUS
  <2>1. CASE m = Node(p) /\ r = q
    <3> DEFINE c == channel[m][r]
               d == <<Enter, Join, Exit>>
    <3>1. c \in Seq(Messages) /\ known[r][m] \in Table /\ reconnected[r][m] \in Nat
      BY DEF Shape, TypeOK, Table
    <3>2. Live(m) = TRUE /\ Met(m, r) /\ Live(m)' = TRUE
      BY <1>2, <1>4, <2>1 DEF Live, zyreVars, Node
    <3>3. Pair(c, known[r][m], reconnected[r][m], leaving[r] = m, TRUE)
      <4>1. PairAt(m, r)
        BY DEF Shape, Pairs
      <4> QED
        BY <4>1, <3>2 DEF PairAt
    <3>4. channel'[m][r] = c \o d /\ d \in Seq(Messages)
      <4>1. channel'[m][r] = c \o d
        BY <1>1, <2>1
      <4>2. d \in Seq(Messages)
        BY MessagesAre
      <4> QED
        BY <4>1, <4>2
    <3>5. Pair(c \o d, known[r][m], reconnected[r][m], leaving[r] = m, TRUE)
      <4>1. (leaving[r] = m) \in BOOLEAN /\ (c # <<>> \/ known[r][m] # "unknown")
        BY <3>2 DEF Met
      <4> HIDE DEF c
      <4> QED
        BY <3>1, <3>3, <4>1, PairReconnects, MessagesAre
    <3>6. PairAt(m, r)' = Pair(channel'[m][r], known'[r][m], reconnected'[r][m], (leaving[r] = m)', Live(m)')
      BY DEF PairAt
    <3>7. known'[r][m] = known[r][m] /\ reconnected'[r][m] = reconnected[r][m] /\ (leaving[r] = m)' = (leaving[r] = m)
      BY <1>2 DEF registryVars
    <3>8. Met(m, r)'
      <4>1. c # <<>> => c \o d # <<>>
        BY <3>1, <3>4, ConcatEmpty
      <4> QED
        BY <3>2, <3>4, <3>7, <4>1 DEF Met
    <3> HIDE DEF c, d
    <3> QED
      BY <3>2, <3>4, <3>5, <3>6, <3>7, <3>8
  <2>2. CASE ~(m = Node(p) /\ r = q)
    <3>1. Untouched(m, r)
      BY <1>1, <1>2, <2>2 DEF Untouched, registryVars
    <3> QED
      BY <1>2, <3>1, UntouchedKept DEF zyreVars
  <2> QED
    BY <2>1, <2>2
<1>6. Places'
  BY <1>2, <1>5, PlacesKept DEF zyreVars, Shape, Places, DownIsEmpty
<1>7. CarrierJoined'
  BY <1>2 DEF Shape, CarrierJoined, registryVars
<1> QED
  BY <1>3, <1>5, <1>6, <1>7 DEF Shape, Pairs

LEMMA ActivateShape ==
  ASSUME Shape, NEW a \in Agents, Activate(a)
  PROVE  Shape'
<1>1. UNCHANGED <<zyreVars, channel, registryVars, leaving, telling>>
  BY DEF Activate
<1>2. TypeOK'
  <2>1. churn' \in [Kinds -> Nat]
    BY ChurnType DEF Shape, Kinds, Activate
  <2>2. told' \in [Agents -> SUBSET Events]
    BY DEF Activate, Shape, TypeOK, Events
  <2>3. active' \subseteq Agents /\ needDef' \in [Agents -> BOOLEAN] /\ atRuntime' \in [Agents -> BOOLEAN]
    BY DEF Activate, Shape, TypeOK
  <2> QED
    BY <1>1, <2>1, <2>2, <2>3 DEF Shape, TypeOK, registryVars, zyreVars
<1>3. \A m \in Nodes, q \in Peers : Untouched(m, q)
  BY <1>1 DEF Untouched, registryVars
<1>4. Pairs' /\ Places'
  BY <1>1, <1>3, OnlySent DEF zyreVars, Shape, Places, DownIsEmpty
<1>5. CarrierJoined'
  BY <1>1 DEF Shape, CarrierJoined, registryVars
<1> QED
  BY <1>2, <1>4, <1>5 DEF Shape

LEMMA DeactivateShape ==
  ASSUME Shape, NEW a \in Agents, Deactivate(a)
  PROVE  Shape'
<1>1. UNCHANGED <<needDef, atRuntime, zyreVars, registryVars, leaving, telling>>
  BY DEF Deactivate
<1>2. /\ channel' \in Channels
      /\ \A m \in Nodes, q \in Peers :
           channel'[m][q] = IF /\ up[Home[a]] /\ m = Node(Home[a]) /\ up[q]
                               /\ Node(q) \in Linked(Node(Home[a]))
                            THEN channel[m][q] \o <<AgentExit(a)>> ELSE channel[m][q]
  <2>1. channel \in Channels /\ UpIsNode
    BY DEF Shape, TypeOK, Places, Channels
  <2> QED
    BY <2>1, DeactivateSends
<1>3. TypeOK'
  <2>1. churn' \in [Kinds -> Nat]
    BY ChurnType DEF Shape, Kinds, Deactivate
  <2>2. told' \in [Agents -> SUBSET Events]
    BY DEF Deactivate, Shape, TypeOK
  <2>3. active' \subseteq Agents
    BY DEF Deactivate, Shape, TypeOK
  <2> QED
    BY <1>1, <1>2, <2>1, <2>2, <2>3 DEF Shape, TypeOK, registryVars, zyreVars, Channels
<1>4. <<AgentExit(a)>> \in Seq(Messages) /\ NoExit(<<AgentExit(a)>>)
  <2>1. AgentExit(a) \in Messages /\ AgentExit(a).type # "EXIT"
    BY MessagesAre
  <2> QED
    BY <2>1 DEF NoExit
<1>5. \A m \in Nodes, q \in Peers : Untouched(m, q)
  <2> SUFFICES ASSUME NEW m \in Nodes, NEW q \in Peers PROVE Untouched(m, q)
    OBVIOUS
  <2>1. CASE channel'[m][q] = channel[m][q]
    BY <1>1, <2>1 DEF Untouched, registryVars
  <2>2. CASE channel'[m][q] # channel[m][q]
    <3>1. up[q] /\ Node(q) \in Linked(m) /\ channel'[m][q] = channel[m][q] \o <<AgentExit(a)>>
      BY <1>2, <2>2
    <3>2. Live(m) /\ Met(m, q)
      BY <3>1, LinkedMeet
    <3> QED
      BY <1>1, <1>4, <3>1, <3>2 DEF Untouched, registryVars
  <2> QED
    BY <2>1, <2>2
<1>6. Pairs' /\ Places'
  BY <1>1, <1>5, OnlySent DEF zyreVars, Shape, Places, DownIsEmpty
<1>7. CarrierJoined'
  BY <1>1 DEF Shape, CarrierJoined, registryVars
<1> QED
  BY <1>3, <1>6, <1>7 DEF Shape

LEMMA SendDefinitionShape ==
  ASSUME Shape, NEW a \in Agents, SendDefinition(a)
  PROVE  Shape'
<1>1. UNCHANGED <<active, zyreVars, registryVars, leaving, telling, told, churn>>
  BY DEF SendDefinition
<1>2. /\ channel' \in Channels
      /\ \A m \in Nodes, q \in Peers :
           channel'[m][q] = IF /\ m = Node(Home[a]) /\ up[q] /\ Node(q) \in Linked(Node(Home[a]))
                               /\ known[Home[a]][Node(q)] = "joined"
                            THEN channel[m][q] \o <<Definition(a, atRuntime[a])>>
                            ELSE channel[m][q]
  <2>1. channel \in Channels /\ UpIsNode /\ atRuntime \in [Agents -> BOOLEAN]
    BY DEF Shape, TypeOK, Places, Channels
  <2> QED
    BY <2>1, SendDefinitionSends
<1>3. TypeOK'
  <2>1. needDef' \in [Agents -> BOOLEAN] /\ atRuntime' \in [Agents -> BOOLEAN]
    BY DEF SendDefinition, Shape, TypeOK
  <2> QED
    BY <1>1, <1>2, <2>1 DEF Shape, TypeOK, registryVars, zyreVars, Channels
<1>4. <<Definition(a, atRuntime[a])>> \in Seq(Messages) /\ NoExit(<<Definition(a, atRuntime[a])>>)
  <2>1. Definition(a, atRuntime[a]) \in Messages /\ Definition(a, atRuntime[a]).type # "EXIT"
    BY MessagesAre DEF Shape, TypeOK
  <2> QED
    BY <2>1 DEF NoExit
<1>5. \A m \in Nodes, q \in Peers : Untouched(m, q)
  <2> SUFFICES ASSUME NEW m \in Nodes, NEW q \in Peers PROVE Untouched(m, q)
    OBVIOUS
  <2>1. CASE channel'[m][q] = channel[m][q]
    BY <1>1, <2>1 DEF Untouched, registryVars
  <2>2. CASE channel'[m][q] # channel[m][q]
    <3>1. /\ up[q] /\ Node(q) \in Linked(m)
          /\ channel'[m][q] = channel[m][q] \o <<Definition(a, atRuntime[a])>>
      BY <1>2, <2>2
    <3>2. Live(m) /\ Met(m, q)
      BY <3>1, LinkedMeet
    <3> QED
      BY <1>1, <1>4, <3>1, <3>2 DEF Untouched, registryVars
  <2> QED
    BY <2>1, <2>2
<1>6. Pairs' /\ Places'
  BY <1>1, <1>5, OnlySent DEF zyreVars, Shape, Places, DownIsEmpty
<1>7. CarrierJoined'
  BY <1>1 DEF Shape, CarrierJoined, registryVars
<1> QED
  BY <1>3, <1>6, <1>7 DEF Shape

LEMMA RecvEnterShape ==
  ASSUME Shape, NEW n \in Nodes, NEW p \in Peers, RecvEnter(n, p)
  PROVE  Shape'
<1>1. /\ UNCHANGED <<agentVars, zyreVars, remotes, leaving, telling, told, churn>>
      /\ channel' = Rest(n, p)
  BY DEF RecvEnter
<1> DEFINE c == channel[n][p]
           k == known[p][n]
           r == reconnected[p][n]
<1>2. /\ channel \in Channels /\ c \in Seq(Messages) /\ c # <<>> /\ c[1].type = "ENTER"
      /\ leaving[p] # n /\ Met(n, p) /\ k \in Table /\ r \in Nat /\ Live(n) \in BOOLEAN
      /\ Pair(c, k, r, FALSE, Live(n))
  <2>1. Next1(n, p, "ENTER")
    BY DEF RecvEnter
  <2> HIDE DEF c, k, r
  <2>2. /\ channel \in Channels /\ c \in Seq(Messages) /\ c # <<>>
        /\ leaving[p] # n /\ Met(n, p) /\ n[1] # p /\ up[p]
    BY <2>1, Handling DEF c
  <2>4. c[1].type = "ENTER"
    <3>1. Head(c) = c[1]
      BY <2>2, TailIs
    <3>2. Head(c).type = "ENTER"
      BY <2>1 DEF Next1, c
    <3> QED
      BY <3>1, <3>2
  <2>3. /\ k \in Table /\ r \in Nat /\ Live(n) \in BOOLEAN
        /\ Pair(c, k, r, FALSE, Live(n))
    BY <2>1, Handling DEF c, k, r
  <2> QED
    BY <2>2, <2>3, <2>4
<1>3. /\ channel' \in Channels
      /\ \A m \in Nodes, q \in Peers :
           channel'[m][q] = IF m = n /\ q = p THEN Tail(channel[n][p]) ELSE channel[m][q]
  BY <1>1, <1>2, RestIs
<1>4. IF k = "unknown"
      THEN known' = [known EXCEPT ![p][n] = "entered"] /\ UNCHANGED reconnected
      ELSE reconnected' = [reconnected EXCEPT ![p][n] = @ + 1] /\ UNCHANGED known
  BY DEF RecvEnter
<1>5. /\ known' \in [Peers -> [Nodes -> Table]] /\ reconnected' \in [Peers -> [Nodes -> Nat]]
      /\ known'[p][n] = (IF k = "unknown" THEN "entered" ELSE k)
      /\ reconnected'[p][n] = (IF k = "unknown" THEN r ELSE r + 1)
      /\ \A m \in Nodes, q \in Peers : (m = n /\ q = p) \/
           (known'[q][m] = known[q][m] /\ reconnected'[q][m] = reconnected[q][m])
  <2>1. known \in [Peers -> [Nodes -> Table]] /\ reconnected \in [Peers -> [Nodes -> Nat]]
    BY DEF Shape, TypeOK, Table
  <2>2. CASE k = "unknown"
    <3>1. known' = [known EXCEPT ![p][n] = "entered"] /\ UNCHANGED reconnected
      BY <1>4, <2>2
    <3>2. "entered" \in Table
      BY DEF Table
    <3> QED
      BY <3>1, <3>2, <2>1, <2>2
  <2>3. CASE k # "unknown"
    <3>1. UNCHANGED known /\ reconnected' = [reconnected EXCEPT ![p][n] = r + 1] /\ r + 1 \in Nat
      BY <1>2, <1>4, <2>3
    <3> HIDE DEF r
    <3> QED
      BY <3>1, <2>1, <2>3
  <2> QED
    BY <2>2, <2>3
<1>6. TypeOK'
  BY <1>1, <1>3, <1>5 DEF Shape, TypeOK, Channels, Table, agentVars, zyreVars
<1>7. \A m \in Nodes, q \in Peers : (m = n /\ q = p) \/ Untouched(m, q)
  BY <1>1, <1>3, <1>5 DEF Untouched
<1>8. known'[p][n] # "unknown"
  BY <1>5
<1>9. PairAt(n, p)'
  <2>1. PairAt(n, p)' = Pair(channel'[n][p], known'[p][n], reconnected'[p][n], (leaving[p] = n)', Live(n)')
    BY DEF PairAt
  <2>2. (leaving[p] = n)' = FALSE /\ Live(n)' = Live(n)
    BY <1>1, <1>2 DEF Live, Node, zyreVars
  <2>3. channel'[n][p] = Tail(c)
    BY <1>3
  <2> HIDE DEF c, k, r
  <2>4. /\ k = "unknown" => Pair(Tail(c), "entered", r, FALSE, Live(n))
        /\ k # "unknown" => Pair(Tail(c), k, r + 1, FALSE, Live(n))
    BY <1>2, PairEntered
  <2> QED
    BY <1>5, <2>1, <2>2, <2>3, <2>4
<1>10. Pairs' /\ Places'
  <2>1. \A q \in Peers : ~up[q] => telling'[q] = <<>>
    BY <1>1 DEF Shape, Places, DownIsEmpty
  <2>2. UNCHANGED <<up, started, links>>
    BY <1>1 DEF zyreVars
  <2> QED
    BY <1>2, <1>7, <1>8, <1>9, <2>1, <2>2, Received
<1>11. CarrierJoined'
  <2>1. \A q \in Peers, m \in Nodes : known[q][m] = "joined" => known'[q][m] = "joined"
    BY <1>5
  <2>2. \A q \in Peers, a \in Agents : remotes'[q][a] \in {None, remotes[q][a]}
    BY <1>1
  <2> QED
    BY <2>1, <2>2, CarriersKept
<1> QED
  BY <1>6, <1>10, <1>11 DEF Shape

LEMMA RecvJoinShape ==
  ASSUME Shape, NEW n \in Nodes, NEW p \in Peers, RecvJoin(n, p)
  PROVE  Shape'
<1>1. UNCHANGED <<agentVars, zyreVars, reconnected, remotes, leaving, telling, told, churn>>
  BY DEF RecvJoin
<1> DEFINE c == channel[n][p]
           k == known[p][n]
           r == reconnected[p][n]
<1>2. /\ channel \in Channels /\ c \in Seq(Messages) /\ c # <<>> /\ c[1].type = "JOIN"
      /\ leaving[p] # n /\ Met(n, p) /\ k \in Table /\ r \in Nat /\ Live(n) \in BOOLEAN
      /\ Pair(c, k, r, FALSE, Live(n)) /\ n[1] # p /\ up[p]
  <2>1. Next1(n, p, "JOIN")
    BY DEF RecvJoin
  <2> HIDE DEF c, k, r
  <2>2. /\ channel \in Channels /\ c \in Seq(Messages) /\ c # <<>>
        /\ leaving[p] # n /\ Met(n, p) /\ n[1] # p /\ up[p]
    BY <2>1, Handling DEF c
  <2>4. c[1].type = "JOIN"
    <3>1. Head(c) = c[1]
      BY <2>2, TailIs
    <3>2. Head(c).type = "JOIN"
      BY <2>1 DEF Next1, c
    <3> QED
      BY <3>1, <3>2
  <2>3. /\ k \in Table /\ r \in Nat /\ Live(n) \in BOOLEAN
        /\ Pair(c, k, r, FALSE, Live(n))
    BY <2>1, Handling DEF c, k, r
  <2> QED
    BY <2>2, <2>3, <2>4
<1>3. /\ channel' \in Channels
      /\ \E list : /\ Announcement(p, list)
                   /\ \A m \in Nodes, q \in Peers :
                        channel'[m][q] =
                          IF m = n /\ q = p THEN Tail(channel[n][p])
                          ELSE IF m = Node(p) /\ up[q] /\ Node(q) = n /\ n \in Linked(Node(p))
                          THEN channel[m][q] \o list ELSE channel[m][q]
  <2>1. UpIsNode /\ active \subseteq Agents
    BY DEF Shape, Places, TypeOK
  <2> QED
    BY <1>2, <2>1, RecvJoinSends
<1>4. PICK list : /\ Announcement(p, list)
                  /\ \A m \in Nodes, q \in Peers :
                       channel'[m][q] =
                         IF m = n /\ q = p THEN Tail(channel[n][p])
                         ELSE IF m = Node(p) /\ up[q] /\ Node(q) = n /\ n \in Linked(Node(p))
                         THEN channel[m][q] \o list ELSE channel[m][q]
  BY <1>3
<1>5. /\ known' \in [Peers -> [Nodes -> Table]] /\ known'[p][n] = "joined"
      /\ \A m \in Nodes, q \in Peers : (m = n /\ q = p) \/ known'[q][m] = known[q][m]
  <2>1. known \in [Peers -> [Nodes -> Table]] /\ known' = [known EXCEPT ![p][n] = "joined"]
    BY DEF Shape, TypeOK, Table, RecvJoin
  <2> QED
    BY <2>1 DEF Table
<1>6. TypeOK'
  BY <1>1, <1>3, <1>5 DEF Shape, TypeOK, Channels, Table, agentVars, zyreVars
<1>7. list \in Seq(Messages) /\ NoExit(list)
  <2>1. ASSUME NEW i \in 1..Len(list) PROVE list[i].type # "EXIT"
    <3>1. PICK a \in NewcomerAgents(p) : list[i] = Definition(a, FALSE)
      BY <1>4 DEF Announcement
    <3>2. a \in Agents
      BY <3>1 DEF NewcomerAgents, On
    <3> QED
      BY <3>1, <3>2, MessagesAre
  <2> QED
    BY <1>4, <2>1 DEF Announcement, NoExit
<1>8. \A m \in Nodes, q \in Peers : (m = n /\ q = p) \/ Untouched(m, q)
  <2> SUFFICES ASSUME NEW m \in Nodes, NEW q \in Peers, ~(m = n /\ q = p) PROVE Untouched(m, q)
    OBVIOUS
  <2>1. CASE channel'[m][q] = channel[m][q]
    BY <1>1, <1>5, <2>1 DEF Untouched
  <2>2. CASE channel'[m][q] # channel[m][q]
    <3>1. /\ up[q] /\ Node(q) \in Linked(m)
          /\ channel'[m][q] = channel[m][q] \o list
      BY <1>4, <2>2
    <3>2. Live(m) /\ Met(m, q)
      BY <3>1, LinkedMeet
    <3> QED
      BY <1>1, <1>5, <1>7, <3>1, <3>2 DEF Untouched
  <2> QED
    BY <2>1, <2>2
<1>9. PairAt(n, p)'
  <2>1. PairAt(n, p)' = Pair(channel'[n][p], known'[p][n], reconnected'[p][n], (leaving[p] = n)', Live(n)')
    BY DEF PairAt
  <2>2. (leaving[p] = n)' = FALSE /\ Live(n)' = Live(n) /\ reconnected'[p][n] = r
    BY <1>1, <1>2 DEF Live, Node, zyreVars
  <2>3. channel'[n][p] = Tail(c)
    BY <1>4
  <2> HIDE DEF c, k, r
  <2>4. Pair(Tail(c), "joined", r, FALSE, Live(n))
    BY <1>2, PairJoined
  <2> QED
    BY <1>5, <2>1, <2>2, <2>3, <2>4
<1>10. Pairs' /\ Places'
  <2>1. \A q \in Peers : ~up[q] => telling'[q] = <<>>
    BY <1>1 DEF Shape, Places, DownIsEmpty
  <2>2. UNCHANGED <<up, started, links>> /\ known'[p][n] # "unknown"
    BY <1>1, <1>5 DEF zyreVars
  <2> QED
    BY <1>2, <1>8, <1>9, <2>1, <2>2, Received
<1>11. CarrierJoined'
  <2>1. \A q \in Peers, m \in Nodes : known[q][m] = "joined" => known'[q][m] = "joined"
    BY <1>5
  <2>2. \A q \in Peers, a \in Agents : remotes'[q][a] \in {None, remotes[q][a]}
    BY <1>1
  <2> QED
    BY <2>1, <2>2, CarriersKept
<1> QED
  BY <1>6, <1>10, <1>11 DEF Shape

LEMMA PairTaken ==
  ASSUME Shape, NEW n \in Nodes, NEW p \in Peers, NEW type, Next1(n, p, type),
         type \notin {"ENTER", "JOIN", "EXIT"}
  PROVE  /\ known[p][n] = "joined"
         /\ Pair(Tail(channel[n][p]), known[p][n], reconnected[p][n], FALSE, Live(n))
<1> DEFINE c == channel[n][p]
           k == known[p][n]
           r == reconnected[p][n]
<1>1. /\ c \in Seq(Messages) /\ c # <<>> /\ c[1].type \notin {"ENTER", "JOIN", "EXIT"}
      /\ k \in Table /\ r \in Nat /\ Live(n) \in BOOLEAN /\ Pair(c, k, r, FALSE, Live(n))
  <2>1. c \in Seq(Messages) /\ c # <<>>
    BY Handling
  <2>2. c[1].type \notin {"ENTER", "JOIN", "EXIT"}
    <3>1. Head(c).type = type
      BY DEF Next1
    <3>2. Head(c) = c[1]
      <4> HIDE DEF c
      <4> QED
        BY <2>1, TailIs
    <3> QED
      BY <3>1, <3>2
  <2>3. k \in Table /\ r \in Nat /\ Live(n) \in BOOLEAN /\ Pair(c, k, r, FALSE, Live(n))
    BY Handling
  <2> QED
    BY <2>1, <2>2, <2>3
<1> HIDE DEF c, k, r
<1>2. k = "joined" /\ Pair(Tail(c), k, r, FALSE, Live(n))
  BY <1>1, PairReceived
<1> QED
  BY <1>2 DEF c, k, r

\* The reception of a message of ingescape that touches neither the table of
\* peers nor the one that leaves.
LEMMA MessageShape ==
  ASSUME Shape, NEW n \in Nodes, NEW p \in Peers, NEW type, Next1(n, p, type),
         type \notin {"ENTER", "JOIN", "EXIT"},
         UNCHANGED <<agentVars, zyreVars, known, reconnected, leaving, churn>>,
         channel' \in Channels, channel'[n][p] = Tail(channel[n][p]),
         \A m \in Nodes, q \in Peers : (m = n /\ q = p) \/ Untouched(m, q),
         remotes' \in [Peers -> [Agents -> Nodes \cup {None}]],
         \A q \in Peers, r \in Agents :
           remotes'[q][r] \in {None, remotes[q][r]} \/ (q = p /\ remotes'[q][r] = n),
         telling' \in [Peers -> Seq(Events)], \A q \in Peers : q = p \/ telling'[q] = telling[q],
         told' \in [Agents -> SUBSET Events]
  PROVE  Shape' /\ known[p][n] = "joined"
<1> DEFINE c == channel[n][p]
           k == known[p][n]
           r == reconnected[p][n]
<1>2. /\ channel \in Channels /\ c \in Seq(Messages) /\ c # <<>>
      /\ c[1].type \notin {"ENTER", "JOIN", "EXIT"}
      /\ leaving[p] # n /\ Met(n, p) /\ k \in Table /\ r \in Nat /\ Live(n) \in BOOLEAN
      /\ Pair(c, k, r, FALSE, Live(n)) /\ n[1] # p /\ up[p]
  BY Handling
<1>3. TypeOK'
  BY DEF Shape, TypeOK, Channels, agentVars, zyreVars
<1>4. k = "joined" /\ Pair(Tail(c), k, r, FALSE, Live(n))
  BY PairTaken
<1>5. PairAt(n, p)'
  <2>1. PairAt(n, p)' = Pair(channel'[n][p], known'[p][n], reconnected'[p][n], (leaving[p] = n)', Live(n)')
    BY DEF PairAt
  <2>2. /\ (leaving[p] = n)' = FALSE /\ Live(n)' = Live(n) /\ reconnected'[p][n] = r
        /\ known'[p][n] = k /\ channel'[n][p] = Tail(c)
    BY <1>2 DEF Live, Node, zyreVars
  <2> HIDE DEF c, k, r
  <2> QED
    BY <1>4, <2>1, <2>2
<1>6. Pairs' /\ Places'
  <2>1. \A q \in Peers : ~up[q] => telling'[q] = <<>>
    BY <1>2 DEF Shape, Places, DownIsEmpty
  <2>2. UNCHANGED <<up, started, links>> /\ known'[p][n] # "unknown"
    BY <1>4 DEF zyreVars
  <2> QED
    BY <1>2, <1>5, <2>1, <2>2, Received
<1>7. CarrierJoined'
  <2>1. \A q \in Peers, m \in Nodes : known[q][m] = "joined" => known'[q][m] = "joined"
    OBVIOUS
  <2>2. ASSUME NEW q \in Peers, NEW a \in Agents
        PROVE  remotes'[q][a] \in {None, remotes[q][a]} \/ known'[q][remotes'[q][a]] = "joined"
    BY <1>4
  <2> QED
    BY <2>1, <2>2, CarriersKept
<1> QED
  BY <1>3, <1>4, <1>6, <1>7 DEF Shape

LEMMA RecvDefinitionShape ==
  ASSUME Shape, NEW n \in Nodes, NEW p \in Peers, RecvDefinition(n, p)
  PROVE  Shape' /\ known[p][n] = "joined"
<1> DEFINE r == Head(channel[n][p]).agent
           b == Head(channel[n][p]).runtime
<1>1. /\ UNCHANGED <<agentVars, zyreVars, known, reconnected, leaving, told, churn>>
      /\ Next1(n, p, "DEFINITION")
  BY DEF RecvDefinition
<1>2. /\ channel \in Channels /\ channel[n][p] # <<>> /\ n[1] # p
  BY <1>1, Handling
<1>3. /\ channel' \in Channels /\ r \in Agents
      /\ \A m \in Nodes, q \in Peers :
           channel'[m][q] =
             IF m = n /\ q = p THEN Tail(channel[n][p])
             ELSE IF /\ remotes[p][r] = None
                     /\ m = Node(p) /\ up[q] /\ Node(q) = n /\ n \in Linked(Node(p))
             THEN channel[m][q] \o <<Knows(r)>> ELSE channel[m][q]
  <2>1. UpIsNode
    BY DEF Shape, Places
  <2> QED
    BY <1>2, <2>1, RecvDefinitionSends
<1>4. IF remotes[p][r] = None
      THEN /\ remotes' = [remotes EXCEPT ![p][r] = n]
           /\ telling' = [telling EXCEPT ![p] = IF b THEN <<<<"ENTERED", r>>, <<"KNOWS_US", r>>>>
                                                ELSE <<<<"ENTERED", r>>>>]
      ELSE UNCHANGED <<remotes, telling>>
  BY DEF RecvDefinition
<1> HIDE DEF r, b
<1>5. <<Knows(r)>> \in Seq(Messages) /\ NoExit(<<Knows(r)>>)
  <2>1. Knows(r) \in Messages /\ Knows(r).type # "EXIT"
    BY <1>3, MessagesAre
  <2> QED
    BY <2>1 DEF NoExit
<1>6. \A m \in Nodes, q \in Peers : (m = n /\ q = p) \/ Untouched(m, q)
  <2> SUFFICES ASSUME NEW m \in Nodes, NEW q \in Peers, ~(m = n /\ q = p) PROVE Untouched(m, q)
    OBVIOUS
  <2>1. CASE channel'[m][q] = channel[m][q]
    BY <1>1, <2>1 DEF Untouched
  <2>2. CASE channel'[m][q] # channel[m][q]
    <3>1. /\ up[q] /\ Node(q) \in Linked(m)
          /\ channel'[m][q] = channel[m][q] \o <<Knows(r)>>
      BY <1>3, <2>2
    <3>2. Live(m) /\ Met(m, q)
      BY <3>1, LinkedMeet
    <3> QED
      BY <1>1, <1>5, <3>1, <3>2 DEF Untouched
  <2> QED
    BY <2>1, <2>2
<1>7. /\ remotes' \in [Peers -> [Agents -> Nodes \cup {None}]]
      /\ \A q \in Peers, a \in Agents :
           remotes'[q][a] \in {None, remotes[q][a]} \/ (q = p /\ remotes'[q][a] = n)
  <2>1. remotes \in [Peers -> [Agents -> Nodes \cup {None}]]
    BY DEF Shape, TypeOK
  <2> QED
    BY <1>3, <1>4, <2>1
<1>8. telling' \in [Peers -> Seq(Events)] /\ \A q \in Peers : q = p \/ telling'[q] = telling[q]
  <2>1. telling \in [Peers -> Seq(Events)]
    BY DEF Shape, TypeOK
  <2>2. <<<<"ENTERED", r>>, <<"KNOWS_US", r>>>> \in Seq(Events) /\ <<<<"ENTERED", r>>>> \in Seq(Events)
    BY <1>3 DEF Events
  <2> QED
    BY <1>4, <2>1, <2>2
<1>9. told' \in [Agents -> SUBSET Events]
  BY <1>1 DEF Shape, TypeOK
<1>10. UNCHANGED <<agentVars, zyreVars, known, reconnected, leaving, churn>> /\ channel'[n][p] = Tail(channel[n][p])
  BY <1>1, <1>3
<1> QED
  BY <1>1, <1>3, <1>6, <1>7, <1>8, <1>9, <1>10, MessageShape

LEMMA RecvKnowsShape ==
  ASSUME Shape, NEW n \in Nodes, NEW p \in Peers, RecvKnows(n, p)
  PROVE  Shape' /\ known[p][n] = "joined"
<1>1. /\ UNCHANGED <<agentVars, zyreVars, registryVars, leaving, telling, churn>>
      /\ Next1(n, p, "KNOWS") /\ channel' = Rest(n, p)
  BY DEF RecvKnows
<1>2. channel \in Channels /\ channel[n][p] # <<>>
  BY <1>1, Handling
<1>3. /\ channel' \in Channels
      /\ \A m \in Nodes, q \in Peers :
           channel'[m][q] = IF m = n /\ q = p THEN Tail(channel[n][p]) ELSE channel[m][q]
  BY <1>1, <1>2, RestIs
<1>4. \A m \in Nodes, q \in Peers : (m = n /\ q = p) \/ Untouched(m, q)
  BY <1>1, <1>3 DEF Untouched, registryVars
<1>5. told' \in [Agents -> SUBSET Events]
  BY DEF RecvKnows, Tells, Shape, TypeOK, Events
<1>6. /\ remotes' \in [Peers -> [Agents -> Nodes \cup {None}]]
      /\ \A q \in Peers, r \in Agents : remotes'[q][r] \in {None, remotes[q][r]}
      /\ telling' \in [Peers -> Seq(Events)] /\ \A q \in Peers : telling'[q] = telling[q]
  BY <1>1 DEF Shape, TypeOK, registryVars
<1>7. UNCHANGED <<agentVars, zyreVars, known, reconnected, leaving, churn>> /\ channel'[n][p] = Tail(channel[n][p])
  BY <1>1, <1>3 DEF registryVars
<1> QED
  BY <1>1, <1>3, <1>4, <1>5, <1>6, <1>7, MessageShape

LEMMA RecvAgentExitShape ==
  ASSUME Shape, NEW n \in Nodes, NEW p \in Peers, RecvAgentExit(n, p)
  PROVE  Shape' /\ known[p][n] = "joined" /\ Head(channel[n][p]).agent \in Agents
<1> DEFINE r == Head(channel[n][p]).agent
<1>1. /\ UNCHANGED <<agentVars, zyreVars, known, reconnected, leaving, told, churn>>
      /\ Next1(n, p, "AGENT_EXIT") /\ channel' = Rest(n, p)
  BY DEF RecvAgentExit
<1>2. channel \in Channels /\ channel[n][p] # <<>> /\ r \in Agents
  <2>1. Head(channel[n][p]) \in Messages /\ channel \in Channels /\ channel[n][p] # <<>>
    BY <1>1, Handling
  <2>2. Head(channel[n][p]).type = "AGENT_EXIT"
    BY <1>1 DEF Next1
  <2> QED
    BY <2>1, <2>2, MessageAgent
<1>3. /\ channel' \in Channels
      /\ \A m \in Nodes, q \in Peers :
           channel'[m][q] = IF m = n /\ q = p THEN Tail(channel[n][p]) ELSE channel[m][q]
  BY <1>1, <1>2, RestIs
<1>4. \A m \in Nodes, q \in Peers : (m = n /\ q = p) \/ Untouched(m, q)
  BY <1>1, <1>3 DEF Untouched
<1>5. told' \in [Agents -> SUBSET Events]
  BY <1>1 DEF Shape, TypeOK
<1>6. IF remotes[p][r] # None
      THEN /\ remotes' = [remotes EXCEPT ![p][r] = None]
           /\ telling' = [telling EXCEPT ![p] = <<<<"EXITED", r>>>>]
      ELSE UNCHANGED <<remotes, telling>>
  BY DEF RecvAgentExit
<1> HIDE DEF r
<1>7. /\ remotes' \in [Peers -> [Agents -> Nodes \cup {None}]]
      /\ \A q \in Peers, a \in Agents : remotes'[q][a] \in {None, remotes[q][a]}
  <2>1. remotes \in [Peers -> [Agents -> Nodes \cup {None}]]
    BY DEF Shape, TypeOK
  <2> QED
    BY <1>2, <1>6, <2>1
<1>8. telling' \in [Peers -> Seq(Events)] /\ \A q \in Peers : q = p \/ telling'[q] = telling[q]
  <2>1. telling \in [Peers -> Seq(Events)]
    BY DEF Shape, TypeOK
  <2>2. <<<<"EXITED", r>>>> \in Seq(Events)
    BY <1>2 DEF Events
  <2> QED
    BY <1>6, <2>1, <2>2
<1>9. UNCHANGED <<agentVars, zyreVars, known, reconnected, leaving, churn>> /\ channel'[n][p] = Tail(channel[n][p])
  BY <1>1, <1>3
<1>10. Shape' /\ known[p][n] = "joined"
  BY <1>1, <1>3, <1>4, <1>5, <1>7, <1>8, <1>9, MessageShape
<1> QED
  BY <1>2, <1>10 DEF r

LEMMA RecvExitShape ==
  ASSUME Shape, NEW n \in Nodes, NEW p \in Peers, RecvExit(n, p)
  PROVE  Shape'
<1>1. /\ UNCHANGED <<agentVars, zyreVars, known, remotes, telling, told, churn>>
      /\ channel' = Rest(n, p) /\ Next1(n, p, "EXIT")
  BY DEF RecvExit
<1> DEFINE c == channel[n][p]
           k == known[p][n]
           r == reconnected[p][n]
<1>2. /\ channel \in Channels /\ c \in Seq(Messages) /\ c # <<>> /\ c[1].type = "EXIT"
      /\ leaving[p] = None /\ leaving[p] # n /\ Met(n, p) /\ up[p]
      /\ k \in Table /\ r \in Nat /\ Live(n) \in BOOLEAN
      /\ Pair(c, k, r, FALSE, Live(n))
  <2> HIDE DEF c, k, r
  <2>1. /\ channel \in Channels /\ c \in Seq(Messages) /\ c # <<>>
        /\ leaving[p] = None /\ leaving[p] # n /\ Met(n, p) /\ up[p]
    BY <1>1, Handling DEF c
  <2>2. /\ k \in Table /\ r \in Nat /\ Live(n) \in BOOLEAN
        /\ Pair(c, k, r, FALSE, Live(n))
    BY <1>1, Handling DEF c, k, r
  <2>3. c[1].type = "EXIT"
    <3>1. Head(c) = c[1]
      BY <2>1, TailIs
    <3>2. Head(c).type = "EXIT"
      BY <1>1 DEF Next1, c
    <3> QED
      BY <3>1, <3>2
  <2> QED
    BY <2>1, <2>2, <2>3
<1>3. /\ channel' \in Channels
      /\ \A m \in Nodes, q \in Peers :
           channel'[m][q] = IF m = n /\ q = p THEN Tail(channel[n][p]) ELSE channel[m][q]
  BY <1>1, <1>2, RestIs
<1>4. /\ k = "joined"
      /\ r > 0 => Pair(Tail(c), k, r - 1, FALSE, Live(n))
      /\ r = 0 => ~Live(n) /\ Pair(Tail(c), k, r, TRUE, Live(n))
  <2> HIDE DEF c, k, r
  <2> QED
    BY <1>2, PairExited
<1>5. IF r > 0
      THEN reconnected' = [reconnected EXCEPT ![p][n] = r - 1] /\ UNCHANGED leaving
      ELSE leaving' = [leaving EXCEPT ![p] = n] /\ UNCHANGED reconnected
  BY <1>4 DEF RecvExit, Survives
<1>6. /\ reconnected' \in [Peers -> [Nodes -> Nat]] /\ leaving' \in [Peers -> Nodes \cup {None}]
      /\ reconnected'[p][n] = (IF r > 0 THEN r - 1 ELSE r)
      /\ leaving'[p] = (IF r > 0 THEN None ELSE n)
      /\ \A m \in Nodes, q \in Peers : (m = n /\ q = p) \/
           (reconnected'[q][m] = reconnected[q][m] /\ (leaving'[q] = m) = (leaving[q] = m))
  <2>1. reconnected \in [Peers -> [Nodes -> Nat]] /\ leaving \in [Peers -> Nodes \cup {None}]
    BY DEF Shape, TypeOK
  <2>2. r > 0 => r - 1 \in Nat
    BY <1>2
  <2> HIDE DEF r
  <2>3. CASE r > 0
    <3>1. reconnected' = [reconnected EXCEPT ![p][n] = r - 1] /\ UNCHANGED leaving
      BY <1>5, <2>3
    <3>2. /\ reconnected' \in [Peers -> [Nodes -> Nat]] /\ reconnected'[p][n] = r - 1
          /\ \A m \in Nodes, q \in Peers : (m = n /\ q = p) \/ reconnected'[q][m] = reconnected[q][m]
      BY <3>1, <2>1, <2>2, <2>3
    <3>3. leaving' \in [Peers -> Nodes \cup {None}] /\ leaving'[p] = None
      BY <1>2, <2>1, <3>1
    <3> QED
      BY <3>1, <3>2, <3>3, <2>3
  <2>4. CASE ~(r > 0)
    <3>1. leaving' = [leaving EXCEPT ![p] = n] /\ UNCHANGED reconnected /\ reconnected[p][n] = r
      BY <1>5, <2>4 DEF r
    <3> QED
      BY <1>2, <2>1, <2>4, <3>1, NodesAre
  <2> QED
    BY <2>3, <2>4
<1>7. TypeOK'
  BY <1>1, <1>3, <1>6 DEF Shape, TypeOK, Channels, agentVars, zyreVars
<1>8. \A m \in Nodes, q \in Peers : (m = n /\ q = p) \/ Untouched(m, q)
  BY <1>1, <1>3, <1>6 DEF Untouched
<1>9. PairAt(n, p)'
  <2>1. PairAt(n, p)' = Pair(channel'[n][p], known'[p][n], reconnected'[p][n], (leaving[p] = n)', Live(n)')
    BY DEF PairAt
  <2>2. /\ channel'[n][p] = Tail(c) /\ known'[p][n] = k /\ Live(n)' = Live(n)
    BY <1>1, <1>3 DEF Live, Node, zyreVars
  <2>3. (leaving[p] = n)' = ~(r > 0)
    BY <1>6, NodesAre
  <2> HIDE DEF c, k, r
  <2>4. CASE r > 0
    <3>1. (leaving[p] = n)' = FALSE /\ reconnected'[p][n] = r - 1
      BY <1>6, <2>3, <2>4
    <3> QED
      BY <1>4, <2>1, <2>2, <2>4, <3>1
  <2>5. CASE ~(r > 0)
    <3>1. (leaving[p] = n)' = TRUE /\ reconnected'[p][n] = r /\ r = 0
      BY <1>2, <1>6, <2>3, <2>5
    <3> QED
      BY <1>4, <2>1, <2>2, <3>1
  <2> QED
    BY <2>4, <2>5
<1>10. Pairs' /\ Places'
  <2>1. \A q \in Peers : ~up[q] => telling'[q] = <<>>
    BY <1>1 DEF Shape, Places, DownIsEmpty
  <2>2. UNCHANGED <<up, started, links>> /\ known'[p][n] # "unknown"
    BY <1>1, <1>4 DEF zyreVars
  <2> QED
    BY <1>2, <1>8, <1>9, <2>1, <2>2, Received
<1>11. CarrierJoined'
  BY <1>1 DEF Shape, CarrierJoined
<1> QED
  BY <1>7, <1>10, <1>11 DEF Shape

LEMMA TellShape ==
  ASSUME Shape, NEW p \in Peers, Tell(p)
  PROVE  Shape'
<1>1. /\ UNCHANGED <<agentVars, zyreVars, channel, registryVars, leaving, churn>>
      /\ telling[p] # <<>> /\ telling' = [telling EXCEPT ![p] = Tail(@)]
  BY DEF Tell
<1>2. telling \in [Peers -> Seq(Events)] /\ Head(telling[p]) \in Events /\ Tail(telling[p]) \in Seq(Events)
  <2>1. telling \in [Peers -> Seq(Events)]
    BY DEF Shape, TypeOK
  <2> DEFINE t == telling[p]
  <2>2. t \in Seq(Events) /\ t # <<>>
    BY <1>1, <2>1
  <2> HIDE DEF t
  <2>3. Head(t) \in Events /\ Tail(t) \in Seq(Events)
    BY <2>2, TailIs
  <2> QED
    BY <2>1, <2>3 DEF t
<1>3. told' \in [Agents -> SUBSET Events]
  <2> DEFINE e == Head(telling[p])
  <2>1. told' = [a \in Agents |->
                   IF a \notin active \cap On(p) THEN told[a]
                   ELSE IF e[1] = "EXITED" THEN {x \in told[a] : x[2] # e[2]}
                   ELSE told[a] \cup {e}]
    BY DEF Tell
  <2>2. e \in Events /\ told \in [Agents -> SUBSET Events]
    BY <1>2 DEF Shape, TypeOK
  <2> HIDE DEF e
  <2> QED
    BY <2>1, <2>2
<1>4. telling' \in [Peers -> Seq(Events)]
  BY <1>1, <1>2
<1>5. TypeOK'
  BY <1>1, <1>3, <1>4 DEF Shape, TypeOK, agentVars, zyreVars, registryVars
<1>6. \A m \in Nodes, q \in Peers : Untouched(m, q)
  BY <1>1 DEF Untouched, registryVars
<1>7. \A q \in Peers : ~up[q] => telling'[q] = <<>>
  BY <1>1, <1>2 DEF Shape, Places, DownIsEmpty
<1>8. Pairs' /\ Places'
  BY <1>1, <1>6, <1>7, OnlySent DEF zyreVars
<1>9. CarrierJoined'
  BY <1>1 DEF Shape, CarrierJoined, registryVars
<1> QED
  BY <1>5, <1>8, <1>9 DEF Shape

LEMMA ExitStepShape ==
  ASSUME Shape, NEW p \in Peers, ExitStep(p)
  PROVE  Shape'
<1>0. PICK n \in Nodes : n = leaving[p]
  BY DEF ExitStep, Shape, TypeOK
<1>1. /\ UNCHANGED <<agentVars, zyreVars, channel, reconnected, told, churn>>
      /\ leaving[p] = n /\ telling[p] = <<>>
  BY <1>0 DEF ExitStep
<1>2. /\ known \in [Peers -> [Nodes -> Table]] /\ remotes \in [Peers -> [Agents -> Nodes \cup {None}]]
      /\ leaving \in [Peers -> Nodes \cup {None}] /\ telling \in [Peers -> Seq(Events)]
      /\ reconnected \in [Peers -> [Nodes -> Nat]]
  BY DEF Shape, TypeOK, Table
<1>3. ~Live(n) /\ channel[n][p] = <<>> /\ known[p][n] = "joined" /\ reconnected[p][n] = 0
  <2>1. PairAt(n, p)
    BY DEF Shape, Pairs
  <2> QED
    BY <1>1, <2>1 DEF PairAt, Pair
<1>4. up[p]
  <2>1. Met(n, p)
    BY <1>3 DEF Met
  <2> QED
    BY <1>1, <2>1 DEF Shape, Places, DownIsEmpty
<1>5. ASSUME NEW r \in Carried(p, n), remotes' = [remotes EXCEPT ![p][r] = None],
             telling' = [telling EXCEPT ![p] = <<<<"EXITED", r>>>>], UNCHANGED <<known, leaving>>
      PROVE  Shape'
  <2>1. r \in Agents
    BY <1>5 DEF Carried
  <2>2. remotes' \in [Peers -> [Agents -> Nodes \cup {None}]]
    BY <1>2, <1>5, <2>1
  <2>3. telling' \in [Peers -> Seq(Events)] /\ \A q \in Peers : q = p \/ telling'[q] = telling[q]
    <3>1. <<<<"EXITED", r>>>> \in Seq(Events)
      BY <2>1 DEF Events
    <3> QED
      BY <1>2, <1>5, <3>1
  <2>4. TypeOK'
    BY <1>1, <1>5, <2>2, <2>3 DEF Shape, TypeOK, agentVars, zyreVars
  <2>5. \A m \in Nodes, q \in Peers : Untouched(m, q)
    BY <1>1, <1>5 DEF Untouched
  <2>6. \A q \in Peers : ~up[q] => telling'[q] = <<>>
    BY <1>4, <2>3 DEF Shape, Places, DownIsEmpty
  <2>7. Pairs' /\ Places'
    BY <1>1, <2>5, <2>6, OnlySent DEF zyreVars
  <2>8. CarrierJoined'
    <3>1. \A q \in Peers, a \in Agents : remotes'[q][a] \in {None, remotes[q][a]}
      BY <1>2, <1>5, <2>1
    <3>2. \A q \in Peers, m \in Nodes : known[q][m] = "joined" => known'[q][m] = "joined"
      BY <1>5
    <3> QED
      BY <3>1, <3>2, CarriersKept
  <2> QED
    BY <2>4, <2>7, <2>8 DEF Shape
<1>6. ASSUME Carried(p, n) = {}, known' = [known EXCEPT ![p][n] = "unknown"],
             leaving' = [leaving EXCEPT ![p] = None], UNCHANGED <<remotes, telling>>
      PROVE  Shape'
  <2>1. /\ known' \in [Peers -> [Nodes -> Table]] /\ known'[p][n] = "unknown"
        /\ \A m \in Nodes, q \in Peers : (m = n /\ q = p) \/ known'[q][m] = known[q][m]
    BY <1>2, <1>6 DEF Table
  <2>2. /\ leaving' \in [Peers -> Nodes \cup {None}] /\ leaving'[p] = None
        /\ \A q \in Peers : q = p \/ leaving'[q] = leaving[q]
    BY <1>2, <1>6
  <2>3. TypeOK'
    BY <1>1, <1>6, <2>1, <2>2 DEF Shape, TypeOK, Table, agentVars, zyreVars
  <2>4. ASSUME NEW m \in Nodes, NEW q \in Peers, ~(m = n /\ q = p) PROVE Untouched(m, q)
    <3>1. (leaving'[q] = m) = (leaving[q] = m)
      BY <1>1, <2>2, <2>4, NodesAre
    <3>2. known'[q][m] = known[q][m] /\ reconnected'[q][m] = reconnected[q][m] /\ channel'[m][q] = channel[m][q]
      BY <1>1, <2>1, <2>4
    <3> QED
      BY <3>1, <3>2 DEF Untouched
  <2>5. PairAt(n, p)' /\ ~Met(n, p)'
    <3>1. /\ channel'[n][p] = <<>> /\ known'[p][n] = "unknown" /\ reconnected'[p][n] = 0
          /\ leaving'[p] # n
      BY <1>1, <1>3, <2>1, <2>2, NodesAre
    <3>2. PairAt(n, p)' = Pair(channel'[n][p], known'[p][n], reconnected'[p][n], leaving'[p] = n, Live(n)')
      BY DEF PairAt
    <3>3. Pair(<<>>, "unknown", 0, leaving'[p] = n, Live(n)')
      BY <3>1 DEF Pair
    <3>4. PairAt(n, p)'
      BY <3>1, <3>2, <3>3
    <3>5. ~Met(n, p)'
      BY <3>1 DEF Met
    <3> QED
      BY <3>4, <3>5
  <2>6. ASSUME NEW m \in Nodes, NEW q \in Peers
        PROVE  PairAt(m, q)' /\ (Met(m, q)' <=> Met(m, q) /\ ~(m = n /\ q = p))
    <3>1. CASE m = n /\ q = p
      BY <2>5, <3>1
    <3>2. CASE ~(m = n /\ q = p)
      <4>1. Untouched(m, q) /\ UNCHANGED <<up, started>>
        BY <2>4, <3>2, <1>1 DEF zyreVars
      <4> QED
        BY <3>2, <4>1, UntouchedKept
    <3> QED
      BY <3>1, <3>2
  <2>7. Pairs'
    BY <2>6 DEF Pairs
  <2>8. Places'
    <3>1. UNCHANGED <<up, started, links, telling>>
      BY <1>1, <1>6 DEF zyreVars
    <3>2. UpIsNode'
      BY <3>1 DEF Shape, Places, UpIsNode, Node
    <3>3. LinksLive'
      BY <3>1 DEF Shape, Places, LinksLive, Node
    <3>4. DownIsEmpty'
      BY <3>1, <2>6 DEF Shape, Places, DownIsEmpty
    <3>5. MetStarted'
      BY <3>1, <2>6 DEF Shape, Places, MetStarted
    <3>6. MetLinked'
      <4> SUFFICES ASSUME NEW m \in Nodes, NEW q \in Peers, Live(m)', up'[q], m[1] # q
                   PROVE  Link(m, q)' <=> Met(m, q)'
        BY DEF MetLinked
      <4>1. Live(m) /\ up[q] /\ (Link(m, q)' <=> Link(m, q))
        BY <3>1 DEF Live, Link, Node
      <4>2. Met(m, q)' <=> Met(m, q)
        BY <1>3, <2>6, <4>1
      <4> QED
        BY <4>1, <4>2 DEF Shape, Places, MetLinked
    <3> QED
      BY <3>2, <3>3, <3>4, <3>5, <3>6 DEF Places
  <2>9. CarrierJoined'
    <3> SUFFICES ASSUME NEW q \in Peers, NEW r \in Agents, remotes[q][r] # None
                 PROVE  known'[q][remotes[q][r]] = "joined"
      BY <1>6 DEF CarrierJoined
    <3>1. remotes[q][r] \in Nodes /\ ~(q = p /\ remotes[q][r] = n)
      BY <1>2, <1>6 DEF Carried
    <3>2. known[q][remotes[q][r]] = "joined"
      BY DEF Shape, CarrierJoined
    <3> QED
      BY <2>1, <3>1, <3>2
  <2> QED
    BY <2>3, <2>7, <2>8, <2>9 DEF Shape
<1> QED
  BY <1>1, <1>5, <1>6 DEF ExitStep

LEMMA StartShape ==
  ASSUME Shape, NEW p \in Peers, Start(p)
  PROVE  Shape'
<1>1. /\ UNCHANGED <<active, links, channel, registryVars, leaving, telling, told, churn>>
      /\ ~up[p] /\ started[p] + 1 \in Lives
      /\ up' = [up EXCEPT ![p] = TRUE] /\ started' = [started EXCEPT ![p] = @ + 1]
  BY DEF Start
<1>2. up \in [Peers -> BOOLEAN] /\ started \in [Peers -> Lives \cup {0}] /\ started[p] \in Nat
  BY NodesAre DEF Shape, TypeOK
<1>3. /\ up' \in [Peers -> BOOLEAN] /\ started' \in [Peers -> Lives \cup {0}]
      /\ up'[p] = TRUE /\ started'[p] = started[p] + 1
      /\ \A q \in Peers : q = p \/ (up'[q] = up[q] /\ started'[q] = started[q])
  BY <1>1, <1>2
<1>4. needDef' \in [Agents -> BOOLEAN] /\ atRuntime' \in [Agents -> BOOLEAN]
  BY DEF Start, Shape, TypeOK
<1>5. TypeOK'
  BY <1>1, <1>3, <1>4 DEF Shape, TypeOK, registryVars
<1>6. \A m \in Nodes, q \in Peers : Met(m, q)' <=> Met(m, q)
  BY <1>1 DEF Met, registryVars
<1>7. \A m \in Nodes, q \in Peers : Met(m, q) => Live(m)' = Live(m)
  <2> SUFFICES ASSUME NEW m \in Nodes, NEW q \in Peers, Met(m, q), m[1] = p
               PROVE  Live(m)' = Live(m)
    BY <1>3, NodesAre DEF Live, Node
  <2>1. m[2] <= started[p] /\ m[2] \in Nat
    BY NodesAre DEF Shape, Places, MetStarted
  <2>2. m # <<p, started'[p]>>
    BY <1>2, <1>3, <2>1
  <2> QED
    BY <1>1, <2>2 DEF Live, Node
<1>8. Pairs'
  <2> SUFFICES ASSUME NEW m \in Nodes, NEW q \in Peers PROVE PairAt(m, q)'
    BY DEF Pairs
  <2>1. PairAt(m, q)
    BY DEF Shape, Pairs
  <2>2. PairAt(m, q)' = Pair(channel'[m][q], known'[q][m], reconnected'[q][m], (leaving[q] = m)', Live(m)')
    BY DEF PairAt
  <2>3. /\ channel'[m][q] = channel[m][q] /\ known'[q][m] = known[q][m]
        /\ reconnected'[q][m] = reconnected[q][m] /\ (leaving[q] = m)' = (leaving[q] = m)
    BY <1>1 DEF registryVars
  <2>4. CASE Met(m, q)
    BY <1>7, <2>1, <2>2, <2>3, <2>4 DEF PairAt
  <2>5. CASE ~Met(m, q)
    <3>1. channel[m][q] = <<>> /\ known[q][m] = "unknown"
      BY <2>5 DEF Met
    <3>2. reconnected[q][m] = 0 /\ (leaving[q] = m) = FALSE
      BY <2>1, <3>1 DEF PairAt, Pair
    <3>3. Live(m)' \in BOOLEAN
      BY <1>3 DEF Live, TypeOK
    <3> QED
      BY <2>2, <2>3, <3>1, <3>2, <3>3, PairStrangers
  <2> QED
    BY <2>4, <2>5
<1>9. UpIsNode'
  <2>1. ASSUME NEW q \in Peers, up'[q] PROVE Node(q)' \in Nodes
    <3>1. CASE q = p
      BY <1>1, <1>3, <3>1 DEF Node, Nodes
    <3>2. CASE q # p
      BY <1>3, <2>1, <3>2 DEF Shape, Places, UpIsNode, Node
    <3> QED
      BY <3>1, <3>2
  <2> QED
    BY <2>1 DEF UpIsNode
<1>10. LinksLive'
  <2>1. ASSUME NEW l \in links
        PROVE  \E p1, p2 \in Peers : p1 # p2 /\ up'[p1] /\ up'[p2] /\ l = {Node(p1)', Node(p2)'}
    <3>1. PICK p1 \in Peers, p2 \in Peers : p1 # p2 /\ up[p1] /\ up[p2] /\ l = {Node(p1), Node(p2)}
      BY DEF Shape, Places, LinksLive
    <3>2. p1 # p /\ p2 # p
      BY <1>1, <3>1
    <3> QED
      BY <1>3, <3>1, <3>2 DEF Node
  <2> QED
    BY <1>1, <2>1 DEF LinksLive
<1>11. DownIsEmpty'
  BY <1>1, <1>3, <1>6 DEF Shape, Places, DownIsEmpty
<1>12. MetStarted'
  <2> SUFFICES ASSUME NEW m \in Nodes, NEW q \in Peers, Met(m, q)
               PROVE  m[1] # q /\ m[2] <= started'[m[1]]
    BY <1>6 DEF MetStarted
  <2>1. m[1] # q /\ m[2] <= started[m[1]] /\ m[2] \in Nat
    BY NodesAre DEF Shape, Places, MetStarted
  <2>2. m[1] \in Peers
    BY NodesAre
  <2> QED
    BY <1>2, <1>3, <2>1, <2>2
<1>13. MetLinked'
  <2> SUFFICES ASSUME NEW m \in Nodes, NEW q \in Peers, Live(m)', up'[q], m[1] # q
               PROVE  Link(m, q)' <=> Met(m, q)
    BY <1>6 DEF MetLinked
  <2>1. CASE q = p
    <3>1. ~Met(m, q)
      BY <1>1, <2>1 DEF Shape, Places, DownIsEmpty
    <3>2. ~Link(m, q)'
      <4> SUFFICES ASSUME {m, Node(p)'} \in links PROVE FALSE
        BY <1>1, <2>1 DEF Link
      <4>1. PICK p1 \in Peers, p2 \in Peers : p1 # p2 /\ up[p1] /\ up[p2] /\ {m, Node(p)'} = {Node(p1), Node(p2)}
        BY DEF Shape, Places, LinksLive
      <4>2. Node(p)'[1] = p
        BY DEF Node
      <4>3. Node(p)' = Node(p1) \/ Node(p)' = Node(p2)
        BY <4>1
      <4> QED
        BY <1>1, <4>1, <4>2, <4>3, NodesAre
    <3> QED
      BY <3>1, <3>2
  <2>2. CASE q # p /\ m[1] = p
    <3>1. m = <<p, started[p] + 1>>
      BY <1>3, <2>2 DEF Live, Node
    <3>2. ~Met(m, q)
      BY <1>2, <3>1 DEF Shape, Places, MetStarted
    <3>3. ~Link(m, q)'
      <4> SUFFICES ASSUME {m, Node(q)} \in links PROVE FALSE
        BY <1>1, <1>3, <2>2 DEF Link, Node
      <4>1. PICK p1 \in Peers, p2 \in Peers : p1 # p2 /\ up[p1] /\ up[p2] /\ {m, Node(q)} = {Node(p1), Node(p2)}
        BY DEF Shape, Places, LinksLive
      <4>2. m = Node(p1) \/ m = Node(p2)
        BY <4>1
      <4> QED
        BY <1>1, <2>2, <4>1, <4>2, NodesAre
    <3> QED
      BY <3>2, <3>3
  <2>3. CASE q # p /\ m[1] # p
    <3>1. m[1] \in Peers
      BY NodesAre
    <3>2. Live(m) /\ up[q] /\ (Link(m, q)' <=> Link(m, q))
      BY <1>1, <1>3, <2>3, <3>1 DEF Live, Link, Node
    <3> QED
      BY <3>2 DEF Shape, Places, MetLinked
  <2> QED
    BY <2>1, <2>2, <2>3
<1>14. CarrierJoined'
  BY <1>1 DEF Shape, CarrierJoined, registryVars
<1> QED
  BY <1>5, <1>8, <1>9, <1>10, <1>11, <1>12, <1>13, <1>14 DEF Shape, Places

LEMMA StopShape ==
  ASSUME Shape, NEW p \in Peers, Stop(p)
  PROVE  Shape'
<1>1. /\ UNCHANGED <<agentVars, started, leaving, telling, told>>
      /\ up[p] /\ leaving[p] = None /\ telling[p] = <<>> /\ UserOperation("restart")
      /\ up' = [up EXCEPT ![p] = FALSE] /\ links' = {l \in links : Node(p) \notin l}
      /\ known' = [known EXCEPT ![p] = [n \in Nodes |-> "unknown"]]
      /\ reconnected' = [reconnected EXCEPT ![p] = [n \in Nodes |-> 0]]
      /\ remotes' = [remotes EXCEPT ![p] = [r \in Agents |-> None]]
  BY DEF Stop
<1>2. /\ channel' \in Channels
      /\ \A m \in Nodes, q \in Peers :
           channel'[m][q] = IF q = p THEN <<>>
                            ELSE IF m = Node(p) /\ up[q] /\ Node(q) \in Linked(m)
                            THEN Append(channel[m][q], Exit) ELSE channel[m][q]
  <2>1. channel \in Channels
    BY DEF Shape, TypeOK, Channels
  <2> QED
    BY <2>1, StopSends
<1>3. /\ up \in [Peers -> BOOLEAN] /\ links \subseteq SUBSET Nodes
      /\ known \in [Peers -> [Nodes -> Table]] /\ reconnected \in [Peers -> [Nodes -> Nat]]
      /\ remotes \in [Peers -> [Agents -> Nodes \cup {None}]]
  BY DEF Shape, TypeOK, Table
<1>4. /\ up' \in [Peers -> BOOLEAN] /\ up'[p] = FALSE /\ \A q \in Peers : q = p \/ up'[q] = up[q]
      /\ \A q \in Peers, m \in Nodes :
           /\ known'[q][m] = (IF q = p THEN "unknown" ELSE known[q][m])
           /\ reconnected'[q][m] = (IF q = p THEN 0 ELSE reconnected[q][m])
      /\ \A q \in Peers, r \in Agents : remotes'[q][r] = (IF q = p THEN None ELSE remotes[q][r])
  BY <1>1, <1>3
<1>5. TypeOK'
  <2>1. churn' \in [Kinds -> Nat]
    BY <1>1, ChurnType DEF Shape, Kinds
  <2>2. known' \in [Peers -> [Nodes -> Table]] /\ reconnected' \in [Peers -> [Nodes -> Nat]]
    BY <1>1, <1>3 DEF Table
  <2>3. remotes' \in [Peers -> [Agents -> Nodes \cup {None}]] /\ links' \subseteq SUBSET Nodes
    BY <1>1, <1>3
  <2> QED
    BY <1>1, <1>2, <1>4, <2>1, <2>2, <2>3 DEF Shape, TypeOK, Channels, Table, agentVars
<1>6. \A m \in Nodes : Live(m)' <=> Live(m) /\ m[1] # p
  BY <1>1, <1>4, NodesAre DEF Live, Node
<1>exit. Exit \in Messages
  BY MessagesAre
<1>7. \A m \in Nodes, q \in Peers : PairAt(m, q)' /\ (Met(m, q)' <=> Met(m, q) /\ q # p)
  <2> SUFFICES ASSUME NEW m \in Nodes, NEW q \in Peers
               PROVE  PairAt(m, q)' /\ (Met(m, q)' <=> Met(m, q) /\ q # p)
    OBVIOUS
  <2> DEFINE c == channel[m][q]
             k == known[q][m]
             r == reconnected[q][m]
             leave == leaving[q] = m
             live == Live(m)
  <2>1. PairAt(m, q)' = Pair(channel'[m][q], known'[q][m], reconnected'[q][m], (leaving[q] = m)', Live(m)')
    BY DEF PairAt
  <2>2. Live(m)' \in BOOLEAN /\ Live(m) \in BOOLEAN
    BY <1>3, <1>4 DEF Live
  <2>3. CASE q = p
    <3>1. /\ channel'[m][q] = <<>> /\ known'[q][m] = "unknown" /\ reconnected'[q][m] = 0
          /\ (leaving[q] = m)' = FALSE
      BY <1>1, <1>2, <1>4, <2>3, NodesAre
    <3>2. PairAt(m, q)'
      BY <2>1, <2>2, <3>1, PairStrangers
    <3>3. ~Met(m, q)'
      BY <3>1 DEF Met
    <3> QED
      BY <2>3, <3>2, <3>3
  <2>4. CASE q # p
    <3>1. known'[q][m] = k /\ reconnected'[q][m] = r /\ (leaving[q] = m)' = leave
      BY <1>1, <1>4, <2>4
    <3>2. Pair(c, k, r, leave, live) /\ c \in Seq(Messages) /\ k \in Table /\ r \in Nat /\ leave \in BOOLEAN
      BY <1>3 DEF Shape, TypeOK, Pairs, PairAt
    <3>3. CASE m = Node(p) /\ up[q] /\ Node(q) \in Linked(m)
      <4>1. channel'[m][q] = Append(c, Exit)
        BY <1>2, <2>4, <3>3
      <4>2. live = TRUE /\ Met(m, q)
        BY <2>2, <3>3, LinkedMeet
      <4>3. Live(m)' = FALSE
        BY <1>6, <2>2, <3>3, NodesAre
      <4>4. c # <<>> \/ k # "unknown"
        BY <4>2 DEF Met
      <4>5. Met(m, q)'
        <5>1. Append(c, Exit) # <<>>
          <6> HIDE DEF c
          <6> QED
            BY <3>2, <1>exit, AppendProperties
        <5> QED
          BY <4>1, <5>1 DEF Met
      <4> HIDE DEF c, k, r, leave, live
      <4>6. Pair(Append(c, Exit), k, r, leave, FALSE)
        BY <3>2, <4>2, <4>4, <1>exit, PairDies
      <4> QED
        BY <2>1, <2>4, <3>1, <4>1, <4>2, <4>3, <4>5, <4>6
    <3>4. CASE ~(m = Node(p) /\ up[q] /\ Node(q) \in Linked(m))
      <4>1. channel'[m][q] = c
        BY <1>2, <2>4, <3>4
      <4>2. Met(m, q)' <=> Met(m, q)
        BY <3>1, <4>1 DEF Met
      <4>3. Live(m)' = live \/ Live(m)' = FALSE
        BY <1>6, <2>2
      <4> HIDE DEF c, k, r, leave, live
      <4>4. Pair(c, k, r, leave, FALSE)
        <5>1. live \in BOOLEAN
          BY <2>2 DEF live
        <5> QED
          BY <3>2, <5>1, <1>exit, PairDies
      <4> QED
        BY <2>1, <2>4, <3>1, <3>2, <4>1, <4>2, <4>3, <4>4
    <3> QED
      BY <3>3, <3>4
  <2> QED
    BY <2>3, <2>4
<1>8. Pairs'
  BY <1>7 DEF Pairs
<1>9. UpIsNode'
  BY <1>1, <1>4 DEF Shape, Places, UpIsNode, Node
<1>10. LinksLive'
  <2>1. ASSUME NEW l \in links, Node(p) \notin l
        PROVE  \E p1, p2 \in Peers : p1 # p2 /\ up'[p1] /\ up'[p2] /\ l = {Node(p1)', Node(p2)'}
    <3>1. PICK p1 \in Peers, p2 \in Peers : p1 # p2 /\ up[p1] /\ up[p2] /\ l = {Node(p1), Node(p2)}
      BY DEF Shape, Places, LinksLive
    <3>2. p1 # p /\ p2 # p
      BY <2>1, <3>1
    <3> QED
      BY <1>1, <1>4, <3>1, <3>2 DEF Node
  <2> QED
    BY <1>1, <2>1 DEF LinksLive
<1>11. DownIsEmpty'
  BY <1>1, <1>4, <1>7 DEF Shape, Places, DownIsEmpty
<1>12. MetStarted'
  BY <1>1, <1>7 DEF Shape, Places, MetStarted
<1>13. MetLinked'
  <2> SUFFICES ASSUME NEW m \in Nodes, NEW q \in Peers, Live(m)', up'[q], m[1] # q
               PROVE  Link(m, q)' <=> Met(m, q)'
    BY DEF MetLinked
  <2>1. Live(m) /\ m[1] # p /\ q # p /\ up[q]
    BY <1>4, <1>6
  <2>2. Node(p) \notin {m, Node(q)} /\ Node(q)' = Node(q)
    BY <1>1, <2>1, NodesAre DEF Node
  <2>3. Link(m, q)' <=> Link(m, q)
    BY <1>1, <2>2 DEF Link
  <2> QED
    BY <1>7, <2>1, <2>3 DEF Shape, Places, MetLinked
<1>14. CarrierJoined'
  <2> SUFFICES ASSUME NEW q \in Peers, NEW r \in Agents, remotes'[q][r] # None
               PROVE  known'[q][remotes'[q][r]] = "joined"
    BY DEF CarrierJoined
  <2>1. q # p /\ remotes'[q][r] = remotes[q][r] /\ remotes[q][r] \in Nodes
    BY <1>3, <1>4
  <2> QED
    BY <1>4, <2>1 DEF Shape, CarrierJoined
<1> QED
  BY <1>5, <1>8, <1>9, <1>10, <1>11, <1>12, <1>13, <1>14 DEF Shape, Places

LEMMA InitShape == Init => Shape
<1> SUFFICES ASSUME Init PROVE Shape
  OBVIOUS
<1>1. TypeOK
  BY DEF Init, TypeOK, Events, Kinds
<1>2. \A n \in Nodes, p \in Peers :
        /\ channel[n][p] = <<>> /\ known[p][n] = "unknown" /\ reconnected[p][n] = 0
        /\ (leaving[p] = n) = FALSE /\ ~Met(n, p)
  BY NodesAre DEF Init, Met
<1>3. \A p \in Peers : up[p] = FALSE /\ telling[p] = <<>>
  BY DEF Init
<1>4. Pairs
  <2>1. ASSUME NEW n \in Nodes, NEW p \in Peers PROVE PairAt(n, p)
    <3>1. Live(n) \in BOOLEAN
      BY <1>1 DEF Live, TypeOK
    <3> QED
      BY <1>2, <3>1, PairStrangers DEF PairAt
  <2> QED
    BY <2>1 DEF Pairs
<1>5. Places
  <2>1. links = {}
    BY DEF Init
  <2> QED
    BY <1>2, <1>3, <2>1 DEF Places, UpIsNode, LinksLive, DownIsEmpty, MetStarted, MetLinked
<1>6. CarrierJoined
  BY DEF Init, CarrierJoined
<1> QED
  BY <1>1, <1>4, <1>5, <1>6 DEF Shape

LEMMA NextShape == Shape /\ [Next]_vars => Shape'
<1> SUFFICES ASSUME Shape, [Next]_vars PROVE Shape'
  OBVIOUS
<1>1. CASE UNCHANGED vars
  <2>1. UNCHANGED <<active, needDef, atRuntime, up, started, links, channel, known, reconnected,
                    remotes, leaving, telling, told, churn>>
    BY <1>1 DEF vars, agentVars, zyreVars, registryVars
  <2>2. TypeOK'
    BY <2>1 DEF Shape, TypeOK
  <2>3. \A m \in Nodes, q \in Peers : Untouched(m, q)
    BY <2>1 DEF Untouched
  <2>4. Pairs' /\ Places'
    BY <2>1, <2>3, OnlySent DEF Shape, Places, DownIsEmpty
  <2>5. CarrierJoined'
    BY <2>1 DEF Shape, CarrierJoined
  <2> QED
    BY <2>2, <2>4, <2>5 DEF Shape
<1>2. ASSUME NEW p \in Peers, NEW q \in Peers, Connect(p, q) \/ Reconnect(p, q) PROVE Shape'
  BY <1>2, ConnectShape, ReconnectShape
<1>3. ASSUME NEW a \in Agents, Activate(a) \/ Deactivate(a) PROVE Shape'
  BY <1>3, ActivateShape, DeactivateShape
<1>4. ASSUME NEW p \in Peers, Start(p) \/ Stop(p) PROVE Shape'
  BY <1>4, StartShape, StopShape
<1>5. ASSUME NEW p \in Peers, NetworkNext(p) PROVE Shape'
  <2>1. ASSUME NEW n \in Nodes, RecvEnter(n, p) \/ RecvJoin(n, p) \/ RecvExit(n, p) PROVE Shape'
    BY <2>1, RecvEnterShape, RecvJoinShape, RecvExitShape
  <2>2. ASSUME NEW n \in Nodes, RecvDefinition(n, p) \/ RecvKnows(n, p) \/ RecvAgentExit(n, p)
        PROVE  Shape'
    BY <2>2, RecvDefinitionShape, RecvKnowsShape, RecvAgentExitShape
  <2>3. ASSUME NEW a \in On(p), SendDefinition(a) PROVE Shape'
    BY <2>3, SendDefinitionShape DEF On
  <2>4. ExitStep(p) \/ Tell(p) => Shape'
    BY ExitStepShape, TellShape
  <2> QED
    BY <1>5, <2>1, <2>2, <2>3, <2>4 DEF NetworkNext
<1> QED
  BY <1>1, <1>2, <1>3, <1>4, <1>5 DEF Next

\* Every variable keeps its type (the declarations of igs_core_context_t).
THEOREM DiscoveryType == Spec => []TypeOK
<1>1. Shape => TypeOK
  BY DEF Shape
<1> QED
  BY InitShape, NextShape, <1>1, PTL DEF Spec

-----------------------------------------------------------------------------
(***************************************************************************)
(* What the shape says of the properties of Discovery.                     *)
(***************************************************************************)
LEMMA ShapeSound == Shape => PeerOfRemoteKnown /\ AssertionsHold
<1> SUFFICES ASSUME Shape PROVE PeerOfRemoteKnown /\ AssertionsHold
  OBVIOUS
<1>1. PeerOfRemoteKnown
  BY DEF Shape, CarrierJoined, PeerOfRemoteKnown
<1>2. ASSUME NEW p \in Peers, NEW n \in Nodes, Ready(p), channel[n][p] # <<>>,
             Head(channel[n][p]).type \in {"JOIN", "DEFINITION"}
      PROVE  known[p][n] # "unknown"
  <2> DEFINE c == channel[n][p]
             k == known[p][n]
  <2>1. c \in Seq(Messages) /\ c # <<>> /\ k \in Table
    BY <1>2 DEF Shape, TypeOK, Table
  <2>2. k = "unknown" => Opens(c)
    BY <1>2 DEF Shape, Pairs, PairAt, Pair
  <2>3. Head(c).type \in {"JOIN", "DEFINITION"}
    BY <1>2
  <2> HIDE DEF c, k
  <2>4. c[1] # Enter
    <3>1. Head(c) = c[1]
      BY <2>1, TailIs
    <3> QED
      BY <2>3, <3>1, MessagesAre
  <2>5. k # "unknown"
    BY <2>2, <2>4 DEF Opens
  <2> QED
    BY <2>5 DEF k
<1>3. AssertionsHold
  BY <1>2 DEF AssertionsHold
<1> QED
  BY <1>1, <1>3

-----------------------------------------------------------------------------
(***************************************************************************)
(* What a queue of messages says of an agent: its last DEFINITION or       *)
(* AGENT_EXIT, or what is known already when there is none.                *)
(***************************************************************************)
News == {"DEFINITION", "AGENT_EXIT"}
NewsOf(m, r) == m.type \in News /\ m.agent = r
NoNews(c, r) == \A k \in 1..Len(c) : ~NewsOf(c[k], r)
LastNews(c, r, type) ==
  \E k \in 1..Len(c) : /\ NewsOf(c[k], r) /\ c[k].type = type
                       /\ \A l \in 1..Len(c) : k < l => ~NewsOf(c[l], r)
Ends(c, r, type, here) == LastNews(c, r, type) \/ (NoNews(c, r) /\ here)

JoinComes(c) == \E k \in 1..Len(c) : c[k].type = "JOIN"

\* Messages that are about others change nothing.
LEMMA EndsConcat ==
  ASSUME NEW T, NEW c \in Seq(T), NEW d \in Seq(T), NEW r, NEW type, NEW here \in BOOLEAN,
         NoNews(d, r), Ends(c, r, type, here)
  PROVE  Ends(c \o d, r, type, here)
<1> DEFINE e == c \o d
<1>1. /\ Len(e) = Len(c) + Len(d) /\ Len(c) \in Nat /\ Len(d) \in Nat
      /\ \A i \in 1..Len(c) : e[i] = c[i]
      /\ \A i \in 1..Len(e) : i > Len(c) => e[i] = d[i - Len(c)] /\ i - Len(c) \in 1..Len(d)
  BY ConcatIs
<1> HIDE DEF e
<1>2. \A i \in 1..Len(e) : i > Len(c) => ~NewsOf(e[i], r)
  BY <1>1 DEF NoNews
<1>3. CASE LastNews(c, r, type)
  <2>1. PICK k \in 1..Len(c) : /\ NewsOf(c[k], r) /\ c[k].type = type
                               /\ \A l \in 1..Len(c) : k < l => ~NewsOf(c[l], r)
    BY <1>3 DEF LastNews
  <2>2. k \in 1..Len(e) /\ NewsOf(e[k], r) /\ e[k].type = type
    BY <1>1, <2>1
  <2>3. ASSUME NEW l \in 1..Len(e), k < l PROVE ~NewsOf(e[l], r)
    <3>1. CASE l <= Len(c)
      BY <1>1, <2>1, <2>3, <3>1
    <3>2. CASE l > Len(c)
      BY <1>2, <3>2
    <3> QED
      BY <1>1, <3>1, <3>2
  <2>4. LastNews(e, r, type)
    BY <2>2, <2>3 DEF LastNews
  <2> QED
    BY <2>4 DEF Ends, e
<1>4. CASE NoNews(c, r) /\ here
  <2>1. ASSUME NEW l \in 1..Len(e) PROVE ~NewsOf(e[l], r)
    <3>1. CASE l <= Len(c)
      <4>1. l \in 1..Len(c)
        BY <1>1, <3>1
      <4> QED
        BY <1>1, <1>4, <4>1 DEF NoNews
    <3>2. CASE l > Len(c)
      BY <1>2, <3>2
    <3> QED
      BY <1>1, <3>1, <3>2
  <2>2. NoNews(e, r)
    BY <2>1 DEF NoNews
  <2> QED
    BY <1>4, <2>2 DEF Ends, e
<1> QED
  BY <1>3, <1>4 DEF Ends

\* News at the end have the last word.
LEMMA EndsAdded ==
  ASSUME NEW T, NEW c \in Seq(T), NEW d \in Seq(T), NEW r, NEW type, LastNews(d, r, type)
  PROVE  LastNews(c \o d, r, type)
<1> DEFINE e == c \o d
<1>1. /\ Len(e) = Len(c) + Len(d) /\ Len(c) \in Nat /\ Len(d) \in Nat
      /\ \A i \in 1..Len(d) : e[Len(c) + i] = d[i]
      /\ \A i \in 1..Len(e) : i > Len(c) => e[i] = d[i - Len(c)] /\ i - Len(c) \in 1..Len(d)
  BY ConcatIs
<1> HIDE DEF e
<1>2. PICK k \in 1..Len(d) : /\ NewsOf(d[k], r) /\ d[k].type = type
                             /\ \A l \in 1..Len(d) : k < l => ~NewsOf(d[l], r)
  BY DEF LastNews
<1>3. Len(c) + k \in 1..Len(e) /\ NewsOf(e[Len(c) + k], r) /\ e[Len(c) + k].type = type
  BY <1>1, <1>2
<1>4. ASSUME NEW l \in 1..Len(e), Len(c) + k < l PROVE ~NewsOf(e[l], r)
  <2>1. e[l] = d[l - Len(c)] /\ l - Len(c) \in 1..Len(d) /\ k < l - Len(c)
    BY <1>1, <1>4
  <2> QED
    BY <1>2, <2>1
<1> QED
  BY <1>3, <1>4 DEF LastNews, e

\* Once the head is received, what is known is what it said.
LEMMA EndsTail ==
  ASSUME NEW T, NEW c \in Seq(T), c # <<>>, NEW r, NEW type, NEW here \in BOOLEAN,
         NEW now \in BOOLEAN, Ends(c, r, type, here),
         NewsOf(c[1], r) /\ c[1].type = type => now,
         ~NewsOf(c[1], r) /\ here => now
  PROVE  Ends(Tail(c), r, type, now)
<1> DEFINE e == Tail(c)
<1>1. /\ Len(c) \in Nat /\ Len(c) > 0 /\ Len(e) = Len(c) - 1
      /\ \A i \in 1..Len(c) - 1 : e[i] = c[i + 1]
  BY TailIs
<1> HIDE DEF e
<1>2. CASE LastNews(c, r, type)
  <2>1. PICK k \in 1..Len(c) : /\ NewsOf(c[k], r) /\ c[k].type = type
                               /\ \A l \in 1..Len(c) : k < l => ~NewsOf(c[l], r)
    BY <1>2 DEF LastNews
  <2>2. CASE k = 1
    <3>1. ASSUME NEW l \in 1..Len(e) PROVE ~NewsOf(e[l], r)
      <4>1. e[l] = c[l + 1] /\ l + 1 \in 1..Len(c) /\ k < l + 1
        BY <1>1, <2>2
      <4> QED
        BY <2>1, <4>1
    <3>2. NoNews(e, r)
      BY <3>1 DEF NoNews
    <3> QED
      BY <2>1, <2>2, <3>2 DEF Ends, e
  <2>3. CASE k # 1
    <3>1. k - 1 \in 1..Len(e) /\ e[k - 1] = c[k]
      BY <1>1, <2>3
    <3>2. ASSUME NEW l \in 1..Len(e), k - 1 < l PROVE ~NewsOf(e[l], r)
      <4>1. e[l] = c[l + 1] /\ l + 1 \in 1..Len(c) /\ k < l + 1
        BY <1>1, <3>2
      <4> QED
        BY <2>1, <4>1
    <3>3. LastNews(e, r, type)
      BY <2>1, <3>1, <3>2 DEF LastNews
    <3> QED
      BY <3>3 DEF Ends, e
  <2> QED
    BY <2>2, <2>3
<1>3. CASE NoNews(c, r) /\ here
  <2>1. ~NewsOf(c[1], r)
    BY <1>1, <1>3 DEF NoNews
  <2>2. NoNews(e, r)
    <3>1. ASSUME NEW l \in 1..Len(e) PROVE ~NewsOf(e[l], r)
      <4>1. e[l] = c[l + 1] /\ l + 1 \in 1..Len(c)
        BY <1>1
      <4> QED
        BY <1>3, <4>1 DEF NoNews
    <3> QED
      BY <3>1 DEF NoNews
  <2> QED
    BY <1>3, <2>1, <2>2 DEF Ends, e
<1> QED
  BY <1>2, <1>3 DEF Ends

LEMMA JoinConcat ==
  ASSUME NEW T, NEW c \in Seq(T), NEW d \in Seq(T), JoinComes(c)
  PROVE  JoinComes(c \o d)
<1>1. PICK k \in 1..Len(c) : c[k].type = "JOIN"
  BY DEF JoinComes
<1>2. k \in 1..Len(c \o d) /\ (c \o d)[k] = c[k]
  BY ConcatIs
<1> QED
  BY <1>1, <1>2 DEF JoinComes

LEMMA JoinTail ==
  ASSUME NEW T, NEW c \in Seq(T), c # <<>>, JoinComes(c), c[1].type # "JOIN"
  PROVE  JoinComes(Tail(c))
<1>1. PICK k \in 1..Len(c) : c[k].type = "JOIN"
  BY DEF JoinComes
<1>2. /\ Len(c) \in Nat /\ Len(c) > 0 /\ Len(Tail(c)) = Len(c) - 1
      /\ \A i \in 1..Len(c) - 1 : Tail(c)[i] = c[i + 1]
  BY TailIs
<1>3. k - 1 \in 1..Len(Tail(c)) /\ Tail(c)[k - 1] = c[k]
  BY <1>1, <1>2
<1> QED
  BY <1>1, <1>3 DEF JoinComes

-----------------------------------------------------------------------------
(***************************************************************************)
(* Who talks about whom, and what a peer will know of a remote agent as    *)
(* long as no process restarts.                                            *)
(***************************************************************************)
Calm == churn["restart"] = 0

UpSinceStarted == Calm => \A p \in Peers : started[p] <= 1 /\ (started[p] = 1 => up[p])

\* Peers talk about their agents, and say they know those they talk to.
Fits(m, n, p) ==
  (m.type \in News => Home[m.agent] = n[1]) /\ (m.type = "KNOWS" => Home[m.agent] = p)
Speakers ==
  /\ \A n \in Nodes, p \in Peers : \A k \in 1..Len(channel[n][p]) : Fits(channel[n][p][k], n, p)
  /\ \A p \in Peers, r \in Agents : remotes[p][r] # None => remotes[p][r][1] = Home[r]

\* What the node of agent r has under way to p, and what p will know of r.
From(r, p) == channel[Node(Home[r])][p]
Back(r, p) == channel[Node(p)][Home[r]]
Remembered(r, p) == Ends(From(r, p), r, "DEFINITION", remotes[p][r] # None)
Forgotten(r, p) == Ends(From(r, p), r, "AGENT_EXIT", remotes[p][r] = None)
Reached(r, p) == Home[r] # p /\ Link(Node(Home[r]), p)

\* An active agent is known, or its definition is due; another is forgotten.
InformedAt(r, p) ==
  IF r \in active THEN Remembered(r, p) \/ needDef[r] \/ JoinComes(Back(r, p))
  ELSE Forgotten(r, p)
Informed == Calm => \A r \in Agents, p \in Peers : Reached(r, p) => InformedAt(r, p)

KInv == Shape /\ UpSinceStarted /\ Speakers /\ Informed

\* Without restart every node lives, and a remote agent is the one of a node
\* that is linked.
LEMMA CalmFacts ==
  ASSUME Shape, UpSinceStarted, Speakers, Calm
  PROVE  /\ \A n \in Nodes, p \in Peers : Met(n, p) => Live(n) /\ n = Node(n[1]) /\ up[p]
         /\ \A p \in Peers : leaving[p] = None
         /\ \A p \in Peers, r \in Agents : remotes[p][r] # None =>
              /\ remotes[p][r] = Node(Home[r]) /\ Home[r] # p
              /\ known[p][Node(Home[r])] = "joined" /\ Met(Node(Home[r]), p)
         /\ \A p \in Peers, r \in Agents : Reached(r, p) =>
              /\ Node(Home[r]) \in Nodes /\ Node(p) \in Nodes /\ Home[r] \in Peers
              /\ Node(Home[r]) # Node(p) /\ up[p] /\ up[Home[r]]
              /\ Node(p) \in Linked(Node(Home[r])) /\ Node(Home[r]) \in Linked(Node(p))
              /\ Met(Node(Home[r]), p) /\ Met(Node(p), Home[r])
<1>1. ASSUME NEW n \in Nodes, NEW p \in Peers, Met(n, p)
      PROVE  Live(n) /\ n = Node(n[1]) /\ up[p]
  <2>1. n[1] \in Peers /\ n[2] \in Nat \ {0} /\ n = <<n[1], n[2]>>
    BY NodesAre
  <2>2. n[2] <= started[n[1]] /\ started[n[1]] \in Nat
    BY <1>1, <2>1, NodesAre DEF Shape, Places, MetStarted, TypeOK
  <2>3. started[n[1]] <= 1 /\ (started[n[1]] = 1 => up[n[1]])
    BY <2>1 DEF UpSinceStarted
  <2>4. n[2] = started[n[1]] /\ up[n[1]]
    BY <2>1, <2>2, <2>3
  <2>5. up[p]
    BY <1>1 DEF Shape, Places, DownIsEmpty
  <2> QED
    BY <2>1, <2>4, <2>5 DEF Live, Node
<1>2. ASSUME NEW p \in Peers PROVE leaving[p] = None
  <2> SUFFICES ASSUME leaving[p] # None PROVE FALSE
    OBVIOUS
  <2>1. PICK n \in Nodes : n = leaving[p]
    BY DEF Shape, TypeOK
  <2>2. ~Live(n) /\ known[p][n] = "joined"
    BY <2>1 DEF Shape, Pairs, PairAt, Pair
  <2> QED
    BY <1>1, <2>2 DEF Met
<1>3. ASSUME NEW p \in Peers, NEW r \in Agents, remotes[p][r] # None
      PROVE  /\ remotes[p][r] = Node(Home[r]) /\ Home[r] # p
             /\ known[p][Node(Home[r])] = "joined" /\ Met(Node(Home[r]), p)
  <2>1. PICK n \in Nodes : n = remotes[p][r]
    BY <1>3 DEF Shape, TypeOK
  <2>2. n[1] = Home[r] /\ known[p][n] = "joined"
    BY <1>3, <2>1 DEF Speakers, Shape, CarrierJoined
  <2>3. Met(n, p)
    BY <2>2 DEF Met
  <2>4. n = Node(Home[r]) /\ n[1] # p
    BY <1>1, <2>2, <2>3 DEF Shape, Places, MetStarted
  <2> QED
    BY <2>1, <2>2, <2>3, <2>4
<1>4. ASSUME NEW p \in Peers, NEW r \in Agents, Reached(r, p)
      PROVE  /\ Node(Home[r]) \in Nodes /\ Node(p) \in Nodes /\ Home[r] \in Peers
             /\ Node(Home[r]) # Node(p) /\ up[p] /\ up[Home[r]]
             /\ Node(p) \in Linked(Node(Home[r])) /\ Node(Home[r]) \in Linked(Node(p))
             /\ Met(Node(Home[r]), p) /\ Met(Node(p), Home[r])
  <2>1. Home[r] \in Peers /\ Home[r] # p /\ {Node(Home[r]), Node(p)} \in links
    BY <1>4, NodesAre DEF Reached, Link
  <2>2. Node(Home[r]) \in Nodes /\ Node(p) \in Nodes
    BY <2>1 DEF Shape, TypeOK
  <2>3. PICK p1 \in Peers, p2 \in Peers :
          p1 # p2 /\ up[p1] /\ up[p2] /\ {Node(Home[r]), Node(p)} = {Node(p1), Node(p2)}
    BY <2>1 DEF Shape, Places, LinksLive
  <2>4. up[p] /\ up[Home[r]]
    <3>1. Node(p) \in {Node(p1), Node(p2)} /\ Node(Home[r]) \in {Node(p1), Node(p2)}
      BY <2>3
    <3> QED
      BY <2>1, <2>3, <3>1, NodesAre
  <2>5. {Node(p), Node(Home[r])} = {Node(Home[r]), Node(p)}
    OBVIOUS
  <2>6. Node(p) \in Linked(Node(Home[r])) /\ Node(Home[r]) \in Linked(Node(p))
    BY <2>1, <2>2, <2>5 DEF Linked
  <2>7. Met(Node(Home[r]), p) /\ Met(Node(p), Home[r])
    BY <2>1, <2>2, <2>4, <2>6, LinkedMeet
  <2>8. Node(Home[r]) # Node(p)
    BY <2>1, NodesAre
  <2> QED
    BY <2>1, <2>2, <2>4, <2>6, <2>7, <2>8
<1> QED
  BY <1>1, <1>2, <1>3, <1>4

-----------------------------------------------------------------------------
\* How a channel moves: it stays, gets more messages or loses its head.
Stays(n, p) == channel'[n][p] = channel[n][p]
Gets(n, p, d) == d \in Seq(Messages) /\ channel'[n][p] = channel[n][p] \o d
Loses(n, p) == channel[n][p] # <<>> /\ channel'[n][p] = Tail(channel[n][p])

LEMMA FitsKept ==
  ASSUME Shape, Speakers, NEW n \in Nodes, NEW p \in Peers,
         \/ Stays(n, p) \/ Loses(n, p) \/ channel'[n][p] = <<>>
         \/ \E d \in Seq(Messages) : /\ channel'[n][p] = channel[n][p] \o d
                                     /\ \A k \in 1..Len(d) : Fits(d[k], n, p)
  PROVE  \A k \in 1..Len(channel'[n][p]) : Fits(channel'[n][p][k], n, p)
<1> DEFINE c == channel[n][p]
<1>1. c \in Seq(Messages) /\ \A k \in 1..Len(c) : Fits(c[k], n, p)
  BY DEF Shape, TypeOK, Speakers
<1>2. CASE Stays(n, p)
  BY <1>1, <1>2 DEF Stays
<1>3. CASE Loses(n, p)
  <2>1. c # <<>> /\ channel'[n][p] = Tail(c)
    BY <1>3 DEF Loses
  <2> HIDE DEF c
  <2>2. /\ Len(c) \in Nat /\ Len(c) > 0 /\ Len(Tail(c)) = Len(c) - 1
        /\ \A i \in 1..Len(c) - 1 : Tail(c)[i] = c[i + 1]
    BY <1>1, <2>1, TailIs
  <2>3. ASSUME NEW k \in 1..Len(Tail(c)) PROVE Fits(Tail(c)[k], n, p)
    <3>1. Tail(c)[k] = c[k + 1] /\ k + 1 \in 1..Len(c)
      BY <2>2
    <3> QED
      BY <1>1, <3>1
  <2> QED
    BY <2>1, <2>3
<1>4. CASE channel'[n][p] = <<>>
  <2>1. Len(channel'[n][p]) = 0
    BY <1>4, EmptySeq
  <2> QED
    BY <2>1
<1>5. ASSUME NEW d \in Seq(Messages), channel'[n][p] = c \o d, \A k \in 1..Len(d) : Fits(d[k], n, p)
      PROVE  \A k \in 1..Len(channel'[n][p]) : Fits(channel'[n][p][k], n, p)
  <2> HIDE DEF c
  <2>1. /\ Len(c) \in Nat /\ \A i \in 1..Len(c) : (c \o d)[i] = c[i]
        /\ \A i \in 1..Len(c \o d) : i > Len(c) => (c \o d)[i] = d[i - Len(c)] /\ i - Len(c) \in 1..Len(d)
    BY <1>1, ConcatIs
  <2>2. ASSUME NEW k \in 1..Len(c \o d) PROVE Fits((c \o d)[k], n, p)
    <3>1. CASE k > Len(c)
      BY <1>5, <2>1, <3>1
    <3>2. CASE ~(k > Len(c))
      <4>1. k \in 1..Len(c)
        BY <2>1, <3>2
      <4> QED
        BY <1>1, <2>1, <4>1
    <3> QED
      BY <3>1, <3>2
  <2> QED
    BY <1>5, <2>2
<1> QED
  BY <1>2, <1>3, <1>4, <1>5

\* A step that leaves what agent r and p know of each other right.
NewsRight(r, p) ==
  \/ /\ (remotes'[p][r] = None) = (remotes[p][r] = None)
     /\ \/ Stays(Node(Home[r]), p)
        \/ \E d \in Seq(Messages) : NoNews(d, r) /\ Gets(Node(Home[r]), p, d)
  \/ /\ Loses(Node(Home[r]), p)
     /\ IF NewsOf(From(r, p)[1], r)
        THEN (remotes'[p][r] = None) = (From(r, p)[1].type = "AGENT_EXIT")
        ELSE (remotes'[p][r] = None) = (remotes[p][r] = None)
JoinRight(r, p) ==
  \/ Stays(Node(p), Home[r])
  \/ \E d \in Seq(Messages) : Gets(Node(p), Home[r], d)
  \/ Loses(Node(p), Home[r]) /\ Back(r, p)[1].type # "JOIN"

LEMMA NewsKept ==
  ASSUME Shape, UpSinceStarted, Speakers, Calm, UNCHANGED started, NEW r \in Agents, NEW p \in Peers,
         Reached(r, p), NewsRight(r, p)
  PROVE  (Remembered(r, p) => Remembered(r, p)') /\ (Forgotten(r, p) => Forgotten(r, p)')
<1> DEFINE c == From(r, p)
           c2 == channel'[Node(Home[r])][p]
           gone == remotes[p][r] = None
           gone2 == remotes'[p][r] = None
<1>1. c \in Seq(Messages) /\ gone \in BOOLEAN /\ gone2 \in BOOLEAN
  BY CalmFacts DEF Shape, TypeOK, From
<1>2. /\ Remembered(r, p) <=> Ends(c, r, "DEFINITION", ~gone)
      /\ Remembered(r, p)' <=> Ends(c2, r, "DEFINITION", ~gone2)
      /\ Forgotten(r, p) <=> Ends(c, r, "AGENT_EXIT", gone)
      /\ Forgotten(r, p)' <=> Ends(c2, r, "AGENT_EXIT", gone2)
  BY DEF Remembered, Forgotten, From, Node
<1>3. \/ gone2 = gone /\ c2 = c
      \/ gone2 = gone /\ \E d \in Seq(Messages) : NoNews(d, r) /\ c2 = c \o d
      \/ /\ c # <<>> /\ c2 = Tail(c)
         /\ IF NewsOf(c[1], r) THEN gone2 = (c[1].type = "AGENT_EXIT") ELSE gone2 = gone
  BY DEF NewsRight, Stays, Gets, Loses, From
<1> HIDE DEF c, c2, gone, gone2
<1>4. CASE gone2 = gone /\ c2 = c
  BY <1>2, <1>4
<1>5. ASSUME gone2 = gone, NEW d \in Seq(Messages), NoNews(d, r), c2 = c \o d
      PROVE  (Remembered(r, p) => Remembered(r, p)') /\ (Forgotten(r, p) => Forgotten(r, p)')
  <2>1. (~gone) \in BOOLEAN
    BY <1>1
  <2>2. Ends(c, r, "DEFINITION", ~gone) => Ends(c2, r, "DEFINITION", ~gone)
    BY <1>1, <1>5, <2>1, EndsConcat
  <2>3. Ends(c, r, "AGENT_EXIT", gone) => Ends(c2, r, "AGENT_EXIT", gone)
    BY <1>1, <1>5, EndsConcat
  <2> QED
    BY <1>2, <1>5, <2>2, <2>3
<1>6. CASE /\ c # <<>> /\ c2 = Tail(c)
           /\ IF NewsOf(c[1], r) THEN gone2 = (c[1].type = "AGENT_EXIT") ELSE gone2 = gone
  <2>1. (~gone) \in BOOLEAN /\ (~gone2) \in BOOLEAN
    BY <1>1
  <2>2. Ends(c, r, "DEFINITION", ~gone) => Ends(c2, r, "DEFINITION", ~gone2)
    <3>1. NewsOf(c[1], r) /\ c[1].type = "DEFINITION" => ~gone2
      BY <1>6
    <3>2. ~NewsOf(c[1], r) /\ ~gone => ~gone2
      BY <1>6
    <3> QED
      BY <1>1, <1>6, <2>1, <3>1, <3>2, EndsTail
  <2>3. Ends(c, r, "AGENT_EXIT", gone) => Ends(c2, r, "AGENT_EXIT", gone2)
    <3>1. NewsOf(c[1], r) /\ c[1].type = "AGENT_EXIT" => gone2
      BY <1>6
    <3>2. ~NewsOf(c[1], r) /\ gone => gone2
      BY <1>6
    <3> QED
      BY <1>1, <1>6, <3>1, <3>2, EndsTail
  <2> QED
    BY <1>2, <2>2, <2>3
<1> QED
  BY <1>3, <1>4, <1>5, <1>6

LEMMA JoinKept ==
  ASSUME Shape, UpSinceStarted, Speakers, Calm, UNCHANGED started, NEW r \in Agents, NEW p \in Peers,
         Reached(r, p), JoinRight(r, p), JoinComes(Back(r, p))
  PROVE  JoinComes(Back(r, p))'
<1> DEFINE c == Back(r, p)
           c2 == channel'[Node(p)][Home[r]]
<1>1. c \in Seq(Messages)
  BY CalmFacts DEF Shape, TypeOK, Back
<1>2. JoinComes(Back(r, p))' <=> JoinComes(c2)
  BY DEF Back, Node, JoinComes
<1>3. \/ c2 = c \/ \E d \in Seq(Messages) : c2 = c \o d
      \/ c # <<>> /\ c2 = Tail(c) /\ c[1].type # "JOIN"
  BY DEF JoinRight, Stays, Gets, Loses, Back
<1>4. JoinComes(c)
  OBVIOUS
<1> HIDE DEF c, c2
<1>5. JoinComes(c2)
  BY <1>1, <1>3, <1>4, JoinConcat, JoinTail
<1> QED
  BY <1>2, <1>5

LEMMA InformedKept ==
  ASSUME KInv, Calm, UNCHANGED started, NEW r \in Agents, NEW p \in Peers, Reached(r, p),
         r \in active' <=> r \in active, needDef[r] => needDef'[r],
         NewsRight(r, p), JoinRight(r, p)
  PROVE  InformedAt(r, p)'
<1>1. InformedAt(r, p)
  BY DEF KInv, Informed
<1>2. (Remembered(r, p) => Remembered(r, p)') /\ (Forgotten(r, p) => Forgotten(r, p)')
  BY NewsKept DEF KInv
<1>3. JoinComes(Back(r, p)) => JoinComes(Back(r, p))'
  BY JoinKept DEF KInv
<1> QED
  BY <1>1, <1>2, <1>3 DEF InformedAt

-----------------------------------------------------------------------------
(***************************************************************************)
(* Every step keeps what peers know right.                                 *)
(***************************************************************************)
Known == UpSinceStarted /\ Speakers /\ Informed

LEMMA SpeakersKept ==
  ASSUME Shape, Speakers,
         \A n \in Nodes, p \in Peers :
           \/ Stays(n, p) \/ Loses(n, p) \/ channel'[n][p] = <<>>
           \/ \E d \in Seq(Messages) : /\ channel'[n][p] = channel[n][p] \o d
                                       /\ \A k \in 1..Len(d) : Fits(d[k], n, p),
         \A p \in Peers, r \in Agents :
           \/ remotes'[p][r] \in {None, remotes[p][r]}
           \/ remotes'[p][r][1] = Home[r]
  PROVE  Speakers'
<1>1. ASSUME NEW n \in Nodes, NEW p \in Peers
      PROVE  \A k \in 1..Len(channel'[n][p]) : Fits(channel'[n][p][k], n, p)
  BY FitsKept
<1>2. \A p \in Peers, r \in Agents : remotes'[p][r] # None => remotes'[p][r][1] = Home[r]
  BY DEF Speakers
<1> QED
  BY <1>1, <1>2 DEF Speakers, Fits

LEMMA InformedAll ==
  ASSUME KInv, UNCHANGED <<up, started, links>>, Calm' => Calm,
         \A r \in Agents, p \in Peers : Calm /\ Reached(r, p) => InformedAt(r, p)'
  PROVE  UpSinceStarted' /\ Informed'
<1>1. UpSinceStarted'
  BY DEF KInv, UpSinceStarted
<1>2. \A r \in Agents, p \in Peers : Reached(r, p)' <=> Reached(r, p)
  BY DEF Reached, Link, Node
<1>3. Informed'
  BY <1>2 DEF Informed
<1> QED
  BY <1>1, <1>3

LEMMA UsersCalm ==
  ASSUME Shape, NEW kind \in {"activate", "reconnect"}, UserOperation(kind)
  PROVE  Calm' => Calm
  BY DEF Shape, TypeOK, UserOperation, Calm, Kinds

\* Steps that change neither channels nor what is known of remote agents.
LEMMA SilentKnown ==
  ASSUME KInv, UNCHANGED <<active, up, started, links, channel, remotes>>, Calm' => Calm,
         \A r \in Agents : needDef[r] => needDef'[r]
  PROVE  Known'
<1>1. Speakers'
  BY DEF KInv, Speakers, Fits
<1>2. ASSUME NEW r \in Agents, NEW p \in Peers, Calm, Reached(r, p) PROVE InformedAt(r, p)'
  <2>1. NewsRight(r, p) /\ JoinRight(r, p)
    BY DEF NewsRight, JoinRight, Stays
  <2> QED
    BY <1>2, <2>1, InformedKept
<1> QED
  BY <1>1, <1>2, InformedAll DEF Known

LEMMA ConnectKnown ==
  ASSUME KInv, NEW p0 \in Peers, NEW q0 \in Peers, Connect(p0, q0)
  PROVE  Known'
<1>1. /\ p0 # q0 /\ {Node(p0), Node(q0)} \notin links
      /\ up[p0] /\ up[q0] /\ links' = links \cup {{Node(p0), Node(q0)}}
      /\ UNCHANGED <<active, needDef, up, started, remotes, churn>>
  BY DEF Connect, agentVars, registryVars
<1>2. \A m \in Nodes, r \in Peers :
        channel'[m][r] = IF (m = Node(p0) /\ r = q0) \/ (m = Node(q0) /\ r = p0)
                         THEN channel[m][r] \o <<Enter, Join>> ELSE channel[m][r]
  <2>1. channel \in Channels /\ UpIsNode
    BY DEF KInv, Shape, TypeOK, Places, Channels
  <2> QED
    BY <2>1, ConnectSends
<1>3. <<Enter, Join>> \in Seq(Messages) /\ \A r : NoNews(<<Enter, Join>>, r)
  <2>1. <<Enter, Join>> \in Seq(Messages)
    BY MessagesAre
  <2>2. Enter.type \notin News /\ Join.type \notin News
    BY MessagesAre DEF News
  <2> QED
    BY <2>1, <2>2 DEF NoNews, NewsOf
<1>4. Speakers'
  <2>1. \A n \in Nodes, p \in Peers : \A k \in 1..Len(<<Enter, Join>>) : Fits(<<Enter, Join>>[k], n, p)
    BY MessagesAre DEF Fits, News
  <2>2. \A n \in Nodes, p \in Peers :
           \/ Stays(n, p)
           \/ \E d \in Seq(Messages) : /\ channel'[n][p] = channel[n][p] \o d
                                       /\ \A k \in 1..Len(d) : Fits(d[k], n, p)
    BY <1>2, <1>3, <2>1 DEF Stays
  <2> QED
    BY <1>1, <2>2, SpeakersKept DEF KInv
<1>5. ASSUME Calm, NEW r \in Agents, NEW p \in Peers, Reached(r, p) PROVE InformedAt(r, p)'
  <2>1. Node(Home[r]) \in Nodes /\ Node(p) \in Nodes /\ Home[r] \in Peers
    BY <1>5, CalmFacts DEF KInv
  <2>2. {Node(Home[r]), Node(p)} # {Node(p0), Node(q0)}
    BY <1>1, <1>5 DEF Reached, Link
  <2>3. Stays(Node(Home[r]), p) /\ Stays(Node(p), Home[r])
    BY <1>2, <2>1, <2>2 DEF Stays
  <2>4. NewsRight(r, p) /\ JoinRight(r, p)
    BY <1>1, <2>3 DEF NewsRight, JoinRight
  <2> QED
    BY <1>1, <1>5, <2>4, InformedKept
<1>6. ASSUME Calm, NEW r \in Agents, NEW p \in Peers, Home[r] # p,
             {Node(Home[r]), Node(p)} = {Node(p0), Node(q0)}
      PROVE  InformedAt(r, p)'
  <2>1. Home[r] \in Peers /\ ((Home[r] = p0 /\ p = q0) \/ (Home[r] = q0 /\ p = p0))
    <3>1. Home[r] \in Peers
      BY NodesAre
    <3>2. Node(Home[r]) \in {Node(p0), Node(q0)} /\ Node(p) \in {Node(p0), Node(q0)}
      BY <1>6
    <3> QED
      BY <1>6, <3>1, <3>2, NodesAre
  <2>2. Node(Home[r]) \in Nodes /\ Node(p) \in Nodes /\ Live(Node(Home[r])) /\ Live(Node(p))
    BY <1>1, <2>1, NodesAre DEF KInv, Shape, Places, UpIsNode, Live
  <2>3. ~Link(Node(Home[r]), p) /\ ~Link(Node(p), Home[r])
    <3>1. {Node(p), Node(Home[r])} = {Node(Home[r]), Node(p)}
      OBVIOUS
    <3> QED
      BY <1>1, <1>6, <3>1 DEF Link
  <2>4. ~Met(Node(Home[r]), p) /\ ~Met(Node(p), Home[r])
    BY <1>1, <1>6, <2>1, <2>2, <2>3, NodesAre DEF KInv, Shape, Places, MetLinked
  <2>5. channel'[Node(Home[r])][p] = <<Enter, Join>> /\ channel'[Node(p)][Home[r]] = <<Enter, Join>>
    <3>1. channel[Node(Home[r])][p] = <<>> /\ channel[Node(p)][Home[r]] = <<>>
      BY <2>4 DEF Met
    <3>2. <<>> \o <<Enter, Join>> = <<Enter, Join>>
      BY <1>3, ConcatEmptySeq
    <3>3. /\ channel'[Node(Home[r])][p] = channel[Node(Home[r])][p] \o <<Enter, Join>>
          /\ channel'[Node(p)][Home[r]] = channel[Node(p)][Home[r]] \o <<Enter, Join>>
      BY <1>2, <2>1, <2>2
    <3> QED
      BY <3>1, <3>2, <3>3
  <2>6. JoinComes(<<Enter, Join>>)
    BY MessagesAre DEF JoinComes
  <2>7. CASE r \in active
    <3>1. JoinComes(Back(r, p))' <=> JoinComes(channel'[Node(p)][Home[r]])
      BY <1>1 DEF Back, JoinComes, Node
    <3> QED
      BY <1>1, <2>5, <2>6, <2>7, <3>1 DEF InformedAt
  <2>8. CASE r \notin active
    <3>1. remotes[p][r] = None
      BY <1>6, <2>4, CalmFacts DEF KInv
    <3>2. Forgotten(r, p)' <=> Ends(channel'[Node(Home[r])][p], r, "AGENT_EXIT", remotes'[p][r] = None)
      BY <1>1 DEF Forgotten, From, Node
    <3> QED
      BY <1>1, <1>3, <2>5, <2>8, <3>1, <3>2 DEF InformedAt, Ends
  <2> QED
    BY <2>7, <2>8
<1>7. Informed'
  <2> SUFFICES ASSUME Calm', NEW r \in Agents, NEW p \in Peers, Reached(r, p)' PROVE InformedAt(r, p)'
    BY DEF Informed
  <2>1. Calm /\ Home[r] # p /\ {Node(Home[r]), Node(p)} \in links'
    BY <1>1 DEF Calm, Reached, Link, Node
  <2>2. CASE {Node(Home[r]), Node(p)} \in links
    BY <1>5, <2>1, <2>2 DEF Reached, Link
  <2>3. CASE {Node(Home[r]), Node(p)} = {Node(p0), Node(q0)}
    BY <1>6, <2>1, <2>3
  <2> QED
    BY <1>1, <2>1, <2>2, <2>3
<1>8. UpSinceStarted'
  BY <1>1 DEF KInv, UpSinceStarted, Calm
<1> QED
  BY <1>4, <1>7, <1>8 DEF Known

LEMMA ReconnectKnown ==
  ASSUME KInv, NEW p0 \in Peers, NEW q0 \in Peers, Reconnect(p0, q0)
  PROVE  Known'
<1>1. UNCHANGED <<active, needDef, up, started, links, remotes>> /\ UserOperation("reconnect")
  BY DEF Reconnect, agentVars, registryVars, zyreVars
<1>2. \A m \in Nodes, r \in Peers :
        channel'[m][r] = IF m = Node(p0) /\ r = q0
                         THEN channel[m][r] \o <<Enter, Join, Exit>> ELSE channel[m][r]
  <2>1. channel \in Channels /\ UpIsNode
    BY DEF KInv, Shape, TypeOK, Places, Channels
  <2> QED
    BY <2>1, ReconnectSends
<1> DEFINE d == <<Enter, Join, Exit>>
<1>3. d \in Seq(Messages) /\ (\A r : NoNews(d, r)) /\ \A n, p : \A k \in 1..Len(d) : Fits(d[k], n, p)
  <2>1. d \in Seq(Messages)
    BY MessagesAre
  <2>2. \A k \in 1..Len(d) : d[k].type \notin News /\ d[k].type # "KNOWS"
    BY MessagesAre DEF News
  <2> HIDE DEF d
  <2> QED
    BY <2>1, <2>2 DEF NoNews, NewsOf, Fits
<1> HIDE DEF d
<1>4. \A m \in Nodes, r \in Peers : Stays(m, r) \/ Gets(m, r, d)
  BY <1>2, <1>3 DEF Stays, Gets, d
<1>5. Speakers'
  <2>1. \A m \in Nodes, r \in Peers :
           \/ Stays(m, r)
           \/ \E e \in Seq(Messages) : /\ channel'[m][r] = channel[m][r] \o e
                                       /\ \A k \in 1..Len(e) : Fits(e[k], m, r)
    BY <1>3, <1>4 DEF Gets
  <2> QED
    BY <1>1, <2>1, SpeakersKept DEF KInv
<1>6. Calm' => Calm
  BY <1>1, UsersCalm DEF KInv
<1>7. ASSUME NEW r \in Agents, NEW p \in Peers, Calm, Reached(r, p) PROVE InformedAt(r, p)'
  <2>1. Node(Home[r]) \in Nodes /\ Node(p) \in Nodes /\ Home[r] \in Peers
    BY <1>7, CalmFacts DEF KInv
  <2>2. NewsRight(r, p) /\ JoinRight(r, p)
    BY <1>1, <1>3, <1>4, <2>1 DEF NewsRight, JoinRight, Gets
  <2> QED
    BY <1>1, <1>7, <2>2, InformedKept
<1> QED
  BY <1>1, <1>5, <1>6, <1>7, InformedAll DEF Known

LEMMA ActivateKnown ==
  ASSUME KInv, NEW a \in Agents, Activate(a)
  PROVE  Known'
<1>1. /\ UNCHANGED <<up, started, links, channel, remotes>> /\ UserOperation("activate")
      /\ active' = active \cup {a} /\ needDef' = [needDef EXCEPT ![a] = TRUE]
  BY DEF Activate, zyreVars, registryVars
<1>2. Speakers'
  BY <1>1 DEF KInv, Speakers, Fits
<1>3. needDef'[a] /\ \A r \in Agents : needDef[r] => needDef'[r]
  BY <1>1 DEF KInv, Shape, TypeOK
<1>4. Calm' => Calm
  BY <1>1, UsersCalm DEF KInv
<1>5. ASSUME NEW r \in Agents, NEW p \in Peers, Calm, Reached(r, p) PROVE InformedAt(r, p)'
  <2>1. CASE r = a
    BY <1>1, <1>3, <2>1 DEF InformedAt
  <2>2. CASE r # a
    <3>1. NewsRight(r, p) /\ JoinRight(r, p)
      BY <1>1 DEF NewsRight, JoinRight, Stays
    <3> QED
      BY <1>1, <1>3, <1>5, <2>2, <3>1, InformedKept
  <2> QED
    BY <2>1, <2>2
<1> QED
  BY <1>1, <1>2, <1>4, <1>5, InformedAll DEF Known

\* News of one agent.
LEMMA OneNews ==
  ASSUME NEW m \in Messages, m.type \in News
  PROVE  /\ <<m>> \in Seq(Messages) /\ LastNews(<<m>>, m.agent, m.type)
         /\ \A r : r # m.agent => NoNews(<<m>>, r)
  BY DEF LastNews, NoNews, NewsOf

LEMMA DeactivateKnown ==
  ASSUME KInv, NEW a \in Agents, Deactivate(a)
  PROVE  Known'
<1>1. /\ UNCHANGED <<needDef, up, started, links, remotes>> /\ UserOperation("activate")
      /\ active' = active \ {a}
  BY DEF Deactivate, zyreVars, registryVars
<1>2. \A m \in Nodes, q \in Peers :
        channel'[m][q] = IF /\ up[Home[a]] /\ m = Node(Home[a]) /\ up[q]
                            /\ Node(q) \in Linked(Node(Home[a]))
                         THEN channel[m][q] \o <<AgentExit(a)>> ELSE channel[m][q]
  <2>1. channel \in Channels /\ UpIsNode
    BY DEF KInv, Shape, TypeOK, Places, Channels
  <2> QED
    BY <2>1, DeactivateSends
<1> DEFINE d == <<AgentExit(a)>>
<1>3. /\ d \in Seq(Messages) /\ LastNews(d, a, "AGENT_EXIT") /\ \A r : r # a => NoNews(d, r)
      /\ Len(d) = 1 /\ d[1] = AgentExit(a)
  <2>1. AgentExit(a) \in Messages /\ AgentExit(a).type = "AGENT_EXIT" /\ AgentExit(a).agent = a
    BY MessagesAre
  <2> QED
    BY <2>1, OneNews DEF News
<1> HIDE DEF d
<1>4. \A m \in Nodes, q \in Peers : Stays(m, q) \/ (Gets(m, q, d) /\ m = Node(Home[a]))
  BY <1>2, <1>3 DEF Stays, Gets, d
<1>5. Speakers'
  <2>1. ASSUME NEW m \in Nodes, NEW q \in Peers, m = Node(Home[a]), NEW k \in 1..Len(d)
        PROVE  Fits(d[k], m, q)
    <3>1. k = 1 /\ d[k] = AgentExit(a)
      BY <1>3
    <3> QED
      BY <2>1, <3>1, MessagesAre, NodesAre DEF Fits
  <2>2. \A m \in Nodes, r \in Peers :
           \/ Stays(m, r)
           \/ \E e \in Seq(Messages) : /\ channel'[m][r] = channel[m][r] \o e
                                       /\ \A k \in 1..Len(e) : Fits(e[k], m, r)
    BY <1>3, <1>4, <2>1 DEF Gets
  <2> QED
    BY <1>1, <2>2, SpeakersKept DEF KInv
<1>6. Calm' => Calm
  BY <1>1, UsersCalm DEF KInv
<1>7. ASSUME NEW r \in Agents, NEW p \in Peers, Calm, Reached(r, p) PROVE InformedAt(r, p)'
  <2>1. /\ Node(Home[r]) \in Nodes /\ Node(p) \in Nodes /\ Home[r] \in Peers /\ up[p] /\ up[Home[r]]
        /\ Node(p) \in Linked(Node(Home[r]))
    BY <1>7, CalmFacts DEF KInv
  <2>2. CASE r = a
    <3>1. channel'[Node(Home[r])][p] = From(r, p) \o d
      BY <1>2, <2>1, <2>2 DEF From, d
    <3>2. From(r, p) \in Seq(Messages)
      BY <2>1 DEF KInv, Shape, TypeOK, From
    <3>3. LastNews(channel'[Node(Home[r])][p], r, "AGENT_EXIT")
      BY <1>3, <2>2, <3>1, <3>2, EndsAdded
    <3>4. Forgotten(r, p)' <=> Ends(channel'[Node(Home[r])][p], r, "AGENT_EXIT", remotes'[p][r] = None)
      BY <1>1 DEF Forgotten, From, Node
    <3> QED
      BY <1>1, <2>2, <3>3, <3>4 DEF InformedAt, Ends
  <2>3. CASE r # a
    <3>1. NewsRight(r, p) /\ JoinRight(r, p)
      BY <1>1, <1>3, <1>4, <2>1, <2>3 DEF NewsRight, JoinRight, Gets
    <3> QED
      BY <1>1, <1>7, <2>3, <3>1, InformedKept
  <2> QED
    BY <2>2, <2>3
<1> QED
  BY <1>1, <1>5, <1>6, <1>7, InformedAll DEF Known

LEMMA SendDefinitionKnown ==
  ASSUME KInv, NEW a \in Agents, SendDefinition(a)
  PROVE  Known'
<1>1. /\ UNCHANGED <<active, up, started, links, remotes, known, churn>>
      /\ a \in active /\ needDef' = [needDef EXCEPT ![a] = FALSE]
  BY DEF SendDefinition, zyreVars, registryVars
<1>2. \A m \in Nodes, q \in Peers :
        channel'[m][q] = IF /\ m = Node(Home[a]) /\ up[q] /\ Node(q) \in Linked(Node(Home[a]))
                            /\ known[Home[a]][Node(q)] = "joined"
                         THEN channel[m][q] \o <<Definition(a, atRuntime[a])>>
                         ELSE channel[m][q]
  <2>1. channel \in Channels /\ UpIsNode /\ atRuntime \in [Agents -> BOOLEAN]
    BY DEF KInv, Shape, TypeOK, Places, Channels
  <2> QED
    BY <2>1, SendDefinitionSends
<1> DEFINE def == Definition(a, atRuntime[a])
           d == <<def>>
<1>3. /\ d \in Seq(Messages) /\ LastNews(d, a, "DEFINITION") /\ \A r : r # a => NoNews(d, r)
      /\ Len(d) = 1 /\ d[1] = def /\ def.type = "DEFINITION" /\ def.agent = a
  <2>1. def \in Messages /\ def.type = "DEFINITION" /\ def.agent = a
    BY MessagesAre DEF KInv, Shape, TypeOK
  <2> HIDE DEF def
  <2> QED
    BY <2>1, OneNews DEF News
<1> HIDE DEF d
<1>4. \A m \in Nodes, q \in Peers : Stays(m, q) \/ (Gets(m, q, d) /\ m = Node(Home[a]))
  BY <1>2, <1>3 DEF Stays, Gets, d
<1> HIDE DEF def
<1>5. Speakers'
  <2>1. ASSUME NEW m \in Nodes, NEW q \in Peers, m = Node(Home[a]), NEW k \in 1..Len(d)
        PROVE  Fits(d[k], m, q)
    <3>1. k = 1 /\ d[k] = def
      BY <1>3
    <3> QED
      BY <1>3, <2>1, <3>1, NodesAre DEF Fits
  <2>2. \A m \in Nodes, r \in Peers :
           \/ Stays(m, r)
           \/ \E e \in Seq(Messages) : /\ channel'[m][r] = channel[m][r] \o e
                                       /\ \A k \in 1..Len(e) : Fits(e[k], m, r)
    BY <1>3, <1>4, <2>1 DEF Gets
  <2> QED
    BY <1>1, <2>2, SpeakersKept DEF KInv
<1>6. Calm' => Calm
  BY <1>1 DEF Calm
<1>7. ASSUME NEW r \in Agents, NEW p \in Peers, Calm, Reached(r, p) PROVE InformedAt(r, p)'
  <2>1. /\ Node(Home[r]) \in Nodes /\ Node(p) \in Nodes /\ Home[r] \in Peers /\ up[p] /\ up[Home[r]]
        /\ Node(p) \in Linked(Node(Home[r])) /\ Met(Node(p), Home[r]) /\ Node(p) # Node(Home[r])
    BY <1>7, CalmFacts DEF KInv
  <2>2. CASE r = a /\ known[Home[a]][Node(p)] = "joined"
    <3>1. channel'[Node(Home[r])][p] = From(r, p) \o d
      BY <1>2, <2>1, <2>2 DEF From, d, def
    <3>2. From(r, p) \in Seq(Messages)
      BY <2>1 DEF KInv, Shape, TypeOK, From
    <3>3. LastNews(channel'[Node(Home[r])][p], r, "DEFINITION")
      BY <1>3, <2>2, <3>1, <3>2, EndsAdded
    <3>4. Remembered(r, p)' <=> Ends(channel'[Node(Home[r])][p], r, "DEFINITION", remotes'[p][r] # None)
      BY <1>1 DEF Remembered, From, Node
    <3> QED
      BY <1>1, <2>2, <3>3, <3>4 DEF InformedAt, Ends
  <2>3. CASE r = a /\ known[Home[a]][Node(p)] # "joined"
    <3> DEFINE c == Back(r, p)
    <3>1. channel'[Node(p)][Home[r]] = c
      BY <1>2, <2>1, <2>3 DEF Back
    <3>2. Pair(c, known[Home[r]][Node(p)], reconnected[Home[r]][Node(p)], leaving[Home[r]] = Node(p), Live(Node(p)))
      BY <2>1 DEF KInv, Shape, Pairs, PairAt, Back
    <3>3. known[Home[r]][Node(p)] \in Table /\ c \in Seq(Messages)
      BY <2>1 DEF KInv, Shape, TypeOK, Table, Back
    <3>4. c # <<>> \/ known[Home[r]][Node(p)] # "unknown"
      BY <2>1 DEF Met, Back
    <3> HIDE DEF c
    <3>5. Opens(c) \/ (c # <<>> /\ c[1] = Join)
      BY <2>3, <3>2, <3>3, <3>4 DEF Pair, Table
    <3>6. JoinComes(c)
      <4>1. c # <<>> => Len(c) > 0 /\ Len(c) \in Nat
        BY <3>3, TailIs
      <4>2. Len(c) \in Nat
        BY <3>3, LenProperties
      <4> QED
        BY <3>5, <4>1, <4>2, MessagesAre DEF Opens, JoinComes
    <3>7. JoinComes(Back(r, p))' <=> JoinComes(channel'[Node(p)][Home[r]])
      BY <1>1 DEF Back, JoinComes, Node
    <3> QED
      BY <1>1, <2>3, <3>1, <3>6, <3>7 DEF InformedAt
  <2>4. CASE r # a
    <3>1. NewsRight(r, p) /\ JoinRight(r, p)
      BY <1>1, <1>3, <1>4, <2>1, <2>4 DEF NewsRight, JoinRight, Gets
    <3>2. needDef[r] => needDef'[r]
      BY <1>1, <2>4 DEF KInv, Shape, TypeOK
    <3> QED
      BY <1>1, <1>7, <2>4, <3>1, <3>2, InformedKept
  <2> QED
    BY <2>2, <2>3, <2>4
<1> QED
  BY <1>1, <1>5, <1>6, <1>7, InformedAll DEF Known

\* The head of a channel that is received: types and meaning.
LEMMA HeadIs ==
  ASSUME Shape, Speakers, NEW n \in Nodes, NEW p \in Peers, NEW type, Next1(n, p, type)
  PROVE  /\ channel \in Channels /\ channel[n][p] \in Seq(Messages) /\ channel[n][p] # <<>>
         /\ channel[n][p][1] = Head(channel[n][p]) /\ channel[n][p][1] \in Messages
         /\ channel[n][p][1].type = type /\ Fits(channel[n][p][1], n, p)
         /\ Met(n, p) /\ n[1] # p /\ up[p]
<1> DEFINE c == channel[n][p]
<1>1. channel \in Channels /\ c \in Seq(Messages) /\ c # <<>> /\ Met(n, p) /\ n[1] # p /\ up[p]
  BY Handling
<1>2. \A k \in 1..Len(c) : Fits(c[k], n, p)
  BY DEF Speakers
<1>3. Head(c).type = type
  BY DEF Next1
<1> HIDE DEF c
<1>4. c[1] = Head(c) /\ Head(c) \in Messages /\ 1 \in 1..Len(c)
  BY <1>1, TailIs
<1>5. Fits(c[1], n, p) /\ c[1].type = type
  BY <1>2, <1>3, <1>4
<1> QED
  BY <1>1, <1>4, <1>5 DEF c

\* A message that is neither news nor a JOIN is received, and nothing else.
LEMMA TakenKnown ==
  ASSUME KInv, NEW n \in Nodes, NEW p0 \in Peers, NEW type, Next1(n, p0, type),
         type \notin {"DEFINITION", "AGENT_EXIT", "JOIN"}, channel' = Rest(n, p0),
         UNCHANGED <<active, needDef, up, started, links, remotes, churn>>
  PROVE  Known'
<1>1. /\ channel \in Channels /\ channel[n][p0] # <<>>
      /\ channel[n][p0][1].type \notin News /\ channel[n][p0][1].type # "JOIN"
  <2>1. /\ channel \in Channels /\ channel[n][p0] # <<>> /\ channel[n][p0][1].type = type
    BY HeadIs DEF KInv
  <2> QED
    BY <2>1 DEF News
<1>2. \A m \in Nodes, q \in Peers :
        channel'[m][q] = IF m = n /\ q = p0 THEN Tail(channel[n][p0]) ELSE channel[m][q]
  BY <1>1, RestIs
<1>3. \A m \in Nodes, q \in Peers : Stays(m, q) \/ (m = n /\ q = p0 /\ Loses(m, q))
  BY <1>1, <1>2 DEF Stays, Loses
<1>4. Speakers'
  BY <1>3, SpeakersKept DEF KInv
<1>5. ASSUME NEW r \in Agents, NEW p \in Peers, Calm, Reached(r, p) PROVE InformedAt(r, p)'
  <2>1. Node(Home[r]) \in Nodes /\ Node(p) \in Nodes /\ Home[r] \in Peers
    BY <1>5, CalmFacts DEF KInv
  <2>2. NewsRight(r, p)
    BY <1>1, <1>3, <2>1 DEF NewsRight, From, NewsOf
  <2>3. JoinRight(r, p)
    BY <1>1, <1>3, <2>1 DEF JoinRight, Back
  <2> QED
    BY <1>5, <2>2, <2>3, InformedKept
<1> QED
  BY <1>4, <1>5, InformedAll DEF Known, Calm

\* Announcements are about the active agents of the peer, and of them only.
LEMMA AnnouncementIs ==
  ASSUME NEW p \in Peers, NEW list, Announcement(p, list), active \subseteq Agents
  PROVE  /\ list \in Seq(Messages)
         /\ \A k \in 1..Len(list) : /\ list[k].type = "DEFINITION" /\ Home[list[k].agent] = p
         /\ \A r : r \notin active \cap On(p) => NoNews(list, r)
         /\ \A r \in active \cap On(p) : LastNews(list, r, "DEFINITION")
<1>1. list \in Seq(Messages) /\ Len(list) \in Nat
  BY LenProperties DEF Announcement
<1>2. ASSUME NEW k \in 1..Len(list)
      PROVE  /\ list[k].type = "DEFINITION" /\ Home[list[k].agent] = p
             /\ list[k].agent \in active \cap On(p)
  <2>1. PICK a \in active \cap On(p) : list[k] = Definition(a, FALSE)
    BY DEF Announcement, NewcomerAgents
  <2>2. a \in Agents /\ Home[a] = p
    BY DEF On
  <2>3. list[k].type = "DEFINITION" /\ list[k].agent = a
    BY <2>1 DEF Definition
  <2> QED
    BY <2>1, <2>2, <2>3
<1>3. ASSUME NEW r, r \notin active \cap On(p) PROVE NoNews(list, r)
  BY <1>2, <1>3 DEF NoNews, NewsOf
<1>4. ASSUME NEW r \in active \cap On(p) PROVE LastNews(list, r, "DEFINITION")
  <2>1. PICK k \in 1..Len(list) : list[k] = Definition(r, FALSE)
    BY DEF Announcement, NewcomerAgents
  <2>2. list[k].type = "DEFINITION" /\ list[k].agent = r
    <3>1. r \in Agents /\ FALSE \in BOOLEAN
      BY DEF On
    <3>2. Definition(r, FALSE).type = "DEFINITION" /\ Definition(r, FALSE).agent = r
      BY <3>1, MessagesAre
    <3> QED
      BY <2>1, <3>2
  <2>3. ASSUME NEW l \in 1..Len(list), k < l PROVE ~NewsOf(list[l], r)
    BY <2>2, <2>3 DEF Announcement, NewsOf
  <2> QED
    BY <2>2, <2>3 DEF LastNews, NewsOf, News
<1> QED
  BY <1>1, <1>2, <1>3, <1>4

LEMMA RecvJoinKnown ==
  ASSUME KInv, NEW n \in Nodes, NEW p0 \in Peers, RecvJoin(n, p0)
  PROVE  Known'
<1>1. /\ UNCHANGED <<active, needDef, up, started, links, remotes, churn>> /\ Next1(n, p0, "JOIN")
  BY DEF RecvJoin, agentVars, zyreVars
<1>2. /\ channel \in Channels /\ channel[n][p0] # <<>> /\ channel[n][p0][1].type = "JOIN"
      /\ n[1] # p0 /\ Met(n, p0) /\ up[p0]
  BY <1>1, HeadIs DEF KInv
<1>3. \E list : /\ Announcement(p0, list)
                /\ \A m \in Nodes, q \in Peers :
                     channel'[m][q] =
                       IF m = n /\ q = p0 THEN Tail(channel[n][p0])
                       ELSE IF m = Node(p0) /\ up[q] /\ Node(q) = n /\ n \in Linked(Node(p0))
                       THEN channel[m][q] \o list ELSE channel[m][q]
  <2>1. UpIsNode /\ active \subseteq Agents
    BY DEF KInv, Shape, Places, TypeOK
  <2> QED
    BY <1>2, <2>1, RecvJoinSends
<1>4. PICK list : /\ Announcement(p0, list)
                  /\ \A m \in Nodes, q \in Peers :
                       channel'[m][q] =
                         IF m = n /\ q = p0 THEN Tail(channel[n][p0])
                         ELSE IF m = Node(p0) /\ up[q] /\ Node(q) = n /\ n \in Linked(Node(p0))
                         THEN channel[m][q] \o list ELSE channel[m][q]
  BY <1>3
<1>5. /\ list \in Seq(Messages)
      /\ \A k \in 1..Len(list) : list[k].type = "DEFINITION" /\ Home[list[k].agent] = p0
      /\ \A r : r \notin active \cap On(p0) => NoNews(list, r)
      /\ \A r \in active \cap On(p0) : LastNews(list, r, "DEFINITION")
  <2>1. active \subseteq Agents
    BY DEF KInv, Shape, TypeOK
  <2>2. Announcement(p0, list)
    BY <1>4
  <2> QED
    BY <2>1, <2>2, AnnouncementIs
<1>6. \A m \in Nodes, q \in Peers :
        \/ Stays(m, q) \/ (m = n /\ q = p0 /\ Loses(m, q))
        \/ (m = Node(p0) /\ Node(q) = n /\ Gets(m, q, list))
  <2> SUFFICES ASSUME NEW m \in Nodes, NEW q \in Peers
               PROVE  \/ Stays(m, q) \/ (m = n /\ q = p0 /\ Loses(m, q))
                      \/ (m = Node(p0) /\ Node(q) = n /\ Gets(m, q, list))
    OBVIOUS
  <2>1. CASE m = n /\ q = p0
    BY <1>2, <1>4, <2>1 DEF Loses
  <2>2. CASE ~(m = n /\ q = p0)
    <3>1. \/ m = Node(p0) /\ Node(q) = n /\ channel'[m][q] = channel[m][q] \o list
          \/ channel'[m][q] = channel[m][q]
      BY <1>4, <2>2
    <3> QED
      BY <1>5, <3>1 DEF Stays, Gets
  <2> QED
    BY <2>1, <2>2
<1>7. Speakers'
  <2>1. ASSUME NEW m \in Nodes, NEW q \in Peers, m = Node(p0), NEW k \in 1..Len(list)
        PROVE  Fits(list[k], m, q)
    BY <1>5, <2>1, NodesAre DEF Fits
  <2>2. \A m \in Nodes, q \in Peers :
           \/ Stays(m, q) \/ Loses(m, q)
           \/ \E e \in Seq(Messages) : /\ channel'[m][q] = channel[m][q] \o e
                                       /\ \A k \in 1..Len(e) : Fits(e[k], m, q)
    BY <1>6, <2>1 DEF Gets
  <2> QED
    BY <1>1, <2>2, SpeakersKept DEF KInv
<1>8. ASSUME NEW r \in Agents, NEW p \in Peers, Calm, Reached(r, p) PROVE InformedAt(r, p)'
  <2>1. /\ Node(Home[r]) \in Nodes /\ Node(p) \in Nodes /\ Home[r] \in Peers /\ up[p]
        /\ Node(p) \in Linked(Node(Home[r])) /\ Node(p) # Node(Home[r]) /\ Home[r] # p
    BY <1>8, CalmFacts DEF KInv, Reached
  <2>2. CASE r \in active /\ Home[r] = p0 /\ n = Node(p)
    <3>1. channel'[Node(Home[r])][p] = From(r, p) \o list
      BY <1>4, <2>1, <2>2 DEF From
    <3>2. From(r, p) \in Seq(Messages)
      BY <2>1 DEF KInv, Shape, TypeOK, From
    <3>3. LastNews(channel'[Node(Home[r])][p], r, "DEFINITION")
      BY <1>5, <2>2, <3>1, <3>2, EndsAdded DEF On
    <3>4. Remembered(r, p)' <=> Ends(channel'[Node(Home[r])][p], r, "DEFINITION", remotes'[p][r] # None)
      BY <1>1 DEF Remembered, From, Node
    <3> QED
      BY <1>1, <2>2, <3>3, <3>4 DEF InformedAt, Ends
  <2>3. CASE r \notin active /\ Home[r] = p0 /\ n = Node(p)
    <3>1. NewsRight(r, p)
      BY <1>1, <1>5, <1>6, <2>1, <2>3, NodesAre DEF NewsRight
    <3>2. Forgotten(r, p)
      BY <1>8, <2>3 DEF KInv, Informed, InformedAt
    <3>3. Forgotten(r, p)'
      BY <1>1, <1>8, <3>1, <3>2, NewsKept DEF KInv
    <3> QED
      BY <1>1, <2>3, <3>3 DEF InformedAt
  <2>4. CASE ~(Home[r] = p0 /\ n = Node(p))
    <3>1. \/ Stays(Node(Home[r]), p) \/ (Loses(Node(Home[r]), p) /\ Node(Home[r]) = n /\ p = p0)
      BY <1>6, <2>1, <2>4, NodesAre
    <3>2. NewsRight(r, p)
      BY <1>1, <1>2, <3>1 DEF NewsRight, From, NewsOf, News
    <3>3. JoinRight(r, p)
      BY <1>5, <1>6, <2>1, <2>4 DEF JoinRight, Gets
    <3> QED
      BY <1>1, <1>8, <3>2, <3>3, InformedKept
  <2> QED
    BY <2>2, <2>3, <2>4
<1> QED
  BY <1>1, <1>7, <1>8, InformedAll DEF Known, Calm

LEMMA RecvDefinitionKnown ==
  ASSUME KInv, NEW n \in Nodes, NEW p0 \in Peers, RecvDefinition(n, p0)
  PROVE  Known'
<1> DEFINE a == Head(channel[n][p0]).agent
<1>1. /\ UNCHANGED <<active, needDef, up, started, links, churn>> /\ Next1(n, p0, "DEFINITION")
      /\ IF remotes[p0][a] = None THEN remotes' = [remotes EXCEPT ![p0][a] = n]
         ELSE UNCHANGED remotes
  BY DEF RecvDefinition, agentVars, zyreVars
<1>2. /\ channel \in Channels /\ channel[n][p0] # <<>> /\ channel[n][p0][1].type = "DEFINITION"
      /\ n[1] # p0 /\ Fits(channel[n][p0][1], n, p0) /\ channel[n][p0][1].agent = a
      /\ Met(n, p0)
  <2>1. channel[n][p0][1].type = "DEFINITION" /\ channel[n][p0][1] = Head(channel[n][p0])
    BY <1>1, HeadIs DEF KInv
  <2>2. /\ channel \in Channels /\ channel[n][p0] # <<>>
        /\ n[1] # p0 /\ Fits(channel[n][p0][1], n, p0) /\ Met(n, p0)
    BY <1>1, HeadIs DEF KInv
  <2> QED
    BY <2>1, <2>2
<1>3. /\ a \in Agents
      /\ \A m \in Nodes, q \in Peers :
           channel'[m][q] =
             IF m = n /\ q = p0 THEN Tail(channel[n][p0])
             ELSE IF /\ remotes[p0][a] = None
                     /\ m = Node(p0) /\ up[q] /\ Node(q) = n /\ n \in Linked(Node(p0))
             THEN channel[m][q] \o <<Knows(a)>> ELSE channel[m][q]
  <2>1. UpIsNode
    BY DEF KInv, Shape, Places
  <2> QED
    BY <1>2, <2>1, RecvDefinitionSends
<1>4. Home[a] = n[1]
  BY <1>2, <1>3 DEF Fits, News
<1> HIDE DEF a
<1> DEFINE d == <<Knows(a)>>
<1>5. d \in Seq(Messages) /\ (\A r : NoNews(d, r)) /\ Len(d) = 1 /\ d[1] = Knows(a)
  <2>1. Knows(a) \in Messages /\ Knows(a).type \notin News
    BY <1>3, MessagesAre DEF News
  <2>2. d \in Seq(Messages) /\ Len(d) = 1 /\ d[1] = Knows(a)
    BY <2>1
  <2> HIDE DEF d
  <2> QED
    BY <2>1, <2>2 DEF NoNews, NewsOf
<1> HIDE DEF d
<1>6. \A m \in Nodes, q \in Peers :
        \/ Stays(m, q) \/ (m = n /\ q = p0 /\ Loses(m, q))
        \/ (m = Node(p0) /\ Node(q) = n /\ Gets(m, q, d))
  BY <1>2, <1>3, <1>5 DEF Stays, Gets, Loses, d
<1>7. /\ remotes'[p0][a] # None
      /\ \A q \in Peers, r \in Agents :
           \/ remotes'[q][r] = remotes[q][r]
           \/ q = p0 /\ r = a /\ remotes'[q][r] = n
  <2>1. remotes \in [Peers -> [Agents -> Nodes \cup {None}]]
    BY DEF KInv, Shape, TypeOK
  <2> QED
    BY <1>1, <1>3, <2>1, NodesAre
<1>8. Speakers'
  <2>1. ASSUME NEW m \in Nodes, NEW q \in Peers, Node(q) = n, NEW k \in 1..Len(d)
        PROVE  Fits(d[k], m, q)
    <3>1. k = 1 /\ d[k] = Knows(a) /\ q = Home[a]
      BY <1>4, <1>5, <2>1, NodesAre
    <3> QED
      BY <1>3, <3>1, MessagesAre DEF Fits, News
  <2>2. \A m \in Nodes, q \in Peers :
           \/ Stays(m, q) \/ Loses(m, q)
           \/ \E e \in Seq(Messages) : /\ channel'[m][q] = channel[m][q] \o e
                                       /\ \A k \in 1..Len(e) : Fits(e[k], m, q)
    BY <1>5, <1>6, <2>1 DEF Gets
  <2>3. \A q \in Peers, r \in Agents :
          remotes'[q][r] \in {None, remotes[q][r]} \/ remotes'[q][r][1] = Home[r]
    BY <1>4, <1>7
  <2> QED
    BY <2>2, <2>3, SpeakersKept DEF KInv
<1>9. ASSUME NEW r \in Agents, NEW p \in Peers, Calm, Reached(r, p) PROVE InformedAt(r, p)'
  <2>1. /\ Node(Home[r]) \in Nodes /\ Node(p) \in Nodes /\ Home[r] \in Peers
        /\ n = Node(n[1])
    BY <1>2, <1>9, CalmFacts DEF KInv
  <2>2. NewsRight(r, p)
    <3>1. CASE r = a /\ p = p0
      <4>1. Node(Home[r]) = n
        BY <1>4, <2>1, <3>1
      <4>2. Loses(n, p0)
        BY <1>2, <1>3 DEF Loses
      <4>3. NewsOf(From(r, p)[1], r) /\ From(r, p)[1].type = "DEFINITION"
        BY <1>2, <3>1, <4>1 DEF From, NewsOf, News
      <4> QED
        BY <1>7, <3>1, <4>1, <4>2, <4>3 DEF NewsRight
    <3>2. CASE ~(r = a /\ p = p0)
      <4>1. remotes'[p][r] = remotes[p][r]
        BY <1>7, <3>2
      <4>2. CASE Node(Home[r]) = n /\ p = p0 /\ Loses(n, p0)
        <5>1. ~NewsOf(From(r, p)[1], r)
          BY <1>2, <3>2, <4>2 DEF NewsOf, From
        <5> QED
          BY <4>1, <4>2, <5>1 DEF NewsRight
      <4>3. CASE ~(Node(Home[r]) = n /\ p = p0 /\ Loses(n, p0))
        BY <1>5, <1>6, <2>1, <4>1, <4>3 DEF NewsRight, Gets
      <4> QED
        BY <4>2, <4>3
    <3> QED
      BY <3>1, <3>2
  <2>3. JoinRight(r, p)
    BY <1>2, <1>5, <1>6, <2>1 DEF JoinRight, Back, Gets
  <2> QED
    BY <1>1, <1>9, <2>2, <2>3, InformedKept
<1> QED
  BY <1>1, <1>8, <1>9, InformedAll DEF Known, Calm

LEMMA RecvAgentExitKnown ==
  ASSUME KInv, NEW n \in Nodes, NEW p0 \in Peers, RecvAgentExit(n, p0)
  PROVE  Known'
<1> DEFINE a == Head(channel[n][p0]).agent
<1>1. /\ UNCHANGED <<active, needDef, up, started, links, churn>> /\ Next1(n, p0, "AGENT_EXIT")
      /\ IF remotes[p0][a] # None THEN remotes' = [remotes EXCEPT ![p0][a] = None]
         ELSE UNCHANGED remotes
      /\ channel' = Rest(n, p0)
  BY DEF RecvAgentExit, agentVars, zyreVars
<1>2. /\ channel \in Channels /\ channel[n][p0] # <<>> /\ channel[n][p0][1].type = "AGENT_EXIT"
      /\ Fits(channel[n][p0][1], n, p0) /\ channel[n][p0][1].agent = a /\ Met(n, p0)
  <2>1. channel[n][p0][1].type = "AGENT_EXIT" /\ channel[n][p0][1] = Head(channel[n][p0])
    BY <1>1, HeadIs DEF KInv
  <2>2. /\ channel \in Channels /\ channel[n][p0] # <<>>
        /\ Fits(channel[n][p0][1], n, p0) /\ Met(n, p0)
    BY <1>1, HeadIs DEF KInv
  <2> QED
    BY <2>1, <2>2
<1>3. a \in Agents
  BY RecvAgentExitShape DEF KInv
<1>4. Home[a] = n[1]
  BY <1>2, <1>3 DEF Fits, News
<1> HIDE DEF a
<1>5. \A m \in Nodes, q \in Peers :
        channel'[m][q] = IF m = n /\ q = p0 THEN Tail(channel[n][p0]) ELSE channel[m][q]
  BY <1>1, <1>2, RestIs
<1>6. \A m \in Nodes, q \in Peers : Stays(m, q) \/ (m = n /\ q = p0 /\ Loses(m, q))
  BY <1>2, <1>5 DEF Stays, Loses
<1>7. /\ remotes'[p0][a] = None
      /\ \A q \in Peers, r \in Agents :
           remotes'[q][r] = remotes[q][r] \/ (q = p0 /\ r = a)
  <2>1. remotes \in [Peers -> [Agents -> Nodes \cup {None}]]
    BY DEF KInv, Shape, TypeOK
  <2> QED
    BY <1>1, <1>3, <2>1, NodesAre
<1>8. Speakers'
  <2>1. \A q \in Peers, r \in Agents : remotes'[q][r] \in {None, remotes[q][r]}
    BY <1>7
  <2> QED
    BY <1>6, <2>1, SpeakersKept DEF KInv
<1>9. ASSUME NEW r \in Agents, NEW p \in Peers, Calm, Reached(r, p) PROVE InformedAt(r, p)'
  <2>1. /\ Node(Home[r]) \in Nodes /\ Node(p) \in Nodes /\ Home[r] \in Peers
        /\ n = Node(n[1])
    BY <1>2, <1>9, CalmFacts DEF KInv
  <2>2. NewsRight(r, p)
    <3>1. CASE r = a /\ p = p0
      <4>1. Node(Home[r]) = n
        BY <1>4, <2>1, <3>1
      <4>2. Loses(n, p0)
        BY <1>2, <1>5 DEF Loses
      <4>3. NewsOf(From(r, p)[1], r) /\ From(r, p)[1].type = "AGENT_EXIT"
        BY <1>2, <3>1, <4>1 DEF From, NewsOf, News
      <4> QED
        BY <1>7, <3>1, <4>1, <4>2, <4>3 DEF NewsRight
    <3>2. CASE ~(r = a /\ p = p0)
      <4>1. remotes'[p][r] = remotes[p][r]
        BY <1>7, <3>2
      <4>2. CASE Node(Home[r]) = n /\ p = p0 /\ Loses(n, p0)
        <5>1. ~NewsOf(From(r, p)[1], r)
          BY <1>2, <3>2, <4>2 DEF NewsOf, From
        <5> QED
          BY <4>1, <4>2, <5>1 DEF NewsRight
      <4>3. CASE ~(Node(Home[r]) = n /\ p = p0 /\ Loses(n, p0))
        BY <1>6, <2>1, <4>1, <4>3 DEF NewsRight
      <4> QED
        BY <4>2, <4>3
    <3> QED
      BY <3>1, <3>2
  <2>3. JoinRight(r, p)
    BY <1>2, <1>6, <2>1 DEF JoinRight, Back
  <2> QED
    BY <1>1, <1>9, <2>2, <2>3, InformedKept
<1> QED
  BY <1>1, <1>8, <1>9, InformedAll DEF Known, Calm

LEMMA StartKnown ==
  ASSUME KInv, NEW p0 \in Peers, Start(p0)
  PROVE  Known'
<1>1. /\ UNCHANGED <<active, links, channel, remotes, churn>> /\ ~up[p0]
      /\ up' = [up EXCEPT ![p0] = TRUE] /\ started' = [started EXCEPT ![p0] = @ + 1]
      /\ needDef' = [a \in Agents |-> needDef[a] /\ a \notin active \cap On(p0)]
  BY DEF Start, registryVars
<1>2. up \in [Peers -> BOOLEAN] /\ started \in [Peers -> Nat] /\ needDef \in [Agents -> BOOLEAN]
  BY NodesAre DEF KInv, Shape, TypeOK
<1>3. /\ up'[p0] = TRUE /\ started'[p0] = started[p0] + 1
      /\ \A q \in Peers : q = p0 \/ (up'[q] = up[q] /\ started'[q] = started[q])
  BY <1>1, <1>2
<1>4. Speakers'
  BY <1>1 DEF KInv, Speakers, Fits
<1>5. UpSinceStarted'
  <2> SUFFICES ASSUME Calm, NEW p \in Peers PROVE started'[p] <= 1 /\ (started'[p] = 1 => up'[p])
    BY <1>1 DEF UpSinceStarted, Calm
  <2>1. started[p] <= 1 /\ (started[p] = 1 => up[p]) /\ started[p] \in Nat
    BY <1>2 DEF KInv, UpSinceStarted
  <2> QED
    BY <1>1, <1>3, <2>1
<1>6. Informed'
  <2> SUFFICES ASSUME Calm', NEW r \in Agents, NEW p \in Peers, Reached(r, p)' PROVE InformedAt(r, p)'
    BY DEF Informed
  <2>1. Calm /\ Home[r] # p /\ {Node(Home[r])', Node(p)'} \in links /\ Home[r] \in Peers
    BY <1>1, NodesAre DEF Calm, Reached, Link, Node
  <2>2. PICK p1 \in Peers, p2 \in Peers :
          p1 # p2 /\ up[p1] /\ up[p2] /\ {Node(Home[r])', Node(p)'} = {Node(p1), Node(p2)}
    BY <2>1 DEF KInv, Shape, Places, LinksLive
  <2>3. Home[r] # p0 /\ p # p0
    <3>1. \A q \in Peers : Node(q)'[1] = q
      BY DEF Node
    <3>2. Node(Home[r])' \in {Node(p1), Node(p2)} /\ Node(p)' \in {Node(p1), Node(p2)}
      BY <2>2
    <3>3. Node(p1)[1] = p1 /\ Node(p2)[1] = p2
      BY NodesAre
    <3>4. Home[r] \in {p1, p2} /\ p \in {p1, p2}
      BY <2>1, <3>1, <3>2, <3>3
    <3> QED
      BY <1>1, <2>2, <3>4
  <2>4. Node(Home[r])' = Node(Home[r]) /\ Node(p)' = Node(p)
    BY <1>3, <2>1, <2>3 DEF Node
  <2>5. Reached(r, p) /\ needDef'[r] = needDef[r]
    BY <1>1, <1>2, <2>1, <2>3, <2>4 DEF Reached, Link, On
  <2>6. InformedAt(r, p)
    BY <2>1, <2>5 DEF KInv, Informed
  <2>7. /\ Remembered(r, p)' <=> Remembered(r, p)
        /\ Forgotten(r, p)' <=> Forgotten(r, p)
        /\ JoinComes(Back(r, p))' <=> JoinComes(Back(r, p))
    <3>1. From(r, p)' = From(r, p) /\ Back(r, p)' = Back(r, p)
      BY <1>1, <2>4 DEF From, Back
    <3> QED
      BY <1>1, <3>1 DEF Remembered, Forgotten, JoinComes
  <2> QED
    BY <1>1, <2>5, <2>6, <2>7 DEF InformedAt
<1> QED
  BY <1>4, <1>5, <1>6 DEF Known

LEMMA StopKnown ==
  ASSUME KInv, NEW p0 \in Peers, Stop(p0)
  PROVE  Known'
<1>1. ~Calm'
  BY DEF KInv, Shape, TypeOK, Stop, UserOperation, Calm, Kinds
<1>2. \A m \in Nodes, q \in Peers :
        channel'[m][q] = IF q = p0 THEN <<>>
                         ELSE IF m = Node(p0) /\ up[q] /\ Node(q) \in Linked(m)
                         THEN Append(channel[m][q], Exit) ELSE channel[m][q]
  <2>1. channel \in Channels
    BY DEF KInv, Shape, TypeOK, Channels
  <2> QED
    BY <2>1, StopSends
<1> DEFINE d == <<Exit>>
<1>3. d \in Seq(Messages) /\ \A m, q : \A k \in 1..Len(d) : Fits(d[k], m, q)
  BY MessagesAre DEF Fits, News
<1>4. ASSUME NEW m \in Nodes, NEW q \in Peers
      PROVE  \/ Stays(m, q) \/ channel'[m][q] = <<>> \/ channel'[m][q] = channel[m][q] \o d
  <2> DEFINE c == channel[m][q]
  <2>1. c \in Seq(Messages)
    BY DEF KInv, Shape, TypeOK
  <2>2. Append(c, Exit) = c \o d
    <3> HIDE DEF c
    <3> QED
      BY <2>1, MessagesAre, AppendIsConcat
  <2> HIDE DEF d
  <2> QED
    BY <1>2, <2>2 DEF Stays
<1>5. Speakers'
  <2>1. remotes' = [remotes EXCEPT ![p0] = [r \in Agents |-> None]]
    BY DEF Stop
  <2>2. \A q \in Peers, r \in Agents : remotes'[q][r] \in {None, remotes[q][r]}
    BY <2>1 DEF KInv, Shape, TypeOK
  <2> HIDE DEF d
  <2>3. \A m \in Nodes, q \in Peers :
           \/ Stays(m, q) \/ channel'[m][q] = <<>>
           \/ \E e \in Seq(Messages) : /\ channel'[m][q] = channel[m][q] \o e
                                       /\ \A k \in 1..Len(e) : Fits(e[k], m, q)
    BY <1>3, <1>4
  <2> QED
    BY <2>2, <2>3, SpeakersKept DEF KInv
<1> QED
  BY <1>1, <1>5 DEF Known, UpSinceStarted, Informed

LEMMA ExitStepKnown ==
  ASSUME KInv, NEW p0 \in Peers, ExitStep(p0)
  PROVE  Known'
<1>1. UNCHANGED <<active, up, started, links, channel, churn>> /\ leaving[p0] # None
  BY DEF ExitStep, agentVars, zyreVars
<1>2. ~Calm /\ ~Calm'
  BY <1>1, CalmFacts DEF KInv, Calm
<1>3. \A q \in Peers, r \in Agents : remotes'[q][r] \in {None, remotes[q][r]}
  <2>1. remotes \in [Peers -> [Agents -> Nodes \cup {None}]]
    BY DEF KInv, Shape, TypeOK
  <2>2. CASE UNCHANGED remotes
    BY <2>2
  <2>3. CASE \E r \in Agents : remotes' = [remotes EXCEPT ![p0][r] = None]
    <3>1. PICK r0 \in Agents : remotes' = [remotes EXCEPT ![p0][r0] = None]
      BY <2>3
    <3> QED
      BY <2>1, <3>1
  <2> QED
    BY <2>2, <2>3 DEF ExitStep, Carried
<1>4. Speakers'
  BY <1>1, <1>3, SpeakersKept DEF KInv, Stays
<1> QED
  BY <1>2, <1>4 DEF Known, UpSinceStarted, Informed

LEMMA NextKnown == KInv /\ [Next]_vars => KInv'
<1> SUFFICES ASSUME KInv, [Next]_vars PROVE Known'
  BY NextShape DEF KInv, Known
<1>1. CASE UNCHANGED vars
  <2>1. UNCHANGED <<active, up, started, links, channel, remotes, needDef>> /\ (Calm' => Calm)
    BY <1>1 DEF vars, agentVars, zyreVars, registryVars, Calm
  <2> QED
    BY <2>1, SilentKnown
<1>2. ASSUME NEW p \in Peers, NEW q \in Peers, Connect(p, q) \/ Reconnect(p, q) PROVE Known'
  BY <1>2, ConnectKnown, ReconnectKnown
<1>3. ASSUME NEW a \in Agents, Activate(a) \/ Deactivate(a) PROVE Known'
  BY <1>3, ActivateKnown, DeactivateKnown
<1>4. ASSUME NEW p \in Peers, Start(p) \/ Stop(p) PROVE Known'
  BY <1>4, StartKnown, StopKnown
<1>5. ASSUME NEW p \in Peers, NetworkNext(p) PROVE Known'
  <2>1. ASSUME NEW n \in Nodes, RecvJoin(n, p) \/ RecvDefinition(n, p) \/ RecvAgentExit(n, p)
        PROVE  Known'
    BY <2>1, RecvJoinKnown, RecvDefinitionKnown, RecvAgentExitKnown
  <2>2. ASSUME NEW n \in Nodes, RecvEnter(n, p) PROVE Known'
    <3>1. /\ Next1(n, p, "ENTER") /\ channel' = Rest(n, p)
          /\ UNCHANGED <<active, needDef, up, started, links, remotes, churn>>
      BY <2>2 DEF RecvEnter, agentVars, zyreVars
    <3> QED
      BY <3>1, TakenKnown
  <2>3. ASSUME NEW n \in Nodes, RecvKnows(n, p) PROVE Known'
    <3>1. /\ Next1(n, p, "KNOWS") /\ channel' = Rest(n, p)
          /\ UNCHANGED <<active, needDef, up, started, links, remotes, churn>>
      BY <2>3 DEF RecvKnows, agentVars, zyreVars, registryVars
    <3> QED
      BY <3>1, TakenKnown
  <2>4. ASSUME NEW n \in Nodes, RecvExit(n, p) PROVE Known'
    <3>1. /\ Next1(n, p, "EXIT") /\ channel' = Rest(n, p)
          /\ UNCHANGED <<active, needDef, up, started, links, remotes, churn>>
      BY <2>4 DEF RecvExit, agentVars, zyreVars
    <3> QED
      BY <3>1, TakenKnown
  <2>5. ASSUME NEW a \in On(p), SendDefinition(a) PROVE Known'
    BY <2>5, SendDefinitionKnown DEF On
  <2>6. ASSUME Tell(p) PROVE Known'
    <3>1. UNCHANGED <<active, up, started, links, channel, remotes, needDef>> /\ (Calm' => Calm)
      BY <2>6 DEF Tell, agentVars, zyreVars, registryVars, Calm
    <3> QED
      BY <3>1, SilentKnown
  <2> QED
    BY <1>5, <2>1, <2>2, <2>3, <2>4, <2>5, <2>6, ExitStepKnown DEF NetworkNext
<1> QED
  BY <1>1, <1>2, <1>3, <1>4, <1>5 DEF Next

LEMMA InitKnown == Init => KInv
<1> SUFFICES ASSUME Init PROVE KInv
  OBVIOUS
<1>1. Shape
  BY InitShape
<1>2. Speakers
  BY DEF Init, Speakers
<1>3. UpSinceStarted
  BY DEF Init, UpSinceStarted
<1>4. Informed
  BY DEF Init, Informed, Reached, Link
<1> QED
  BY <1>1, <1>2, <1>3, <1>4 DEF KInv

\* Once nothing is under way, a peer knows exactly the agents that are active.
LEMMA KnownAgree == KInv => RegistryAgrees
<1> SUFFICES ASSUME KInv, Quiet, Calm PROVE Agreement
  BY DEF RegistryAgrees, Calm
<1>0. active \subseteq Agents
  BY DEF KInv, Shape, TypeOK
<1> SUFFICES ASSUME NEW p \in Peers, NEW r \in Agents
             PROVE  remotes[p][r] # None <=> r \in active \ On(p)
  BY <1>0 DEF Agreement
<1>1. Home[r] \in Peers
  BY NodesAre
<1>2. CASE Home[r] = p
  BY <1>2, CalmFacts DEF KInv, On
<1>3. CASE Home[r] # p
  <2>1. Reached(r, p)
    BY <1>1, <1>3 DEF Reached, Link, Quiet
  <2>2. Node(Home[r]) \in Nodes /\ Node(p) \in Nodes
    BY <2>1, CalmFacts DEF KInv
  <2>3. From(r, p) = <<>> /\ Back(r, p) = <<>>
    BY <1>1, <2>2 DEF Quiet, From, Back
  <2>4. ~JoinComes(<<>>) /\ \A t : ~LastNews(<<>>, r, t)
    BY DEF JoinComes, LastNews
  <2>5. InformedAt(r, p)
    BY <2>1 DEF KInv, Informed
  <2>6. r \in active => ~needDef[r]
    BY DEF Quiet
  <2>7. CASE r \in active
    BY <1>3, <2>3, <2>4, <2>5, <2>6, <2>7 DEF InformedAt, Remembered, Ends, On
  <2>8. CASE r \notin active
    BY <2>3, <2>4, <2>5, <2>8 DEF InformedAt, Forgotten, Ends
  <2> QED
    BY <2>7, <2>8
<1> QED
  BY <1>2, <1>3

-----------------------------------------------------------------------------
(***************************************************************************)
(* What agents are told of remote agents, and how an agent comes to be     *)
(* told that a remote agent knows it, as long as no process restarts and   *)
(* no node reconnects.                                                     *)
(***************************************************************************)
Steady == churn["restart"] = 0 /\ churn["reconnect"] = 0

\* Whether an exit of agent a is in queue c, and a confirmation that a is known
\* after place k of c.
ExitComes(c, a) == \E k \in 1..Len(c) : c[k].type = "AGENT_EXIT" /\ c[k].agent = a
KnowsComes(c, a, k) == \E l \in 1..Len(c) : k < l /\ c[l].type = "KNOWS" /\ c[l].agent = a

\* A definition of r without notification.
Plain(m, r) == m.type = "DEFINITION" /\ m.agent = r /\ m.runtime = FALSE

\* Queue c goes from the peer of r to the peer of a.  When a does not hear of r
\* by itself, a confirmation is behind what makes r known.
Answers(c, a, r, here, heard) ==
  /\ here /\ ~ExitComes(c, r) => heard \/ KnowsComes(c, a, 0)
  /\ \A k \in 1..Len(c) : Plain(c[k], r) => KnowsComes(c, a, k)

LEMMA ExitConcat ==
  ASSUME NEW T, NEW c \in Seq(T), NEW d \in Seq(T), NEW a, ExitComes(c, a) \/ ExitComes(d, a)
  PROVE  ExitComes(c \o d, a)
<1> DEFINE e == c \o d
<1>1. /\ Len(e) = Len(c) + Len(d) /\ Len(c) \in Nat /\ Len(d) \in Nat
      /\ \A i \in 1..Len(c) : e[i] = c[i]
      /\ \A i \in 1..Len(d) : e[Len(c) + i] = d[i]
  BY ConcatIs
<1> HIDE DEF e
<1>2. CASE ExitComes(c, a)
  <2>1. PICK k \in 1..Len(c) : c[k].type = "AGENT_EXIT" /\ c[k].agent = a
    BY <1>2 DEF ExitComes
  <2>2. k \in 1..Len(e) /\ e[k] = c[k]
    BY <1>1, <2>1
  <2> QED
    BY <2>1, <2>2 DEF ExitComes, e
<1>3. CASE ExitComes(d, a)
  <2>1. PICK k \in 1..Len(d) : d[k].type = "AGENT_EXIT" /\ d[k].agent = a
    BY <1>3 DEF ExitComes
  <2>2. Len(c) + k \in 1..Len(e) /\ e[Len(c) + k] = d[k]
    BY <1>1, <2>1
  <2> QED
    BY <2>1, <2>2 DEF ExitComes, e
<1> QED
  BY <1>2, <1>3

LEMMA ExitTail ==
  ASSUME NEW T, NEW c \in Seq(T), c # <<>>, NEW a
  PROVE  /\ ExitComes(Tail(c), a) => ExitComes(c, a)
         /\ ExitComes(c, a) => ExitComes(Tail(c), a) \/ (c[1].type = "AGENT_EXIT" /\ c[1].agent = a)
<1> DEFINE e == Tail(c)
<1>1. /\ Len(c) \in Nat /\ Len(c) > 0 /\ Len(e) = Len(c) - 1
      /\ \A i \in 1..Len(c) - 1 : e[i] = c[i + 1]
  BY TailIs
<1> HIDE DEF e
<1>2. ASSUME ExitComes(e, a) PROVE ExitComes(c, a)
  <2>1. PICK k \in 1..Len(e) : e[k].type = "AGENT_EXIT" /\ e[k].agent = a
    BY <1>2 DEF ExitComes
  <2>2. k + 1 \in 1..Len(c) /\ e[k] = c[k + 1]
    BY <1>1, <2>1
  <2> QED
    BY <2>1, <2>2 DEF ExitComes
<1>3. ASSUME ExitComes(c, a) PROVE ExitComes(e, a) \/ (c[1].type = "AGENT_EXIT" /\ c[1].agent = a)
  <2>1. PICK k \in 1..Len(c) : c[k].type = "AGENT_EXIT" /\ c[k].agent = a
    BY <1>3 DEF ExitComes
  <2>2. CASE k = 1
    BY <2>1, <2>2
  <2>3. CASE k # 1
    <3>1. k - 1 \in 1..Len(e) /\ e[k - 1] = c[k]
      BY <1>1, <2>1, <2>3
    <3> QED
      BY <2>1, <3>1 DEF ExitComes
  <2> QED
    BY <2>2, <2>3
<1> QED
  BY <1>2, <1>3 DEF e

LEMMA KnowsConcat ==
  ASSUME NEW T, NEW c \in Seq(T), NEW d \in Seq(T), NEW a, NEW k, KnowsComes(c, a, k)
  PROVE  KnowsComes(c \o d, a, k)
<1>1. PICK l \in 1..Len(c) : k < l /\ c[l].type = "KNOWS" /\ c[l].agent = a
  BY DEF KnowsComes
<1>2. l \in 1..Len(c \o d) /\ (c \o d)[l] = c[l]
  BY ConcatIs
<1> QED
  BY <1>1, <1>2 DEF KnowsComes

\* Once the head is received, places move by one.
LEMMA KnowsTail ==
  ASSUME NEW T, NEW c \in Seq(T), c # <<>>, NEW a, NEW k \in Nat, KnowsComes(c, a, k + 1)
  PROVE  KnowsComes(Tail(c), a, k)
<1> DEFINE e == Tail(c)
<1>1. /\ Len(c) \in Nat /\ Len(c) > 0 /\ Len(e) = Len(c) - 1
      /\ \A i \in 1..Len(c) - 1 : e[i] = c[i + 1]
  BY TailIs
<1> HIDE DEF e
<1>2. PICK l \in 1..Len(c) : k + 1 < l /\ c[l].type = "KNOWS" /\ c[l].agent = a
  BY DEF KnowsComes
<1>3. l - 1 \in 1..Len(e) /\ e[l - 1] = c[l] /\ k < l - 1
  BY <1>1, <1>2
<1> QED
  BY <1>2, <1>3 DEF KnowsComes, e

LEMMA KnowsLater ==
  ASSUME NEW T, NEW c \in Seq(T), NEW a, KnowsComes(c, a, 0), ~(c[1].type = "KNOWS" /\ c[1].agent = a)
  PROVE  KnowsComes(c, a, 1)
<1>1. PICK l \in 1..Len(c) : 0 < l /\ c[l].type = "KNOWS" /\ c[l].agent = a
  BY DEF KnowsComes
<1>2. l # 1 /\ Len(c) \in Nat
  BY <1>1, LenProperties
<1> QED
  BY <1>1, <1>2 DEF KnowsComes

\* Messages that make r known to nobody may follow.
LEMMA AnswersConcat ==
  ASSUME NEW T, NEW c \in Seq(T), NEW d \in Seq(T), NEW a, NEW r,
         NEW here \in BOOLEAN, NEW heard \in BOOLEAN, NEW here2 \in BOOLEAN, NEW heard2 \in BOOLEAN,
         Answers(c, a, r, here, heard), here2 => here, here2 /\ heard => heard2,
         \A k \in 1..Len(d) : ~Plain(d[k], r)
  PROVE  Answers(c \o d, a, r, here2, heard2)
<1> DEFINE e == c \o d
<1>1. /\ Len(e) = Len(c) + Len(d) /\ Len(c) \in Nat /\ Len(d) \in Nat
      /\ \A i \in 1..Len(c) : e[i] = c[i]
      /\ \A i \in 1..Len(e) : i > Len(c) => e[i] = d[i - Len(c)] /\ i - Len(c) \in 1..Len(d)
  BY ConcatIs
<1>2. \A k : KnowsComes(c, a, k) => KnowsComes(e, a, k)
  BY KnowsConcat
<1>3. ExitComes(c, r) => ExitComes(e, r)
  BY ExitConcat
<1> HIDE DEF e
<1>4. here2 /\ ~ExitComes(e, r) => heard2 \/ KnowsComes(e, a, 0)
  BY <1>2, <1>3 DEF Answers
<1>5. ASSUME NEW k \in 1..Len(e), Plain(e[k], r) PROVE KnowsComes(e, a, k)
  <2>1. ~(k > Len(c))
    BY <1>1, <1>5
  <2>2. k \in 1..Len(c) /\ e[k] = c[k]
    BY <1>1, <2>1
  <2>3. KnowsComes(c, a, k)
    BY <1>5, <2>2 DEF Answers
  <2> QED
    BY <1>2, <2>3
<1> QED
  BY <1>4, <1>5 DEF Answers, e

\* A confirmation at the end answers everything.
LEMMA AnswersKnows ==
  ASSUME NEW T, NEW c \in Seq(T), NEW m \in T, NEW a, NEW r, NEW here, NEW heard,
         m.type = "KNOWS", m.agent = a
  PROVE  Answers(c \o <<m>>, a, r, here, heard)
<1> DEFINE d == <<m>>
           e == c \o d
<1>a. d \in Seq(T)
  OBVIOUS
<1>b. Len(d) = 1 /\ d[1] = m
  OBVIOUS
<1> HIDE DEF d
<1>1. /\ Len(e) = Len(c) + 1 /\ Len(c) \in Nat /\ e[Len(c) + 1] = m
  <2>1. /\ Len(c \o d) = Len(c) + Len(d) /\ Len(c) \in Nat
        /\ \A i \in 1..Len(d) : (c \o d)[Len(c) + i] = d[i]
    BY <1>a, ConcatIs
  <2> QED
    BY <1>b, <2>1
<1> HIDE DEF e
<1>2. \A k \in 0..Len(c) : KnowsComes(e, a, k)
  BY <1>1 DEF KnowsComes
<1>3. ASSUME NEW k \in 1..Len(e), Plain(e[k], r) PROVE KnowsComes(e, a, k)
  <2>1. k # Len(c) + 1
    BY <1>1, <1>3 DEF Plain
  <2> QED
    BY <1>1, <1>2, <2>1
<1>4. KnowsComes(e, a, 0)
  BY <1>1, <1>2
<1> QED
  BY <1>3, <1>4 DEF Answers, e, d

\* The head is received: r is known as before, or its definition is at the head,
\* or the agent has just heard of it.
LEMMA AnswersTail ==
  ASSUME NEW T, NEW c \in Seq(T), c # <<>>, NEW a, NEW r,
         NEW here \in BOOLEAN, NEW heard \in BOOLEAN, NEW here2 \in BOOLEAN, NEW heard2 \in BOOLEAN,
         Answers(c, a, r, here, heard), here2 /\ heard => heard2,
         here2 => \/ heard2 \/ Plain(c[1], r)
                  \/ /\ here /\ ~(c[1].type = "AGENT_EXIT" /\ c[1].agent = r)
                     /\ ~(c[1].type = "KNOWS" /\ c[1].agent = a)
  PROVE  Answers(Tail(c), a, r, here2, heard2)
<1> DEFINE e == Tail(c)
<1>1. /\ Len(c) \in Nat /\ Len(c) > 0 /\ Len(e) = Len(c) - 1
      /\ \A i \in 1..Len(c) - 1 : e[i] = c[i + 1]
  BY TailIs
<1>2. \A k \in Nat : KnowsComes(c, a, k + 1) => KnowsComes(e, a, k)
  BY KnowsTail
<1>3. ExitComes(c, r) => ExitComes(e, r) \/ (c[1].type = "AGENT_EXIT" /\ c[1].agent = r)
  BY ExitTail
<1>4. KnowsComes(c, a, 0) /\ ~(c[1].type = "KNOWS" /\ c[1].agent = a) => KnowsComes(c, a, 1)
  BY KnowsLater
<1> HIDE DEF e
<1>5. KnowsComes(c, a, 1) => KnowsComes(e, a, 0)
  <2>1. KnowsComes(c, a, 0 + 1) => KnowsComes(e, a, 0)
    BY <1>2
  <2> QED
    BY <2>1
<1>6. ASSUME here2, ~ExitComes(e, r), ~heard2 PROVE KnowsComes(e, a, 0)
  <2>1. CASE Plain(c[1], r)
    <3>1. KnowsComes(c, a, 1)
      BY <1>1, <2>1 DEF Answers
    <3> QED
      BY <1>5, <3>1
  <2>2. CASE /\ here /\ ~(c[1].type = "AGENT_EXIT" /\ c[1].agent = r)
             /\ ~(c[1].type = "KNOWS" /\ c[1].agent = a)
    <3>1. ~ExitComes(c, r)
      BY <1>3, <1>6, <2>2
    <3>2. KnowsComes(c, a, 0)
      BY <1>6, <2>2, <3>1 DEF Answers
    <3> QED
      BY <1>4, <1>5, <2>2, <3>2
  <2> QED
    BY <1>6, <2>1, <2>2
<1>7. ASSUME NEW k \in 1..Len(e), Plain(e[k], r) PROVE KnowsComes(e, a, k)
  <2>1. e[k] = c[k + 1] /\ k + 1 \in 1..Len(c) /\ k \in Nat
    BY <1>1
  <2>2. KnowsComes(c, a, k + 1)
    BY <1>7, <2>1 DEF Answers
  <2> QED
    BY <1>2, <2>1, <2>2
<1> QED
  BY <1>6, <1>7 DEF Answers, e

-----------------------------------------------------------------------------
\* An event about to be told says what the table of remote agents says.
TellingRight ==
  \A p \in Peers : \A e \in In(telling[p]) : e[1] = "EXITED" <=> remotes[p][e[2]] = None

NeverExited == \A a \in Agents : \A x \in told[a] : x[1] # "EXITED"

\* An agent is told of the remote agents that are there, and of no other.
ToldEntered ==
  Calm =>
    \A a \in active, r \in Agents :
      IF remotes[Home[a]][r] # None
      THEN <<"ENTERED", r>> \in told[a] \cup In(telling[Home[a]])
      ELSE (\A x \in told[a] : x[2] # r) \/ <<"EXITED", r>> \in In(telling[Home[a]])

ToldRight == TellingRight /\ NeverExited /\ ToldEntered

\* What the timer sends is a notification.
TimerNotifies == \A a \in Agents : needDef[a] = atRuntime[a]

LEMMA InIs ==
  /\ In(<<>>) = {}
  /\ \A x : In(<<x>>) = {x}
  /\ \A x, y : In(<<x, y>>) = {x, y}
<1>1. In(<<>>) = {}
  BY EmptySeq DEF In
<1>2. ASSUME NEW x PROVE In(<<x>>) = {x}
  BY DEF In
<1>3. ASSUME NEW x, NEW y PROVE In(<<x, y>>) = {x, y}
  <2>1. Len(<<x, y>>) = 2 /\ <<x, y>>[1] = x /\ <<x, y>>[2] = y
    OBVIOUS
  <2>2. 1..2 = {1, 2}
    OBVIOUS
  <2> QED
    BY <2>1, <2>2 DEF In
<1> QED
  BY <1>1, <1>2, <1>3

LEMMA InTail ==
  ASSUME NEW T, NEW c \in Seq(T), c # <<>>
  PROVE  In(c) = {Head(c)} \cup In(Tail(c)) /\ Head(c) \in T /\ In(c) \subseteq T
<1>1. /\ Len(c) \in Nat /\ Len(c) > 0 /\ Len(Tail(c)) = Len(c) - 1 /\ Head(c) = c[1] /\ Head(c) \in T
      /\ \A i \in 1..Len(c) - 1 : Tail(c)[i] = c[i + 1]
  BY TailIs
<1>2. \A k \in 1..Len(c) : c[k] \in T
  BY ElementOfSeq
<1>3. ASSUME NEW x \in In(c) PROVE x \in {Head(c)} \cup In(Tail(c))
  <2>1. PICK k \in 1..Len(c) : x = c[k]
    BY DEF In
  <2>2. CASE k = 1
    BY <1>1, <2>1, <2>2
  <2>3. CASE k # 1
    <3>1. k - 1 \in 1..Len(Tail(c)) /\ Tail(c)[k - 1] = x
      BY <1>1, <2>1, <2>3
    <3> QED
      BY <3>1 DEF In
  <2> QED
    BY <2>2, <2>3
<1>4. ASSUME NEW x \in In(Tail(c)) PROVE x \in In(c)
  <2>1. PICK k \in 1..Len(Tail(c)) : x = Tail(c)[k]
    BY DEF In
  <2>2. k + 1 \in 1..Len(c) /\ c[k + 1] = x
    BY <1>1, <2>1
  <2> QED
    BY <2>2 DEF In
<1>5. Head(c) \in In(c)
  BY <1>1 DEF In
<1> QED
  BY <1>1, <1>2, <1>3, <1>4, <1>5 DEF In

\* Steps that neither tell anything nor change what is known.
LEMMA SilentTold ==
  ASSUME ToldRight, UNCHANGED <<told, telling, remotes>>, active' \subseteq active, Calm' => Calm
  PROVE  ToldRight'
<1>1. TellingRight' /\ NeverExited'
  BY DEF ToldRight, TellingRight, NeverExited
<1>2. ToldEntered'
  BY DEF ToldRight, ToldEntered
<1> QED
  BY <1>1, <1>2 DEF ToldRight

LEMMA ActivateTold ==
  ASSUME Shape, ToldRight, NEW a \in Agents, Activate(a)
  PROVE  ToldRight'
<1>1. /\ UNCHANGED <<remotes, telling>> /\ UserOperation("activate") /\ active' = active \cup {a}
      /\ told' = [told EXCEPT ![a] = {"ENTERED"} \X {r \in Agents : remotes[Home[a]][r] # None}]
  BY DEF Activate, registryVars
<1>2. Calm' => Calm
  BY <1>1, UsersCalm
<1>3. /\ told'[a] = {"ENTERED"} \X {r \in Agents : remotes[Home[a]][r] # None}
      /\ \A b \in Agents : b # a => told'[b] = told[b]
  BY <1>1 DEF Shape, TypeOK
<1>4. TellingRight'
  BY <1>1 DEF ToldRight, TellingRight
<1>5. NeverExited'
  BY <1>3 DEF ToldRight, NeverExited
<1>6. ToldEntered'
  <2> SUFFICES ASSUME Calm, NEW b \in active', NEW r \in Agents
               PROVE  IF remotes[Home[b]][r] # None
                      THEN <<"ENTERED", r>> \in told'[b] \cup In(telling[Home[b]])
                      ELSE (\A x \in told'[b] : x[2] # r) \/ <<"EXITED", r>> \in In(telling[Home[b]])
    BY <1>1, <1>2 DEF ToldEntered
  <2>1. CASE b = a
    BY <1>3, <2>1
  <2>2. CASE b # a
    <3>1. b \in active /\ b \in Agents
      BY <1>1, <2>2 DEF Shape, TypeOK
    <3> QED
      BY <1>3, <2>2, <3>1 DEF ToldRight, ToldEntered
  <2> QED
    BY <2>1, <2>2
<1> QED
  BY <1>4, <1>5, <1>6 DEF ToldRight

LEMMA DeactivateTold ==
  ASSUME Shape, ToldRight, NEW a \in Agents, Deactivate(a)
  PROVE  ToldRight'
<1>1. /\ UNCHANGED <<remotes, telling>> /\ UserOperation("activate") /\ active' = active \ {a}
      /\ told' = [told EXCEPT ![a] = {}]
  BY DEF Deactivate, registryVars
<1>2. Calm' => Calm
  BY <1>1, UsersCalm
<1>3. told'[a] = {} /\ \A b \in Agents : b # a => told'[b] = told[b]
  BY <1>1 DEF Shape, TypeOK
<1>4. TellingRight'
  BY <1>1 DEF ToldRight, TellingRight
<1>5. NeverExited'
  BY <1>3 DEF ToldRight, NeverExited
<1>6. ToldEntered'
  <2>1. \A b \in active' : b \in active /\ told'[b] = told[b]
    BY <1>1, <1>3 DEF Shape, TypeOK
  <2> QED
    BY <1>1, <1>2, <2>1 DEF ToldRight, ToldEntered
<1> QED
  BY <1>4, <1>5, <1>6 DEF ToldRight

\* A remote agent leaves the table of p.
LEMMA ExitedTold ==
  ASSUME Shape, ToldRight, NEW p \in Peers, NEW r0 \in Agents, telling[p] = <<>>,
         remotes' = [remotes EXCEPT ![p][r0] = None],
         telling' = [telling EXCEPT ![p] = <<<<"EXITED", r0>>>>],
         UNCHANGED <<active, told, churn>>
  PROVE  ToldRight'
<1>1. /\ remotes'[p][r0] = None
      /\ \A q \in Peers, r \in Agents : q # p \/ r # r0 => remotes'[q][r] = remotes[q][r]
      /\ \A q \in Peers : q # p => telling'[q] = telling[q]
      /\ telling'[p] = <<<<"EXITED", r0>>>>
  BY DEF Shape, TypeOK
<1>2. In(telling[p]) = {} /\ In(telling'[p]) = {<<"EXITED", r0>>}
  BY <1>1, InIs
<1>3. TellingRight'
  <2> SUFFICES ASSUME NEW q \in Peers, NEW e \in In(telling'[q])
               PROVE  e[1] = "EXITED" <=> remotes'[q][e[2]] = None
    BY DEF TellingRight
  <2>1. CASE q = p
    BY <1>1, <1>2, <2>1
  <2>2. CASE q # p
    <3>1. remotes'[q] = remotes[q] /\ telling'[q] = telling[q]
      BY <1>1, <2>2 DEF Shape, TypeOK
    <3> QED
      BY <3>1 DEF ToldRight, TellingRight
  <2> QED
    BY <2>1, <2>2
<1>4. NeverExited'
  BY DEF ToldRight, NeverExited
<1>5. ToldEntered'
  <2> SUFFICES ASSUME Calm, NEW a \in active, NEW r \in Agents
               PROVE  IF remotes'[Home[a]][r] # None
                      THEN <<"ENTERED", r>> \in told[a] \cup In(telling'[Home[a]])
                      ELSE (\A x \in told[a] : x[2] # r) \/ <<"EXITED", r>> \in In(telling'[Home[a]])
    BY DEF ToldEntered, Calm
  <2>1. Home[a] \in Peers
    BY NodesAre DEF Shape, TypeOK
  <2>2. IF remotes[Home[a]][r] # None
        THEN <<"ENTERED", r>> \in told[a] \cup In(telling[Home[a]])
        ELSE (\A x \in told[a] : x[2] # r) \/ <<"EXITED", r>> \in In(telling[Home[a]])
    BY DEF ToldRight, ToldEntered
  <2>3. CASE Home[a] # p
    BY <1>1, <2>1, <2>2, <2>3
  <2>4. CASE Home[a] = p /\ r = r0
    BY <1>1, <1>2, <2>4
  <2>5. CASE Home[a] = p /\ r # r0
    <3>1. remotes'[p][r] = remotes[p][r]
      BY <1>1, <2>5
    <3> QED
      BY <1>2, <2>2, <2>5, <3>1
  <2> QED
    BY <2>3, <2>4, <2>5
<1> QED
  BY <1>3, <1>4, <1>5 DEF ToldRight

LEMMA RecvAgentExitTold ==
  ASSUME KInv, ToldRight, NEW n \in Nodes, NEW p \in Peers, RecvAgentExit(n, p)
  PROVE  ToldRight'
<1> DEFINE r == Head(channel[n][p]).agent
<1>1. r \in Agents
  <2>1. /\ channel[n][p] # <<>> /\ Head(channel[n][p]) \in Messages
        /\ Head(channel[n][p]).type = "AGENT_EXIT"
    BY HeadIs DEF RecvAgentExit, KInv
  <2> QED
    BY <2>1, MessageAgent
<1>2. telling[p] = <<>> /\ UNCHANGED <<active, told, churn>>
  BY DEF RecvAgentExit, agentVars, Next1, Ready
<1>3. CASE remotes[p][r] # None
  <2>1. remotes' = [remotes EXCEPT ![p][r] = None] /\ telling' = [telling EXCEPT ![p] = <<<<"EXITED", r>>>>]
    BY <1>3 DEF RecvAgentExit
  <2> HIDE DEF r
  <2> QED
    BY <1>1, <1>2, <2>1, ExitedTold DEF KInv
<1>4. CASE remotes[p][r] = None
  <2>1. UNCHANGED <<remotes, telling>>
    BY <1>4 DEF RecvAgentExit
  <2> QED
    BY <1>2, <2>1, SilentTold DEF Calm
<1> QED
  BY <1>3, <1>4

LEMMA ExitStepTold ==
  ASSUME Shape, ToldRight, NEW p \in Peers, ExitStep(p)
  PROVE  ToldRight'
<1>1. telling[p] = <<>> /\ UNCHANGED <<active, told, churn>>
  BY DEF ExitStep, agentVars
<1>2. CASE UNCHANGED <<remotes, telling>>
  BY <1>1, <1>2, SilentTold DEF Calm
<1>3. CASE \E r \in Carried(p, leaving[p]) :
             /\ remotes' = [remotes EXCEPT ![p][r] = None]
             /\ telling' = [telling EXCEPT ![p] = <<<<"EXITED", r>>>>]
  <2>1. PICK r \in Agents : /\ remotes' = [remotes EXCEPT ![p][r] = None]
                            /\ telling' = [telling EXCEPT ![p] = <<<<"EXITED", r>>>>]
    BY <1>3 DEF Carried
  <2> QED
    BY <1>1, <2>1, ExitedTold
<1> QED
  BY <1>2, <1>3 DEF ExitStep

LEMMA RecvDefinitionTold ==
  ASSUME KInv, ToldRight, NEW n \in Nodes, NEW p \in Peers, RecvDefinition(n, p)
  PROVE  ToldRight'
<1> DEFINE r0 == Head(channel[n][p]).agent
           b == Head(channel[n][p]).runtime
<1>1. r0 \in Agents
  <2>1. /\ channel[n][p] # <<>> /\ Head(channel[n][p]) \in Messages
        /\ Head(channel[n][p]).type = "DEFINITION"
    BY HeadIs DEF RecvDefinition, KInv
  <2> QED
    BY <2>1, MessageAgent
<1>2. telling[p] = <<>> /\ UNCHANGED <<active, told, churn>>
  BY DEF RecvDefinition, agentVars, Next1, Ready
<1>3. CASE remotes[p][r0] # None
  <2>1. UNCHANGED <<remotes, telling>>
    BY <1>3 DEF RecvDefinition
  <2> QED
    BY <1>2, <2>1, SilentTold DEF Calm
<1>4. CASE remotes[p][r0] = None
  <2>1. /\ remotes' = [remotes EXCEPT ![p][r0] = n]
        /\ telling' = [telling EXCEPT ![p] = IF b THEN <<<<"ENTERED", r0>>, <<"KNOWS_US", r0>>>>
                                             ELSE <<<<"ENTERED", r0>>>>]
    BY <1>4 DEF RecvDefinition
  <2> HIDE DEF r0, b
  <2>2. /\ remotes'[p][r0] # None
        /\ \A q \in Peers, r \in Agents : q # p \/ r # r0 => remotes'[q][r] = remotes[q][r]
        /\ \A q \in Peers : q # p => telling'[q] = telling[q]
    BY <1>1, <2>1, NodesAre DEF KInv, Shape, TypeOK
  <2>3. /\ In(telling[p]) = {} /\ <<"ENTERED", r0>> \in In(telling'[p])
        /\ In(telling'[p]) \subseteq {<<"ENTERED", r0>>, <<"KNOWS_US", r0>>}
    <3>1. telling'[p] = IF b THEN <<<<"ENTERED", r0>>, <<"KNOWS_US", r0>>>> ELSE <<<<"ENTERED", r0>>>>
      BY <2>1 DEF KInv, Shape, TypeOK
    <3>2. In(telling[p]) = {}
      BY <1>2, InIs
    <3>3. CASE b
      <4>1. In(telling'[p]) = {<<"ENTERED", r0>>, <<"KNOWS_US", r0>>}
        BY <3>1, <3>3, InIs
      <4> QED
        BY <3>2, <4>1
    <3>4. CASE ~b
      <4>1. In(telling'[p]) = {<<"ENTERED", r0>>}
        BY <3>1, <3>4, InIs
      <4> QED
        BY <3>2, <4>1
    <3> QED
      BY <3>3, <3>4
  <2>4. TellingRight'
    <3> SUFFICES ASSUME NEW q \in Peers, NEW e \in In(telling'[q])
                 PROVE  e[1] = "EXITED" <=> remotes'[q][e[2]] = None
      BY DEF TellingRight
    <3>1. CASE q = p
      <4>1. e = <<"ENTERED", r0>> \/ e = <<"KNOWS_US", r0>>
        BY <2>3, <3>1
      <4>2. e[1] # "EXITED" /\ e[2] = r0
        BY <4>1
      <4> QED
        BY <2>2, <3>1, <4>2
    <3>2. CASE q # p
      <4>1. remotes'[q] = remotes[q] /\ telling'[q] = telling[q]
        BY <2>1, <3>2 DEF KInv, Shape, TypeOK
      <4> QED
        BY <4>1 DEF ToldRight, TellingRight
    <3> QED
      BY <3>1, <3>2
  <2>5. NeverExited'
    BY <1>2 DEF ToldRight, NeverExited
  <2>6. ToldEntered'
    <3> SUFFICES ASSUME Calm, NEW a \in active, NEW r \in Agents
                 PROVE  IF remotes'[Home[a]][r] # None
                        THEN <<"ENTERED", r>> \in told[a] \cup In(telling'[Home[a]])
                        ELSE (\A x \in told[a] : x[2] # r) \/ <<"EXITED", r>> \in In(telling'[Home[a]])
      BY <1>2 DEF ToldEntered, Calm
    <3>1. Home[a] \in Peers
      BY NodesAre DEF KInv, Shape, TypeOK
    <3>2. IF remotes[Home[a]][r] # None
          THEN <<"ENTERED", r>> \in told[a] \cup In(telling[Home[a]])
          ELSE (\A x \in told[a] : x[2] # r) \/ <<"EXITED", r>> \in In(telling[Home[a]])
      BY DEF ToldRight, ToldEntered
    <3>3. CASE Home[a] # p
      BY <2>2, <3>1, <3>2, <3>3
    <3>4. CASE Home[a] = p /\ r = r0
      BY <2>2, <2>3, <3>4
    <3>5. CASE Home[a] = p /\ r # r0
      <4>1. remotes'[p][r] = remotes[p][r]
        BY <2>2, <3>5
      <4> QED
        BY <2>3, <3>2, <3>5, <4>1
    <3> QED
      BY <3>3, <3>4, <3>5
  <2> QED
    BY <2>4, <2>5, <2>6 DEF ToldRight
<1> QED
  BY <1>3, <1>4

LEMMA RecvKnowsTold ==
  ASSUME KInv, ToldRight, NEW n \in Nodes, NEW p \in Peers, RecvKnows(n, p)
  PROVE  ToldRight'
<1> DEFINE a0 == Head(channel[n][p]).agent
           news == {"KNOWS_US"} \X {r \in Agents : remotes[p][r] = n}
<1>1. a0 \in Agents /\ Home[a0] = p
  <2>1. /\ channel[n][p] # <<>> /\ Head(channel[n][p]) \in Messages /\ Head(channel[n][p]) = channel[n][p][1]
        /\ channel[n][p][1].type = "KNOWS" /\ Fits(channel[n][p][1], n, p)
    BY HeadIs DEF RecvKnows, KInv
  <2> QED
    BY <2>1, MessageAgent DEF Fits
<1>2. UNCHANGED <<active, telling, remotes, churn>>
  BY DEF RecvKnows, agentVars, registryVars
<1>3. CASE a0 \notin active
  <2>1. UNCHANGED told
    BY <1>3 DEF RecvKnows
  <2> QED
    BY <1>2, <2>1, SilentTold DEF Calm
<1>4. CASE a0 \in active
  <2>1. told' = [told EXCEPT ![a0] = @ \cup news]
    BY <1>4 DEF RecvKnows, Tells
  <2>2. \A x \in news : x[1] = "KNOWS_US" /\ remotes[p][x[2]] # None
    BY NodesAre
  <2> HIDE DEF a0, news
  <2>3. told'[a0] = told[a0] \cup news /\ \A a \in Agents : a # a0 => told'[a] = told[a]
    BY <1>1, <2>1 DEF KInv, Shape, TypeOK
  <2>4. TellingRight'
    BY <1>2 DEF ToldRight, TellingRight
  <2>5. NeverExited'
    BY <1>1, <2>2, <2>3 DEF ToldRight, NeverExited
  <2>6. ToldEntered'
    <3> SUFFICES ASSUME Calm, NEW a \in active, NEW r \in Agents
                 PROVE  IF remotes[Home[a]][r] # None
                        THEN <<"ENTERED", r>> \in told'[a] \cup In(telling[Home[a]])
                        ELSE (\A x \in told'[a] : x[2] # r) \/ <<"EXITED", r>> \in In(telling[Home[a]])
      BY <1>2 DEF ToldEntered, Calm
    <3>1. a \in Agents
      BY DEF KInv, Shape, TypeOK
    <3>2. IF remotes[Home[a]][r] # None
          THEN <<"ENTERED", r>> \in told[a] \cup In(telling[Home[a]])
          ELSE (\A x \in told[a] : x[2] # r) \/ <<"EXITED", r>> \in In(telling[Home[a]])
      BY DEF ToldRight, ToldEntered
    <3>3. CASE a # a0
      BY <2>3, <3>1, <3>2, <3>3
    <3>4. CASE a = a0
      BY <1>1, <2>2, <2>3, <3>2, <3>4
    <3> QED
      BY <3>3, <3>4
  <2> QED
    BY <2>4, <2>5, <2>6 DEF ToldRight
<1> QED
  BY <1>3, <1>4

LEMMA TellTold ==
  ASSUME Shape, ToldRight, NEW p \in Peers, Tell(p)
  PROVE  ToldRight'
<1> DEFINE e == Head(telling[p])
<1>1. UNCHANGED <<active, remotes, churn>> /\ telling[p] # <<>>
  BY DEF Tell, agentVars, registryVars
<1>2. /\ \A a \in Agents : told'[a] = IF a \notin active \cap On(p) THEN told[a]
                                      ELSE IF e[1] = "EXITED" THEN {x \in told[a] : x[2] # e[2]}
                                      ELSE told[a] \cup {e}
      /\ telling' = [telling EXCEPT ![p] = Tail(@)]
  BY DEF Tell
<1>3. /\ telling'[p] = Tail(telling[p]) /\ \A q \in Peers : q # p => telling'[q] = telling[q]
      /\ telling[p] \in Seq(Events)
  BY <1>2 DEF Shape, TypeOK
<1>4. In(telling[p]) = {e} \cup In(telling'[p]) /\ e \in Events
  BY <1>1, <1>3, InTail
<1> HIDE DEF e
<1>5. e[1] = "EXITED" <=> remotes[p][e[2]] = None
  BY <1>4 DEF ToldRight, TellingRight
<1>6. TellingRight'
  <2> SUFFICES ASSUME NEW q \in Peers, NEW x \in In(telling'[q])
               PROVE  x[1] = "EXITED" <=> remotes[q][x[2]] = None
    BY <1>1 DEF TellingRight
  <2>1. x \in In(telling[q])
    BY <1>3, <1>4
  <2> QED
    BY <2>1 DEF ToldRight, TellingRight
<1>7. NeverExited'
  <2> SUFFICES ASSUME NEW a \in Agents, NEW x \in told'[a] PROVE x[1] # "EXITED"
    BY DEF NeverExited
  <2>1. x \in told[a] \/ (x = e /\ e[1] # "EXITED")
    <3>1. \/ told'[a] = told[a] \/ told'[a] = {y \in told[a] : y[2] # e[2]}
          \/ told'[a] = told[a] \cup {e} /\ e[1] # "EXITED"
      BY <1>2
    <3> QED
      BY <3>1
  <2> QED
    BY <2>1 DEF ToldRight, NeverExited
<1>8. ToldEntered'
  <2> SUFFICES ASSUME Calm, NEW a \in active, NEW r \in Agents
               PROVE  IF remotes[Home[a]][r] # None
                      THEN <<"ENTERED", r>> \in told'[a] \cup In(telling'[Home[a]])
                      ELSE (\A x \in told'[a] : x[2] # r) \/ <<"EXITED", r>> \in In(telling'[Home[a]])
    BY <1>1 DEF ToldEntered, Calm
  <2>1. a \in Agents /\ Home[a] \in Peers
    BY NodesAre DEF Shape, TypeOK
  <2>2. IF remotes[Home[a]][r] # None
        THEN <<"ENTERED", r>> \in told[a] \cup In(telling[Home[a]])
        ELSE (\A x \in told[a] : x[2] # r) \/ <<"EXITED", r>> \in In(telling[Home[a]])
    BY DEF ToldRight, ToldEntered
  <2>3. CASE Home[a] # p
    BY <1>2, <1>3, <2>1, <2>2, <2>3 DEF On
  <2>4. CASE Home[a] = p /\ e[1] = "EXITED"
    <3>1. told'[a] = {x \in told[a] : x[2] # e[2]}
      BY <1>2, <2>1, <2>4 DEF On
    <3>2. CASE r = e[2]
      BY <1>5, <2>4, <3>1, <3>2
    <3>3. CASE r # e[2]
      <4>1. <<"ENTERED", r>>[2] = r /\ <<"EXITED", r>> # e
        BY <3>3
      <4>2. <<"ENTERED", r>> # e
        BY <2>4
      <4>3. CASE remotes[p][r] # None
        <5>1. <<"ENTERED", r>> \in told'[a] \cup In(telling'[p])
          BY <1>4, <2>2, <2>4, <3>1, <3>3, <4>1, <4>2, <4>3
        <5> QED
          BY <2>4, <4>3, <5>1
      <4>4. CASE remotes[p][r] = None
        <5>1. (\A x \in told[a] : x[2] # r) \/ <<"EXITED", r>> \in In(telling[p])
          BY <2>2, <2>4, <4>4
        <5>2. (\A x \in told'[a] : x[2] # r) \/ <<"EXITED", r>> \in In(telling'[p])
          BY <1>4, <3>1, <4>1, <5>1
        <5> QED
          BY <2>4, <4>4, <5>2
      <4> QED
        BY <4>3, <4>4
    <3> QED
      BY <3>2, <3>3
  <2>5. CASE Home[a] = p /\ e[1] # "EXITED"
    <3>1. told'[a] = told[a] \cup {e}
      BY <1>2, <2>1, <2>5 DEF On
    <3>2. <<"EXITED", r>> # e
      BY <2>5
    <3>3. CASE remotes[p][r] = None
      <4>1. r # e[2]
        BY <1>5, <2>5, <3>3
      <4> QED
        BY <1>4, <2>2, <2>5, <3>1, <3>2, <3>3, <4>1
    <3>4. CASE remotes[p][r] # None
      BY <1>4, <2>2, <2>5, <3>1, <3>4
    <3> QED
      BY <3>3, <3>4
  <2> QED
    BY <2>3, <2>4, <2>5
<1> QED
  BY <1>6, <1>7, <1>8 DEF ToldRight

LEMMA StopTold ==
  ASSUME KInv, ToldRight, NEW p \in Peers, Stop(p)
  PROVE  ToldRight'
<1>1. /\ UNCHANGED <<active, telling, told>> /\ telling[p] = <<>> /\ UserOperation("restart")
      /\ remotes' = [remotes EXCEPT ![p] = [r \in Agents |-> None]]
  BY DEF Stop, agentVars
<1>2. TellingRight'
  <2> SUFFICES ASSUME NEW q \in Peers, NEW e \in In(telling[q])
               PROVE  e[1] = "EXITED" <=> remotes'[q][e[2]] = None
    BY <1>1 DEF TellingRight
  <2>1. In(telling[p]) = {}
    BY <1>1, InIs
  <2>2. q # p
    BY <2>1
  <2>3. remotes'[q] = remotes[q]
    BY <1>1, <2>2 DEF KInv, Shape, TypeOK
  <2> QED
    BY <2>3 DEF ToldRight, TellingRight
<1>3. NeverExited'
  BY <1>1 DEF ToldRight, NeverExited
<1>4. ~Calm'
  BY <1>1 DEF KInv, Shape, TypeOK, UserOperation, Calm, Kinds
<1> QED
  BY <1>2, <1>3, <1>4 DEF ToldRight, ToldEntered

-----------------------------------------------------------------------------
\* As long as no node reconnects, the only JOIN of a node is the first thing it
\* says after it entered.
JoinsAt(c, k) ==
  \A i \in 1..Len(c) : c[i].type = "JOIN" => (i = 1 /\ k = "entered") \/ (i = 2 /\ k = "unknown")
JoinsOnce ==
  churn["reconnect"] = 0 => \A n \in Nodes, p \in Peers : JoinsAt(channel[n][p], known[p][n])

LEMMA JoinsConcat ==
  ASSUME NEW T, NEW c \in Seq(T), NEW d \in Seq(T), NEW k, JoinsAt(c, k),
         \A i \in 1..Len(d) : d[i].type # "JOIN"
  PROVE  JoinsAt(c \o d, k)
<1> DEFINE e == c \o d
<1>1. /\ Len(e) = Len(c) + Len(d) /\ Len(c) \in Nat
      /\ \A i \in 1..Len(c) : e[i] = c[i]
      /\ \A i \in 1..Len(e) : i > Len(c) => e[i] = d[i - Len(c)] /\ i - Len(c) \in 1..Len(d)
  BY ConcatIs
<1> HIDE DEF e
<1>2. ASSUME NEW i \in 1..Len(e), e[i].type = "JOIN"
      PROVE  (i = 1 /\ k = "entered") \/ (i = 2 /\ k = "unknown")
  <2>1. ~(i > Len(c))
    BY <1>1, <1>2
  <2>2. i \in 1..Len(c) /\ e[i] = c[i]
    BY <1>1, <2>1
  <2> QED
    BY <1>2, <2>2 DEF JoinsAt
<1> QED
  BY <1>2 DEF JoinsAt, e

LEMMA JoinsTail ==
  ASSUME NEW T, NEW c \in Seq(T), c # <<>>, NEW k, NEW k2, JoinsAt(c, k), k = "unknown" => k2 = "entered"
  PROVE  JoinsAt(Tail(c), k2)
<1> DEFINE e == Tail(c)
<1>1. /\ Len(c) \in Nat /\ Len(c) > 0 /\ Len(e) = Len(c) - 1
      /\ \A i \in 1..Len(c) - 1 : e[i] = c[i + 1]
  BY TailIs
<1> HIDE DEF e
<1>2. ASSUME NEW i \in 1..Len(e), e[i].type = "JOIN" PROVE i = 1 /\ k2 = "entered"
  <2>1. e[i] = c[i + 1] /\ i + 1 \in 1..Len(c) /\ i + 1 # 1
    BY <1>1
  <2>2. i + 1 = 2 /\ k = "unknown"
    BY <1>2, <2>1 DEF JoinsAt
  <2> QED
    BY <2>2
<1> QED
  BY <1>2 DEF JoinsAt, e

LEMMA JoinsKept ==
  ASSUME Shape, JoinsOnce, churn'["reconnect"] = 0 => churn["reconnect"] = 0,
         \A n \in Nodes, p \in Peers :
           \/ /\ known'[p][n] = known[p][n]
              /\ \/ Stays(n, p)
                 \/ \E d \in Seq(Messages) :
                      Gets(n, p, d) /\ \A i \in 1..Len(d) : d[i].type # "JOIN"
           \/ Loses(n, p) /\ (known[p][n] = "unknown" => known'[p][n] = "entered")
           \/ channel'[n][p] = <<>>
           \/ channel'[n][p] = <<Enter, Join>> /\ known'[p][n] = "unknown"
  PROVE  JoinsOnce'
<1> SUFFICES ASSUME churn["reconnect"] = 0, NEW n \in Nodes, NEW p \in Peers
             PROVE  JoinsAt(channel'[n][p], known'[p][n])
  BY DEF JoinsOnce, JoinsAt
<1> DEFINE c == channel[n][p]
           k == known[p][n]
<1>1. c \in Seq(Messages) /\ JoinsAt(c, k)
  BY DEF Shape, TypeOK, JoinsOnce
<1>2. CASE known'[p][n] = k /\ Stays(n, p)
  BY <1>1, <1>2 DEF Stays
<1>3. ASSUME known'[p][n] = k, NEW d \in Seq(Messages), Gets(n, p, d),
             \A i \in 1..Len(d) : d[i].type # "JOIN"
      PROVE  JoinsAt(channel'[n][p], known'[p][n])
  <2>1. channel'[n][p] = c \o d
    BY <1>3 DEF Gets
  <2> HIDE DEF c, k
  <2> QED
    BY <1>1, <1>3, <2>1, JoinsConcat
<1>4. CASE Loses(n, p) /\ (k = "unknown" => known'[p][n] = "entered")
  <2>1. c # <<>> /\ channel'[n][p] = Tail(c)
    BY <1>4 DEF Loses
  <2> HIDE DEF c, k
  <2> QED
    BY <1>1, <1>4, <2>1, JoinsTail
<1>5. CASE channel'[n][p] = <<>>
  <2>1. Len(channel'[n][p]) = 0
    BY <1>5, EmptySeq
  <2> QED
    BY <2>1 DEF JoinsAt
<1>6. CASE channel'[n][p] = <<Enter, Join>> /\ known'[p][n] = "unknown"
  BY <1>6, MessagesAre DEF JoinsAt
<1> QED
  BY <1>2, <1>3, <1>4, <1>5, <1>6

-----------------------------------------------------------------------------
\* Agent a was told, or is about to be, that r knows it.
Heard(a, r) == <<"KNOWS_US", r>> \in told[a] \cup In(telling[Home[a]])

\* Peer q does not know a or will forget it: it will confirm a definition of a.
Unaware(a, q) == remotes[q][a] = None \/ ExitComes(From(a, q), a)

Answered(a, r) == Answers(From(r, Home[a]), a, r, remotes[Home[a]][r] # None, Heard(a, r))
Confirmed ==
  Steady => \A a, r \in Agents : Reached(r, Home[a]) => Unaware(a, Home[r]) \/ Answered(a, r)

RInv == KInv /\ ToldRight /\ TimerNotifies /\ JoinsOnce /\ Confirmed

\* An agent and a remote agent are reached both ways.
LEMMA BothWays ==
  ASSUME KInv, Calm, NEW a \in Agents, NEW r \in Agents, Reached(r, Home[a])
  PROVE  /\ Home[a] \in Peers /\ Home[r] \in Peers /\ Home[a] # Home[r]
         /\ Reached(a, Home[r])
         /\ Node(Home[a]) \in Nodes /\ Node(Home[r]) \in Nodes /\ Node(Home[a]) # Node(Home[r])
         /\ up[Home[a]] /\ up[Home[r]]
         /\ Node(Home[a]) \in Linked(Node(Home[r])) /\ Node(Home[r]) \in Linked(Node(Home[a]))
<1>1. Home[a] \in Peers /\ Home[r] \in Peers
  BY NodesAre
<1>2. Home[a] # Home[r] /\ {Node(Home[r]), Node(Home[a])} \in links
  BY DEF Reached, Link
<1>3. {Node(Home[a]), Node(Home[r])} = {Node(Home[r]), Node(Home[a])}
  OBVIOUS
<1>4. Reached(a, Home[r])
  BY <1>2, <1>3 DEF Reached, Link
<1> QED
  BY <1>1, <1>2, <1>4, CalmFacts DEF KInv

\* Nobody knows an agent that is not active, once exits are received.
LEMMA InactiveUnaware ==
  ASSUME KInv, Calm, NEW a \in Agents, NEW r \in Agents, Reached(r, Home[a]), a \notin active
  PROVE  Unaware(a, Home[r])
<1>1. Forgotten(a, Home[r])
  BY BothWays DEF KInv, Informed, InformedAt
<1>2. LastNews(From(a, Home[r]), a, "AGENT_EXIT") => ExitComes(From(a, Home[r]), a)
  BY DEF LastNews, NewsOf, ExitComes
<1> QED
  BY <1>1, <1>2 DEF Forgotten, Ends, Unaware

LEMMA UnawareKept ==
  ASSUME KInv, Calm, UNCHANGED started, NEW a \in Agents, NEW r \in Agents, Reached(r, Home[a]),
         Unaware(a, Home[r]),
         \/ /\ remotes[Home[r]][a] = None => remotes'[Home[r]][a] = None
            /\ \/ Stays(Node(Home[a]), Home[r])
               \/ \E d \in Seq(Messages) : Gets(Node(Home[a]), Home[r], d)
         \/ /\ Loses(Node(Home[a]), Home[r])
            /\ \/ /\ From(a, Home[r])[1].type # "AGENT_EXIT" \/ From(a, Home[r])[1].agent # a
                  /\ remotes[Home[r]][a] = None => remotes'[Home[r]][a] = None
               \/ remotes'[Home[r]][a] = None
  PROVE  Unaware(a, Home[r])'
<1> DEFINE c == From(a, Home[r])
           c2 == channel'[Node(Home[a])][Home[r]]
           gone == remotes[Home[r]][a] = None
           gone2 == remotes'[Home[r]][a] = None
<1>1. c \in Seq(Messages)
  BY BothWays DEF KInv, Shape, TypeOK, From
<1>2. Unaware(a, Home[r])' <=> gone2 \/ ExitComes(c2, a)
  BY DEF Unaware, From, Node, ExitComes
<1>3. gone \/ ExitComes(c, a)
  BY DEF Unaware
<1>4. \/ (gone => gone2) /\ (c2 = c \/ \E d \in Seq(Messages) : c2 = c \o d)
      \/ /\ c # <<>> /\ c2 = Tail(c)
         /\ gone2 \/ ((gone => gone2) /\ (c[1].type # "AGENT_EXIT" \/ c[1].agent # a))
  BY DEF Stays, Gets, Loses, From
<1> HIDE DEF c, c2, gone, gone2
<1>5. gone2 \/ ExitComes(c2, a)
  <2>1. ASSUME NEW d \in Seq(Messages), c2 = c \o d, ExitComes(c, a) PROVE ExitComes(c2, a)
    BY <1>1, <2>1, ExitConcat
  <2>2. c # <<>> /\ c2 = Tail(c) /\ ExitComes(c, a) =>
          ExitComes(c2, a) \/ (c[1].type = "AGENT_EXIT" /\ c[1].agent = a)
    BY <1>1, ExitTail
  <2> QED
    BY <1>3, <1>4, <2>1, <2>2
<1> QED
  BY <1>2, <1>5

LEMMA AnsweredKept ==
  ASSUME KInv, Calm, UNCHANGED started, NEW a \in Agents, NEW r \in Agents, Reached(r, Home[a]),
         Answered(a, r),
         remotes'[Home[a]][r] # None /\ Heard(a, r) => Heard(a, r)',
         \/ /\ remotes'[Home[a]][r] # None => remotes[Home[a]][r] # None
            /\ \/ Stays(Node(Home[r]), Home[a])
               \/ \E d \in Seq(Messages) :
                    Gets(Node(Home[r]), Home[a], d) /\ \A k \in 1..Len(d) : ~Plain(d[k], r)
         \/ /\ Loses(Node(Home[r]), Home[a])
            /\ remotes'[Home[a]][r] # None =>
                 \/ Heard(a, r)' \/ Plain(From(r, Home[a])[1], r)
                 \/ /\ remotes[Home[a]][r] # None
                    /\ ~(From(r, Home[a])[1].type = "AGENT_EXIT" /\ From(r, Home[a])[1].agent = r)
                    /\ ~(From(r, Home[a])[1].type = "KNOWS" /\ From(r, Home[a])[1].agent = a)
  PROVE  Answered(a, r)'
<1> DEFINE c == From(r, Home[a])
           c2 == channel'[Node(Home[r])][Home[a]]
           here == remotes[Home[a]][r] # None
           here2 == remotes'[Home[a]][r] # None
           heard == Heard(a, r)
           heard2 == Heard(a, r)'
<1>1. c \in Seq(Messages)
  BY BothWays DEF KInv, Shape, TypeOK, From
<1>2. Answered(a, r)' <=> Answers(c2, a, r, here2, heard2)
  BY DEF Answered, From, Node, Answers, ExitComes, KnowsComes
<1>3. Answers(c, a, r, here, heard)
  BY DEF Answered
<1>4. \/ /\ here2 => here
         /\ c2 = c \/ \E d \in Seq(Messages) : c2 = c \o d /\ \A k \in 1..Len(d) : ~Plain(d[k], r)
      \/ /\ c # <<>> /\ c2 = Tail(c)
         /\ here2 => \/ heard2 \/ Plain(c[1], r)
                     \/ /\ here /\ ~(c[1].type = "AGENT_EXIT" /\ c[1].agent = r)
                        /\ ~(c[1].type = "KNOWS" /\ c[1].agent = a)
  BY DEF Stays, Gets, Loses, From
<1>5. here2 /\ heard => heard2
  OBVIOUS
<1>9. here \in BOOLEAN /\ here2 \in BOOLEAN /\ heard \in BOOLEAN /\ heard2 \in BOOLEAN
  BY DEF Heard
<1> HIDE DEF c, c2, here, here2, heard, heard2
<1>6. ASSUME here2 => here, c2 = c PROVE Answers(c2, a, r, here2, heard2)
  BY <1>3, <1>5, <1>6, <1>9 DEF Answers
<1>7. ASSUME here2 => here, NEW d \in Seq(Messages), c2 = c \o d, \A k \in 1..Len(d) : ~Plain(d[k], r)
      PROVE  Answers(c2, a, r, here2, heard2)
  BY <1>1, <1>3, <1>5, <1>7, <1>9, AnswersConcat
<1>8. ASSUME c # <<>>, c2 = Tail(c),
             here2 => \/ heard2 \/ Plain(c[1], r)
                      \/ /\ here /\ ~(c[1].type = "AGENT_EXIT" /\ c[1].agent = r)
                         /\ ~(c[1].type = "KNOWS" /\ c[1].agent = a)
      PROVE  Answers(c2, a, r, here2, heard2)
  BY <1>1, <1>3, <1>5, <1>8, <1>9, AnswersTail
<1> QED
  BY <1>2, <1>4, <1>6, <1>7, <1>8

LEMMA ConfirmedAll ==
  ASSUME RInv, UNCHANGED <<up, started, links>>, Steady' => Steady,
         \A a, r \in Agents : Steady /\ Reached(r, Home[a]) => Unaware(a, Home[r])' \/ Answered(a, r)'
  PROVE  Confirmed'
<1>1. \A a, r \in Agents : Reached(r, Home[a])' <=> Reached(r, Home[a])
  BY DEF Reached, Link, Node
<1> QED
  BY <1>1 DEF Confirmed

LEMMA UsersSteady ==
  ASSUME Shape, UserOperation("activate")
  PROVE  /\ Steady' => Steady
         /\ Calm' => Calm
         /\ churn'["reconnect"] = 0 => churn["reconnect"] = 0
  BY DEF Shape, TypeOK, UserOperation, Calm, Steady, Kinds

-----------------------------------------------------------------------------
(***************************************************************************)
(* Every step keeps confirmations coming.                                  *)
(***************************************************************************)
\* Steps that change neither channels nor what is known.
LEMMA SilentConfirmed ==
  ASSUME RInv, UNCHANGED <<up, started, links, channel, remotes, known>>,
         Steady' => Steady, churn'["reconnect"] = 0 => churn["reconnect"] = 0,
         \A a, r \in Agents : remotes[Home[a]][r] # None /\ Heard(a, r) =>
                                Heard(a, r)' \/ (Steady /\ a \notin active)
  PROVE  JoinsOnce' /\ Confirmed'
<1>1. JoinsOnce'
  BY JoinsKept DEF Stays, RInv, KInv
<1>2. ASSUME Steady, NEW a \in Agents, NEW r \in Agents, Reached(r, Home[a])
      PROVE  Unaware(a, Home[r])' \/ Answered(a, r)'
  <2>1. Calm
    BY <1>2 DEF Steady, Calm
  <2>2. CASE Unaware(a, Home[r])
    BY <1>2, <2>1, <2>2, UnawareKept DEF RInv, Stays
  <2>3. CASE a \notin active
    BY <1>2, <2>1, <2>3, InactiveUnaware, UnawareKept DEF RInv, Stays
  <2>4. CASE a \in active /\ Answered(a, r)
    <3>1. remotes'[Home[a]][r] # None /\ Heard(a, r) => Heard(a, r)'
      BY <2>4
    <3> QED
      BY <1>2, <2>1, <2>4, <3>1, AnsweredKept DEF RInv, Stays
  <2> QED
    BY <1>2, <2>2, <2>3, <2>4 DEF RInv, Confirmed
<1> QED
  BY <1>1, <1>2, ConfirmedAll

LEMMA ActivateConfirmed ==
  ASSUME RInv, NEW a0 \in Agents, Activate(a0)
  PROVE  JoinsOnce' /\ Confirmed'
<1>1. /\ UNCHANGED <<up, started, links, channel, remotes, known, telling>> /\ UserOperation("activate")
      /\ a0 \notin active
      /\ \A a \in Agents : a # a0 => told'[a] = told[a]
  BY DEF Activate, registryVars, zyreVars, RInv, KInv, Shape, TypeOK
<1>2. (Steady' => Steady) /\ (churn'["reconnect"] = 0 => churn["reconnect"] = 0)
  BY <1>1, UsersSteady DEF RInv, KInv
<1>3. JoinsOnce'
  BY <1>1, <1>2, JoinsKept DEF Stays, RInv, KInv
<1>4. ASSUME Steady, NEW a \in Agents, NEW r \in Agents, Reached(r, Home[a])
      PROVE  Unaware(a, Home[r])' \/ Answered(a, r)'
  <2>1. Calm
    BY <1>4 DEF Steady, Calm
  <2>2. Unaware(a, Home[r]) => Unaware(a, Home[r])'
    BY <1>1, <1>4, <2>1, UnawareKept DEF RInv, Stays
  <2>3. CASE a = a0
    BY <1>1, <1>4, <2>1, <2>2, <2>3, InactiveUnaware DEF RInv
  <2>4. CASE a # a0
    <3>1. Heard(a, r)' <=> Heard(a, r)
      BY <1>1, <2>4 DEF Heard
    <3>2. Answered(a, r) => Answered(a, r)'
      BY <1>1, <1>4, <2>1, <3>1, AnsweredKept DEF RInv, Stays
    <3> QED
      BY <1>4, <2>2, <3>2 DEF RInv, Confirmed
  <2> QED
    BY <2>3, <2>4
<1> QED
  BY <1>1, <1>2, <1>3, <1>4, ConfirmedAll

LEMMA DeactivateConfirmed ==
  ASSUME RInv, NEW a0 \in Agents, Deactivate(a0)
  PROVE  JoinsOnce' /\ Confirmed'
<1>1. /\ UNCHANGED <<up, started, links, remotes, known, telling>> /\ UserOperation("activate")
      /\ \A a \in Agents : a # a0 => told'[a] = told[a]
  BY DEF Deactivate, registryVars, zyreVars, RInv, KInv, Shape, TypeOK
<1>2. (Steady' => Steady) /\ (churn'["reconnect"] = 0 => churn["reconnect"] = 0)
  BY <1>1, UsersSteady DEF RInv, KInv
<1>3. \A m \in Nodes, q \in Peers :
        channel'[m][q] = IF /\ up[Home[a0]] /\ m = Node(Home[a0]) /\ up[q]
                            /\ Node(q) \in Linked(Node(Home[a0]))
                         THEN channel[m][q] \o <<AgentExit(a0)>> ELSE channel[m][q]
  <2>1. channel \in Channels /\ UpIsNode
    BY DEF RInv, KInv, Shape, TypeOK, Places, Channels
  <2> QED
    BY <2>1, DeactivateSends
<1> DEFINE d == <<AgentExit(a0)>>
<1>4. /\ d \in Seq(Messages) /\ \A k \in 1..Len(d) : d[k].type = "AGENT_EXIT"
      /\ ExitComes(d, a0)
  <2>1. AgentExit(a0) \in Messages /\ AgentExit(a0).type = "AGENT_EXIT" /\ AgentExit(a0).agent = a0
    BY MessagesAre
  <2>2. d \in Seq(Messages)
    BY <2>1
  <2>3. Len(d) = 1 /\ d[1] = AgentExit(a0)
    OBVIOUS
  <2> HIDE DEF d
  <2> QED
    BY <2>1, <2>2, <2>3 DEF ExitComes
<1> HIDE DEF d
<1>5. \A m \in Nodes, q \in Peers : Stays(m, q) \/ Gets(m, q, d)
  BY <1>3, <1>4 DEF Stays, Gets, d
<1>6. JoinsOnce'
  <2>1. \A k \in 1..Len(d) : d[k].type # "JOIN"
    BY <1>4
  <2> QED
    BY <1>1, <1>2, <1>4, <1>5, <2>1, JoinsKept DEF RInv, KInv
<1>7. ASSUME Steady, NEW a \in Agents, NEW r \in Agents, Reached(r, Home[a])
      PROVE  Unaware(a, Home[r])' \/ Answered(a, r)'
  <2>1. Calm
    BY <1>7 DEF Steady, Calm
  <2>2. /\ Home[a] \in Peers /\ Home[r] \in Peers /\ Node(Home[a]) \in Nodes /\ Node(Home[r]) \in Nodes
        /\ up[Home[a]] /\ up[Home[r]] /\ Node(Home[r]) \in Linked(Node(Home[a]))
    BY <1>7, <2>1, BothWays DEF RInv
  <2>3. CASE a = a0
    <3>1. channel'[Node(Home[a])][Home[r]] = From(a, Home[r]) \o d
      BY <1>3, <2>2, <2>3 DEF From, d
    <3>2. From(a, Home[r]) \in Seq(Messages)
      BY <2>2 DEF RInv, KInv, Shape, TypeOK, From
    <3>3. ExitComes(channel'[Node(Home[a])][Home[r]], a)
      BY <1>4, <2>3, <3>1, <3>2, ExitConcat
    <3> QED
      BY <1>1, <3>3 DEF Unaware, From, Node, ExitComes
  <2>4. CASE a # a0
    <3>1. Heard(a, r)' <=> Heard(a, r)
      BY <1>1, <2>4 DEF Heard
    <3>2. Unaware(a, Home[r]) => Unaware(a, Home[r])'
      <4>1. Stays(Node(Home[a]), Home[r]) \/ Gets(Node(Home[a]), Home[r], d)
        BY <1>5, <2>2
      <4> QED
        BY <1>1, <1>4, <1>7, <2>1, <4>1, UnawareKept DEF RInv
    <3>3. Answered(a, r) => Answered(a, r)'
      <4>1. Stays(Node(Home[r]), Home[a]) \/ Gets(Node(Home[r]), Home[a], d)
        BY <1>5, <2>2
      <4>2. \A k \in 1..Len(d) : ~Plain(d[k], r)
        BY <1>4 DEF Plain
      <4> QED
        BY <1>1, <1>4, <1>7, <2>1, <3>1, <4>1, <4>2, AnsweredKept DEF RInv
    <3> QED
      BY <1>7, <3>2, <3>3 DEF RInv, Confirmed
  <2> QED
    BY <2>3, <2>4
<1> QED
  BY <1>1, <1>2, <1>6, <1>7, ConfirmedAll

LEMMA SendDefinitionConfirmed ==
  ASSUME RInv, NEW a0 \in Agents, SendDefinition(a0)
  PROVE  JoinsOnce' /\ Confirmed'
<1>1. UNCHANGED <<up, started, links, remotes, known, told, telling, churn>> /\ needDef[a0]
  BY DEF SendDefinition, zyreVars, registryVars
<1>2. \A m \in Nodes, q \in Peers :
        channel'[m][q] = IF /\ m = Node(Home[a0]) /\ up[q] /\ Node(q) \in Linked(Node(Home[a0]))
                            /\ known[Home[a0]][Node(q)] = "joined"
                         THEN channel[m][q] \o <<Definition(a0, atRuntime[a0])>>
                         ELSE channel[m][q]
  <2>1. channel \in Channels /\ UpIsNode /\ atRuntime \in [Agents -> BOOLEAN]
    BY DEF RInv, KInv, Shape, TypeOK, Places, Channels
  <2> QED
    BY <2>1, SendDefinitionSends
<1>3. atRuntime[a0] = TRUE
  BY <1>1 DEF RInv, TimerNotifies, KInv, Shape, TypeOK
<1> DEFINE def == Definition(a0, TRUE)
           d == <<def>>
<1>4. d \in Seq(Messages) /\ \A k \in 1..Len(d) : d[k].type = "DEFINITION" /\ d[k].runtime = TRUE
  <2>1. def \in Messages /\ def.type = "DEFINITION" /\ def.runtime = TRUE
    BY MessagesAre
  <2> HIDE DEF def
  <2> QED
    BY <2>1
<1>5. \A m \in Nodes, q \in Peers : Stays(m, q) \/ Gets(m, q, d)
  BY <1>2, <1>3, <1>4 DEF Stays, Gets
<1> HIDE DEF d
<1>6. \A k \in 1..Len(d) : d[k].type # "JOIN" /\ \A r : ~Plain(d[k], r)
  BY <1>4 DEF Plain
<1>7. JoinsOnce'
  BY <1>1, <1>4, <1>5, <1>6, JoinsKept DEF RInv, KInv
<1>8. ASSUME Steady, NEW a \in Agents, NEW r \in Agents, Reached(r, Home[a])
      PROVE  Unaware(a, Home[r])' \/ Answered(a, r)'
  <2>1. Calm
    BY <1>8 DEF Steady, Calm
  <2>2. Home[a] \in Peers /\ Home[r] \in Peers /\ Node(Home[a]) \in Nodes /\ Node(Home[r]) \in Nodes
    BY <1>8, <2>1, BothWays DEF RInv
  <2>3. Heard(a, r)' <=> Heard(a, r)
    BY <1>1 DEF Heard
  <2>4. Unaware(a, Home[r]) => Unaware(a, Home[r])'
    <3>1. Stays(Node(Home[a]), Home[r]) \/ Gets(Node(Home[a]), Home[r], d)
      BY <1>5, <2>2
    <3> QED
      BY <1>1, <1>4, <1>8, <2>1, <3>1, UnawareKept DEF RInv
  <2>5. Answered(a, r) => Answered(a, r)'
    <3>1. Stays(Node(Home[r]), Home[a]) \/ Gets(Node(Home[r]), Home[a], d)
      BY <1>5, <2>2
    <3> QED
      BY <1>1, <1>4, <1>6, <1>8, <2>1, <2>3, <3>1, AnsweredKept DEF RInv
  <2> QED
    BY <1>8, <2>4, <2>5 DEF RInv, Confirmed
<1> QED
  BY <1>1, <1>7, <1>8, ConfirmedAll DEF Steady

LEMMA ConnectConfirmed ==
  ASSUME RInv, NEW p0 \in Peers, NEW q0 \in Peers, Connect(p0, q0)
  PROVE  JoinsOnce' /\ Confirmed'
<1>1. /\ p0 # q0 /\ {Node(p0), Node(q0)} \notin links
      /\ up[p0] /\ up[q0] /\ links' = links \cup {{Node(p0), Node(q0)}}
      /\ UNCHANGED <<up, started, remotes, known, told, telling, churn>>
  BY DEF Connect, registryVars
<1>2. \A m \in Nodes, r \in Peers :
        channel'[m][r] = IF (m = Node(p0) /\ r = q0) \/ (m = Node(q0) /\ r = p0)
                         THEN channel[m][r] \o <<Enter, Join>> ELSE channel[m][r]
  <2>1. channel \in Channels /\ UpIsNode
    BY DEF RInv, KInv, Shape, TypeOK, Places, Channels
  <2> QED
    BY <2>1, ConnectSends
<1>3. ASSUME NEW p \in Peers, NEW q \in Peers, (p = p0 /\ q = q0) \/ (p = q0 /\ q = p0)
      PROVE  Node(p) \in Nodes /\ ~Met(Node(p), q)
  <2>1. Node(p) \in Nodes /\ Live(Node(p)) /\ up[q] /\ Node(p)[1] # q
    BY <1>1, <1>3, NodesAre DEF RInv, KInv, Shape, Places, UpIsNode, Live
  <2>2. {Node(p), Node(q)} = {Node(p0), Node(q0)}
    BY <1>3
  <2>3. ~Link(Node(p), q)
    BY <1>1, <2>2 DEF Link
  <2> QED
    BY <2>1, <2>3 DEF RInv, KInv, Shape, Places, MetLinked
<1>4. \A m \in Nodes, r \in Peers :
        \/ Stays(m, r)
        \/ /\ (m = Node(p0) /\ r = q0) \/ (m = Node(q0) /\ r = p0)
           /\ channel'[m][r] = <<Enter, Join>> /\ known[r][m] = "unknown"
  <2> SUFFICES ASSUME NEW m \in Nodes, NEW r \in Peers,
                      (m = Node(p0) /\ r = q0) \/ (m = Node(q0) /\ r = p0)
               PROVE  channel'[m][r] = <<Enter, Join>> /\ known[r][m] = "unknown"
    BY <1>2 DEF Stays
  <2>1. channel[m][r] = <<>> /\ known[r][m] = "unknown"
    BY <1>3 DEF Met
  <2>2. <<Enter, Join>> \in Seq(Messages)
    BY MessagesAre
  <2>3. <<>> \o <<Enter, Join>> = <<Enter, Join>>
    BY <2>2, ConcatEmptySeq
  <2> QED
    BY <1>2, <2>1, <2>3
<1>5. JoinsOnce'
  BY <1>1, <1>4, JoinsKept DEF RInv, KInv
<1>6. ASSUME Steady, NEW a \in Agents, NEW r \in Agents, Home[a] # Home[r],
             {Node(Home[r]), Node(Home[a])} = {Node(p0), Node(q0)}
      PROVE  Unaware(a, Home[r])'
  <2>1. /\ Home[a] \in Peers /\ Home[r] \in Peers
        /\ (Home[a] = p0 /\ Home[r] = q0) \/ (Home[a] = q0 /\ Home[r] = p0)
    <3>1. Home[a] \in Peers /\ Home[r] \in Peers
      BY NodesAre
    <3>2. Node(Home[r]) \in {Node(p0), Node(q0)} /\ Node(Home[a]) \in {Node(p0), Node(q0)}
      BY <1>6
    <3> QED
      BY <1>6, <3>1, <3>2, NodesAre
  <2>2. ~Met(Node(Home[a]), Home[r])
    BY <1>3, <2>1
  <2>3. Calm
    BY <1>6 DEF Steady, Calm
  <2>4. remotes[Home[r]][a] = None
    BY <2>1, <2>2, <2>3, CalmFacts DEF RInv, KInv
  <2> QED
    BY <1>1, <2>4 DEF Unaware
<1>7. ASSUME Steady, NEW a \in Agents, NEW r \in Agents, Reached(r, Home[a])
      PROVE  Unaware(a, Home[r])' \/ Answered(a, r)'
  <2>1. Calm
    BY <1>7 DEF Steady, Calm
  <2>2. Home[a] \in Peers /\ Home[r] \in Peers /\ Node(Home[a]) \in Nodes /\ Node(Home[r]) \in Nodes
    BY <1>7, <2>1, BothWays DEF RInv
  <2>3. {Node(Home[r]), Node(Home[a])} # {Node(p0), Node(q0)}
    BY <1>1, <1>7 DEF Reached, Link
  <2>4. Stays(Node(Home[r]), Home[a]) /\ Stays(Node(Home[a]), Home[r])
    BY <1>4, <2>2, <2>3
  <2>5. Heard(a, r)' <=> Heard(a, r)
    BY <1>1 DEF Heard
  <2>6. Unaware(a, Home[r]) => Unaware(a, Home[r])'
    BY <1>1, <1>7, <2>1, <2>4, UnawareKept DEF RInv
  <2>7. Answered(a, r) => Answered(a, r)'
    BY <1>1, <1>7, <2>1, <2>4, <2>5, AnsweredKept DEF RInv
  <2> QED
    BY <1>7, <2>6, <2>7 DEF RInv, Confirmed
<1>8. Confirmed'
  <2> SUFFICES ASSUME Steady', NEW a \in Agents, NEW r \in Agents, Reached(r, Home[a])'
               PROVE  Unaware(a, Home[r])' \/ Answered(a, r)'
    BY DEF Confirmed
  <2>1. Steady /\ Home[r] # Home[a] /\ {Node(Home[r]), Node(Home[a])} \in links'
    BY <1>1 DEF Steady, Reached, Link, Node
  <2>2. CASE {Node(Home[r]), Node(Home[a])} \in links
    BY <1>7, <2>1, <2>2 DEF Reached, Link
  <2>3. CASE {Node(Home[r]), Node(Home[a])} = {Node(p0), Node(q0)}
    BY <1>6, <2>1, <2>3
  <2> QED
    BY <1>1, <2>1, <2>2, <2>3
<1> QED
  BY <1>5, <1>8

\* The next message of node n is received by p0; what it says of agents apart.
LEMMA TakenConfirmed ==
  ASSUME RInv, NEW n \in Nodes, NEW p0 \in Peers, NEW type, Next1(n, p0, type),
         type \notin {"DEFINITION", "AGENT_EXIT", "KNOWS", "JOIN"}, channel' = Rest(n, p0),
         UNCHANGED <<up, started, links, remotes, told, telling, churn>>,
         \A m \in Nodes, q \in Peers : (m = n /\ q = p0) \/ known'[q][m] = known[q][m],
         known[p0][n] = "unknown" => known'[p0][n] = "entered"
  PROVE  JoinsOnce' /\ Confirmed'
<1>1. channel \in Channels /\ channel[n][p0] # <<>> /\ channel[n][p0][1].type = type
  BY HeadIs DEF RInv, KInv
<1>2. \A m \in Nodes, q \in Peers :
        channel'[m][q] = IF m = n /\ q = p0 THEN Tail(channel[n][p0]) ELSE channel[m][q]
  BY <1>1, RestIs
<1>3. \A m \in Nodes, q \in Peers : Stays(m, q) \/ (m = n /\ q = p0 /\ Loses(m, q))
  BY <1>1, <1>2 DEF Stays, Loses
<1>4. JoinsOnce'
  <2>1. \A m \in Nodes, q \in Peers :
           \/ known'[q][m] = known[q][m] /\ Stays(m, q)
           \/ Loses(m, q) /\ (known[q][m] = "unknown" => known'[q][m] = "entered")
    <3> SUFFICES ASSUME NEW m \in Nodes, NEW q \in Peers
                 PROVE  \/ known'[q][m] = known[q][m] /\ Stays(m, q)
                        \/ Loses(m, q) /\ (known[q][m] = "unknown" => known'[q][m] = "entered")
      OBVIOUS
    <3>1. CASE m = n /\ q = p0
      <4>1. Loses(m, q)
        BY <1>1, <1>2, <3>1 DEF Loses
      <4> QED
        BY <3>1, <4>1
    <3>2. CASE ~(m = n /\ q = p0)
      BY <1>3, <3>2
    <3> QED
      BY <3>1, <3>2
  <2> QED
    BY <2>1, JoinsKept DEF RInv, KInv
<1>5. ASSUME Steady, NEW a \in Agents, NEW r \in Agents, Reached(r, Home[a])
      PROVE  Unaware(a, Home[r])' \/ Answered(a, r)'
  <2>1. Calm
    BY <1>5 DEF Steady, Calm
  <2>2. Home[a] \in Peers /\ Home[r] \in Peers /\ Node(Home[a]) \in Nodes /\ Node(Home[r]) \in Nodes
    BY <1>5, <2>1, BothWays DEF RInv
  <2>3. Heard(a, r)' <=> Heard(a, r)
    BY DEF Heard
  <2>4. Unaware(a, Home[r]) => Unaware(a, Home[r])'
    <3>1. \/ Stays(Node(Home[a]), Home[r])
          \/ Loses(Node(Home[a]), Home[r]) /\ From(a, Home[r])[1].type = type
      BY <1>1, <1>3, <2>2 DEF From
    <3> QED
      BY <1>5, <2>1, <3>1, UnawareKept DEF RInv
  <2>5. Answered(a, r) => Answered(a, r)'
    <3>1. \/ Stays(Node(Home[r]), Home[a])
          \/ Loses(Node(Home[r]), Home[a]) /\ From(r, Home[a])[1].type = type
      BY <1>1, <1>3, <2>2 DEF From
    <3> QED
      BY <1>5, <2>1, <2>3, <3>1, AnsweredKept DEF RInv
  <2> QED
    BY <1>5, <2>4, <2>5 DEF RInv, Confirmed
<1> QED
  BY <1>4, <1>5, ConfirmedAll DEF Steady

\* A message of ingescape comes from a node that has joined.
LEMMA JoinedBefore ==
  ASSUME Shape, NEW n \in Nodes, NEW p \in Peers, NEW type, Next1(n, p, type), type # "ENTER"
  PROVE  known[p][n] # "unknown"
<1> DEFINE c == channel[n][p]
<1>1. c \in Seq(Messages) /\ c # <<>>
  BY Handling
<1>2. c[1].type = type
  <2>1. Head(c).type = type
    BY DEF Next1
  <2>2. Head(c) = c[1]
    <3> HIDE DEF c
    <3> QED
      BY <1>1, TailIs
  <2> QED
    BY <2>1, <2>2
<1>3. Pair(c, known[p][n], reconnected[p][n], FALSE, Live(n))
  BY Handling
<1> HIDE DEF c
<1> QED
  BY <1>1, <1>2, <1>3, MessagesAre DEF Pair, Opens

LEMMA RecvKnowsConfirmed ==
  ASSUME RInv, NEW n \in Nodes, NEW p0 \in Peers, RecvKnows(n, p0)
  PROVE  JoinsOnce' /\ Confirmed'
<1> DEFINE a0 == Head(channel[n][p0]).agent
<1>1. /\ channel \in Channels /\ channel[n][p0] # <<>> /\ channel[n][p0][1].type = "KNOWS"
      /\ channel[n][p0][1].agent = a0 /\ a0 \in Agents /\ Home[a0] = p0
  <2>1. Next1(n, p0, "KNOWS")
    BY DEF RecvKnows
  <2>2. /\ channel \in Channels /\ channel[n][p0] # <<>> /\ channel[n][p0][1].type = "KNOWS"
        /\ channel[n][p0][1] = Head(channel[n][p0]) /\ channel[n][p0][1] \in Messages
        /\ Fits(channel[n][p0][1], n, p0)
    BY <2>1, HeadIs DEF RInv, KInv
  <2> QED
    BY <2>2, MessageAgent DEF Fits
<1>2. UNCHANGED <<active, up, started, links, remotes, known, telling, churn>>
  BY DEF RecvKnows, agentVars, zyreVars, registryVars
<1>3. \A m \in Nodes, q \in Peers :
        channel'[m][q] = IF m = n /\ q = p0 THEN Tail(channel[n][p0]) ELSE channel[m][q]
  <2>1. channel' = Rest(n, p0)
    BY DEF RecvKnows
  <2> QED
    BY <1>1, <2>1, RestIs
<1>4. \A m \in Nodes, q \in Peers : Stays(m, q) \/ (m = n /\ q = p0 /\ Loses(m, q))
  BY <1>1, <1>3 DEF Stays, Loses
<1>5. told' = IF a0 \in active THEN Tells(a0, {"KNOWS_US"} \X {r \in Agents : remotes[p0][r] = n}) ELSE told
  BY DEF RecvKnows
<1> HIDE DEF a0
<1>6. /\ \A a \in Agents : told[a] \subseteq told'[a]
      /\ a0 \in active => \A r \in Agents : remotes[p0][r] = n => <<"KNOWS_US", r>> \in told'[a0]
  <2>1. CASE a0 \notin active
    BY <1>5, <2>1
  <2>2. CASE a0 \in active
    <3> DEFINE news == {"KNOWS_US"} \X {r \in Agents : remotes[p0][r] = n}
    <3>1. told' = [told EXCEPT ![a0] = @ \cup news]
      BY <1>5, <2>2 DEF Tells
    <3>2. \A r \in Agents : remotes[p0][r] = n => <<"KNOWS_US", r>> \in news
      OBVIOUS
    <3> HIDE DEF news
    <3>3. told \in [Agents -> SUBSET Events]
      BY DEF RInv, KInv, Shape, TypeOK
    <3> QED
      BY <1>1, <3>1, <3>2, <3>3
  <2> QED
    BY <2>1, <2>2
<1>7. JoinsOnce'
  <2>1. known[p0][n] # "unknown"
    BY JoinedBefore DEF RecvKnows, RInv, KInv
  <2> QED
    BY <1>2, <1>4, <2>1, JoinsKept DEF RInv, KInv
<1>8. ASSUME Steady, NEW a \in Agents, NEW r \in Agents, Reached(r, Home[a])
      PROVE  Unaware(a, Home[r])' \/ Answered(a, r)'
  <2>1. Calm
    BY <1>8 DEF Steady, Calm
  <2>2. Home[a] \in Peers /\ Home[r] \in Peers /\ Node(Home[a]) \in Nodes /\ Node(Home[r]) \in Nodes
    BY <1>8, <2>1, BothWays DEF RInv
  <2>3. Heard(a, r) => Heard(a, r)'
    BY <1>2, <1>6 DEF Heard
  <2>4. Unaware(a, Home[r]) => Unaware(a, Home[r])'
    <3>1. \/ Stays(Node(Home[a]), Home[r])
          \/ Loses(Node(Home[a]), Home[r]) /\ From(a, Home[r])[1].type = "KNOWS"
      BY <1>1, <1>4, <2>2 DEF From
    <3> QED
      BY <1>2, <1>8, <2>1, <3>1, UnawareKept DEF RInv
  <2>5. CASE ~(n = Node(Home[r]) /\ a = a0)
    <3>1. \/ Stays(Node(Home[r]), Home[a])
          \/ /\ Loses(Node(Home[r]), Home[a]) /\ From(r, Home[a])[1].type = "KNOWS"
             /\ From(r, Home[a])[1].agent # a
      <4>1. CASE Node(Home[r]) = n /\ Home[a] = p0
        BY <1>1, <1>4, <2>2, <2>5, <4>1 DEF From
      <4>2. CASE ~(Node(Home[r]) = n /\ Home[a] = p0)
        BY <1>4, <2>2, <4>2
      <4> QED
        BY <4>1, <4>2
    <3>2. Answered(a, r) => Answered(a, r)'
      BY <1>2, <1>8, <2>1, <2>3, <3>1, AnsweredKept DEF RInv
    <3> QED
      BY <1>8, <2>4, <3>2 DEF RInv, Confirmed
  <2>6. CASE n = Node(Home[r]) /\ a = a0 /\ a0 \notin active
    BY <1>8, <2>1, <2>4, <2>6, InactiveUnaware DEF RInv
  <2>7. CASE n = Node(Home[r]) /\ a = a0 /\ a0 \in active
    <3>1. remotes[Home[a]][r] # None => remotes[p0][r] = n
      BY <1>1, <2>1, <2>2, <2>7, CalmFacts DEF RInv, KInv
    <3>2. remotes'[Home[a]][r] # None => Heard(a, r)'
      BY <1>2, <1>6, <2>7, <3>1 DEF Heard
    <3>3. Stays(Node(Home[r]), Home[a]) \/ Loses(Node(Home[r]), Home[a])
      BY <1>4, <2>2
    <3>4. Answered(a, r) => Answered(a, r)'
      BY <1>2, <1>8, <2>1, <2>3, <3>2, <3>3, AnsweredKept DEF RInv
    <3> QED
      BY <1>8, <2>4, <3>4 DEF RInv, Confirmed
  <2> QED
    BY <2>5, <2>6, <2>7
<1> QED
  BY <1>2, <1>7, <1>8, ConfirmedAll DEF Steady

LEMMA RecvAgentExitConfirmed ==
  ASSUME RInv, NEW n \in Nodes, NEW p0 \in Peers, RecvAgentExit(n, p0)
  PROVE  JoinsOnce' /\ Confirmed'
<1> DEFINE r0 == Head(channel[n][p0]).agent
<1>1. /\ channel \in Channels /\ channel[n][p0] # <<>> /\ channel[n][p0][1].type = "AGENT_EXIT"
      /\ channel[n][p0][1].agent = r0 /\ r0 \in Agents /\ telling[p0] = <<>>
  <2>1. Next1(n, p0, "AGENT_EXIT")
    BY DEF RecvAgentExit
  <2>2. /\ channel \in Channels /\ channel[n][p0] # <<>> /\ channel[n][p0][1].type = "AGENT_EXIT"
        /\ channel[n][p0][1] = Head(channel[n][p0]) /\ channel[n][p0][1] \in Messages
    BY <2>1, HeadIs DEF RInv, KInv
  <2> QED
    BY <2>1, <2>2, MessageAgent DEF Next1, Ready
<1>2. UNCHANGED <<active, up, started, links, known, told, churn>>
  BY DEF RecvAgentExit, agentVars, zyreVars
<1>3. \A m \in Nodes, q \in Peers :
        channel'[m][q] = IF m = n /\ q = p0 THEN Tail(channel[n][p0]) ELSE channel[m][q]
  <2>1. channel' = Rest(n, p0)
    BY DEF RecvAgentExit
  <2> QED
    BY <1>1, <2>1, RestIs
<1>4. \A m \in Nodes, q \in Peers : Stays(m, q) \/ (m = n /\ q = p0 /\ Loses(m, q))
  BY <1>1, <1>3 DEF Stays, Loses
<1>5. /\ remotes'[p0][r0] = None
      /\ \A q \in Peers, r \in Agents : q # p0 \/ r # r0 => remotes'[q][r] = remotes[q][r]
      /\ \A q \in Peers : q # p0 => telling'[q] = telling[q]
  <2>1. CASE remotes[p0][r0] # None
    <3>1. /\ remotes' = [remotes EXCEPT ![p0][r0] = None]
          /\ telling' = [telling EXCEPT ![p0] = <<<<"EXITED", r0>>>>]
      BY <2>1 DEF RecvAgentExit
    <3> HIDE DEF r0
    <3> QED
      BY <1>1, <3>1 DEF RInv, KInv, Shape, TypeOK
  <2>2. CASE remotes[p0][r0] = None
    BY <2>2 DEF RecvAgentExit
  <2> QED
    BY <2>1, <2>2
<1> HIDE DEF r0
<1>6. JoinsOnce'
  <2>1. known[p0][n] # "unknown"
    BY JoinedBefore DEF RecvAgentExit, RInv, KInv
  <2> QED
    BY <1>2, <1>4, <2>1, JoinsKept DEF RInv, KInv
<1>7. ASSUME Steady, NEW a \in Agents, NEW r \in Agents, Reached(r, Home[a])
      PROVE  Unaware(a, Home[r])' \/ Answered(a, r)'
  <2>1. Calm
    BY <1>7 DEF Steady, Calm
  <2>2. Home[a] \in Peers /\ Home[r] \in Peers /\ Node(Home[a]) \in Nodes /\ Node(Home[r]) \in Nodes
    BY <1>7, <2>1, BothWays DEF RInv
  <2>3. Heard(a, r) => Heard(a, r)'
    <3>1. In(telling[p0]) = {}
      BY <1>1, InIs
    <3> QED
      BY <1>2, <1>5, <2>2, <3>1 DEF Heard
  <2>4. Unaware(a, Home[r]) => Unaware(a, Home[r])'
    <3>1. remotes[Home[r]][a] = None => remotes'[Home[r]][a] = None
      BY <1>5, <2>2
    <3>2. \/ Stays(Node(Home[a]), Home[r])
          \/ /\ Loses(Node(Home[a]), Home[r])
             /\ From(a, Home[r])[1].agent # a \/ remotes'[Home[r]][a] = None
      <4>1. CASE Node(Home[a]) = n /\ Home[r] = p0
        BY <1>1, <1>4, <1>5, <2>2, <4>1 DEF From
      <4>2. CASE ~(Node(Home[a]) = n /\ Home[r] = p0)
        BY <1>4, <2>2, <4>2
      <4> QED
        BY <4>1, <4>2
    <3> QED
      BY <1>2, <1>7, <2>1, <3>1, <3>2, UnawareKept DEF RInv
  <2>5. Answered(a, r) => Answered(a, r)'
    <3>1. remotes'[Home[a]][r] # None => remotes[Home[a]][r] # None
      BY <1>5, <2>2
    <3>2. \/ Stays(Node(Home[r]), Home[a])
          \/ /\ Loses(Node(Home[r]), Home[a]) /\ From(r, Home[a])[1].type = "AGENT_EXIT"
             /\ From(r, Home[a])[1].agent # r \/ remotes'[Home[a]][r] = None
      <4>1. CASE Node(Home[r]) = n /\ Home[a] = p0
        BY <1>1, <1>4, <1>5, <2>2, <4>1 DEF From
      <4>2. CASE ~(Node(Home[r]) = n /\ Home[a] = p0)
        BY <1>4, <2>2, <4>2
      <4> QED
        BY <4>1, <4>2
    <3> QED
      BY <1>2, <1>7, <2>1, <2>3, <3>1, <3>2, AnsweredKept DEF RInv
  <2> QED
    BY <1>7, <2>4, <2>5 DEF RInv, Confirmed
<1> QED
  BY <1>2, <1>6, <1>7, ConfirmedAll DEF Steady

\* An agent of a node whose JOIN is received is not known yet.
LEMMA RecvJoinConfirmed ==
  ASSUME RInv, NEW n \in Nodes, NEW p0 \in Peers, RecvJoin(n, p0)
  PROVE  JoinsOnce' /\ Confirmed'
<1>1. /\ UNCHANGED <<active, up, started, links, remotes, told, telling, churn>>
      /\ Next1(n, p0, "JOIN") /\ known[p0][n] # "unknown"
      /\ known' = [known EXCEPT ![p0][n] = "joined"]
  BY DEF RecvJoin, agentVars, zyreVars
<1>2. /\ channel \in Channels /\ channel[n][p0] # <<>> /\ channel[n][p0][1].type = "JOIN" /\ n[1] # p0
      /\ n # Node(p0)
  <2>1. /\ channel \in Channels /\ channel[n][p0] # <<>> /\ channel[n][p0][1].type = "JOIN" /\ n[1] # p0
    BY <1>1, HeadIs DEF RInv, KInv
  <2> QED
    BY <2>1, NodesAre
<1>3. \E list : /\ Announcement(p0, list)
                /\ \A m \in Nodes, q \in Peers :
                     channel'[m][q] =
                       IF m = n /\ q = p0 THEN Tail(channel[n][p0])
                       ELSE IF m = Node(p0) /\ up[q] /\ Node(q) = n /\ n \in Linked(Node(p0))
                       THEN channel[m][q] \o list ELSE channel[m][q]
  <2>1. UpIsNode /\ active \subseteq Agents
    BY DEF RInv, KInv, Shape, Places, TypeOK
  <2> QED
    BY <1>2, <2>1, RecvJoinSends
<1>4. PICK list : /\ Announcement(p0, list)
                  /\ \A m \in Nodes, q \in Peers :
                       channel'[m][q] =
                         IF m = n /\ q = p0 THEN Tail(channel[n][p0])
                         ELSE IF m = Node(p0) /\ up[q] /\ Node(q) = n /\ n \in Linked(Node(p0))
                         THEN channel[m][q] \o list ELSE channel[m][q]
  BY <1>3
<1>5. list \in Seq(Messages) /\ \A k \in 1..Len(list) : list[k].type = "DEFINITION"
  <2>1. active \subseteq Agents
    BY DEF RInv, KInv, Shape, TypeOK
  <2> QED
    BY <1>4, <2>1, AnnouncementIs
<1>6. \A m \in Nodes, q \in Peers :
        \/ Stays(m, q) \/ (m = n /\ q = p0 /\ Loses(m, q))
        \/ (m = Node(p0) /\ Node(q) = n /\ Gets(m, q, list))
  <2> SUFFICES ASSUME NEW m \in Nodes, NEW q \in Peers
               PROVE  \/ Stays(m, q) \/ (m = n /\ q = p0 /\ Loses(m, q))
                      \/ (m = Node(p0) /\ Node(q) = n /\ Gets(m, q, list))
    OBVIOUS
  <2>1. CASE m = n /\ q = p0
    BY <1>2, <1>4, <2>1 DEF Loses
  <2>2. CASE ~(m = n /\ q = p0)
    <3>1. \/ m = Node(p0) /\ Node(q) = n /\ channel'[m][q] = channel[m][q] \o list
          \/ channel'[m][q] = channel[m][q]
      BY <1>4, <2>2
    <3> QED
      BY <1>5, <3>1 DEF Stays, Gets
  <2> QED
    BY <2>1, <2>2
<1>7. \A m \in Nodes, q \in Peers : (m = n /\ q = p0) \/ known'[q][m] = known[q][m]
  BY <1>1 DEF RInv, KInv, Shape, TypeOK
<1>8. JoinsOnce'
  <2>1. \A m \in Nodes, q \in Peers :
           \/ /\ known'[q][m] = known[q][m]
              /\ \/ Stays(m, q)
                 \/ Gets(m, q, list) /\ \A i \in 1..Len(list) : list[i].type # "JOIN"
           \/ Loses(m, q) /\ (known[q][m] = "unknown" => known'[q][m] = "entered")
    <3> SUFFICES ASSUME NEW m \in Nodes, NEW q \in Peers
                 PROVE  \/ /\ known'[q][m] = known[q][m]
                           /\ \/ Stays(m, q)
                              \/ Gets(m, q, list) /\ \A i \in 1..Len(list) : list[i].type # "JOIN"
                        \/ Loses(m, q) /\ (known[q][m] = "unknown" => known'[q][m] = "entered")
      OBVIOUS
    <3>1. CASE m = n /\ q = p0
      <4>1. Loses(m, q)
        BY <1>2, <1>4, <3>1 DEF Loses
      <4> QED
        BY <1>1, <3>1, <4>1
    <3>2. CASE ~(m = n /\ q = p0)
      BY <1>5, <1>6, <1>7, <3>2
    <3> QED
      BY <3>1, <3>2
  <2> QED
    BY <1>1, <1>5, <2>1, JoinsKept DEF RInv, KInv
<1>9. churn["reconnect"] = 0 => known[p0][n] = "entered"
  <2> DEFINE c == channel[n][p0]
  <2>1. c \in Seq(Messages) /\ c # <<>> /\ c[1].type = "JOIN"
    BY <1>2 DEF Channels
  <2>2. churn["reconnect"] = 0 => JoinsAt(c, known[p0][n])
    BY DEF RInv, JoinsOnce
  <2> HIDE DEF c
  <2>3. 1 \in 1..Len(c)
    BY <2>1, TailIs
  <2> QED
    BY <2>1, <2>2, <2>3 DEF JoinsAt
<1>10. ASSUME Steady, NEW a \in Agents, NEW r \in Agents, Reached(r, Home[a])
      PROVE  Unaware(a, Home[r])' \/ Answered(a, r)'
  <2>1. Calm /\ churn["reconnect"] = 0
    BY <1>10 DEF Steady, Calm
  <2>2. Home[a] \in Peers /\ Home[r] \in Peers /\ Node(Home[a]) \in Nodes /\ Node(Home[r]) \in Nodes
    BY <1>10, <2>1, BothWays DEF RInv
  <2>3. Heard(a, r)' <=> Heard(a, r)
    BY <1>1 DEF Heard
  <2>4. Unaware(a, Home[r]) => Unaware(a, Home[r])'
    <3>1. \/ Stays(Node(Home[a]), Home[r]) \/ Gets(Node(Home[a]), Home[r], list)
          \/ Loses(Node(Home[a]), Home[r]) /\ From(a, Home[r])[1].type = "JOIN"
      BY <1>2, <1>6, <2>2 DEF From
    <3> QED
      BY <1>1, <1>5, <1>10, <2>1, <3>1, UnawareKept DEF RInv
  <2>5. CASE ~(Home[r] = p0 /\ Node(Home[a]) = n)
    <3>1. \/ Stays(Node(Home[r]), Home[a])
          \/ Loses(Node(Home[r]), Home[a]) /\ From(r, Home[a])[1].type = "JOIN"
      <4>1. Node(Home[r]) = Node(p0) => Home[r] = p0
        BY <2>2, NodesAre
      <4> QED
        BY <1>2, <1>6, <2>2, <2>5, <4>1 DEF From
    <3>2. Answered(a, r) => Answered(a, r)'
      BY <1>1, <1>10, <2>1, <2>3, <3>1, AnsweredKept DEF RInv
    <3> QED
      BY <1>10, <2>4, <3>2 DEF RInv, Confirmed
  <2>6. CASE Home[r] = p0 /\ Node(Home[a]) = n
    <3>1. remotes[p0][a] # None => known[p0][n] = "joined"
      BY <2>1, <2>6, CalmFacts DEF RInv, KInv
    <3>2. remotes'[Home[r]][a] = None
      BY <1>1, <1>9, <2>1, <2>6, <3>1
    <3> QED
      BY <3>2 DEF Unaware
  <2> QED
    BY <2>5, <2>6
<1> QED
  BY <1>1, <1>8, <1>10, ConfirmedAll DEF Steady

LEMMA RecvDefinitionConfirmed ==
  ASSUME RInv, NEW n \in Nodes, NEW p0 \in Peers, RecvDefinition(n, p0)
  PROVE  JoinsOnce' /\ Confirmed'
<1> DEFINE r0 == Head(channel[n][p0]).agent
           b == Head(channel[n][p0]).runtime
           new == remotes[p0][r0] = None
<1>1. /\ UNCHANGED <<active, up, started, links, known, told, churn>>
      /\ Next1(n, p0, "DEFINITION") /\ telling[p0] = <<>>
  BY DEF RecvDefinition, agentVars, zyreVars, Next1, Ready
<1>2. /\ channel \in Channels /\ channel[n][p0] # <<>> /\ channel[n][p0][1].type = "DEFINITION"
      /\ channel[n][p0][1].agent = r0 /\ channel[n][p0][1].runtime = b
      /\ r0 \in Agents /\ b \in BOOLEAN /\ Home[r0] = n[1] /\ n[1] # p0 /\ Met(n, p0) /\ up[p0]
  <2>1. /\ channel \in Channels /\ channel[n][p0] # <<>> /\ channel[n][p0][1].type = "DEFINITION"
        /\ channel[n][p0][1] = Head(channel[n][p0]) /\ channel[n][p0][1] \in Messages
        /\ Fits(channel[n][p0][1], n, p0) /\ n[1] # p0 /\ Met(n, p0) /\ up[p0]
    BY <1>1, HeadIs DEF RInv, KInv
  <2>2. r0 \in Agents /\ b \in BOOLEAN
    BY <2>1, MessageAgent
  <2>3. Home[r0] = n[1]
    BY <2>1 DEF Fits, News
  <2> QED
    BY <2>1, <2>2, <2>3
<1>3. \A m \in Nodes, q \in Peers :
        channel'[m][q] =
          IF m = n /\ q = p0 THEN Tail(channel[n][p0])
          ELSE IF new /\ m = Node(p0) /\ up[q] /\ Node(q) = n /\ n \in Linked(Node(p0))
          THEN channel[m][q] \o <<Knows(r0)>> ELSE channel[m][q]
  <2>1. UpIsNode
    BY DEF RInv, KInv, Shape, Places
  <2> QED
    BY <1>2, <2>1, RecvDefinitionSends
<1>4. IF new
      THEN /\ remotes' = [remotes EXCEPT ![p0][r0] = n]
           /\ telling' = [telling EXCEPT ![p0] = IF b THEN <<<<"ENTERED", r0>>, <<"KNOWS_US", r0>>>>
                                                 ELSE <<<<"ENTERED", r0>>>>]
      ELSE UNCHANGED <<remotes, telling>>
  BY DEF RecvDefinition
<1>5. new \in BOOLEAN /\ (new <=> remotes[p0][r0] = None)
  OBVIOUS
<1> HIDE DEF r0, b, new
<1>6. /\ \A q \in Peers, r \in Agents : q # p0 \/ r # r0 \/ ~new => remotes'[q][r] = remotes[q][r]
      /\ \A q \in Peers : q # p0 => telling'[q] = telling[q]
      /\ new /\ b => <<"KNOWS_US", r0>> \in In(telling'[p0])
  <2>1. CASE new
    <3>1. /\ \A q \in Peers, r \in Agents : q # p0 \/ r # r0 => remotes'[q][r] = remotes[q][r]
          /\ \A q \in Peers : q # p0 => telling'[q] = telling[q]
      BY <1>2, <1>4, <2>1 DEF RInv, KInv, Shape, TypeOK
    <3>2. b => telling'[p0] = <<<<"ENTERED", r0>>, <<"KNOWS_US", r0>>>>
      BY <1>4, <2>1 DEF RInv, KInv, Shape, TypeOK
    <3>3. b => In(telling'[p0]) = {<<"ENTERED", r0>>, <<"KNOWS_US", r0>>}
      BY <3>2, InIs
    <3> QED
      BY <2>1, <3>1, <3>3
  <2>2. CASE ~new
    BY <1>4, <2>2
  <2> QED
    BY <1>5, <2>1, <2>2
<1> DEFINE d == <<Knows(r0)>>
<1>7. /\ d \in Seq(Messages) /\ \A k \in 1..Len(d) : d[k].type = "KNOWS"
  <2>1. Knows(r0) \in Messages /\ Knows(r0).type = "KNOWS"
    BY <1>2, MessagesAre
  <2> QED
    BY <2>1
<1>8. \A m \in Nodes, q \in Peers :
        \/ Stays(m, q) \/ (m = n /\ q = p0 /\ Loses(m, q)) \/ (Node(q) = n /\ Gets(m, q, d))
  <2> SUFFICES ASSUME NEW m \in Nodes, NEW q \in Peers
               PROVE  \/ Stays(m, q) \/ (m = n /\ q = p0 /\ Loses(m, q))
                      \/ (Node(q) = n /\ Gets(m, q, d))
    OBVIOUS
  <2>1. CASE m = n /\ q = p0
    BY <1>2, <1>3, <2>1 DEF Loses
  <2>2. CASE ~(m = n /\ q = p0)
    <3>1. \/ Node(q) = n /\ channel'[m][q] = channel[m][q] \o d
          \/ channel'[m][q] = channel[m][q]
      BY <1>3, <2>2
    <3> QED
      BY <1>7, <3>1 DEF Stays, Gets
  <2> QED
    BY <2>1, <2>2
<1> HIDE DEF d
<1>9. \A k \in 1..Len(d) : d[k].type # "JOIN" /\ \A r : ~Plain(d[k], r)
  BY <1>7 DEF Plain
<1>10. JoinsOnce'
  <2>1. known[p0][n] # "unknown"
    BY <1>1, JoinedBefore DEF RInv, KInv
  <2> QED
    BY <1>1, <1>7, <1>8, <1>9, <2>1, JoinsKept DEF RInv, KInv
<1>11. ASSUME Steady, NEW a \in Agents, NEW r \in Agents, Reached(r, Home[a])
      PROVE  Unaware(a, Home[r])' \/ Answered(a, r)'
  <2>1. Calm
    BY <1>11 DEF Steady, Calm
  <2>2. /\ Home[a] \in Peers /\ Home[r] \in Peers /\ Node(Home[a]) \in Nodes /\ Node(Home[r]) \in Nodes
        /\ Home[a] # Home[r] /\ up[Home[a]] /\ Node(Home[a]) \in Linked(Node(Home[r]))
    BY <1>11, <2>1, BothWays DEF RInv
  <2>3. n = Node(n[1]) /\ n = Node(Home[r0])
    BY <1>2, <2>1, CalmFacts DEF RInv, KInv
  <2>4. Heard(a, r) => Heard(a, r)'
    <3>1. In(telling[p0]) = {}
      BY <1>1, InIs
    <3> QED
      BY <1>1, <1>6, <2>2, <3>1 DEF Heard
  <2>5. CASE Home[r] = p0 /\ a = r0 /\ new
    <3>1. Node(Home[a]) = n
      BY <2>3, <2>5
    <3>2. channel'[Node(Home[r])][Home[a]] = From(r, Home[a]) \o <<Knows(a)>>
      <4>1. /\ Node(p0) \in Nodes /\ Home[a] \in Peers /\ Home[a] # p0 /\ up[Home[a]]
            /\ n \in Linked(Node(p0)) /\ new /\ r0 = a /\ Home[r] = p0
        BY <2>2, <2>5, <3>1
      <4>2. channel'[Node(p0)][Home[a]] = channel[Node(p0)][Home[a]] \o <<Knows(r0)>>
        BY <1>3, <3>1, <4>1
      <4> QED
        BY <4>1, <4>2 DEF From
    <3>3. From(r, Home[a]) \in Seq(Messages) /\ Knows(a) \in Messages /\ Knows(a).type = "KNOWS" /\ Knows(a).agent = a
      BY <2>2, MessagesAre DEF RInv, KInv, Shape, TypeOK, From
    <3> DEFINE c == From(r, Home[a])
               c2 == channel'[Node(Home[r])][Home[a]]
               here2 == remotes'[Home[a]][r] # None
               heard2 == Heard(a, r)'
    <3>4. Answered(a, r)' <=> Answers(c2, a, r, here2, heard2)
      BY <1>1 DEF Answered, From, Node, Answers, ExitComes, KnowsComes
    <3>5. c2 = c \o <<Knows(a)>> /\ c \in Seq(Messages)
      BY <3>2, <3>3
    <3> HIDE DEF c, c2, here2, heard2
    <3>6. Answers(c2, a, r, here2, heard2)
      BY <3>3, <3>5, AnswersKnows
    <3> QED
      BY <3>4, <3>6
  <2>6. CASE ~(Home[r] = p0 /\ a = r0 /\ new)
    <3>1. remotes'[Home[r]][a] = remotes[Home[r]][a]
      BY <1>6, <2>2, <2>6
    <3>2. \/ Stays(Node(Home[a]), Home[r]) \/ Gets(Node(Home[a]), Home[r], d)
          \/ Loses(Node(Home[a]), Home[r]) /\ From(a, Home[r])[1].type = "DEFINITION"
      BY <1>2, <1>8, <2>2 DEF From
    <3>3. Unaware(a, Home[r]) => Unaware(a, Home[r])'
      BY <1>1, <1>7, <1>11, <2>1, <3>1, <3>2, UnawareKept DEF RInv
    <3>4. CASE Home[a] = p0 /\ Node(Home[r]) = n
      <4>1. Loses(Node(Home[r]), Home[a]) /\ From(r, Home[a])[1] = channel[n][p0][1]
        BY <1>2, <1>3, <3>4 DEF Loses, From
      <4>2. CASE r = r0 /\ new /\ b
        <5>1. Heard(a, r)'
          BY <1>6, <3>4, <4>2 DEF Heard
        <5> QED
          BY <1>1, <1>11, <2>1, <3>3, <4>1, <5>1, AnsweredKept DEF RInv, Confirmed
      <4>3. CASE r = r0 /\ new /\ ~b
        <5>1. Plain(From(r, Home[a])[1], r)
          BY <1>2, <4>1, <4>3 DEF Plain
        <5>2. Answered(a, r) => Answered(a, r)'
          BY <1>1, <1>11, <2>1, <2>4, <4>1, <5>1, AnsweredKept DEF RInv
        <5> QED
          BY <1>11, <3>3, <5>2 DEF RInv, Confirmed
      <4>4. CASE r # r0 \/ ~new
        <5>1. remotes'[Home[a]][r] = remotes[Home[a]][r]
          BY <1>6, <3>4, <4>4
        <5>2. Answered(a, r) => Answered(a, r)'
          BY <1>1, <1>2, <1>11, <2>1, <2>4, <4>1, <5>1, AnsweredKept DEF RInv
        <5> QED
          BY <1>11, <3>3, <5>2 DEF RInv, Confirmed
      <4> QED
        BY <1>2, <1>5, <4>2, <4>3, <4>4
    <3>5. CASE ~(Home[a] = p0 /\ Node(Home[r]) = n)
      <4>1. remotes'[Home[a]][r] = remotes[Home[a]][r]
        BY <1>6, <2>2, <2>3, <3>5
      <4>2. Stays(Node(Home[r]), Home[a]) \/ Gets(Node(Home[r]), Home[a], d)
        BY <1>8, <2>2, <3>5
      <4>3. Answered(a, r) => Answered(a, r)'
        BY <1>1, <1>7, <1>9, <1>11, <2>1, <2>4, <4>1, <4>2, AnsweredKept DEF RInv
      <4> QED
        BY <1>11, <3>3, <4>3 DEF RInv, Confirmed
    <3> QED
      BY <3>4, <3>5
  <2> QED
    BY <2>5, <2>6
<1> QED
  BY <1>1, <1>10, <1>11, ConfirmedAll DEF Steady

LEMMA TellConfirmed ==
  ASSUME RInv, NEW p \in Peers, Tell(p)
  PROVE  JoinsOnce' /\ Confirmed'
<1> DEFINE e == Head(telling[p])
<1>1. UNCHANGED <<active, up, started, links, channel, remotes, known, churn>> /\ telling[p] # <<>>
  BY DEF Tell, agentVars, zyreVars, registryVars
<1>2. /\ \A a \in Agents : told'[a] = IF a \notin active \cap On(p) THEN told[a]
                                      ELSE IF e[1] = "EXITED" THEN {x \in told[a] : x[2] # e[2]}
                                      ELSE told[a] \cup {e}
      /\ telling' = [telling EXCEPT ![p] = Tail(@)]
  BY DEF Tell
<1>3. /\ telling'[p] = Tail(telling[p]) /\ \A q \in Peers : q # p => telling'[q] = telling[q]
      /\ telling[p] \in Seq(Events)
  BY <1>2 DEF RInv, KInv, Shape, TypeOK
<1>4. In(telling[p]) = {e} \cup In(telling'[p]) /\ e \in Events
  BY <1>1, <1>3, InTail
<1> HIDE DEF e
<1>5. e[1] = "EXITED" <=> remotes[p][e[2]] = None
  BY <1>4 DEF RInv, ToldRight, TellingRight
<1>6. ASSUME Steady, NEW a \in active, NEW r \in Agents, remotes[Home[a]][r] # None, Heard(a, r)
      PROVE  Heard(a, r)'
  <2>1. a \in Agents /\ Home[a] \in Peers
    BY NodesAre DEF RInv, KInv, Shape, TypeOK
  <2>2. CASE Home[a] # p
    BY <1>2, <1>3, <1>6, <2>1, <2>2 DEF Heard, On
  <2>3. CASE Home[a] = p /\ e[1] = "EXITED"
    <3>1. told'[a] = {x \in told[a] : x[2] # e[2]}
      BY <1>2, <2>1, <2>3 DEF On
    <3>2. r # e[2]
      BY <1>5, <1>6, <2>3
    <3>3. <<"KNOWS_US", r>>[2] = r /\ <<"KNOWS_US", r>> # e
      BY <3>2
    <3>4. <<"KNOWS_US", r>> \in told[a] \cup In(telling[p])
      BY <1>6, <2>3 DEF Heard
    <3>5. <<"KNOWS_US", r>> \in told'[a] \cup In(telling'[p])
      BY <1>4, <3>1, <3>2, <3>3, <3>4
    <3> QED
      BY <2>3, <3>5 DEF Heard
  <2>4. CASE Home[a] = p /\ e[1] # "EXITED"
    <3>1. told'[a] = told[a] \cup {e}
      BY <1>2, <2>1, <2>4 DEF On
    <3> QED
      BY <1>4, <1>6, <2>4, <3>1 DEF Heard
  <2> QED
    BY <2>2, <2>3, <2>4
<1>7. Steady' => Steady
  BY <1>1 DEF Steady
<1>8. JoinsOnce'
  BY <1>1, JoinsKept DEF Stays, RInv, KInv
<1>9. ASSUME Steady, NEW a \in Agents, NEW r \in Agents, Reached(r, Home[a])
      PROVE  Unaware(a, Home[r])' \/ Answered(a, r)'
  <2>1. Calm
    BY <1>9 DEF Steady, Calm
  <2>2. Unaware(a, Home[r]) => Unaware(a, Home[r])'
    BY <1>1, <1>9, <2>1, UnawareKept DEF RInv, Stays
  <2>3. CASE a \notin active
    BY <1>9, <2>1, <2>2, <2>3, InactiveUnaware DEF RInv
  <2>4. CASE a \in active
    <3>1. remotes'[Home[a]][r] # None /\ Heard(a, r) => Heard(a, r)'
      BY <1>1, <1>6, <1>9, <2>4
    <3>2. Answered(a, r) => Answered(a, r)'
      BY <1>1, <1>9, <2>1, <3>1, AnsweredKept DEF RInv, Stays
    <3> QED
      BY <1>9, <2>2, <3>2 DEF RInv, Confirmed
  <2> QED
    BY <2>3, <2>4
<1> QED
  BY <1>1, <1>7, <1>8, <1>9, ConfirmedAll

LEMMA StartConfirmed ==
  ASSUME RInv, NEW p0 \in Peers, Start(p0)
  PROVE  JoinsOnce' /\ Confirmed'
<1>1. /\ UNCHANGED <<active, links, channel, remotes, known, told, telling, churn>> /\ ~up[p0]
      /\ started' = [started EXCEPT ![p0] = @ + 1]
  BY DEF Start, registryVars
<1>2. \A q \in Peers : q # p0 => started'[q] = started[q]
  BY <1>1 DEF RInv, KInv, Shape, TypeOK
<1>3. JoinsOnce'
  BY <1>1, JoinsKept DEF Stays, RInv, KInv
<1>4. ASSUME Steady, NEW a \in Agents, NEW r \in Agents, Reached(r, Home[a])'
      PROVE  Unaware(a, Home[r])' \/ Answered(a, r)'
  <2>1. Home[r] # Home[a] /\ {Node(Home[r])', Node(Home[a])'} \in links /\ Home[r] \in Peers /\ Home[a] \in Peers
    BY <1>1, <1>4, NodesAre DEF Reached, Link
  <2>2. PICK p1 \in Peers, p2 \in Peers :
          p1 # p2 /\ up[p1] /\ up[p2] /\ {Node(Home[r])', Node(Home[a])'} = {Node(p1), Node(p2)}
    BY <2>1 DEF RInv, KInv, Shape, Places, LinksLive
  <2>3. Home[r] # p0 /\ Home[a] # p0
    <3>1. Node(Home[r])'[1] = Home[r] /\ Node(Home[a])'[1] = Home[a]
      BY DEF Node
    <3>2. Node(Home[r])' \in {Node(p1), Node(p2)} /\ Node(Home[a])' \in {Node(p1), Node(p2)}
      BY <2>2
    <3>3. Node(p1)[1] = p1 /\ Node(p2)[1] = p2
      BY NodesAre
    <3>4. Home[r] \in {p1, p2} /\ Home[a] \in {p1, p2}
      BY <3>1, <3>2, <3>3
    <3> QED
      BY <1>1, <2>2, <3>4
  <2>4. Node(Home[r])' = Node(Home[r]) /\ Node(Home[a])' = Node(Home[a])
    BY <1>2, <2>1, <2>3 DEF Node
  <2>5. Reached(r, Home[a])
    BY <2>1, <2>4 DEF Reached, Link
  <2>6. Unaware(a, Home[r]) \/ Answered(a, r)
    BY <1>4, <2>5 DEF RInv, Confirmed
  <2>7. From(a, Home[r])' = From(a, Home[r]) /\ From(r, Home[a])' = From(r, Home[a])
    BY <1>1, <2>4 DEF From
  <2>8. Heard(a, r)' <=> Heard(a, r)
    BY <1>1 DEF Heard
  <2>9. Unaware(a, Home[r])' <=> Unaware(a, Home[r])
    BY <1>1, <2>7 DEF Unaware, ExitComes
  <2>10. Answered(a, r)' <=> Answered(a, r)
    BY <1>1, <2>7, <2>8 DEF Answered, Answers, ExitComes, KnowsComes
  <2> QED
    BY <2>6, <2>9, <2>10
<1> QED
  BY <1>1, <1>3, <1>4 DEF Confirmed, Steady

LEMMA StopConfirmed ==
  ASSUME RInv, NEW p0 \in Peers, Stop(p0)
  PROVE  JoinsOnce' /\ Confirmed'
<1>1. ~Steady' /\ (churn'["reconnect"] = 0 => churn["reconnect"] = 0)
  BY DEF RInv, KInv, Shape, TypeOK, Stop, UserOperation, Steady, Kinds
<1>2. \A m \in Nodes, q \in Peers :
        channel'[m][q] = IF q = p0 THEN <<>>
                         ELSE IF m = Node(p0) /\ up[q] /\ Node(q) \in Linked(m)
                         THEN Append(channel[m][q], Exit) ELSE channel[m][q]
  <2>1. channel \in Channels
    BY DEF RInv, KInv, Shape, TypeOK, Channels
  <2> QED
    BY <2>1, StopSends
<1>3. known' = [known EXCEPT ![p0] = [n \in Nodes |-> "unknown"]]
  BY DEF Stop
<1>4. \A m \in Nodes, q \in Peers : q # p0 => known'[q][m] = known[q][m]
  BY <1>3 DEF RInv, KInv, Shape, TypeOK
<1> DEFINE d == <<Exit>>
<1>5. d \in Seq(Messages) /\ \A k \in 1..Len(d) : d[k].type # "JOIN"
  BY MessagesAre
<1>6. ASSUME NEW m \in Nodes, NEW q \in Peers
      PROVE  \/ Stays(m, q) \/ channel'[m][q] = <<>> \/ Gets(m, q, d)
  <2> DEFINE c == channel[m][q]
  <2>1. c \in Seq(Messages)
    BY DEF RInv, KInv, Shape, TypeOK
  <2>2. Append(c, Exit) = c \o d
    <3> HIDE DEF c
    <3> QED
      BY <2>1, MessagesAre, AppendIsConcat
  <2> HIDE DEF d
  <2> QED
    BY <1>2, <1>5, <2>2 DEF Stays, Gets
<1> HIDE DEF d
<1>7. \A m \in Nodes, q \in Peers :
        \/ channel'[m][q] = <<>>
        \/ known'[q][m] = known[q][m] /\ (Stays(m, q) \/ Gets(m, q, d))
  BY <1>2, <1>4, <1>6
<1>8. JoinsOnce'
  BY <1>1, <1>5, <1>7, JoinsKept DEF RInv, KInv
<1> QED
  BY <1>1, <1>8 DEF Confirmed

LEMMA ReconnectConfirmed ==
  ASSUME RInv, NEW p \in Peers, NEW q \in Peers, Reconnect(p, q)
  PROVE  JoinsOnce' /\ Confirmed'
<1>1. churn'["reconnect"] # 0
  BY DEF RInv, KInv, Shape, TypeOK, Reconnect, UserOperation, Kinds
<1> QED
  BY <1>1 DEF JoinsOnce, Confirmed, Steady

LEMMA ExitStepConfirmed ==
  ASSUME RInv, NEW p0 \in Peers, ExitStep(p0)
  PROVE  JoinsOnce' /\ Confirmed'
<1>1. UNCHANGED <<channel, churn>> /\ leaving[p0] # None
  BY DEF ExitStep, zyreVars
<1>2. ~Steady'
  <2>1. ~Calm
    BY <1>1, CalmFacts DEF RInv, KInv
  <2> QED
    BY <1>1, <2>1 DEF Calm, Steady
<1>3. leaving[p0] \in Nodes /\ known \in [Peers -> [Nodes -> Table]]
  BY <1>1 DEF RInv, KInv, Shape, TypeOK, Table
<1>4. channel[leaving[p0]][p0] = <<>>
  BY <1>3 DEF RInv, KInv, Shape, Pairs, PairAt, Pair
<1>5. \/ UNCHANGED known
      \/ known' = [known EXCEPT ![p0][leaving[p0]] = "unknown"]
  BY DEF ExitStep
<1>6. \A m \in Nodes, q \in Peers :
        known'[q][m] = known[q][m] \/ (q = p0 /\ m = leaving[p0])
  BY <1>3, <1>5
<1>7. \A m \in Nodes, q \in Peers :
        \/ known'[q][m] = known[q][m] /\ Stays(m, q)
        \/ channel'[m][q] = <<>>
  BY <1>1, <1>4, <1>6 DEF Stays
<1>8. JoinsOnce'
  BY <1>1, <1>7, JoinsKept DEF RInv, KInv
<1> QED
  BY <1>2, <1>8 DEF Confirmed

-----------------------------------------------------------------------------
(***************************************************************************)
(* Every step keeps the registry ready.                                    *)
(***************************************************************************)
LEMMA NotifiesKept ==
  ASSUME Shape, TimerNotifies,
         \/ UNCHANGED <<needDef, atRuntime>>
         \/ \E a \in Agents, b \in BOOLEAN :
              needDef' = [needDef EXCEPT ![a] = b] /\ atRuntime' = [atRuntime EXCEPT ![a] = b]
         \/ \E p \in Peers :
              /\ needDef' = [a \in Agents |-> needDef[a] /\ a \notin active \cap On(p)]
              /\ atRuntime' = [a \in Agents |-> atRuntime[a] /\ a \notin active \cap On(p)]
  PROVE  TimerNotifies'
<1>1. needDef \in [Agents -> BOOLEAN] /\ atRuntime \in [Agents -> BOOLEAN]
  BY DEF Shape, TypeOK
<1>2. CASE UNCHANGED <<needDef, atRuntime>>
  BY <1>2 DEF TimerNotifies
<1>3. ASSUME NEW a \in Agents, NEW b \in BOOLEAN,
             needDef' = [needDef EXCEPT ![a] = b], atRuntime' = [atRuntime EXCEPT ![a] = b]
      PROVE  TimerNotifies'
  BY <1>1, <1>3 DEF TimerNotifies
<1>4. ASSUME NEW p \in Peers,
             needDef' = [a \in Agents |-> needDef[a] /\ a \notin active \cap On(p)],
             atRuntime' = [a \in Agents |-> atRuntime[a] /\ a \notin active \cap On(p)]
      PROVE  TimerNotifies'
  <2> SUFFICES ASSUME NEW a \in Agents PROVE needDef'[a] = atRuntime'[a]
    BY DEF TimerNotifies
  <2>1. needDef[a] = atRuntime[a]
    BY DEF TimerNotifies
  <2>2. /\ needDef'[a] = (needDef[a] /\ a \notin active \cap On(p))
        /\ atRuntime'[a] = (atRuntime[a] /\ a \notin active \cap On(p))
    BY <1>4
  <2> QED
    BY <2>1, <2>2
<1> QED
  BY <1>2, <1>3, <1>4

LEMMA UserReady ==
  ASSUME RInv,
         \/ \E p, q \in Peers : Connect(p, q) \/ Reconnect(p, q)
         \/ \E a \in Agents : Activate(a) \/ Deactivate(a)
         \/ \E p \in Peers : Start(p) \/ Stop(p)
  PROVE  ToldRight' /\ TimerNotifies' /\ JoinsOnce' /\ Confirmed'
<1>0. Shape /\ ToldRight /\ TimerNotifies
  BY DEF RInv, KInv
<1>1. ASSUME NEW p \in Peers, NEW q \in Peers, Connect(p, q)
      PROVE  ToldRight' /\ TimerNotifies' /\ JoinsOnce' /\ Confirmed'
  <2>1. UNCHANGED <<active, needDef, atRuntime, told, telling, remotes, churn>>
    BY <1>1 DEF Connect, agentVars, registryVars
  <2>2. ToldRight'
    BY <1>0, <2>1, SilentTold DEF Calm
  <2> QED
    BY <1>0, <1>1, <2>1, <2>2, NotifiesKept, ConnectConfirmed
<1>2. ASSUME NEW p \in Peers, NEW q \in Peers, Reconnect(p, q)
      PROVE  ToldRight' /\ TimerNotifies' /\ JoinsOnce' /\ Confirmed'
  <2>1. UNCHANGED <<active, needDef, atRuntime, told, telling, remotes>> /\ UserOperation("reconnect")
    BY <1>2 DEF Reconnect, agentVars, registryVars
  <2>2. Calm' => Calm
    BY <1>0, <2>1, UsersCalm
  <2>3. ToldRight'
    BY <1>0, <2>1, <2>2, SilentTold
  <2> QED
    BY <1>0, <1>2, <2>1, <2>3, NotifiesKept, ReconnectConfirmed
<1>3. ASSUME NEW a \in Agents, Activate(a)
      PROVE  ToldRight' /\ TimerNotifies' /\ JoinsOnce' /\ Confirmed'
  <2>1. needDef' = [needDef EXCEPT ![a] = TRUE] /\ atRuntime' = [atRuntime EXCEPT ![a] = TRUE]
    BY <1>3 DEF Activate
  <2>2. TimerNotifies'
    BY <1>0, <2>1, NotifiesKept
  <2> QED
    BY <1>0, <1>3, <2>2, ActivateTold, ActivateConfirmed
<1>4. ASSUME NEW a \in Agents, Deactivate(a)
      PROVE  ToldRight' /\ TimerNotifies' /\ JoinsOnce' /\ Confirmed'
  <2>1. UNCHANGED <<needDef, atRuntime>>
    BY <1>4 DEF Deactivate
  <2>2. TimerNotifies'
    BY <1>0, <2>1, NotifiesKept
  <2> QED
    BY <1>0, <1>4, <2>2, DeactivateTold, DeactivateConfirmed
<1>5. ASSUME NEW p \in Peers, Start(p)
      PROVE  ToldRight' /\ TimerNotifies' /\ JoinsOnce' /\ Confirmed'
  <2>1. /\ UNCHANGED <<active, told, telling, remotes, churn>>
        /\ needDef' = [a \in Agents |-> needDef[a] /\ a \notin active \cap On(p)]
        /\ atRuntime' = [a \in Agents |-> atRuntime[a] /\ a \notin active \cap On(p)]
    BY <1>5 DEF Start, registryVars
  <2>2. ToldRight'
    BY <1>0, <2>1, SilentTold DEF Calm
  <2>3. TimerNotifies'
    BY <1>0, <2>1, NotifiesKept
  <2> QED
    BY <1>5, <2>2, <2>3, StartConfirmed
<1>6. ASSUME NEW p \in Peers, Stop(p)
      PROVE  ToldRight' /\ TimerNotifies' /\ JoinsOnce' /\ Confirmed'
  <2>1. UNCHANGED <<needDef, atRuntime>>
    BY <1>6 DEF Stop, agentVars
  <2>2. TimerNotifies'
    BY <1>0, <2>1, NotifiesKept
  <2>3. ToldRight'
    BY <1>6, StopTold DEF RInv
  <2> QED
    BY <1>6, <2>2, <2>3, StopConfirmed
<1> QED
  BY <1>1, <1>2, <1>3, <1>4, <1>5, <1>6

LEMMA NetworkReady ==
  ASSUME RInv, NEW p \in Peers, NetworkNext(p)
  PROVE  ToldRight' /\ TimerNotifies' /\ JoinsOnce' /\ Confirmed'
<1>0. Shape /\ KInv /\ ToldRight /\ TimerNotifies
  BY DEF RInv, KInv
<1>1. ASSUME NEW n \in Nodes, RecvEnter(n, p)
      PROVE  ToldRight' /\ TimerNotifies' /\ JoinsOnce' /\ Confirmed'
  <2>1. /\ Next1(n, p, "ENTER") /\ channel' = Rest(n, p)
        /\ UNCHANGED <<active, needDef, atRuntime, up, started, links, remotes, told, telling, churn>>
        /\ known[p][n] = "unknown" => known' = [known EXCEPT ![p][n] = "entered"]
        /\ known[p][n] # "unknown" => UNCHANGED known
    BY <1>1 DEF RecvEnter, agentVars, zyreVars
  <2>2. known \in [Peers -> [Nodes -> Table]]
    BY <1>0 DEF Shape, TypeOK, Table
  <2>3. /\ \A m \in Nodes, q \in Peers : (m = n /\ q = p) \/ known'[q][m] = known[q][m]
        /\ known[p][n] = "unknown" => known'[p][n] = "entered"
    BY <2>1, <2>2
  <2>4. ToldRight'
    BY <1>0, <2>1, SilentTold DEF Calm
  <2>5. TimerNotifies'
    BY <1>0, <2>1, NotifiesKept
  <2>6. JoinsOnce' /\ Confirmed'
    BY <2>1, <2>3, TakenConfirmed
  <2> QED
    BY <2>4, <2>5, <2>6
<1>2. ASSUME NEW n \in Nodes, RecvExit(n, p)
      PROVE  ToldRight' /\ TimerNotifies' /\ JoinsOnce' /\ Confirmed'
  <2>1. /\ Next1(n, p, "EXIT") /\ channel' = Rest(n, p)
        /\ UNCHANGED <<active, needDef, atRuntime, up, started, links, known, remotes, told, telling, churn>>
    BY <1>2 DEF RecvExit, agentVars, zyreVars
  <2>2. known[p][n] # "unknown"
    BY <1>0, <2>1, JoinedBefore
  <2>3. ToldRight'
    BY <1>0, <2>1, SilentTold DEF Calm
  <2>4. TimerNotifies'
    BY <1>0, <2>1, NotifiesKept
  <2>5. JoinsOnce' /\ Confirmed'
    BY <2>1, <2>2, TakenConfirmed
  <2> QED
    BY <2>3, <2>4, <2>5
<1>3. ASSUME NEW n \in Nodes, RecvJoin(n, p)
      PROVE  ToldRight' /\ TimerNotifies' /\ JoinsOnce' /\ Confirmed'
  <2>1. UNCHANGED <<active, needDef, atRuntime, remotes, told, telling, churn>>
    BY <1>3 DEF RecvJoin, agentVars
  <2>2. ToldRight'
    BY <1>0, <2>1, SilentTold DEF Calm
  <2>3. TimerNotifies'
    BY <1>0, <2>1, NotifiesKept
  <2> QED
    BY <1>3, <2>2, <2>3, RecvJoinConfirmed
<1>4. ASSUME NEW n \in Nodes, RecvDefinition(n, p)
      PROVE  ToldRight' /\ TimerNotifies' /\ JoinsOnce' /\ Confirmed'
  <2>1. UNCHANGED <<needDef, atRuntime>>
    BY <1>4 DEF RecvDefinition, agentVars
  <2>2. TimerNotifies'
    BY <1>0, <2>1, NotifiesKept
  <2> QED
    BY <1>0, <1>4, <2>2, RecvDefinitionTold, RecvDefinitionConfirmed
<1>5. ASSUME NEW n \in Nodes, RecvKnows(n, p)
      PROVE  ToldRight' /\ TimerNotifies' /\ JoinsOnce' /\ Confirmed'
  <2>1. UNCHANGED <<needDef, atRuntime>>
    BY <1>5 DEF RecvKnows, agentVars
  <2>2. TimerNotifies'
    BY <1>0, <2>1, NotifiesKept
  <2> QED
    BY <1>0, <1>5, <2>2, RecvKnowsTold, RecvKnowsConfirmed
<1>6. ASSUME NEW n \in Nodes, RecvAgentExit(n, p)
      PROVE  ToldRight' /\ TimerNotifies' /\ JoinsOnce' /\ Confirmed'
  <2>1. UNCHANGED <<needDef, atRuntime>>
    BY <1>6 DEF RecvAgentExit, agentVars
  <2>2. TimerNotifies'
    BY <1>0, <2>1, NotifiesKept
  <2> QED
    BY <1>0, <1>6, <2>2, RecvAgentExitTold, RecvAgentExitConfirmed
<1>7. ASSUME NEW a \in On(p), SendDefinition(a)
      PROVE  ToldRight' /\ TimerNotifies' /\ JoinsOnce' /\ Confirmed'
  <2>1. /\ a \in Agents /\ UNCHANGED <<active, remotes, told, telling, churn>>
        /\ needDef' = [needDef EXCEPT ![a] = FALSE] /\ atRuntime' = [atRuntime EXCEPT ![a] = FALSE]
    BY <1>7 DEF SendDefinition, registryVars, On
  <2>2. ToldRight'
    BY <1>0, <2>1, SilentTold DEF Calm
  <2>3. TimerNotifies'
    BY <1>0, <2>1, NotifiesKept
  <2> QED
    BY <1>7, <2>1, <2>2, <2>3, SendDefinitionConfirmed
<1>8. CASE ExitStep(p)
  <2>1. UNCHANGED <<needDef, atRuntime>>
    BY <1>8 DEF ExitStep, agentVars
  <2>2. TimerNotifies'
    BY <1>0, <2>1, NotifiesKept
  <2> QED
    BY <1>0, <1>8, <2>2, ExitStepTold, ExitStepConfirmed
<1>9. CASE Tell(p)
  <2>1. UNCHANGED <<needDef, atRuntime>>
    BY <1>9 DEF Tell, agentVars
  <2>2. TimerNotifies'
    BY <1>0, <2>1, NotifiesKept
  <2> QED
    BY <1>0, <1>9, <2>2, TellTold, TellConfirmed
<1> QED
  BY <1>1, <1>2, <1>3, <1>4, <1>5, <1>6, <1>7, <1>8, <1>9 DEF NetworkNext

LEMMA NextReady == RInv /\ [Next]_vars => RInv'
<1> SUFFICES ASSUME RInv, [Next]_vars PROVE RInv'
  OBVIOUS
<1>1. KInv'
  BY NextKnown DEF RInv
<1>2. ASSUME UNCHANGED vars PROVE ToldRight' /\ TimerNotifies' /\ JoinsOnce' /\ Confirmed'
  <2>1. UNCHANGED <<active, needDef, atRuntime, up, started, links, channel, known, remotes, told, telling, churn>>
    BY <1>2 DEF vars, agentVars, zyreVars, registryVars
  <2>2. ToldRight'
    BY <2>1, SilentTold DEF RInv, Calm
  <2>3. TimerNotifies'
    BY <2>1 DEF RInv, TimerNotifies
  <2>4. \A a, r \in Agents : Heard(a, r)' <=> Heard(a, r)
    BY <2>1 DEF Heard
  <2>5. JoinsOnce' /\ Confirmed'
    BY <2>1, <2>4, SilentConfirmed DEF Steady
  <2> QED
    BY <2>2, <2>3, <2>5
<1>3. ASSUME Next PROVE ToldRight' /\ TimerNotifies' /\ JoinsOnce' /\ Confirmed'
  <2>1. \/ \E p, q \in Peers : Connect(p, q) \/ Reconnect(p, q)
        \/ \E a \in Agents : Activate(a) \/ Deactivate(a)
        \/ \E p \in Peers : Start(p) \/ Stop(p)
        \/ \E p \in Peers : NetworkNext(p)
    BY <1>3 DEF Next
  <2> QED
    BY <2>1, UserReady, NetworkReady
<1> QED
  BY <1>1, <1>2, <1>3 DEF RInv

LEMMA InitReady == Init => RInv
<1> SUFFICES ASSUME Init PROVE RInv
  OBVIOUS
<1>1. KInv
  BY InitKnown
<1>2. \A p \in Peers : telling[p] = <<>> /\ In(telling[p]) = {}
  BY InIs DEF Init
<1>3. ToldRight
  <2>1. TellingRight /\ NeverExited
    BY <1>2 DEF Init, TellingRight, NeverExited
  <2>2. ToldEntered
    <3> SUFFICES ASSUME NEW a \in active, NEW r \in Agents
                 PROVE  remotes[Home[a]][r] = None /\ told[a] = {}
      BY DEF ToldEntered
    <3> QED
      BY NodesAre DEF Init
  <2> QED
    BY <2>1, <2>2 DEF ToldRight
<1>4. TimerNotifies
  BY DEF Init, TimerNotifies
<1>5. JoinsOnce
  <2>1. Len(<<>>) = 0
    BY EmptySeq
  <2> QED
    BY <2>1 DEF Init, JoinsOnce, JoinsAt
<1>6. Confirmed
  BY DEF Init, Confirmed, Reached, Link
<1> QED
  BY <1>1, <1>3, <1>4, <1>5, <1>6 DEF RInv

\* Once nothing is under way, an agent was told everything.
LEMMA ReadyEveryone == RInv => EveryoneReady
<1> SUFFICES ASSUME RInv, Quiet, churn["restart"] + churn["reconnect"] = 0, NEW a \in active
             PROVE  told[a] = {"ENTERED", "KNOWS_US"} \X (active \ On(Home[a]))
  BY DEF EveryoneReady
<1>1. Steady /\ Calm
  BY DEF RInv, KInv, Shape, TypeOK, Kinds, Steady, Calm
<1>2. a \in Agents /\ active \subseteq Agents /\ Home[a] \in Peers /\ told[a] \subseteq Events
  BY NodesAre DEF RInv, KInv, Shape, TypeOK
<1>3. \A r \in Agents : remotes[Home[a]][r] # None <=> r \in active /\ Home[r] # Home[a]
  <2>1. Agreement
    BY <1>1, KnownAgree DEF RInv, RegistryAgrees, Calm
  <2> QED
    BY <1>2, <2>1 DEF Agreement, On
<1>4. In(telling[Home[a]]) = {}
  BY <1>2, InIs DEF Quiet
<1>5. ASSUME NEW x \in told[a] PROVE x \in {"ENTERED", "KNOWS_US"} \X (active \ On(Home[a]))
  <2>1. x \in Events /\ x[1] # "EXITED"
    BY <1>2 DEF RInv, ToldRight, NeverExited
  <2>2. x[1] \in {"ENTERED", "KNOWS_US"} /\ x[2] \in Agents /\ x = <<x[1], x[2]>>
    BY <2>1 DEF Events
  <2>3. remotes[Home[a]][x[2]] # None
    BY <1>1, <1>4, <2>2 DEF RInv, ToldRight, ToldEntered
  <2> QED
    BY <1>3, <2>2, <2>3 DEF On
<1>6. ASSUME NEW r \in active \ On(Home[a])
      PROVE  <<"ENTERED", r>> \in told[a] /\ <<"KNOWS_US", r>> \in told[a]
  <2>1. r \in Agents /\ r \in active /\ Home[r] # Home[a] /\ Home[r] \in Peers
    BY <1>2, NodesAre DEF On
  <2>2. remotes[Home[a]][r] # None
    BY <1>3, <2>1
  <2>3. <<"ENTERED", r>> \in told[a]
    BY <1>1, <1>4, <2>1, <2>2 DEF RInv, ToldRight, ToldEntered
  <2>4. Reached(r, Home[a])
    BY <1>2, <2>1 DEF Quiet, Reached, Link
  <2>5. Node(Home[a]) \in Nodes /\ Node(Home[r]) \in Nodes
    BY <1>1, <1>2, <2>1, <2>4, BothWays DEF RInv
  <2>6. From(a, Home[r]) = <<>> /\ From(r, Home[a]) = <<>>
    BY <1>2, <2>1, <2>5 DEF Quiet, From
  <2>7. Len(<<>>) = 0
    BY EmptySeq
  <2>8. remotes[Home[r]][a] # None
    <3>1. Agreement
      BY <1>1, KnownAgree DEF RInv, RegistryAgrees, Calm
    <3> QED
      BY <1>2, <2>1, <3>1 DEF Agreement, On
  <2>9. ~Unaware(a, Home[r])
    BY <2>6, <2>7, <2>8 DEF Unaware, ExitComes
  <2>10. Answered(a, r)
    BY <1>1, <1>2, <2>1, <2>4, <2>9 DEF RInv, Confirmed
  <2>11. Heard(a, r)
    BY <2>2, <2>6, <2>7, <2>10 DEF Answered, Answers, ExitComes, KnowsComes
  <2> QED
    BY <1>4, <2>3, <2>11 DEF Heard
<1>7. ASSUME NEW x \in {"ENTERED", "KNOWS_US"} \X (active \ On(Home[a])) PROVE x \in told[a]
  <2>1. x[1] \in {"ENTERED", "KNOWS_US"} /\ x[2] \in active \ On(Home[a]) /\ x = <<x[1], x[2]>>
    OBVIOUS
  <2> QED
    BY <1>6, <2>1
<1> DEFINE all == {"ENTERED", "KNOWS_US"} \X (active \ On(Home[a]))
<1> HIDE DEF all
<1>8. told[a] = all
  BY <1>5, <1>7 DEF all
<1> QED
  BY <1>8 DEF all

\* Whatever peers enter, join, leave, time out and come back, and whatever their
\* agents do (s_manage_zyre_incoming, s_trigger_definition_update, igs_start,
\* igs_stop): no remote agent outlives the record of its peer, the assertions of
\* the network thread hold, and, once every message is received, each peer knows
\* exactly the active agents of the others and each agent was told so.
THEOREM RegistryIsSound == Spec => []RegistrySound
<1>1. RInv => RegistrySound
  <2> SUFFICES ASSUME RInv PROVE RegistrySound
    OBVIOUS
  <2>1. PeerOfRemoteKnown /\ AssertionsHold
    BY ShapeSound DEF RInv, KInv
  <2>2. RegistryAgrees
    BY KnownAgree DEF RInv
  <2>3. EveryoneReady
    BY ReadyEveryone
  <2> QED
    BY <2>1, <2>2, <2>3 DEF RegistrySound
<1> QED
  BY <1>1, InitReady, NextReady, PTL DEF Spec
=============================================================================
