------------------------------ MODULE CallBag ------------------------------
(***************************************************************************)
(* What igsagent_service_call promises (src/include/ingescape.h, "call a   *)
(* service hosted by another agent"): a call is a set of requests, one for *)
(* each agent it is addressed to.  A request is served at most once, may   *)
(* be dropped, and the requests of one thread to one agent are served in   *)
(* the order of its calls.                                                 *)
(***************************************************************************)
EXTENDS Naturals

CONSTANTS
  Threads,   \* who calls
  Callees,   \* who is called
  Numbers    \* the calls of a thread, in order

Requests == [thread : Threads, number : Numbers, callee : Callees]

VARIABLES
  outstanding,  \* requests on their way
  served        \* requests for which a callback was called

vars == <<outstanding, served>>

Init == outstanding = {} /\ served = {}

Fresh(t, n) == \A r \in outstanding \cup served : r.thread = t => r.number # n

Ask(t, n, S) ==
  /\ Fresh(t, n)
  /\ outstanding' = outstanding \cup {[thread |-> t, number |-> n, callee |-> c] : c \in S}
  /\ UNCHANGED served

Serve(r) ==
  /\ r \in outstanding
  /\ \A o \in outstanding :
       o.thread = r.thread /\ o.callee = r.callee => o.number >= r.number
  /\ outstanding' = outstanding \ {r}
  /\ served' = served \cup {r}

Drop(S) ==
  /\ S # {} /\ S \subseteq outstanding
  /\ outstanding' = outstanding \ S
  /\ UNCHANGED served

Next ==
  \/ \E t \in Threads, n \in Numbers, S \in SUBSET Callees : Ask(t, n, S)
  \/ \E r \in outstanding : Serve(r)
  \/ \E S \in SUBSET outstanding : Drop(S)

Spec == Init /\ [][Next]_vars
=============================================================================
