---------------------------- MODULE MCServices -----------------------------
(***************************************************************************)
(* Instances of Services for TLC: two agents of one name on two peers, and *)
(* the agent that calls them next to one of them.                          *)
(***************************************************************************)
EXTENDS Services, TLC

CONSTANTS a1, a2, b1, P, Q, t1, t2

HomeOf == a1 :> P @@ a2 :> P @@ b1 :> Q
TwoServers == a1 :> "client" @@ a2 :> "server" @@ b1 :> "server"
Callers == t1 :> {a1} @@ t2 :> {b1}
TwoAndOne == t1 :> 2 @@ t2 :> 1
GoodAndBad == t1 :> {<<4>>, <<>>} @@ t2 :> {<<4>>}

\* Every server has the service; or one is not active yet; or its service
\* comes from a loaded definition, without a callback; or it has none.
One(cb) == [inst |-> 1, args |-> <<4>>, cb |-> cb]
Served0(s) == a1 :> NoService @@ a2 :> s @@ b1 :> One(TRUE)
Beginnings ==
  {[active |-> Agents, service |-> Served0(s)] : s \in {One(TRUE), One(FALSE), NoService}}
  \cup {[active |-> {a1, a2}, service |-> Served0(One(TRUE))]}
=============================================================================
