----------------------------- MODULE MCDataFlow -----------------------------
(***************************************************************************)
(* Instances of DataFlow for TLC.                                          *)
(***************************************************************************)
EXTENDS DataFlow, TLC

CONSTANTS a1, a2, r1, i1, i2

\* Both inputs of a1 are mapped to the remote agent, one of a2 to a1.
CrossMapping == a1 :> << <<i1, r1>>, <<i2, r1>> >> @@ a2 :> << <<i1, a1>> >>

Writes == a1 :> 1 @@ a2 :> 0 @@ r1 :> 2
AllChurn == [k \in Kinds |-> IF k \in {"remote", "activate"} THEN 2 ELSE 1]

\* An element that a1 has already and one that it has not.
TwoElements == {<<i2, r1>>, <<i1, a1>>}

\* The second input of a1 refuses the first value.
RefusesFirst == {<<a1, i2, 1>>}
=============================================================================
