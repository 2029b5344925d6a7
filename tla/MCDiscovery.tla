---------------------------- MODULE MCDiscovery ----------------------------
(***************************************************************************)
(* Instances of Discovery for TLC.                                         *)
(***************************************************************************)
EXTENDS Discovery, TLC

CONSTANTS p1, p2, a1, a2, b1

\* Bounds of users' operations.
Bounds(activate, restart, reconnect) ==
  "activate" :> activate @@ "restart" :> restart @@ "reconnect" :> reconnect
TwoKinds == {Bounds(2, 0, 1), Bounds(1, 1, 0), Bounds(0, 1, 1)}
TwoAndOne == a1 :> p1 @@ a2 :> p1 @@ b1 :> p2
=============================================================================
