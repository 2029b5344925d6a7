------------------------------ MODULE MCSplit ------------------------------
(***************************************************************************)
(* Instances of Split for TLC.                                             *)
(***************************************************************************)
EXTENDS SplitProps, TLC

CONSTANTS a1, a2, s1, s2, s3, o1, o2

\* One worker agent with one split element.
OneAgentOf == s1 :> a1
OneInputOf == s1 :> "i1"
OneOutputOf == s1 :> o1
OneInitial == a1 :> <<s1>>

\* An agent with one input split from two outputs, and another agent on the
\* first of them.
ThreeAgentOf == s1 :> a1 @@ s2 :> a1 @@ s3 :> a2
ThreeInputOf == s1 :> "i1" @@ s2 :> "i1" @@ s3 :> "i1"
ThreeOutputOf == s1 :> o1 @@ s2 :> o2 @@ s3 :> o1
ThreeInitial == a1 :> <<s1, s2>> @@ a2 :> <<>>

\* Works differ in nothing but their identity.
WorkSymmetry == Permutations(Works)
============================================================================
