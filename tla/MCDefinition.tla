--------------------------- MODULE MCDefinition ----------------------------
(***************************************************************************)
(* Instances of Definition for TLC: a newcomer, an agent with a double     *)
(* under constraint, a documented service and a description, and a         *)
(* definition written by hand with duplicates.                             *)
(***************************************************************************)
EXTENDS Definition, TLC

CONSTANTS v2, v3, v4, v5

Versions == v2 :> "v2" @@ v3 :> "v3" @@ v4 :> "v4" @@ v5 :> "v5"

Argument == [name |-> "x", type |-> "DOUBLE", described |-> TRUE]
Io(c) == [name |-> "x", type |-> "DOUBLE", constraint |-> c, notes |-> {"description"}]
Reply == [name |-> "x", described |-> TRUE, args |-> <<Argument>>]
Document(s) ==
  [name |-> "n", class |-> "n", explicit |-> FALSE, package |-> "n", texts |-> {"family"},
   ios |-> [NoIo EXCEPT !["inputs"] = <<Io([form |-> "min", bound |-> -13])>>], services |-> s]
Rich == Document(<<[name |-> "x", described |-> FALSE, cb |-> FALSE, args |-> <<Argument>>,
                    replies |-> <<Reply>>]>>)
Starters == {Empty("n"), Rich}

\* A reply and an attribute twice, the second of which has another type.
HandWritten ==
  {[Exported(Document(<<[name |-> "x", described |-> FALSE, cb |-> FALSE, args |-> <<>>,
                         replies |-> <<Reply, Reply>>]>>)) EXCEPT
     !.name = "m",
     !.ios["attributes"] = <<[name |-> "x", type |-> "STRING", notes |-> {},
                              constraint |-> [form |-> "min", bound |-> 10]],
                             [name |-> "x", type |-> "DOUBLE", notes |-> {}, constraint |-> None]>>]}

SomeConstraints == {[form |-> "min", bound |-> 13], [form |-> "regexp", bound |-> 0]}
=============================================================================
