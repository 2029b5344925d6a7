------------------------------- MODULE MCIop -------------------------------
(***************************************************************************)
(* Instances of Iop for TLC: an output and the input mapped to it, of any  *)
(* types, and an attribute.                                                *)
(***************************************************************************)
EXTENDS Iop, TLC

CONSTANTS out, in, attr

OneInput == out :> in

W(vtype, b) == [vtype |-> vtype, block |-> b]
\* Negative, fractional, unparsable, hexadecimal, NULL and raw.
SomeWrites ==
  {W("INTEGER", AnInt(-1)), W("DOUBLE", ADouble(-3)), W("BOOL", ABool(TRUE)),
   W("STRING", Text(0, "hex")), W("STRING", Null), W("DATA", AnInt(-1)), W("DATA", Text(0, "word"))}

\* One that refuses every negative number, and digits only.
SomeConstraints == {[form |-> "min", bound |-> 1, words |-> {}],
                    [form |-> "regexp", bound |-> 0, words |-> {"int", "real"}]}
=============================================================================
