------------------------------- MODULE Values -------------------------------
(***************************************************************************)
(* The values of json.hpp.  A value is a tuple: its kind, and what it      *)
(* holds.  A double is its text, whose rounding to the six digits of %g is *)
(* left out.                                                               *)
(***************************************************************************)
Null       == <<"null">>
Bool(b)    == <<"bool", b>>
Num(n)     == <<"int", n>>
Str(s)     == <<"string", s>>
Array(e)   == <<"array", e>>
Object(f)  == <<"object", f>>

-----------------------------------------------------------------------------
(* Accessors: a missing key, or a value of another kind, gives the default; *)
(* str() gives the empty string for a value that is not one.               *)

Has(v, key) == v[1] = "object" /\ key \in DOMAIN v[2]

StrOf(v, key, def) ==
  IF ~Has(v, key) THEN def
  ELSE IF v[2][key][1] = "string" THEN v[2][key][2] ELSE ""

Flag(v, key) == Has(v, key) /\ v[2][key][1] = "bool" /\ v[2][key][2]

\* operator[] on a mutable value
Put(v, key, val) ==
  LET old == IF v[1] = "object" THEN v[2] ELSE <<>> IN
  Object([k \in {key} \cup DOMAIN old |-> IF k = key THEN val ELSE old[k]])
=============================================================================
