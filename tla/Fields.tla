------------------------------- MODULE Fields -------------------------------
(***************************************************************************)
(* Command lines and object specs as records.  A command line is the       *)
(* record of the flags that were given, and of no others; a spec has all   *)
(* its fields, those that are not set being NoValue.                       *)
(***************************************************************************)

CONSTANT NoValue  \* a key, a field or an object that is not there

Given(flags, name) == name \in DOMAIN flags

\* The value of a flag, or what stands in for it.
Flag(flags, name, default) == IF Given(flags, name) THEN flags[name] ELSE default

\* The flags, with defaults for those that were not given.
WithDefaults(flags, defaults) ==
  [name \in DOMAIN flags \cup DOMAIN defaults |-> IF Given(flags, name) THEN flags[name] ELSE defaults[name]]

\* A value if a condition holds: what a function returns that may fail instead.
Only(value, condition) == {v \in {value} : condition}
=============================================================================
