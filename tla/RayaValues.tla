----------------------------- MODULE RayaValues -----------------------------
(***************************************************************************)
(* Values crossing the native-function ABI (spec 4.2, 4.3): the records   *)
(* the constructors of raya/module.h build and the accessors read.        *)
(* Strings are C strings, sequences of non-NUL characters.  An error      *)
(* value carries its message; an array carries its elements.               *)
(***************************************************************************)

StrV(s) == [type |-> "string", str |-> s]
I32V(n) == [type |-> "i32", i32 |-> n]
BoolV(b) == [type |-> "bool", bool |-> b]
NullV == [type |-> "null"]
(* raya_error_new(ctx, msg)                                               *)
ErrorV(msg) == [type |-> "error", msg |-> msg]

(* raya_value_to_string: NULL (here FALSE) unless the value is a string.  *)
IsString(v) == v.type = "string"
(* raya_value_to_i32: 0 unless the value is an i32.                       *)
ToI32(v) == IF v.type = "i32" THEN v.i32 ELSE 0

=============================================================================
