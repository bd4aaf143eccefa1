----------------------------- MODULE NativeCrypto -----------------------------
(***************************************************************************)
(* The native functions of examples/crypto.cpp under the native-function  *)
(* ABI: the VM invokes a function with an array of borrowed values and     *)
(* their count, and the function returns an owned value or an error value *)
(* (raya_error_new).  hash and randomBytes are one step each.  The loop    *)
(* of constantTimeEqual is a step per iteration, so that the number of     *)
(* positions it touches is observable.                                    *)
(*                                                                         *)
(* Strings are C strings: sequences of non-NUL bytes.  The SHA digests     *)
(* themselves are out of scope; a digest is kept as the pair it is        *)
(* computed from together with the length of its hex form.  The C `int`   *)
(* of constantTimeEqual has IntBits bits, scaled down so that strings of  *)
(* the model reach the width the code's lengths reach at 2^32 bytes.      *)
(***************************************************************************)
EXTENDS Integers, Sequences, Bitwise, RayaValues

CONSTANTS
  Bytes,      \* byte values of the strings compared by constantTimeEqual
  MaxLen,     \* longest string compared (model bound)
  IntBits,    \* width of the C int `result` (scaled)
  I32Args     \* i32 values the VM may pass to randomBytes

(* The range of int32_t (written so that no intermediate leaves it).    *)
I32Min == -2147483647 - 1
I32Max == 2147483647

ASSUME CryptoAssumption ==
  /\ Bytes \subseteq 1..255
  /\ MaxLen \in Nat
  /\ IntBits \in Nat \ {0}
  /\ I32Args \subseteq I32Min..I32Max

(* The byte strings "sha256" and "sha512" (ASCII).                        *)
SHA256 == <<115, 104, 97, 50, 53, 54>>
SHA512 == <<115, 104, 97, 53, 49, 50>>
SHA256_DIGEST_LENGTH == 32
SHA512_DIGEST_LENGTH == 64

(* Line 130: the largest array randomBytes builds.                        *)
MaxRandomBytes == 1024 * 1024

-----------------------------------------------------------------------------
(* Conversions                                                             *)

(* Lines 77-108: SHA of data, printed as lowercase hex with "%02x",     *)
(* two characters per digest byte.                                       *)
HexDigest(alg, data, n) == [type |-> "string", digest |-> <<alg, data>>, hexLen |-> 2 * n]

(* C int conversion of a size_t: wraps modulo 2^IntBits (zero-ness kept   *)
(* only for the low IntBits bits).                                        *)
ToInt(x) == x % (2^IntBits)

MaxOf(a, b) == IF a > b THEN a ELSE b

-----------------------------------------------------------------------------
(* The native functions                                                    *)

(* Lines 58-115: native_hash(ctx, args, argc).                            *)
native_hash(args) ==
  IF Len(args) # 2 THEN ErrorV("argc")
  ELSE IF ~IsString(args[1]) THEN ErrorV("arg1")
  ELSE IF ~IsString(args[2]) THEN ErrorV("arg2")
  ELSE IF args[1].str = SHA256
    THEN HexDigest(SHA256, args[2].str, SHA256_DIGEST_LENGTH)
  ELSE IF args[1].str = SHA512
    THEN HexDigest(SHA512, args[2].str, SHA512_DIGEST_LENGTH)
  ELSE ErrorV("algorithm")

(* Mutant of native_random_bytes: the upper bound check is off by one.    *)
native_random_bytes_offbyone(args) ==
  IF Len(args) # 1 THEN ErrorV("argc")
  ELSE LET length == ToI32(args[1]) IN
       IF length <= 0 \/ length >= MaxRandomBytes THEN ErrorV("range")
       ELSE [type |-> "array", len |-> length, elems |-> 0..255]

(* Lines 122-151: native_random_bytes(ctx, args, argc).  A non-i32       *)
(* argument reads as 0 and is rejected by the range check; otherwise an  *)
(* array of `length` i32 values, each a random byte.                     *)
native_random_bytes(args) ==
  IF Len(args) # 1 THEN ErrorV("argc")
  ELSE LET length == ToI32(args[1]) IN
       IF length <= 0 \/ length > MaxRandomBytes THEN ErrorV("range")
       ELSE [type |-> "array", len |-> length, elems |-> 0..255]

-----------------------------------------------------------------------------
(* Input domains the VM may pass (model bounds)                            *)

Strings == UNION {[1..n -> Bytes] : n \in 0..MaxLen}
SomeValues(strs) == {StrV(s) : s \in strs} \cup {NullV, I32V(0)}
ArgVectors(vals, n) == UNION {[1..k -> vals] : k \in 0..n}

HashArgs == ArgVectors(SomeValues({SHA256, SHA512, <<1>>}), 3)
RandomArgs == {<<>>, <<StrV(<<1>>)>>, <<I32V(1), I32V(1)>>} \cup {<<I32V(n)>> : n \in I32Args}
CTEArgs == {<<StrV(a), StrV(b)>> : a, b \in Strings}
           \cup {<<>>, <<StrV(<<>>)>>, <<NullV, StrV(<<>>)>>, <<StrV(<<>>), I32V(0)>>}

-----------------------------------------------------------------------------
VARIABLES
  pc,      \* "idle" or "loop" (inside constantTimeEqual's for loop)
  fn,      \* the native function last invoked
  args,    \* its borrowed arguments
  i,       \* the loop index of constantTimeEqual
  result,  \* its int accumulator
  out      \* the value the last call returned

vars == <<pc, fn, args, i, result, out>>

NoValue == [type |-> "none"]

Init ==
  /\ pc = "idle"
  /\ fn = "none"
  /\ args = <<>>
  /\ i = 0
  /\ result = 0
  /\ out = NoValue

InvokeHash(a) ==
  /\ pc = "idle"
  /\ fn' = "hash" /\ args' = a
  /\ out' = native_hash(a)
  /\ UNCHANGED <<pc, i, result>>

InvokeRandomBytes(a) ==
  /\ pc = "idle"
  /\ fn' = "randomBytes" /\ args' = a
  /\ out' = native_random_bytes(a)
  /\ UNCHANGED <<pc, i, result>>

(* Lines 158-175: argc and type checks, then len_a, len_b, max_len and   *)
(* result = 0 before the loop.                                           *)
CTEStart(a) ==
  /\ pc = "idle"
  /\ fn' = "constantTimeEqual" /\ args' = a
  /\ \/ /\ Len(a) # 2
        /\ out' = ErrorV("argc")
        /\ UNCHANGED <<pc, i, result>>
     \/ /\ Len(a) = 2
        /\ ~(IsString(a[1]) /\ IsString(a[2]))
        /\ out' = ErrorV("types")
        /\ UNCHANGED <<pc, i, result>>
     \/ /\ Len(a) = 2
        /\ IsString(a[1]) /\ IsString(a[2])
        /\ pc' = "loop" /\ i' = 0 /\ result' = 0
        /\ out' = NoValue

LenA == Len(args[1].str)
LenB == Len(args[2].str)
(* Byte k (0-based) of a C string, 0 past its end (lines 178-179).       *)
ByteAt(s, k) == IF k < Len(s) THEN s[k + 1] ELSE 0

(* Line 174: max_len = max(len_a, len_b).                                 *)
max_len == MaxOf(LenA, LenB)

(* Mutant of CTEIter: `result = ...` for `result |= ...`, so that only    *)
(* the last position counts.                                             *)
CTEIterAssign ==
  /\ pc = "loop"
  /\ i < max_len
  /\ result' = ByteAt(args[1].str, i) ^^ ByteAt(args[2].str, i)
  /\ i' = i + 1
  /\ UNCHANGED <<pc, fn, args, out>>

(* Lines 177-181: one iteration, result |= byte_a ^ byte_b.               *)
CTEIter ==
  /\ pc = "loop"
  /\ i < max_len
  /\ result' = result | (ByteAt(args[1].str, i) ^^ ByteAt(args[2].str, i))
  /\ i' = i + 1
  /\ UNCHANGED <<pc, fn, args, out>>

(* Lines 184-186: result |= (len_a ^ len_b) converts the size_t back to  *)
(* int; the function returns result == 0.                                *)
CTEEnd ==
  /\ pc = "loop"
  /\ i = max_len
  /\ result' = ToInt(result | (LenA ^^ LenB))
  /\ out' = BoolV(result' = 0)
  /\ pc' = "idle"
  /\ UNCHANGED <<fn, args, i>>

Next ==
  \/ \E a \in HashArgs : InvokeHash(a)
  \/ \E a \in RandomArgs : InvokeRandomBytes(a)
  \/ \E a \in CTEArgs : CTEStart(a)
  \/ CTEIter
  \/ CTEEnd

Spec == Init /\ [][Next]_vars

-----------------------------------------------------------------------------
(* Properties                                                              *)

(* Every native call of crypto.cpp returns an error value exactly when    *)
(* its arguments break its contract (argument count, argument types,     *)
(* supported algorithm, 1 <= length <= 1048576), and a success has the  *)
(* promised shape: a hex digest of 64 or 128 characters, an array of     *)
(* exactly `length` bytes.                                               *)
NativeArgContract ==
  pc = "idle" /\ fn # "none" =>
    /\ fn = "hash" =>
         LET ok == Len(args) = 2 /\ \A k \in 1..2 : args[k].type = "string"
         IN  IF ok /\ args[1].str \in {SHA256, SHA512}
               THEN out.type = "string" /\ out.hexLen \in {64, 128}
                    /\ (out.hexLen = 64 <=> args[1].str = SHA256)
               ELSE out.type = "error"
    /\ fn = "randomBytes" =>
         IF Len(args) = 1 /\ args[1].type = "i32" /\ args[1].i32 \in 1..MaxRandomBytes
           THEN out.type = "array" /\ out.len = args[1].i32 /\ out.elems \subseteq 0..255
           ELSE out.type = "error"
    /\ fn = "constantTimeEqual" /\ out.type = "error" =>
         ~(Len(args) = 2 /\ \A k \in 1..2 : args[k].type = "string")

(* constantTimeEqual answers true exactly when the two strings are equal, *)
(* though the int accumulator drops the high bits of len_a ^ len_b.      *)
CTECorrect ==
  pc = "idle" /\ fn = "constantTimeEqual" /\ out.type = "bool" =>
    out.bool = (args[1].str = args[2].str)

=============================================================================
