---------------------------- MODULE MCNativeCrypto ----------------------------
(* NativeCrypto on two byte values, strings of up to four bytes and a     *)
(* two-bit `int`, so that len_a ^ len_b = 4 loses its only set bit; the    *)
(* i32 arguments are the boundaries of randomBytes' range check.          *)
EXTENDS NativeCrypto

MCBytes == {1, 2}
MCI32Args == {I32Min, -1, 0, 1, 1048576, 1048577, 2147483647}
==============================================================================
