------------------------------ MODULE MCNativeFs ------------------------------
(* NativeFs on the paths /a, /b, /a/a, /a/b, /b/a, /b/b under the root; a  *)
(* program writes "", "hi" or a log line "Error!".                         *)
EXTENDS NativeFs

CONSTANTS EmptyStr

MCNames == {"a", "b"}
MCContents == {<<>>, <<"h", "i">>, ErrorWord \o <<"!">>}
MCUnsearchable == {<<"a">>}
==============================================================================
