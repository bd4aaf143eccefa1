----------------------------- MODULE MCHelloHost -----------------------------
(* hello.c against small engines: the file given on the command line is  *)
(* one of four images (runnable; importing an unregistered native module; *)
(* malformed; linkable but without "main").                               *)
EXTENDS HelloHostProofs, TLC

CONSTANTS c1, c2, c3, c4   \* the bytecode images of Code

MCNativeNames == {"crypto", "fs"}
MCRegistered == {"crypto"}
MCEntries == {"main", "aux"}
MCImports == [c \in Code |-> IF c = c2 THEN {"fs"} ELSE {"crypto"}]
MCExports == [c \in Code |-> IF c = c4 THEN {"aux"} ELSE {"main"}]
=============================================================================
