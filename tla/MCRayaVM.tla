------------------------------ MODULE MCRayaVM ------------------------------
(* Small instances of RayaVM for TLC: host threads, VM slots, bytecode    *)
(* images (c1 linkable, c2 importing an unregistered native module, c3   *)
(* malformed when the cfg says so), snapshot slots, as the cfg sets them. *)
EXTENDS RayaVM, TLC

CONSTANTS c1, c2, c3   \* the bytecode images of Code

MCNativeNames == {"crypto", "fs"}
MCRegistered == {"crypto"}
MCEntries == {"main", "aux"}

(* c1 imports native:crypto and defines main; c2 imports native:fs, which *)
(* is not registered, and defines aux; c3 does not validate.              *)
MCImports == [c \in Code |-> CASE c = c1 -> {"crypto"}
                               [] c = c2 -> {"fs"}
                               [] OTHER  -> {}]
MCExports == [c \in Code |-> CASE c = c1 -> {"main"}
                               [] c = c2 -> {"aux"}
                               [] OTHER  -> {"main"}]

(* Threads and VM slots are interchangeable; used by the safety runs.   *)
Symmetry == Permutations(Threads) \cup Permutations(VMs)
=============================================================================
