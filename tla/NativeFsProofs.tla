----------------------------- MODULE NativeFsProofs -----------------------------
(***************************************************************************)
(* Proofs about the fs native module, for every set of names, depth,      *)
(* contents and unsearchable directories allowed by FsAssumption, on a    *)
(* disk that does not fail writes (DiskFaults = FALSE).  With disk faults *)
(* the property is false: a write lost at close returns null (run         *)
(* fs_write_close).                                                       *)
(***************************************************************************)
EXTENDS NativeFs, SequenceTheorems, TLAPS

USE FsAssumption

-----------------------------------------------------------------------------
(* No failure is swallowed                                                *)

(* read_file's failure message is taken for an error by the wrapper's     *)
(* prefix test (line 260).                                                *)
(* A non-empty sequence is a prefix of itself followed by anything.       *)
LEMMA PrefixOfConcat ==
  ASSUME NEW S, NEW s \in Seq(S), NEW t \in Seq(S), Len(s) > 0
  PROVE  IsPrefix(s, s \o t)
<1>1. Len(s \o t) = Len(s) + Len(t) /\ Len(t) >= 0
  BY ConcatProperties
<1>2. SubSeq(s \o t, 1, Len(s)) = SubSeq(s, 1, Len(s))
  BY SubSeqOfConcat1
<1>3. SubSeq(s, 1, Len(s)) = s
  BY SubSeqFull
<1>. QED  BY <1>1, <1>2, <1>3 DEF IsPrefix

LEMMA FailedMsgSniffed == Sniff(Msg(FailedWord))
<1>. DEFINE Chars == {"F", "a", "i", "l", "e", "d", ":"}
<1>1. FailedWord \in Seq(Chars) /\ <<":">> \in Seq(Chars) /\ Len(FailedWord) > 0
  BY DEF FailedWord
<1>2. IsPrefix(FailedWord, Msg(FailedWord))
  BY <1>1, PrefixOfConcat DEF Msg
<1>. QED  BY <1>2 DEF Sniff

LEMMA ReadNotSwallowed ==
  ASSUME NEW a, NativeReadFile(a) PROVE NoErrorSwallowed'
<1>1. CASE ArgcError("readFile", a, 1)
  BY <1>1 DEF ArgcError, Call, ErrorV, NoErrorSwallowed
<1>2. CASE ~ArgcError("readFile", a, 1)
  <2>. DEFINE p == PathArg(a[1])  r == read_file(p)
  <2>1. Call("readFile", a, IF Sniff(r) THEN ErrorV(r) ELSE StrV(r), ReadFails(p))
    BY <1>2 DEF NativeReadFile
  <2>2. ReadFails(p) => Sniff(r)
    BY FailedMsgSniffed DEF read_file
  <2>. QED  BY <2>1, <2>2 DEF Call, ErrorV, NoErrorSwallowed
<1>. QED  BY <1>1, <1>2

(* Under ~DiskFaults a write that reached the disk returns null only     *)
(* when it was written.                                                   *)
LEMMA WriteNotSwallowed ==
  ASSUME ~DiskFaults, NEW a, NativeWriteFile(a) PROVE NoErrorSwallowed'
<1>1. CASE ArgcError("writeFile", a, 2)
  BY <1>1 DEF ArgcError, Call, ErrorV, NoErrorSwallowed
<1>2. CASE ~ArgcError("writeFile", a, 2)
  <2>. DEFINE p == PathArg(a[1])  c == ContentArg(a[2])
  <2>1. CASE ~CanWrite(p)
    <3>1. Call("writeFile", a, ErrorV(Msg(FailedWord)), TRUE)
      BY <1>2, <2>1 DEF NativeWriteFile
    <3>. QED  BY <3>1 DEF Call, ErrorV, NoErrorSwallowed
  <2>2. CASE CanWrite(p)
    <3>1. Call("writeFile", a, NullV, FALSE)
      BY <1>2, <2>2 DEF NativeWriteFile, WriteOutcomes
    <3>. QED  BY <3>1 DEF Call, NoErrorSwallowed
  <2>. QED  BY <2>1, <2>2
<1>. QED  BY <1>1, <1>2

LEMMA OthersNotSwallowed ==
  ASSUME NEW a,
         NativeExists(a) \/ NativeMkdir(a) \/ NativeRemove(a) \/ NativeListDir(a)
  PROVE  NoErrorSwallowed'
<1>1. CASE NativeExists(a)
  BY <1>1 DEF NativeExists, ArgcError, Call, ErrorV, NoErrorSwallowed
<1>2. CASE NativeMkdir(a)
  BY <1>2 DEF NativeMkdir, ArgcError, Call, ErrorV, NoErrorSwallowed
<1>3. CASE NativeRemove(a)
  BY <1>3 DEF NativeRemove, ArgcError, Call, ErrorV, NoErrorSwallowed
<1>4. CASE NativeListDir(a)
  <2>1. CASE ArgcError("listDir", a, 1)
    BY <2>1 DEF ArgcError, Call, ErrorV, NoErrorSwallowed
  <2>2. CASE ~ArgcError("listDir", a, 1)
    <3>. DEFINE p == PathArg(a[1])
         v == IF ListFails(p) THEN ErrorV(Msg(ErrorWord))
              ELSE [type |-> "array", elems |-> {q[Len(q)] : q \in Children(p)}]
    <3>1. Call("listDir", a, v, ListFails(p))
      BY <1>4, <2>2, Zenon DEF NativeListDir
    <3>2. ListFails(p) => v.type = "error"
      BY DEF ErrorV
    <3>. QED  BY <3>1, <3>2 DEF Call, NoErrorSwallowed
  <2>. QED  BY <2>1, <2>2
<1>. QED  BY <1>1, <1>2, <1>3, <1>4

(* On a disk that does not fail writes, every native function of fs.cpp   *)
(* whose file-system operation failed returns an error value: read_file's *)
(* message is caught by the prefix test, write_file's failbit check and   *)
(* the error_code checks of mkdir and remove are all honoured.            *)
THEOREM NoErrorSwallowedHolds == ~DiskFaults => (Spec => []NoErrorSwallowed)
<1>. SUFFICES ASSUME ~DiskFaults PROVE Spec => []NoErrorSwallowed
  OBVIOUS
<1>1. Init => NoErrorSwallowed
  BY DEF Init, NoErrorSwallowed
<1>2. NoErrorSwallowed /\ [Next]_vars => NoErrorSwallowed'
  <2>. SUFFICES ASSUME NoErrorSwallowed, [Next]_vars PROVE NoErrorSwallowed'
    OBVIOUS
  <2>1. CASE Next
    BY <2>1, ReadNotSwallowed, WriteNotSwallowed, OthersNotSwallowed DEF Next
  <2>2. CASE UNCHANGED vars
    BY <2>2 DEF vars, NoErrorSwallowed
  <2>. QED  BY <2>1, <2>2
<1>. QED  BY <1>1, <1>2, PTL DEF Spec

=============================================================================
