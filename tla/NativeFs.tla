------------------------------- MODULE NativeFs -------------------------------
(***************************************************************************)
(* The native module examples/fs.cpp: the fs_ops functions over the file   *)
(* system and the RAYA_FUNCTION wrappers that convert arguments with       *)
(* raya::TypeConverter and turn each fs_ops result into a value or an      *)
(* error value.  The task calling a native function blocks until it       *)
(* returns (spec 5), so each call is one step.                            *)
(*                                                                         *)
(* The file system is a tree of paths (sequences of names, <<>> the root). *)
(* Strings are sequences of characters; the wording of messages is        *)
(* abstracted to the word they start with, which is what the code reads.   *)
(* Directories in Unsearchable deny search permission (EACCES on every     *)
(* path below them).  DiskFaults lets the disk fail a write (ENOSPC, EIO). *)
(***************************************************************************)
EXTENDS Naturals, Sequences, RayaValues

CONSTANTS
  Names,         \* names of directory entries
  MaxDepth,      \* deepest path (model bound)
  Contents,      \* file contents a program writes (model bound)
  Unsearchable,  \* directories without search permission
  EmptyPath,     \* the path std::string() that a non-string converts to
  DiskFaults     \* may the disk fail a write?

Paths == UNION {[1..n -> Names] : n \in 0..MaxDepth}
Root == <<>>

ASSUME FsAssumption ==
  /\ MaxDepth \in Nat
  /\ Unsearchable \subseteq Paths
  /\ EmptyPath \notin Paths
  /\ DiskFaults \in BOOLEAN

ErrorWord == <<"E", "r", "r", "o", "r">>
FailedWord == <<"F", "a", "i", "l", "e", "d">>
(* std::string("Failed to open file: ") + path and the like.              *)
Msg(word) == word \o <<":">>

Parent(p) == SubSeq(p, 1, Len(p) - 1)

(* Prefixes of paths and strings: what std::string::find(...) == 0 and   *)
(* the ancestors of a path compute.  Written out rather than taken from  *)
(* SequencesExt, whose RECURSIVE operators the prover cannot use.        *)
IsPrefix(s, t) == Len(s) <= Len(t) /\ SubSeq(t, 1, Len(s)) = s
IsStrictPrefix(s, t) == IsPrefix(s, t) /\ s # t
Prefixes(p) == {SubSeq(p, 1, k) : k \in 0..Len(p)}

VARIABLES
  node,    \* node[p]: "none", "dir" or "file"
  data,    \* data[p]: the content of file p
  pc,      \* "idle", or "aborted" once an exception left a native call
  fn,      \* the native function last called
  args,    \* its arguments
  out,     \* the value it returned
  failed   \* did the file-system operation under it fail?

vars == <<node, data, pc, fn, args, out, failed>>

NoValue == [type |-> "none"]

Init ==
  /\ node = [p \in Paths |-> IF p = Root THEN "dir" ELSE "none"]
  /\ data = [p \in Paths |-> <<>>]
  /\ pc = "idle"
  /\ fn = "none"
  /\ args = <<>>
  /\ out = NoValue
  /\ failed = FALSE

(* No existing directory strictly above p denies search permission.      *)
Accessible(p) == \A q \in Unsearchable : node[q] = "dir" => ~IsStrictPrefix(q, p)

Children(p) == {q \in Paths \ {Root} : Parent(q) = p /\ node[q] # "none"}

-----------------------------------------------------------------------------
(* raya::TypeConverter<std::string>::from_raya (lines 86-90): the string,  *)
(* or std::string() when raya_value_to_string returns NULL.               *)
PathArg(v) == IF IsString(v) THEN v.str ELSE EmptyPath
ContentArg(v) == IF IsString(v) THEN v.str ELSE <<>>

(* fs_ops::read_file (lines 139-155).  The ifstream fails to open a       *)
(* missing or unreachable path; a directory opens and reads as "".        *)
ReadFails(p) == p = EmptyPath \/ ~Accessible(p) \/ node[p] = "none"
read_file(p) ==
  IF ReadFails(p) THEN Msg(FailedWord)
  ELSE IF node[p] = "dir" THEN <<>> ELSE data[p]

(* fs_ops::write_file (lines 160-176): the ofstream opens (creating or    *)
(* truncating the file) unless the parent is missing or p is a directory.  *)
CanWrite(p) ==
  /\ p # EmptyPath /\ p # Root /\ Accessible(p)
  /\ node[p] # "dir" /\ node[Parent(p)] = "dir"
(* How `file << content` ends: written; failbit set (checked, line 168);   *)
(* or buffered and lost when the destructor's close fails (unchecked).    *)
(* Empty content leaves nothing to write or to lose: it is written.      *)
WriteOutcomes(c) ==
  IF DiskFaults /\ c # <<>> THEN {"written", "failBit", "closeFailed"}
  ELSE {"written"}

(* fs_ops::exists (lines 181-183): fs::exists(path) without an            *)
(* error_code throws filesystem_error on EACCES.                          *)
Throws(p) == p # EmptyPath /\ ~Accessible(p)
exists(p) == p # EmptyPath /\ node[p] # "none"

(* fs_ops::mkdir (lines 188-199): create_directories sets ec for "", for   *)
(* EACCES and when a prefix is a file; it creates every missing prefix.   *)
MkdirFails(p) ==
  p = EmptyPath \/ ~Accessible(p) \/ \E q \in Prefixes(p) : node[q] = "file"

(* fs_ops::remove (lines 204-215): fs::remove(path, ec) sets ec for the   *)
(* root, EACCES and a non-empty directory; "" or a missing path is false. *)
RemoveFails(p) ==
  p # EmptyPath /\ (p = Root \/ ~Accessible(p) \/ Children(p) # {})

(* fs_ops::list_dir (lines 220-230): directory_iterator throws, and the   *)
(* catch returns "Error listing directory: ...".  Opening p needs search  *)
(* permission on the directories above it, and reading p itself, which   *)
(* an unsearchable directory still grants.                                *)
ListFails(p) ==
  p = EmptyPath \/ ~Accessible(p) \/ node[p] # "dir"

-----------------------------------------------------------------------------
(* The native functions                                                    *)

Call(f, a, v, bad) == fn' = f /\ args' = a /\ out' = v /\ failed' = bad

(* The `argc != n` check every wrapper starts with.                       *)
ArgcError(f, a, n) ==
  /\ Len(a) # n
  /\ Call(f, a, ErrorV("argc"), FALSE)
  /\ UNCHANGED <<node, data, pc>>

(* Mutant of Sniff: only the "Error" prefix is taken for an error.        *)
SniffErrorOnly(r) == IsPrefix(ErrorWord, r)

(* Line 260: read_file's Result has two std::string alternatives, so the   *)
(* wrapper takes a string starting with "Error" or "Failed" for an error. *)
Sniff(r) == IsPrefix(ErrorWord, r) \/ IsPrefix(FailedWord, r)

(* Lines 247-267: readFile(path).                                         *)
NativeReadFile(a) ==
  /\ pc = "idle"
  /\ \/ ArgcError("readFile", a, 1)
     \/ /\ Len(a) = 1
        /\ LET p == PathArg(a[1])
               r == read_file(p)
           IN  Call("readFile", a, IF Sniff(r) THEN ErrorV(r) ELSE StrV(r), ReadFails(p))
        /\ UNCHANGED <<node, data, pc>>

(* Lines 272-290: writeFile(path, content); success is null.              *)
NativeWriteFile(a) ==
  /\ pc = "idle"
  /\ \/ ArgcError("writeFile", a, 2)
     \/ /\ Len(a) = 2
        /\ LET p == PathArg(a[1])
               c == ContentArg(a[2])
           IN  \/ /\ ~CanWrite(p)
                  /\ Call("writeFile", a, ErrorV(Msg(FailedWord)), TRUE)
                  /\ UNCHANGED <<node, data>>
               \/ /\ CanWrite(p)
                  /\ node' = [node EXCEPT ![p] = "file"]
                  /\ \E o \in WriteOutcomes(c) :
                       /\ data' = [data EXCEPT ![p] = IF o = "written" THEN c ELSE <<>>]
                       /\ Call("writeFile", a,
                               IF o = "failBit" THEN ErrorV(Msg(FailedWord)) ELSE NullV,
                               o # "written")
        /\ UNCHANGED pc

(* Lines 295-304: exists(path).  The exception of line 182 leaves the      *)
(* native function and the process through the C ABI.                     *)
NativeExists(a) ==
  /\ pc = "idle"
  /\ \/ ArgcError("exists", a, 1)
     \/ /\ Len(a) = 1
        /\ LET p == PathArg(a[1]) IN
             /\ pc' = IF Throws(p) THEN "aborted" ELSE "idle"
             /\ Call("exists", a, IF Throws(p) THEN NoValue ELSE BoolV(exists(p)), FALSE)
        /\ UNCHANGED <<node, data>>

(* Lines 309-325: mkdir(path); success, created or not, is null.          *)
NativeMkdir(a) ==
  /\ pc = "idle"
  /\ \/ ArgcError("mkdir", a, 1)
     \/ /\ Len(a) = 1
        /\ LET p == PathArg(a[1]) IN
             IF MkdirFails(p)
               THEN Call("mkdir", a, ErrorV(Msg(FailedWord)), TRUE) /\ UNCHANGED node
               ELSE /\ node' = [q \in Paths |-> IF IsPrefix(q, p) THEN "dir" ELSE node[q]]
                    /\ Call("mkdir", a, NullV, FALSE)
        /\ UNCHANGED <<data, pc>>

(* Lines 330-346: remove(path) returns whether something was removed.     *)
NativeRemove(a) ==
  /\ pc = "idle"
  /\ \/ ArgcError("remove", a, 1)
     \/ /\ Len(a) = 1
        /\ LET p == PathArg(a[1]) IN
             IF RemoveFails(p)
               THEN Call("remove", a, ErrorV(Msg(FailedWord)), TRUE) /\ UNCHANGED <<node, data>>
               ELSE /\ node' = [q \in Paths |-> IF q = p THEN "none" ELSE node[q]]
                    /\ data' = [q \in Paths |-> IF q = p THEN <<>> ELSE data[q]]
                    /\ Call("remove", a, BoolV(exists(p)), FALSE)
        /\ UNCHANGED pc

(* Lines 351-373: listDir(path), an array of the entries' names.          *)
NativeListDir(a) ==
  /\ pc = "idle"
  /\ \/ ArgcError("listDir", a, 1)
     \/ /\ Len(a) = 1
        /\ LET p == PathArg(a[1]) IN
             Call("listDir", a,
                  IF ListFails(p) THEN ErrorV(Msg(ErrorWord))
                  ELSE [type |-> "array", elems |-> {q[Len(q)] : q \in Children(p)}],
                  ListFails(p))
        /\ UNCHANGED <<node, data, pc>>

(* Arguments a Raya program may pass (model bounds).                       *)
PathArgs == {StrV(p) : p \in Paths} \cup {NullV}
ContentArgs == {StrV(c) : c \in Contents} \cup {I32V(42)}

Next ==
  \/ \E a \in {<<x>> : x \in PathArgs} \cup {<<>>} :
       \/ NativeReadFile(a) \/ NativeExists(a) \/ NativeMkdir(a)
       \/ NativeRemove(a) \/ NativeListDir(a)
  \/ \E a \in {<<x, y>> : x \in PathArgs, y \in ContentArgs} \cup {<<>>} :
       NativeWriteFile(a)

Spec == Init /\ [][Next]_vars

-----------------------------------------------------------------------------
(* Properties                                                              *)

(* No failure is silently swallowed (spec 7): when the file-system        *)
(* operation under a native call failed, the call returns an error value. *)
NoErrorSwallowed ==
  failed => out.type = "error"

(* readFile of a readable file returns its content (spec 4.3: a native    *)
(* function signals failure only by returning an error value; spec 9: no  *)
(* string-content inspection to detect failure).                          *)
ReadFileReturnsContent ==
  LET p == PathArg(args[1]) IN
  fn = "readFile" /\ Len(args) = 1 /\ p \in Paths /\ Accessible(p) /\ node[p] = "file"
    => out = StrV(data[p])

(* A native function called with an argument of the wrong type returns an *)
(* error (spec 4.2: validate argument types before trusting accessor      *)
(* output; spec 7: ArgumentError).                                        *)
ArgumentsValidated ==
  fn # "none" /\ (\E k \in DOMAIN args : ~IsString(args[k])) => out.type = "error"

(* No native call terminates the process (spec 8: never crashes).         *)
NoAbort ==
  pc # "aborted"

=============================================================================
