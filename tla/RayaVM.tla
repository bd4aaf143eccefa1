------------------------------- MODULE RayaVM -------------------------------
(***************************************************************************)
(* The VM Host Interface of raya.h: the life of VM instances (raya_vm_new, *)
(* raya_vm_destroy), loading bytecode (raya_vm_load_file/_bytes), running  *)
(* an entry point (raya_vm_run_entry), stopping tasks (raya_vm_terminate), *)
(* snapshots (raya_vm_snapshot, raya_vm_restore, raya_snapshot_free) and   *)
(* the error channel (RayaError** out-parameters, raya_error_free), driven *)
(* by several host threads at once ("All VM instances are thread-safe").  *)
(*                                                                         *)
(* The engine serialises its own state changes, so every call is one       *)
(* atomic step, except raya_vm_run_entry, which blocks its caller: it is a *)
(* start step, steps of the task it runs, and a return step.  The host     *)
(* threads do not use a VM handle after destroying it (raya.h:140).  Where *)
(* the header leaves the engine's answer open (a restore or free of a      *)
(* snapshot already consumed, a snapshot taken while a task runs, a        *)
(* terminate or restore that fails) every outcome it allows is a choice.   *)
(***************************************************************************)
EXTENDS Naturals

CONSTANTS
  Threads,           \* host threads calling into the engine
  VMs,               \* VM handle slots (addresses raya_vm_new may return)
  Code,              \* bytecode images the host may load
  Malformed,         \* images that fail validation
  NativeNames,       \* names of native modules (native:<name>)
  Registered,        \* native modules registered with the VM before load
  Imports,           \* Imports[c]: the native modules image c imports
  Entries,           \* entry-point names a host may ask to run
  Exports,           \* Exports[c]: the functions image c defines
  SnapshotSupported, \* does this engine build implement snapshots?
  Snapshots,         \* snapshot handle slots
  MaxErrors,         \* bound on the unfreed errors a thread holds (model bound)
  MaxHeap,           \* bound on heap mutations of a VM (model bound)
  NoRun

ASSUME ConstAssumption ==
  /\ Malformed \subseteq Code
  /\ Registered \subseteq NativeNames
  /\ Imports \in [Code -> SUBSET NativeNames]
  /\ Exports \in [Code -> SUBSET Entries]
  /\ SnapshotSupported \in BOOLEAN
  /\ MaxHeap \in Nat
  /\ MaxErrors \in Nat

(* A run_entry call in flight: the VM, the image whose function it runs,  *)
(* whether raya_vm_terminate stopped it, whether the caller passed an     *)
(* error out-parameter.                                                   *)
RunRec == [vm : VMs, code : Code, stopped : BOOLEAN, want : BOOLEAN]

ASSUME NoRunAssumption == NoRun \notin RunRec

Kinds == {"Init", "Load", "Runtime", "Unsupported"}
Ops == {"none", "new", "load", "run", "terminate", "snapshot", "restore"}

(* What the last call of a thread returned: the operation, its success  *)
(* flag and the kind of its error.                                        *)
Result == [op : Ops, ok : BOOLEAN, kind : Kinds \cup {"none"}]

(* The state a snapshot captures: the module table and the heap.          *)
Image == [table : SUBSET Code, heap : 0..MaxHeap]

VARIABLES
  vmSt,      \* vmSt[v]: "null" (never created), "live" or "destroyed"
  table,     \* table[v]: the loaded module table of VM v
  heap,      \* heap[v]: version of v's heap and globals
  run,       \* run[t]: the run_entry call thread t is blocked in, or NoRun
  snapSt,    \* snapSt[s]: "unused", "owned", "consumed" (by restore), "freed"
  snapImg,   \* snapImg[s]: the state snapshot s captured
  released,  \* released[s]: times s's memory was released, up to MaxRelease
  errs,      \* errs[t]: RayaErrors delivered to thread t and not yet freed
  ret        \* ret[t]: what the last call of thread t returned

vars == <<vmSt, table, heap, run, snapSt, snapImg, released, errs, ret>>
vmVars == <<vmSt, table, heap>>
snapVars == <<snapSt, snapImg, released>>
errVars == <<errs>>

NoResult == [op |-> "none", ok |-> TRUE, kind |-> "none"]

Init ==
  /\ vmSt = [v \in VMs |-> "null"]
  /\ table = [v \in VMs |-> {}]
  /\ heap = [v \in VMs |-> 0]
  /\ run = [t \in Threads |-> NoRun]
  /\ snapSt = [s \in Snapshots |-> "unused"]
  /\ snapImg = [s \in Snapshots |-> [table |-> {}, heap |-> 0]]
  /\ released = [s \in Snapshots |-> 0]
  /\ errs = [t \in Threads |-> 0]
  /\ ret = [t \in Threads |-> NoResult]

-----------------------------------------------------------------------------
(* Helpers                                                                 *)

Idle(t) == run[t] = NoRun

(* Some run_entry call is executing on VM v: v is not quiescent.          *)
Busy(v) == \E u \in Threads : run[u] # NoRun /\ run[u].vm = v

(* A call of thread t succeeds.                                           *)
Succeed(t, op) ==
  /\ ret' = [ret EXCEPT ![t] = [op |-> op, ok |-> TRUE, kind |-> "none"]]
  /\ UNCHANGED errVars

(* Mutant of Fail: the failure code is returned but no RayaError is      *)
(* written to the out-parameter.                                          *)
FailSilently(t, op, k, w) ==
  /\ ret' = [ret EXCEPT ![t] = [op |-> op, ok |-> FALSE, kind |-> k]]
  /\ UNCHANGED errs

(* A call of thread t fails with kind k. With an error out-parameter      *)
(* (w) the engine allocates a RayaError the caller now owns; with NULL it *)
(* only returns the failure code.                                         *)
Fail(t, op, k, w) ==
  /\ ret' = [ret EXCEPT ![t] = [op |-> op, ok |-> FALSE, kind |-> k]]
  /\ errs' = [errs EXCEPT ![t] = IF w THEN @ + 1 ELSE @]

(* Thread t may start a call passing an error out-parameter (w) only      *)
(* while it holds fewer than MaxErrors unfreed errors (model bound).      *)
ErrRoom(t, w) == w => errs[t] < MaxErrors

(* A release of snapshot s: counts to MaxRelease, the count that tells a  *)
(* double release from a single one.                                      *)
MaxRelease == 2
Release(s) ==
  released' = [released EXCEPT ![s] = IF @ < MaxRelease THEN @ + 1 ELSE @]

(* Every run_entry call blocked on v has its task stopped.                *)
StopTasks(v) ==
  [u \in Threads |-> IF run[u] # NoRun /\ run[u].vm = v
                       THEN [run[u] EXCEPT !.stopped = TRUE]
                       ELSE run[u]]

(* An image c can be linked: it validates and all its native imports are *)
(* registered.                                                            *)
Linkable(c) == c \notin Malformed /\ Imports[c] \subseteq Registered

-----------------------------------------------------------------------------
(* Operations of the host interface                                        *)

(* raya_vm_new: a fresh VM with an empty module table, or an Init error.  *)
VmNew(t, v, w) ==
  /\ Idle(t)
  /\ ErrRoom(t, w)
  /\ vmSt[v] = "null"
  /\ \/ /\ vmSt' = [vmSt EXCEPT ![v] = "live"]
        /\ table' = [table EXCEPT ![v] = {}]
        /\ heap' = [heap EXCEPT ![v] = 0]
        /\ Succeed(t, "new")
     \/ /\ Fail(t, "new", "Init", w)
        /\ UNCHANGED vmVars
  /\ UNCHANGED <<run, snapVars>>

(* raya_vm_destroy: terminates all running tasks and releases a live VM; *)
(* idempotent on a destroyed VM and a no-op on NULL (a slot never        *)
(* created).  A run_entry blocked on v then returns.                     *)
VmDestroy(t, v) ==
  /\ Idle(t)
  /\ vmSt' = [vmSt EXCEPT ![v] = IF @ = "live" THEN "destroyed" ELSE @]
  /\ run' = StopTasks(v)
  /\ UNCHANGED <<table, heap, snapVars, errVars, ret>>

(* raya_vm_load_file / raya_vm_load_bytes: links image c into the table; *)
(* additive, allowed while tasks of v run; a Load error otherwise.       *)
Load(t, v, c, w) ==
  /\ Idle(t)
  /\ ErrRoom(t, w)
  /\ vmSt[v] = "live"
  /\ \/ /\ Linkable(c)
        /\ table' = [table EXCEPT ![v] = @ \cup {c}]
        /\ Succeed(t, "load")
     \/ /\ ~Linkable(c)
        /\ Fail(t, "load", "Load", w)
        /\ UNCHANGED table
  /\ UNCHANGED <<vmSt, heap, run, snapVars>>

(* raya_vm_run_entry, first half: resolve name n in the loaded modules    *)
(* and block the caller while its task runs, or fail (not found).         *)
RunEntry(t, v, n, w) ==
  /\ Idle(t)
  /\ ErrRoom(t, w)
  /\ vmSt[v] = "live"
  /\ \/ \E c \in table[v] :
          /\ n \in Exports[c]
          /\ run' = [run EXCEPT ![t] = [vm |-> v, code |-> c,
                                        stopped |-> FALSE, want |-> w]]
          /\ UNCHANGED <<ret, errVars>>
     \/ /\ \A c \in table[v] : n \notin Exports[c]
        /\ Fail(t, "run", "Runtime", w)
        /\ UNCHANGED run
  /\ UNCHANGED <<vmVars, snapVars>>

(* A step of the task tree started by t: it mutates v's heap.             *)
TaskStep(t) ==
  /\ run[t] # NoRun
  /\ ~run[t].stopped
  /\ heap[run[t].vm] < MaxHeap
  /\ heap' = [heap EXCEPT ![run[t].vm] = @ + 1]
  /\ UNCHANGED <<vmSt, table, run, snapVars, errVars, ret>>

(* raya_vm_run_entry, second half: the task tree finishes, or an          *)
(* unhandled fault (a native error value included) is a Runtime error.    *)
RunComplete(t) ==
  /\ run[t] # NoRun
  /\ ~run[t].stopped
  /\ run' = [run EXCEPT ![t] = NoRun]
  /\ \/ Succeed(t, "run")
     \/ Fail(t, "run", "Runtime", run[t].want)
  /\ UNCHANGED <<vmVars, snapVars>>

(* raya_vm_run_entry returns after raya_vm_terminate stopped its task.    *)
RunStopped(t) ==
  /\ run[t] # NoRun
  /\ run[t].stopped
  /\ run' = [run EXCEPT ![t] = NoRun]
  /\ Fail(t, "run", "Runtime", run[t].want)
  /\ UNCHANGED <<vmVars, snapVars>>

(* raya_vm_terminate: stops every task running on v; the VM state stays  *)
(* and v remains loadable and runnable.  Succeeds on an idle VM too, or   *)
(* fails with -1 and a Runtime error.                                     *)
Terminate(t, v, w) ==
  /\ Idle(t)
  /\ ErrRoom(t, w)
  /\ vmSt[v] = "live"
  /\ \/ /\ run' = StopTasks(v)
        /\ Succeed(t, "terminate")
     \/ /\ Fail(t, "terminate", "Runtime", w)
        /\ UNCHANGED run
  /\ UNCHANGED <<vmVars, snapVars>>

(* raya_vm_snapshot: Unsupported on a build without snapshots.  Otherwise *)
(* a new snapshot owned by the caller captures v's table and heap, the VM *)
(* paused meanwhile even if a task runs on it (raya.h:273); while a task  *)
(* runs the engine may instead reject the call with a Runtime error      *)
(* (spec 9 leaves the choice to the engine).                              *)
Snapshot(t, v, w) ==
  /\ Idle(t)
  /\ ErrRoom(t, w)
  /\ vmSt[v] = "live"
  /\ \/ /\ ~SnapshotSupported
        /\ Fail(t, "snapshot", "Unsupported", w)
        /\ UNCHANGED snapVars
     \/ /\ SnapshotSupported
        /\ Busy(v)
        /\ Fail(t, "snapshot", "Runtime", w)
        /\ UNCHANGED snapVars
     \/ /\ SnapshotSupported
        /\ \E s \in Snapshots :
             /\ snapSt[s] = "unused"
             /\ snapSt' = [snapSt EXCEPT ![s] = "owned"]
             /\ snapImg' = [snapImg EXCEPT ![s] = [table |-> table[v], heap |-> heap[v]]]
             /\ Succeed(t, "snapshot")
        /\ UNCHANGED released
  /\ UNCHANGED <<vmVars, run>>

(* raya_vm_restore: replaces v's table and heap by those snapshot s      *)
(* captured, or fails with a Runtime error; either way the call consumes  *)
(* s (raya.h:295).  Using s again is the caller's error (raya.h:306) and  *)
(* the header leaves the outcome open: the engine may reject it, or apply *)
(* and release the stale snapshot a second time.                          *)
Restore(t, v, s, w) ==
  /\ Idle(t)
  /\ ErrRoom(t, w)
  /\ vmSt[v] = "live"
  /\ snapSt[s] # "unused"
  /\ \/ /\ snapSt[s] = "owned"
        /\ snapSt' = [snapSt EXCEPT ![s] = "consumed"]
        /\ Release(s)
     \/ /\ snapSt[s] # "owned"
        /\ \/ Release(s)
           \/ UNCHANGED released
        /\ UNCHANGED snapSt
  /\ \/ /\ table' = [table EXCEPT ![v] = snapImg[s].table]
        /\ heap' = [heap EXCEPT ![v] = snapImg[s].heap]
        /\ Succeed(t, "restore")
     \/ /\ Fail(t, "restore", "Runtime", w)
        /\ UNCHANGED <<table, heap>>
  /\ UNCHANGED <<vmSt, run, snapImg>>

(* raya_snapshot_free: releases an unconsumed snapshot.  Freeing one      *)
(* already consumed or freed is the caller's error (raya.h:306): the      *)
(* engine may ignore it or release the memory a second time.              *)
SnapshotFree(t, s) ==
  /\ Idle(t)
  /\ snapSt[s] # "unused"
  /\ \/ /\ snapSt[s] = "owned"
        /\ snapSt' = [snapSt EXCEPT ![s] = "freed"]
        /\ Release(s)
     \/ /\ snapSt[s] # "owned"
        /\ \/ Release(s)
           \/ UNCHANGED released
        /\ UNCHANGED snapSt
  /\ UNCHANGED <<vmVars, run, snapImg, errVars, ret>>

(* Mutant of ErrorFree: frees without holding an error (a double free).  *)
ErrorFreeUnchecked(t) ==
  /\ Idle(t)
  /\ errs' = [errs EXCEPT ![t] = @ - 1]
  /\ UNCHANGED <<vmVars, run, snapVars, ret>>

(* raya_error_free: a thread releases one of the errors it received.     *)
ErrorFree(t) ==
  /\ Idle(t)
  /\ errs[t] > 0
  /\ errs' = [errs EXCEPT ![t] = @ - 1]
  /\ UNCHANGED <<vmVars, run, snapVars, ret>>

-----------------------------------------------------------------------------
Next ==
  \E t \in Threads :
    \/ \E v \in VMs, w \in BOOLEAN :
         VmNew(t, v, w) \/ Snapshot(t, v, w)
    \/ \E v \in VMs : VmDestroy(t, v)
    \/ \E v \in VMs, w \in BOOLEAN : Terminate(t, v, w)
    \/ \E v \in VMs, c \in Code, w \in BOOLEAN : Load(t, v, c, w)
    \/ \E v \in VMs, n \in Entries, w \in BOOLEAN : RunEntry(t, v, n, w)
    \/ TaskStep(t) \/ RunComplete(t) \/ RunStopped(t)
    \/ \E v \in VMs, s \in Snapshots, w \in BOOLEAN : Restore(t, v, s, w)
    \/ \E s \in Snapshots : SnapshotFree(t, s)
    \/ ErrorFree(t)

Spec == Init /\ [][Next]_vars

-----------------------------------------------------------------------------
(* Properties                                                              *)

TypeOK ==
  /\ vmSt \in [VMs -> {"null", "live", "destroyed"}]
  /\ table \in [VMs -> SUBSET Code]
  /\ heap \in [VMs -> 0..MaxHeap]
  /\ run \in [Threads -> RunRec \cup {NoRun}]
  /\ snapSt \in [Snapshots -> {"unused", "owned", "consumed", "freed"}]
  /\ snapImg \in [Snapshots -> Image]
  /\ released \in [Snapshots -> 0..MaxRelease]
  /\ errs \in [Threads -> 0..MaxErrors]
  /\ ret \in [Threads -> Result]

=============================================================================
