------------------------------ MODULE HelloHost ------------------------------
(***************************************************************************)
(* The example host program examples/hello.c driving the engine of        *)
(* RayaVM: create a VM, optionally load a bytecode file and run "main",   *)
(* create and free three values, try a snapshot, destroy the VM.  Every   *)
(* raya_* call is the corresponding RayaVM action taken by the single     *)
(* host thread Main, conjoined with the step of main() that makes it; the *)
(* running task of run_entry takes the engine's own steps.                *)
(***************************************************************************)
EXTENDS Naturals

CONSTANTS
  Main,              \* the thread running main()
  VMs, Code, Malformed, NativeNames, Registered, Imports, Entries, Exports,
  SnapshotSupported, Snapshots, MaxErrors, MaxHeap, NoRun,
  NoVM,              \* the NULL RayaVM*
  NoSnapshot         \* the NULL RayaSnapshot*

VARIABLES vmSt, table, heap, run, snapSt, snapImg, released, errs, ret

VM == INSTANCE RayaVM WITH Threads <- {Main}

(* The engine hello.c runs against satisfies RayaVM's assumptions.       *)
ASSUME HostAssumption ==
  /\ Malformed \subseteq Code
  /\ Registered \subseteq NativeNames
  /\ Imports \in [Code -> SUBSET NativeNames]
  /\ Exports \in [Code -> SUBSET Entries]
  /\ SnapshotSupported \in BOOLEAN
  /\ MaxHeap \in Nat
  /\ NoRun \notin VM!RunRec
  /\ "main" \in Entries
  /\ MaxErrors \in Nat \ {0}
  /\ NoVM \notin VMs
  /\ NoSnapshot \notin Snapshots

VARIABLES
  pc,     \* the point main() has reached
  hvm,    \* the local `vm`
  herr,   \* what the local `error` points to: "null", "live" or "dangling"
  hsnap,  \* the local `snapshot`
  vals,   \* the values null_val, bool_val, int_val: "unset", "owned", "freed"
  exit    \* main's return value, once it returns

engineVars == <<vmSt, table, heap, run, snapSt, snapImg, released, errs, ret>>
hostVars == <<pc, hvm, herr, hsnap, vals, exit>>
vars == <<engineVars, hostVars>>

Values == {"null_val", "bool_val", "int_val"}

Init ==
  /\ VM!Init
  /\ pc = "new"
  /\ hvm = NoVM
  /\ herr = "null"
  /\ hsnap = NoSnapshot
  /\ vals = [x \in Values |-> "unset"]
  /\ exit = 0

-----------------------------------------------------------------------------
(* The call just taken failed, and wrote a fresh error into `error`.      *)
Failed == ~ret'[Main].ok
ErrAfterCall == IF errs'[Main] > errs[Main] THEN "live" ELSE herr

(* Lines 28-34: vm = raya_vm_new(&error); on NULL report and free the    *)
(* error, return 1.                                                      *)
HNew ==
  /\ pc = "new"
  /\ \E v \in VMs :
       /\ VM!VmNew(Main, v, TRUE)
       /\ hvm' = IF Failed THEN NoVM ELSE v
  /\ herr' = ErrAfterCall
  /\ pc' = IF Failed THEN "newFailed" ELSE "argc"
  /\ UNCHANGED <<hsnap, vals, exit>>

HNewFailed ==
  /\ pc = "newFailed"
  /\ VM!ErrorFree(Main)
  /\ herr' = "dangling"
  /\ pc' = "done"
  /\ exit' = 1
  /\ UNCHANGED <<hvm, hsnap, vals>>

(* Line 38: a bytecode path is given on the command line, or not.        *)
HArgc ==
  /\ pc = "argc"
  /\ \E given \in BOOLEAN : pc' = IF given THEN "load" ELSE "values"
  /\ UNCHANGED <<engineVars, hvm, herr, hsnap, vals, exit>>

(* Lines 42-47: raya_vm_load_file(vm, path, &error).                     *)
HLoad ==
  /\ pc = "load"
  /\ \E c \in Code : VM!Load(Main, hvm, c, TRUE)
  /\ herr' = ErrAfterCall
  /\ pc' = IF Failed THEN "failed" ELSE "run"
  /\ UNCHANGED <<hvm, hsnap, vals, exit>>

(* Lines 52-57: raya_vm_run_entry(vm, "main", &error) resolves "main"    *)
(* and blocks until the task returns.                                    *)
HRun ==
  /\ pc = "run"
  /\ VM!RunEntry(Main, hvm, "main", TRUE)
  /\ herr' = ErrAfterCall
  /\ pc' = IF run'[Main] # NoRun THEN "running"
           ELSE IF Failed THEN "failed" ELSE "values"
  /\ UNCHANGED <<hvm, hsnap, vals, exit>>

HRunReturned ==
  /\ pc = "running"
  /\ run[Main] = NoRun
  /\ pc' = IF ret[Main].ok THEN "values" ELSE "failed"
  /\ UNCHANGED <<engineVars, hvm, herr, hsnap, vals, exit>>

(* Mutant of HFailedFree: the error path destroys the VM but forgets      *)
(* raya_error_free.                                                       *)
HFailedFreeSkipped ==
  /\ pc = "failed"
  /\ pc' = "failedDestroy"
  /\ UNCHANGED <<engineVars, hvm, herr, hsnap, vals, exit>>

(* Lines 43-46 and 53-56: report, raya_error_free(error), then           *)
(* raya_vm_destroy(vm) and return 1.                                     *)
HFailedFree ==
  /\ pc = "failed"
  /\ VM!ErrorFree(Main)
  /\ herr' = "dangling"
  /\ pc' = "failedDestroy"
  /\ UNCHANGED <<hvm, hsnap, vals, exit>>

HFailedDestroy ==
  /\ pc = "failedDestroy"
  /\ VM!VmDestroy(Main, hvm)
  /\ pc' = "done"
  /\ exit' = 1
  /\ UNCHANGED <<hvm, herr, hsnap, vals>>

(* Lines 65-67 and 74-76: create three values, then free them.           *)
HValues ==
  /\ pc = "values"
  /\ vals' = [x \in Values |-> "owned"]
  /\ pc' = "freeValues"
  /\ UNCHANGED <<engineVars, hvm, herr, hsnap, exit>>

HFreeValues ==
  /\ pc = "freeValues"
  /\ vals' = [x \in Values |-> IF vals[x] = "owned" THEN "freed" ELSE vals[x]]
  /\ pc' = "snapshot"
  /\ UNCHANGED <<engineVars, hvm, herr, hsnap, exit>>

(* Lines 81-88: snapshot = raya_vm_snapshot(vm, &error); on NULL report  *)
(* and free the error, otherwise free the snapshot.                      *)
HSnapshot ==
  /\ pc = "snapshot"
  /\ VM!Snapshot(Main, hvm, TRUE)
  /\ hsnap' = IF Failed THEN NoSnapshot
              ELSE CHOOSE s \in Snapshots : snapSt[s] = "unused" /\ snapSt'[s] = "owned"
  /\ herr' = ErrAfterCall
  /\ pc' = IF Failed THEN "snapshotFailed" ELSE "snapshotFree"
  /\ UNCHANGED <<hvm, vals, exit>>

HSnapshotFailed ==
  /\ pc = "snapshotFailed"
  /\ VM!ErrorFree(Main)
  /\ herr' = "dangling"
  /\ pc' = "destroy"
  /\ UNCHANGED <<hvm, hsnap, vals, exit>>

HSnapshotFree ==
  /\ pc = "snapshotFree"
  /\ VM!SnapshotFree(Main, hsnap)
  /\ pc' = "destroy"
  /\ UNCHANGED <<hvm, herr, hsnap, vals, exit>>

(* Lines 92-96: raya_vm_destroy(vm); return 0.                           *)
HDestroy ==
  /\ pc = "destroy"
  /\ VM!VmDestroy(Main, hvm)
  /\ pc' = "done"
  /\ exit' = 0
  /\ UNCHANGED <<hvm, herr, hsnap, vals>>

(* The task run_entry started executes in the engine and returns; a      *)
(* failure writes its error into `error`.                                *)
Engine ==
  /\ VM!TaskStep(Main) \/ VM!RunComplete(Main)
  /\ herr' = ErrAfterCall
  /\ UNCHANGED <<pc, hvm, hsnap, vals, exit>>

Next ==
  \/ HNew \/ HNewFailed \/ HArgc \/ HLoad \/ HRun \/ HRunReturned
  \/ HFailedFree \/ HFailedDestroy \/ HValues \/ HFreeValues
  \/ HSnapshot \/ HSnapshotFailed \/ HSnapshotFree \/ HDestroy
  \/ Engine

Spec == Init /\ [][Next]_vars

-----------------------------------------------------------------------------
(* Properties                                                              *)

TypeOK ==
  /\ VM!TypeOK
  /\ pc \in {"new", "newFailed", "argc", "load", "run", "running", "failed",
             "failedDestroy", "values", "freeValues", "snapshot",
             "snapshotFailed", "snapshotFree", "destroy", "done"}
  /\ hvm \in VMs \cup {NoVM}
  /\ herr \in {"null", "live", "dangling"}
  /\ hsnap \in Snapshots \cup {NoSnapshot}
  /\ vals \in [Values -> {"unset", "owned", "freed"}]
  /\ exit \in {0, 1}

(* Every raya_error_message(error) in main() (lines 31, 43, 53, 83) reads *)
(* a live error: the failing call wrote a fresh RayaError into `error`,  *)
(* never leaving it NULL or pointing at one freed earlier.                *)
ErrorMessageValid ==
  pc \in {"newFailed", "failed", "snapshotFailed"} => herr = "live"

(* When main() returns, on every path, it has released everything it     *)
(* received: no live VM, no unfreed error, no unfreed snapshot or value;  *)
(* and it returns 0 exactly when the VM was created, loaded and ran.      *)
HostReleasesAll ==
  pc = "done" =>
    /\ \A v \in VMs : vmSt[v] # "live"
    /\ errs[Main] = 0
    /\ \A s \in Snapshots : snapSt[s] # "owned"
    /\ \A x \in Values : vals[x] # "owned"
    /\ (exit = 0) <=> (hvm # NoVM /\ \A x \in Values : vals[x] = "freed")

=============================================================================
