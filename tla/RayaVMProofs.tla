---------------------------- MODULE RayaVMProofs ----------------------------
(***************************************************************************)
(* Proofs about the VM host interface of RayaVM, for every value of the    *)
(* constants satisfying ConstAssumption and NoRunAssumption.               *)
(***************************************************************************)
EXTENDS RayaVM, TLAPS

(* TypeOK is not inductive by itself: a run_entry call that will write an  *)
(* error at its return must have had room for it when it started, and the *)
(* caller cannot free errors while it is blocked.                          *)
RunErrRoom ==
  \A t \in Threads : run[t] # NoRun /\ run[t].want => errs[t] < MaxErrors

TypeInv == TypeOK /\ RunErrRoom

USE ConstAssumption, NoRunAssumption

-----------------------------------------------------------------------------
(* Type correctness                                                        *)

LEMMA TypeInvInit == Init => TypeInv
BY DEF Init, TypeInv, TypeOK, RunErrRoom, NoResult, Result, Image, Kinds, Ops, MaxRelease

(* Fail and Succeed keep ret and errs well typed.                         *)
LEMMA FailType ==
  ASSUME TypeInv, NEW t \in Threads, NEW op \in Ops, NEW k \in Kinds,
         NEW w \in BOOLEAN, w => errs[t] < MaxErrors,
         Fail(t, op, k, w)
  PROVE  /\ ret' \in [Threads -> Result]
         /\ errs' \in [Threads -> 0..MaxErrors]
         /\ \A u \in Threads : u # t => errs'[u] = errs[u]
BY DEF Fail, TypeInv, TypeOK, Result, Kinds

LEMMA SucceedType ==
  ASSUME TypeInv, NEW t \in Threads, NEW op \in Ops, Succeed(t, op)
  PROVE  /\ ret' \in [Threads -> Result]
         /\ errs' = errs
BY DEF Succeed, errVars, TypeInv, TypeOK, Result, Kinds

(* Stopping the tasks of a VM keeps every run record, and its error       *)
(* out-parameter, as it was apart from the stopped flag.                  *)
LEMMA StopTasksType ==
  ASSUME TypeInv, NEW v \in VMs
  PROVE  /\ StopTasks(v) \in [Threads -> RunRec \cup {NoRun}]
         /\ \A u \in Threads :
              StopTasks(v)[u] # NoRun =>
                /\ run[u] # NoRun
                /\ StopTasks(v)[u].want = run[u].want
BY DEF StopTasks, TypeInv, TypeOK, RunRec

(* A release keeps the release counts within their bound.                *)
LEMMA ReleaseType ==
  ASSUME TypeInv, NEW s \in Snapshots, Release(s)
  PROVE  released' \in [Snapshots -> 0..MaxRelease]
BY DEF Release, MaxRelease, TypeInv, TypeOK

LEMMA TypeInvNext == TypeInv /\ [Next]_vars => TypeInv'
<1> SUFFICES ASSUME TypeInv, [Next]_vars PROVE TypeInv'
  OBVIOUS
<1>. USE DEF TypeInv, TypeOK, RunErrRoom, vmVars, snapVars, errVars
<1>1. ASSUME NEW t \in Threads, NEW v \in VMs, NEW w \in BOOLEAN, VmNew(t, v, w)
      PROVE TypeInv'
  <2>1. CASE Succeed(t, "new") /\ vmSt' = [vmSt EXCEPT ![v] = "live"]
             /\ table' = [table EXCEPT ![v] = {}] /\ heap' = [heap EXCEPT ![v] = 0]
    BY <1>1, <2>1, SucceedType DEF VmNew, Ops, Idle
  <2>2. CASE Fail(t, "new", "Init", w) /\ UNCHANGED <<vmSt, table, heap>>
    BY <1>1, <2>2, FailType DEF VmNew, Ops, Kinds, ErrRoom, Idle
  <2>. QED  BY <1>1, <2>1, <2>2 DEF VmNew
<1>2. ASSUME NEW t \in Threads, NEW v \in VMs, VmDestroy(t, v)
      PROVE TypeInv'
  <2>1. run' \in [Threads -> RunRec \cup {NoRun}]  BY <1>2, StopTasksType DEF VmDestroy
  <2>2. RunErrRoom'  BY <1>2, StopTasksType DEF VmDestroy
  <2>. QED  BY <1>2, <2>1, <2>2 DEF VmDestroy
<1>3. ASSUME NEW t \in Threads, NEW v \in VMs, NEW c \in Code, NEW w \in BOOLEAN,
             Load(t, v, c, w)
      PROVE TypeInv'
  <2>1. CASE Succeed(t, "load") /\ table' = [table EXCEPT ![v] = @ \cup {c}]
    BY <1>3, <2>1, SucceedType DEF Load, Ops, Idle
  <2>2. CASE Fail(t, "load", "Load", w) /\ UNCHANGED table
    BY <1>3, <2>2, FailType DEF Load, Ops, Kinds, ErrRoom, Idle
  <2>. QED  BY <1>3, <2>1, <2>2 DEF Load
<1>4. ASSUME NEW t \in Threads, NEW v \in VMs, NEW n \in Entries, NEW w \in BOOLEAN,
             RunEntry(t, v, n, w)
      PROVE TypeInv'
  <2>1. CASE \E c \in table[v] :
               /\ run' = [run EXCEPT ![t] = [vm |-> v, code |-> c, stopped |-> FALSE, want |-> w]]
               /\ UNCHANGED <<ret, errs>>
    BY <1>4, <2>1 DEF RunEntry, ErrRoom, RunRec
  <2>2. CASE Fail(t, "run", "Runtime", w) /\ UNCHANGED run
    BY <1>4, <2>2, FailType DEF RunEntry, Ops, Kinds, ErrRoom, Idle
  <2>. QED  BY <1>4, <2>1, <2>2 DEF RunEntry
<1>5. ASSUME NEW t \in Threads, TaskStep(t) PROVE TypeInv'
  BY <1>5 DEF TaskStep, RunRec
<1>6. ASSUME NEW t \in Threads, RunComplete(t) PROVE TypeInv'
  <2>1. run[t] \in RunRec  BY <1>6 DEF RunComplete
  <2>2. run[t].want => errs[t] < MaxErrors  BY <1>6 DEF RunComplete
  <2>3. CASE Succeed(t, "run")
    BY <1>6, <2>3, SucceedType DEF RunComplete, Ops
  <2>4. CASE Fail(t, "run", "Runtime", run[t].want)
    BY <1>6, <2>1, <2>2, <2>4, FailType DEF RunComplete, Ops, Kinds, RunRec
  <2>. QED  BY <1>6, <2>3, <2>4 DEF RunComplete
<1>7. ASSUME NEW t \in Threads, RunStopped(t) PROVE TypeInv'
  <2>1. run[t] \in RunRec  BY <1>7 DEF RunStopped
  <2>2. run[t].want => errs[t] < MaxErrors  BY <1>7 DEF RunStopped
  <2>. QED  BY <1>7, <2>1, <2>2, FailType DEF RunStopped, Ops, Kinds, RunRec
<1>8. ASSUME NEW t \in Threads, NEW v \in VMs, NEW w \in BOOLEAN, Terminate(t, v, w)
      PROVE TypeInv'
  <2>1. CASE run' = StopTasks(v) /\ Succeed(t, "terminate")
    <3>1. run' \in [Threads -> RunRec \cup {NoRun}]  BY <2>1, StopTasksType
    <3>2. RunErrRoom'  BY <2>1, StopTasksType, SucceedType DEF Ops
    <3>. QED  BY <1>8, <2>1, <3>1, <3>2, SucceedType DEF Terminate, Ops
  <2>2. CASE Fail(t, "terminate", "Runtime", w) /\ UNCHANGED run
    BY <1>8, <2>2, FailType DEF Terminate, Ops, Kinds, ErrRoom, Idle
  <2>. QED  BY <1>8, <2>1, <2>2 DEF Terminate
<1>9. ASSUME NEW t \in Threads, NEW v \in VMs, NEW w \in BOOLEAN, Snapshot(t, v, w)
      PROVE TypeInv'
  <2>1. CASE Fail(t, "snapshot", "Unsupported", w) /\ UNCHANGED snapVars
    BY <1>9, <2>1, FailType DEF Snapshot, Ops, Kinds, ErrRoom, Idle
  <2>2. CASE Fail(t, "snapshot", "Runtime", w) /\ UNCHANGED snapVars
    BY <1>9, <2>2, FailType DEF Snapshot, Ops, Kinds, ErrRoom, Idle
  <2>3. CASE \E s \in Snapshots :
               /\ snapSt[s] = "unused"
               /\ snapSt' = [snapSt EXCEPT ![s] = "owned"]
               /\ snapImg' = [snapImg EXCEPT ![s] = [table |-> table[v], heap |-> heap[v]]]
               /\ Succeed(t, "snapshot")
             /\ UNCHANGED released
    BY <1>9, <2>3, SucceedType DEF Snapshot, Ops, Image, Idle
  <2>. QED  BY <1>9, <2>1, <2>2, <2>3 DEF Snapshot
<1>10. ASSUME NEW t \in Threads, NEW v \in VMs, NEW s \in Snapshots, NEW w \in BOOLEAN,
              Restore(t, v, s, w)
       PROVE TypeInv'
  <2>1. /\ snapSt' \in [Snapshots -> {"unused", "owned", "consumed", "freed"}]
        /\ released' \in [Snapshots -> 0..MaxRelease]
    BY <1>10, ReleaseType DEF Restore
  <2>2. CASE /\ table' = [table EXCEPT ![v] = snapImg[s].table]
             /\ heap' = [heap EXCEPT ![v] = snapImg[s].heap]
             /\ Succeed(t, "restore")
    BY <1>10, <2>1, <2>2, SucceedType DEF Restore, Ops, Image, Idle
  <2>3. CASE Fail(t, "restore", "Runtime", w) /\ UNCHANGED <<table, heap>>
    BY <1>10, <2>1, <2>3, FailType DEF Restore, Ops, Kinds, ErrRoom, Idle
  <2>. QED  BY <1>10, <2>2, <2>3 DEF Restore
<1>11. ASSUME NEW t \in Threads, NEW s \in Snapshots, SnapshotFree(t, s) PROVE TypeInv'
  BY <1>11, ReleaseType DEF SnapshotFree
<1>12. ASSUME NEW t \in Threads, ErrorFree(t) PROVE TypeInv'
  BY <1>12 DEF ErrorFree, Idle
<1>13. CASE UNCHANGED vars
  BY <1>13 DEF vars
<1>. QED
  BY <1>1, <1>2, <1>3, <1>4, <1>5, <1>6, <1>7, <1>8, <1>9, <1>10, <1>11, <1>12, <1>13
  DEF Next

(* Every reachable state is well typed.                                    *)
THEOREM TypeCorrect == Spec => []TypeOK
<1>1. Spec => []TypeInv  BY TypeInvInit, TypeInvNext, PTL DEF Spec
<1>. QED  BY <1>1, PTL DEF TypeInv

=============================================================================
