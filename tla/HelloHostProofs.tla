---------------------------- MODULE HelloHostProofs ----------------------------
(***************************************************************************)
(* Proofs that hello.c's main() reports only live errors and releases all *)
(* it received, for every engine satisfying ConstAssumption and           *)
(* HostAssumption (any VM and snapshot slots, images, registrations).     *)
(***************************************************************************)
EXTENDS HelloHost, TLAPS

(* The points of main() before it creates its values, after it freed     *)
(* them, and its error paths.                                            *)
BeforeValues == {"new", "newFailed", "argc", "load", "run", "running", "failed",
                 "failedDestroy", "values"}
AfterValues == {"snapshot", "snapshotFailed", "snapshotFree", "destroy"}
FailurePcs == {"newFailed", "failed", "snapshotFailed"}
HoldsVM == {"argc", "load", "run", "running", "failed", "failedDestroy", "values",
            "freeValues", "snapshot", "snapshotFailed", "snapshotFree", "destroy"}

(* The invariant main() keeps, point by point: exactly the error `error` *)
(* points to is unfreed; exactly the VM in `vm` is live from creation to *)
(* destroy; a snapshot is owned only between its creation and its free;  *)
(* the values are owned only between their creation and their free; and *)
(* run_entry's call is in flight only at "running", on `vm`.              *)
HInv ==
  /\ TypeOK
  /\ errs[Main] = IF herr = "live" THEN 1 ELSE 0
  /\ ErrorMessageValid
  /\ pc \notin FailurePcs \cup {"running"} => herr # "live"
  /\ pc \in {"new", "argc", "load", "run", "values", "freeValues", "snapshot"} =>
       herr = "null"
  /\ pc \in {"new", "newFailed"} => hvm = NoVM /\ \A v \in VMs : vmSt[v] = "null"
  /\ pc \in HoldsVM => /\ hvm \in VMs /\ vmSt[hvm] = "live"
                       /\ \A v \in VMs \ {hvm} : vmSt[v] # "live"
  /\ pc = "done" => \A v \in VMs : vmSt[v] # "live"
  /\ pc # "running" => run[Main] = NoRun
  /\ pc = "running" =>
       /\ run[Main] # NoRun => /\ run[Main].vm = hvm /\ run[Main].want
                              /\ ~run[Main].stopped /\ herr = "null"
       /\ run[Main] = NoRun => herr = IF ret[Main].ok THEN "null" ELSE "live"
  /\ pc = "snapshotFree" => /\ hsnap \in Snapshots /\ snapSt[hsnap] = "owned"
                            /\ \A s \in Snapshots \ {hsnap} : snapSt[s] # "owned"
  /\ pc # "snapshotFree" => \A s \in Snapshots : snapSt[s] # "owned"
  /\ pc \in BeforeValues => \A x \in Values : vals[x] = "unset"
  /\ pc = "freeValues" => \A x \in Values : vals[x] = "owned"
  /\ pc \in AfterValues => \A x \in Values : vals[x] = "freed"
  /\ HostReleasesAll

USE HostAssumption

LEMMA HInvInit == Init => HInv
BY DEF Init, VM!Init, HInv, TypeOK, VM!TypeOK, VM!NoResult, VM!Result, VM!Image,
       VM!Kinds, VM!Ops, VM!MaxRelease, ErrorMessageValid, HostReleasesAll, FailurePcs, HoldsVM,
       BeforeValues, AfterValues

LEMMA HInvNext == HInv /\ [Next]_vars => HInv'
<1> SUFFICES ASSUME HInv, [Next]_vars PROVE HInv'
  OBVIOUS
<1>. USE DEF HInv, TypeOK, VM!TypeOK, ErrorMessageValid, HostReleasesAll,
             FailurePcs, HoldsVM, BeforeValues, AfterValues, engineVars, hostVars,
             VM!vmVars, VM!snapVars, VM!errVars, Failed, ErrAfterCall, Values
<1>1. CASE HNew
  <2>1. PICK v \in VMs : /\ VM!VmNew(Main, v, TRUE)
                          /\ hvm' = IF Failed THEN NoVM ELSE v
    BY <1>1 DEF HNew
  <2>2. pc = "new" /\ UNCHANGED <<hsnap, vals, exit>> /\ herr' = ErrAfterCall
        /\ pc' = IF Failed THEN "newFailed" ELSE "argc"
    BY <1>1 DEF HNew
  <2>3. /\ vmSt[v] = "null" /\ run[Main] = NoRun
        /\ UNCHANGED <<run, snapSt, snapImg, released>>
    BY <2>1 DEF VM!VmNew, VM!Idle
  <2>4. CASE /\ vmSt' = [vmSt EXCEPT ![v] = "live"]
             /\ table' = [table EXCEPT ![v] = {}]
             /\ heap' = [heap EXCEPT ![v] = 0]
             /\ VM!Succeed(Main, "new")
    <3>1. ~Failed /\ errs' = errs /\ ret'[Main] = [op |-> "new", ok |-> TRUE, kind |-> "none"]
      BY <2>4 DEF VM!Succeed
    <3>2. herr' = herr /\ pc' = "argc" /\ hvm' = v
      BY <2>1, <2>2, <3>1
    <3>. QED  BY <2>2, <2>3, <2>4, <3>1, <3>2 DEF VM!Succeed, VM!Result, VM!Ops, VM!Kinds
  <2>5. CASE VM!Fail(Main, "new", "Init", TRUE) /\ UNCHANGED <<vmSt, table, heap>>
    <3>1. Failed /\ errs'[Main] = errs[Main] + 1
          /\ ret'[Main] = [op |-> "new", ok |-> FALSE, kind |-> "Init"]
      BY <2>5 DEF VM!Fail
    <3>2. herr' = "live" /\ pc' = "newFailed" /\ hvm' = NoVM
      BY <2>1, <2>2, <3>1
    <3>3. errs' \in [{Main} -> 0..MaxErrors]
      BY <2>5, <2>2 DEF VM!Fail
    <3>. QED  BY <2>2, <2>3, <2>5, <3>1, <3>2, <3>3 DEF VM!Fail, VM!Result, VM!Ops, VM!Kinds
  <2>. QED  BY <2>1, <2>4, <2>5 DEF VM!VmNew
<1>2. CASE HNewFailed
  BY <1>2 DEF HNewFailed, VM!ErrorFree, VM!Idle
<1>3. CASE HArgc
  BY <1>3 DEF HArgc
<1>4. CASE HLoad
  <2>1. PICK c \in Code : VM!Load(Main, hvm, c, TRUE)
    BY <1>4 DEF HLoad
  <2>2. /\ pc = "load" /\ herr' = ErrAfterCall /\ pc' = IF Failed THEN "failed" ELSE "run"
        /\ UNCHANGED <<hvm, hsnap, vals, exit>>
        /\ UNCHANGED <<vmSt, heap, run, snapSt, snapImg, released>>
    BY <1>4, <2>1 DEF HLoad, VM!Load
  <2>3. CASE table' = [table EXCEPT ![hvm] = @ \cup {c}] /\ VM!Succeed(Main, "load")
    <3>1. ~Failed /\ errs' = errs /\ herr' = herr /\ pc' = "run"
      BY <2>2, <2>3 DEF VM!Succeed
    <3>. QED  BY <2>2, <2>3, <3>1 DEF VM!Succeed, VM!Result, VM!Ops, VM!Kinds
  <2>4. CASE VM!Fail(Main, "load", "Load", TRUE) /\ UNCHANGED table
    <3>1. Failed /\ errs'[Main] = errs[Main] + 1 /\ herr' = "live" /\ pc' = "failed"
      BY <2>2, <2>4 DEF VM!Fail
    <3>. QED  BY <2>2, <2>4, <3>1 DEF VM!Fail, VM!Result, VM!Ops, VM!Kinds
  <2>. QED  BY <2>1, <2>3, <2>4 DEF VM!Load
<1>5. CASE HRun
  <2>1. /\ pc = "run" /\ VM!RunEntry(Main, hvm, "main", TRUE) /\ herr' = ErrAfterCall
        /\ pc' = IF run'[Main] # NoRun THEN "running" ELSE IF Failed THEN "failed" ELSE "values"
        /\ UNCHANGED <<hvm, hsnap, vals, exit>>
        /\ UNCHANGED <<vmSt, table, heap, snapSt, snapImg, released>>
    BY <1>5 DEF HRun, VM!RunEntry
  <2>2. CASE \E c \in table[hvm] :
               /\ "main" \in Exports[c]
               /\ run' = [run EXCEPT ![Main] = [vm |-> hvm, code |-> c,
                                                stopped |-> FALSE, want |-> TRUE]]
               /\ UNCHANGED <<ret, errs>>
    <3>1. PICK c \in table[hvm] :
               run' = [run EXCEPT ![Main] = [vm |-> hvm, code |-> c,
                                             stopped |-> FALSE, want |-> TRUE]]
               /\ UNCHANGED <<ret, errs>>
      BY <2>2
    <3>2. [vm |-> hvm, code |-> c, stopped |-> FALSE, want |-> TRUE] \in VM!RunRec
      BY <2>1 DEF VM!RunRec
    <3>3. run'[Main] = [vm |-> hvm, code |-> c, stopped |-> FALSE, want |-> TRUE]
      BY <3>1
    <3>4. run'[Main] # NoRun
      BY <3>2, <3>3
    <3>5. pc' = "running" /\ herr' = herr
      BY <2>1, <3>1, <3>4
    <3>. QED  BY <2>1, <3>1, <3>2, <3>3, <3>4, <3>5
  <2>3. CASE VM!Fail(Main, "run", "Runtime", TRUE) /\ UNCHANGED run
    <3>1. Failed /\ errs'[Main] = errs[Main] + 1 /\ herr' = "live" /\ pc' = "failed"
      BY <2>1, <2>3 DEF VM!Fail
    <3>. QED  BY <2>1, <2>3, <3>1 DEF VM!Fail, VM!Result, VM!Ops, VM!Kinds
  <2>. QED  BY <2>1, <2>2, <2>3 DEF VM!RunEntry
<1>6. CASE HRunReturned
  BY <1>6 DEF HRunReturned
<1>7. CASE HFailedFree
  BY <1>7 DEF HFailedFree, VM!ErrorFree, VM!Idle
<1>8. CASE HFailedDestroy
  BY <1>8 DEF HFailedDestroy, VM!VmDestroy, VM!Idle, VM!StopTasks
<1>9. CASE HValues
  BY <1>9 DEF HValues
<1>10. CASE HFreeValues
  BY <1>10 DEF HFreeValues
<1>11. CASE HSnapshot
  <2>1. /\ pc = "snapshot" /\ VM!Snapshot(Main, hvm, TRUE) /\ herr' = ErrAfterCall
        /\ hsnap' = IF Failed THEN NoSnapshot
                    ELSE CHOOSE s \in Snapshots : snapSt[s] = "unused" /\ snapSt'[s] = "owned"
        /\ pc' = IF Failed THEN "snapshotFailed" ELSE "snapshotFree"
        /\ UNCHANGED <<hvm, vals, exit>>
        /\ UNCHANGED <<vmSt, table, heap, run>>
    BY <1>11 DEF HSnapshot, VM!Snapshot
  <2>2. CASE \E k \in {"Unsupported", "Runtime"} :
               VM!Fail(Main, "snapshot", k, TRUE) /\ UNCHANGED <<snapSt, snapImg, released>>
    <3>1. PICK k \in {"Unsupported", "Runtime"} :
               VM!Fail(Main, "snapshot", k, TRUE) /\ UNCHANGED <<snapSt, snapImg, released>>
      BY <2>2
    <3>2. Failed /\ errs'[Main] = errs[Main] + 1 /\ herr' = "live" /\ pc' = "snapshotFailed"
          /\ hsnap' = NoSnapshot
      BY <2>1, <3>1 DEF VM!Fail
    <3>. QED  BY <2>1, <3>1, <3>2 DEF VM!Fail, VM!Result, VM!Ops, VM!Kinds
  <2>3. CASE /\ \E s \in Snapshots :
                  /\ snapSt[s] = "unused"
                  /\ snapSt' = [snapSt EXCEPT ![s] = "owned"]
                  /\ snapImg' = [snapImg EXCEPT ![s] = [table |-> table[hvm], heap |-> heap[hvm]]]
             /\ VM!Succeed(Main, "snapshot")
             /\ UNCHANGED released
    <3>1. PICK s \in Snapshots :
                  /\ snapSt[s] = "unused"
                  /\ snapSt' = [snapSt EXCEPT ![s] = "owned"]
                  /\ snapImg' = [snapImg EXCEPT ![s] = [table |-> table[hvm], heap |-> heap[hvm]]]
      BY <2>3
    <3>2. (CHOOSE x \in Snapshots : snapSt[x] = "unused" /\ snapSt'[x] = "owned") = s
      BY <3>1
    <3>3. ~Failed /\ errs' = errs /\ herr' = herr /\ pc' = "snapshotFree" /\ hsnap' = s
      BY <2>1, <2>3, <3>2 DEF VM!Succeed
    <3>4. [table |-> table[hvm], heap |-> heap[hvm]] \in VM!Image
      BY <2>1 DEF VM!Image
    <3>. QED  BY <2>1, <2>3, <3>1, <3>3, <3>4 DEF VM!Succeed, VM!Result, VM!Ops, VM!Kinds
  <2>. QED  BY <2>1, <2>2, <2>3 DEF VM!Snapshot
<1>12. CASE HSnapshotFailed
  BY <1>12 DEF HSnapshotFailed, VM!ErrorFree, VM!Idle
<1>13. CASE HSnapshotFree
  BY <1>13 DEF HSnapshotFree, VM!SnapshotFree, VM!Idle, VM!Release, VM!MaxRelease
<1>14. CASE HDestroy
  BY <1>14 DEF HDestroy, VM!VmDestroy, VM!Idle, VM!StopTasks
<1>15. CASE Engine
  <2>1. /\ herr' = ErrAfterCall /\ UNCHANGED <<pc, hvm, hsnap, vals, exit>>
        /\ run[Main] # NoRun /\ ~run[Main].stopped /\ pc = "running"
    BY <1>15 DEF Engine, VM!TaskStep, VM!RunComplete
  <2>2. CASE VM!TaskStep(Main)
    BY <2>1, <2>2 DEF VM!TaskStep
  <2>3. CASE VM!RunComplete(Main)
    <3>1. /\ run' = [run EXCEPT ![Main] = NoRun]
          /\ UNCHANGED <<vmSt, table, heap, snapSt, snapImg, released>>
          /\ run[Main].want /\ herr = "null"
      BY <2>1, <2>3 DEF VM!RunComplete
    <3>2. CASE VM!Succeed(Main, "run")
      <4>. errs' = errs /\ herr' = "null" /\ ret'[Main].ok
        BY <2>1, <3>1, <3>2 DEF VM!Succeed
      <4>. QED  BY <2>1, <3>1, <3>2 DEF VM!Succeed, VM!Result, VM!Ops, VM!Kinds
    <3>3. CASE VM!Fail(Main, "run", "Runtime", run[Main].want)
      <4>. errs'[Main] = errs[Main] + 1 /\ herr' = "live" /\ ~ret'[Main].ok
        BY <2>1, <3>1, <3>3 DEF VM!Fail
      <4>. QED  BY <2>1, <3>1, <3>3 DEF VM!Fail, VM!Result, VM!Ops, VM!Kinds
    <3>. QED  BY <2>3, <3>2, <3>3 DEF VM!RunComplete
  <2>. QED  BY <1>15, <2>2, <2>3 DEF Engine
<1>16. CASE UNCHANGED vars
  BY <1>16 DEF vars
<1>. QED  BY <1>1, <1>2, <1>3, <1>4, <1>5, <1>6, <1>7, <1>8, <1>9, <1>10,
             <1>11, <1>12, <1>13, <1>14, <1>15, <1>16 DEF Next

(* In every reachable state of hello.c with the engine, the error, the   *)
(* VM, the snapshot and the values main() holds are exactly those its    *)
(* position in main() says it holds.                                      *)
THEOREM HInvAlways == Spec => []HInv
BY HInvInit, HInvNext, PTL DEF Spec

(* Every raya_error_message(error) main() prints, on any of its error    *)
(* paths, reads a live RayaError, for every engine and every image given *)
(* on the command line.                                                  *)
THEOREM ErrorMessagesValid == Spec => []ErrorMessageValid
<1>1. HInv => ErrorMessageValid  BY DEF HInv
<1>. QED  BY <1>1, HInvAlways, PTL

(* On every path main() returns having destroyed its VM and freed every  *)
(* error, snapshot and value it received, with exit code 0 exactly on   *)
(* success.                                                             *)
THEOREM HostReleasesAllHolds == Spec => []HostReleasesAll
<1>1. HInv => HostReleasesAll  BY DEF HInv
<1>. QED  BY <1>1, HInvAlways, PTL

=============================================================================
