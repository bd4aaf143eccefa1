# Formal models of the Raya VM C API

This directory holds TLA+ models of the Raya VM's C embedding interface,
`src/crates/raya-ffi/include/raya.h`, and of the example programs written against it
(`examples/hello.c` and the native modules `examples/crypto.cpp` and `examples/fs.cpp`).
It also holds the TLC configurations that check them, and TLAPS proofs of the engine
model's type correctness, of the host's invariants and of the fs error mapping.

The engine's implementation is not part of the repository. Only the header is:
its declarations and documentation comments are the source of the engine model.
Where the header is silent about a behaviour, the definition follows spec.md and is
marked `spec_modelled` in PROJECT.json. Examples are the scheduler's task steps and
bytecode linking.

## 1. The system

| Part | Source | State | Operations |
|---|---|---|---|
| VM lifecycle and execution | raya.h 119-196 | VM handles (null, live or destroyed); the modules loaded in each VM; its heap; the `run_entry` calls in flight | `raya_vm_new`, `raya_vm_destroy`, `raya_vm_load_file`/`_bytes`, `raya_vm_run_entry` (blocks until the task returns), `raya_vm_terminate` |
| Snapshots | raya.h 269-308 | Snapshot handles (unused, owned, consumed or freed) and the image each captured | `raya_vm_snapshot`, `raya_vm_restore` (consumes the snapshot), `raya_snapshot_free` |
| Error channel | raya.h 15-19, 242-263 | The `RayaError`s each thread holds | Every fallible call writes an error through its `RayaError**` argument; `raya_error_message`, `raya_error_free` |
| Values | raya.h 198-236 | Values owned by the host | `raya_value_null/bool/i32`, `raya_value_free` |
| hello.c | examples/hello.c | main()'s locals `vm`, `error`, `snapshot` and three values | Create a VM; optionally load a file and run `main`; make and free values; try a snapshot; destroy the VM. Every error path reports, frees the error, destroys the VM and returns 1 |
| crypto native module | examples/crypto.cpp | None between calls; constantTimeEqual's loop state | `hash(alg, data)`, `randomBytes(n)`, `constantTimeEqual(a, b)`; registration through `ModuleBuilder` |
| fs native module | examples/fs.cpp | The file system | `readFile`, `writeFile`, `exists`, `mkdir`, `remove`, `listDir`, bridged by `RAYA_FUNCTION` wrappers |

How the parts interact:

- Several host threads call the engine at once. The header states: "All VM instances are
  thread-safe".
- `run_entry` blocks its caller while the VM's task runs. Meanwhile another thread may
  call `terminate`, `snapshot`, `restore`, `load` or `destroy`.
- The engine calls native functions, such as crypto's, with borrowed arguments. It gets
  back an owned value or an error value.
- A host like hello.c owns every VM, error, snapshot and value the engine hands it.

Hard behaviours:

- Interleavings of calls from several threads on one VM.
- `terminate` and `destroy` stopping a `run_entry` that is blocked in another thread.
- Snapshot handles consumed by restore, whether it succeeds or fails.
- The host's single `error` variable, reused across calls.
- Error paths that must release everything.
- Numeric boundaries of the native functions, and a width conversion in
  constantTimeEqual.
- fs operations whose failures come back as text, throw, or are lost at close.

## 2. Modules

| Module | Models | Used by |
|---|---|---|
| `RayaVM` | The engine behind raya.h: VMs, load, run_entry, terminate, snapshots, errors; any number of threads | `MCRayaVM`, `HelloHost`, `RayaVMProofs` |
| `HelloHost` | hello.c's `main()`, composed with `RayaVM` through `INSTANCE RayaVM WITH Threads <- {Main}` | `HelloHostProofs` |
| `NativeCrypto` | crypto.cpp's three native functions under the native-function ABI | `MCNativeCrypto` |
| `NativeFs` | fs.cpp's six native functions over a directory tree | `MCNativeFs`, `NativeFsProofs` |
| `RayaValues` | The ABI values (string, i32, bool, null, error) the native functions take and return | `NativeCrypto`, `NativeFs` |
| `RayaVMProofs` | TLAPS proof of RayaVM's type correctness | — |
| `HelloHostProofs` | The inductive invariant `HInv` of hello.c with the engine, and its TLAPS proofs | `MCHelloHost` |
| `NativeFsProofs` | TLAPS proof that NativeFs reports every failure, with a lemma on prefixes | — |
| `MC*` | Model values and small definitions for TLC | — |

### RayaVM

The engine serialises its state changes, so each call is one step.
`raya_vm_run_entry` is the exception: it is a start step (`RunEntry`), the task's own
steps (`TaskStep`), and a return, either `RunComplete` or, after a terminate,
`RunStopped`.

State:

| Variable | Meaning |
|---|---|
| `vmSt[v]` | Each VM handle's state |
| `table[v]` | The images loaded in VM `v` |
| `heap[v]` | The task's mutations of VM `v` |
| `run[t]` | Thread `t`'s `run_entry` in flight: VM, image, stopped by terminate, caller passed an error pointer |
| `snapSt[s]`, `snapImg[s]` | Each snapshot handle's state and the image it captured |
| `released[s]` | How many times snapshot `s`'s memory was released, counted up to `MaxRelease` (history variable) |
| `errs[t]` | Unfreed errors held by thread `t` |
| `ret[t]` | The result of `t`'s last call |

The header leaves some calls to the host's care. Hosts must not use a VM handle after
destroy (raya.h line 140), nor a snapshot handle after restore or free (lines 295 and
306). The model does not guard against those calls. Where the header leaves the result
open, every outcome is a nondeterministic choice.

Each action's guard and effect:

- **`VmNew`:** the call may fail with an Init error.
- **`VmDestroy`:** a live VM becomes destroyed, and every task running on it is stopped
  (raya.h line 135, "terminates any running tasks"). Its `run_entry` callers then return
  through `RunStopped`. Destroying an already destroyed VM changes nothing.
- **`Load`:** succeeds when the image validates and its native imports are registered.
  Otherwise it fails with a Load error.
- **`RunEntry`:** resolves the entry in the VM's table, or fails with a Runtime error.
- **`Terminate`:** stops every task on the VM, or fails with a Runtime error and stops
  none (the header gives it an error result, line 196).
- **`Snapshot`:** fails with Unsupported when the build has no snapshots. Otherwise the
  header says the VM "is paused during snapshotting" (line 273), so a call while a task
  runs either captures the image or fails with Runtime. Both are allowed.
- **`Restore`:** on a snapshot handle that was handed out, it either applies the image
  or fails with a Runtime error. Either way the handle is consumed (line 295). Passing a
  handle that is already consumed or freed is the host's fault, and the result is
  undefined: the handle's memory may or may not be released again.
- **`SnapshotFree`:** releases an owned snapshot. A consumed or freed handle is again
  undefined, and may be released again. The no-op of line 13 is for a NULL pointer,
  not for a released handle.
- **`ErrorFree`:** frees one of the thread's errors.

`released[s]` counts the releases of a snapshot's memory, capped at `MaxRelease == 2`,
so that a double release is visible in the state.

A failing call with a non-NULL error pointer (`w`) adds one error to `errs[t]`.
`ErrRoom` is the model bound `MaxErrors` on a thread's unfreed errors, checked when a
call starts. It is an abstraction bound: the code has no such limit.

### HelloHost

Each step of `main()` is the `RayaVM` action of the call it makes, conjoined with the
change of the program counter `pc`. For example, `HLoad` is `VM!Load(Main, hvm, c, TRUE)`
together with the branch at line 42.

`herr` records what the local `error` points to: NULL, a live error, or a freed one
(dangling). `Engine` lets the task of a running `run_entry` take its steps.

### NativeCrypto

- **Values:** ABI values are records tagged by type.
- **Strings:** C strings are sequences of non-NUL bytes. `"sha256"` and `"sha512"` are
  their ASCII bytes.
- **`native_hash`:** keeps the code's chain of early returns. Its digest abstracts SHA
  to the pair it is computed from, plus the length of the hex text that `%02x` prints.
- **`native_random_bytes`:** keeps the argument-count and range checks. A non-i32
  argument reads as 0.
- **constantTimeEqual:** `CTEStart` does the checks and initialises. `CTEIter` is one
  iteration of the `for` loop. `CTEEnd` is the length check and the return.
- **Width:** the C `int result` has `IntBits` bits.

### NativeFs

- **File system:** `node[p]` is "none", "file" or "dir" for each path of at most
  `MaxDepth` names; `data[p]` is a file's content. A string is a sequence of
  one-character strings. The root is `<<>>`; `EmptyPath` stands for the empty string,
  which names no file.
- **Faults:** `Unsearchable` directories cannot be searched (EACCES), and with
  `DiskFaults` a write may fail (`failBit`) or lose its data at close (`closeFailed`).
- **`fs_ops`:** each function is an operator of the outcome it computes: `ReadFails`,
  `CanWrite`, `Throws`/`exists`, `MkdirFails`, `RemoveFails`, `ListFails`. An `ifstream`
  on a directory opens and reads nothing. `fs::exists` without an `error_code` throws
  when a directory above the path cannot be searched.
- **Wrappers:** each `Native*` action is one call of a `RAYA_FUNCTION` wrapper: the argc
  check, `from_raya` of each argument (a non-string reads as the empty string), the
  `fs_ops` call with all its effects, and the mapping of its result. `pc` becomes
  "aborted" when an exception leaves the function. `failed` records whether `fs_ops`
  reported a failure.
- **Write faults:** `WriteOutcomes(c)` allows `failBit` and `closeFailed` only for
  non-empty content. An empty write has nothing to fail on.
- **listDir:** `directory_iterator` needs read permission on the directory, not search
  permission on it. `Unsearchable` models only the search permission of the directories
  above the path.
- **Results as text:** `fs_ops::read_file` returns a `Result<std::string>`, a variant of
  two strings. The wrapper therefore tells an error from content by its first word
  (`Sniff`). Messages are abstracted to that first word.
- **Prefixes:** `IsPrefix`, `IsStrictPrefix` and `Prefixes` are written out in the module
  rather than taken from SequencesExt, because SequencesExt reaches RECURSIVE operators,
  which the prover cannot use.

## 3. Runs

| Run | Module / cfg | Bounds | Distinct states | Properties |
|---|---|---|---|---|
| `rayavm_threads` | MCRayaVM / MCRayaVM.cfg | 2 threads, 2 VMs, 3 images (one malformed), 1 snapshot, MaxErrors 1, MaxHeap 1; snapshots supported; symmetry on threads and VMs | ~1.25M | TypeOK |
| `hello_shipped` | MCHelloHost / MCHelloHost.cfg | 2 VM slots, 4 images (valid, unlinkable, malformed, no `main`), MaxHeap 2; snapshots unsupported | 107 | ErrorMessageValid, HostReleasesAll |
| `hello_snapshots` | MCHelloHost / MCHelloHostSnapshots.cfg | As above, snapshots supported | 131 | HostReleasesAll |
| `hello_inductive` | MCHelloHost / MCHelloHostInv.cfg | As `hello_snapshots` | 131 | HInv (the inductive invariant the HelloHost proofs rest on) |
| `native_crypto` | MCNativeCrypto / MCNativeCrypto.cfg | Bytes {1,2}, strings of length ≤ 4, IntBits 2; i32 arguments at the range boundaries and extremes; argument vectors of length 0-3 | 8,033 | NativeArgContract, CTECorrect |
| `fs_errors_reported` | MCNativeFs / MCNativeFs.cfg | Names {a, b}, depth 2 (7 paths), three contents (empty, "hi", "Error!"), string, null and i32 arguments; no faults | ~55k | NoErrorSwallowed |

Violation runs, each checking one property the code is expected to keep, which TLC
finds broken (see the findings in PROJECT.json):

| Run | cfg | Property | Counterexample |
|---|---|---|---|
| `fs_readfile_sniffing` | MCNativeFsSniff.cfg | ReadFileReturnsContent | `writeFile("/a", "Error!")`, then `readFile("/a")` returns an error value |
| `fs_untyped_args` | MCNativeFsArgs.cfg | ArgumentsValidated | `exists(null)` returns false instead of a type error |
| `fs_exists_throws` | MCNativeFsExists.cfg | NoAbort | `/a` unsearchable: `mkdir("/a")`, then `exists("/a/a")` throws out of the native function |
| `fs_write_close` | MCNativeFsClose.cfg | NoErrorSwallowed | With disk faults, `writeFile("/a", "hi")` loses its data at close, leaves `/a` empty and returns null |

### What the properties say

**Engine (RayaVM):** the run checks `TypeOK` over every interleaving of two threads on
two VMs. The engine's own safety depends on code that is not in the repository, so
what it promises is checked where a host uses it, in the hello runs.

**Host (HelloHost):**

- **`ErrorMessageValid`:** every `raya_error_message(error)` that hello.c prints reads a
  live error. The single `error` variable is reused, and it is freed on each failure path.
- **`HostReleasesAll`:** on every path, `main()` returns having destroyed its VM, freed
  every error, snapshot and value, and returning 0 exactly on success.

**Native functions (NativeCrypto):**

- **`NativeArgContract`:** each crypto function returns an error exactly when its
  arguments break its contract, and a success has the promised shape.
- **`CTECorrect`:** constantTimeEqual answers equality.

**File system (NativeFs):**

- **`NoErrorSwallowed`:** a call whose `fs_ops` operation failed returns an error value
  (spec §7).
- **`ReadFileReturnsContent`** (violated): a readable file's `readFile` returns its content.
- **`ArgumentsValidated`** (violated): a non-string argument gives an error.
- **`NoAbort`** (violated): no exception leaves a native function (spec §8).

### Why the bounds suffice

- **Engine interleavings:** two threads on one VM (and a second VM) give every
  interleaving of two calls, including a `run_entry` of one thread against `terminate`,
  `snapshot`, `restore` or `destroy` of the other.
- **Snapshots:** one snapshot slot is enough to restore twice, to free after restore,
  and to reach the cap of `released`.
- **Host:** the images cover every branch of hello.c, and the two cfgs cover both
  snapshot branches.
- **Strings:** strings of up to four bytes, over two byte values that can differ, reach
  every relation between two strings (prefix, equal length, differing at each position).
- **Scaled width:** with a 2-bit `int`, `len_a ^ len_b = 4` (lengths 0 and 4) truncates
  to 0. This is the same situation as lengths differing by 2^32 with the code's 32-bit
  `int`. `CTECorrect` holding there shows that the byte loop, not the length check,
  decides unequal lengths, because a position past the shorter string compares a
  non-NUL byte with 0.
- **i32 arguments:** randomBytes' arguments are exactly the boundaries of its check:
  I32Min, -1, 0, 1, 1048576, 1048577 and I32Max.
- **fs tree:** two names at depth two give a file below a directory, a non-empty
  directory, a file where a directory is needed (`mkdir /a/b` with `/a` a file), and a
  path below an unsearchable directory. The three contents are the empty file, an
  ordinary text, and a text starting with "Error".

### Mutants

Every property of every run is broken by a plausible bug in the code that it is about.
Each one is defined just before the definition it replaces:

| Mutant | Plausible bug | Breaks |
|---|---|---|
| `ErrorFreeUnchecked` | Free of an error not held | TypeOK |
| `FailSilently` | A failure that does not write `error` | ErrorMessageValid |
| `HFailedFreeSkipped` | Error path without `raya_error_free` | HostReleasesAll; HInv in `hello_inductive` |
| `native_random_bytes_offbyone` | `>=` for `>` | NativeArgContract |
| `CTEIterAssign` | `=` for `\|=` | CTECorrect |
| `SniffErrorOnly` | Only "Error" recognised as a failure | NoErrorSwallowed |

## 4. Fairness

No run assumes fairness, and no liveness property is checked. The header does not
promise that a `run_entry` stopped by `terminate` or `destroy` ever returns: it says
only that the tasks are terminated. A Raya program may loop forever, and hosts may stop
calling at any time. A fairness condition on any engine step would therefore assume
what the code does not show.

The host runs set `CHECK_DEADLOCK FALSE` because `main()` returns and the program ends.
The other runs check for deadlock.

## 5. Proofs

### RayaVMProofs

TLAPS proves, for every value of the constants allowed by `ConstAssumption` and
`NoRunAssumption`:

- **`TypeCorrect`:** `Spec => []TypeOK`.
  - TypeOK is not inductive on its own. A run that started with an error pointer must
    be able to add its error when it fails at return.
  - The inductive invariant is `TypeInv == TypeOK /\ RunErrRoom`. `RunErrRoom` says that
    a run in flight with `want` has room for one more error, which `ErrRoom` guaranteed
    at its start and nothing but that run can consume.
  - The proof has one step per action (lemma `TypeInvNext`). `Fail` and `Succeed` are
    lemmas of their own.
  - Lemmas `StopTasksType` and `ReleaseType` give the types of the run table after a
    terminate or destroy, and of the capped release counter.

### HelloHostProofs

These are proved for every engine allowed by `HostAssumption`. That assumption
repeats RayaVM's `ConstAssumption` and `NoRunAssumption` for the instance, because
the assumptions of an instantiated module are obligations of the instantiating one.
TLC evaluates them on every hello run.

- **`ErrorMessagesValid`:** `Spec => []ErrorMessageValid`.
- **`HostReleasesAllHolds`:** `Spec => []HostReleasesAll`.

Neither property is inductive. Both follow from `HInv` (theorem `HInvAlways`, `Spec => []HInv`), which
ties each engine resource to the point `pc` that `main()` has reached:

- The error count is 1 exactly when `error` points to a live error.
- `error` is NULL at each call that passes `&error`. This is needed because a failing
  call's fresh error must be the only one.
- Exactly the VM in `vm` is live from creation to destroy, and none is live before or
  after.
- run_entry's call is in flight only at "running", on `vm`, with `want` set. When it
  has returned, `error` is live exactly when the result is a failure. This is what makes
  `HRunReturned` choose the right branch.
- A snapshot is owned only at "snapshotFree", and only `hsnap`.
- The values are unset, owned or freed according to `pc`.

`HInv` was checked by TLC (run `hello_inductive`) before it was proved. `HInvNext`
has one case per host action. The engine calls (`HNew`, `HLoad`, `HRun`,
`HSnapshot`) are split into their success and failure branches.

### NativeFsProofs

This theorem holds for every set of names, depth, contents and unsearchable
directories, under the hypothesis `~DiskFaults`. With disk faults the property is
false: run `fs_write_close` shows a lost write returning null. The hypothesis
therefore matches the `fs_errors_reported` run's cfg and does not hide anything.

- **`NoErrorSwallowedHolds`:** `~DiskFaults => (Spec => []NoErrorSwallowed)`.
  - The property is inductive by itself, since every call sets both `out` and `failed`.
  - The one step that needs an argument is readFile: `FailedMsgSniffed` shows that
    read_file's failure message passes the wrapper's prefix test. It is proved from
    `PrefixOfConcat` and the SequenceTheorems facts on `\o` and `SubSeq`.

What stays with TLC:

- Liveness: none is checked (section 4), and TLAPS could not handle ENABLED and
  fairness here in any case.
- The crypto module: it uses `Bitwise`, whose operators are RECURSIVE and so out of the
  provers' reach. Its properties `NativeArgContract` and `CTECorrect` are
  model-checked only.
- The properties of the violation runs. They are false, and TLC's counterexamples are
  the result.
- `DiskFaults = TRUE` for the fs property, which is false there.

## 6. What is not modelled

- **`RAYA_FUNCTION` (fs.cpp line 241):** the macro discards its body, so the wrappers are
  declared but never defined. This is a preprocessing fault, outside a state model.
  NativeFs takes the bodies as written.
- **Parallel callers of fs:** spec §5 lets the scheduler run sub-tasks in parallel.
  `writeFile` truncates and then writes, so a concurrent reader or writer could see an
  empty or mixed file. Modelling that needs the engine's scheduler, which is not in the
  repository, and the spec promises nothing about it. NativeFs runs one call at a time.
- **Native module registry:** `ModuleBuilder`, `RAYA_MODULE_INIT(crypto)` and
  `RAYA_MODULE_INIT(fs)` are straight-line code: one builder, a fixed list of adds, one
  finish. Their only content is the names and arities. The builder semantics (last write
  wins, finish consumes) live in module.h and the engine, neither of which is in the
  repository. RayaVM's `Registered` constant stands for the result. In the model, each
  native function's own argc check is what decides a call with the wrong count, as
  the spec's native-function convention says.
- **`raya_array_new`:** its result is unchecked (crypto.cpp line 145, fs.cpp line 363).
  module.h is absent, so whether it can fail is unspecified, and allocation is taken to
  succeed.
- **raya_version:** a static string.
- **Values in the engine:** only hello.c's ownership of its values is modelled.
