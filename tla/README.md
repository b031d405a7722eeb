# A TLA+ model of kdive

kdive is an MCP server that builds a kernel, boots it in a libvirt domain, runs
tests on it over ssh and debugs it through a serial or gdbstub transport. Its
difficult part is coordination: one kernel is shared by a debugger that can stop
it, ssh work that needs it running, a lifecycle that tears everything down when
the target goes away, and durable files that survive the server. This directory
models that part, checks it with TLC on small instances and proves the most
important results with TLAPS for all instances.

`PROJECT.json` lists components, runs, hazards, findings and theorems, and maps
every definition to the lines it models. Paths below are relative to
`src/src/kdive/`.

## Inventory

| Component | State it keeps | Operations | Correct when |
|---|---|---|---|
| admission (`coordination/admission.py`) | per target: snapshot, binding table, closed generation, recovery tombstone, execution epoch; per handle: state, cancel fence, reaped flag | put, admit, admit_recovery, admit_ssh_tier, promote, complete, rollback, abandon, confirm_reaped, note_execution_transition, cancel_ssh_tier, close_admission, reopen, mark/clear_recovery_required, invalidate_lifecycle | work of a closed incarnation is fenced and gone before the target reopens; fenced work never succeeds |
| transaction (`coordination/transaction.py`) | tokens, handles, subscriptions of open sessions | open with rollback, close, force_release, the lifecycle subscriber's teardown | whatever step fails or races, a session that is over has left no lease, guard, record or subscription |
| session registry (`coordination/registry.py`) | owner record and tombstone files | write, fenced delete, reconcile at start | a restart kills the orphans it can identify and remembers a halted kernel |
| guard, lease, dispatcher (`seams/guard.py`, `coordination/lease.py`, `seams/lifecycle.py`) | holder; subscribers and their deadlines | acquire, fenced release, revoke; emit, force_drop | one stop-capable holder; a late teardown worker harms nobody |
| execution gate (`coordination/exec_probe.py`, `debug/policy.py`, `debug/session_state.py`) | execution state in the record, the epoch | probe, halt, resume | nothing in flight across a halt reports success |
| ssh operations (`target/test_handler.py`, `introspect/runner.py`) | one handle each | admit, run under the gate, complete or roll back | every admitted operation leaves the binding table |
| run steps (`artifacts/store.py`, `artifacts/manifest.py`, `kernel/handlers.py`, `target/boot_handler.py`, `target/test_handler.py`, `artifacts/handlers.py`) | manifest, boot attempts, lock files | build, boot, run_tests, collect | the manifest is right about what runs and what succeeded; no update is lost; one boot at a time on a domain |
| debug sessions (`debug/*`, `providers/local/debug/gdb_mi.py`) | debug step of the manifest, session file, live gdb attachments, `.debug.lock` | start_session, the operations on the attachment, load_module_symbols, end_session | a stopped kernel is gated and belongs to a session that can be ended; the recorded breakpoints are those of gdb |
| transports (`transport/*`) | backend process, sockets, pty pump | open, close, inject_break | what they share is in Transaction, SshGate and DebugSession; the byte streams are not modelled |
| libvirt provider (`providers/local/target/`) | domain definition and power state, console log and plan of each attempt | plan_boot, execute_boot (destroy, define, start, tail the console, clean up) | a boot succeeds only by its own kernel, a failed one is stopped, nobody else's domain is touched |
| workflow (`workflow/*`) | none of its own | build_boot_test, build_boot_debug | the answer and the bundle are about the steps the workflow made |
| postmortem (`postmortem/*`, `introspect/vmcore_execution.py`, `introspect/result.py`) | staged dump, fetch lock, appended steps | fetch, crash, from_vmcore, triage | a recorded fetch is whole; a recorded success really ran |
| watchdog (`seams/watchdog.py`) | captured lockup-detector settings | relax, restore | shipped inert: no tool gives it a control channel; not modelled |
| selection, safety, symbols, prereqs, profiles, config | none, or static tables | pure functions, text and ELF parsing, host inspection | not modelled; break selection is planned as a decision module |

How they interact. A tool handler runs a step under the store's lock files and,
after a boot, publishes a READY snapshot to admission with the boot attempt as
generation. `transport.open` runs the transaction: admission, guard, lease,
record, backend, record, promotion, subscription. Halting the kernel notes a
transition in admission and cancels ssh work; ssh work probes the record and the
epoch and is admitted with the proof. `invalidate_lifecycle` closes admission
and has the dispatcher tear down the subscribers, with a deadline. At the start
of the server `reconcile` reads the registry, kills orphans and restores the
tombstones. `debug.start_session` opens a transport, attaches gdb and halts the
kernel; each later operation checks that the record is still its own. The
workflows call build, boot, run_tests or start_session and collect, one after
the other. The postmortem tools read what a fetch staged and append one step
each to the manifest.

Concurrency. The tools are synchronous functions, and FastMCP serves such tools
one at a time; in the deployed server two tool calls do not interleave. Real
concurrency comes from the dispatcher's teardown workers, the cancel watchers of
run_tests and introspect, other server processes on the same artifact root (the
lock files are made for them) and crashes. The coordination layer is however
written, documented and tested for concurrent callers. `Serial = TRUE` is the
deployed server, `Serial = FALSE` what the components claim. A run says which it
is about.

## Modules

* `IncarnationFence` - abstract: what admission promises. Work is started on an
  incarnation, may be fenced, and fenced work never succeeds; shutting down
  fences everything and raises a floor; the target opens again only when no work
  is left and new work lies above the floor.
* `Admission` - the service for one target. Each public method is an action,
  atomic because each runs under the key lock; `Can...` operators are their
  guards. `None` is 0: generations start at 1 because they are boot attempts.
  `retired`, the last generation that was reopened past, is a history variable.
  `Fence` is the refinement mapping.
* `Transaction` - EXTENDS Admission with open, close, force_release, teardown
  and reconcile as threads, one action per call on a shared component, the
  registry's files, the guard, the lease, the dispatcher and the backends.
  `Faults` names the environment events a run allows. `forced`, `stranded`,
  `parked` and `unmarked` are history variables. `parked` is the generation whose
  record said HALTED when its owner went, by a close, a forced release or a crash;
  it goes by what the record says, not by the kernel. `unmarked` are those for
  which the code wrote no tombstone.
* `SshGate` - EXTENDS Admission with controllers that halt (`Halters`) and resume
  (`Resumers`) the kernel and ssh operations that probe, are admitted, run and end. The session
  is represented by its record here. `spanned`, `overHalt`, `shut` and
  `lastNote` are history variables.
* `RunSteps` - the four steps of a run over lock files and the manifest. A
  manifest update is two steps, the read under the manifest lock and the write
  back. Each provider execution has a number and recorded results carry it, so
  that properties can tell whose result is recorded. A collection's coverage of
  the manifest is a free choice. `Orphan` marks a lock file whose process died.
* `DebugSession` - the debug tools of one run over gdb, the record, the manifest
  step and the session file, write by write. Calls are served one at a time;
  beside a call there are the kernel, the RSP link and the death of the server.
  Operations on the attachment are grouped by what they change (`ReadOps`,
  `MutatorOps` and so on). Opening and closing the transport is one step: its own
  steps are in `Transaction`. `stray` is a gdb that an attach() which raised after
  `^connected` left connected: it holds the kernel and no session has it.
  `failed`, `unmarked`, and `dirty` in `gdb`, are history.
* `LibvirtBoot` - target.boot and `execute_boot` on one domain that several runs
  share, one virsh command per action. A command that times out may have taken
  effect. Boots are numbered; definition, QEMU and console log say which boot
  they are of. The guest, the operator and the server's death are environment. A
  domstate probe may take any domain for a stopped one, since the code does so
  whenever virsh fails or names another state; `presumed`, in the reason of a
  failed boot, is history and tells the boots whose QEMU was not gone then.
* `Workflow` - EXTENDS LibvirtBoot with the two workflows, the artifacts that the
  tests leave and the bundle of artifacts.collect. The locks of tests and
  collection are in RunSteps.
* `Postmortem` - fetch file by file under its lock file; crash batches, vmcore
  scripts and helpers and triage as calls with a list of sub-calls; the ways the
  drgn wrapper may end (`Ends`) and what the host makes of them (`Finalized`).
  `lost` is a history variable.
* `AdmissionProofs`, `TransactionProofs`, `SshGateProofs`, `RunStepsProofs`,
  `RunManifestProofs`, `WorkflowProofs` (of LibvirtBoot and Workflow),
  `DebugSessionProofs`, `PostmortemProofs` - the theorems.
* `MCAdmission`, `MCTransaction`, `MCSshGate`, `MCRunSteps`, `MCDebug`, `MCBoot`,
  `MCPostmortem` - instances for TLC.

Definitions named after what a mistake would make of another one (their comment
starts with "Mutant of") are not used by any specification. Replacing the
original by one of them makes TLC violate the property listed with it in
`PROJECT.json`: it shows that the property depends on that piece of code.

## Runs

| Run | Instance | States | Shows |
|---|---|---|---|
| `MCAdmission` | 2 handles, 2 generations, 2 epochs | 523k | closed targets fence; no retired work when open; promoted sessions leave a closed target reaped; refinement of `IncarnationFence` |
| `MCTxLive` | 2 sessions, one with console and backend, calls one at a time against invalidation, reopening, failing opens and overdue teardowns, 2 generations | 99k | an ended session leaves nothing; the guard covers each live backend; a reopened target holds nothing of an earlier incarnation; every binding of a closed target is disposed of |
| `MCTxCrash` | 3 sessions, calls one at a time, halts, failing writes of records and tombstones, failing kills, forced releases, crashes anywhere, 2 generations | 1.16M | restart reaps what it can identify; a halted kernel whose tombstone was written is remembered and stays gated; closed and forced-out sessions leave nothing and are deregistered |
| `MCSshGate` | 1 halter, 1 resumer, 1 operation that is a test run or an introspection, 2 generations, 2 transitions, failing writes | 830k | no success across a transition; cancels hit only work that a halt overlapped; the kernel is not stopped under work that was not told; every admitted operation leaves the table |
| `MCRunSteps` | 2 calls, all steps of 1 run, 3 executions, crashes, failing writes | 899k | an executing step is recorded as such; answers are what is recorded; success is replaced only on request; the published generation is a recorded boot |
| `MCDebug` | 2 starts, 2 boots, 1 breakpoint location, 1 module address, every fault | 2.77M | a stopped kernel is gated and can be released, but for a lost tombstone and a stray gdb; a verb gives the kernel back to the debugger; the guard is not held for nobody; the ledger agrees with gdb |
| `MCBoot` | 2 callers (the workflows on one run, target.boot on another), a shared domain, 2 boots, 1 test execution, every virsh failure, crashes, an operator | 3.09M | success is the boot's own; failed boots are stopped; a marker is not missed of a QEMU that is gone; the manifest is right about the last boot; foreign domains are left alone; workflows bundle their own results |
| `MCPostmortem` | 2 callers, 2 transfers, budget 1, 3 call ids, crashes | 1.45M | recorded fetches are whole; the budget is overrun by at most the calls in progress; triage successes have a source; introspect successes ran |

Four runs end in a violation of something the repository says of itself:

* `MCTxDelayedEmit` - `invalidate_lifecycle` checks for staleness under the key
  lock but emits outside it; delayed past a reopen, the emit tears down a session
  of the next incarnation, which its comment excludes.
* `MCSshHalted` - nothing publishes DEBUGGING, and `admit_ssh_tier` looks at the
  proof only for such targets, so an introspection is admitted to a kernel whose
  record says HALTED; ADR 0013 says admission rejects it.
* `MCRunCrash` - a server killed during a boot leaves `.boot.lock`, which nothing
  removes, so the stale-running rule is never reached; the plan of the boot says
  crashed boots must stay retryable.
* `MCBootStuck` - a debug boot's QEMU holds the gdbstub port that planning checks
  before anything is destroyed, so a forced reboot of it is refused; the
  wait-for-debugger design says that any re-boot reclaims the domain.

Three errors of the code, each after one failing write or probe, are in the
passing runs and the properties exempt what they lose, by name. With an exemption
dropped, TLC finds the error within 15 steps.

* `close()` collects the error of `write_tombstone`, skips the cache mark and
  deletes the record of the halted kernel nevertheless
  (`coordination/transaction.py:608`, `:687`, `:611`), although its docstring
  (`:567`) says that such a session leaves a recovery tombstone. `force_release`
  deletes a record that says HALTED and writes none by design. In `Transaction`
  these generations are `unmarked`; `ParkedIsRemembered` and `ParkedStaysGated` say
  nothing of them until a restart or a later close finds the record halted and
  marks it. In `DebugSession`, `StoppedIsGated` exempts `unmarked`, which lasts
  until the kernel is gone: a session opened on it meanwhile, whose own attach
  fails, writes EXECUTING over a stopped kernel.
* The write of gdb's transcript raises in `attach()` after gdb has connected and
  stopped the kernel. `attach()` cleans up after a `GdbMiError` only
  (`providers/local/debug/gdb_mi.py:341`) and the handler has no attachment to
  resume, so the record is set to EXECUTING and closed, although
  `debug/session_handlers.py:127` says that the target is never left HALTED on a
  tool error. Nothing in the code lets the kernel go: it does go on if the
  interpreter drops the controller and gdb meets the end of its input
  (`StrayExits`). `StoppedIsGated` and `StoppedIsReachable` exempt `stray`.
* A domstate that fails other than by a timeout, or names a paused domain, ends
  the boot as "exited" with its QEMU running
  (`providers/local/target/local_libvirt_qemu.py:306`); the comment at `:304` says
  that a flaky probe is no proof. The marker may come after the last read of the
  log, so `ExitedWasNotReady` is about boots whose QEMU was gone at the probe, and
  exempts the `presumed` ones.

Bounds. Two handles are what the binding table, guard and lease can tell apart:
an owner and a contender. `MCTxCrash` has a third: one leaves the kernel halted,
one takes it over for recovery or fails to, and one comes after. Two generations are an incarnation and its successor;
a third would repeat the second. `MaxEpoch` counts noted transitions: a halt and
a resume in `MCSshGate`, where a late cancel of the halt meets work admitted
after the resume. `MaxExecs` 3 is a build, a boot and a reboot or a test.
`MCDebug`: the second start meets what the first one left, the second boot
replaces the kernel under a session; sets of breakpoints and modules are compared
with their record, for which one element suffices. `MCBoot`: the second boot is
the reboot of a run, or the boot of the other run on the domain; one run has a
debug profile and stop_on_failure, the other neither. `MCPostmortem`: a second
transfer is the forced or the retried one, a budget of 1 is the smallest that
calls in progress can overrun, and three ids are the sources of one triage, or two
sources and its report.

`MCTxCrash` and `MCTxLive` have one call at a time, which is the deployed server.
The invariants of `MCTxLive` also hold with concurrent callers (`Serial = FALSE`,
1.47M states; with the event "late_emit" of `MCTxDelayedEmit`, a reopen before
the close's events are out, 2.05M). `TeardownDrains` needs the exclusion of that
event: the session torn down by mistake is not cancelled, so `confirm_reaped`
refuses it and its binding stays. With concurrent callers a close that races an
invalidation finds its handle cancelled and leaves the binding, so
`ClosedSessionDeregistered` does not hold there. `TeardownDrains` is also checked
without failures of the tombstone's clearance: with them a recovery open that
fails after promotion, against an invalidation, keeps its binding.
`EndedLeavesNothing` is checked with forced releases (`MCTxCrash`) and with
invalidations (`MCTxLive`), not with both: the unlink of a torn-down session may
then erase its successor's record (a window that `delete_record` documents), a
forced release of the successor finds no record, and its guard stays held.
`ParkedIsRemembered` is checked without invalidations, which say that the halted
kernel is gone.

`MCSshGate` lets the store fail for introspections only. target.run_tests writes
its RUNNING step between the admission and the block that rolls the handle back
(`target/test_handler.py:383`): with `StoreFails` including "run_tests" TLC finds
the handle left in the table for good.

The type invariants `TxTypeOK`, `SshTypeOK`, `DebugTypeOK` and `BootTypeOK` hold
on the same instances; they belong to no run and are parts of what is proved.
`CHECK_DEADLOCK` is left on everywhere.

Fairness. `Transaction!FairSpec` is weakly fair to the steps of threads that
have started (open, close, teardown, reconcile, a pending emit): Python threads
that are not blocked run, and no step of them waits for another thread. Requests,
boots, halts, invalidations, crashes and the end of a wedged worker are the
environment's and get no fairness. `SshGate!FairSpec` is weakly fair to the
steps of an operation that has started; the subprocess it runs has a timeout.
The other modules state no fairness and are checked for safety only.

## Proofs

`AdmissionProofs`, for any set of handles and any bounds, from
`AdmissionAssumption` only:

* `TypeCorrect`, and the inductive invariant `AdmissionInv`: the types together
  with `BindingsAreLive`, `ClosedCoversBindings`, `NoRetiredWorkWhenOpen` and
  `SnapshotAhead`. None of the last four is inductive alone: that a closed
  target's bindings are of its generation or earlier needs the snapshot to be
  ahead of every binding when it closes; that no retired work is left when open
  needs the table to be empty at `reopen` and, afterwards, admission to bind only
  to a snapshot past the retired generation; and both need the table to hold
  exactly the live handles.
* `ClosedFencesEverything`, `NoRetiredWork` - the two invariants that matter.
* `PromotedLeavesReaped` - the action property, from the same invariant.
* `AdmissionImplementsFence` - initial states map to initial states and every
  action to a step of `IncarnationFence` or a stutter.

`TransactionProofs`, for any sessions, transports, generations and faults, from
`TransactionAssumption` and `AdmissionAssumption`: all properties of `MCTxCrash`
and the invariants of `MCTxLive`. Three invariants, each over the one before.

* `TransactionInvariant` - `TxInv`, for all faults and interleavings, `Serial` or
  not. `Acquired` says what open() holds at each of its points, `InOrder` that
  each thread which ends a session (rollback, close, forced release, teardown)
  gives up the process before the lines and the lines before the registration.
  A step of one session `Keeps` what holds of another, since releases are fenced
  by the holder. Each call on the service is an operation of `Admission`, so
  `AdmissionInv` carries over.
* `NoPriorResources` - reopening waits for the table to drain, and a session
  outside of the table has given up the rest: for all faults and interleavings.
* `LiveBackendsHoldGuard` - without crashes. With crashes and invalidations, or
  with crashes and concurrent callers, it is false: the record is one file, and
  another session's unlink may take it before the restart can read it.
* `ClosedSessionsDeregister` - without "invalidate", for concurrent callers, too:
  `UndisturbedInv` says that a committed session keeps its guard, its handle and
  its promotion until its own close takes them, so complete() is not refused. The
  only caller of `invalidate_lifecycle` is the callback of reconcile
  (`server.py:281`), which runs before the server serves; the model has it as
  `ReconcileNotify`, and the faults of these theorems include "crash".
* `RestartsReapOrphans`, `RestartedBackendsHoldGuard`, `EndedSessionsLeaveNothing`,
  `ParkedRemembered`, `ParkedGated` - without "invalidate" and with `Serial`, which
  is the deployed server, over any crashes; the last two exempt `unmarked`, as the
  properties do. `AloneInv` says what the record and the marks are worth to a
  restart: `RecordOk`, that a process which nobody has
  given up is named by the record with its pid, but for the moment in which its
  spawner would still reap it; `ParkedKept`, that the last generation, if it was
  left halted, is marked in both places or is still in the record of whoever is
  about to mark it; `ParkedBefore` and `BootedLast`, that no live session is older
  than a parked generation, so that no mark is overtaken. `ParkedIsRemembered`
  alone is not inductive: between close()'s writes and during a restart only the
  record tells.

`SshGateProofs`, for any operations, controllers and bounds, from
`SshGateAssumption`: all safety properties of `MCSshGate`.

* `GateInvariant` - `SshInv`. `SpannedIsStale` says that an operation which a
  transition has caught is bound at an epoch that is past, so the service refuses
  its completion whether or not the cancel reached it; `HaltReaches`, that a
  controller about to cancel reaches only what was bound under its halt;
  `HaltTells`, that what a halt caught has been told or is about to be.
* `NoSuccessAcross`, `CancelsUnderHaltOnly`, `StopsFencedWorkOnly`.
* `GateImplementsFence` - the gate calls the service by its operations only, so it
  implements `IncarnationFence`, too.

`RunStepsProofs`, for any runs, calls and executions, from `RunStepsAssumption`:

* `DomainIsExclusive` - boots exclude each other on the domain. The invariant
  says that a boot past its domain lock holds it, and that only a collection
  reaches the bundle; without the second part a boot could seem to record
  without having locked.

`RunManifestProofs`, from the same assumption: all properties of `MCRunSteps`.

* `RunInvariant` - `RunInv`, in which `CallOk` says of each point of a call what
  it knows: past the lock of its step it holds it, and what it saw of the step is
  still recorded; with the manifest lock, the copy that it loaded is the
  manifest; a boot past its lock has a number that no attempt has yet. None of
  the properties is inductive without it: that a provider's execution is the
  recorded one rests on nobody writing this step under another lock, and that the
  write back loses no other step on the freshness of the copy.
* `RunIsTyped`, `ExecutionIsRecorded`, `AnswerIsRecord`, `SuccessIsLastAttempt`,
  `PublishedIsRecord`, and the action property `SuccessIsKept`.

`WorkflowProofs`, for any callers, runs, boots and tests, from `BootAssumption`
(the two marks of a lock file that is free, and of one whose process died, are
two values and no callers): all properties of `MCBoot`.

* `WorkflowInvariant` - `BootInv /\ FlowInv`, over every step of `Workflow`. Of
  the boot: a boot in progress holds the lock of the domain, so there is one, and
  its attempt is the last (`Latest`); `Progress` says for each point of
  `execute_boot` what the domain, the QEMU and the console log are: the log was
  emptied before the own kernel can print, so a marker in it is its own; an
  answer carries what the record said when it was written (`RecordOk`,
  `AnswerOk`); a boot whose reason is "exited" was not ready and its QEMU is not
  running, one that is only "presumed" may be both. Of the workflow: what a workflow has made is `Settled`, of an
  attempt that ended, and what a manifest names only grows by what is not
  (`Grows`), so a collection that covered it still does.
* `BootReportsItsOwn`, `FailedBootIsStopped`, `ExitedBootWasNotReady`,
  `RecordedBootIsLatest`, `BundleNamesItsResults`, and the action property
  `AlienDomainUntouched`: once a boot is past the ownership check the domain is of
  this server, since the operator acts between boots.

`DebugSessionProofs`, for any number of sessions, boots, locations and addresses
and any set of faults, from `DebugAssumption`: all properties of `MCDebug`.

* `DebugInvariant` - `DebugInv`. What carries it is `Connected` and `Held`: at
  most one gdb is connected, of the session being started or of the one that the
  manifest names (`Holder`), or a stray one; while one is, or the kernel is
  stopped, `Found` says that the record is of this generation and the session not
  ended, and `Gated` that the record says HALTED or the generation is parked,
  unless `stray` or `unmarked` holds.
  `StoppedIsGated` alone is not inductive: the next breakpoint stops a kernel
  that runs under a connected gdb, so being connected must be gated already, and
  a close parks the generation of the record, not the published one. `Served`
  says what each point of a call knows of its session, `Ledger` exempts the
  change that a call has made and not yet recorded.
* `StoppedKernelIsGated`, `StoppedKernelIsReachable`, `LiveSessionIsStopped`,
  `HeldGuardIsReachable`, `LedgerMatchesGdb`.

`PostmortemProofs`, for any callers, transfers, budgets and ids, from
`PostmortemAssumption` (the callers are finite and at least one): all properties
of `MCPostmortem`.

* `PostTyped` - through `Typed`, which gives each call in progress the record that
  goes with its point, and each step of the manifest its fields.
* `FetchIsWhole` - `FetchInv` adds to the property that a fetch in progress holds
  the lock file and is forced if one is recorded, that the files before its next
  one are of its transfer, and that it has given the recorded transfer up.
  Without these, nothing is known of the files when it records.
* `TriageRestsOnSteps`, `IntrospectSuccessRan` - `ManifestInv` adds that a triage
  with a section has a succeeded step among its call ids. That a success ran is a
  fact about the tables (`SuccessRan`): every other end of the wrapper has a
  status in `FailureStatuses`, or no build id, or raises.
* `BudgetOverrunBounded` - `BudgetInv` bounds recorded steps plus running calls of
  a kind: the bound of the steps alone is not inductive, since a running call is
  past its check and will add one.

Only model-checked: the two liveness properties, `TeardownDrains` and the one of
`MCSshGate` (fairness and ENABLED are beyond the prover), and `EndedLeavesNothing`
under invalidations (`MCTxLive`). Induction over data and RECURSIVE operators are
also out of its reach; the models use neither.

The inductive invariants were checked by TLC on the instances of the runs before
they were proved.

## Hazards that no property settles

The hazards in `PROJECT.json` name the properties about them. These are known from
the modelling and have none:

* `target/test_handler.py:456` - tests may run across a forced reboot: the manifest
  has no link between a test result and a boot.
* `debug/session_handlers.py:499` - start_session answers with a recorded session
  whose attachment is gone.
* `debug/session_handlers.py:612` - a failed write of HALTED leaves the transport
  open with the guard held; `HeldIsReachable` exempts it.
* `coordination/transaction.py:389` - between the unlink of the tombstone by a
  recovery attach and the next halt nothing durable says that the kernel is
  stopped, so a crash forgets it; the comment there accepts that. In the model the
  parked kernel is taken over with the unlink (`OpenClearDurable`).
* `transport/backends/proxy.py:166` - a server that dies between the spawn of a
  backend and the write of its pid leaves a process no restart can identify;
  `RestartReapsOrphans` exempts it through `stranded`.
* `coordination/transaction.py:577` - close() writes back the record it found,
  without a fence; only concurrent callers reach it.
* `server.py:293` - reconcile closes admission for a target and no tool calls
  reopen(); the models give reopen to the environment.
* `debug/session_end.py:170` - end_session reads the transport session id before
  the lock; it takes two calls at once.
* `providers/local/target/local_libvirt_qemu.py:676` - a domain defined by hand
  between the dumpxml and the define of a boot; the model's operator acts between
  boots.
* `artifacts/store.py:246` - the domain lock keeps apart only servers that share
  its directory.
* `workflow/handlers.py:349` - a workflow that reboots without force_rerun_tests
  answers with the tests of the boot before.
* `postmortem/crash/handler.py:153` - an analysis may read a core that is cut short
  and opens.

## Not modelled

Text and file formats, redaction, ELF and crash output parsing, MI parsing, domain
XML, profile validation, host inspection, sockets and subprocesses themselves.
Requests that are refused before they change anything have no action, or one that
changes nothing. Lease expiry is left out of admission: it only refuses. What a
debugger read returns is not modelled, nor how much of a console log is kept.

File operations that fail: the writes of records and tombstones, of manifests and
session files and of gdb's transcript during an attach do in some run. The unlink
in `delete_record` does not, nor does the tombstone write of `reconcile`, which
ends the start of the server with the record in place, so that the next start
tries again. The `recovery` argument of debug.start_session is left out of
`DebugSession`: a parked generation refuses the start there; recovery opens are in
`Transaction`. QEMU's gdbstub is taken to serve one gdb at a time (`StubFree`).

## Plan

Modelled: everything named under Modules. Left to model: break and transport
selection as pure operators against a reference, the proxy's retry loop and the
bounded reader of the transport core.

Theorems worth proving next: `EndedLeavesNothing` with invalidations, where a
teardown and the close of the same session share what they release; that
`Transaction` implements `IncarnationFence` across restarts, which forget it.
