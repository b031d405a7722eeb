----------------------------- MODULE Workflow -----------------------------
(***************************************************************************)
(* workflow.build_boot_test and workflow.build_boot_debug                  *)
(* (workflow/handlers.py): the steps of a run called one after the other,  *)
(* with the libvirt boot of LibvirtBoot, and target.boot called alone.     *)
(* target.run_tests (target/test_handler.py) and artifacts.collect         *)
(* (artifacts/handlers.py) are here with the artifacts they record; their  *)
(* locks are in RunSteps, their admission in SshGate.                      *)
(***************************************************************************)
EXTENDS LibvirtBoot

CONSTANTS
    Calls,       \* the calls that are made, triples of caller, kind and run
    Built,       \* the runs whose kernel was built before
    MaxTests     \* bound on test executions

Kinds == {"boot", "test", "debug"}

ASSUME WorkflowAssumption ==
    /\ Calls \subseteq Callers \X Kinds \X Runs
    /\ Built \subseteq Runs
    /\ MaxTests \in Nat

VARIABLES
    built,       \* built[r]: the build step succeeded
    tests,       \* tests[r]: the run_tests step and the artifacts it names
    ran,         \* ran[r]: test attempt directories of the run
    bundle,      \* bundle[r]: the collect_artifacts step and what it names
    flow         \* flow[c]: the workflow the caller is in

flowVars == <<built, tests, ran, bundle, flow>>
vars == <<dom, vm, console, ready, boots, step, attempts, locks, call, built, tests, ran, bundle, flow>>

NoFlow == [at |-> "none"]
NoTests == [status |-> "none", id |-> 0, arts |-> {}]
NoBundle == [status |-> "none", arts |-> {}]

Init ==
    /\ BootInit
    /\ built = [r \in Runs |-> r \in Built]
    /\ tests = [r \in Runs |-> NoTests]
    /\ ran = [r \in Runs |-> 0]
    /\ bundle = [r \in Runs |-> NoBundle]
    /\ flow = [c \in Callers |-> NoFlow]

-----------------------------------------------------------------------------
(* The pipeline                                                             *)

FlowAt(c, at) == flow[c].at = at
FlowRun(c) == flow[c].run

\* The request of a run that is there has to match its manifest, or the run is
\* made.  The force flags of the request are chosen at the step that reads them.
FlowBegin(c, kind, r) ==
    /\ FlowAt(c, "none") /\ At(c, "idle")
    /\ <<c, kind, r>> \in Calls
    /\ flow' = [flow EXCEPT ![c] =
          [at |-> IF kind = "boot" THEN "boot" ELSE "build", kind |-> kind, run |-> r,
           made |-> {}, bundle |-> NoBundle]]
    /\ UNCHANGED <<bootVars, built, tests, ran, bundle>>

\* A test workflow collects what there is when its build or its boot fails; the
\* debug workflow does not.
AfterFailure(kind) == IF kind = "test" THEN "collect" ELSE "done"

\* kernel.build: recorded, built now, or failed.
FlowBuild(c) ==
    /\ FlowAt(c, "build")
    /\ \/ /\ built' = [built EXCEPT ![FlowRun(c)] = TRUE]
          /\ flow' = [flow EXCEPT ![c].at = "boot"]
       \/ /\ ~built[FlowRun(c)]
          /\ flow' = [flow EXCEPT ![c].at = AfterFailure(flow[c].kind)] /\ UNCHANGED built
    /\ UNCHANGED <<bootVars, tests, ran, bundle>>

\* target.boot is called; it needs the build.
FlowBoot(c) ==
    /\ FlowAt(c, "boot") /\ At(c, "idle")
    /\ \E force, wait \in BOOLEAN :
         /\ wait => force
         /\ LET r == FlowRun(c)
            IN \/ BootRefused(c, r, force)
               \/ built[r] /\ BootCached(c, r, force)
               \/ built[r] /\ BootUnplanned(c, r, force)
               \/ built[r] /\ BootPlanned(c, r, force, wait)
    /\ UNCHANGED flowVars

\* The files of a boot, by path.
BootFiles(b, kinds) == IF b = 0 THEN {} ELSE {<<kind, boots[b].attempt>> : kind \in kinds}

\* The artifacts of the boot step: a boot that runs names the log of its attempt,
\* one that ended its other files too.
BootArts(r) ==
    BootFiles(step[r].id, IF step[r].status = "running" THEN {"boot-log"} ELSE {"boot-log", "boot-files"})

\* target.boot answered.
FlowBooted(c) ==
    /\ FlowAt(c, "boot") /\ At(c, "booted")
    /\ call' = [call EXCEPT ![c] = Idle]
    /\ LET made == BootFiles(call[c].of, {"boot-log", "boot-files"})
           next == CASE flow[c].kind = "boot" -> "done"
                     [] flow[c].kind = "test" -> "tests"
                     [] flow[c].kind = "debug" -> "debug"
       IN IF call[c].res = "succeeded"
          THEN flow' = [flow EXCEPT ![c].at = next, ![c].made = made]
          ELSE flow' = [flow EXCEPT ![c].at = AfterFailure(flow[c].kind), ![c].made = made]
    /\ UNCHANGED <<dom, vm, console, ready, boots, step, attempts, locks, built, tests, ran, bundle>>

\* debug.start_session answers (DebugSession), and the workflow with it.
FlowDebug(c) ==
    /\ FlowAt(c, "debug")
    /\ flow' = [flow EXCEPT ![c].at = "done"]
    /\ UNCHANGED <<bootVars, built, tests, ran, bundle>>

-----------------------------------------------------------------------------
(* target.run_tests                                                         *)

TestsDone(c, made) == flow' = [flow EXCEPT ![c].at = "collect", ![c].made = @ \cup made]

\* The recorded tests answer, or the call is refused: a boot that did not
\* succeed, a lock, a plan or an admission that fails.
TestsAnswered(c) ==
    /\ FlowAt(c, "tests")
    /\ \/ /\ tests[FlowRun(c)].status \in {"succeeded", "failed"}
          /\ TestsDone(c, tests[FlowRun(c)].arts)
       \/ TestsDone(c, {})
    /\ UNCHANGED <<bootVars, built, tests, ran, bundle>>

\* Under the lock of the tests, with force_rerun when there is a result: RUNNING.
TestsBegin(c) ==
    /\ FlowAt(c, "tests")
    /\ step[FlowRun(c)].status = "succeeded"
    /\ \A d \in Callers : FlowAt(d, "testing") => FlowRun(d) # FlowRun(c)
    /\ ran[FlowRun(c)] < MaxTests
    /\ ran' = [ran EXCEPT ![FlowRun(c)] = @ + 1]
    /\ tests' = [tests EXCEPT ![FlowRun(c)] =
                    [status |-> "running", id |-> ran[FlowRun(c)] + 1, arts |-> {}]]
    /\ flow' = [flow EXCEPT ![c].at = "testing"]
    /\ UNCHANGED <<bootVars, built, bundle>>

\* The provider returns its result with its files; a provider that raises, and a
\* test run that spanned a halt, are recorded without.
TestsEnd(c) ==
    /\ FlowAt(c, "testing")
    /\ \E status \in {"succeeded", "failed"}, kept \in BOOLEAN :
         /\ status = "succeeded" => kept
         /\ LET r == FlowRun(c)
                arts == IF kept THEN {<<"tests", tests[r].id>>} ELSE {}
            IN /\ tests' = [tests EXCEPT ![r].status = status, ![r].arts = arts]
               /\ TestsDone(c, arts)
    /\ UNCHANGED <<bootVars, built, ran, bundle>>

-----------------------------------------------------------------------------
(* artifacts.collect                                                        *)

\* What the steps of the manifest name.
ManifestArts(r) ==
    (IF built[r] THEN {<<"build", 0>>} ELSE {}) \cup BootArts(r) \cup tests[r].arts

\* Mutant of Covers: a collection that succeeded once covers everything.
CoversAnything(r) == TRUE

\* _collection_covers_manifest: by path and kind.
Covers(r) == ManifestArts(r) \subseteq bundle[r].arts

CollectDone(c, b) == flow' = [flow EXCEPT ![c].at = "done", ![c].bundle = b]

\* The recorded bundle answers when it covers the manifest; otherwise the files
\* of the manifest are bundled, and a required one that is missing fails the step
\* (what a failed collection names is not used).  A lock or a manifest error
\* fails the call.
FlowCollect(c) ==
    /\ FlowAt(c, "collect")
    /\ LET r == FlowRun(c)
       IN \/ /\ bundle[r].status = "succeeded" /\ Covers(r)
             /\ CollectDone(c, bundle[r]) /\ UNCHANGED bundle
          \/ /\ ~(bundle[r].status = "succeeded" /\ Covers(r))
             /\ \E b \in {[status |-> "succeeded", arts |-> ManifestArts(r)],
                          [status |-> "failed", arts |-> {}]} :
                  bundle' = [bundle EXCEPT ![r] = b] /\ CollectDone(c, b)
          \/ CollectDone(c, [NoBundle EXCEPT !.status = "refused"]) /\ UNCHANGED bundle
    /\ UNCHANGED <<bootVars, built, tests, ran>>

\* The workflow answers: a failure of the tests before one of the collection.
FlowAnswer(c) ==
    /\ FlowAt(c, "done")
    /\ flow' = [flow EXCEPT ![c] = NoFlow]
    /\ UNCHANGED <<bootVars, built, tests, ran, bundle>>

FlowDies == ServerDies /\ flow' = [c \in Callers |-> NoFlow] /\ UNCHANGED <<built, tests, ran, bundle>>

Next ==
    \/ \E c \in Callers :
         \/ \E kind \in Kinds, r \in Runs : FlowBegin(c, kind, r)
         \/ FlowBuild(c) \/ FlowBoot(c) \/ FlowBooted(c) \/ FlowDebug(c)
         \/ TestsAnswered(c) \/ TestsBegin(c) \/ TestsEnd(c) \/ FlowCollect(c) \/ FlowAnswer(c)
         \/ Provider(c) /\ UNCHANGED flowVars
    \/ (GuestReady \/ GuestExits \/ Operator) /\ UNCHANGED flowVars
    \/ FlowDies

Spec == Init /\ [][Next]_vars

-----------------------------------------------------------------------------
(* Properties                                                               *)

\* A test workflow, one whose boot or whose tests failed too, answers with a
\* collection that names every file its own boot and its own tests left and that
\* the manifest still names, unless the collection failed: never with none, nor
\* with a bundle from before them.
BundleNamesResults ==
    \A c \in Callers :
        /\ FlowAt(c, "done") /\ flow[c].kind = "test"
        /\ flow[c].bundle.status \notin {"failed", "refused"}
        => flow[c].made \cap ManifestArts(FlowRun(c)) \subseteq flow[c].bundle.arts

=============================================================================
