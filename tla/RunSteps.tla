----------------------------- MODULE RunSteps -----------------------------
(***************************************************************************)
(* The steps of a run: kernel.build (kernel/handlers.py), target.boot      *)
(* (target/boot_handler.py), target.run_tests (target/test_handler.py) and *)
(* artifacts.collect (artifacts/handlers.py) over the run manifest and the *)
(* lock files of the artifact store (artifacts/store.py, manifest.py).     *)
(*                                                                         *)
(* The locks are files that several calls compete for; every run boots the *)
(* same libvirt domain, as the default target profile has it.  A call that *)
(* is refused or answered before it took a lock changes nothing and is no  *)
(* step here, but for a boot that publishes its snapshot again.  Requests  *)
(* that fail validation are of that kind.  "force" stands for              *)
(* force_reboot, force_rerun and force_recollect, and for new boot         *)
(* overrides, which are treated alike.                                     *)
(***************************************************************************)
EXTENDS Naturals, Sequences, FiniteSets

Ops == {"build", "boot", "run_tests", "collect"}

CONSTANTS
    Callers,     \* tool calls in progress at once
    Runs,        \* run ids
    Free,        \* a lock file that does not exist
    Orphan,      \* a lock file whose process is gone
    Calls,       \* the steps that are called, pairs of run and step
    Built,       \* the runs whose kernel was built before
    MaxExecs,    \* bound on provider executions
    Crashes      \* the server may die

ASSUME RunStepsAssumption ==
    /\ Free \notin Callers /\ Orphan \notin Callers /\ Free # Orphan
    /\ Calls \subseteq Runs \X Ops
    /\ Built \subseteq Runs
    /\ MaxExecs \in Nat
    /\ Crashes \in BOOLEAN

VARIABLES
    steps,       \* steps[r][op]: the recorded StepResult
    attempts,    \* attempts[r]: boot_attempts, the number and status of each
    locks,       \* locks[l]: who made the lock file
    call,        \* call[c]: the call in progress
    published,   \* published[r]: generation of the READY snapshot in admission, 0 if none
    execs        \* provider executions so far; each is named by its number

vars == <<steps, attempts, locks, call, published, execs>>

Statuses == {"none", "running", "succeeded", "failed"}

\* A result carries the number of the execution it is of.
Results == [status : Statuses, id : 0..MaxExecs]
NoResult == [status |-> "none", id |-> 0]

TargetLock == <<"target">>
LockNames == ((Ops \cup {"manifest"}) \X Runs) \cup {TargetLock}

IdleCall == [pc |-> "idle"]

\* The manifest a call has loaded under the manifest lock, to write it back.
NoCopy == [steps |-> <<>>, attempts |-> <<>>]

Init ==
    /\ steps = [r \in Runs |-> [op \in Ops |->
                  IF op = "build" /\ r \in Built THEN [status |-> "succeeded", id |-> 0] ELSE NoResult]]
    /\ attempts = [r \in Runs |-> <<>>]
    /\ locks = [l \in LockNames |-> Free]
    /\ call = [c \in Callers |-> IdleCall]
    /\ published = [r \in Runs |-> 0]
    /\ execs = 0

-----------------------------------------------------------------------------
(* Locks                                                                    *)

\* _file_lock: the file is created exclusively.
CanLock(l) == locks[l] = Free

OpLock(c) == <<call[c].op, call[c].run>>
ManifestLock(c) == <<"manifest", call[c].run>>

\* The finally blocks: every lock file the call made is unlinked.
Unlocked(c) == [l \in LockNames |-> IF locks[l] = c THEN Free ELSE locks[l]]

-----------------------------------------------------------------------------
(* The decisions of the handlers on a manifest                              *)

Recorded(c) == steps[call[c].run][call[c].op]

\* What has to have succeeded before.
Prerequisite(r, op) ==
    /\ op = "boot" => steps[r]["build"].status = "succeeded"
    /\ op = "run_tests" => steps[r]["boot"].status = "succeeded"

\* Mutant of Answered: a boot that succeeded is booted again.
AnsweredNoBoot(op, status, force, covered) ==
    CASE op = "build" -> status = "succeeded"
      [] op = "boot" -> FALSE
      [] op = "run_tests" -> status \in {"succeeded", "failed"} /\ ~force
      [] op = "collect" -> status = "succeeded" /\ ~force /\ covered

\* The recorded result answers the call: a build or a boot that succeeded, tests
\* that ended, a collection that succeeded and covers what the manifest names.
Answered(op, status, force, covered) ==
    CASE op = "build" -> status = "succeeded"
      [] op = "boot" -> status = "succeeded" /\ ~force
      [] op = "run_tests" -> status \in {"succeeded", "failed"} /\ ~force
      [] op = "collect" -> status = "succeeded" /\ ~force /\ covered

\* A boot or a collection also replaces the success it found under its lock.
Replace(c) ==
    \/ call[c].force
    \/ call[c].op \in {"boot", "collect"} /\ call[c].seen.status = "succeeded"

LastAttempt(r) == IF attempts[r] = <<>> THEN 1 ELSE attempts[r][Len(attempts[r])].attempt

\* A published snapshot may be published again; a regression raises.
CanPublish(r, g) == g >= published[r]

-----------------------------------------------------------------------------
(* A call                                                                   *)

At(c, pc) == call[c].pc = pc

Goto(c, pc) == call' = [call EXCEPT ![c].pc = pc]

\* The call returns or raises, out of the with blocks of its locks.
End(c) ==
    /\ call' = [call EXCEPT ![c] = IdleCall]
    /\ locks' = Unlocked(c)

Called(pc, r, op, force, attempt) ==
    [pc |-> pc, run |-> r, op |-> op, force |-> force, seen |-> NoResult, id |-> 0,
     attempt |-> attempt, result |-> NoResult, copy |-> NoCopy]

\* The handler looks at the manifest, without a lock, and goes on.  A build that
\* is recorded as running is only reported, under its lock.
Start(c, r, op, force, covered) ==
    /\ At(c, "idle")
    /\ <<r, op>> \in Calls
    /\ op = "build" => ~force
    /\ Prerequisite(r, op)
    /\ ~Answered(op, steps[r][op].status, force, covered)
    /\ call' = [call EXCEPT ![c] =
          Called(IF op = "build" /\ steps[r][op].status = "running" THEN "peek" ELSE "lock",
                 r, op, force, 0)]
    /\ UNCHANGED <<steps, attempts, locks, published, execs>>

\* _short_circuit_boot_success, without a lock: the attempt that was last when
\* the manifest was read is published again.
CachedBoot(c, r) ==
    /\ At(c, "idle")
    /\ <<r, "boot">> \in Calls
    /\ Answered("boot", steps[r]["boot"].status, FALSE, TRUE)
    /\ call' = [call EXCEPT ![c] = Called("publish", r, "boot", FALSE, LastAttempt(r))]
    /\ UNCHANGED <<steps, attempts, locks, published, execs>>

\* The lock of the step; a call that finds it locked, or cannot make the file,
\* gives up.
LockStep(c) ==
    /\ call[c].pc \in {"lock", "peek"}
    /\ \/ /\ CanLock(OpLock(c))
          /\ locks' = [locks EXCEPT ![OpLock(c)] = c]
          /\ Goto(c, IF At(c, "peek") THEN "answer" ELSE "check")
       \/ End(c)
    /\ UNCHANGED <<steps, attempts, published, execs>>

\* The manifest is read again under the lock.  A result that answers the call, a
\* build recorded as running and a manifest that cannot be read end it.
Check(c) ==
    /\ At(c, "check")
    /\ LET status == Recorded(c).status
           op == call[c].op
           done == \E covered \in BOOLEAN : Answered(op, status, call[c].force, covered)
           open == \E covered \in BOOLEAN : ~Answered(op, status, call[c].force, covered)
           next == CASE op = "build" -> "run"
                     [] op = "boot" -> "target"
                     [] op = "run_tests" -> IF status = "running" THEN "stale" ELSE "plan"
                     [] op = "collect" -> "bundle"
       IN \/ End(c)
          \/ /\ done /\ op = "boot"
             /\ call' = [call EXCEPT ![c].pc = "publish", ![c].attempt = LastAttempt(call[c].run)]
             /\ UNCHANGED locks
          \/ /\ open /\ ~(op = "build" /\ status = "running")
             /\ call' = [call EXCEPT ![c].pc = next, ![c].seen = Recorded(c),
                                     ![c].attempt = Len(attempts[call[c].run]) + 1]
             /\ UNCHANGED locks
    /\ UNCHANGED <<steps, attempts, published, execs>>

\* A boot also locks the domain before it touches the manifest.
LockTarget(c) ==
    /\ At(c, "target")
    /\ \/ /\ CanLock(TargetLock)
          /\ locks' = [locks EXCEPT ![TargetLock] = c]
          /\ Goto(c, IF call[c].seen.status = "running" THEN "stale" ELSE "plan")
       \/ End(c)
    /\ UNCHANGED <<steps, attempts, published, execs>>

\* plan_boot or plan_tests, and the admission of the tests, may refuse; a boot
\* whose plan is refused by its provider is recorded as FAILED.
Plan(c) ==
    /\ At(c, "plan")
    /\ \/ Goto(c, "run") /\ UNCHANGED locks
       \/ call[c].op = "boot" /\ Goto(c, "unplanned") /\ UNCHANGED locks
       \/ End(c)
    /\ UNCHANGED <<steps, attempts, published, execs>>

\* The provider runs and returns, or raises.
Execute(c) ==
    /\ At(c, "exec")
    /\ \E status \in {"succeeded", "failed"} :
         call' = [call EXCEPT ![c].pc = "record",
                              ![c].result = [status |-> status, id |-> call[c].id]]
    /\ UNCHANGED <<steps, attempts, locks, published, execs>>

\* _bundle_for_manifest: a required artifact that is missing fails the
\* collection; a bundle that cannot be written ends the call.
Bundle(c) ==
    /\ At(c, "bundle")
    /\ \/ /\ \E status \in {"succeeded", "failed"} :
               call' = [call EXCEPT ![c].pc = "record", ![c].result = [status |-> status, id |-> 0]]
          /\ UNCHANGED locks
       \/ End(c)
    /\ UNCHANGED <<steps, attempts, published, execs>>

-----------------------------------------------------------------------------
(* Manifest updates                                                         *)

\* What is written where, and where the call goes on.
Writes(c) ==
    CASE At(c, "stale") ->
           [result |-> [call[c].seen EXCEPT !.status = "failed"], replace |-> FALSE, next |-> "plan"]
      [] At(c, "unplanned") ->
           [result |-> [status |-> "failed", id |-> 0], replace |-> Replace(c), next |-> "answer"]
      [] At(c, "run") ->
           [result |-> [status |-> "running", id |-> execs + 1], replace |-> Replace(c), next |-> "exec"]
      [] At(c, "record") ->
           [result |-> call[c].result, replace |-> call[c].op = "boot" \/ Replace(c),
            next |-> IF call[c].op = "boot" /\ call[c].result.status = "succeeded"
                     THEN "publish" ELSE "answer"]

WritePoints == {"stale", "unplanned", "run", "record"}

\* Mutant of WithStepResult: a succeeded result is kept whatever the caller asked.
WithStepResultKept(old, new, replace) == IF old.status = "succeeded" THEN old ELSE new

\* with_step_result: a succeeded result stays unless the caller replaces it.
WithStepResult(old, new, replace) ==
    IF old.status = "succeeded" /\ ~replace THEN old ELSE new

\* Mutant of LoadManifest: the manifest lock is not taken.
LoadManifestUnlocked(c) ==
    /\ call[c].pc \in WritePoints /\ call[c].copy = NoCopy
    /\ call' = [call EXCEPT ![c].copy = [steps |-> steps[call[c].run],
                                         attempts |-> attempts[call[c].run]]]
    /\ UNCHANGED <<steps, attempts, locks, published, execs>>

\* record_step_result or record_boot_attempt takes the manifest lock and reads.
LoadManifest(c) ==
    /\ call[c].pc \in WritePoints /\ call[c].copy = NoCopy
    /\ CanLock(ManifestLock(c))
    /\ locks' = [locks EXCEPT ![ManifestLock(c)] = c]
    /\ call' = [call EXCEPT ![c].copy = [steps |-> steps[call[c].run],
                                         attempts |-> attempts[call[c].run]]]
    /\ UNCHANGED <<steps, attempts, published, execs>>

Attempted(c) == [attempt |-> call[c].attempt, status |-> call[c].result.status]

\* Mutant of AttemptsAfter: only the first attempt is kept.
AttemptsFirst(c) ==
    IF At(c, "record") /\ call[c].op = "boot" /\ call[c].copy.attempts = <<>>
    THEN <<Attempted(c)>>
    ELSE call[c].copy.attempts

\* Mutant of AttemptsAfter: the attempt that is recorded is the previous one.
AttemptsPrevious(c) ==
    IF At(c, "record") /\ call[c].op = "boot"
    THEN Append(call[c].copy.attempts, [Attempted(c) EXCEPT !.attempt = @ - 1])
    ELSE call[c].copy.attempts

\* record_boot_attempt also appends the attempt.
AttemptsAfter(c) ==
    IF At(c, "record") /\ call[c].op = "boot"
    THEN Append(call[c].copy.attempts, Attempted(c))
    ELSE call[c].copy.attempts

\* The manifest is written back and its lock released.  After its last write a
\* call keeps what it answers.
WriteManifest(c) ==
    /\ call[c].pc \in WritePoints /\ call[c].copy # NoCopy
    /\ At(c, "run") => execs < MaxExecs
    /\ LET w == Writes(c)
           op == call[c].op
       IN /\ steps' = [steps EXCEPT ![call[c].run] =
                          [call[c].copy.steps EXCEPT ![op] = WithStepResult(@, w.result, w.replace)]]
          /\ attempts' = [attempts EXCEPT ![call[c].run] = AttemptsAfter(c)]
          /\ execs' = IF At(c, "run") THEN execs + 1 ELSE execs
          /\ call' = [call EXCEPT ![c].pc = w.next, ![c].copy = NoCopy,
                                  ![c].id = IF At(c, "run") THEN execs + 1 ELSE @,
                                  ![c].seen = IF w.next = "plan" THEN @ ELSE NoResult]
          /\ locks' = [locks EXCEPT ![ManifestLock(c)] = IF @ = c THEN Free ELSE @]
    /\ UNCHANGED published

\* The manifest is locked, for good or for longer than the call retries, or
\* cannot be read or written: the error ends the call.
WriteRaises(c) ==
    /\ call[c].pc \in WritePoints
    /\ End(c)
    /\ UNCHANGED <<steps, attempts, published, execs>>

-----------------------------------------------------------------------------
(* The end of a call                                                        *)

\* Mutant of Publish: the snapshot gets the generation after the attempt.
PublishNext(c) ==
    /\ At(c, "publish")
    /\ Goto(c, "answer")
    /\ published' = [published EXCEPT ![call[c].run] = call[c].attempt + 1]
    /\ UNCHANGED <<steps, attempts, locks, execs>>

\* _publish_boot_ready_snapshot: the attempt is the generation; a later one that
\* was published meanwhile makes it raise.
Publish(c) ==
    /\ At(c, "publish")
    /\ \/ /\ CanPublish(call[c].run, call[c].attempt)
          /\ published' = [published EXCEPT ![call[c].run] = call[c].attempt]
          /\ Goto(c, "answer") /\ UNCHANGED locks
       \/ ~CanPublish(call[c].run, call[c].attempt) /\ End(c) /\ UNCHANGED published
    /\ UNCHANGED <<steps, attempts, execs>>

Answer(c) ==
    /\ At(c, "answer")
    /\ End(c)
    /\ UNCHANGED <<steps, attempts, published, execs>>

CallStep(c) ==
    \/ LockStep(c) \/ Check(c) \/ LockTarget(c) \/ Plan(c) \/ Execute(c) \/ Bundle(c)
    \/ LoadManifest(c) \/ WriteManifest(c) \/ WriteRaises(c)
    \/ Publish(c) \/ Answer(c)

\* The server dies: its calls are gone, the manifest and the lock files stay.
Crash ==
    /\ Crashes
    /\ call' = [c \in Callers |-> IdleCall]
    /\ locks' = [l \in LockNames |-> IF locks[l] = Free THEN Free ELSE Orphan]
    /\ published' = [r \in Runs |-> 0]
    /\ UNCHANGED <<steps, attempts, execs>>

Next ==
    \/ \E c \in Callers :
         \/ \E r \in Runs, op \in Ops, force, covered \in BOOLEAN : Start(c, r, op, force, covered)
         \/ \E r \in Runs : CachedBoot(c, r)
         \/ CallStep(c)
    \/ Crash

Spec == Init /\ [][Next]_vars

-----------------------------------------------------------------------------
(* Properties                                                               *)

Points == {"lock", "peek", "check", "target", "plan", "exec", "bundle", "publish", "answer"}
          \cup WritePoints

Attempts == [attempt : 1..MaxExecs, status : {"succeeded", "failed"}]

CallRecords == [pc : Points, run : Runs, op : Ops, force : BOOLEAN, seen : Results,
                id : 0..MaxExecs, attempt : 0..(MaxExecs + 1), result : Results,
                copy : {NoCopy} \cup [steps : [Ops -> Results], attempts : Seq(Attempts)]]

\* The types of the manifests, the lock files and the calls.
RunTypeOK ==
    /\ steps \in [Runs -> [Ops -> Results]]
    /\ attempts \in [Runs -> Seq(Attempts)]
    /\ locks \in [LockNames -> Callers \cup {Free, Orphan}]
    /\ \A c \in Callers : call[c] = IdleCall \/ call[c] \in CallRecords
    /\ published \in [Runs -> 0..MaxExecs]
    /\ execs \in 0..MaxExecs

\* While a provider works for a step of a run, the manifest says so and names
\* that execution, and no other call works for the step: nobody takes a result
\* for stale whose provider is still at it.
ExecutingIsRecorded ==
    \A c, d \in Callers :
        At(c, "exec") =>
          /\ Recorded(c) = [status |-> "running", id |-> call[c].id]
          /\ At(d, "exec") /\ OpLock(c) = OpLock(d) => c = d

\* The runs share the domain: no two boots, of whatever runs, work on it at
\* once, and none is planned or declared stale while another works on it.
DomainExclusive ==
    \A c, d \in Callers :
        /\ call[c].pc \in {"exec", "record"} /\ call[c].op = "boot"
        /\ call[d].pc \in {"stale", "plan", "run", "exec"} /\ call[d].op = "boot"
        => c = d

\* A step that succeeded is taken back only by a call that asked for it to be
\* done again, or by a new collection.
SuccessKept ==
    [][\A r \in Runs, op \in Ops :
         steps[r][op].status = "succeeded" /\ steps'[r][op] # steps[r][op] =>
            \E c \in Callers : /\ call[c].pc \in WritePoints
                               /\ call[c].run = r /\ call[c].op = op
                               /\ call[c].force \/ op = "collect"]_vars

\* What a call that ran its provider answers is what the manifest says of that
\* execution when it answers, whatever other calls did meanwhile.
AnswerIsRecorded ==
    \A c \in Callers :
        call[c].pc = "answer" /\ call[c].result # NoResult => Recorded(c) = call[c].result

\* A boot that is recorded as succeeded is the last attempt of its run, so the
\* generation a repeated call publishes is that of the kernel that booted.
SucceededIsLastAttempt ==
    \A r \in Runs : steps[r]["boot"].status = "succeeded" =>
        attempts[r] # <<>> /\ attempts[r][Len(attempts[r])].status = "succeeded"

\* A generation is published only for a boot attempt of that number that is
\* recorded and succeeded, no number is given twice, and a boot in progress
\* never reuses a published generation.
PublishedIsRecorded ==
    \A r \in Runs :
        /\ published[r] # 0 =>
             \E i \in DOMAIN attempts[r] :
                attempts[r][i] = [attempt |-> published[r], status |-> "succeeded"]
        /\ \A i, j \in DOMAIN attempts[r] :
             i < j => attempts[r][i].attempt < attempts[r][j].attempt
        /\ \A c \in Callers :
             call[c].pc \in {"run", "exec", "record"} /\ call[c].op = "boot" /\ call[c].run = r
                => call[c].attempt > published[r]

\* What the boot plan says of the stale-running rule: a boot whose process died
\* can be retried, so its lock does not outlive the process.
CrashedBootRetryable ==
    \A r \in Runs :
        steps[r]["boot"].status = "running" /\ (\A c \in Callers : call[c].pc = "idle")
          => CanLock(<<"boot", r>>)

=============================================================================
