------------------------- MODULE RunManifestProofs -------------------------
(***************************************************************************)
(* The run manifest says what happened, for every number of runs, of       *)
(* concurrent calls and of provider executions, and over crashes.          *)
(*                                                                         *)
(* The argument: a call past the lock of its step holds it, so what the    *)
(* manifest says of the step is what this call wrote or read under that    *)
(* lock; a call that has loaded the manifest holds the manifest lock, so   *)
(* what it has loaded is still what is recorded; and attempts are only     *)
(* appended, under the lock of the boot, so an attempt's number is its     *)
(* place.                                                                  *)
(***************************************************************************)
EXTENDS RunSteps, SequenceTheorems, TLAPS

\* Where a call works on its step, under the lock of the step.
StepLocked == {"check", "target", "plan", "exec", "bundle"} \cup WritePoints

\* Where a call has read what is recorded of its step and not yet replaced it.
Pending == {"target", "stale", "plan", "unplanned", "run", "bundle"}

\* Where a boot has the number of its attempt.
Numbered == {"target", "stale", "plan", "unplanned", "run", "exec", "record"}

\* The execution is going on, or its result is not yet recorded.
Executing(x) == x.pc = "exec" \/ (x.pc = "record" /\ x.op # "collect")

Replaces(x) ==
    \/ x.force
    \/ x.op \in {"boot", "collect"} /\ x.seen.status = "succeeded"

\* The number is that of one of these attempts, which succeeded.
Booted(list, n) == n \in 1..Len(list) /\ list[n].status = "succeeded"

\* What call c, that carries x, knows of the manifests S and A, of the lock
\* files L and of the number of executions E.
CallOk(c, x, S, A, L, E) ==
    /\ x.pc \in StepLocked \/ x.result # NoResult => L[<<x.op, x.run>>] = c
    /\ x.copy # NoCopy => /\ L[<<"manifest", x.run>>] = c
                          /\ x.copy.steps = S[x.run]
                          /\ x.copy.attempts = A[x.run]
    /\ x.pc \notin {"record", "publish", "answer"} => x.result = NoResult
    /\ x.pc = "record" => x.result.status \in {"succeeded", "failed"}
    /\ x.pc = "bundle" => x.op = "collect"
    /\ Executing(x) => S[x.run][x.op] = [status |-> "running", id |-> x.id]
    /\ x.pc \in Pending \/ (x.pc = "record" /\ x.op = "collect") =>
          (S[x.run][x.op].status = "succeeded" => Replaces(x))
    /\ x.op = "boot" /\ x.seen.status = "succeeded" => x.force
    /\ x.pc \in {"publish", "answer"} /\ x.result # NoResult => S[x.run][x.op] = x.result
    /\ x.op = "boot" /\ x.pc \in Numbered => x.attempt = Len(A[x.run]) + 1
    /\ x.op = "boot" /\ x.pc \in {"exec", "record"} => x.attempt <= E
    /\ x.pc = "publish" => Booted(A[x.run], x.attempt)

\* The attempts of a run are numbered by their places, none without an
\* execution; the last one is the boot recorded as succeeded; and what is
\* published is one that succeeded.
AttemptsOk ==
    \A r \in Runs :
        /\ Len(attempts[r]) <= execs
        /\ \A i \in 1..Len(attempts[r]) : attempts[r][i].attempt = i
        /\ steps[r]["boot"].status = "succeeded" => Booted(attempts[r], Len(attempts[r]))
        /\ published[r] # 0 => Booted(attempts[r], published[r])

RunInv ==
    /\ RunTypeOK
    /\ call \in [Callers -> {IdleCall} \cup CallRecords]
    /\ AttemptsOk
    /\ \A c \in Callers : call[c] # IdleCall => CallOk(c, call[c], steps, attempts, locks, execs)

-----------------------------------------------------------------------------
(* What a call carries, and what a step leaves alone                        *)

\* The fields of a call in progress.
LEMMA CallTyped ==
    ASSUME NEW x \in CallRecords
    PROVE  /\ x.pc \in Points /\ x.run \in Runs /\ x.op \in Ops /\ x.force \in BOOLEAN
           /\ x.seen \in Results /\ x.id \in 0..MaxExecs
           /\ x.attempt \in 0..(MaxExecs + 1) /\ x.result \in Results
           /\ <<x.op, x.run>> \in LockNames /\ <<"manifest", x.run>> \in LockNames
           /\ <<x.op, x.run>> # <<"manifest", x.run>>
PROOF
  <1>1. x.pc \in Points /\ x.run \in Runs /\ x.op \in Ops /\ x.force \in BOOLEAN
        /\ x.seen \in Results /\ x.id \in 0..MaxExecs
        /\ x.attempt \in 0..(MaxExecs + 1) /\ x.result \in Results
    BY DEF CallRecords
  <1>2. <<x.op, x.run>> \in LockNames /\ <<"manifest", x.run>> \in LockNames
    BY <1>1 DEF LockNames
  <1>3. "manifest" \notin Ops
    BY DEF Ops
  <1> QED BY <1>1, <1>2, <1>3

\* A call that is not idle carries a record that is true of the state.
LEMMA CallInProgress ==
    ASSUME RunInv, NEW c \in Callers, call[c].pc # "idle"
    PROVE  call[c] \in CallRecords /\ CallOk(c, call[c], steps, attempts, locks, execs)
PROOF
  <1>1. IdleCall.pc = "idle"
    BY DEF IdleCall
  <1>2. call[c] # IdleCall
    BY <1>1
  <1> QED BY <1>2 DEF RunInv

\* What the steps of others leave of the state to call d that carries x.
LeftAlone(d, x, S, A, L, E, S1, A1, L1, E1) ==
    /\ \A l \in LockNames : L[l] = d => L1[l] = d
    /\ L[<<x.op, x.run>>] = d => S1[x.run][x.op] = S[x.run][x.op]
    /\ L[<<x.op, x.run>>] = d /\ x.op = "boot" => A1[x.run] = A[x.run]
    /\ L[<<"manifest", x.run>>] = d => S1[x.run] = S[x.run] /\ A1[x.run] = A[x.run]
    /\ \A n : Booted(A[x.run], n) => Booted(A1[x.run], n)
    /\ E <= E1

\* What a call knows stays true over the steps of others: they make and unlink
\* no lock of its, write its step or its manifest only under the lock it holds,
\* and only add attempts.
LEMMA CallKept ==
    ASSUME NEW d, NEW x \in CallRecords,
           NEW S, NEW A, NEW L, NEW E \in Nat, NEW S1, NEW A1, NEW L1, NEW E1 \in Nat,
           CallOk(d, x, S, A, L, E), LeftAlone(d, x, S, A, L, E, S1, A1, L1, E1)
    PROVE  CallOk(d, x, S1, A1, L1, E1)
PROOF
  <1>1. <<x.op, x.run>> \in LockNames /\ <<"manifest", x.run>> \in LockNames
        /\ x.attempt \in Nat
    BY CallTyped, RunStepsAssumption
  <1>2. x.pc \in StepLocked \/ x.result # NoResult =>
           /\ L[<<x.op, x.run>>] = d /\ L1[<<x.op, x.run>>] = d
           /\ S1[x.run][x.op] = S[x.run][x.op]
           /\ x.op = "boot" => A1[x.run] = A[x.run]
    BY <1>1 DEF CallOk, LeftAlone
  <1>3. x.copy # NoCopy => /\ L1[<<"manifest", x.run>>] = d
                           /\ x.copy.steps = S1[x.run]
                           /\ x.copy.attempts = A1[x.run]
    BY <1>1 DEF CallOk, LeftAlone
  <1>4. Executing(x) => S1[x.run][x.op] = [status |-> "running", id |-> x.id]
    BY <1>2 DEF CallOk, Executing, StepLocked, WritePoints
  <1>5. x.pc \in Pending \/ (x.pc = "record" /\ x.op = "collect") =>
          (S1[x.run][x.op].status = "succeeded" => Replaces(x))
    BY <1>2 DEF CallOk, Pending, StepLocked, WritePoints
  <1>6. x.op = "boot" /\ x.pc \in Numbered => x.attempt = Len(A1[x.run]) + 1
    BY <1>2 DEF CallOk, Numbered, StepLocked, WritePoints
  <1>7. x.op = "boot" /\ x.pc \in {"exec", "record"} => x.attempt <= E1
    BY <1>1 DEF CallOk, LeftAlone
  <1>8. x.pc = "publish" => Booted(A1[x.run], x.attempt)
    BY DEF CallOk, LeftAlone
  <1> QED BY <1>2, <1>3, <1>4, <1>5, <1>6, <1>7, <1>8 DEF CallOk

\* The same for steps of others that only lock and unlink.
LEMMA CallKeptLocks ==
    ASSUME NEW d, NEW x \in CallRecords, NEW S, NEW A, NEW L, NEW E \in Nat, NEW L1,
           CallOk(d, x, S, A, L, E),
           \A l \in LockNames : L[l] = d => L1[l] = d
    PROVE  CallOk(d, x, S, A, L1, E)
PROOF
  <1>1. LeftAlone(d, x, S, A, L, E, S, A, L1, E)
    BY DEF LeftAlone
  <1> QED BY <1>1, CallKept

\* The types of the state that the steps of a call touch.
LEMMA StateTyped ==
    ASSUME RunInv
    PROVE  /\ execs \in Nat /\ execs <= MaxExecs /\ MaxExecs \in Nat
           /\ steps \in [Runs -> [Ops -> Results]]
           /\ attempts \in [Runs -> Seq(Attempts)]
           /\ locks \in [LockNames -> Callers \cup {Free, Orphan}]
PROOF BY RunStepsAssumption DEF RunInv, RunTypeOK

\* A step of one call that writes no manifest and gives up no lock of another
\* keeps the invariant, if what it then carries is true and what it publishes is
\* a boot that succeeded.
LEMMA CallReplacedPublishing ==
    ASSUME RunInv, NEW c \in Callers, NEW rec \in {IdleCall} \cup CallRecords,
           call' = [call EXCEPT ![c] = rec],
           steps' = steps, attempts' = attempts, execs' = execs,
           published' \in [Runs -> 0..MaxExecs],
           \A r \in Runs : published'[r] # 0 => Booted(attempts[r], published'[r]),
           locks' \in [LockNames -> Callers \cup {Free, Orphan}],
           \A d \in Callers, l \in LockNames : d # c /\ locks[l] = d => locks'[l] = d,
           rec # IdleCall => CallOk(c, rec, steps, attempts, locks', execs)
    PROVE  RunInv'
PROOF
  <1>1. call' \in [Callers -> {IdleCall} \cup CallRecords] /\ call'[c] = rec
    BY DEF RunInv
  <1>2. ASSUME NEW d \in Callers, d # c PROVE call'[d] = call[d]
    BY <1>2 DEF RunInv
  <1>3. RunTypeOK'
    BY <1>1 DEF RunInv, RunTypeOK
  <1>4. AttemptsOk'
    BY DEF RunInv, AttemptsOk
  <1>5. ASSUME NEW d \in Callers, d # c, call[d] # IdleCall
        PROVE CallOk(d, call[d], steps, attempts, locks', execs)
    <2>1. call[d] \in CallRecords /\ CallOk(d, call[d], steps, attempts, locks, execs)
      BY <1>5 DEF RunInv
    <2>2. \A l \in LockNames : locks[l] = d => locks'[l] = d
      BY <1>5
    <2> QED BY <2>1, <2>2, StateTyped, CallKeptLocks
  <1> QED BY <1>1, <1>2, <1>3, <1>4, <1>5 DEF RunInv


\* The same for a step that publishes nothing.
LEMMA CallReplaced ==
    ASSUME RunInv, NEW c \in Callers, NEW rec \in {IdleCall} \cup CallRecords,
           call' = [call EXCEPT ![c] = rec],
           steps' = steps, attempts' = attempts, execs' = execs, published' = published,
           locks' \in [LockNames -> Callers \cup {Free, Orphan}],
           \A d \in Callers, l \in LockNames : d # c /\ locks[l] = d => locks'[l] = d,
           rec # IdleCall => CallOk(c, rec, steps, attempts, locks', execs)
    PROVE  RunInv'
PROOF
  <1>1. published' \in [Runs -> 0..MaxExecs]
    BY DEF RunInv, RunTypeOK
  <1>2. \A r \in Runs : published'[r] # 0 => Booted(attempts[r], published'[r])
    BY DEF RunInv, AttemptsOk
  <1> QED BY <1>1, <1>2, CallReplacedPublishing

\* The attempt that is last in the manifest of a run whose boot succeeded is the
\* boot that succeeded, and its number is its place.
LEMMA LastAttemptBooted ==
    ASSUME RunInv, NEW r \in Runs, steps[r]["boot"].status = "succeeded"
    PROVE  /\ LastAttempt(r) \in 0..(MaxExecs + 1)
           /\ Booted(attempts[r], LastAttempt(r))
PROOF
  <1>1. attempts[r] \in Seq(Attempts) /\ Len(attempts[r]) <= execs /\ execs <= MaxExecs
        /\ MaxExecs \in Nat /\ execs \in Nat
    BY StateTyped DEF RunInv, AttemptsOk
  <1>2. Booted(attempts[r], Len(attempts[r]))
        /\ \A i \in 1..Len(attempts[r]) : attempts[r][i].attempt = i
    BY DEF RunInv, AttemptsOk
  <1>3. Len(attempts[r]) \in 1..Len(attempts[r])
    BY <1>2 DEF Booted
  <1>4. attempts[r] # <<>>
    BY <1>3, EmptySeq
  <1>5. LastAttempt(r) = Len(attempts[r])
    BY <1>2, <1>3, <1>4 DEF LastAttempt
  <1> QED BY <1>1, <1>2, <1>3, <1>5

-----------------------------------------------------------------------------
(* The steps that write no manifest                                         *)

\* Initially nothing is recorded of a boot and no call is in progress.
LEMMA RunInit == Init => RunInv
PROOF
  <1> SUFFICES ASSUME Init PROVE RunInv
    OBVIOUS
  <1>1. /\ steps \in [Runs -> [Ops -> Results]]
        /\ \A r \in Runs : steps[r]["boot"].status = "none"
    BY RunStepsAssumption DEF Init, Results, Statuses, NoResult, Ops
  <1>2. \A r \in Runs : attempts[r] = <<>> /\ published[r] = 0
    BY DEF Init
  <1>3. attempts \in [Runs -> Seq(Attempts)]
    BY EmptySeq DEF Init
  <1>4. \A r \in Runs : Len(attempts[r]) = 0
    BY <1>2, EmptySeq
  <1>5. RunTypeOK
    BY <1>1, <1>3, RunStepsAssumption DEF Init, RunTypeOK
  <1>6. AttemptsOk
    BY <1>1, <1>2, <1>4, RunStepsAssumption DEF Init, AttemptsOk
  <1> QED BY <1>5, <1>6 DEF RunInv, Init

\* A call that ends gives up its own locks only.
LEMMA RunEnd ==
    ASSUME RunInv, NEW c \in Callers, End(c),
           steps' = steps, attempts' = attempts, execs' = execs, published' = published
    PROVE  RunInv'
PROOF
  <1>1. call' = [call EXCEPT ![c] = IdleCall]
    BY DEF End
  <1>2. locks' \in [LockNames -> Callers \cup {Free, Orphan}]
    BY StateTyped DEF End, Unlocked
  <1>3. \A d \in Callers, l \in LockNames : d # c /\ locks[l] = d => locks'[l] = d
    BY DEF End, Unlocked
  <1> QED BY <1>1, <1>2, <1>3, CallReplaced

\* What a new call carries.
LEMMA CalledTyped ==
    ASSUME NEW pc \in Points, NEW r \in Runs, NEW op \in Ops, NEW force \in BOOLEAN,
           NEW n \in 0..(MaxExecs + 1)
    PROVE  Called(pc, r, op, force, n) \in CallRecords
PROOF
  <1>1. NoResult \in Results /\ 0 \in 0..MaxExecs
    BY RunStepsAssumption DEF NoResult, Results, Statuses
  <1> QED BY <1>1 DEF Called, CallRecords

\* A call starts from what it reads, but relies on nothing of it.
LEMMA RunStart ==
    ASSUME RunInv, NEW c \in Callers, NEW r \in Runs, NEW op \in Ops,
           NEW force \in BOOLEAN, NEW covered \in BOOLEAN, Start(c, r, op, force, covered)
    PROVE  RunInv'
PROOF
  <1> DEFINE pc == IF op = "build" /\ steps[r][op].status = "running" THEN "peek" ELSE "lock"
             rec == Called(pc, r, op, force, 0)
  <1>1. call' = [call EXCEPT ![c] = rec] /\ UNCHANGED <<steps, attempts, locks, published, execs>>
    BY DEF Start
  <1>2. pc \in {"peek", "lock"} /\ pc \in Points
    BY DEF Points
  <1> HIDE DEF pc
  <1>3. rec \in CallRecords
    BY <1>2, RunStepsAssumption, CalledTyped
  <1>4. /\ rec.pc = pc /\ rec.result = NoResult /\ rec.copy = NoCopy /\ rec.seen = NoResult
    BY DEF Called
  <1> HIDE DEF rec
  <1>5. CallOk(c, rec, steps, attempts, locks, execs)
    BY <1>2, <1>4
       DEF CallOk, StepLocked, WritePoints, Pending, Numbered, Executing, NoResult
  <1> QED BY <1>1, <1>3, <1>5, StateTyped, CallReplaced

\* The boot that a repeated call publishes again succeeded.
LEMMA RunCachedBoot ==
    ASSUME RunInv, NEW c \in Callers, NEW r \in Runs, CachedBoot(c, r)
    PROVE  RunInv'
PROOF
  <1> DEFINE rec == Called("publish", r, "boot", FALSE, LastAttempt(r))
  <1>1. call' = [call EXCEPT ![c] = rec] /\ UNCHANGED <<steps, attempts, locks, published, execs>>
    BY DEF CachedBoot
  <1>2. steps[r]["boot"].status = "succeeded"
    BY DEF CachedBoot, Answered
  <1>3. rec \in CallRecords
    BY <1>2, LastAttemptBooted, CalledTyped DEF Points, Ops
  <1>4. /\ rec.pc = "publish" /\ rec.result = NoResult /\ rec.copy = NoCopy /\ rec.seen = NoResult
        /\ rec.run = r /\ rec.attempt = LastAttempt(r)
    BY DEF Called
  <1> HIDE DEF rec
  <1>5. CallOk(c, rec, steps, attempts, locks, execs)
    BY <1>2, <1>4, LastAttemptBooted
       DEF CallOk, StepLocked, WritePoints, Pending, Numbered, Executing, NoResult
  <1> QED BY <1>1, <1>3, <1>5, StateTyped, CallReplaced

\* A call that moves on without reading carries what it carried.
LEMMA GotoTyped ==
    ASSUME NEW x \in CallRecords, NEW pc \in Points
    PROVE  /\ [x EXCEPT !.pc = pc] \in CallRecords
           /\ [x EXCEPT !.pc = pc].pc = pc
           /\ [x EXCEPT !.pc = pc].run = x.run
           /\ [x EXCEPT !.pc = pc].op = x.op
           /\ [x EXCEPT !.pc = pc].force = x.force
           /\ [x EXCEPT !.pc = pc].seen = x.seen
           /\ [x EXCEPT !.pc = pc].id = x.id
           /\ [x EXCEPT !.pc = pc].attempt = x.attempt
           /\ [x EXCEPT !.pc = pc].result = x.result
           /\ [x EXCEPT !.pc = pc].copy = x.copy
PROOF BY DEF CallRecords

\* The lock of the step was free or the call gives up.
LEMMA RunLockStep ==
    ASSUME RunInv, NEW c \in Callers, LockStep(c)
    PROVE  RunInv'
PROOF
  <1> DEFINE x == call[c]
  <1>0. x \in CallRecords /\ CallOk(c, x, steps, attempts, locks, execs) /\ x.pc \in {"lock", "peek"}
    BY CallInProgress DEF LockStep
  <1>1. CASE End(c)
    BY <1>1, RunEnd DEF LockStep
  <1>2. CASE /\ CanLock(OpLock(c))
             /\ locks' = [locks EXCEPT ![OpLock(c)] = c]
             /\ Goto(c, IF At(c, "peek") THEN "answer" ELSE "check")
    <2> DEFINE pc == IF At(c, "peek") THEN "answer" ELSE "check"
               l == <<x.op, x.run>>
               rec == [x EXCEPT !.pc = pc]
    <2>1. call' = [call EXCEPT ![c] = rec] /\ locks[l] = Free /\ locks' = [locks EXCEPT ![l] = c]
      BY <1>2 DEF Goto, CanLock, OpLock
    <2>2. pc \in {"answer", "check"} /\ pc \in Points
      BY DEF Points
    <2>3. l \in LockNames
      BY <1>0, CallTyped
    <2>4. l # <<"manifest", x.run>>
      BY <1>0, CallTyped
    <2> HIDE DEF pc
    <2>5. /\ rec \in CallRecords /\ rec.pc = pc /\ rec.run = x.run /\ rec.op = x.op
          /\ rec.seen = x.seen /\ rec.force = x.force /\ rec.result = x.result /\ rec.copy = x.copy
      BY <1>0, <2>2, GotoTyped
    <2> HIDE DEF rec, x
    <2>6. /\ locks' \in [LockNames -> Callers \cup {Free, Orphan}]
          /\ locks'[l] = c /\ \A k \in LockNames : k # l => locks'[k] = locks[k]
      BY <2>1, <2>3, StateTyped
    <2>7. \A d \in Callers, k \in LockNames : d # c /\ locks[k] = d => locks'[k] = d
      BY <2>1, <2>6, RunStepsAssumption
    <2>8. <<"manifest", x.run>> \in LockNames /\ x.result = NoResult
      BY <1>0, CallTyped DEF CallOk
    <2>9. CallOk(c, rec, steps, attempts, locks', execs)
      BY <1>0, <2>2, <2>4, <2>5, <2>6, <2>8
         DEF CallOk, StepLocked, WritePoints, Pending, Numbered, Executing
    <2> QED BY <2>1, <2>5, <2>6, <2>7, <2>9, CallReplaced DEF LockStep
  <1> QED BY <1>1, <1>2 DEF LockStep


\* Under its lock a call sees what is recorded of its step, and goes on only if
\* that does not answer it; a boot takes the next number.
LEMMA RunCheck ==
    ASSUME RunInv, NEW c \in Callers, Check(c)
    PROVE  RunInv'
PROOF
  <1> DEFINE x == call[c]
             status == steps[x.run][x.op].status
             done == \E covered \in BOOLEAN : Answered(x.op, status, x.force, covered)
             open == \E covered \in BOOLEAN : ~Answered(x.op, status, x.force, covered)
             next == CASE x.op = "build" -> "run"
                       [] x.op = "boot" -> "target"
                       [] x.op = "run_tests" -> IF status = "running" THEN "stale" ELSE "plan"
                       [] x.op = "collect" -> "bundle"
  <1>0. x \in CallRecords /\ CallOk(c, x, steps, attempts, locks, execs) /\ x.pc = "check"
    BY CallInProgress DEF Check, At
  <1>a. /\ x.run \in Runs /\ x.op \in Ops /\ x.force \in BOOLEAN /\ x.result = NoResult
        /\ steps[x.run][x.op] \in Results
        /\ Len(attempts[x.run]) \in Nat /\ Len(attempts[x.run]) <= execs
    BY <1>0, CallTyped, StateTyped, LenProperties DEF CallOk, RunInv, AttemptsOk
  <1>b. locks[<<x.op, x.run>>] = c
    BY <1>0 DEF CallOk, StepLocked
  <1>1. CASE End(c)
    BY <1>1, RunEnd DEF Check
  <1>2. ASSUME done, x.op = "boot", locks' = locks,
               call' = [call EXCEPT ![c].pc = "publish", ![c].attempt = LastAttempt(x.run)]
        PROVE  RunInv'
    <2> DEFINE rec == [x EXCEPT !.pc = "publish", !.attempt = LastAttempt(x.run)]
    <2>1. call' = [call EXCEPT ![c] = rec]
      BY <1>2
    <2>2. steps[x.run]["boot"].status = "succeeded"
      BY <1>2 DEF Answered
    <2>3. LastAttempt(x.run) \in 0..(MaxExecs + 1) /\ Booted(attempts[x.run], LastAttempt(x.run))
      BY <1>a, <2>2, LastAttemptBooted
    <2>4. /\ rec \in CallRecords /\ rec.pc = "publish" /\ rec.run = x.run /\ rec.op = x.op
          /\ rec.seen = x.seen /\ rec.force = x.force /\ rec.result = x.result
          /\ rec.copy = x.copy /\ rec.attempt = LastAttempt(x.run)
      BY <1>0, <2>3 DEF CallRecords, Points
    <2> HIDE DEF rec, x
    <2>5. CallOk(c, rec, steps, attempts, locks, execs)
      BY <1>0, <1>a, <2>3, <2>4
         DEF CallOk, StepLocked, WritePoints, Pending, Numbered, Executing
    <2> QED BY <1>2, <2>1, <2>4, <2>5, StateTyped, CallReplaced DEF Check
  <1>3. ASSUME open, locks' = locks,
               call' = [call EXCEPT ![c].pc = next, ![c].seen = Recorded(c),
                                    ![c].attempt = Len(attempts[x.run]) + 1]
        PROVE  RunInv'
    <2> DEFINE rec == [x EXCEPT !.pc = next, !.seen = steps[x.run][x.op],
                                !.attempt = Len(attempts[x.run]) + 1]
    <2>2. /\ next \in {"run", "target", "stale", "plan", "bundle"}
          /\ x.op = "boot" <=> next = "target"
          /\ x.op = "collect" <=> next = "bundle"
      BY <1>a DEF Ops
    <2>3. x.op \in {"build", "run_tests"} => (status = "succeeded" => x.force)
      BY <1>3 DEF Answered
    <2>4. x.op = "boot" /\ status = "succeeded" => x.force
      BY <1>3 DEF Answered
    <2> HIDE DEF next
    <2>1. call' = [call EXCEPT ![c] = rec]
      BY <1>3 DEF Recorded
    <2>5. next \in Points /\ Len(attempts[x.run]) + 1 \in 0..(MaxExecs + 1)
      BY <1>a, <2>2, StateTyped DEF Points, WritePoints
    <2>6. /\ rec \in CallRecords /\ rec.pc = next /\ rec.run = x.run /\ rec.op = x.op
          /\ rec.seen = steps[x.run][x.op] /\ rec.force = x.force /\ rec.result = x.result
          /\ rec.copy = x.copy /\ rec.attempt = Len(attempts[x.run]) + 1
      BY <1>0, <1>a, <2>5 DEF CallRecords
    <2>7. steps[rec.run][rec.op].status = "succeeded" => Replaces(rec)
      BY <1>a, <2>3, <2>6 DEF Replaces, Ops
    <2>8. rec.op = "boot" /\ rec.seen.status = "succeeded" => rec.force
      BY <2>4, <2>6
    <2> HIDE DEF rec, x
    <2>9. CallOk(c, rec, steps, attempts, locks, execs)
      BY <1>0, <1>a, <1>b, <2>2, <2>6, <2>7, <2>8
         DEF CallOk, StepLocked, WritePoints, Pending, Numbered, Executing
    <2> QED BY <1>3, <2>1, <2>6, <2>9, StateTyped, CallReplaced DEF Check
  <1> QED BY <1>1, <1>2, <1>3 DEF Check, Recorded

\* A call that moves on among the points where it knows the same.
LEMMA RunGoto ==
    ASSUME RunInv, NEW c \in Callers, NEW pc \in {"stale", "plan", "unplanned", "run"},
           call[c].pc \in {"target", "plan"}, Goto(c, pc),
           locks' \in [LockNames -> Callers \cup {Free, Orphan}],
           \A d \in Callers, l \in LockNames : locks[l] = d => locks'[l] = d,
           steps' = steps, attempts' = attempts, execs' = execs, published' = published
    PROVE  RunInv'
PROOF
  <1> DEFINE x == call[c]
             rec == [x EXCEPT !.pc = pc]
  <1>0. x \in CallRecords /\ CallOk(c, x, steps, attempts, locks, execs)
    BY CallInProgress
  <1>1. call' = [call EXCEPT ![c] = rec]
    BY DEF Goto
  <1>2. pc \in Points
    BY DEF Points, WritePoints
  <1>3. /\ rec \in CallRecords /\ rec.pc = pc /\ rec.run = x.run /\ rec.op = x.op
        /\ rec.seen = x.seen /\ rec.force = x.force /\ rec.result = x.result
        /\ rec.copy = x.copy /\ rec.attempt = x.attempt
    BY <1>0, <1>2, GotoTyped
  <1>4. call[c].pc = x.pc
    OBVIOUS
  <1> HIDE DEF rec, x
  <1>5. CallOk(c, x, steps, attempts, locks', execs)
    BY <1>0, StateTyped, CallKeptLocks
  <1>6. CallOk(c, rec, steps, attempts, locks', execs)
    BY <1>3, <1>4, <1>5
       DEF CallOk, StepLocked, WritePoints, Pending, Numbered, Executing, Replaces
  <1> QED BY <1>1, <1>3, <1>6, CallReplaced

\* The domain lock was free, so it is taken from nobody.
LEMMA RunLockTarget ==
    ASSUME RunInv, NEW c \in Callers, LockTarget(c)
    PROVE  RunInv'
PROOF
  <1>1. CASE End(c)
    BY <1>1, RunEnd DEF LockTarget
  <1>2. CASE /\ CanLock(TargetLock)
             /\ locks' = [locks EXCEPT ![TargetLock] = c]
             /\ Goto(c, IF call[c].seen.status = "running" THEN "stale" ELSE "plan")
    <2>1. locks' \in [LockNames -> Callers \cup {Free, Orphan}]
      BY <1>2, StateTyped
    <2>2. \A d \in Callers, l \in LockNames : locks[l] = d => locks'[l] = d
      BY <1>2, StateTyped, RunStepsAssumption DEF CanLock
    <2> QED BY <1>2, <2>1, <2>2, RunGoto DEF LockTarget, At
  <1> QED BY <1>1, <1>2 DEF LockTarget

\* A plan changes nothing.
LEMMA RunPlan ==
    ASSUME RunInv, NEW c \in Callers, Plan(c)
    PROVE  RunInv'
PROOF
  <1>1. CASE End(c)
    BY <1>1, RunEnd DEF Plan
  <1>2. CASE Goto(c, "run") /\ UNCHANGED locks
    BY <1>2, StateTyped, RunGoto DEF Plan, At
  <1>3. CASE Goto(c, "unplanned") /\ UNCHANGED locks
    BY <1>3, StateTyped, RunGoto DEF Plan, At
  <1> QED BY <1>1, <1>2, <1>3 DEF Plan

\* The result of a provider, or of a bundle, is not recorded yet.
LEMMA RunExecute ==
    ASSUME RunInv, NEW c \in Callers, Execute(c) \/ Bundle(c)
    PROVE  RunInv'
PROOF
  <1>1. CASE End(c)
    BY <1>1, RunEnd DEF Execute, Bundle
  <1>2. ASSUME NEW status \in {"succeeded", "failed"}, NEW id \in 0..MaxExecs, locks' = locks,
               call' = [call EXCEPT ![c].pc = "record",
                                    ![c].result = [status |-> status, id |-> id]],
               call[c].pc \in {"exec", "bundle"}
        PROVE  RunInv'
    <2> DEFINE x == call[c]
               result == [status |-> status, id |-> id]
               rec == [x EXCEPT !.pc = "record", !.result = result]
    <2>1. call' = [call EXCEPT ![c] = rec]
      BY <1>2
    <2>2. /\ x \in CallRecords /\ CallOk(c, x, steps, attempts, locks, execs)
          /\ x.pc \in {"exec", "bundle"}
      BY <1>2, CallInProgress
    <2>3. result \in Results /\ result.status \in {"succeeded", "failed"}
      BY DEF Results, Statuses
    <2> HIDE DEF result
    <2>4. /\ rec \in CallRecords /\ rec.pc = "record" /\ rec.run = x.run /\ rec.op = x.op
          /\ rec.seen = x.seen /\ rec.force = x.force /\ rec.result = result
          /\ rec.copy = x.copy /\ rec.attempt = x.attempt /\ rec.id = x.id
      BY <2>2, <2>3 DEF CallRecords, Points, WritePoints
    <2> HIDE DEF rec, x
    <2>5. CallOk(c, rec, steps, attempts, locks, execs)
      BY <2>2, <2>3, <2>4
         DEF CallOk, StepLocked, WritePoints, Pending, Numbered, Executing, Replaces
    <2> QED BY <1>2, <2>1, <2>4, <2>5, StateTyped, CallReplaced DEF Execute, Bundle
  <1>3. CASE Execute(c)
    <2>1. call[c].id \in 0..MaxExecs /\ call[c].pc = "exec"
      BY <1>3, CallInProgress, CallTyped DEF Execute, At
    <2> QED BY <1>2, <1>3, <2>1 DEF Execute
  <1>4. CASE Bundle(c)
    BY <1>1, <1>2, <1>4, RunStepsAssumption DEF Bundle, At
  <1> QED BY <1>3, <1>4

\* What a call loads under the manifest lock is what is recorded.
LEMMA RunLoadManifest ==
    ASSUME RunInv, NEW c \in Callers, LoadManifest(c)
    PROVE  RunInv'
PROOF
  <1> DEFINE x == call[c]
             l == <<"manifest", x.run>>
             copy == [steps |-> steps[x.run], attempts |-> attempts[x.run]]
             rec == [x EXCEPT !.copy = copy]
  <1>0. x \in CallRecords /\ CallOk(c, x, steps, attempts, locks, execs) /\ x.pc \in WritePoints
    BY CallInProgress DEF LoadManifest, WritePoints
  <1>1. call' = [call EXCEPT ![c] = rec] /\ locks[l] = Free /\ locks' = [locks EXCEPT ![l] = c]
    BY DEF LoadManifest, CanLock, ManifestLock
  <1>2. l \in LockNames /\ <<x.op, x.run>> \in LockNames
    BY <1>0, CallTyped
  <1>3. copy \in [steps : [Ops -> Results], attempts : Seq(Attempts)]
    BY <1>0, CallTyped, StateTyped
  <1>4. copy.steps = steps[x.run] /\ copy.attempts = attempts[x.run]
    OBVIOUS
  <1> HIDE DEF copy
  <1>5. /\ rec \in CallRecords /\ rec.pc = x.pc /\ rec.run = x.run /\ rec.op = x.op
        /\ rec.seen = x.seen /\ rec.force = x.force /\ rec.result = x.result
        /\ rec.copy = copy /\ rec.attempt = x.attempt /\ rec.id = x.id
    BY <1>0, <1>3 DEF CallRecords
  <1> HIDE DEF rec, x
  <1>6. /\ locks' \in [LockNames -> Callers \cup {Free, Orphan}]
        /\ locks'[l] = c
        /\ \A k \in LockNames : locks[k] = c => locks'[k] = c
    BY <1>1, <1>2, StateTyped
  <1>7. \A d \in Callers, k \in LockNames : d # c /\ locks[k] = d => locks'[k] = d
    BY <1>1, <1>2, StateTyped, RunStepsAssumption
  <1>8. CallOk(c, x, steps, attempts, locks', execs)
    BY <1>0, <1>6, StateTyped, CallKeptLocks
  <1>9. CallOk(c, rec, steps, attempts, locks', execs)
    BY <1>4, <1>5, <1>6, <1>8 DEF CallOk, Executing, Replaces
  <1> QED BY <1>1, <1>5, <1>6, <1>7, <1>9, CallReplaced DEF LoadManifest


\* What a boot publishes is the attempt it recorded, or found, as succeeded.
LEMMA RunPublish ==
    ASSUME RunInv, NEW c \in Callers, Publish(c)
    PROVE  RunInv'
PROOF
  <1>1. CASE ~CanPublish(call[c].run, call[c].attempt) /\ End(c) /\ UNCHANGED published
    BY <1>1, RunEnd DEF Publish
  <1>2. CASE /\ published' = [published EXCEPT ![call[c].run] = call[c].attempt]
             /\ Goto(c, "answer") /\ UNCHANGED locks
    <2> DEFINE x == call[c]
               rec == [x EXCEPT !.pc = "answer"]
    <2>1. call' = [call EXCEPT ![c] = rec] /\ published' = [published EXCEPT ![x.run] = x.attempt]
      BY <1>2 DEF Goto
    <2>2. x \in CallRecords /\ CallOk(c, x, steps, attempts, locks, execs) /\ x.pc = "publish"
      BY CallInProgress DEF Publish, At
    <2>3. /\ rec \in CallRecords /\ rec.pc = "answer" /\ rec.run = x.run /\ rec.op = x.op
          /\ rec.seen = x.seen /\ rec.force = x.force /\ rec.result = x.result
          /\ rec.copy = x.copy
      BY <2>2, GotoTyped DEF Points
    <2> HIDE DEF rec, x
    <2>4. CallOk(c, rec, steps, attempts, locks, execs)
      BY <2>2, <2>3 DEF CallOk, StepLocked, WritePoints, Pending, Numbered, Executing
    <2>5. Booted(attempts[x.run], x.attempt) /\ x.run \in Runs
      BY <2>2, CallTyped DEF CallOk
    <2>6. x.attempt \in 0..MaxExecs
      <3>1. attempts[x.run] \in Seq(Attempts) /\ Len(attempts[x.run]) <= execs
        BY <2>5, StateTyped DEF RunInv, AttemptsOk
      <3>2. Len(attempts[x.run]) \in Nat
        BY <3>1, LenProperties
      <3> QED BY <2>5, <3>1, <3>2, StateTyped DEF Booted
    <2>7. /\ published' \in [Runs -> 0..MaxExecs]
          /\ \A r \in Runs : published'[r] # 0 => Booted(attempts[r], published'[r])
      BY <2>1, <2>5, <2>6 DEF RunInv, RunTypeOK, AttemptsOk
    <2> QED BY <1>2, <2>1, <2>3, <2>4, <2>7, StateTyped, CallReplacedPublishing DEF Publish
  <1> QED BY <1>1, <1>2 DEF Publish

\* The server dies with all its calls; the manifests stay.
LEMMA RunCrash ==
    ASSUME RunInv, Crash
    PROVE  RunInv'
PROOF
  <1>1. /\ \A c \in Callers : call'[c] = IdleCall
        /\ call' \in [Callers -> {IdleCall} \cup CallRecords]
    BY DEF Crash
  <1>2. /\ locks' \in [LockNames -> Callers \cup {Free, Orphan}]
        /\ published' \in [Runs -> 0..MaxExecs]
    BY StateTyped DEF Crash
  <1>3. RunTypeOK'
    BY <1>1, <1>2 DEF Crash, RunInv, RunTypeOK
  <1>4. AttemptsOk'
    BY DEF Crash, RunInv, AttemptsOk
  <1> QED BY <1>1, <1>3, <1>4 DEF RunInv

-----------------------------------------------------------------------------
(* The step that writes a manifest                                          *)

\* What the call writes for its step over what is recorded.
NewResult(c) ==
    WithStepResult(steps[call[c].run][call[c].op], Writes(c).result, Writes(c).replace)

\* The boot whose attempt is recorded.
Recording(c) == call[c].pc = "record" /\ call[c].op = "boot"

\* The call writes back what it has loaded, which is what is recorded, with the
\* result of its step.
LEMMA WriteEffect ==
    ASSUME RunInv, NEW c \in Callers, WriteManifest(c)
    PROVE  /\ call[c] \in CallRecords /\ call[c].pc \in WritePoints
           /\ CallOk(c, call[c], steps, attempts, locks, execs)
           /\ locks[<<call[c].op, call[c].run>>] = c /\ locks[<<"manifest", call[c].run>>] = c
           /\ steps' = [steps EXCEPT ![call[c].run] =
                           [steps[call[c].run] EXCEPT ![call[c].op] = NewResult(c)]]
           /\ attempts' = [attempts EXCEPT ![call[c].run] =
                 IF Recording(c) THEN Append(attempts[call[c].run], Attempted(c))
                                 ELSE attempts[call[c].run]]
           /\ execs' = IF call[c].pc = "run" THEN execs + 1 ELSE execs
           /\ execs' \in Nat /\ execs <= execs' /\ execs' <= MaxExecs
           /\ locks' = [locks EXCEPT ![<<"manifest", call[c].run>>] = Free]
PROOF
  <1>1. call[c] \in CallRecords /\ CallOk(c, call[c], steps, attempts, locks, execs)
        /\ call[c].pc \in WritePoints /\ call[c].copy # NoCopy
    BY CallInProgress DEF WriteManifest, WritePoints
  <1>2. /\ locks[<<call[c].op, call[c].run>>] = c
        /\ locks[<<"manifest", call[c].run>>] = c
        /\ call[c].copy.steps = steps[call[c].run]
        /\ call[c].copy.attempts = attempts[call[c].run]
    BY <1>1 DEF CallOk, StepLocked
  <1>3. /\ call[c].run \in Runs /\ call[c].op \in Ops /\ <<"manifest", call[c].run>> \in LockNames
    BY <1>1, CallTyped
  <1>4. steps[call[c].run] \in [Ops -> Results]
    BY <1>3, StateTyped
  <1>5. [call[c].copy.steps EXCEPT ![call[c].op] =
            WithStepResult(@, Writes(c).result, Writes(c).replace)]
        = [steps[call[c].run] EXCEPT ![call[c].op] = NewResult(c)]
    BY <1>2, <1>3, <1>4 DEF NewResult
  <1>6. AttemptsAfter(c) = IF Recording(c) THEN Append(attempts[call[c].run], Attempted(c))
                                           ELSE attempts[call[c].run]
    BY <1>2 DEF AttemptsAfter, Recording, At
  <1>7. execs' = (IF call[c].pc = "run" THEN execs + 1 ELSE execs)
        /\ (call[c].pc = "run" => execs < MaxExecs)
    BY DEF WriteManifest, At
  <1>8. execs' \in Nat /\ execs <= execs' /\ execs' <= MaxExecs
    BY <1>7, StateTyped
  <1>9. locks' = [locks EXCEPT ![<<"manifest", call[c].run>>] = Free]
    BY <1>2, <1>3, StateTyped DEF WriteManifest, ManifestLock
  <1>10. steps' = [steps EXCEPT ![call[c].run] =
                      [steps[call[c].run] EXCEPT ![call[c].op] = NewResult(c)]]
    BY <1>5 DEF WriteManifest
  <1>11. attempts' = [attempts EXCEPT ![call[c].run] = AttemptsAfter(c)]
    BY DEF WriteManifest
  <1> QED BY <1>1, <1>2, <1>6, <1>7, <1>8, <1>9, <1>10, <1>11

\* What is written is a result and an attempt of the right type.
LEMMA WriteTyped ==
    ASSUME RunInv, NEW c \in Callers, WriteManifest(c)
    PROVE  /\ Writes(c).result \in Results
           /\ NewResult(c) \in Results
           /\ Recording(c) => Attempted(c) \in Attempts
           /\ Recording(c) => call[c].attempt = Len(attempts[call[c].run]) + 1
           /\ Recording(c) => call[c].attempt <= execs
PROOF
  <1> DEFINE x == call[c]
  <1>1. x \in CallRecords /\ CallOk(c, x, steps, attempts, locks, execs) /\ x.pc \in WritePoints
    BY WriteEffect
  <1>2. x.run \in Runs /\ x.op \in Ops /\ x.seen \in Results /\ x.result \in Results
        /\ x.attempt \in 0..(MaxExecs + 1)
    BY <1>1, CallTyped
  <1>3. steps[x.run][x.op] \in Results
    BY <1>2, StateTyped
  <1>4. x.pc = "run" => execs < MaxExecs
    BY DEF WriteManifest, At
  <1>5. Writes(c).result \in Results
    <2>1. CASE x.pc = "stale"
      BY <2>1, <1>2 DEF Writes, At, Results, Statuses
    <2>2. CASE x.pc = "unplanned"
      BY <2>2, StateTyped DEF Writes, At, Results, Statuses
    <2>3. CASE x.pc = "run"
      <3>1. execs + 1 \in 0..MaxExecs
        BY <2>3, <1>4, StateTyped
      <3> QED BY <2>3, <3>1 DEF Writes, At, Results, Statuses
    <2>4. CASE x.pc = "record"
      BY <2>4, <1>2 DEF Writes, At
    <2> QED BY <1>1, <2>1, <2>2, <2>3, <2>4 DEF WritePoints
  <1>6. NewResult(c) \in Results
    BY <1>3, <1>5 DEF NewResult, WithStepResult
  <1>7. ASSUME Recording(c)
        PROVE  /\ Attempted(c) \in Attempts /\ x.attempt = Len(attempts[x.run]) + 1
               /\ x.attempt <= execs
    <2>1. /\ x.result.status \in {"succeeded", "failed"} /\ x.attempt <= execs
          /\ x.attempt = Len(attempts[x.run]) + 1
      BY <1>1, <1>7 DEF Recording, CallOk, Numbered
    <2>2. Len(attempts[x.run]) \in Nat
      BY <1>2, StateTyped, LenProperties
    <2>3. x.attempt \in 1..MaxExecs
      BY <2>1, <2>2, StateTyped
    <2> QED BY <2>1, <2>3 DEF Attempted, Attempts
  <1> QED BY <1>5, <1>6, <1>7


\* Only the manifest of this run is written, and there only the result of the
\* step and, after a boot, one attempt more.
LEMMA WriteSteps ==
    ASSUME RunInv, NEW c \in Callers, WriteManifest(c)
    PROVE  /\ steps' \in [Runs -> [Ops -> Results]]
           /\ attempts' \in [Runs -> Seq(Attempts)]
           /\ steps'[call[c].run][call[c].op] = NewResult(c)
           /\ \A r \in Runs, op \in Ops :
                 <<op, r>> # <<call[c].op, call[c].run>> => steps'[r][op] = steps[r][op]
           /\ \A r \in Runs : r # call[c].run =>
                 steps'[r] = steps[r] /\ attempts'[r] = attempts[r]
           /\ ~Recording(c) => attempts' = attempts
           /\ Recording(c) =>
                 /\ Len(attempts'[call[c].run]) = Len(attempts[call[c].run]) + 1
                 /\ attempts'[call[c].run][Len(attempts[call[c].run]) + 1] = Attempted(c)
                 /\ \A i \in 1..Len(attempts[call[c].run]) :
                       attempts'[call[c].run][i] = attempts[call[c].run][i]
PROOF
  <1> DEFINE x == call[c]
             list == attempts[x.run]
  <1>1. x.run \in Runs /\ x.op \in Ops
    BY WriteEffect, CallTyped
  <1>2. list \in Seq(Attempts) /\ steps[x.run] \in [Ops -> Results]
    BY <1>1, StateTyped
  <1>3. /\ steps' = [steps EXCEPT ![x.run] = [steps[x.run] EXCEPT ![x.op] = NewResult(c)]]
        /\ attempts' = [attempts EXCEPT ![x.run] =
                           IF Recording(c) THEN Append(list, Attempted(c)) ELSE list]
    BY WriteEffect
  <1>4. /\ NewResult(c) \in Results /\ (Recording(c) => Attempted(c) \in Attempts)
    BY WriteTyped
  <1>5. /\ steps' \in [Runs -> [Ops -> Results]]
        /\ steps'[x.run][x.op] = NewResult(c)
        /\ \A r \in Runs, op \in Ops : r # x.run \/ op # x.op => steps'[r][op] = steps[r][op]
        /\ \A r \in Runs : r # x.run => steps'[r] = steps[r]
    BY <1>1, <1>2, <1>3, <1>4, StateTyped
  <1>6. CASE ~Recording(c)
    <2>1. attempts' = attempts
      BY <1>1, <1>3, <1>6, StateTyped
    <2> QED BY <1>5, <1>6, <2>1, StateTyped
  <1>7. CASE Recording(c)
    <2>1. attempts' = [attempts EXCEPT ![x.run] = Append(list, Attempted(c))]
      BY <1>3, <1>7
    <2>2. /\ Append(list, Attempted(c)) \in Seq(Attempts)
          /\ Len(Append(list, Attempted(c))) = Len(list) + 1
          /\ \A i \in 1..Len(list) : Append(list, Attempted(c))[i] = list[i]
          /\ Append(list, Attempted(c))[Len(list) + 1] = Attempted(c)
      BY <1>2, <1>4, <1>7, AppendProperties
    <2>3. /\ attempts' \in [Runs -> Seq(Attempts)]
          /\ attempts'[x.run] = Append(list, Attempted(c))
          /\ \A r \in Runs : r # x.run => attempts'[r] = attempts[r]
      BY <1>1, <2>1, <2>2, StateTyped
    <2> QED BY <1>5, <1>7, <2>2, <2>3
  <1> QED BY <1>6, <1>7

\* Another call knows what it knew: its step and its manifest are not written
\* while it holds their locks.
LEMMA WriteOthers ==
    ASSUME RunInv, NEW c \in Callers, WriteManifest(c),
           NEW d \in Callers, d # c, call[d] # IdleCall
    PROVE  CallOk(d, call[d], steps', attempts', locks', execs')
PROOF
  <1> DEFINE x == call[c]
             y == call[d]
             step == <<y.op, y.run>>
             manifest == <<"manifest", y.run>>
  <1>1. /\ y \in CallRecords /\ CallOk(d, y, steps, attempts, locks, execs)
    BY DEF RunInv
  <1>2. /\ x.run \in Runs /\ x.op \in Ops /\ y.run \in Runs /\ y.op \in Ops
        /\ step \in LockNames /\ manifest \in LockNames
    BY <1>1, WriteEffect, CallTyped
  <1>3. /\ locks[<<x.op, x.run>>] = c /\ locks[<<"manifest", x.run>>] = c
        /\ locks' = [locks EXCEPT ![<<"manifest", x.run>>] = Free]
        /\ execs \in Nat /\ execs' \in Nat /\ execs <= execs'
    BY WriteEffect, StateTyped
  <1>4. \A l \in LockNames : locks[l] = d => locks'[l] = d
    BY <1>3, StateTyped
  <1>5. locks[step] = d => steps'[y.run][y.op] = steps[y.run][y.op]
    <2>1. locks[step] = d => step # <<x.op, x.run>>
      BY <1>3
    <2> QED BY <1>2, <2>1, WriteSteps
  <1>6. locks[step] = d /\ y.op = "boot" => attempts'[y.run] = attempts[y.run]
    <2> SUFFICES ASSUME locks[step] = d, y.op = "boot" PROVE attempts'[y.run] = attempts[y.run]
      OBVIOUS
    <2>1. step # <<x.op, x.run>>
      BY <1>3
    <2>2. Recording(c) => y.run # x.run
      BY <2>1 DEF Recording
    <2> QED BY <1>2, <2>2, WriteSteps
  <1>7. locks[manifest] = d => steps'[y.run] = steps[y.run] /\ attempts'[y.run] = attempts[y.run]
    <2>1. locks[manifest] = d => y.run # x.run
      BY <1>3
    <2> QED BY <1>2, <2>1, WriteSteps
  <1>8. \A n : Booted(attempts[y.run], n) => Booted(attempts'[y.run], n)
    <2>1. CASE y.run = x.run /\ Recording(c)
      <3>1. Len(attempts[y.run]) \in Nat
        BY <1>2, StateTyped, LenProperties
      <3>2. /\ Len(attempts'[y.run]) = Len(attempts[y.run]) + 1
            /\ \A i \in 1..Len(attempts[y.run]) : attempts'[y.run][i] = attempts[y.run][i]
        BY <2>1, WriteSteps
      <3> QED BY <3>1, <3>2 DEF Booted
    <2>2. CASE ~(y.run = x.run /\ Recording(c))
      BY <1>2, <2>2, WriteSteps
    <2> QED BY <2>1, <2>2
  <1> HIDE DEF x, y
  <1>9. y = call[d]
    BY DEF y
  <1>10. CallOk(d, y, steps', attempts', locks', execs')
    <2>1. LeftAlone(d, y, steps, attempts, locks, execs, steps', attempts', locks', execs')
      BY <1>3, <1>4, <1>5, <1>6, <1>7, <1>8 DEF LeftAlone
    <2> QED BY <1>1, <1>3, <2>1, CallKept
  <1> QED BY <1>9, <1>10

\* The attempts stay numbered by their places, and a boot is recorded as
\* succeeded together with its attempt.
LEMMA WriteAttempts ==
    ASSUME RunInv, NEW c \in Callers, WriteManifest(c)
    PROVE  AttemptsOk'
PROOF
  <1> DEFINE x == call[c]
  <1>1. x.run \in Runs /\ x.op \in Ops /\ x.pc \in WritePoints
        /\ CallOk(c, x, steps, attempts, locks, execs)
    BY WriteEffect, CallTyped
  <1>2. /\ execs \in Nat /\ execs' \in Nat /\ execs <= execs' /\ published' = published
    BY WriteEffect, StateTyped DEF WriteManifest
  <1>3. ASSUME NEW r \in Runs, ~(r = x.run /\ Recording(c))
        PROVE  /\ Len(attempts'[r]) <= execs'
               /\ \A i \in 1..Len(attempts'[r]) : attempts'[r][i].attempt = i
               /\ steps'[r]["boot"].status = "succeeded" =>
                     Booted(attempts'[r], Len(attempts'[r]))
               /\ published'[r] # 0 => Booted(attempts'[r], published'[r])
    <2>1. attempts'[r] = attempts[r]
      BY <1>3, WriteSteps
    <2>2. Len(attempts[r]) \in Nat
      BY StateTyped, LenProperties
    <2>3. steps'[r]["boot"].status = "succeeded" => steps[r]["boot"].status = "succeeded"
      <3>1. CASE r = x.run /\ x.op = "boot"
        <4>1. x.pc # "record"
          BY <1>3, <3>1 DEF Recording
        <4>2. Writes(c).result.status \in {"failed", "running"}
          <5>1. x.pc = "stale" => Writes(c).result.status = "failed"
            <6>1. x.seen \in Results
              BY WriteEffect, CallTyped
            <6>2. [x.seen EXCEPT !.status = "failed"].status = "failed"
              BY <6>1 DEF Results
            <6> QED BY <6>2 DEF Writes, At
          <5>2. x.pc = "unplanned" => Writes(c).result.status = "failed"
            BY DEF Writes, At
          <5>3. x.pc = "run" => Writes(c).result.status = "running"
            BY DEF Writes, At
          <5> QED BY <1>1, <4>1, <5>1, <5>2, <5>3 DEF WritePoints
        <4>3. steps'[r]["boot"] = NewResult(c)
          BY <3>1, WriteSteps
        <4> QED BY <3>1, <4>2, <4>3 DEF NewResult, WithStepResult
      <3>2. CASE ~(r = x.run /\ x.op = "boot")
        <4>1. <<"boot", r>> # <<x.op, x.run>> /\ "boot" \in Ops
          BY <3>2 DEF Ops
        <4> QED BY <4>1, WriteSteps
      <3> QED BY <3>1, <3>2
    <2> QED BY <1>2, <2>1, <2>2, <2>3 DEF RunInv, AttemptsOk
  <1>4. ASSUME Recording(c)
        PROVE  /\ Len(attempts'[x.run]) <= execs'
               /\ \A i \in 1..Len(attempts'[x.run]) : attempts'[x.run][i].attempt = i
               /\ steps'[x.run]["boot"].status = "succeeded" =>
                     Booted(attempts'[x.run], Len(attempts'[x.run]))
               /\ published'[x.run] # 0 => Booted(attempts'[x.run], published'[x.run])
    <2> DEFINE n == Len(attempts[x.run])
    <2>1. n \in Nat
      BY <1>1, StateTyped, LenProperties
    <2>2. /\ Len(attempts'[x.run]) = n + 1
          /\ attempts'[x.run][n + 1] = Attempted(c)
          /\ \A i \in 1..n : attempts'[x.run][i] = attempts[x.run][i]
      BY <1>4, WriteSteps
    <2>3. x.attempt = n + 1 /\ x.attempt <= execs
      BY <1>4, WriteTyped
    <2>4. steps'[x.run]["boot"] = x.result
      <3>1. x.op = "boot" /\ x.pc = "record"
        BY <1>4 DEF Recording
      <3>2. Writes(c).result = x.result /\ Writes(c).replace = TRUE
        BY <3>1 DEF Writes, At
      <3> QED BY <3>1, <3>2, WriteSteps DEF NewResult, WithStepResult
    <2>5. Attempted(c).attempt = n + 1 /\ Attempted(c).status = x.result.status
      BY <2>3 DEF Attempted
    <2> HIDE DEF n
    <2>6. n = Len(attempts[x.run])
      BY DEF n
    <2> HIDE DEF x
    <2>7. ASSUME NEW i \in 1..(n + 1) PROVE attempts'[x.run][i].attempt = i
      <3>1. CASE i \in 1..n
        <4>1. attempts[x.run][i].attempt = i
          BY <1>1, <2>6, <3>1 DEF RunInv, AttemptsOk
        <4> QED BY <2>2, <3>1, <4>1
      <3>2. CASE i = n + 1
        BY <2>2, <2>5, <3>2
      <3> QED BY <2>1, <3>1, <3>2
    <2>8. \A k : Booted(attempts[x.run], k) => Booted(attempts'[x.run], k)
      BY <2>1, <2>2, <2>6 DEF Booted
    <2>9. published'[x.run] # 0 => Booted(attempts'[x.run], published'[x.run])
      BY <1>1, <1>2, <2>8 DEF RunInv, AttemptsOk
    <2>10. steps'[x.run]["boot"].status = "succeeded" => Booted(attempts'[x.run], n + 1)
      BY <2>1, <2>2, <2>4, <2>5 DEF Booted
    <2> QED BY <1>2, <2>1, <2>2, <2>3, <2>7, <2>9, <2>10
  <1> QED BY <1>3, <1>4 DEF AttemptsOk


\* The record with which a call goes on after a write.
Written(c) ==
    [call[c] EXCEPT !.pc = Writes(c).next, !.copy = NoCopy,
                    !.id = IF call[c].pc = "run" THEN execs + 1 ELSE call[c].id,
                    !.seen = IF Writes(c).next = "plan" THEN call[c].seen ELSE NoResult]

\* The fields of that record.
LEMMA WrittenTyped ==
    ASSUME RunInv, NEW c \in Callers, WriteManifest(c)
    PROVE  /\ call' = [call EXCEPT ![c] = Written(c)]
           /\ Written(c) \in CallRecords
           /\ Written(c).pc = Writes(c).next
           /\ Written(c).run = call[c].run /\ Written(c).op = call[c].op
           /\ Written(c).force = call[c].force /\ Written(c).result = call[c].result
           /\ Written(c).attempt = call[c].attempt /\ Written(c).copy = NoCopy
           /\ Written(c).id = (IF call[c].pc = "run" THEN execs + 1 ELSE call[c].id)
           /\ Written(c).seen = (IF Writes(c).next = "plan" THEN call[c].seen ELSE NoResult)
           /\ call[c].pc = "stale" => Writes(c).next = "plan"
           /\ call[c].pc = "unplanned" => Writes(c).next = "answer"
           /\ call[c].pc = "run" => Writes(c).next = "exec"
           /\ call[c].pc = "record" =>
                 Writes(c).next = IF call[c].op = "boot" /\ call[c].result.status = "succeeded"
                                  THEN "publish" ELSE "answer"
PROOF
  <1> DEFINE x == call[c]
             next == Writes(c).next
             id == IF x.pc = "run" THEN execs + 1 ELSE x.id
             seen == IF next = "plan" THEN x.seen ELSE NoResult
  <1>1. x \in CallRecords /\ x.pc \in WritePoints
    BY WriteEffect
  <1>2. /\ x.pc = "stale" => next = "plan"
        /\ x.pc = "unplanned" => next = "answer"
        /\ x.pc = "run" => next = "exec"
        /\ x.pc = "record" =>
              next = IF x.op = "boot" /\ x.result.status = "succeeded" THEN "publish" ELSE "answer"
    BY <1>1 DEF Writes, At, WritePoints
  <1>3. next \in {"plan", "answer", "exec", "publish"}
    BY <1>1, <1>2 DEF WritePoints
  <1>4. call' = [call EXCEPT ![c] = Written(c)]
    BY DEF WriteManifest, Written, At
  <1>5. id \in 0..MaxExecs
    <2>1. CASE x.pc = "run"
      <3>1. execs' = execs + 1 /\ execs' \in Nat /\ execs' <= MaxExecs
        BY <2>1, WriteEffect
      <3> QED BY <2>1, <3>1, StateTyped
    <2>2. CASE x.pc # "run"
      BY <1>1, <2>2, CallTyped
    <2> QED BY <2>1, <2>2
  <1>6. seen \in Results
    <2>1. NoResult \in Results
      BY RunStepsAssumption DEF NoResult, Results, Statuses
    <2> QED BY <1>1, <2>1, CallTyped
  <1>7. next \in Points
    BY <1>3 DEF Points
  <1>8. Written(c) = [x EXCEPT !.pc = next, !.copy = NoCopy, !.id = id, !.seen = seen]
    BY DEF Written
  <1> HIDE DEF next, id, seen
  <1>9. LET rec == [x EXCEPT !.pc = next, !.copy = NoCopy, !.id = id, !.seen = seen]
        IN /\ rec \in CallRecords /\ rec.pc = next /\ rec.run = x.run /\ rec.op = x.op
           /\ rec.force = x.force /\ rec.result = x.result /\ rec.attempt = x.attempt
           /\ rec.copy = NoCopy /\ rec.id = id /\ rec.seen = seen
    BY <1>1, <1>5, <1>6, <1>7 DEF CallRecords
  <1> QED BY <1>2, <1>4, <1>8, <1>9 DEF next, id, seen

\* After its write a call knows what it wrote.
LEMMA WriteOwn ==
    ASSUME RunInv, NEW c \in Callers, WriteManifest(c)
    PROVE  CallOk(c, Written(c), steps', attempts', locks', execs')
PROOF
  <1> DEFINE x == call[c]
             old == steps[x.run][x.op]
  <1>1. /\ x \in CallRecords /\ x.pc \in WritePoints
        /\ CallOk(c, x, steps, attempts, locks, execs)
    BY WriteEffect
  <1>2. /\ x.run \in Runs /\ x.op \in Ops /\ <<x.op, x.run>> \in LockNames
        /\ <<x.op, x.run>> # <<"manifest", x.run>>
    BY <1>1, CallTyped
  <1>3. /\ Written(c).pc = Writes(c).next
        /\ Written(c).run = x.run /\ Written(c).op = x.op /\ Written(c).force = x.force /\ Written(c).result = x.result
        /\ Written(c).attempt = x.attempt /\ Written(c).copy = NoCopy
        /\ Written(c).id = (IF x.pc = "run" THEN execs + 1 ELSE x.id)
        /\ Written(c).seen = (IF Writes(c).next = "plan" THEN x.seen ELSE NoResult)
    BY WrittenTyped
  <1>4. locks'[<<x.op, x.run>>] = c
    BY <1>2, WriteEffect, StateTyped
  <1>5. steps'[x.run][x.op] = WithStepResult(old, Writes(c).result, Writes(c).replace)
    BY WriteSteps DEF NewResult
  <1>6. NoResult.status # "succeeded"
    BY DEF NoResult
  <1>7. Replace(c) <=> Replaces(x)
    BY DEF Replace, Replaces
  <1>8. x.pc # "record" => attempts' = attempts /\ x.result = NoResult
    BY <1>1, WriteSteps DEF Recording, CallOk, WritePoints
  <1>9. CASE x.pc = "stale"
    <2>1. Written(c).pc = "plan" /\ Written(c).seen = x.seen
      BY <1>3, <1>9, WrittenTyped
    <2>2. Writes(c).replace = FALSE /\ Writes(c).result.status = "failed"
      <3>1. x.seen \in Results
        BY <1>1, CallTyped
      <3>2. [x.seen EXCEPT !.status = "failed"].status = "failed"
        BY <3>1 DEF Results
      <3> QED BY <1>9, <3>2 DEF Writes, At
    <2>3. steps'[x.run][x.op].status = "succeeded" => Replaces(Written(c))
      BY <1>1, <1>3, <1>5, <1>9, <2>1, <2>2 DEF WithStepResult, CallOk, Pending, Replaces
    <2> HIDE DEF x
    <2> QED BY <1>1, <1>3, <1>4, <1>8, <1>9, <2>1, <2>3
            DEF CallOk, StepLocked, WritePoints, Pending, Numbered, Executing
  <1>10. CASE x.pc = "unplanned"
    <2>1. Written(c).pc = "answer" /\ Written(c).seen = NoResult
      BY <1>3, <1>10, WrittenTyped
    <2> HIDE DEF x
    <2> QED BY <1>3, <1>6, <1>8, <1>10, <2>1
            DEF CallOk, StepLocked, WritePoints, Pending, Numbered, Executing
  <1>11. CASE x.pc = "run"
    <2>1. Written(c).pc = "exec" /\ Written(c).seen = NoResult /\ Written(c).id = execs + 1
      BY <1>3, <1>11, WrittenTyped
    <2>2. Writes(c).result = [status |-> "running", id |-> execs + 1]
          /\ Writes(c).replace = Replace(c)
      BY <1>11 DEF Writes, At
    <2>3. steps'[x.run][x.op] = [status |-> "running", id |-> Written(c).id]
      BY <1>1, <1>5, <1>7, <1>11, <2>1, <2>2 DEF WithStepResult, CallOk, Pending
    <2>4. x.op = "boot" => x.attempt = Len(attempts[x.run]) + 1 /\ x.attempt <= execs'
      <3>1. Len(attempts[x.run]) \in Nat /\ Len(attempts[x.run]) <= execs
        BY <1>2, StateTyped, LenProperties DEF RunInv, AttemptsOk
      <3>2. execs' = execs + 1
        BY <1>11, WriteEffect
      <3> QED BY <1>1, <1>11, <3>1, <3>2, StateTyped DEF CallOk, Numbered
    <2> HIDE DEF x
    <2> QED BY <1>3, <1>4, <1>6, <1>8, <1>11, <2>1, <2>3, <2>4
            DEF CallOk, StepLocked, WritePoints, Pending, Numbered, Executing
  <1>12. CASE x.pc = "record"
    <2>1. /\ Written(c).pc = IF x.op = "boot" /\ x.result.status = "succeeded" THEN "publish" ELSE "answer"
          /\ Written(c).seen = NoResult
      BY <1>3, <1>12, WrittenTyped
    <2>2. Writes(c).result = x.result /\ (Writes(c).replace <=> x.op = "boot" \/ Replace(c))
      BY <1>12 DEF Writes, At
    <2>3. old.status = "succeeded" => x.op = "boot" \/ Replaces(x)
      BY <1>1, <1>12 DEF CallOk, Executing
    <2>4. steps'[x.run][x.op] = x.result
      BY <1>5, <1>7, <2>2, <2>3 DEF WithStepResult
    <2>5. Written(c).pc = "publish" => Booted(attempts'[x.run], x.attempt)
      <3> SUFFICES ASSUME Written(c).pc = "publish" PROVE Booted(attempts'[x.run], x.attempt)
        OBVIOUS
      <3>1. x.op = "boot" /\ x.result.status = "succeeded" /\ Recording(c)
        BY <1>12, <2>1 DEF Recording
      <3>2. /\ Len(attempts'[x.run]) = Len(attempts[x.run]) + 1
            /\ attempts'[x.run][Len(attempts[x.run]) + 1] = Attempted(c)
            /\ x.attempt = Len(attempts[x.run]) + 1
        BY <3>1, WriteSteps, WriteTyped
      <3>3. Len(attempts[x.run]) \in Nat
        BY <1>2, StateTyped, LenProperties
      <3>4. Attempted(c).status = "succeeded"
        BY <3>1 DEF Attempted
      <3> QED BY <3>2, <3>3, <3>4 DEF Booted
    <2> HIDE DEF x
    <2> QED BY <1>3, <1>4, <1>6, <1>12, <2>1, <2>4, <2>5
            DEF CallOk, StepLocked, WritePoints, Pending, Numbered, Executing
  <1> QED BY <1>1, <1>9, <1>10, <1>11, <1>12 DEF WritePoints

\* Writing a manifest keeps the invariant.
LEMMA RunWrite ==
    ASSUME RunInv, NEW c \in Callers, WriteManifest(c)
    PROVE  RunInv'
PROOF
  <1>1. /\ call' = [call EXCEPT ![c] = Written(c)] /\ Written(c) \in CallRecords
    BY WrittenTyped
  <1>2. /\ call' \in [Callers -> {IdleCall} \cup CallRecords] /\ call'[c] = Written(c)
        /\ \A d \in Callers : d # c => call'[d] = call[d]
    BY <1>1 DEF RunInv
  <1>3. RunTypeOK'
    <2>1. steps' \in [Runs -> [Ops -> Results]] /\ attempts' \in [Runs -> Seq(Attempts)]
      BY WriteSteps
    <2>2. locks' \in [LockNames -> Callers \cup {Free, Orphan}]
      <3>1. locks' = [locks EXCEPT ![<<"manifest", call[c].run>>] = Free]
        BY WriteEffect
      <3> QED BY <3>1, StateTyped
    <2>4. execs' \in 0..MaxExecs
      <3>1. execs' \in Nat /\ execs' <= MaxExecs
        BY WriteEffect
      <3> QED BY <3>1, StateTyped
    <2>3. published' \in [Runs -> 0..MaxExecs]
      <3>1. published' = published
        BY DEF WriteManifest
      <3> QED BY <3>1 DEF RunInv, RunTypeOK
    <2> QED BY <1>2, <2>1, <2>2, <2>3, <2>4 DEF RunTypeOK
  <1>4. AttemptsOk'
    BY WriteAttempts
  <1>5. ASSUME NEW d \in Callers, call'[d] # IdleCall
        PROVE  CallOk(d, call'[d], steps', attempts', locks', execs')
    BY <1>2, <1>5, WriteOthers, WriteOwn
  <1> QED BY <1>2, <1>3, <1>4, <1>5 DEF RunInv

-----------------------------------------------------------------------------
(* The invariant and what follows                                           *)

\* Every step keeps the invariant.
LEMMA RunNext == RunInv /\ [Next]_vars => RunInv'
PROOF
  <1> SUFFICES ASSUME RunInv, [Next]_vars PROVE RunInv'
    OBVIOUS
  <1>1. ASSUME NEW c \in Callers, CallStep(c) PROVE RunInv'
    <2>1. CASE WriteRaises(c) \/ Answer(c)
      BY <2>1, RunEnd DEF WriteRaises, Answer
    <2> QED BY <1>1, <2>1, RunLockStep, RunCheck, RunLockTarget, RunPlan, RunExecute,
               RunLoadManifest, RunWrite, RunPublish DEF CallStep
  <1>2. CASE UNCHANGED vars
    BY <1>2 DEF vars, RunInv, RunTypeOK, AttemptsOk
  <1> QED BY <1>1, <1>2, RunStart, RunCachedBoot, RunCrash DEF Next

\* The invariant holds in every reachable state.
THEOREM RunInvariant == Spec => []RunInv
PROOF BY RunInit, RunNext, PTL DEF Spec

\* The manifests, the lock files and the calls have their types, and no boot
\* attempt has a number beyond the executions there were.
THEOREM RunIsTyped == Spec => []RunTypeOK
PROOF
  <1>1. RunInv => RunTypeOK
    BY DEF RunInv
  <1> QED BY <1>1, RunInvariant, PTL

\* record_step_result: while a provider works for a step, the manifest says
\* RUNNING and names this execution, and nobody else executes the step: its lock
\* is held from before the record until after the result.
THEOREM ExecutionIsRecorded == Spec => []ExecutingIsRecorded
PROOF
  <1>1. RunInv => ExecutingIsRecorded
    <2> SUFFICES ASSUME RunInv, NEW c \in Callers, NEW d \in Callers, At(c, "exec")
                 PROVE  /\ Recorded(c) = [status |-> "running", id |-> call[c].id]
                        /\ At(d, "exec") /\ OpLock(c) = OpLock(d) => c = d
      BY DEF ExecutingIsRecorded
    <2>1. CallOk(c, call[c], steps, attempts, locks, execs)
      BY CallInProgress DEF At
    <2>2. At(d, "exec") => CallOk(d, call[d], steps, attempts, locks, execs)
      BY CallInProgress DEF At
    <2> QED BY <2>1, <2>2 DEF CallOk, At, Recorded, OpLock, StepLocked, Executing
  <1> QED BY <1>1, RunInvariant, PTL

\* What build, boot, run_tests or collect answers after running its provider is
\* what the manifest says when it answers: the lock of the step is still held.
THEOREM AnswerIsRecord == Spec => []AnswerIsRecorded
PROOF
  <1>1. RunInv => AnswerIsRecorded
    <2> SUFFICES ASSUME RunInv, NEW c \in Callers, call[c].pc = "answer",
                        call[c].result # NoResult
                 PROVE  Recorded(c) = call[c].result
      BY DEF AnswerIsRecorded
    <2> QED BY CallInProgress DEF CallOk, Recorded
  <1> QED BY <1>1, RunInvariant, PTL

\* record_boot_attempt writes the result and the attempt at once, so the last
\* attempt of a run whose boot is recorded as succeeded is that boot.
THEOREM SuccessIsLastAttempt == Spec => []SucceededIsLastAttempt
PROOF
  <1>1. RunInv => SucceededIsLastAttempt
    <2> SUFFICES ASSUME RunInv, NEW r \in Runs, steps[r]["boot"].status = "succeeded"
                 PROVE  attempts[r] # <<>> /\ attempts[r][Len(attempts[r])].status = "succeeded"
      BY DEF SucceededIsLastAttempt
    <2>1. Booted(attempts[r], Len(attempts[r]))
      BY DEF RunInv, AttemptsOk
    <2>2. Len(attempts[r]) \in 1..Len(attempts[r])
      BY <2>1 DEF Booted
    <2>3. attempts[r] # <<>>
      BY <2>2, EmptySeq
    <2> QED BY <2>1, <2>3 DEF Booted
  <1> QED BY <1>1, RunInvariant, PTL

\* _publish_boot_ready_snapshot: a generation that admission sees is a recorded
\* boot that succeeded, numbers grow, and a boot in progress has a number that
\* was never published.
THEOREM PublishedIsRecord == Spec => []PublishedIsRecorded
PROOF
  <1>1. RunInv => PublishedIsRecorded
    <2> SUFFICES ASSUME RunInv, NEW r \in Runs
                 PROVE  /\ published[r] # 0 =>
                             \E i \in DOMAIN attempts[r] :
                                attempts[r][i] = [attempt |-> published[r], status |-> "succeeded"]
                        /\ \A i, j \in DOMAIN attempts[r] :
                             i < j => attempts[r][i].attempt < attempts[r][j].attempt
                        /\ \A c \in Callers :
                             call[c].pc \in {"run", "exec", "record"} /\ call[c].op = "boot"
                               /\ call[c].run = r => call[c].attempt > published[r]
      BY DEF PublishedIsRecorded
    <2>1. /\ attempts[r] \in Seq(Attempts) /\ DOMAIN attempts[r] = 1..Len(attempts[r])
          /\ Len(attempts[r]) \in Nat
          /\ \A i \in 1..Len(attempts[r]) : attempts[r][i] \in Attempts
      BY StateTyped, LenProperties, ElementOfSeq
    <2>2. /\ \A i \in 1..Len(attempts[r]) : attempts[r][i].attempt = i
          /\ published[r] # 0 => Booted(attempts[r], published[r])
      BY DEF RunInv, AttemptsOk
    <2>3. published[r] # 0 =>
            \E i \in DOMAIN attempts[r] :
               attempts[r][i] = [attempt |-> published[r], status |-> "succeeded"]
      <3> SUFFICES ASSUME published[r] # 0
                   PROVE  attempts[r][published[r]] =
                             [attempt |-> published[r], status |-> "succeeded"]
                          /\ published[r] \in DOMAIN attempts[r]
        OBVIOUS
      <3> QED BY <2>1, <2>2 DEF Booted, Attempts
    <2>4. \A i, j \in DOMAIN attempts[r] : i < j => attempts[r][i].attempt < attempts[r][j].attempt
      BY <2>1, <2>2
    <2>5. ASSUME NEW c \in Callers, call[c].pc \in {"run", "exec", "record"},
                 call[c].op = "boot", call[c].run = r
          PROVE  call[c].attempt > published[r]
      <3>1. call[c].attempt = Len(attempts[r]) + 1
        BY <2>5, CallInProgress DEF CallOk, Numbered
      <3>2. published[r] \in Nat /\ published[r] <= Len(attempts[r])
        BY <2>1, <2>2, RunStepsAssumption DEF Booted, RunInv, RunTypeOK
      <3> QED BY <2>1, <3>1, <3>2
    <2> QED BY <2>3, <2>4, <2>5
  <1> QED BY <1>1, RunInvariant, PTL


-----------------------------------------------------------------------------
(* What a step may not do                                                   *)

\* Only a write of the manifest changes what is recorded.
LEMMA OnlyWritesRecord ==
    ASSUME Next, steps' # steps
    PROVE  \E c \in Callers : WriteManifest(c)
PROOF
  <1>1. ASSUME NEW c \in Callers, NEW r \in Runs, NEW op \in Ops,
               NEW force \in BOOLEAN, NEW covered \in BOOLEAN, Start(c, r, op, force, covered)
        PROVE  FALSE
    BY <1>1 DEF Start
  <1>2. ASSUME NEW c \in Callers, NEW r \in Runs, CachedBoot(c, r) PROVE FALSE
    BY <1>2 DEF CachedBoot
  <1>3. ASSUME NEW c \in Callers, CallStep(c) PROVE WriteManifest(c)
    <2>1. CASE LockStep(c) \/ LockTarget(c) \/ Plan(c) \/ Execute(c) \/ Bundle(c)
      BY <2>1 DEF LockStep, LockTarget, Plan, Execute, Bundle
    <2>2. CASE Check(c)
      BY <2>2 DEF Check
    <2>3. CASE LoadManifest(c) \/ WriteRaises(c) \/ Publish(c) \/ Answer(c)
      BY <2>3 DEF LoadManifest, WriteRaises, Publish, Answer
    <2> QED BY <1>3, <2>1, <2>2, <2>3 DEF CallStep
  <1>4. CASE Crash
    BY <1>4 DEF Crash
  <1> QED BY <1>1, <1>2, <1>3, <1>4 DEF Next

\* A write replaces a success only for a call that asked for it or for a new
\* collection: a boot has found a success under its lock only if it was forced,
\* and by the time it records its result the success is gone.
LEMMA WriteKeepsSuccess ==
    ASSUME RunInv, NEW c \in Callers, WriteManifest(c), NEW r \in Runs, NEW op \in Ops,
           steps[r][op].status = "succeeded", steps'[r][op] # steps[r][op]
    PROVE  /\ call[c].pc \in WritePoints /\ call[c].run = r /\ call[c].op = op
           /\ call[c].force \/ op = "collect"
PROOF
  <1>1. <<op, r>> = <<call[c].op, call[c].run>>
    BY WriteSteps
  <1>2. call[c].op = op /\ call[c].run = r
    BY <1>1
  <1>3. call[c].pc \in WritePoints /\ CallOk(c, call[c], steps, attempts, locks, execs)
    BY WriteEffect
  <1>4. Writes(c).replace
    <2>1. steps'[r][op] = WithStepResult(steps[r][op], Writes(c).result, Writes(c).replace)
      BY <1>2, WriteSteps DEF NewResult
    <2> QED BY <2>1 DEF WithStepResult
  <1>5. (call[c].op = "boot" /\ call[c].pc = "record") \/ Replace(c)
    BY <1>3, <1>4 DEF Writes, At, WritePoints
  <1>6. ~(call[c].op = "boot" /\ call[c].pc = "record")
    BY <1>2, <1>3 DEF CallOk, Executing
  <1>7. call[c].op = "boot" /\ call[c].seen.status = "succeeded" => call[c].force
    BY <1>3 DEF CallOk
  <1> QED BY <1>2, <1>3, <1>5, <1>6, <1>7 DEF Replace

\* with_step_result: a success that is recorded stays, whatever calls run at
\* once, but for force_* and for a new collection.
THEOREM SuccessIsKept == Spec => SuccessKept
PROOF
  <1>1. RunInv /\ [Next]_vars =>
          [\A r \in Runs, op \in Ops :
             steps[r][op].status = "succeeded" /\ steps'[r][op] # steps[r][op] =>
                \E c \in Callers : /\ call[c].pc \in WritePoints
                                   /\ call[c].run = r /\ call[c].op = op
                                   /\ call[c].force \/ op = "collect"]_vars
    <2> SUFFICES ASSUME RunInv, Next, NEW r \in Runs, NEW op \in Ops,
                        steps[r][op].status = "succeeded", steps'[r][op] # steps[r][op]
                 PROVE  \E c \in Callers : /\ call[c].pc \in WritePoints
                                           /\ call[c].run = r /\ call[c].op = op
                                           /\ call[c].force \/ op = "collect"
      OBVIOUS
    <2>1. PICK c \in Callers : WriteManifest(c)
      BY OnlyWritesRecord
    <2> QED BY <2>1, WriteKeepsSuccess
  <1> QED BY <1>1, RunInvariant, PTL DEF SuccessKept, Spec


=============================================================================
