-------------------------- MODULE RunStepsProofs --------------------------
(***************************************************************************)
(* No two boots work on the libvirt domain at once, for every number of    *)
(* runs, of concurrent calls and of provider executions.                   *)
(*                                                                         *)
(* The argument: a boot that is past its domain lock holds it.  The lock   *)
(* file is made only when it does not exist and unlinked only by the call  *)
(* that made it, and a crash, which leaves it behind, ends the call.       *)
(***************************************************************************)
EXTENDS RunSteps, TLAPS

\* Where a boot works on the domain or on what is recorded of it.
Working == {"stale", "plan", "unplanned", "run", "exec", "record"}

\* What a call in progress carries beside its program counter.
Fields == {"run", "op", "seen", "id", "attempt", "result", "copy"}

\* A boot that works on the domain holds the domain lock; the bundle is only
\* reached by a collection, so a boot records only what it executed.
DomainInv ==
    /\ DOMAIN call = Callers
    /\ DOMAIN locks = LockNames
    /\ \A c \in Callers :
         /\ "pc" \in DOMAIN call[c]
         /\ call[c].pc # "idle" => Fields \subseteq DOMAIN call[c] /\ call[c].op \in Ops
         /\ call[c].pc = "bundle" => call[c].op = "collect"
         /\ call[c].pc \in Working /\ call[c].op = "boot" => locks[TargetLock] = c

\* The domain lock is no other lock.
LEMMA TargetLockDistinct ==
    /\ TargetLock \in LockNames
    /\ \A a, b : <<a, b>> # TargetLock
PROOF
  <1>1. TargetLock \in LockNames
    BY DEF LockNames
  <1>2. ASSUME NEW a, NEW b PROVE <<a, b>> # TargetLock
    <2>1. Len(<<a, b>>) = 2 /\ Len(TargetLock) = 1
      BY DEF TargetLock
    <2> QED BY <2>1
  <1> QED BY <1>1, <1>2

\* A call that ends, for whatever reason, gives up its own locks only.
LEMMA EndKeepsDomain ==
    ASSUME DomainInv, NEW c \in Callers, End(c)
    PROVE  DomainInv'
PROOF
  <1> USE TargetLockDistinct
  <1>1. DOMAIN call' = Callers /\ DOMAIN locks' = LockNames
    BY DEF DomainInv, End, Unlocked
  <1>2. ASSUME NEW d \in Callers, d # c PROVE call'[d] = call[d]
    BY <1>2 DEF DomainInv, End
  <1>3. call'[c].pc = "idle" /\ DOMAIN call'[c] = {"pc"}
    BY DEF DomainInv, End, IdleCall
  <1>4. ASSUME NEW d \in Callers, d # c, locks[TargetLock] = d PROVE locks'[TargetLock] = d
    BY <1>4 DEF DomainInv, End, Unlocked
  <1> QED BY <1>1, <1>2, <1>3, <1>4 DEF DomainInv, Working

\* A step of one call that leaves the domain lock to its holder keeps the
\* invariant if the call keeps it.
LEMMA CallKeepsDomain ==
    ASSUME DomainInv, NEW c \in Callers, NEW rec,
           call' = [call EXCEPT ![c] = rec],
           DOMAIN locks' = LockNames,
           \A d \in Callers : d # c /\ locks[TargetLock] = d => locks'[TargetLock] = d,
           "pc" \in DOMAIN rec,
           rec.pc # "idle" => Fields \subseteq DOMAIN rec /\ rec.op \in Ops,
           rec.pc = "bundle" => rec.op = "collect",
           rec.pc \in Working /\ rec.op = "boot" => locks'[TargetLock] = c
    PROVE  DomainInv'
PROOF
  <1>1. DOMAIN call' = Callers /\ call'[c] = rec
    BY DEF DomainInv
  <1>2. ASSUME NEW d \in Callers, d # c PROVE call'[d] = call[d]
    BY <1>2 DEF DomainInv
  <1> QED BY <1>1, <1>2 DEF DomainInv

\* Initially nothing is locked and no call is in progress.
LEMMA DomainInit == Init => DomainInv
PROOF BY DEF Init, DomainInv, IdleCall, Working

\* A new call, and a boot answered from the manifest, is at none of these points.
LEMMA DomainStart ==
    ASSUME DomainInv, NEW c \in Callers, NEW r \in Runs,
           \/ \E op \in Ops, force, covered \in BOOLEAN : Start(c, r, op, force, covered)
           \/ CachedBoot(c, r)
    PROVE  DomainInv'
PROOF
  <1>1. CASE \E op \in Ops, force, covered \in BOOLEAN : Start(c, r, op, force, covered)
    <2>1. PICK op \in Ops, force \in BOOLEAN, covered \in BOOLEAN : Start(c, r, op, force, covered)
      BY <1>1
    <2> DEFINE rec == Called(IF op = "build" /\ steps[r][op].status = "running" THEN "peek" ELSE "lock",
                             r, op, force, 0)
    <2>2. call' = [call EXCEPT ![c] = rec] /\ locks' = locks
      BY <2>1 DEF Start
    <2>3. rec.pc \in {"peek", "lock"} /\ rec.op \in Ops
      BY DEF Called
    <2>4. DOMAIN rec = {"pc", "run", "op", "force", "seen", "id", "attempt", "result", "copy"}
      BY DEF Called
    <2>5. DOMAIN locks' = LockNames
      BY <2>2 DEF DomainInv
    <2> HIDE DEF rec
    <2> QED BY <2>2, <2>3, <2>4, <2>5, CallKeepsDomain DEF Working, Fields
  <1>2. CASE CachedBoot(c, r)
    <2> DEFINE rec == Called("publish", r, "boot", FALSE, LastAttempt(r))
    <2>2. call' = [call EXCEPT ![c] = rec] /\ locks' = locks
      BY <1>2 DEF CachedBoot
    <2>3. rec.pc = "publish" /\ rec.op \in Ops
      BY DEF Called, Ops
    <2>4. DOMAIN rec = {"pc", "run", "op", "force", "seen", "id", "attempt", "result", "copy"}
      BY DEF Called
    <2>5. DOMAIN locks' = LockNames
      BY <2>2 DEF DomainInv
    <2> HIDE DEF rec
    <2> QED BY <2>2, <2>3, <2>4, <2>5, CallKeepsDomain DEF Working, Fields
  <1> QED BY <1>1, <1>2

\* A call that only moves on, to a point where a boot holds the domain lock or
\* needs none, keeps the invariant.
LEMMA GotoKeepsDomain ==
    ASSUME DomainInv, NEW c \in Callers, NEW pc,
           call[c].pc # "idle", Goto(c, pc),
           DOMAIN locks' = LockNames,
           \A d \in Callers : d # c /\ locks[TargetLock] = d => locks'[TargetLock] = d,
           pc # "bundle",
           pc \in Working /\ call[c].op = "boot" => locks'[TargetLock] = c
    PROVE  DomainInv'
PROOF
  <1> DEFINE rec == [call[c] EXCEPT !.pc = pc]
  <1>1. call' = [call EXCEPT ![c] = rec]
    BY DEF Goto
  <1>2. DOMAIN rec = DOMAIN call[c] /\ rec.pc = pc
    BY DEF DomainInv
  <1>3. rec.op = call[c].op
    BY DEF DomainInv
  <1>4. Fields \subseteq DOMAIN rec /\ "pc" \in DOMAIN rec /\ call[c].op \in Ops
    BY <1>2 DEF DomainInv
  <1> HIDE DEF rec
  <1> QED BY <1>1, <1>2, <1>3, <1>4, CallKeepsDomain

\* The lock of a step is not the domain lock.
LEMMA DomainLockStep ==
    ASSUME DomainInv, NEW c \in Callers, LockStep(c)
    PROVE  DomainInv'
PROOF
  <1>1. CASE End(c)
    BY <1>1, EndKeepsDomain
  <1>2. CASE /\ CanLock(OpLock(c))
             /\ locks' = [locks EXCEPT ![OpLock(c)] = c]
             /\ Goto(c, IF At(c, "peek") THEN "answer" ELSE "check")
    <2>1. DOMAIN locks' = LockNames
      BY <1>2 DEF DomainInv
    <2>2. locks'[TargetLock] = locks[TargetLock]
      BY <1>2, TargetLockDistinct DEF DomainInv, OpLock
    <2>3. call[c].pc # "idle"
      BY DEF LockStep
    <2> QED BY <1>2, <2>1, <2>2, <2>3, GotoKeepsDomain DEF Working
  <1> QED BY <1>1, <1>2 DEF LockStep

\* Under its own lock a boot goes to the domain lock first.
LEMMA DomainCheck ==
    ASSUME DomainInv, NEW c \in Callers, Check(c)
    PROVE  DomainInv'
PROOF
  <1> DEFINE next == CASE call[c].op = "build" -> "run"
                       [] call[c].op = "boot" -> "target"
                       [] call[c].op = "run_tests" ->
                            IF Recorded(c).status = "running" THEN "stale" ELSE "plan"
                       [] call[c].op = "collect" -> "bundle"
             published0 == [call[c] EXCEPT !.pc = "publish", !.attempt = LastAttempt(call[c].run)]
             checked == [call[c] EXCEPT !.pc = next, !.seen = Recorded(c),
                                        !.attempt = Len(attempts[call[c].run]) + 1]
  <1>1. CASE End(c)
    BY <1>1, EndKeepsDomain
  <1>2. CASE call' = [call EXCEPT ![c] = published0] /\ locks' = locks
    BY <1>2, CallKeepsDomain DEF DomainInv, Working, Check, At
  <1>3. CASE call' = [call EXCEPT ![c] = checked] /\ locks' = locks
    <2>1. call[c].op \in Ops /\ Fields \subseteq DOMAIN call[c] /\ "pc" \in DOMAIN call[c]
      BY DEF DomainInv, Check, At
    <2>2. call[c].op = "boot" => next = "target"
      OBVIOUS
    <2>3. next = "bundle" => call[c].op = "collect"
      <3>1. CASE call[c].op = "run_tests"
        BY <3>1
      <3>2. CASE call[c].op \in {"build", "boot", "collect"}
        BY <3>2
      <3> QED BY <2>1, <3>1, <3>2 DEF Ops
    <2> HIDE DEF next
    <2>4. checked.pc = next /\ checked.op = call[c].op /\ DOMAIN checked = DOMAIN call[c]
      BY <2>1 DEF Fields
    <2> HIDE DEF checked
    <2>5. DOMAIN locks' = LockNames
      BY <1>3 DEF DomainInv
    <2> QED BY <1>3, <2>1, <2>2, <2>3, <2>4, <2>5, CallKeepsDomain DEF Working
  <1> QED BY <1>1, <1>2, <1>3 DEF Check

\* The domain lock was free, so no other boot is past it.
LEMMA DomainLockTarget ==
    ASSUME DomainInv, NEW c \in Callers, LockTarget(c)
    PROVE  DomainInv'
PROOF
  <1>1. CASE End(c)
    BY <1>1, EndKeepsDomain
  <1>2. CASE /\ CanLock(TargetLock)
             /\ locks' = [locks EXCEPT ![TargetLock] = c]
             /\ Goto(c, IF call[c].seen.status = "running" THEN "stale" ELSE "plan")
    <2>1. DOMAIN locks' = LockNames /\ locks'[TargetLock] = c
      BY <1>2, TargetLockDistinct DEF DomainInv
    <2>2. \A d \in Callers : locks[TargetLock] # d
      BY <1>2, RunStepsAssumption DEF CanLock
    <2>3. call[c].pc # "idle"
      BY DEF LockTarget, At
    <2> QED BY <1>2, <2>1, <2>2, <2>3, GotoKeepsDomain
  <1> QED BY <1>1, <1>2 DEF LockTarget

\* Planning keeps the locks.
LEMMA DomainPlan ==
    ASSUME DomainInv, NEW c \in Callers, Plan(c)
    PROVE  DomainInv'
PROOF
  <1>1. CASE End(c)
    BY <1>1, EndKeepsDomain
  <1>2. CASE Goto(c, "run") /\ UNCHANGED locks
    BY <1>2, GotoKeepsDomain DEF DomainInv, Plan, At, Working
  <1>3. CASE Goto(c, "unplanned") /\ UNCHANGED locks
    BY <1>3, GotoKeepsDomain DEF DomainInv, Plan, At, Working
  <1> QED BY <1>1, <1>2, <1>3 DEF Plan

\* What was executed is recorded under the same locks.
LEMMA DomainExecute ==
    ASSUME DomainInv, NEW c \in Callers, Execute(c) \/ Bundle(c)
    PROVE  DomainInv'
PROOF
  <1>1. CASE End(c)
    BY <1>1, EndKeepsDomain
  <1>2. ASSUME NEW res, call' = [call EXCEPT ![c].pc = "record", ![c].result = res],
               locks' = locks, call[c].pc \in {"exec", "bundle"}
        PROVE  DomainInv'
    <2> DEFINE rec == [call[c] EXCEPT !.pc = "record", !.result = res]
    <2>1. call' = [call EXCEPT ![c] = rec]
      BY <1>2
    <2>2. Fields \subseteq DOMAIN call[c] /\ "pc" \in DOMAIN call[c] /\ call[c].op \in Ops
      BY <1>2 DEF DomainInv
    <2>3. rec.pc = "record" /\ rec.op = call[c].op /\ DOMAIN rec = DOMAIN call[c]
      BY <2>2 DEF Fields
    <2>4. call[c].op = "boot" => locks'[TargetLock] = c
      BY <1>2 DEF DomainInv, Working
    <2> HIDE DEF rec
    <2>5. DOMAIN locks' = LockNames
      BY <1>2 DEF DomainInv
    <2> QED BY <1>2, <2>1, <2>2, <2>3, <2>4, <2>5, CallKeepsDomain
  <1> QED BY <1>1, <1>2 DEF Execute, Bundle, At

\* The manifest lock is not the domain lock.
LEMMA DomainLoadManifest ==
    ASSUME DomainInv, NEW c \in Callers, LoadManifest(c)
    PROVE  DomainInv'
PROOF
  <1> DEFINE rec == [call[c] EXCEPT !.copy = [steps |-> steps[call[c].run],
                                              attempts |-> attempts[call[c].run]]]
  <1>1. call' = [call EXCEPT ![c] = rec] /\ call[c].pc \in WritePoints
    BY DEF LoadManifest
  <1>2. Fields \subseteq DOMAIN call[c] /\ "pc" \in DOMAIN call[c] /\ call[c].op \in Ops
    BY <1>1 DEF DomainInv, WritePoints
  <1>3. rec.pc = call[c].pc /\ rec.op = call[c].op /\ DOMAIN rec = DOMAIN call[c]
    BY <1>2 DEF Fields
  <1>4. DOMAIN locks' = LockNames /\ locks'[TargetLock] = locks[TargetLock]
    BY TargetLockDistinct DEF DomainInv, LoadManifest, ManifestLock
  <1>5. call[c].op = "boot" => locks'[TargetLock] = c
    BY <1>1, <1>4 DEF DomainInv, Working, WritePoints
  <1> HIDE DEF rec
  <1> QED BY <1>1, <1>2, <1>3, <1>4, <1>5, CallKeepsDomain DEF WritePoints

\* After a manifest write a boot is still under its locks, or done.
LEMMA DomainWriteManifest ==
    ASSUME DomainInv, NEW c \in Callers, WriteManifest(c)
    PROVE  DomainInv'
PROOF
  <1>1. call[c].pc \in WritePoints
    BY DEF WriteManifest
  <1>2. Fields \subseteq DOMAIN call[c] /\ "pc" \in DOMAIN call[c] /\ call[c].op \in Ops
    BY <1>1 DEF DomainInv, WritePoints
  <1>3. PICK id, seen :
          call' = [call EXCEPT ![c].pc = Writes(c).next, ![c].copy = NoCopy,
                               ![c].id = id, ![c].seen = seen]
    BY DEF WriteManifest
  <1>4. Writes(c).next \in {"plan", "answer", "exec", "publish"}
    BY <1>1 DEF Writes, WritePoints, At
  <1> DEFINE next == Writes(c).next
             rec == [call[c] EXCEPT !.pc = next, !.copy = NoCopy, !.id = id, !.seen = seen]
  <1>5. call' = [call EXCEPT ![c] = rec]
    BY <1>3
  <1>6. next \in {"plan", "answer", "exec", "publish"}
    BY <1>4
  <1> HIDE DEF next
  <1>7. rec.pc = next /\ rec.op = call[c].op /\ DOMAIN rec = DOMAIN call[c]
    BY <1>2 DEF Fields
  <1>8. DOMAIN locks' = LockNames /\ locks'[TargetLock] = locks[TargetLock]
    BY TargetLockDistinct DEF DomainInv, WriteManifest, ManifestLock
  <1>9. call[c].op = "boot" => locks'[TargetLock] = c
    BY <1>1, <1>8 DEF DomainInv, Working, WritePoints
  <1> HIDE DEF rec
  <1> QED BY <1>2, <1>5, <1>6, <1>7, <1>8, <1>9, CallKeepsDomain

\* Publishing needs no lock.
LEMMA DomainPublish ==
    ASSUME DomainInv, NEW c \in Callers, Publish(c)
    PROVE  DomainInv'
PROOF
  <1>1. CASE End(c)
    BY <1>1, EndKeepsDomain
  <1>2. CASE Goto(c, "answer") /\ UNCHANGED locks
    BY <1>2, GotoKeepsDomain DEF DomainInv, Publish, At, Working
  <1> QED BY <1>1, <1>2 DEF Publish

\* A crash ends every call, whatever it leaves of the lock files.
LEMMA DomainCrash == DomainInv /\ Crash => DomainInv'
PROOF BY DEF DomainInv, Crash, IdleCall, Working

\* Every step keeps the invariant.
LEMMA DomainNext == DomainInv /\ [Next]_vars => DomainInv'
PROOF
  <1> SUFFICES ASSUME DomainInv, [Next]_vars PROVE DomainInv'
    OBVIOUS
  <1>1. ASSUME NEW c \in Callers, NEW r \in Runs,
               \/ \E op \in Ops, force, covered \in BOOLEAN : Start(c, r, op, force, covered)
               \/ CachedBoot(c, r)
        PROVE  DomainInv'
    BY <1>1, DomainStart
  <1>2. ASSUME NEW c \in Callers, CallStep(c) PROVE DomainInv'
    <2>1. CASE WriteRaises(c) \/ Answer(c)
      BY <2>1, EndKeepsDomain DEF WriteRaises, Answer
    <2> QED BY <1>2, <2>1, DomainLockStep, DomainCheck, DomainLockTarget, DomainPlan,
               DomainExecute, DomainLoadManifest, DomainWriteManifest, DomainPublish DEF CallStep
  <1>3. CASE Crash
    BY <1>3, DomainCrash
  <1>4. CASE UNCHANGED vars
    BY <1>4 DEF vars, DomainInv
  <1> QED BY <1>1, <1>2, <1>3, <1>4 DEF Next

\* Two boots that are both past the lock hold the same lock file.
LEMMA DomainInvExcludes == DomainInv => DomainExclusive
PROOF BY DEF DomainInv, DomainExclusive, Working

\* target.boot keeps boots of whatever runs apart: for every number of runs and
\* of concurrent calls, and over crashes of the server, no boot is planned,
\* declared stale or executed while another works on the domain.
THEOREM DomainIsExclusive == Spec => []DomainExclusive
PROOF
  <1>1. Init => DomainInv
    BY DomainInit
  <1>2. DomainInv /\ [Next]_vars => DomainInv'
    BY DomainNext
  <1>3. DomainInv => DomainExclusive
    BY DomainInvExcludes
  <1> QED BY <1>1, <1>2, <1>3, PTL DEF Spec

=============================================================================
