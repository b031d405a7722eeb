-------------------------- MODULE TransactionProofs --------------------------
(***************************************************************************)
(* Proofs about Transaction, for any number of sessions, any faults and    *)
(* any interleaving of opens, closes, forced releases, teardowns, boots    *)
(* and restarts: what a session holds, and in which order it gives it up.  *)
(***************************************************************************)
EXTENDS Transaction, AdmissionProofs

-----------------------------------------------------------------------------
(* The inductive invariant                                                  *)

\* Points of an open() that has not committed its session.
Acquiring == {"guarded", "leased", "recorded", "spawned", "attached", "ready"}
Uncommitted == {"idle", "dead", "admitted"} \cup Acquiring

\* The process of s is gone, or somebody gave up on it.
Gone(s) == s \in backend => s \in stranded \cup forced

\* s holds neither the stop-capable guard nor the console lease.
NoLines(s) == guard # s /\ lease # s

\* Points past the reap, and past the release of the lines, of the three threads
\* that end a session.
Reaped(s) ==
    \/ pc[s] \in {"rb_check", "rb_unlink", "rb_lines", "rb_admission", "failed"}
    \/ cpc[s] \in ClosePoints \ {"none", "found", "closing", "raised", "fr_lines"}
    \/ vpc[s] \in TeardownPoints \ {"none", "reap"}

LinesGone(s) ==
    \/ pc[s] \in {"rb_admission", "failed"}
    \/ cpc[s] \in {"complete", "tomb", "mark", "check", "unlink", "unsubscribe",
                   "fr_confirm", "fr_abandon"}
    \/ vpc[s] \in TeardownPoints \ {"none", "reap", "lines"}

\* A session that is not in the tables of a running transaction has no incarnation.
Begun(s) == IF pc[s] \in {"idle", "dead"} THEN handle[s].generation = None
                                          ELSE handle[s].generation \in Generations

\* Before the commit nobody but open() works on the session; a session is closed only
\* once it is open.
OneThread(s) ==
    /\ pc[s] \in Uncommitted => cpc[s] = "none" /\ vpc[s] = "none" /\ s \notin subscribers
    /\ cpc[s] \notin {"none", "done"} => pc[s] = "open"
    /\ cpc[s] = "done" => pc[s] = "closed"

\* What open() has acquired at each point: the registration first, then the guard,
\* whose token is kept from the record on, and the process last.
Acquired(s) ==
    /\ pc[s] \in {"admitted"} \cup Acquiring => s \in bindings
    /\ pc[s] \in {"idle", "admitted", "guarded", "leased", "recorded"} => s \notin backend
    /\ pc[s] \in {"idle", "admitted"} => NoLines(s)
    /\ pc[s] \in Acquiring => guard = s
    /\ pc[s] \in {"recorded", "spawned", "attached", "ready", "clearing", "uncaching", "open"}
         => (guard = s => s \in tokens)

\* The order of release, whichever thread ends the session: the process before the
\* lines, the lines before the registration.
InOrder(s) ==
    /\ Reaped(s) => Gone(s)
    /\ LinesGone(s) => NoLines(s)
    /\ s \notin bindings /\ pc[s] # "dead" => NoLines(s) /\ Gone(s)
    /\ pc[s] # "dead" => Gone(s) \/ guard = s

SessionOk(s) == Begun(s) /\ OneThread(s) /\ Acquired(s) /\ InOrder(s)

\* reconcile() parks and notifies for a record that it has found.
Reconciled == server \in {"park", "park_killed", "notify"} => record \in Records

TxInv ==
    /\ AdmissionInv
    /\ snapGen \in 0..MaxGen
    /\ TxTypeOK
    /\ Reconciled
    /\ \A s \in Handles : SessionOk(s)

\* A new process starts with an empty transaction.
LEMMA TxInit == Init => TxInv
  <1> SUFFICES ASSUME Init PROVE TxInv
    OBVIOUS
  <1> USE TransactionAssumption, AdmissionAssumption
  <1>1. AdmissionInv
    BY InitInv DEF Init
  <1>2. snapGen \in 0..MaxGen
    BY DEF Init, AdmissionInit, None
  <1>3. TxTypeOK
    BY DEF Init, TxTypeOK, OpenPoints, ClosePoints, TeardownPoints, ExecStates
  <1>6. Reconciled
    BY DEF Init, Reconciled
  <1>4. ASSUME NEW s \in Handles PROVE SessionOk(s)
    <2>1. /\ pc[s] = "idle" /\ cpc[s] = "none" /\ vpc[s] = "none"
          /\ handle[s].generation = None
          /\ guard = Nobody /\ lease = Nobody /\ subscribers = {} /\ backend = {}
      BY DEF Init, AdmissionInit
    <2>2. NoLines(s) /\ Gone(s)
      BY <2>1 DEF NoLines, Gone
    <2>3. QED
      BY <2>1, <2>2
         DEF SessionOk, Begun, OneThread, Acquired, InOrder, Acquiring, Uncommitted
  <1>5. QED
    BY <1>1, <1>2, <1>3, <1>4, <1>6 DEF TxInv

-----------------------------------------------------------------------------
(* The transaction and the admission service                                *)

\* The generations that the transaction hands to the service are of the bounds.
LEMMA Generation ==
  ASSUME TxInv, NEW s \in Handles
  PROVE  /\ handle[s].generation \in Generations \cup {None}
         /\ pc[s] \notin {"idle", "dead"} => handle[s].generation \in Generations
  BY DEF TxInv, SessionOk, Begun

\* mark_recovery_required and clear_recovery_required at no generation change nothing.
LEMMA NoGeneration ==
  ASSUME TxInv, MarkRecoveryRequired(None) \/ ClearRecoveryRequired(None)
  PROVE  UNCHANGED avars
  BY DEF TxInv, AdmissionInv, AdmissionTypeOK, MarkRecoveryRequired, ClearRecoveryRequired,
         None, avars

\* Marking or clearing at the generation of a session.
LEMMA MarkOrClear ==
  ASSUME TxInv, NEW g \in Generations \cup {None},
         MarkRecoveryRequired(g) \/ ClearRecoveryRequired(g)
  PROVE  [AdmissionNext]_avars
  <1>1. CASE g \in Generations
    BY <1>1 DEF AdmissionNext
  <1>2. CASE g = None
    BY <1>2, NoGeneration
  <1>3. QED
    BY <1>1, <1>2

\* Each call of open() on the admission service is one of its operations.
LEMMA OpenIsAdmission ==
  ASSUME TxInv, NEW s \in Handles,
         OpenStep(s) \/ \E g \in Generations : OpenAdmit(s, g)
  PROVE  [AdmissionNext]_avars
  <1>1. CASE \E g \in Generations : OpenAdmit(s, g)
    BY <1>1 DEF OpenAdmit, AdmissionNext
  <1>2. CASE \/ OpenGuard(s) \/ OpenLease(s) \/ OpenRecord(s) \/ OpenSpawn(s)
             \/ OpenPartial(s) \/ OpenReady(s)
    BY <1>2 DEF OpenGuard, OpenLease, OpenRecord, OpenSpawn, OpenPartial, OpenReady
  <1>3. CASE \/ OpenClearDurable(s) \/ OpenFail(s) \/ RollbackReap(s) \/ RollbackCheck(s)
             \/ RollbackUnlink(s) \/ RollbackLines(s)
    BY <1>3 DEF OpenClearDurable, OpenFail, RollbackReap, RollbackCheck, RollbackUnlink,
                RollbackLines
  <1>4. CASE OpenCommit(s)
    BY <1>4 DEF OpenCommit, AdmissionNext
  <1>5. CASE OpenClearCache(s)
    BY <1>5, Generation, MarkOrClear DEF OpenClearCache
  <1>6. CASE RollbackAdmission(s)
    BY <1>6 DEF RollbackAdmission, AdmissionNext
  <1>7. QED
    BY <1>1, <1>2, <1>3, <1>4, <1>5, <1>6 DEF OpenStep

\* Each call of close() and force_release() is one of its operations.
LEMMA CloseIsAdmission ==
  ASSUME TxInv, NEW s \in Handles,
         \/ CloseStep(s) \/ Halt(s) \/ \E force \in BOOLEAN : CloseFind(s, force)
  PROVE  [AdmissionNext]_avars
  <1>1. CASE \/ \E force \in BOOLEAN : CloseFind(s, force)
             \/ Halt(s) \/ CloseWrite(s) \/ CloseWriteFail(s) \/ CloseBackend(s)
             \/ CloseLines(s) \/ CloseTombFile(s)
    BY <1>1 DEF CloseFind, Halt, CloseWrite, CloseWriteFail, CloseBackend, CloseLines,
                CloseTombFile
  <1>2. CASE \/ CloseCheck(s) \/ CloseUnlink(s) \/ CloseUnsubscribe(s) \/ TeardownVerify(s)
             \/ ForceReleaseLines(s)
    BY <1>2 DEF CloseCheck, CloseUnlink, CloseUnsubscribe, TeardownVerify,
                ForceReleaseLines
  <1>3. CASE CloseComplete(s)
    BY <1>3 DEF CloseComplete, AdmissionNext
  <1>4. CASE CloseMark(s)
    BY <1>4, Generation, MarkOrClear DEF CloseMark
  <1>5. CASE ForceReleaseConfirm(s) \/ ForceReleaseAbandon(s)
    BY <1>5 DEF ForceReleaseConfirm, ForceReleaseAbandon, AdmissionNext
  <1>6. QED
    BY <1>1, <1>2, <1>3, <1>4, <1>5 DEF CloseStep

\* Each call of the lifecycle teardown is one of its operations.
LEMMA TeardownIsAdmission ==
  ASSUME TxInv, NEW s \in Handles, TeardownStep(s) \/ TeardownReap(s, "wedged")
  PROVE  [AdmissionNext]_avars
  <1>1. CASE TeardownReap(s, "reap") \/ TeardownReap(s, "wedged")
    BY <1>1 DEF TeardownReap
  <1>2. CASE \/ TeardownOverdue(s) \/ ForceDropLines(s) \/ ForceDropCheck(s)
             \/ ForceDropUnlink(s) \/ ForceDropUnsubscribe(s)
    BY <1>2 DEF TeardownOverdue, ForceDropLines, ForceDropCheck, ForceDropUnlink,
                ForceDropUnsubscribe
  <1>3. CASE ForceDropConfirm(s) \/ ForceDropAbandon(s)
    BY <1>3 DEF ForceDropConfirm, ForceDropAbandon, AdmissionNext
  <1>4. QED
    BY <1>1, <1>2, <1>3 DEF TeardownStep

\* Boots, invalidations, emits and the restart use its operations, too.
LEMMA WorldIsAdmission ==
  ASSUME TxInv,
         \/ \E g \in Generations : Boot(g) \/ Invalidate(g)
         \/ Emit \/ ReopenAdmission \/ ReconcileStep
  PROVE  [AdmissionNext]_avars
  <1> USE DEF TxInv, TxTypeOK, Records, NoRecord
  <1>1. CASE \E g \in Generations : Boot(g) \/ Invalidate(g)
    BY <1>1 DEF Boot, Invalidate, AdmissionNext, TargetStates
  <1>2. CASE Emit \/ ReopenAdmission
    BY <1>2 DEF Emit, ReopenAdmission, AdmissionNext
  <1>3. CASE ReconcileTombstones
    BY <1>3, MarkOrClear DEF ReconcileTombstones
  <1>4. CASE ReconcileReap \/ ReconcileDelete
    BY <1>4 DEF ReconcileReap, ReconcileDelete
  <1>5. CASE ReconcilePark
    <2>1. CASE UNCHANGED avars
      BY <2>1
    <2>2. CASE record.exec = "halted" /\ MarkRecoveryRequired(record.gen)
      <3>1. record.gen \in Generations
        BY <1>5 DEF ReconcilePark, Reconciled
      <3>2. QED
        BY <2>2, <3>1, MarkOrClear
    <2>3. QED
      BY <1>5, <2>1, <2>2 DEF ReconcilePark
  <1>6. CASE ReconcileNotify
    <2>1. record.gen \in Generations
      BY <1>6 DEF ReconcileNotify, Reconciled
    <2>2. QED
      BY <1>6, <2>1 DEF ReconcileNotify, AdmissionNext
  <1>7. QED
    BY <1>1, <1>2, <1>3, <1>4, <1>5, <1>6 DEF ReconcileStep

\* But for the death of the server, every step of the transaction is one operation of
\* the admission service, or leaves the service alone.
LEMMA TxIsAdmission ==
  ASSUME TxInv, Next, ~Crash
  PROVE  [AdmissionNext]_avars
  BY OpenIsAdmission, CloseIsAdmission, TeardownIsAdmission, WorldIsAdmission
     DEF Next, Serve

\* A new process has a new, empty admission service.
LEMMA ForgottenInv ==
  ASSUME ForgetAdmission
  PROVE  AdmissionInv' /\ snapGen' \in 0..MaxGen
  BY AdmissionAssumption
     DEF ForgetAdmission, AdmissionInv, AdmissionTypeOK, BindingsAreLive, ClosedCoversBindings,
         NoRetiredWorkWhenOpen, SnapshotAhead, None, TargetStates, HandleRecords, Ops,
         LiveStates, TerminalStates

-----------------------------------------------------------------------------
(* The types                                                                *)

\* What write_record writes for a session that open() is working on is a record.
LEMMA WrittenRecord ==
  ASSUME TxInv, NEW s \in Handles, NEW phase \in Phases, NEW pid \in BOOLEAN,
         pc[s] \notin {"idle", "dead"}, WriteOwn(s, phase, pid)
  PROVE  /\ record' \in Records
         /\ tombFile' \in Generations \cup {None}
         /\ booted' \in Generations \cup {0}
  <1>1. handle[s].generation \in Generations
    BY Generation
  <1>2. QED
    BY <1>1 DEF WriteOwn, Records, ExecStates, TxInv, TxTypeOK

\* open() keeps everything typed until it commits, ...
LEMMA OpenTypes ==
  ASSUME TxInv, NEW s \in Handles,
         \/ \E g \in Generations : OpenAdmit(s, g)
         \/ OpenGuard(s) \/ OpenLease(s) \/ OpenRecord(s) \/ OpenSpawn(s) \/ OpenPartial(s)
         \/ OpenReady(s) \/ OpenCommit(s) \/ OpenClearDurable(s) \/ OpenClearCache(s)
  PROVE  TxTypeOK'
  <1> USE TransactionAssumption
      DEF TxInv, TxTypeOK, OpenPoints, threads, lines, session, durable, world, Goto
  <1>1. CASE \E g \in Generations : OpenAdmit(s, g)
    BY <1>1 DEF OpenAdmit
  <1>2. CASE OpenGuard(s)
    BY <1>2 DEF OpenGuard
  <1>3. CASE OpenLease(s)
    BY <1>3 DEF OpenLease
  <1>4. CASE OpenRecord(s)
    <2>1. record' \in Records /\ tombFile' = tombFile /\ booted' = booted
      BY <1>4, WrittenRecord DEF OpenRecord, Phases, WriteOwn
    <2>2. QED
      BY <1>4, <2>1 DEF OpenRecord
  <1>5. CASE OpenSpawn(s)
    BY <1>5 DEF OpenSpawn
  <1>6. CASE OpenPartial(s)
    <2>1. record' \in Records /\ tombFile' = tombFile /\ booted' = booted
      BY <1>6, WrittenRecord DEF OpenPartial, Phases, WriteOwn
    <2>2. QED
      BY <1>6, <2>1 DEF OpenPartial
  <1>7. CASE OpenReady(s)
    <2>1. record' \in Records /\ tombFile' = tombFile /\ booted' = booted
      <3>1. (s \in Proxied) \in BOOLEAN /\ WriteOwn(s, "ready", s \in Proxied)
        BY <1>7 DEF OpenReady
      <3>2. QED
        BY <1>7, <3>1, WrittenRecord DEF OpenReady, Phases, WriteOwn
    <2>2. QED
      BY <1>7, <2>1 DEF OpenReady
  <1>8. CASE OpenCommit(s)
    BY <1>8 DEF OpenCommit
  <1>9. CASE OpenClearDurable(s)
    BY <1>9 DEF OpenClearDurable
  <1>10. CASE OpenClearCache(s)
    BY <1>10 DEF OpenClearCache
  <1>11. QED
    BY <1>1, <1>2, <1>3, <1>4, <1>5, <1>6, <1>7, <1>8, <1>9, <1>10

\* ... and when it fails and rolls back.
LEMMA RollbackTypes ==
  ASSUME TxInv, NEW s \in Handles,
         \/ OpenFail(s) \/ RollbackReap(s) \/ RollbackCheck(s) \/ RollbackUnlink(s)
         \/ RollbackLines(s) \/ RollbackAdmission(s)
  PROVE  TxTypeOK'
  <1> USE TransactionAssumption
      DEF TxInv, TxTypeOK, OpenPoints, threads, lines, session, durable, world, Goto
  <1>1. CASE OpenFail(s)
    BY <1>1 DEF OpenFail, Unwind
  <1>2. CASE RollbackReap(s)
    BY <1>2 DEF RollbackReap, BestEffortReap
  <1>3. CASE RollbackCheck(s)
    BY <1>3 DEF RollbackCheck
  <1>4. CASE RollbackUnlink(s)
    BY <1>4 DEF RollbackUnlink, Unlink
  <1>5. CASE RollbackLines(s)
    BY <1>5 DEF RollbackLines, Released
  <1>6. CASE RollbackAdmission(s)
    BY <1>6 DEF RollbackAdmission
  <1>7. QED
    BY <1>1, <1>2, <1>3, <1>4, <1>5, <1>6

\* close() and force_release() keep everything typed.
LEMMA CloseTypes ==
  ASSUME TxInv, NEW s \in Handles,
         \/ CloseStep(s) \/ Halt(s) \/ \E force \in BOOLEAN : CloseFind(s, force)
  PROVE  TxTypeOK'
  <1> USE TransactionAssumption
      DEF TxInv, TxTypeOK, OpenPoints, ClosePoints, threads, lines, session, durable, world,
          CloseGoto
  <1>0. cpc[s] \notin {"none", "done"} => handle[s].generation \in Generations
    BY Generation DEF SessionOk, OneThread
  <1>1. CASE Halt(s)
    BY <1>1 DEF Halt, OwnsRecord, Records, NoRecord
  <1>2. CASE \E force \in BOOLEAN : CloseFind(s, force)
    BY <1>2 DEF CloseFind, OwnsRecord, Records, NoRecord
  <1>3. CASE CloseWrite(s)
    <2>1. record' \in Records
      BY <1>0, <1>3 DEF CloseWrite, Records, Phases
    <2>2. QED
      BY <1>3, <2>1 DEF CloseWrite
  <1>4. CASE CloseWriteFail(s)
    BY <1>4 DEF CloseWriteFail
  <1>5. CASE CloseBackend(s)
    BY <1>5 DEF CloseBackend
  <1>6. CASE CloseLines(s)
    BY <1>0, <1>6 DEF CloseLines, DropLines, Released
  <1>7. CASE CloseComplete(s)
    BY <1>7 DEF CloseComplete
  <1>8. CASE CloseTombFile(s)
    BY <1>0, <1>8 DEF CloseTombFile
  <1>9. CASE CloseMark(s)
    BY <1>9 DEF CloseMark
  <1>10. CASE CloseCheck(s)
    BY <1>10 DEF CloseCheck
  <1>11. CASE CloseUnlink(s)
    BY <1>11 DEF CloseUnlink, Unlink
  <1>12. CASE CloseUnsubscribe(s)
    BY <1>12 DEF CloseUnsubscribe
  <1>13. CASE TeardownVerify(s)
    BY <1>13 DEF TeardownVerify
  <1>14. CASE ForceReleaseLines(s)
    <2>1. ParkUnmarked /\ OwnsRecord(s) =>
            parked' \in Generations \cup {None} /\ unmarked' \subseteq Generations
      BY <1>0 DEF ParkUnmarked, OwnsRecord, Records
    <2>2. QED
      BY <1>14, <2>1 DEF ForceReleaseLines, DropLines, Released
  <1>15. CASE ForceReleaseConfirm(s)
    BY <1>15 DEF ForceReleaseConfirm
  <1>16. CASE ForceReleaseAbandon(s)
    BY <1>16 DEF ForceReleaseAbandon
  <1>17. QED
    BY <1>1, <1>2, <1>3, <1>4, <1>5, <1>6, <1>7, <1>8, <1>9, <1>10, <1>11, <1>12, <1>13,
       <1>14, <1>15, <1>16 DEF CloseStep

\* So does the lifecycle teardown.
LEMMA TeardownTypes ==
  ASSUME TxInv, NEW s \in Handles, TeardownStep(s) \/ TeardownReap(s, "wedged")
  PROVE  TxTypeOK'
  <1> USE TransactionAssumption
      DEF TxInv, TxTypeOK, TeardownPoints, threads, lines, session, durable, world,
          TeardownGoto
  <1>1. ASSUME NEW from \in {"reap", "wedged"}, TeardownReap(s, from)
        PROVE  TxTypeOK'
    BY <1>1 DEF TeardownReap, BestEffortReap
  <1>2. CASE TeardownOverdue(s)
    BY <1>2 DEF TeardownOverdue
  <1>3. CASE ForceDropLines(s)
    BY <1>3 DEF ForceDropLines, Released
  <1>4. CASE ForceDropConfirm(s)
    BY <1>4 DEF ForceDropConfirm
  <1>5. CASE ForceDropAbandon(s)
    BY <1>5 DEF ForceDropAbandon
  <1>6. CASE ForceDropCheck(s)
    BY <1>6 DEF ForceDropCheck
  <1>7. CASE ForceDropUnlink(s)
    BY <1>7 DEF ForceDropUnlink, Unlink
  <1>8. CASE ForceDropUnsubscribe(s)
    BY <1>8 DEF ForceDropUnsubscribe
  <1>9. QED
    BY <1>1, <1>2, <1>3, <1>4, <1>5, <1>6, <1>7, <1>8 DEF TeardownStep

\* So do boots, invalidations and the restart of the server.
LEMMA WorldTypes ==
  ASSUME TxInv,
         \/ \E g \in Generations : Boot(g) \/ Invalidate(g)
         \/ Emit \/ ReopenAdmission \/ ReconcileStep \/ Crash
  PROVE  TxTypeOK'
  <1> USE TransactionAssumption
      DEF TxInv, TxTypeOK, threads, lines, session, durable, world
  <1>1. CASE \E g \in Generations : Boot(g) \/ Invalidate(g)
    BY <1>1 DEF Boot, Invalidate
  <1>2. CASE Emit
    BY <1>2 DEF Emit, TeardownPoints
  <1>3. CASE ReopenAdmission
    BY <1>3 DEF ReopenAdmission, tvars
  <1>4. CASE ReconcileTombstones
    BY <1>4 DEF ReconcileTombstones
  <1>5. CASE ReconcileReap
    BY <1>5 DEF ReconcileReap
  <1>6. CASE ReconcilePark
    BY <1>6 DEF ReconcilePark, Reconciled, Records
  <1>7. CASE ReconcileNotify
    BY <1>7 DEF ReconcileNotify
  <1>8. CASE ReconcileDelete
    BY <1>8 DEF ReconcileDelete, Unlink
  <1>9. CASE Crash
    BY <1>9 DEF Crash, OpenPoints, ClosePoints, TeardownPoints, Records, NoRecord
  <1>10. QED
    BY <1>1, <1>2, <1>3, <1>4, <1>5, <1>6, <1>7, <1>8, <1>9 DEF ReconcileStep

\* Every step keeps the types.
LEMMA TxTypes ==
  ASSUME TxInv, Next
  PROVE  TxTypeOK'
  BY OpenTypes, RollbackTypes, CloseTypes, TeardownTypes, WorldTypes
     DEF Next, Serve, OpenStep

-----------------------------------------------------------------------------
(* What a step leaves of another session                                    *)

\* The step leaves the threads of s, its lines, its registration and its process as
\* they are; the process may only go, or be given up.
Keeps(s) ==
    /\ pc'[s] = pc[s] /\ cpc'[s] = cpc[s] /\ vpc'[s] = vpc[s]
    /\ guard' = s <=> guard = s
    /\ lease' = s <=> lease = s
    /\ s \in tokens' <=> s \in tokens
    /\ s \in subscribers' <=> s \in subscribers
    /\ s \in bindings' <=> s \in bindings
    /\ handle'[s] = handle[s]
    /\ s \in backend' => s \in backend
    /\ Gone(s) => Gone(s)'

\* Such a step keeps what holds of s.
LEMMA KeepsOk ==
  ASSUME NEW s \in Handles, SessionOk(s), Keeps(s)
  PROVE  SessionOk(s)'
  <1> USE DEF SessionOk, Keeps
  <1>1. Begun(s)' /\ OneThread(s)'
    BY DEF Begun, OneThread
  <1>2. Acquired(s)'
    BY DEF Acquired, NoLines
  <1>3. InOrder(s)'
    BY DEF InOrder, NoLines, Reaped, LinesGone
  <1>4. QED
    BY <1>1, <1>2, <1>3

\* A registration is of one handle.
LEMMA RegisterKeeps ==
  ASSUME TxInv, NEW s \in Handles, NEW g \in Generations, Admit(s, g) \/ AdmitRecovery(s, g)
  PROVE  /\ \A x \in Handles \ {s} :
              (x \in bindings' <=> x \in bindings) /\ handle'[x] = handle[x]
         /\ s \in bindings' /\ handle'[s].generation = g
  BY DEF Admit, AdmitRecovery, CanAdmit, CanAdmitRecovery, BindSnapshot, Register, TxInv,
         AdmissionInv, AdmissionTypeOK

\* A disposal takes one handle out of the table.
LEMMA DisposeKeeps ==
  ASSUME NEW s \in Handles, Complete(s) \/ Rollback(s) \/ Abandon(s)
  PROVE  bindings' = bindings \ {s} /\ handle' = handle
  BY DEF Complete, Rollback, Abandon, Dispose

\* The other operations register and dispose of nothing.
LEMMA ServiceKeeps ==
  ASSUME \/ UNCHANGED avars
         \/ \E s \in Handles : Promote(s) \/ ConfirmReaped(s)
         \/ \E g \in Nat : \/ MarkRecoveryRequired(g) \/ ClearRecoveryRequired(g)
                           \/ CloseAdmission(g) \/ \E t \in TargetStates : PublishSnapshot(g, t)
         \/ Reopen
  PROVE  bindings' = bindings /\ handle' = handle
  BY DEF avars, Promote, ConfirmReaped, MarkRecoveryRequired, ClearRecoveryRequired,
         CloseAdmission, PublishSnapshot, Reopen

\* A release that is not of x takes nothing from x.
LEMMA ReleasedKeeps ==
  ASSUME NEW holder, NEW s \in Handles, NEW x \in Handles \ {s}
  PROVE  Released(holder, s) = x <=> holder = x
  BY TransactionAssumption DEF Released

-----------------------------------------------------------------------------
(* A thread of one session and the other sessions                           *)

\* What open() does to its session leaves every other session as it is.
LEMMA OpenKeeps ==
  ASSUME TxInv, NEW s \in Handles, NEW x \in Handles \ {s},
         OpenStep(s) \/ \E g \in Generations : OpenAdmit(s, g)
  PROVE  Keeps(x)
  <1> USE DEF Keeps, Gone, lines, session, durable, world, Goto
  <1>0. /\ x # s /\ x # Nobody /\ x \in Handles
        /\ pc \in [Handles -> OpenPoints]
    BY TransactionAssumption DEF TxInv, TxTypeOK
  <1>1. CASE \E g \in Generations : OpenAdmit(s, g)
    <2>1. (x \in bindings' <=> x \in bindings) /\ handle'[x] = handle[x]
      BY <1>1, RegisterKeeps DEF OpenAdmit
    <2>2. QED
      BY <1>0, <1>1, <2>1 DEF OpenAdmit
  <1>2. CASE OpenGuard(s)
    BY <1>0, <1>2 DEF OpenGuard, avars
  <1>3. CASE OpenLease(s)
    BY <1>0, <1>3 DEF OpenLease, avars
  <1>4. CASE OpenRecord(s) \/ OpenPartial(s) \/ OpenReady(s)
    BY <1>0, <1>4 DEF OpenRecord, OpenPartial, OpenReady, avars
  <1>5. CASE OpenSpawn(s)
    BY <1>0, <1>5 DEF OpenSpawn, avars
  <1>6. CASE OpenCommit(s)
    <2>1. bindings' = bindings /\ handle' = handle
      BY <1>6, ServiceKeeps DEF OpenCommit
    <2>2. QED
      BY <1>0, <1>6, <2>1 DEF OpenCommit
  <1>7. CASE OpenClearDurable(s)
    BY <1>0, <1>7 DEF OpenClearDurable, avars
  <1>8. CASE OpenClearCache(s)
    <2>1. bindings' = bindings /\ handle' = handle
      BY <1>8 DEF OpenClearCache, ClearRecoveryRequired, avars
    <2>2. QED
      BY <1>0, <1>8, <2>1 DEF OpenClearCache
  <1>9. CASE OpenFail(s)
    BY <1>0, <1>9 DEF OpenFail, avars
  <1>10. CASE RollbackReap(s)
    BY <1>0, <1>10 DEF RollbackReap, BestEffortReap, avars
  <1>11. CASE RollbackCheck(s) \/ RollbackUnlink(s)
    BY <1>0, <1>11 DEF RollbackCheck, RollbackUnlink, avars
  <1>12. CASE RollbackLines(s)
    BY <1>0, <1>12, ReleasedKeeps DEF RollbackLines, avars
  <1>13. CASE RollbackAdmission(s)
    <2>1. handle' = handle /\ (bindings' = bindings \/ bindings' = bindings \ {s})
      BY <1>13, DisposeKeeps DEF RollbackAdmission, avars
    <2>2. QED
      BY <1>0, <1>13, <2>1 DEF RollbackAdmission
  <1>14. QED
    BY <1>1, <1>2, <1>3, <1>4, <1>5, <1>6, <1>7, <1>8, <1>9, <1>10, <1>11, <1>12, <1>13
       DEF OpenStep

\* So does what close() and force_release() do to theirs.
LEMMA CloseKeeps ==
  ASSUME TxInv, NEW s \in Handles, NEW x \in Handles \ {s},
         \/ CloseStep(s) \/ Halt(s) \/ \E force \in BOOLEAN : CloseFind(s, force)
  PROVE  Keeps(x)
  <1> USE DEF Keeps, Gone, threads, lines, session, durable, world, CloseGoto
  <1>0. /\ x # s /\ x # Nobody /\ x \in Handles
        /\ pc \in [Handles -> OpenPoints] /\ cpc \in [Handles -> ClosePoints]
    BY TransactionAssumption DEF TxInv, TxTypeOK
  <1>1. CASE Halt(s)
    BY <1>0, <1>1 DEF Halt, avars
  <1>2. CASE \E force \in BOOLEAN : CloseFind(s, force)
    BY <1>0, <1>2 DEF CloseFind, avars
  <1>3. CASE CloseWrite(s) \/ CloseWriteFail(s)
    BY <1>0, <1>3 DEF CloseWrite, CloseWriteFail, avars
  <1>4. CASE CloseBackend(s)
    BY <1>0, <1>4 DEF CloseBackend, avars
  <1>5. CASE CloseLines(s)
    BY <1>0, <1>5, ReleasedKeeps DEF CloseLines, DropLines, avars
  <1>6. CASE CloseComplete(s)
    <2>1. handle' = handle /\ (bindings' = bindings \/ bindings' = bindings \ {s})
      BY <1>6, DisposeKeeps DEF CloseComplete, avars
    <2>2. QED
      BY <1>0, <1>6, <2>1 DEF CloseComplete
  <1>7. CASE CloseTombFile(s) \/ CloseCheck(s) \/ CloseUnlink(s)
    BY <1>0, <1>7 DEF CloseTombFile, CloseCheck, CloseUnlink, avars
  <1>8. CASE CloseMark(s)
    <2>1. bindings' = bindings /\ handle' = handle
      BY <1>8 DEF CloseMark, MarkRecoveryRequired, avars
    <2>2. QED
      BY <1>0, <1>8, <2>1 DEF CloseMark
  <1>9. CASE CloseUnsubscribe(s)
    BY <1>0, <1>9 DEF CloseUnsubscribe, avars
  <1>10. CASE TeardownVerify(s)
    BY <1>0, <1>10 DEF TeardownVerify, avars
  <1>11. CASE ForceReleaseLines(s)
    BY <1>0, <1>11, ReleasedKeeps DEF ForceReleaseLines, DropLines, avars
  <1>12. CASE ForceReleaseConfirm(s)
    <2>1. bindings' = bindings /\ handle' = handle
      BY <1>12, ServiceKeeps DEF ForceReleaseConfirm
    <2>2. QED
      BY <1>0, <1>12, <2>1 DEF ForceReleaseConfirm
  <1>13. CASE ForceReleaseAbandon(s)
    <2>1. handle' = handle /\ (bindings' = bindings \/ bindings' = bindings \ {s})
      BY <1>13, DisposeKeeps DEF ForceReleaseAbandon, avars
    <2>2. QED
      BY <1>0, <1>13, <2>1 DEF ForceReleaseAbandon
  <1>14. QED
    BY <1>1, <1>2, <1>3, <1>4, <1>5, <1>6, <1>7, <1>8, <1>9, <1>10, <1>11, <1>12, <1>13
       DEF CloseStep

\* So does the teardown of a session.
LEMMA TeardownKeeps ==
  ASSUME TxInv, NEW s \in Handles, NEW x \in Handles \ {s},
         TeardownStep(s) \/ TeardownReap(s, "wedged")
  PROVE  Keeps(x)
  <1> USE DEF Keeps, Gone, lines, session, durable, world, TeardownGoto
  <1>0. /\ x # s /\ x # Nobody /\ x \in Handles
        /\ vpc \in [Handles -> TeardownPoints]
    BY TransactionAssumption DEF TxInv, TxTypeOK
  <1>1. ASSUME NEW from \in {"reap", "wedged"}, TeardownReap(s, from)
        PROVE  Keeps(x)
    BY <1>0, <1>1 DEF TeardownReap, BestEffortReap, avars
  <1>2. CASE TeardownOverdue(s)
    BY <1>0, <1>2 DEF TeardownOverdue, avars
  <1>3. CASE ForceDropLines(s)
    BY <1>0, <1>3, ReleasedKeeps DEF ForceDropLines, avars
  <1>4. CASE ForceDropConfirm(s)
    <2>1. bindings' = bindings /\ handle' = handle
      BY <1>4, ServiceKeeps DEF ForceDropConfirm
    <2>2. QED
      BY <1>0, <1>4, <2>1 DEF ForceDropConfirm
  <1>5. CASE ForceDropAbandon(s)
    <2>1. handle' = handle /\ (bindings' = bindings \/ bindings' = bindings \ {s})
      BY <1>5, DisposeKeeps DEF ForceDropAbandon, avars
    <2>2. QED
      BY <1>0, <1>5, <2>1 DEF ForceDropAbandon
  <1>6. CASE ForceDropCheck(s) \/ ForceDropUnlink(s)
    BY <1>0, <1>6 DEF ForceDropCheck, ForceDropUnlink, avars
  <1>7. CASE ForceDropUnsubscribe(s)
    BY <1>0, <1>7 DEF ForceDropUnsubscribe, avars
  <1>8. QED
    BY <1>1, <1>2, <1>3, <1>4, <1>5, <1>6, <1>7 DEF TeardownStep

\* Boots, the close of admission and its reopening, and the restart leave every
\* session as it is.
LEMMA WorldKeeps ==
  ASSUME TxInv, NEW x \in Handles,
         \/ \E g \in Generations : Boot(g) \/ Invalidate(g)
         \/ ReopenAdmission \/ ReconcileStep
  PROVE  Keeps(x)
  <1> USE DEF Keeps, Gone, tvars, threads, lines, session, durable, world
  <1>1. CASE \E g \in Generations : Boot(g)
    BY <1>1 DEF Boot, PublishSnapshot
  <1>2. CASE \E g \in Generations : Invalidate(g)
    BY <1>2 DEF Invalidate, CloseAdmission
  <1>3. CASE ReopenAdmission
    BY <1>3 DEF ReopenAdmission, Reopen
  <1>4. CASE ReconcileTombstones
    BY <1>4 DEF ReconcileTombstones, MarkRecoveryRequired, avars
  <1>5. CASE ReconcileReap
    BY <1>5 DEF ReconcileReap, avars
  <1>6. CASE ReconcilePark
    BY <1>6 DEF ReconcilePark, MarkRecoveryRequired, avars
  <1>7. CASE ReconcileNotify
    BY <1>7 DEF ReconcileNotify, CloseAdmission
  <1>8. CASE ReconcileDelete
    BY <1>8 DEF ReconcileDelete, avars
  <1>9. QED
    BY <1>1, <1>2, <1>3, <1>4, <1>5, <1>6, <1>7, <1>8 DEF ReconcileStep

-----------------------------------------------------------------------------
(* A thread and its own session                                             *)

\* open() acquires in order, ...
LEMMA OpenOk ==
  ASSUME TxInv, NEW s \in Handles,
         \/ \E g \in Generations : OpenAdmit(s, g)
         \/ OpenGuard(s) \/ OpenLease(s) \/ OpenRecord(s) \/ OpenSpawn(s) \/ OpenPartial(s)
         \/ OpenReady(s) \/ OpenCommit(s) \/ OpenClearDurable(s) \/ OpenClearCache(s)
  PROVE  SessionOk(s)'
  <1> USE TransactionAssumption
      DEF SessionOk, Begun, OneThread, Acquired, InOrder, Reaped, LinesGone, NoLines, Gone,
          Acquiring, Uncommitted, lines, session, durable, world, Goto
  <1>0. /\ SessionOk(s) /\ pc \in [Handles -> OpenPoints] /\ s # Nobody
        /\ pc[s] # "dead" => handle[s].generation \in Generations \cup {None}
        /\ tokens \subseteq Handles /\ subscribers \subseteq Handles
    BY DEF TxInv, TxTypeOK
  <1>1. CASE \E g \in Generations : OpenAdmit(s, g)
    <2>1. PICK g \in Generations : OpenAdmit(s, g)
      BY <1>1
    <2>2. s \in bindings' /\ handle'[s].generation = g
      BY <2>1, RegisterKeeps DEF OpenAdmit
    <2>3. QED
      BY <1>0, <2>1, <2>2 DEF OpenAdmit
  <1>2. CASE OpenGuard(s)
    BY <1>0, <1>2 DEF OpenGuard, avars
  <1>3. CASE OpenLease(s)
    BY <1>0, <1>3 DEF OpenLease, avars
  <1>4. CASE OpenRecord(s)
    BY <1>0, <1>4 DEF OpenRecord, avars
  <1>5. CASE OpenSpawn(s)
    BY <1>0, <1>5 DEF OpenSpawn, avars
  <1>6. CASE OpenPartial(s)
    BY <1>0, <1>6 DEF OpenPartial, avars
  <1>7. CASE OpenReady(s)
    BY <1>0, <1>7 DEF OpenReady, avars
  <1>8. CASE OpenCommit(s)
    <2>1. bindings' = bindings /\ handle' = handle
      BY <1>8, ServiceKeeps DEF OpenCommit
    <2>2. QED
      BY <1>0, <1>8, <2>1 DEF OpenCommit
  <1>9. CASE OpenClearDurable(s)
    BY <1>0, <1>9 DEF OpenClearDurable, avars
  <1>10. CASE OpenClearCache(s)
    <2>1. bindings' = bindings /\ handle' = handle
      BY <1>10 DEF OpenClearCache, ClearRecoveryRequired, avars
    <2>2. QED
      BY <1>0, <1>10, <2>1 DEF OpenClearCache
  <1>11. QED
    BY <1>1, <1>2, <1>3, <1>4, <1>5, <1>6, <1>7, <1>8, <1>9, <1>10

\* ... and _rollback releases in the reverse order.
LEMMA RollbackOk ==
  ASSUME TxInv, NEW s \in Handles,
         \/ OpenFail(s) \/ RollbackReap(s) \/ RollbackCheck(s) \/ RollbackUnlink(s)
         \/ RollbackLines(s) \/ RollbackAdmission(s)
  PROVE  SessionOk(s)'
  <1> USE TransactionAssumption
      DEF SessionOk, Begun, OneThread, Acquired, InOrder, Reaped, LinesGone, NoLines, Gone,
          Acquiring, Uncommitted, lines, session, durable, world, Goto
  <1>0. SessionOk(s) /\ pc \in [Handles -> OpenPoints] /\ s # Nobody
    BY DEF TxInv, TxTypeOK
  <1>1. CASE OpenFail(s)
    BY <1>0, <1>1 DEF OpenFail, Unwind, avars
  <1>2. CASE RollbackReap(s)
    BY <1>0, <1>2 DEF RollbackReap, BestEffortReap, avars
  <1>3. CASE RollbackCheck(s)
    BY <1>0, <1>3 DEF RollbackCheck, avars
  <1>4. CASE RollbackUnlink(s)
    BY <1>0, <1>4 DEF RollbackUnlink, avars
  <1>5. CASE RollbackLines(s)
    BY <1>0, <1>5 DEF RollbackLines, Released, avars
  <1>6. CASE RollbackAdmission(s)
    <2>1. handle' = handle /\ (bindings' = bindings \/ bindings' = bindings \ {s})
      BY <1>6, DisposeKeeps DEF RollbackAdmission, avars
    <2>2. QED
      BY <1>0, <1>6, <2>1 DEF RollbackAdmission
  <1>7. QED
    BY <1>1, <1>2, <1>3, <1>4, <1>5, <1>6

\* close() and force_release() release the lines before they complete or abandon; a
\* process that force_release leaves is given up.
LEMMA CloseOk ==
  ASSUME TxInv, NEW s \in Handles,
         \/ CloseStep(s) \/ Halt(s) \/ \E force \in BOOLEAN : CloseFind(s, force)
  PROVE  SessionOk(s)'
  <1> USE TransactionAssumption
      DEF SessionOk, Begun, OneThread, Acquired, InOrder, Reaped, LinesGone, NoLines, Gone,
          Acquiring, Uncommitted, threads, lines, session, durable, world, CloseGoto,
          ClosePoints
  <1>0. /\ SessionOk(s) /\ pc \in [Handles -> OpenPoints] /\ cpc \in [Handles -> ClosePoints]
        /\ s # Nobody
    BY DEF TxInv, TxTypeOK
  <1>1. CASE Halt(s)
    BY <1>0, <1>1 DEF Halt, avars
  <1>2. CASE \E force \in BOOLEAN : CloseFind(s, force)
    BY <1>0, <1>2 DEF CloseFind, avars
  <1>3. CASE CloseWrite(s) \/ CloseWriteFail(s)
    BY <1>0, <1>3 DEF CloseWrite, CloseWriteFail, avars
  <1>4. CASE CloseBackend(s)
    BY <1>0, <1>4 DEF CloseBackend, avars
  <1>5. CASE CloseLines(s)
    BY <1>0, <1>5 DEF CloseLines, DropLines, Released, avars
  <1>6. CASE CloseComplete(s)
    <2>1. handle' = handle /\ (bindings' = bindings \/ bindings' = bindings \ {s})
      BY <1>6, DisposeKeeps DEF CloseComplete, avars
    <2>2. QED
      BY <1>0, <1>6, <2>1 DEF CloseComplete
  <1>7. CASE CloseTombFile(s) \/ CloseCheck(s) \/ CloseUnlink(s)
    BY <1>0, <1>7 DEF CloseTombFile, CloseCheck, CloseUnlink, avars
  <1>8. CASE CloseMark(s)
    <2>1. bindings' = bindings /\ handle' = handle
      BY <1>8 DEF CloseMark, MarkRecoveryRequired, avars
    <2>2. QED
      BY <1>0, <1>8, <2>1 DEF CloseMark
  <1>9. CASE CloseUnsubscribe(s)
    BY <1>0, <1>9 DEF CloseUnsubscribe, avars
  <1>10. CASE TeardownVerify(s)
    BY <1>0, <1>10 DEF TeardownVerify, avars
  <1>11. CASE ForceReleaseLines(s)
    BY <1>0, <1>11 DEF ForceReleaseLines, DropLines, Released, avars
  <1>12. CASE ForceReleaseConfirm(s)
    <2>1. bindings' = bindings /\ handle' = handle
      BY <1>12, ServiceKeeps DEF ForceReleaseConfirm
    <2>2. QED
      BY <1>0, <1>12, <2>1 DEF ForceReleaseConfirm
  <1>13. CASE ForceReleaseAbandon(s)
    <2>1. handle' = handle /\ (bindings' = bindings \/ bindings' = bindings \ {s})
      BY <1>13, DisposeKeeps DEF ForceReleaseAbandon, avars
    <2>2. QED
      BY <1>0, <1>13, <2>1 DEF ForceReleaseAbandon
  <1>14. QED
    BY <1>1, <1>2, <1>3, <1>4, <1>5, <1>6, <1>7, <1>8, <1>9, <1>10, <1>11, <1>12, <1>13
       DEF CloseStep

\* So does the lifecycle teardown: it reaps or gives up, drops the lines, then
\* confirms and abandons.
LEMMA TeardownOk ==
  ASSUME TxInv, NEW s \in Handles, TeardownStep(s) \/ TeardownReap(s, "wedged")
  PROVE  SessionOk(s)'
  <1> USE TransactionAssumption
      DEF SessionOk, Begun, OneThread, Acquired, InOrder, Reaped, LinesGone, NoLines, Gone,
          Acquiring, Uncommitted, lines, session, durable, world, TeardownGoto,
          TeardownPoints
  <1>0. /\ SessionOk(s) /\ vpc \in [Handles -> TeardownPoints] /\ s # Nobody
    BY DEF TxInv, TxTypeOK
  <1>1. ASSUME NEW from \in {"reap", "wedged"}, TeardownReap(s, from)
        PROVE  SessionOk(s)'
    BY <1>0, <1>1 DEF TeardownReap, BestEffortReap, avars
  <1>2. CASE TeardownOverdue(s)
    BY <1>0, <1>2 DEF TeardownOverdue, avars
  <1>3. CASE ForceDropLines(s)
    BY <1>0, <1>3 DEF ForceDropLines, Released, avars
  <1>4. CASE ForceDropConfirm(s)
    <2>1. bindings' = bindings /\ handle' = handle
      BY <1>4, ServiceKeeps DEF ForceDropConfirm
    <2>2. QED
      BY <1>0, <1>4, <2>1 DEF ForceDropConfirm
  <1>5. CASE ForceDropAbandon(s)
    <2>1. handle' = handle /\ (bindings' = bindings \/ bindings' = bindings \ {s})
      BY <1>5, DisposeKeeps DEF ForceDropAbandon, avars
    <2>2. QED
      BY <1>0, <1>5, <2>1 DEF ForceDropAbandon
  <1>6. CASE ForceDropCheck(s) \/ ForceDropUnlink(s)
    BY <1>0, <1>6 DEF ForceDropCheck, ForceDropUnlink, avars
  <1>7. CASE ForceDropUnsubscribe(s)
    BY <1>0, <1>7 DEF ForceDropUnsubscribe, avars
  <1>8. QED
    BY <1>1, <1>2, <1>3, <1>4, <1>5, <1>6, <1>7 DEF TeardownStep

\* emit starts a teardown for committed sessions only.
LEMMA EmitOk ==
  ASSUME TxInv, NEW s \in Handles, Emit
  PROVE  SessionOk(s)'
  <1>1. /\ SessionOk(s) /\ vpc \in [Handles -> TeardownPoints]
        /\ vpc'[s] = IF s \in subscribers /\ vpc[s] # "wedged" THEN "reap" ELSE vpc[s]
        /\ UNCHANGED <<avars, pc, cpc, lines, subscribers, world>>
    BY DEF TxInv, TxTypeOK, Emit
  <1>2. QED
    BY <1>1
       DEF SessionOk, Begun, OneThread, Acquired, InOrder, Reaped, LinesGone, NoLines, Gone,
           Acquiring, Uncommitted, TeardownPoints, avars, lines, world

\* The death of the server leaves sessions that never began and sessions that are dead.
LEMMA CrashOk ==
  ASSUME TxInv, NEW s \in Handles, Crash
  PROVE  SessionOk(s)'
  <1>1. /\ SessionOk(s) /\ s # Nobody
        /\ pc'[s] = IF pc[s] = "idle" THEN "idle" ELSE "dead"
        /\ cpc'[s] = "none" /\ vpc'[s] = "none" /\ handle'[s].generation = None
        /\ guard' = Nobody /\ lease' = Nobody /\ subscribers' = {} /\ backend' = backend
    BY TransactionAssumption DEF TxInv, Crash, ForgetAdmission
  <1>2. QED
    BY <1>1
       DEF SessionOk, Begun, OneThread, Acquired, InOrder, Reaped, LinesGone, NoLines, Gone,
           Acquiring, Uncommitted

-----------------------------------------------------------------------------
(* The invariant                                                            *)

\* A boot publishes a generation within the bounds.
LEMMA PublishedStep ==
  ASSUME TxInv, Next
  PROVE  snapGen' \in 0..MaxGen
  <1> USE AdmissionAssumption DEF TxInv
  <1>1. CASE Crash
    BY <1>1, ForgottenInv DEF Crash
  <1>2. CASE ~Crash
    <2>1. [AdmissionNext]_avars
      BY <1>2, TxIsAdmission
    <2>2. snapGen' = snapGen \/ snapGen' \in Generations
      BY <2>1 DEF AdmissionNext, avars, PublishSnapshot, NoteExecutionTransition,
         CancelSshTier, CloseAdmission, MarkRecoveryRequired, ClearRecoveryRequired, Admit,
         AdmitRecovery, AdmitSshTier, Register, Promote, Complete, Rollback, Abandon,
         Dispose, ConfirmReaped, Reopen
    <2>3. QED
      BY <2>2 DEF Generations
  <1>3. QED
    BY <1>1, <1>2

\* While the restart parks and notifies, the record it found stays.
LEMMA ReconciledStep ==
  ASSUME TxInv, Next
  PROVE  Reconciled'
  <1> USE DEF TxInv, Reconciled
  <1>1. CASE Crash
    BY <1>1 DEF Crash
  <1>2. CASE server # "up" /\ ReconcileStep
    BY <1>2 DEF ReconcileStep, ReconcileTombstones, ReconcileReap, ReconcilePark,
       ReconcileNotify, ReconcileDelete, durable, TxTypeOK
  <1>3. CASE server = "up" /\ Serve
    <2>1. server' = server
      <3>1. ASSUME NEW s \in Handles,
                   \/ OpenStep(s) \/ \E g \in Generations : OpenAdmit(s, g)
            PROVE  server' = server
        BY <3>1 DEF OpenStep, OpenAdmit, OpenGuard, OpenLease, OpenRecord, OpenSpawn,
           OpenPartial, OpenReady, OpenCommit, OpenClearDurable, OpenClearCache, OpenFail,
           RollbackReap, BestEffortReap, RollbackCheck, RollbackUnlink, RollbackLines,
           RollbackAdmission, world
      <3>2. ASSUME NEW s \in Handles,
                   \/ CloseStep(s) \/ Halt(s) \/ \E force \in BOOLEAN : CloseFind(s, force)
            PROVE  server' = server
        BY <3>2 DEF CloseStep, Halt, CloseFind, CloseWrite, CloseWriteFail, CloseBackend,
           CloseLines, CloseComplete, CloseTombFile, CloseMark, CloseCheck, CloseUnlink,
           CloseUnsubscribe, TeardownVerify, ForceReleaseLines, ForceReleaseConfirm,
           ForceReleaseAbandon, world
      <3>3. ASSUME NEW s \in Handles, TeardownStep(s) \/ TeardownReap(s, "wedged")
            PROVE  server' = server
        BY <3>3 DEF TeardownStep, TeardownReap, BestEffortReap, TeardownOverdue,
           ForceDropLines, ForceDropConfirm, ForceDropAbandon, ForceDropCheck,
           ForceDropUnlink, ForceDropUnsubscribe, world
      <3>4. CASE \/ \E g \in Generations : Boot(g) \/ Invalidate(g)
                 \/ Emit \/ ReopenAdmission
        BY <3>4 DEF Boot, Invalidate, Emit, ReopenAdmission, tvars, world
      <3>5. QED
        BY <1>3, <3>1, <3>2, <3>3, <3>4 DEF Serve
    <2>2. QED
      BY <1>3, <2>1
  <1>4. QED
    BY <1>1, <1>2, <1>3 DEF Next

\* Every step keeps what holds of every session.
LEMMA SessionsStep ==
  ASSUME TxInv, Next, NEW x \in Handles
  PROVE  SessionOk(x)'
  <1>1. Keeps(x) => SessionOk(x)'
    BY KeepsOk DEF TxInv
  <1>2. ASSUME NEW s \in Handles, OpenStep(s) \/ \E g \in Generations : OpenAdmit(s, g)
        PROVE  SessionOk(x)'
    BY <1>1, <1>2, OpenKeeps, OpenOk, RollbackOk DEF OpenStep
  <1>3. ASSUME NEW s \in Handles,
               \/ CloseStep(s) \/ Halt(s) \/ \E force \in BOOLEAN : CloseFind(s, force)
        PROVE  SessionOk(x)'
    BY <1>1, <1>3, CloseKeeps, CloseOk
  <1>4. ASSUME NEW s \in Handles, TeardownStep(s) \/ TeardownReap(s, "wedged")
        PROVE  SessionOk(x)'
    BY <1>1, <1>4, TeardownKeeps, TeardownOk
  <1>5. CASE \/ \E g \in Generations : Boot(g) \/ Invalidate(g)
             \/ ReopenAdmission \/ ReconcileStep
    BY <1>1, <1>5, WorldKeeps
  <1>6. CASE Emit
    BY <1>6, EmitOk
  <1>7. CASE Crash
    BY <1>7, CrashOk
  <1>8. QED
    BY <1>2, <1>3, <1>4, <1>5, <1>6, <1>7 DEF Next, Serve

\* The inductive step.
LEMMA TxNext == TxInv /\ [Next]_vars => TxInv'
  <1> SUFFICES ASSUME TxInv, [Next]_vars PROVE TxInv'
    OBVIOUS
  <1>1. CASE Next
    <2>1. AdmissionInv'
      <3>1. CASE Crash
        BY <3>1, ForgottenInv DEF Crash
      <3>2. CASE ~Crash
        BY <1>1, <3>2, TxIsAdmission, NextInv DEF TxInv
      <3>3. QED
        BY <3>1, <3>2
    <2>2. QED
      BY <1>1, <2>1, TxTypes, PublishedStep, ReconciledStep, SessionsStep DEF TxInv
  <1>2. CASE UNCHANGED vars
    <2>1. AdmissionInv'
      BY <1>2, NextInv DEF TxInv, vars
    <2>2. TxTypeOK' /\ snapGen' = snapGen /\ Reconciled'
      BY <1>2 DEF TxInv, TxTypeOK, Reconciled, vars, avars, tvars, threads, lines, session,
                  durable, world
    <2>3. ASSUME NEW x \in Handles PROVE SessionOk(x)'
      <3>1. Keeps(x)
        BY <1>2 DEF Keeps, Gone, vars, avars, tvars, threads, lines, session, world
      <3>2. QED
        BY <3>1, KeepsOk DEF TxInv
    <2>4. QED
      BY <2>1, <2>2, <2>3 DEF TxInv
  <1>3. QED
    BY <1>1, <1>2

\* Whatever opens, closes, teardowns, boots and crashes overlap, a session holds what
\* its thread has acquired and gives it up in order: its process, its lines, its
\* registration.
THEOREM TransactionInvariant == Spec => []TxInv
  BY TxInit, TxNext, PTL DEF Spec

\* The transaction's, the registry's and the environment's state keep their types.
THEOREM TransactionIsTyped == Spec => []TxTypeOK
  <1>1. TxInv => TxTypeOK
    BY DEF TxInv
  <1>2. QED
    BY <1>1, TransactionInvariant, PTL

\* reopen() waits for the bindings to drain: what an earlier incarnation held when its
\* registration went was released before, whichever thread ended it.
THEOREM NoPriorResources == Spec => []NoPriorIncarnationResources
  <1>1. TxInv => NoPriorIncarnationResources
    <2> SUFFICES ASSUME TxInv, closedAt = None, NEW s \in Handles,
                        handle[s].generation # None, handle[s].generation <= retired
                 PROVE  NoLines(s) /\ Gone(s)
      BY DEF NoPriorIncarnationResources, NoLines, Gone
    <2>1. pc[s] # "dead"
      BY DEF TxInv, SessionOk, Begun
    <2>2. s \notin bindings
      BY DEF TxInv, AdmissionInv, AdmissionTypeOK, HandleRecords, NoRetiredWorkWhenOpen
    <2>3. QED
      BY <2>1, <2>2 DEF TxInv, SessionOk, InOrder
  <1>2. QED
    BY <1>1, TransactionInvariant, PTL

\* Unless a predecessor's process is left over, whoever's process is alive holds the
\* guard: from before the spawn until after the kill.
LEMMA LiveUnlessOrphan == TxInv /\ RestartReapsOrphans => LiveBackendHoldsGuard
  <1> SUFFICES ASSUME TxInv, RestartReapsOrphans, server = "up",
                      NEW s \in backend \ (stranded \cup forced)
               PROVE  guard = s
    BY DEF LiveBackendHoldsGuard
  <1>1. s \in Handles
    BY TransactionAssumption DEF TxInv, TxTypeOK
  <1>2. pc[s] # "dead"
    BY DEF RestartReapsOrphans
  <1>3. QED
    BY <1>1, <1>2 DEF TxInv, SessionOk, InOrder, Gone

\* As long as the server lives no two owned backends are ever on the target, however
\* opens, closes, forced releases and teardowns overlap.
THEOREM LiveBackendsHoldGuard ==
  ASSUME "crash" \notin Faults
  PROVE  Spec => []LiveBackendHoldsGuard
  <1> DEFINE NoneDead == \A s \in Handles : pc[s] # "dead"
  <1>1. Init => NoneDead
    BY DEF Init
  <1>2. TxInv /\ NoneDead /\ [Next]_vars => NoneDead'
    <2> SUFFICES ASSUME TxInv, NoneDead, [Next]_vars, NEW x \in Handles
                 PROVE  pc'[x] # "dead"
      OBVIOUS
    <2>1. ASSUME NEW s \in Handles, OpenStep(s) \/ \E g \in Generations : OpenAdmit(s, g)
          PROVE  pc'[x] # "dead"
      <3> USE DEF Goto, TxInv, TxTypeOK, OpenPoints
      <3>1. CASE \E g \in Generations : OpenAdmit(s, g)
        BY <3>1 DEF OpenAdmit
      <3>2. CASE OpenFail(s)
        <4>1. Unwind[pc[s]] # "dead"
          BY <3>2 DEF OpenFail, Unwind
        <4>2. QED
          BY <3>2, <4>1 DEF OpenFail
      <3>3. CASE OpenGuard(s) \/ OpenLease(s) \/ OpenRecord(s) \/ OpenSpawn(s)
        BY <3>3 DEF OpenGuard, OpenLease, OpenRecord, OpenSpawn
      <3>4. CASE OpenPartial(s) \/ OpenReady(s) \/ OpenClearDurable(s) \/ OpenClearCache(s)
        BY <3>4 DEF OpenPartial, OpenReady, OpenClearDurable, OpenClearCache
      <3>5. CASE OpenCommit(s)
        BY <3>5 DEF OpenCommit
      <3>6. CASE \/ RollbackReap(s) \/ RollbackCheck(s) \/ RollbackUnlink(s)
                 \/ RollbackLines(s) \/ RollbackAdmission(s)
        BY <3>6 DEF RollbackReap, RollbackCheck, RollbackUnlink, RollbackLines,
           RollbackAdmission
      <3>7. QED
        BY <2>1, <3>1, <3>2, <3>3, <3>4, <3>5, <3>6 DEF OpenStep
    <2>2. ASSUME NEW s \in Handles,
                 \/ CloseStep(s) \/ Halt(s) \/ \E force \in BOOLEAN : CloseFind(s, force)
          PROVE  pc'[x] # "dead"
      BY <2>2 DEF CloseStep, Halt, CloseFind, CloseWrite, CloseWriteFail, CloseBackend,
         CloseLines, CloseComplete, CloseTombFile, CloseMark, CloseCheck, CloseUnlink,
         CloseUnsubscribe, TeardownVerify, ForceReleaseLines, ForceReleaseConfirm,
         ForceReleaseAbandon, threads, TxInv, TxTypeOK
    <2>3. ASSUME NEW s \in Handles, TeardownStep(s) \/ TeardownReap(s, "wedged")
          PROVE  pc'[x] # "dead"
      BY <2>3 DEF TeardownStep, TeardownReap, TeardownOverdue, ForceDropLines,
         ForceDropConfirm, ForceDropAbandon, ForceDropCheck, ForceDropUnlink,
         ForceDropUnsubscribe
    <2>4. CASE \/ \E g \in Generations : Boot(g) \/ Invalidate(g)
               \/ Emit \/ ReopenAdmission \/ UNCHANGED vars
      BY <2>4 DEF Boot, Invalidate, Emit, ReopenAdmission, tvars, threads, vars
    <2>5. CASE ReconcileStep
      BY <2>5, WorldKeeps DEF Keeps
    <2>6. ~Crash
      BY DEF Crash
    <2>7. QED
      BY <2>1, <2>2, <2>3, <2>4, <2>5, <2>6 DEF Next, Serve
  <1>3. TxInv /\ NoneDead => LiveBackendHoldsGuard
    BY LiveUnlessOrphan, TransactionAssumption DEF RestartReapsOrphans, TxInv, TxTypeOK
  <1>4. QED
    BY <1>1, <1>2, <1>3, TransactionInvariant, PTL DEF Spec

-----------------------------------------------------------------------------
(* Without invalidations                                                    *)

\* No invalidate_lifecycle while the server serves: nothing in the code calls it
\* outside the restart, which closes admission of an empty table.
Undisturbed == "invalidate" \notin Faults

\* Nothing is torn down or cancelled; admission is closed and the server restarts only
\* with an empty table.
Untorn ==
    /\ ~emitting
    /\ \A s \in Handles : vpc[s] = "none" /\ handle[s].op = "transport_open"
    /\ cancelled = {}
    /\ closedAt # None \/ server # "up" => bindings = {}
    /\ server # "up" => \A s \in Handles : pc[s] \in {"idle", "dead"}

\* Points of a close() before it has released the lines.
Holding == {"none", "found", "closing", "lines", "raised", "fr_lines"}

\* The session is committed, and no thread has begun to end it.
Committed(s) ==
    \/ pc[s] \in {"clearing", "uncaching"}
    \/ pc[s] = "open" /\ cpc[s] \in Holding

\* Points past the disposal of the handle by close() and by force_release().
Dropped == {"tomb", "mark", "check", "unlink", "unsubscribe", "fr_abandon"}

\* A committed session keeps its guard, its handle and its registration until its own
\* close() gives them up.
Kept(s) ==
    /\ Committed(s) \/ pc[s] \in {"rb_reap", "rb_check", "rb_unlink"} => guard = s
    /\ Committed(s) \/ cpc[s] = "complete" => s \in table /\ state[s] = "promoted"
    /\ \/ pc[s] \in {"failed", "closed"}
       \/ cpc[s] \in Dropped \cup {"fr_confirm"}
       => s \in forced \/ s \notin bindings
    /\ \/ pc[s] \in Uncommitted \cup {"rb_unlink", "rb_lines", "rb_admission", "failed", "closed"}
       \/ cpc[s] \in Dropped
       => s \notin table

UndisturbedInv == Untorn /\ \A s \in Handles : Kept(s)

\* The step leaves of s also its handle in the table and its admission state.
Leaves(s) ==
    /\ Keeps(s)
    /\ s \in table' <=> s \in table
    /\ state'[s] = state[s]
    /\ s \in forced => s \in forced'

\* Such a step keeps what a committed session has.
LEMMA LeavesKept ==
  ASSUME NEW s \in Handles, Kept(s), Leaves(s)
  PROVE  Kept(s)'
  BY DEF Kept, Leaves, Keeps, Committed, Dropped, Uncommitted, Acquiring

\* A registration, a promotion and a disposal move one handle.
LEMMA MovesOne ==
  ASSUME TxInv, NEW s \in Handles, NEW x \in Handles \ {s},
         \/ \E g \in Generations : Admit(s, g) \/ AdmitRecovery(s, g)
         \/ Promote(s) \/ Complete(s) \/ Rollback(s) \/ Abandon(s) \/ ConfirmReaped(s)
         \/ UNCHANGED avars
  PROVE  state'[x] = state[x]
  BY DEF TxInv, AdmissionInv, AdmissionTypeOK, Admit, AdmitRecovery, Register, Promote,
         Complete, Rollback, Abandon, Dispose, ConfirmReaped, avars

\* What open() does to its session leaves every other session its place.
LEMMA OpenLeaves ==
  ASSUME TxInv, NEW s \in Handles, NEW x \in Handles \ {s},
         OpenStep(s) \/ \E g \in Generations : OpenAdmit(s, g)
  PROVE  Leaves(x)
  <1>1. Keeps(x) /\ x # s
    BY OpenKeeps
  <1>2. (x \in table' <=> x \in table) /\ (x \in forced => x \in forced')
    BY <1>1 DEF OpenStep, OpenAdmit, OpenGuard, OpenLease, OpenRecord, OpenSpawn, OpenPartial,
       OpenReady, OpenCommit, OpenClearDurable, OpenClearCache, OpenFail, RollbackReap,
       BestEffortReap, RollbackCheck, RollbackUnlink, RollbackLines, RollbackAdmission,
       session, world
  <1>3. state'[x] = state[x]
    <2>1. CASE \E g \in Generations : OpenAdmit(s, g)
      BY <2>1, MovesOne DEF OpenAdmit
    <2>2. CASE \/ OpenGuard(s) \/ OpenLease(s) \/ OpenRecord(s) \/ OpenSpawn(s)
               \/ OpenPartial(s) \/ OpenReady(s) \/ OpenClearDurable(s) \/ OpenFail(s)
               \/ RollbackReap(s) \/ RollbackCheck(s) \/ RollbackUnlink(s) \/ RollbackLines(s)
      BY <2>2 DEF OpenGuard, OpenLease, OpenRecord, OpenSpawn, OpenPartial, OpenReady,
         OpenClearDurable, OpenFail, RollbackReap, RollbackCheck, RollbackUnlink,
         RollbackLines, avars
    <2>3. CASE OpenCommit(s)
      BY <2>3, MovesOne DEF OpenCommit
    <2>4. CASE OpenClearCache(s)
      BY <2>4 DEF OpenClearCache, ClearRecoveryRequired, avars
    <2>5. CASE RollbackAdmission(s)
      BY <2>5, MovesOne DEF RollbackAdmission
    <2>6. QED
      BY <2>1, <2>2, <2>3, <2>4, <2>5 DEF OpenStep
  <1>4. QED
    BY <1>1, <1>2, <1>3 DEF Leaves

\* So does what close() and force_release() do to theirs.
LEMMA CloseLeaves ==
  ASSUME TxInv, NEW s \in Handles, NEW x \in Handles \ {s},
         \/ CloseStep(s) \/ Halt(s) \/ \E force \in BOOLEAN : CloseFind(s, force)
  PROVE  Leaves(x)
  <1>1. Keeps(x) /\ x # s
    BY CloseKeeps
  <1>2. (x \in table' <=> x \in table) /\ (x \in forced => x \in forced')
    BY <1>1 DEF CloseStep, Halt, CloseFind, CloseWrite, CloseWriteFail, CloseBackend,
       CloseLines, CloseComplete, CloseTombFile, CloseMark, CloseCheck, CloseUnlink,
       CloseUnsubscribe, TeardownVerify, ForceReleaseLines, ForceReleaseConfirm,
       ForceReleaseAbandon, session, world
  <1>3. state'[x] = state[x]
    <2>1. CASE \/ \E force \in BOOLEAN : CloseFind(s, force)
               \/ Halt(s) \/ CloseWrite(s) \/ CloseWriteFail(s) \/ CloseBackend(s)
               \/ CloseLines(s) \/ CloseTombFile(s) \/ CloseCheck(s) \/ CloseUnlink(s)
               \/ CloseUnsubscribe(s) \/ TeardownVerify(s) \/ ForceReleaseLines(s)
      BY <2>1 DEF CloseFind, Halt, CloseWrite, CloseWriteFail, CloseBackend, CloseLines,
         CloseTombFile, CloseCheck, CloseUnlink, CloseUnsubscribe, TeardownVerify,
         ForceReleaseLines, avars
    <2>2. CASE CloseComplete(s)
      BY <2>2, MovesOne DEF CloseComplete
    <2>3. CASE CloseMark(s)
      BY <2>3 DEF CloseMark, MarkRecoveryRequired, avars
    <2>4. CASE ForceReleaseConfirm(s)
      BY <2>4, MovesOne DEF ForceReleaseConfirm
    <2>5. CASE ForceReleaseAbandon(s)
      BY <2>5, MovesOne DEF ForceReleaseAbandon
    <2>6. QED
      BY <2>1, <2>2, <2>3, <2>4, <2>5 DEF CloseStep
  <1>4. QED
    BY <1>1, <1>2, <1>3 DEF Leaves

\* So do boots, the reopening of admission and the restart.
LEMMA WorldLeaves ==
  ASSUME TxInv, NEW x \in Handles,
         (\E g \in Generations : Boot(g)) \/ ReopenAdmission \/ ReconcileStep
  PROVE  Leaves(x)
  <1>1. Keeps(x)
    BY WorldKeeps
  <1>2. table' = table /\ forced' = forced /\ state' = state
    BY DEF Boot, PublishSnapshot, ReopenAdmission, Reopen, ReconcileStep,
       ReconcileTombstones, ReconcileReap, ReconcilePark, ReconcileNotify, ReconcileDelete,
       MarkRecoveryRequired, CloseAdmission, tvars, session, world, avars
  <1>3. QED
    BY <1>1, <1>2 DEF Leaves

\* open() commits its session with the guard held, ...
LEMMA OpenKept ==
  ASSUME TxInv, UndisturbedInv, NEW s \in Handles,
         OpenStep(s) \/ \E g \in Generations : OpenAdmit(s, g)
  PROVE  Kept(s)'
  <1> USE DEF Kept, Committed, Dropped, Holding, Uncommitted, Acquiring, Goto, lines, session,
              durable, world, None
  <1>0. /\ Kept(s) /\ OneThread(s) /\ Acquired(s) /\ pc \in [Handles -> OpenPoints]
        /\ table \subseteq Handles
        /\ pc[s] # "open" => cpc[s] \in {"none", "done"}
        /\ pc[s] \notin {"closed", "open"} => cpc[s] = "none"
        /\ state \in [Handles -> {"none"} \cup LiveStates \cup TerminalStates]
    <2>1. cpc[s] \notin {"none", "done"} => pc[s] = "open"
      BY DEF TxInv, SessionOk, OneThread
    <2>2. QED
      BY <2>1 DEF TxInv, TxTypeOK, UndisturbedInv, SessionOk, OneThread, AdmissionInv, AdmissionTypeOK
  <1>1. CASE \E g \in Generations : OpenAdmit(s, g)
    BY <1>0, <1>1 DEF OpenAdmit, Acquired
  <1>2. CASE OpenGuard(s) \/ OpenLease(s)
    BY <1>0, <1>2 DEF OpenGuard, OpenLease, avars
  <1>3. CASE OpenRecord(s) \/ OpenSpawn(s) \/ OpenPartial(s) \/ OpenReady(s)
    BY <1>0, <1>3 DEF OpenRecord, OpenSpawn, OpenPartial, OpenReady, avars
  <1>4. CASE OpenCommit(s)
    <2>1. guard = s
      BY <1>0, <1>4 DEF OpenCommit, Acquired
    <2>2. CASE CanPromote(s)
      BY <1>0, <1>4, <2>1, <2>2 DEF OpenCommit, Promote
    <2>3. CASE ~CanPromote(s)
      BY <1>0, <1>4, <2>1, <2>3 DEF OpenCommit, Promote, avars
    <2>4. QED
      BY <2>2, <2>3
  <1>5. CASE OpenClearDurable(s)
    BY <1>0, <1>5 DEF OpenClearDurable, avars
  <1>6. CASE OpenClearCache(s)
    <2>1. bindings' = bindings /\ state' = state
      BY <1>6 DEF OpenClearCache, ClearRecoveryRequired, avars
    <2>2. QED
      BY <1>0, <1>6, <2>1 DEF OpenClearCache
  <1>7. CASE OpenFail(s)
    <2>1. pc[s] \in {"recorded", "spawned", "attached"} => guard = s
      BY <1>0 DEF Acquired
    <2>2. QED
      BY <1>0, <1>7, <2>1 DEF OpenFail, Unwind, avars
  <1>8. CASE RollbackReap(s)
    BY <1>0, <1>8 DEF RollbackReap, BestEffortReap, avars
  <1>9. CASE RollbackCheck(s) \/ RollbackUnlink(s)
    BY <1>0, <1>9 DEF RollbackCheck, RollbackUnlink, avars
  <1>10. CASE RollbackLines(s)
    BY <1>0, <1>10 DEF RollbackLines, avars
  <1>11. CASE RollbackAdmission(s)
    <2>1. s \notin bindings'
      <3>1. CASE Rollback(s)
        BY <3>1 DEF Rollback, Dispose
      <3>2. CASE ~CanRollback(s) /\ UNCHANGED avars
        <4>1. s \in bindings => closedAt = None /\ state[s] \in LiveStates
          BY DEF UndisturbedInv, Untorn, TxInv, AdmissionInv, BindingsAreLive
        <4>2. QED
          BY <3>2, <4>1 DEF CanRollback, Disposable, avars
      <3>3. QED
        BY <1>11, <3>1, <3>2 DEF RollbackAdmission
    <2>2. QED
      BY <1>0, <1>11, <2>1 DEF RollbackAdmission
  <1>12. QED
    BY <1>1, <1>2, <1>3, <1>4, <1>5, <1>6, <1>7, <1>8, <1>9, <1>10, <1>11 DEF OpenStep

\* ... and close() completes a committed session; nothing has cancelled it.
LEMMA CloseKept ==
  ASSUME TxInv, UndisturbedInv, NEW s \in Handles,
         \/ CloseStep(s) \/ Halt(s) \/ \E force \in BOOLEAN : CloseFind(s, force)
  PROVE  Kept(s)'
  <1> USE DEF Kept, Committed, Dropped, Holding, Uncommitted, Acquiring, CloseGoto, threads,
              lines, session, durable, world
  <1>0. /\ Kept(s) /\ OneThread(s) /\ cpc \in [Handles -> ClosePoints]
        /\ pc \in [Handles -> OpenPoints] /\ table \subseteq Handles
        /\ cpc[s] \notin {"none", "done"} => pc[s] = "open"
    BY DEF TxInv, TxTypeOK, UndisturbedInv, SessionOk, OneThread
  <1>1. CASE Halt(s) \/ \E force \in BOOLEAN : CloseFind(s, force)
    BY <1>0, <1>1 DEF Halt, CloseFind, avars
  <1>2. CASE CloseWrite(s) \/ CloseWriteFail(s) \/ CloseBackend(s)
    BY <1>0, <1>2 DEF CloseWrite, CloseWriteFail, CloseBackend, avars
  <1>3. CASE CloseLines(s)
    BY <1>0, <1>3 DEF CloseLines, avars
  <1>4. CASE CloseComplete(s)
    <2>1. s \notin bindings'
      <3>1. CASE Complete(s)
        BY <3>1 DEF Complete, Dispose
      <3>2. CASE ~Complete(s)
        <4>1. s \notin cancelled /\ handle[s].op # "ssh_tier" /\ state[s] = "promoted" /\ s \in table
          BY <1>0, <1>4 DEF CloseComplete, UndisturbedInv, Untorn
        <4>2. s \notin bindings /\ UNCHANGED avars
          BY <1>4, <3>2, <4>1
             DEF CloseComplete, CanComplete, EpochStaleForOp, Disposable, LiveStates
        <4>3. QED
          BY <4>2 DEF avars
      <3>3. QED
        BY <3>1, <3>2
    <2>2. QED
      BY <1>0, <1>4, <2>1 DEF CloseComplete
  <1>5. CASE CloseTombFile(s) \/ CloseCheck(s) \/ CloseUnlink(s)
    BY <1>0, <1>5 DEF CloseTombFile, CloseCheck, CloseUnlink, avars
  <1>6. CASE CloseMark(s)
    <2>1. bindings' = bindings /\ state' = state
      BY <1>6 DEF CloseMark, MarkRecoveryRequired, avars
    <2>2. QED
      BY <1>0, <1>6, <2>1 DEF CloseMark
  <1>7. CASE CloseUnsubscribe(s)
    BY <1>0, <1>7 DEF CloseUnsubscribe, avars
  <1>8. CASE TeardownVerify(s)
    BY <1>0, <1>8 DEF TeardownVerify, avars
  <1>9. CASE ForceReleaseLines(s)
    BY <1>0, <1>9 DEF ForceReleaseLines, avars
  <1>10. CASE ForceReleaseConfirm(s)
    <2>1. bindings' = bindings
      BY <1>10, ServiceKeeps DEF ForceReleaseConfirm
    <2>2. QED
      BY <1>0, <1>10, <2>1 DEF ForceReleaseConfirm
  <1>11. CASE ForceReleaseAbandon(s)
    <2>1. bindings' = bindings \/ bindings' = bindings \ {s}
      BY <1>11, DisposeKeeps DEF ForceReleaseAbandon, avars
    <2>2. QED
      BY <1>0, <1>11, <2>1 DEF ForceReleaseAbandon
  <1>12. QED
    BY <1>1, <1>2, <1>3, <1>4, <1>5, <1>6, <1>7, <1>8, <1>9, <1>10, <1>11 DEF CloseStep

\* An operation that neither closes admission nor cancels registers only on an open
\* target.
LEMMA OpenOrShrinks ==
  ASSUME TxInv, UndisturbedInv,
         \/ \E s \in Handles :
              \/ \E g \in Generations : Admit(s, g) \/ AdmitRecovery(s, g)
              \/ Promote(s) \/ Complete(s) \/ Rollback(s) \/ Abandon(s) \/ ConfirmReaped(s)
         \/ \E g \in Nat : MarkRecoveryRequired(g) \/ ClearRecoveryRequired(g)
         \/ UNCHANGED avars
  PROVE  /\ cancelled' = cancelled
         /\ \A x \in Handles : handle'[x].op = "transport_open"
         /\ closedAt' = closedAt
         /\ closedAt # None => bindings' \subseteq bindings
  <1>0. /\ \A x \in Handles : handle[x].op = "transport_open"
        /\ handle \in [Handles -> HandleRecords]
    BY DEF UndisturbedInv, Untorn, TxInv, AdmissionInv, AdmissionTypeOK
  <1>1. ASSUME NEW s \in Handles, NEW g \in Generations, Admit(s, g) \/ AdmitRecovery(s, g)
        PROVE  /\ cancelled' = cancelled /\ closedAt' = closedAt /\ closedAt = None
               /\ \A x \in Handles : handle'[x].op = "transport_open"
    BY <1>0, <1>1 DEF Admit, AdmitRecovery, CanAdmit, CanAdmitRecovery, BindSnapshot, Register
  <1>2. CASE \E s \in Handles : \/ Promote(s) \/ Complete(s) \/ Rollback(s) \/ Abandon(s)
                                \/ ConfirmReaped(s)
    BY <1>0, <1>2 DEF Promote, Complete, Rollback, Abandon, Dispose, ConfirmReaped
  <1>3. CASE \/ \E g \in Nat : MarkRecoveryRequired(g) \/ ClearRecoveryRequired(g)
             \/ UNCHANGED avars
    BY <1>0, <1>3 DEF MarkRecoveryRequired, ClearRecoveryRequired, avars
  <1>4. QED
    BY <1>1, <1>2, <1>3

\* No thread of a session tears anything down, or closes admission.
LEMMA ThreadsUntorn ==
  ASSUME TxInv, UndisturbedInv, server = "up", NEW s \in Handles,
         \/ OpenStep(s) \/ \E g \in Generations : OpenAdmit(s, g)
         \/ CloseStep(s) \/ Halt(s) \/ \E force \in BOOLEAN : CloseFind(s, force)
  PROVE  Untorn'
  <1>0. handle[s].generation \in Nat
    BY Generation DEF Generations, None
  <1>1. CASE OpenStep(s) \/ \E g \in Generations : OpenAdmit(s, g)
    <2>1. emitting' = emitting /\ vpc' = vpc /\ server' = server
      BY <1>1 DEF OpenStep, OpenAdmit, OpenGuard, OpenLease, OpenRecord, OpenSpawn,
         OpenPartial, OpenReady, OpenCommit, OpenClearDurable, OpenClearCache, OpenFail,
         RollbackReap, BestEffortReap, RollbackCheck, RollbackUnlink, RollbackLines,
         RollbackAdmission, session, world
    <2>2. \/ \E x \in Handles :
               \/ \E g \in Generations : Admit(x, g) \/ AdmitRecovery(x, g)
               \/ Promote(x) \/ Complete(x) \/ Rollback(x) \/ Abandon(x) \/ ConfirmReaped(x)
          \/ \E g \in Nat : MarkRecoveryRequired(g) \/ ClearRecoveryRequired(g)
          \/ UNCHANGED avars
      <3>1. CASE \E g \in Generations : OpenAdmit(s, g)
        BY <3>1 DEF OpenAdmit
      <3>2. CASE OpenCommit(s) \/ RollbackAdmission(s)
        BY <3>2 DEF OpenCommit, RollbackAdmission
      <3>3. CASE OpenClearCache(s)
        BY <1>0, <3>3 DEF OpenClearCache
      <3>4. QED
        BY <1>1, <3>1, <3>2, <3>3 DEF OpenStep, OpenGuard, OpenLease, OpenRecord, OpenSpawn,
           OpenPartial, OpenReady, OpenClearDurable, OpenFail, RollbackReap, RollbackCheck,
           RollbackUnlink, RollbackLines
    <2>3. QED
      BY <2>1, <2>2, OpenOrShrinks DEF UndisturbedInv, Untorn
  <1>2. CASE CloseStep(s) \/ Halt(s) \/ \E force \in BOOLEAN : CloseFind(s, force)
    <2>1. emitting' = emitting /\ vpc' = vpc /\ server' = server
      BY <1>2 DEF CloseStep, Halt, CloseFind, CloseWrite, CloseWriteFail, CloseBackend,
         CloseLines, CloseComplete, CloseTombFile, CloseMark, CloseCheck, CloseUnlink,
         CloseUnsubscribe, TeardownVerify, ForceReleaseLines, ForceReleaseConfirm,
         ForceReleaseAbandon, threads, session, world
    <2>2. \/ \E x \in Handles :
               \/ \E g \in Generations : Admit(x, g) \/ AdmitRecovery(x, g)
               \/ Promote(x) \/ Complete(x) \/ Rollback(x) \/ Abandon(x) \/ ConfirmReaped(x)
          \/ \E g \in Nat : MarkRecoveryRequired(g) \/ ClearRecoveryRequired(g)
          \/ UNCHANGED avars
      <3>1. CASE CloseComplete(s) \/ ForceReleaseConfirm(s) \/ ForceReleaseAbandon(s)
        BY <3>1 DEF CloseComplete, ForceReleaseConfirm, ForceReleaseAbandon
      <3>2. CASE CloseMark(s)
        BY <1>0, <3>2 DEF CloseMark
      <3>3. QED
        BY <1>2, <3>1, <3>2 DEF CloseStep, Halt, CloseFind, CloseWrite, CloseWriteFail,
           CloseBackend, CloseLines, CloseTombFile, CloseCheck, CloseUnlink,
           CloseUnsubscribe, TeardownVerify, ForceReleaseLines
    <2>3. QED
      BY <2>1, <2>2, OpenOrShrinks DEF UndisturbedInv, Untorn
  <1>3. QED
    BY <1>1, <1>2

\* The restart finds no table to cancel.
LEMMA WorldUntorn ==
  ASSUME TxInv, UndisturbedInv,
         \/ server = "up" /\ ((\E g \in Generations : Boot(g)) \/ ReopenAdmission)
         \/ server # "up" /\ ReconcileStep
         \/ Crash
  PROVE  Untorn'
  <1> USE DEF UndisturbedInv, Untorn
  <1>1. CASE server = "up" /\ \E g \in Generations : Boot(g)
    BY <1>1 DEF Boot, PublishSnapshot, threads, session, world
  <1>2. CASE server = "up" /\ ReopenAdmission
    BY <1>2 DEF ReopenAdmission, Reopen, tvars, threads, session, world
  <1>3. CASE server # "up" /\ ReconcileStep
    BY <1>3 DEF ReconcileStep, ReconcileTombstones, ReconcileReap, ReconcilePark,
       ReconcileNotify, ReconcileDelete, MarkRecoveryRequired, CloseAdmission, threads,
       session, avars
  <1>4. CASE Crash
    BY <1>4 DEF Crash, ForgetAdmission, TxInv, TxTypeOK
  <1>5. QED
    BY <1>1, <1>2, <1>3, <1>4

\* No session is being torn down, so the subscriber's steps have no start.
LEMMA NoTeardown ==
  ASSUME UndisturbedInv, NEW s \in Handles
  PROVE  ~TeardownStep(s) /\ ~TeardownReap(s, "wedged")
  BY DEF UndisturbedInv, Untorn, TeardownStep, TeardownReap, TeardownOverdue, ForceDropLines,
     ForceDropConfirm, ForceDropAbandon, ForceDropCheck, ForceDropUnlink,
     ForceDropUnsubscribe, TeardownGoto

\* What is left of Next.
LEMMA UndisturbedNext ==
  ASSUME Undisturbed, UndisturbedInv, Next
  PROVE  \/ /\ server = "up"
            /\ \E s \in Handles :
                 \/ OpenStep(s) \/ \E g \in Generations : OpenAdmit(s, g)
                 \/ CloseStep(s) \/ Halt(s) \/ \E force \in BOOLEAN : CloseFind(s, force)
         \/ server = "up" /\ ((\E g \in Generations : Boot(g)) \/ ReopenAdmission)
         \/ server # "up" /\ ReconcileStep
         \/ Crash
  <1>1. \A g : ~Invalidate(g)
    BY DEF Undisturbed, Invalidate
  <1>2. ~Emit
    BY DEF UndisturbedInv, Untorn, Emit
  <1>3. QED
    BY <1>1, <1>2, NoTeardown DEF Next, Serve

\* The inductive step.
LEMMA UndisturbedStep ==
  ASSUME Undisturbed, TxInv, UndisturbedInv, [Next]_vars
  PROVE  UndisturbedInv'
  <1>1. CASE Next
    <2>1. Untorn'
      BY <1>1, UndisturbedNext, ThreadsUntorn, WorldUntorn
    <2>2. ASSUME NEW x \in Handles PROVE Kept(x)'
      <3>1. Leaves(x) => Kept(x)'
        BY LeavesKept DEF UndisturbedInv
      <3>2. CASE Crash
        BY <3>2 DEF Crash, Kept, Committed, Dropped
      <3>3. ASSUME NEW s \in Handles,
                   \/ OpenStep(s) \/ \E g \in Generations : OpenAdmit(s, g)
                   \/ CloseStep(s) \/ Halt(s) \/ \E force \in BOOLEAN : CloseFind(s, force)
            PROVE  Kept(x)'
        <4>1. CASE s = x
          BY <3>3, <4>1, OpenKept, CloseKept
        <4>2. CASE s # x
          BY <3>1, <3>3, <4>2, OpenLeaves, CloseLeaves
        <4>3. QED
          BY <4>1, <4>2
      <3>4. CASE (\E g \in Generations : Boot(g)) \/ ReopenAdmission \/ ReconcileStep
        BY <3>1, <3>4, WorldLeaves
      <3>5. QED
        BY <1>1, <3>2, <3>3, <3>4, UndisturbedNext
    <2>3. QED
      BY <2>1, <2>2 DEF UndisturbedInv
  <1>2. CASE UNCHANGED vars
    BY <1>2 DEF UndisturbedInv, Untorn, Kept, Committed, vars, avars, tvars, threads, lines,
       session, world
  <1>3. QED
    BY <1>1, <1>2

\* As long as nothing invalidates the lifecycle of a serving target, a committed
\* session keeps what it has until it is closed.
LEMMA UndisturbedInvariant ==
  ASSUME Undisturbed
  PROVE  Spec => []UndisturbedInv
  <1>1. Init => UndisturbedInv
    BY DEF Init, AdmissionInit, UndisturbedInv, Untorn, Kept, Committed, Dropped
  <1>2. TxInv /\ UndisturbedInv /\ [Next]_vars => UndisturbedInv'
    BY UndisturbedStep
  <1>3. QED
    BY <1>1, <1>2, TransactionInvariant, PTL DEF Spec

\* A session that was closed, or whose open failed, is out of the admission table,
\* whatever calls failed or overlapped; only an invalidation that overtakes the close
\* leaves one behind.
THEOREM ClosedSessionsDeregister ==
  ASSUME "invalidate" \notin Faults
  PROVE  Spec => []ClosedSessionDeregistered
  <1>1. UndisturbedInv => ClosedSessionDeregistered
    BY DEF UndisturbedInv, Kept, ClosedSessionDeregistered
  <1>2. QED
    BY <1>1, UndisturbedInvariant, PTL DEF Undisturbed

-----------------------------------------------------------------------------
(* One call at a time                                                       *)

\* The server's tools are synchronous, so an open() or close() runs alone; the
\* restart runs before any.
Alone == Undisturbed /\ Serial

Busy(s) ==
    \/ pc[s] \notin {"idle", "open", "failed", "closed", "dead"}
    \/ cpc[s] \notin {"none", "done"}

\* The points at which a session has its record, from the first write to the deletion.
Recorded(s) ==
    \/ pc[s] \in {"recorded", "spawned", "attached", "ready", "clearing", "uncaching"}
    \/ pc[s] = "open" /\ cpc[s] # "unsubscribe"

\* The durable record says of a session what a restart must know.
RecordOk(s) ==
    /\ Recorded(s) => OwnsRecord(s)
    /\ \/ pc[s] \in {"idle", "admitted", "guarded", "leased", "rb_lines", "rb_admission",
                     "failed", "closed"}
       \/ cpc[s] = "unsubscribe"
       => ~OwnsRecord(s)
    /\ OwnsRecord(s) /\ pc[s] # "dead" => record.gen = handle[s].generation
    /\ cpc[s] = "found" => copy[s].pid \/ Gone(s)
    /\ cpc[s] \in {"closing", "lines", "complete", "tomb"} => record.exec = copy[s].exec
    /\ \/ Gone(s)
       \/ pc[s] = "spawned"
       \/ OwnsRecord(s) /\ record.pid /\ (pc[s] = "dead" => server \in {"tombstones", "reap"})

\* A session that is over is in no list of the dispatcher and holds no line.
Over(s) ==
    /\ pc[s] \in {"rb_admission", "failed", "closed"} => s \notin subscribers
    /\ pc[s] = "closed" => NoLines(s)

\* A session that may still be closed is not older than a kernel that was left halted,
\* and of that generation only as a recovery attach, or because no tombstone was written.
ParkedBefore(s) ==
    /\ pc[s] \notin {"idle", "dead", "failed", "closed"} /\ cpc[s] \in Holding =>
          /\ handle[s].generation >= parked
          /\ handle[s].generation = parked => handle[s].recovery \/ parked \in unmarked
    /\ pc[s] = "uncaching" => handle[s].generation > parked
    /\ cpc[s] \in {"tomb", "mark"} => LeavesHalted(s)
    /\ cpc[s] \in {"complete", "tomb", "mark"} /\ LeavesHalted(s) =>
          handle[s].generation = parked
    /\ cpc[s] = "mark" => tombFile = parked

\* No mark is of a generation that was not booted.
BootedLast ==
    /\ snapGen = None \/ snapGen = booted
    /\ parked <= booted /\ tombstone <= booted /\ tombFile <= booted
    /\ \A s \in Handles : handle[s].generation <= booted
    /\ record # NoRecord => record.gen <= booted /\ parked <= record.gen

\* A kernel left halted is marked, or its record says so and somebody is about to
\* mark it, or the tombstone could not be written or the record was forced out.
HaltedRecord == record # NoRecord /\ record.exec = "halted" /\ record.gen = parked

ParkedKept ==
    parked # None /\ parked = booted /\ parked \notin unmarked =>
        \/ tombstone = parked /\ tombFile = parked
        \/ server = "tombstones" /\ tombFile = parked
        \/ server \in {"tombstones", "reap", "park", "park_killed"} /\ HaltedRecord
        \/ \E s \in Handles : /\ cpc[s] \in {"complete", "tomb", "mark"} /\ LeavesHalted(s)
                              /\ HaltedRecord

AloneInv ==
    /\ \A s, t \in Handles : Busy(s) /\ Busy(t) => s = t
    /\ \A s \in Handles : RecordOk(s) /\ Over(s) /\ ParkedBefore(s)
    /\ BootedLast
    /\ ParkedKept

\* A step of a thread of s.
Acts(s) ==
    \/ OpenStep(s) \/ \E g \in Generations : OpenAdmit(s, g)
    \/ CloseStep(s) \/ Halt(s) \/ \E force \in BOOLEAN : CloseFind(s, force)

\* A thread takes a step only while no other call is in progress.
LEMMA ActsAlone ==
  ASSUME Alone, TxInv, AloneInv, NEW s \in Handles, NEW x \in Handles \ {s}, Acts(s)
  PROVE  ~Busy(x)
  <1>1. CASE OpenStep(s)
    <2>1. Busy(s)
      BY <1>1 DEF Busy, OpenStep, OpenGuard, OpenLease, OpenRecord, OpenSpawn, OpenPartial,
         OpenReady, OpenCommit, OpenClearDurable, OpenClearCache, OpenFail, Unwind,
         RollbackReap, RollbackCheck, RollbackUnlink, RollbackLines, RollbackAdmission, Goto
    <2>2. QED
      BY <2>1 DEF AloneInv
  <1>2. CASE CloseStep(s)
    <2>1. Busy(s)
      BY <1>2 DEF Busy, CloseStep, CloseWrite, CloseWriteFail, CloseBackend, CloseLines,
         CloseComplete, CloseTombFile, CloseMark, CloseCheck, CloseUnlink, CloseUnsubscribe,
         TeardownVerify, ForceReleaseLines, ForceReleaseConfirm, ForceReleaseAbandon,
         CloseGoto
    <2>2. QED
      BY <2>1 DEF AloneInv
  <1>3. CASE Halt(s) \/ (\E g \in Generations : OpenAdmit(s, g))
             \/ \E force \in BOOLEAN : CloseFind(s, force)
    <2>1. CallMayStart
      BY <1>3 DEF Halt, OpenAdmit, CloseFind
    <2>2. QED
      BY <2>1 DEF CallMayStart, Alone, Busy
  <1>4. QED
    BY <1>1, <1>2, <1>3 DEF Acts

\* Another session keeps its place.
LEMMA ActsLeaves ==
  ASSUME TxInv, NEW s \in Handles, NEW x \in Handles \ {s}, Acts(s)
  PROVE  Leaves(x)
  BY OpenLeaves, CloseLeaves DEF Acts

\* Only the owner of the record or the holder of the guard replaces or deletes it.
LEMMA ActsWrites ==
  ASSUME TxInv, UndisturbedInv, AloneInv, NEW s \in Handles, Acts(s)
  PROVE  \/ record' = record
         \/ /\ guard = s \/ OwnsRecord(s)
            /\ OwnsRecord(s)' \/ record' = NoRecord
  <1> USE DEF durable, Goto, CloseGoto
  <1>0. /\ s # Nobody /\ Kept(s) /\ RecordOk(s) /\ Acquired(s)
        /\ cpc[s] \notin {"none", "done"} => pc[s] = "open"
        /\ record \in Records \cup {NoRecord}
    BY TransactionAssumption
       DEF UndisturbedInv, AloneInv, TxInv, TxTypeOK, SessionOk, OneThread
  <1>1. CASE OpenRecord(s) \/ OpenPartial(s) \/ OpenReady(s)
    <2>1. guard = s
      BY <1>0, <1>1 DEF OpenRecord, OpenPartial, OpenReady, Acquired, Acquiring
    <2>2. record'.owner = s
      BY <1>1 DEF OpenRecord, OpenPartial, OpenReady, WriteOwn
    <2>3. QED
      BY <1>0, <2>1, <2>2 DEF OwnsRecord, NoRecord
  <1>2. CASE RollbackUnlink(s)
    BY <1>0, <1>2 DEF RollbackUnlink, Unlink, Kept
  <1>3. CASE Halt(s)
    <2>1. record \in Records /\ record.owner = s
      BY <1>0, <1>3 DEF Halt, OwnsRecord
    <2>2. record'.owner = s
      BY <1>3, <2>1 DEF Halt, Records
    <2>3. QED
      BY <1>0, <1>3, <2>2 DEF Halt, OwnsRecord, NoRecord
  <1>4. CASE CloseWrite(s)
    <2>1. guard = s
      BY <1>0, <1>4 DEF CloseWrite, Kept, Committed, Holding
    <2>2. record'.owner = s
      BY <1>4 DEF CloseWrite
    <2>3. QED
      BY <1>0, <2>1, <2>2 DEF OwnsRecord, NoRecord
  <1>5. CASE CloseUnlink(s)
    BY <1>0, <1>5 DEF CloseUnlink, Unlink, RecordOk, Recorded
  <1>6. CASE \/ (\E g \in Generations : OpenAdmit(s, g)) \/ OpenGuard(s)
             \/ OpenLease(s) \/ OpenSpawn(s) \/ OpenCommit(s) \/ OpenClearDurable(s)
             \/ OpenClearCache(s) \/ OpenFail(s) \/ RollbackReap(s) \/ RollbackCheck(s)
             \/ RollbackLines(s) \/ RollbackAdmission(s)
    BY <1>6 DEF OpenAdmit, OpenGuard, OpenLease, OpenSpawn, OpenCommit, OpenClearDurable,
       OpenClearCache, OpenFail, RollbackReap, RollbackCheck, RollbackLines,
       RollbackAdmission
  <1>7. CASE \/ \E force \in BOOLEAN : CloseFind(s, force)
             \/ CloseWriteFail(s) \/ CloseBackend(s) \/ CloseLines(s) \/ CloseComplete(s)
             \/ CloseTombFile(s) \/ CloseMark(s) \/ CloseCheck(s) \/ CloseUnsubscribe(s)
             \/ TeardownVerify(s) \/ ForceReleaseLines(s) \/ ForceReleaseConfirm(s)
             \/ ForceReleaseAbandon(s)
    BY <1>7 DEF CloseFind, CloseWriteFail, CloseBackend, CloseLines, CloseComplete,
       CloseTombFile, CloseMark, CloseCheck, CloseUnsubscribe, TeardownVerify,
       ForceReleaseLines, ForceReleaseConfirm, ForceReleaseAbandon
  <1>8. QED
    BY <1>1, <1>2, <1>3, <1>4, <1>5, <1>6, <1>7 DEF Acts, OpenStep, CloseStep

\* What a thread leaves to boots and the restart, and when it parks a generation.
LEMMA ActsWorld ==
  ASSUME TxInv, NEW s \in Handles, Acts(s)
  PROVE  /\ UNCHANGED <<server, booted, snapGen>>
         /\ \A x \in Handles \ {s} : copy'[x] = copy[x]
         /\ \/ parked' = parked
            \/ pc[s] = "clearing" /\ parked' = None /\ parked = handle[s].generation
            \/ cpc[s] = "lines" /\ parked' = handle[s].generation /\ LeavesHalted(s)
            \/ /\ cpc[s] = "fr_lines" /\ OwnsRecord(s)
               /\ parked' = record.gen /\ parked' \in unmarked'
         /\ unmarked \subseteq unmarked' \/ (cpc[s] = "lines" /\ LeavesHalted(s))
         /\ tombFile' = tombFile \/ pc[s] = "clearing" \/ cpc[s] = "tomb"
  <1> USE DEF durable, world, threads, Goto, CloseGoto, avars
  <1>1. ASSUME OpenStep(s) \/ \E g \in Generations : OpenAdmit(s, g)
        PROVE  /\ UNCHANGED <<server, booted, snapGen, copy, unmarked>>
               /\ \/ parked' = parked
                  \/ pc[s] = "clearing" /\ parked' = None /\ parked = handle[s].generation
               /\ tombFile' = tombFile \/ pc[s] = "clearing"
    <2>1. CASE \E g \in Generations : OpenAdmit(s, g)
      BY <2>1 DEF OpenAdmit, Admit, AdmitRecovery, Register
    <2>2. CASE \/ OpenGuard(s) \/ OpenLease(s) \/ OpenRecord(s) \/ OpenSpawn(s)
               \/ OpenPartial(s) \/ OpenReady(s) \/ OpenFail(s)
      BY <2>2 DEF OpenGuard, OpenLease, OpenRecord, OpenSpawn, OpenPartial, OpenReady,
         WriteOwn, OpenFail
    <2>3. CASE OpenCommit(s)
      BY <2>3 DEF OpenCommit, Promote
    <2>4. CASE OpenClearDurable(s)
      BY <2>4 DEF OpenClearDurable
    <2>5. CASE OpenClearCache(s)
      BY <2>5 DEF OpenClearCache, ClearRecoveryRequired
    <2>6. CASE RollbackReap(s) \/ RollbackCheck(s) \/ RollbackUnlink(s) \/ RollbackLines(s)
      BY <2>6 DEF RollbackReap, BestEffortReap, RollbackCheck, RollbackUnlink, Unlink,
         RollbackLines
    <2>7. CASE RollbackAdmission(s)
      BY <2>7 DEF RollbackAdmission, Rollback, Dispose
    <2>8. QED
      BY <1>1, <2>1, <2>2, <2>3, <2>4, <2>5, <2>6, <2>7 DEF OpenStep
  <1>2. ASSUME CloseStep(s) \/ Halt(s) \/ \E force \in BOOLEAN : CloseFind(s, force)
        PROVE  /\ UNCHANGED <<server, booted, snapGen>>
               /\ \A x \in Handles \ {s} : copy'[x] = copy[x]
               /\ \/ parked' = parked
                  \/ cpc[s] = "lines" /\ parked' = handle[s].generation /\ LeavesHalted(s)
                  \/ /\ cpc[s] = "fr_lines" /\ OwnsRecord(s)
                     /\ parked' = record.gen /\ parked' \in unmarked'
               /\ unmarked \subseteq unmarked' \/ (cpc[s] = "lines" /\ LeavesHalted(s))
               /\ tombFile' = tombFile \/ cpc[s] = "tomb"
    <2>1. CASE Halt(s) \/ \E force \in BOOLEAN : CloseFind(s, force)
      BY <2>1 DEF Halt, CloseFind, TxInv, TxTypeOK
    <2>2. CASE CloseWrite(s) \/ CloseWriteFail(s) \/ CloseBackend(s) \/ CloseLines(s)
      BY <2>2 DEF CloseWrite, CloseWriteFail, CloseBackend, CloseLines
    <2>3. CASE CloseComplete(s)
      BY <2>3 DEF CloseComplete, Complete, Dispose
    <2>4. CASE CloseTombFile(s) \/ CloseCheck(s) \/ CloseUnlink(s) \/ CloseUnsubscribe(s)
      BY <2>4 DEF CloseTombFile, CloseCheck, CloseUnlink, Unlink, CloseUnsubscribe
    <2>5. CASE CloseMark(s)
      BY <2>5 DEF CloseMark, MarkRecoveryRequired
    <2>6. CASE TeardownVerify(s) \/ ForceReleaseLines(s)
      BY <2>6 DEF TeardownVerify, ForceReleaseLines, ParkUnmarked
    <2>7. CASE ForceReleaseConfirm(s) \/ ForceReleaseAbandon(s)
      BY <2>7 DEF ForceReleaseConfirm, ConfirmReaped, ForceReleaseAbandon, Abandon, Dispose
    <2>8. QED
      BY <1>2, <2>1, <2>2, <2>3, <2>4, <2>5, <2>6, <2>7 DEF CloseStep
  <1>3. QED
    BY <1>1, <1>2 DEF Acts

\* So the other sessions keep their record, and their place before a parked kernel.
LEMMA OthersAlone ==
  ASSUME Alone, TxInv, UndisturbedInv, AloneInv, server = "up", NEW s \in Handles,
         NEW x \in Handles \ {s}, Acts(s)
  PROVE  RecordOk(x)' /\ Over(x)' /\ ParkedBefore(x)' /\ ~Busy(x)'
  <1>1. ~Busy(x) /\ Leaves(x) /\ x # s
    BY ActsAlone, ActsLeaves
  <1>2. /\ pc[x] \in {"idle", "open", "failed", "closed", "dead"}
        /\ cpc[x] \in {"none", "done"}
        /\ pc'[x] = pc[x] /\ cpc'[x] = cpc[x] /\ handle'[x] = handle[x] /\ copy'[x] = copy[x]
        /\ server' = "up"
    BY <1>1, ActsWorld DEF Busy, Leaves, Keeps
  <1>3. pc[x] = "open" => cpc[x] = "none"
    BY <1>2 DEF TxInv, SessionOk, OneThread
  <1>4. RecordOk(x)'
    <2>1. /\ OwnsRecord(x)' => OwnsRecord(x) /\ record' = record
          /\ OwnsRecord(x) => guard = s \/ OwnsRecord(x)'
      BY <1>1, ActsWrites, TransactionAssumption DEF OwnsRecord, NoRecord
    <2>2. pc[x] = "open" \/ ~Gone(x) => guard # s /\ (OwnsRecord(x) => OwnsRecord(x)')
      <3>1. pc[x] = "open" => guard = x
        BY <1>3 DEF UndisturbedInv, Kept, Committed, Holding
      <3>2. ~Gone(x) => guard = x
        BY <1>2 DEF AloneInv, RecordOk, TxInv, SessionOk, InOrder
      <3>3. QED
        BY <1>1, <2>1, <3>1, <3>2
    <2>3. Gone(x) => Gone(x)'
      BY <1>1 DEF Leaves, Keeps
    <2>4. RecordOk(x)
      BY DEF AloneInv
    <2>5. QED
      BY <1>2, <1>3, <2>1, <2>2, <2>3, <2>4 DEF RecordOk, Recorded
  <1>5. Over(x)'
    BY <1>1 DEF Over, Leaves, Keeps, NoLines, AloneInv
  <1>6. ParkedBefore(x)'
    <2>1. pc[x] = "open" => guard = x
      BY <1>3 DEF UndisturbedInv, Kept, Committed, Holding
    <2>2. cpc[s] \in {"lines", "fr_lines"} => guard = s
      BY DEF UndisturbedInv, Kept, Committed, Holding, TxInv, SessionOk, OneThread
    <2>3. pc[x] = "open" => /\ parked' = parked \/ parked' = None
                            /\ unmarked \subseteq unmarked'
      BY <1>1, <2>1, <2>2, ActsWorld
    <2>4. handle[x].generation \in Nat /\ (pc[x] = "open" => handle[x].generation > None)
      BY Generation DEF Generations, None
    <2>5. ParkedBefore(x)
      BY DEF AloneInv
    <2>6. parked' = None => (pc[x] = "open" => handle[x].generation > parked')
      BY <2>4
    <2>7. QED
      BY <1>2, <1>3, <2>3, <2>4, <2>5, <2>6 DEF ParkedBefore, None
  <1>7. ~Busy(x)'
    BY <1>2 DEF Busy
  <1>8. QED
    BY <1>4, <1>5, <1>6, <1>7

\* open() writes the record before it starts a process, with its own generation, and
\* is admitted on a parked kernel as a recovery attach only.
LEMMA AdmitAlone ==
  ASSUME Alone, TxInv, UndisturbedInv, AloneInv, server = "up", NEW s \in Handles,
         NEW g \in Generations, OpenAdmit(s, g)
  PROVE  /\ RecordOk(s)' /\ Over(s)' /\ ParkedBefore(s)'
         /\ handle'[s].generation = booted
  <1>1. /\ pc[s] = "idle" /\ pc'[s] = "admitted" /\ cpc'[s] = "none" /\ s \notin backend
        /\ backend' = backend /\ record' = record /\ ~OwnsRecord(s) /\ NoLines(s)
        /\ parked' = parked /\ unmarked' = unmarked
    BY DEF OpenAdmit, Goto, TxInv, TxTypeOK, SessionOk, OneThread, Acquired, AloneInv,
       RecordOk, durable, world
  <1>2. handle'[s].generation = g /\ g = booted
    BY RegisterKeeps DEF OpenAdmit, Admit, AdmitRecovery, CanAdmit, CanAdmitRecovery,
       BindSnapshot, AloneInv, BootedLast
  <1>3. RecordOk(s)' /\ Over(s)'
    BY <1>1 DEF RecordOk, Over, Recorded, OwnsRecord, Gone
  <1>4. g \in Nat /\ g > None /\ parked \in Nat /\ booted \in Nat /\ tombstone \in Nat
    BY DEF Generations, None, TxInv, TxTypeOK, AdmissionInv, AdmissionTypeOK
  <1>5. parked = g => tombstone = g \/ parked \in unmarked
    <2>1. \A x \in Handles : cpc[x] \in {"none", "done"}
      BY DEF OpenAdmit, CallMayStart, Alone
    <2>2. QED
      BY <1>2, <1>4, <2>1 DEF AloneInv, ParkedKept
  <1>6. parked = g => handle'[s].recovery \/ parked \in unmarked
    <2>1. ASSUME parked = g, parked \notin unmarked PROVE ~CanAdmit(g)
      <3>1. tombstone = g /\ ~(tombstone < g) /\ tombstone # None
        BY <1>4, <1>5, <2>1 DEF None
      <3>2. QED
        BY <3>1 DEF CanAdmit, BindSnapshot
    <2>2. AdmitRecovery(s, g) => handle'[s].recovery
      BY DEF AdmitRecovery, Register, TxInv, AdmissionInv, AdmissionTypeOK
    <2>3. QED
      BY <2>1, <2>2 DEF OpenAdmit, Admit
  <1>7. ParkedBefore(s)'
    <2>1. parked <= g
      BY <1>2 DEF AloneInv, BootedLast
    <2>2. QED
      BY <1>1, <1>2, <1>4, <1>6, <2>1 DEF ParkedBefore
  <1>8. QED
    BY <1>2, <1>3, <1>7

\* What the steps of a session start from.
LEMMA AloneFacts ==
  ASSUME TxInv, UndisturbedInv, AloneInv, NEW s \in Handles
  PROVE  /\ s # Nobody /\ OneThread(s) /\ Acquired(s) /\ InOrder(s) /\ Kept(s)
         /\ RecordOk(s) /\ Over(s) /\ ParkedBefore(s)
         /\ pc \in [Handles -> OpenPoints] /\ cpc \in [Handles -> ClosePoints]
         /\ copy \in [Handles -> [exec : ExecStates, pid : BOOLEAN, force : BOOLEAN]]
         /\ record \in Records \cup {NoRecord}
         /\ handle[s].generation \in Nat /\ parked \in Nat
         /\ pc[s] \notin {"idle", "dead"} => handle[s].generation > None
         /\ subscribers \subseteq Handles /\ backend \subseteq Proxied
         /\ cpc[s] \notin {"none", "done"} => pc[s] = "open"
         /\ pc[s] \notin {"open", "closed"} => cpc[s] = "none"
  BY TransactionAssumption, Generation
     DEF TxInv, TxTypeOK, SessionOk, OneThread, UndisturbedInv, AloneInv, Generations, None

\* open() from the registration on.
LEMMA OpenAlone ==
  ASSUME Alone, TxInv, UndisturbedInv, AloneInv, server = "up", NEW s \in Handles,
         \/ OpenGuard(s) \/ OpenLease(s) \/ OpenRecord(s) \/ OpenSpawn(s) \/ OpenPartial(s)
         \/ OpenReady(s) \/ OpenCommit(s) \/ OpenClearDurable(s) \/ OpenClearCache(s)
  PROVE  RecordOk(s)' /\ Over(s)' /\ ParkedBefore(s)'
  <1> USE DEF Goto, lines, session, durable, world
  <1>0. /\ s # Nobody /\ OneThread(s) /\ Acquired(s) /\ InOrder(s) /\ Kept(s)
        /\ RecordOk(s) /\ Over(s) /\ ParkedBefore(s)
        /\ pc \in [Handles -> OpenPoints]
        /\ handle[s].generation \in Nat /\ parked \in Nat
        /\ pc[s] \notin {"idle", "dead"} => handle[s].generation > None
        /\ subscribers \subseteq Handles /\ backend \subseteq Proxied
        /\ pc[s] \notin {"open", "closed"} => cpc[s] = "none"
    BY AloneFacts
  <1>1. CASE OpenGuard(s) \/ OpenLease(s)
    <2>1. /\ pc'[s] \in {"guarded", "leased", "rb_lines"} /\ pc[s] \in {"admitted", "guarded"}
          /\ UNCHANGED <<avars, cpc, copy, record, backend, stranded, forced, parked, unmarked>>
      BY <1>0, <1>1 DEF OpenGuard, OpenLease
    <2>2. Gone(s)
      BY <1>0, <2>1 DEF Acquired, Acquiring, Gone, RecordOk
    <2>3. QED
      BY <1>0, <2>1, <2>2 DEF RecordOk, Recorded, OwnsRecord, Gone, Over, ParkedBefore, avars
  <1>2. CASE OpenRecord(s)
    <2>1. /\ pc[s] = "leased" /\ pc'[s] = "recorded" /\ s \notin backend
          /\ UNCHANGED <<avars, cpc, copy, backend, stranded, forced, parked, unmarked>>
          /\ record'.owner = s /\ record'.gen = handle[s].generation
      BY <1>0, <1>2 DEF OpenRecord, WriteOwn, Acquired
    <2>2. OwnsRecord(s)'
      BY <1>0, <2>1 DEF OwnsRecord, NoRecord
    <2>3. QED
      BY <1>0, <2>1, <2>2 DEF RecordOk, Recorded, Gone, Over, ParkedBefore, avars
  <1>3. CASE OpenSpawn(s)
    <2>1. /\ pc[s] = "recorded" /\ pc'[s] = "spawned"
          /\ UNCHANGED <<avars, cpc, copy, record, parked, unmarked>>
      BY <1>0, <1>3 DEF OpenSpawn
    <2>2. QED
      BY <1>0, <2>1 DEF RecordOk, Recorded, OwnsRecord, Over, ParkedBefore, avars
  <1>4. CASE OpenPartial(s) \/ OpenReady(s)
    <2>1. /\ pc[s] \in {"recorded", "spawned", "attached"} /\ pc'[s] \in {"attached", "ready"}
          /\ UNCHANGED <<avars, cpc, copy, backend, stranded, forced, parked, unmarked>>
          /\ record'.owner = s /\ record'.gen = handle[s].generation
          /\ pc'[s] = "attached" => record'.pid
          /\ pc'[s] = "ready" => record'.pid = (s \in Proxied)
      <3>1. CASE OpenPartial(s)
        BY <1>0, <3>1 DEF OpenPartial, WriteOwn
      <3>2. CASE OpenReady(s)
        BY <1>0, <3>2 DEF OpenReady, WriteOwn
      <3>3. QED
        BY <1>0, <1>4, <3>1, <3>2
    <2>2. OwnsRecord(s)'
      BY <1>0, <2>1 DEF OwnsRecord, NoRecord
    <2>3. record'.pid \/ s \notin backend
      BY <1>0, <2>1
    <2>4. QED
      BY <1>0, <2>1, <2>2, <2>3 DEF RecordOk, Recorded, Gone, Over, ParkedBefore, avars
  <1>5. CASE OpenCommit(s)
    <2>1. /\ pc[s] = "ready" /\ pc'[s] \in {"clearing", "open", "rb_reap"}
          /\ handle' = handle
          /\ UNCHANGED <<cpc, copy, record, backend, stranded, forced, parked, unmarked>>
      BY <1>0, <1>5 DEF OpenCommit, Promote, avars
    <2>2. QED
      BY <1>0, <2>1 DEF RecordOk, Recorded, OwnsRecord, Gone, Over, ParkedBefore
  <1>6. CASE OpenClearDurable(s)
    <2>1. /\ pc[s] = "clearing" /\ pc'[s] = "uncaching"
          /\ parked' = IF parked = handle[s].generation THEN None ELSE parked
          /\ UNCHANGED <<avars, cpc, copy, record, backend, stranded, forced, subscribers>>
      BY <1>0, <1>6 DEF OpenClearDurable
    <2>2. handle[s].generation > parked'
      BY <1>0, <2>1 DEF ParkedBefore, Holding
    <2>3. QED
      BY <1>0, <2>1, <2>2 DEF RecordOk, Recorded, OwnsRecord, Gone, Over, ParkedBefore, avars, None
  <1>7. CASE OpenClearCache(s)
    <2>1. /\ pc[s] = "uncaching" /\ pc'[s] = "open" /\ handle' = handle
          /\ UNCHANGED <<cpc, copy, record, backend, stranded, forced, parked, unmarked, subscribers>>
      BY <1>0, <1>7 DEF OpenClearCache, ClearRecoveryRequired, avars
    <2>2. QED
      BY <1>0, <2>1 DEF RecordOk, Recorded, OwnsRecord, Gone, Over, ParkedBefore
  <1>8. QED
    BY <1>1, <1>2, <1>3, <1>4, <1>5, <1>6, <1>7

\* The unwinding of open(): a process whose pid has not reached the record is reaped by
\* its spawner, any other one before its record goes.
LEMMA RollbackAlone ==
  ASSUME Alone, TxInv, UndisturbedInv, AloneInv, server = "up", NEW s \in Handles,
         \/ OpenFail(s) \/ RollbackReap(s) \/ RollbackCheck(s) \/ RollbackUnlink(s)
         \/ RollbackLines(s) \/ RollbackAdmission(s)
  PROVE  RecordOk(s)' /\ Over(s)' /\ ParkedBefore(s)'
  <1> USE DEF Goto, lines, session, durable, world
  <1>0. /\ s # Nobody /\ OneThread(s) /\ Acquired(s) /\ InOrder(s) /\ Kept(s)
        /\ RecordOk(s) /\ Over(s) /\ ParkedBefore(s)
        /\ pc \in [Handles -> OpenPoints]
        /\ handle[s].generation \in Nat /\ parked \in Nat
        /\ pc[s] \notin {"idle", "dead"} => handle[s].generation > None
        /\ subscribers \subseteq Handles /\ backend \subseteq Proxied
        /\ pc[s] \notin {"open", "closed"} => cpc[s] = "none"
    BY AloneFacts
  <1>1. CASE OpenFail(s)
    <2>1. /\ pc[s] \in {"admitted", "leased", "recorded", "spawned", "attached", "clearing"}
          /\ pc'[s] = Unwind[pc[s]]
          /\ backend' = IF pc[s] = "spawned" THEN backend \ {s} ELSE backend
          /\ UNCHANGED <<avars, cpc, copy, record, stranded, forced, parked, unmarked, subscribers>>
      BY <1>0, <1>1 DEF OpenFail, Unwind
    <2>2. /\ pc'[s] \in {"rb_lines", "rb_check", "rb_reap"}
          /\ pc'[s] = "rb_lines" => pc[s] \in {"admitted", "leased"}
      BY <1>0, <2>1 DEF Unwind
    <2>3. Gone(s)' \/ (OwnsRecord(s) /\ record.pid)
      BY <1>0, <2>1 DEF RecordOk, Gone
    <2>4. QED
      BY <1>0, <2>1, <2>2, <2>3 DEF RecordOk, Recorded, OwnsRecord, Over, ParkedBefore, avars
  <1>2. CASE RollbackReap(s)
    <2>1. /\ pc[s] = "rb_reap" /\ pc'[s] = "rb_check" /\ Gone(s)'
          /\ UNCHANGED <<avars, cpc, copy, record, parked, unmarked>>
      BY <1>0, <1>2 DEF RollbackReap, BestEffortReap, Gone
    <2>2. QED
      BY <1>0, <2>1 DEF RecordOk, Recorded, OwnsRecord, Over, ParkedBefore, avars
  <1>3. CASE RollbackCheck(s) \/ RollbackUnlink(s)
    <2>1. /\ pc[s] \in {"rb_check", "rb_unlink"} /\ pc'[s] \in {"rb_unlink", "rb_lines"}
          /\ pc'[s] = "rb_lines" => ~OwnsRecord(s)'
          /\ OwnsRecord(s)' => record' = record
          /\ UNCHANGED <<avars, cpc, copy, backend, stranded, forced, parked, unmarked, subscribers>>
      BY <1>0, <1>3 DEF RollbackCheck, RollbackUnlink, Unlink, OwnsRecord
    <2>2. Gone(s)
      BY <1>0, <2>1 DEF InOrder, Reaped
    <2>3. QED
      BY <1>0, <2>1, <2>2 DEF RecordOk, Recorded, OwnsRecord, Gone, Over, ParkedBefore, avars
  <1>4. CASE RollbackLines(s)
    <2>1. /\ pc[s] = "rb_lines" /\ pc'[s] = "rb_admission" /\ s \notin subscribers'
          /\ UNCHANGED <<avars, cpc, copy, record, backend, stranded, forced, parked, unmarked>>
      BY <1>0, <1>4 DEF RollbackLines
    <2>2. Gone(s)
      BY <1>0, <2>1 DEF InOrder, Reaped
    <2>3. QED
      BY <1>0, <2>1, <2>2 DEF RecordOk, Recorded, OwnsRecord, Gone, Over, ParkedBefore, avars
  <1>5. CASE RollbackAdmission(s)
    <2>1. /\ pc[s] = "rb_admission" /\ pc'[s] = "failed" /\ handle' = handle
          /\ UNCHANGED <<cpc, copy, record, backend, stranded, forced, parked, unmarked, subscribers>>
      BY <1>0, <1>5, DisposeKeeps DEF RollbackAdmission, avars
    <2>2. Gone(s)
      BY <1>0, <2>1 DEF InOrder, Reaped
    <2>3. QED
      BY <1>0, <2>1, <2>2 DEF RecordOk, Recorded, OwnsRecord, Gone, Over, ParkedBefore
  <1>6. QED
    BY <1>1, <1>2, <1>3, <1>4, <1>5

\* close() copies the record, which keeps the execution state until the tombstone is
\* written; it parks the generation of its session.
LEMMA CloseAlone ==
  ASSUME Alone, TxInv, UndisturbedInv, AloneInv, server = "up", NEW s \in Handles,
         \/ CloseStep(s) \/ Halt(s) \/ \E force \in BOOLEAN : CloseFind(s, force)
  PROVE  RecordOk(s)' /\ Over(s)' /\ ParkedBefore(s)'
  <1> USE DEF CloseGoto, threads, lines, session, durable, world
  <1>0. /\ s # Nobody /\ OneThread(s) /\ InOrder(s) /\ Kept(s)
        /\ RecordOk(s) /\ Over(s) /\ ParkedBefore(s)
        /\ pc \in [Handles -> OpenPoints] /\ cpc \in [Handles -> ClosePoints]
        /\ copy \in [Handles -> [exec : ExecStates, pid : BOOLEAN, force : BOOLEAN]]
        /\ record \in Records \cup {NoRecord}
        /\ handle[s].generation \in Nat /\ parked \in Nat
        /\ cpc[s] \notin {"none", "done"} => pc[s] = "open"
    BY AloneFacts
  <1>1. CASE Halt(s)
    <2>1. /\ pc[s] = "open" /\ cpc[s] = "none" /\ record \in Records /\ OwnsRecord(s)
          /\ UNCHANGED <<avars, pc, cpc, copy, backend, stranded, forced, parked, unmarked, subscribers,
                         tombFile>>
      BY <1>0, <1>1 DEF Halt, OwnsRecord
    <2>2. /\ record'.owner = s /\ record'.pid = record.pid /\ record'.gen = record.gen
          /\ OwnsRecord(s)'
      <3>1. PICK e \in ExecStates : record' = [record EXCEPT !.exec = e]
        BY <1>1 DEF Halt
      <3>2. record'.owner = s /\ record'.pid = record.pid /\ record'.gen = record.gen
        BY <2>1, <3>1 DEF Records, OwnsRecord
      <3>3. QED
        BY <1>0, <3>2 DEF OwnsRecord, NoRecord
    <2>3. QED
      BY <1>0, <2>1, <2>2 DEF RecordOk, Recorded, Gone, Over, ParkedBefore, avars
  <1>2. CASE \E force \in BOOLEAN : CloseFind(s, force)
    <2>1. /\ pc[s] = "open" /\ cpc[s] = "none" /\ cpc'[s] = "found" /\ OwnsRecord(s)
          /\ copy'[s].pid = record.pid
          /\ UNCHANGED <<avars, pc, record, backend, stranded, forced, parked, unmarked, subscribers,
                         tombFile>>
      BY <1>0, <1>2 DEF CloseFind
    <2>2. Gone(s) \/ copy'[s].pid
      BY <1>0, <2>1 DEF RecordOk
    <2>3. QED
      BY <1>0, <2>1, <2>2
         DEF RecordOk, Recorded, OwnsRecord, Gone, Over, ParkedBefore, Holding, avars
  <1>3. CASE CloseWrite(s)
    <2>1. /\ pc[s] = "open" /\ cpc[s] = "found" /\ cpc'[s] = "closing"
          /\ record'.owner = s /\ record'.pid = copy[s].pid /\ record'.exec = copy[s].exec
          /\ record'.gen = handle[s].generation
          /\ UNCHANGED <<avars, pc, copy, backend, stranded, forced, parked, unmarked, subscribers,
                         tombFile>>
      BY <1>0, <1>3 DEF CloseWrite
    <2>2. OwnsRecord(s)'
      BY <1>0, <2>1 DEF OwnsRecord, NoRecord
    <2>3. Gone(s) \/ record'.pid
      BY <1>0, <2>1 DEF RecordOk
    <2>4. QED
      BY <1>0, <2>1, <2>2, <2>3 DEF RecordOk, Recorded, Gone, Over, ParkedBefore, Holding, avars
  <1>4. CASE CloseWriteFail(s) \/ TeardownVerify(s)
    <2>1. /\ pc[s] = "open" /\ cpc[s] \in {"found", "raised"}
          /\ cpc'[s] \in {"raised", "none", "fr_lines"}
          /\ UNCHANGED <<avars, pc, copy, record, backend, stranded, forced, parked, unmarked,
                         subscribers, tombFile>>
      BY <1>0, <1>4 DEF CloseWriteFail, TeardownVerify
    <2>2. QED
      BY <1>0, <2>1
         DEF RecordOk, Recorded, OwnsRecord, Gone, Over, ParkedBefore, Holding, avars
  <1>5. CASE CloseBackend(s)
    <2>1. /\ pc[s] = "open" /\ cpc[s] = "closing" /\ cpc'[s] = "lines" /\ Gone(s)'
          /\ UNCHANGED <<avars, pc, copy, record, parked, unmarked, subscribers, tombFile>>
      BY <1>0, <1>5 DEF CloseBackend, Gone
    <2>2. QED
      BY <1>0, <2>1 DEF RecordOk, Recorded, OwnsRecord, Over, ParkedBefore, Holding, avars
  <1>6. CASE CloseLines(s)
    <2>1. /\ pc[s] = "open" /\ cpc[s] = "lines" /\ cpc'[s] = "complete"
          /\ UNCHANGED <<avars, pc, copy, record, backend, stranded, forced, subscribers,
                         tombFile>>
          /\ parked' = IF LeavesHalted(s) /\ handle[s].generation >= parked
                       THEN handle[s].generation ELSE parked
      BY <1>0, <1>6 DEF CloseLines
    <2>2. LeavesHalted(s) => parked' = handle[s].generation
      BY <1>0, <2>1 DEF ParkedBefore, Holding
    <2>3. QED
      BY <1>0, <2>1, <2>2
         DEF RecordOk, Recorded, OwnsRecord, Gone, Over, ParkedBefore, Holding, LeavesHalted,
             avars
  <1>7. CASE CloseComplete(s)
    <2>1. /\ pc[s] = "open" /\ cpc[s] = "complete"
          /\ cpc'[s] = IF LeavesHalted(s) THEN "tomb" ELSE "check"
          /\ handle' = handle
          /\ UNCHANGED <<pc, copy, record, backend, stranded, forced, parked, unmarked, subscribers,
                         tombFile>>
      BY <1>0, <1>7, DisposeKeeps DEF CloseComplete, avars
    <2>2. QED
      BY <1>0, <2>1
         DEF RecordOk, Recorded, OwnsRecord, Gone, Over, ParkedBefore, Holding, LeavesHalted
  <1>8. CASE CloseTombFile(s)
    <2>1. /\ pc[s] = "open" /\ cpc[s] = "tomb" /\ cpc'[s] \in {"mark", "check"}
          /\ cpc'[s] = "mark" => tombFile' = handle[s].generation
          /\ UNCHANGED <<avars, pc, copy, record, backend, stranded, forced, parked,
                         subscribers>>
      BY <1>0, <1>8 DEF CloseTombFile
    <2>2. QED
      BY <1>0, <2>1
         DEF RecordOk, Recorded, OwnsRecord, Gone, Over, ParkedBefore, Holding, LeavesHalted,
             avars
  <1>9. CASE CloseMark(s)
    <2>1. /\ pc[s] = "open" /\ cpc[s] = "mark" /\ cpc'[s] = "check" /\ handle' = handle
          /\ UNCHANGED <<pc, copy, record, backend, stranded, forced, parked, unmarked, subscribers>>
      BY <1>0, <1>9 DEF CloseMark, MarkRecoveryRequired, avars
    <2>2. QED
      BY <1>0, <2>1
         DEF RecordOk, Recorded, OwnsRecord, Gone, Over, ParkedBefore, Holding
  <1>10. CASE CloseCheck(s) \/ CloseUnlink(s)
    <2>1. /\ pc[s] = "open" /\ cpc[s] \in {"check", "unlink"}
          /\ cpc'[s] \in {"unlink", "unsubscribe"}
          /\ cpc'[s] = "unsubscribe" => ~OwnsRecord(s)'
          /\ cpc'[s] = "unlink" => OwnsRecord(s)'
          /\ OwnsRecord(s)' => record' = record
          /\ UNCHANGED <<avars, pc, copy, backend, stranded, forced, parked, unmarked, subscribers>>
      BY <1>0, <1>10 DEF CloseCheck, CloseUnlink, Unlink, OwnsRecord
    <2>2. Gone(s)
      BY <1>0, <2>1 DEF InOrder, Reaped, ClosePoints
    <2>3. QED
      BY <1>0, <2>1, <2>2
         DEF RecordOk, Recorded, OwnsRecord, Gone, Over, ParkedBefore, Holding, avars
  <1>11. CASE CloseUnsubscribe(s)
    <2>1. /\ cpc[s] = "unsubscribe" /\ cpc'[s] = "done" /\ pc'[s] = "closed"
          /\ subscribers' = subscribers \ {s}
          /\ UNCHANGED <<avars, lines, copy, record, backend, stranded, forced, parked, unmarked>>
      BY <1>0, <1>11 DEF CloseUnsubscribe
    <2>2. Gone(s) /\ NoLines(s)
      BY <1>0, <2>1 DEF InOrder, Reaped, LinesGone, ClosePoints
    <2>3. QED
      BY <1>0, <2>1, <2>2
         DEF RecordOk, Recorded, OwnsRecord, Gone, Over, NoLines, ParkedBefore, Holding, avars
  <1>12. CASE ForceReleaseLines(s)
    <2>1. pc[s] = "open" /\ OwnsRecord(s)
      BY <1>0, <1>12 DEF ForceReleaseLines, RecordOk, Recorded
    <2>2. /\ cpc[s] = "fr_lines" /\ cpc'[s] = "fr_confirm" /\ Gone(s)'
          /\ UNCHANGED <<avars, pc, copy, record, subscribers>>
      BY <1>0, <1>12, <2>1 DEF ForceReleaseLines, Gone
    <2>3. QED
      BY <1>0, <2>1, <2>2
         DEF RecordOk, Recorded, OwnsRecord, Over, ParkedBefore, Holding, avars
  <1>13. CASE ForceReleaseConfirm(s) \/ ForceReleaseAbandon(s)
    <2>1. /\ pc[s] = "open" /\ cpc[s] \in {"fr_confirm", "fr_abandon"}
          /\ cpc'[s] \in {"fr_abandon", "check"} /\ handle' = handle
          /\ UNCHANGED <<pc, copy, record, backend, stranded, forced, parked, unmarked, subscribers>>
      BY <1>0, <1>13, DisposeKeeps, ServiceKeeps
         DEF ForceReleaseConfirm, ForceReleaseAbandon, avars
    <2>2. QED
      BY <1>0, <2>1
         DEF RecordOk, Recorded, OwnsRecord, Gone, Over, ParkedBefore, Holding
  <1>14. QED
    BY <1>1, <1>2, <1>3, <1>4, <1>5, <1>6, <1>7, <1>8, <1>9, <1>10, <1>11, <1>12, <1>13
       DEF CloseStep

\* A thread keeps what holds of its own session.
LEMMA OwnAlone ==
  ASSUME Alone, TxInv, UndisturbedInv, AloneInv, server = "up", NEW s \in Handles, Acts(s)
  PROVE  RecordOk(s)' /\ Over(s)' /\ ParkedBefore(s)'
  BY AdmitAlone, OpenAlone, RollbackAlone, CloseAlone DEF Acts, OpenStep

\* Only the registration gives a handle its generation; only close() marks a kernel
\* and only a recovery attach clears the mark.
LEMMA ActsMarks ==
  ASSUME TxInv, NEW s \in Handles, Acts(s)
  PROVE  /\ handle' = handle \/ \E g \in Generations : OpenAdmit(s, g)
         /\ tombstone' = tombstone \/ OpenClearCache(s) \/ CloseMark(s)
         /\ tombFile' = tombFile \/ OpenClearDurable(s) \/ CloseTombFile(s)
  <1> USE DEF durable, avars
  <1>1. CASE \E g \in Generations : OpenAdmit(s, g)
    BY <1>1 DEF OpenAdmit, Admit, AdmitRecovery, Register
  <1>2. CASE \/ OpenGuard(s) \/ OpenLease(s) \/ OpenRecord(s) \/ OpenSpawn(s)
             \/ OpenPartial(s) \/ OpenReady(s) \/ OpenFail(s)
    BY <1>2 DEF OpenGuard, OpenLease, OpenRecord, OpenSpawn, OpenPartial, OpenReady,
       WriteOwn, OpenFail
  <1>3. CASE OpenCommit(s) \/ OpenClearDurable(s)
    BY <1>3 DEF OpenCommit, Promote, OpenClearDurable
  <1>4. CASE OpenClearCache(s)
    BY <1>4 DEF OpenClearCache, ClearRecoveryRequired
  <1>5. CASE RollbackReap(s) \/ RollbackCheck(s) \/ RollbackUnlink(s) \/ RollbackLines(s)
    BY <1>5 DEF RollbackReap, RollbackCheck, RollbackUnlink, Unlink, RollbackLines
  <1>6. CASE RollbackAdmission(s) \/ CloseComplete(s)
    BY <1>6 DEF RollbackAdmission, Rollback, CloseComplete, Complete, Dispose
  <1>7. CASE Halt(s) \/ \E force \in BOOLEAN : CloseFind(s, force)
    BY <1>7 DEF Halt, CloseFind
  <1>8. CASE CloseWrite(s) \/ CloseWriteFail(s) \/ CloseBackend(s) \/ CloseLines(s)
    BY <1>8 DEF CloseWrite, CloseWriteFail, CloseBackend, CloseLines
  <1>9. CASE CloseTombFile(s) \/ CloseCheck(s) \/ CloseUnlink(s) \/ CloseUnsubscribe(s)
    BY <1>9 DEF CloseTombFile, CloseCheck, CloseUnlink, Unlink, CloseUnsubscribe
  <1>10. CASE CloseMark(s)
    BY <1>10 DEF CloseMark, MarkRecoveryRequired
  <1>11. CASE TeardownVerify(s) \/ ForceReleaseLines(s)
    BY <1>11 DEF TeardownVerify, ForceReleaseLines
  <1>12. CASE ForceReleaseConfirm(s) \/ ForceReleaseAbandon(s)
    BY <1>12 DEF ForceReleaseConfirm, ConfirmReaped, ForceReleaseAbandon, Abandon, Dispose
  <1>13. QED
    BY <1>1, <1>2, <1>3, <1>4, <1>5, <1>6, <1>7, <1>8, <1>9, <1>10, <1>11, <1>12
       DEF Acts, OpenStep, CloseStep

\* A record is written before its session parks anything.
LEMMA ActsWriteEarly ==
  ASSUME TxInv, UndisturbedInv, AloneInv, NEW s \in Handles, Acts(s),
         record' # record, record' # NoRecord
  PROVE  /\ OwnsRecord(s)'
         /\ pc'[s] \notin {"idle", "dead", "failed", "closed"} /\ cpc'[s] \in Holding
  <1> USE DEF durable, Goto, CloseGoto, Holding
  <1>0. /\ pc \in [Handles -> OpenPoints] /\ cpc \in [Handles -> ClosePoints]
        /\ pc[s] \notin {"open", "closed"} => cpc[s] = "none"
        /\ cpc[s] \notin {"none", "done"} => pc[s] = "open"
    BY AloneFacts
  <1>1. OwnsRecord(s)'
    BY ActsWrites
  <1>2. CASE OpenRecord(s) \/ OpenPartial(s) \/ OpenReady(s)
    BY <1>0, <1>1, <1>2 DEF OpenRecord, OpenPartial, OpenReady
  <1>3. CASE Halt(s) \/ CloseWrite(s)
    BY <1>0, <1>1, <1>3 DEF Halt, CloseWrite, threads
  <1>4. ~RollbackUnlink(s) /\ ~CloseUnlink(s)
    BY DEF RollbackUnlink, CloseUnlink, Unlink
  <1>5. CASE \/ (\E g \in Generations : OpenAdmit(s, g)) \/ OpenGuard(s)
             \/ OpenLease(s) \/ OpenSpawn(s) \/ OpenCommit(s) \/ OpenClearDurable(s)
             \/ OpenClearCache(s) \/ OpenFail(s) \/ RollbackReap(s) \/ RollbackCheck(s)
             \/ RollbackLines(s) \/ RollbackAdmission(s)
    BY <1>5 DEF OpenAdmit, OpenGuard, OpenLease, OpenSpawn, OpenCommit, OpenClearDurable,
       OpenClearCache, OpenFail, RollbackReap, RollbackCheck, RollbackLines,
       RollbackAdmission
  <1>6. CASE \/ \E force \in BOOLEAN : CloseFind(s, force)
             \/ CloseWriteFail(s) \/ CloseBackend(s) \/ CloseLines(s) \/ CloseComplete(s)
             \/ CloseTombFile(s) \/ CloseMark(s) \/ CloseCheck(s) \/ CloseUnsubscribe(s)
             \/ TeardownVerify(s) \/ ForceReleaseLines(s) \/ ForceReleaseConfirm(s)
             \/ ForceReleaseAbandon(s)
    BY <1>6 DEF CloseFind, CloseWriteFail, CloseBackend, CloseLines, CloseComplete,
       CloseTombFile, CloseMark, CloseCheck, CloseUnsubscribe, TeardownVerify,
       ForceReleaseLines, ForceReleaseConfirm, ForceReleaseAbandon
  <1>7. QED
    BY <1>2, <1>3, <1>4, <1>5, <1>6 DEF Acts, OpenStep, CloseStep

\* The numbers that the marks are compared by.
LEMMA Numbers ==
  ASSUME TxInv
  PROVE  /\ parked \in Nat /\ booted \in Nat /\ tombstone \in Nat /\ tombFile \in Nat
         /\ snapGen \in Nat
         /\ \A x \in Handles : handle[x].generation \in Nat
         /\ record # NoRecord => /\ record \in Records /\ record.gen \in Nat
                                 /\ record.gen > None
  BY Generation DEF TxInv, TxTypeOK, Records, Generations, None, AdmissionInv, AdmissionTypeOK

\* A thread marks what has been booted.
LEMMA ActsBooted ==
  ASSUME Alone, TxInv, UndisturbedInv, AloneInv, server = "up", NEW s \in Handles, Acts(s)
  PROVE  BootedLast'
  <1>0. BootedLast /\ RecordOk(s) /\ ParkedBefore(s)
    BY DEF AloneInv
  <1>1. UNCHANGED <<server, booted, snapGen>>
    BY ActsWorld
  <1>2. ASSUME NEW x \in Handles
        PROVE  handle'[x].generation <= booted
    <2>1. CASE handle' = handle
      BY <1>0, <2>1 DEF BootedLast
    <2>2. CASE \E g \in Generations : OpenAdmit(s, g)
      <3>1. x # s => handle'[x] = handle[x]
        BY ActsLeaves DEF Leaves, Keeps
      <3>2. handle'[s].generation = booted
        BY <2>2, AdmitAlone
      <3>3. QED
        BY <1>0, <3>1, <3>2, Numbers DEF BootedLast
    <2>3. QED
      BY <2>1, <2>2, ActsMarks
  <1>3. parked' <= booted
    <2>1. \/ parked' = parked \/ parked' = None \/ parked' = handle[s].generation
          \/ record # NoRecord /\ parked' = record.gen
      BY ActsWorld DEF OwnsRecord
    <2>2. QED
      BY <1>0, <2>1, Numbers DEF BootedLast, None
  <1>4. tombstone' <= booted
    <2>1. CASE OpenClearCache(s) \/ CloseMark(s)
      <3>1. tombstone' = tombstone \/ tombstone' = None \/ tombstone' = handle[s].generation
        BY <2>1 DEF OpenClearCache, ClearRecoveryRequired, CloseMark, MarkRecoveryRequired,
           avars
      <3>2. QED
        BY <1>0, <3>1, Numbers DEF BootedLast, None
    <2>2. QED
      BY <1>0, <2>1, ActsMarks DEF BootedLast
  <1>5. tombFile' <= booted
    <2>1. CASE OpenClearDurable(s) \/ CloseTombFile(s)
      <3>1. tombFile' = tombFile \/ tombFile' = None \/ tombFile' = handle[s].generation
        BY <2>1 DEF OpenClearDurable, CloseTombFile
      <3>2. QED
        BY <1>0, <3>1, Numbers DEF BootedLast, None
    <2>2. QED
      BY <1>0, <2>1, ActsMarks DEF BootedLast
  <1>6. record' # NoRecord => record'.gen <= booted /\ parked' <= record'.gen
    <2>1. CASE record' = record /\ record # NoRecord
      <3>1. parked' = parked \/ parked' = None \/ parked' = record.gen
        <4>1. cpc[s] = "lines" => record.gen = handle[s].generation
          BY <1>0, AloneFacts DEF RecordOk, Recorded
        <4>2. QED
          BY <4>1, ActsWorld
      <3>2. QED
        BY <1>0, <2>1, <3>1, Numbers DEF BootedLast, None
    <2>2. CASE record' # record /\ record' # NoRecord
      <3>1. /\ OwnsRecord(s)'
            /\ pc'[s] \notin {"idle", "dead", "failed", "closed"} /\ cpc'[s] \in Holding
        BY <2>2, ActsWriteEarly
      <3>2. record'.gen = handle'[s].generation /\ parked' <= handle'[s].generation
        <4>1. RecordOk(s)' /\ ParkedBefore(s)' /\ TxInv'
          BY OwnAlone, TxNext DEF Next, Serve, Acts
        <4>2. handle'[s].generation \in Nat /\ parked' \in Nat
          <5>1. \/ parked' = parked \/ parked' = None \/ parked' = handle[s].generation
                \/ record # NoRecord /\ parked' = record.gen
            BY ActsWorld DEF OwnsRecord
          <5>2. handle'[s].generation \in Nat
            BY <4>1 DEF TxInv, SessionOk, Begun, Generations, None
          <5>3. QED
            BY <5>1, <5>2, Numbers DEF None
        <4>3. QED
          BY <3>1, <4>1, <4>2 DEF RecordOk, ParkedBefore
      <3>3. QED
        BY <1>2, <3>2
    <2>3. QED
      BY <2>1, <2>2
  <1>7. QED
    BY <1>0, <1>1, <1>2, <1>3, <1>4, <1>5, <1>6 DEF BootedLast

\* A thread that leaves a kernel halted marks it before it gives up its record, and only
\* the recovery attach that takes the kernel over clears its mark.
LEMMA ActsParked ==
  ASSUME Alone, TxInv, UndisturbedInv, AloneInv, server = "up", NEW s \in Handles, Acts(s)
  PROVE  ParkedKept'
  <1> SUFFICES ASSUME parked' # None, parked' = booted, parked' \notin unmarked'
               PROVE  \/ tombstone' = parked' /\ tombFile' = parked'
                      \/ \E x \in Handles : /\ cpc'[x] \in {"complete", "tomb", "mark"}
                                            /\ LeavesHalted(x)' /\ HaltedRecord'
    BY ActsWorld DEF ParkedKept
  <1>0. /\ BootedLast /\ ParkedKept /\ RecordOk(s) /\ ParkedBefore(s)
        /\ cpc \in [Handles -> ClosePoints]
        /\ cpc[s] \notin {"none", "done"} => pc[s] = "open"
        /\ pc[s] \notin {"open", "closed"} => cpc[s] = "none"
    BY AloneFacts DEF AloneInv
  <1>1. CASE cpc[s] = "lines" /\ LeavesHalted(s)
    <2>2. CloseLines(s)
      BY <1>0, <1>1 DEF Acts, OpenStep, OpenAdmit, OpenGuard, OpenLease, OpenRecord, OpenSpawn,
         OpenPartial, OpenReady, OpenCommit, OpenClearDurable, OpenClearCache, OpenFail,
         Unwind, RollbackReap, RollbackCheck, RollbackUnlink, RollbackLines,
         RollbackAdmission, Goto, CloseStep, Halt, CloseFind, CloseWrite, CloseWriteFail,
         CloseBackend, CloseComplete, CloseTombFile, CloseMark, CloseCheck, CloseUnlink,
         CloseUnsubscribe, TeardownVerify, ForceReleaseLines, ForceReleaseConfirm,
         ForceReleaseAbandon, CloseGoto
    <2>3. cpc'[s] = "complete" /\ copy' = copy /\ record' = record
      BY <1>0, <2>2 DEF CloseLines, CloseGoto, durable
    <2>4. parked' = handle[s].generation
      BY <1>0, <1>1, <2>2 DEF CloseLines, ParkedBefore, Holding
    <2>5. record # NoRecord /\ record.exec = "halted" /\ record.gen = parked'
      BY <1>0, <1>1, <2>4 DEF RecordOk, Recorded, OwnsRecord, LeavesHalted
    <2>6. QED
      BY <1>1, <2>3, <2>5 DEF HaltedRecord, LeavesHalted
  <1>2. CASE ~(cpc[s] = "lines" /\ LeavesHalted(s))
    <2>0. parked' = parked /\ parked \notin unmarked
      BY <1>2, ActsWorld
    <2>1. \/ tombstone = parked /\ tombFile = parked
          \/ cpc[s] \in {"complete", "tomb", "mark"} /\ LeavesHalted(s) /\ HaltedRecord
      <3>1. \A x \in Handles : cpc[x] \in {"complete", "tomb", "mark"} => x = s
        BY ActsAlone DEF Busy
      <3>2. QED
        BY <1>0, <2>0, <3>1 DEF ParkedKept
    <2>2. CASE CloseMark(s)
      <3>1. handle[s].generation = parked /\ tombFile = parked
        BY <1>0, <2>2 DEF CloseMark, CloseGoto, ParkedBefore
      <3>2. ~(parked < tombstone)
        BY <1>0, <2>0, Numbers DEF BootedLast
      <3>3. tombstone' = parked /\ tombFile' = tombFile
        BY <2>2, <3>1, <3>2 DEF CloseMark, MarkRecoveryRequired, durable
      <3>4. QED
        BY <2>0, <3>1, <3>3
    <2>3. CASE CloseTombFile(s) \/ CloseComplete(s)
      <3>1. CASE LeavesHalted(s) /\ HaltedRecord
        <4>1. CloseTombFile(s) => handle[s].generation = parked
          BY <1>0 DEF CloseTombFile, CloseGoto, ParkedBefore
        <4>2. cpc'[s] \in {"tomb", "mark"} /\ copy' = copy /\ record' = record
          BY <1>0, <2>0, <2>3, <3>1, <4>1
             DEF CloseTombFile, CloseComplete, CloseGoto, durable
        <4>3. QED
          BY <2>0, <3>1, <4>2 DEF LeavesHalted, HaltedRecord
      <3>2. CASE tombstone = parked /\ tombFile = parked
        <4>1. tombFile' = tombFile \/ tombFile' = handle[s].generation
          BY <2>3 DEF CloseTombFile, CloseComplete, durable
        <4>2. CloseTombFile(s) => handle[s].generation = parked
          BY <1>0 DEF CloseTombFile, CloseGoto, ParkedBefore
        <4>3. CloseComplete(s) => tombFile' = tombFile
          BY DEF CloseComplete, durable
        <4>4. tombstone' = tombstone
          BY <2>3 DEF CloseTombFile, CloseComplete, Complete, Dispose, avars
        <4>5. QED
          BY <2>0, <2>3, <3>2, <4>1, <4>2, <4>3, <4>4
      <3>3. QED
        BY <2>1, <3>1, <3>2
    <2>4. CASE OpenClearDurable(s)
      <3>1. pc[s] = "clearing" /\ cpc[s] = "none"
        BY <1>0, <2>4 DEF OpenClearDurable, Goto
      <3>2. handle[s].generation # parked
        BY <2>0, <2>4 DEF OpenClearDurable, None
      <3>3. tombFile' = tombFile \/ tombFile = handle[s].generation
        BY <2>4 DEF OpenClearDurable
      <3>4. tombstone' = tombstone
        BY <2>4 DEF OpenClearDurable, avars
      <3>5. QED
        BY <2>0, <2>1, <3>1, <3>2, <3>3, <3>4
    <2>5. CASE OpenClearCache(s)
      <3>1. handle[s].generation > parked
        BY <1>0, <2>5 DEF OpenClearCache, Goto, ParkedBefore
      <3>2. handle[s].generation <= booted
        BY <1>0 DEF BootedLast
      <3>3. QED
        BY <2>0, <3>1, <3>2, Numbers
    <2>6. CASE \/ cpc[s] \notin {"complete", "tomb", "mark"}
               \/ tombstone = parked /\ tombFile = parked
      BY <2>0, <2>1, <2>2, <2>3, <2>4, <2>5, <2>6, ActsMarks
    <2>7. CASE cpc[s] \in {"complete", "tomb", "mark"}
      <3>1. CloseComplete(s) \/ CloseTombFile(s) \/ CloseMark(s)
        BY <1>0, <2>7 DEF Acts, OpenStep, OpenAdmit, OpenGuard, OpenLease, OpenRecord,
           OpenSpawn, OpenPartial, OpenReady, OpenCommit, OpenClearDurable, OpenClearCache,
           OpenFail, Unwind, RollbackReap, RollbackCheck, RollbackUnlink, RollbackLines,
           RollbackAdmission, Goto, CloseStep, Halt, CloseFind, CloseWrite, CloseWriteFail,
           CloseBackend, CloseLines, CloseCheck, CloseUnlink, CloseUnsubscribe,
           TeardownVerify, ForceReleaseLines, ForceReleaseConfirm, ForceReleaseAbandon,
           CloseGoto
      <3>2. QED
        BY <2>2, <2>3, <3>1
    <2>8. QED
      BY <2>6, <2>7
  <1>3. QED
    BY <1>1, <1>2

\* A boot moves past every mark or publishes its generation again.
LEMMA BootAlone ==
  ASSUME TxInv, UndisturbedInv, AloneInv, server = "up",
         (\E g \in Generations : Boot(g)) \/ ReopenAdmission
  PROVE  AloneInv'
  <1>1. /\ UNCHANGED <<threads, lines, session, record, tombFile, world>>
        /\ UNCHANGED <<handle, tombstone>>
    BY DEF Boot, PublishSnapshot, ReopenAdmission, Reopen, tvars, durable
  <1>2. \A x, y \in Handles : Busy(x)' /\ Busy(y)' => x = y
    BY <1>1 DEF AloneInv, Busy, threads
  <1>3. ASSUME NEW x \in Handles PROVE RecordOk(x)' /\ Over(x)' /\ ParkedBefore(x)'
    BY <1>1 DEF AloneInv, RecordOk, Recorded, OwnsRecord, Gone, Over, NoLines, ParkedBefore,
       LeavesHalted, threads, lines, session, world
  <1>4. /\ booted' \in Nat /\ (booted' = booted \/ booted' = booted + 1)
        /\ snapGen' = booted' \/ (snapGen' = snapGen /\ booted' = booted)
    BY Numbers DEF Boot, PublishSnapshot, Generations, ReopenAdmission, Reopen, tvars, durable
  <1>5. BootedLast'
    BY <1>1, <1>4, Numbers DEF AloneInv, BootedLast, world
  <1>6. ParkedKept'
    <2>1. parked <= booted
      BY DEF AloneInv, BootedLast
    <2>2. parked' = parked /\ (parked' = booted' => parked = booted)
      BY <1>1, <1>4, <2>1, Numbers DEF world
    <2>3. QED
      BY <1>1, <2>2 DEF AloneInv, ParkedKept, LeavesHalted, HaltedRecord, threads, world
  <1>7. QED
    BY <1>2, <1>3, <1>5, <1>6 DEF AloneInv

\* The restart reaps whom the record names before it deletes it, and marks the kernel
\* that the record says is halted, first on disk.
LEMMA ReconcileAlone ==
  ASSUME TxInv, UndisturbedInv, AloneInv, server # "up", ReconcileStep
  PROVE  AloneInv'
  <1>0. /\ \A x \in Handles : pc[x] \in {"idle", "dead"} /\ cpc[x] = "none"
        /\ UNCHANGED <<threads, lines, session, booted, parked, unmarked, forced, handle,
                       snapGen>>
    <2>1. \A x \in Handles : pc[x] \in {"idle", "dead"}
      BY DEF UndisturbedInv, Untorn
    <2>2. \A x \in Handles : cpc[x] = "none"
      BY <2>1, AloneFacts
    <2>3. UNCHANGED <<threads, lines, session, booted, parked, unmarked, forced, handle,
                       snapGen>>
      BY DEF ReconcileStep, ReconcileTombstones, ReconcileReap, ReconcilePark,
         ReconcileNotify, ReconcileDelete, Unlink, MarkRecoveryRequired, CloseAdmission,
         durable, avars
    <2>4. QED
      BY <2>1, <2>2, <2>3
  <1>1. \A x, y \in Handles : Busy(x)' /\ Busy(y)' => x = y
    BY <1>0 DEF Busy, threads
  <1>2. BootedLast /\ ParkedKept /\ \A x \in Handles : RecordOk(x) /\ Over(x)
    BY DEF AloneInv
  <1>3. ASSUME NEW x \in Handles PROVE RecordOk(x)'
    <2>0. /\ pc[x] \in {"idle", "dead"} /\ pc'[x] = pc[x] /\ cpc'[x] = "none" /\ x # Nobody
          /\ pc[x] = "idle" => ~OwnsRecord(x) /\ x \notin backend
      BY <1>0, <1>2, AloneFacts DEF RecordOk, Acquired, threads
    <2>1. CASE ReconcileTombstones
      <3>1. UNCHANGED <<record, backend, stranded, forced>> /\ server' = "reap"
        BY <1>0, <2>1 DEF ReconcileTombstones, durable
      <3>2. QED
        BY <1>2, <2>0, <3>1 DEF RecordOk, Recorded, OwnsRecord, Gone
    <2>2. CASE ReconcileReap
      <3>1. record' = record /\ forced' = forced
        BY <1>0, <2>2 DEF ReconcileReap, durable
      <3>2. Gone(x)'
        <4>1. Gone(x) \/ (record.owner = x /\ record.pid)
          BY <1>2, <2>0 DEF RecordOk, OwnsRecord
        <4>2. QED
          BY <2>2, <3>1, <4>1 DEF ReconcileReap, Gone
      <3>3. QED
        BY <2>0, <3>1, <3>2 DEF RecordOk, Recorded, OwnsRecord
    <2>3. CASE ReconcilePark \/ ReconcileNotify \/ ReconcileDelete
      <3>1. /\ UNCHANGED <<backend, stranded, forced>>
            /\ record' = record \/ record' = NoRecord
        BY <1>0, <2>3 DEF ReconcilePark, ReconcileNotify, ReconcileDelete, Unlink, durable
      <3>2. Gone(x)
        BY <1>2, <2>0, <2>3
           DEF RecordOk, OwnsRecord, ReconcilePark, ReconcileNotify, ReconcileDelete
      <3>3. QED
        BY <2>0, <3>1, <3>2 DEF RecordOk, Recorded, OwnsRecord, Gone
    <2>4. QED
      BY <2>1, <2>2, <2>3 DEF ReconcileStep
  <1>4. ASSUME NEW x \in Handles PROVE Over(x)' /\ ParkedBefore(x)'
    BY <1>0 DEF Over, ParkedBefore, threads
  <1>5. BootedLast'
    <2>1. tombstone' = tombstone \/ tombstone' = tombFile
                                 \/ (record \in Records /\ tombstone' = record.gen)
      BY DEF TxInv, Reconciled, ReconcileStep, ReconcileTombstones, ReconcileReap,
         ReconcilePark, ReconcileNotify, ReconcileDelete, MarkRecoveryRequired,
         CloseAdmission, avars
    <2>2. tombFile' = tombFile \/ (record \in Records /\ tombFile' = record.gen)
      BY DEF TxInv, Reconciled, ReconcileStep, ReconcileTombstones, ReconcileReap,
         ReconcilePark, ReconcileNotify, ReconcileDelete, Unlink, durable
    <2>3. record' = record \/ record' = NoRecord
      BY DEF ReconcileStep, ReconcileTombstones, ReconcileReap, ReconcilePark,
         ReconcileNotify, ReconcileDelete, Unlink, durable
    <2>4. record \in Records => record # NoRecord
      BY TransactionAssumption DEF Records, NoRecord
    <2>5. QED
      BY <1>0, <1>2, <2>1, <2>2, <2>3, <2>4 DEF BootedLast
  <1>6. ParkedKept'
    <2> SUFFICES ASSUME parked # None, parked = booted, parked \notin unmarked
                 PROVE  \/ tombstone' = parked /\ tombFile' = parked
                        \/ server' \in {"reap", "park", "park_killed"} /\ HaltedRecord'
      BY <1>0 DEF ParkedKept
    <2>0. \/ tombstone = parked /\ tombFile = parked
          \/ server = "tombstones" /\ tombFile = parked
          \/ server \in {"tombstones", "reap", "park", "park_killed"} /\ HaltedRecord
      BY <1>0, <1>2 DEF ParkedKept
    <2>1. CASE ReconcileTombstones
      <3>1. record' = record /\ tombFile' = tombFile /\ server' = "reap"
        BY <2>1 DEF ReconcileTombstones, durable
      <3>2. tombFile = parked => tombstone' = parked
        BY <2>1 DEF ReconcileTombstones, MarkRecoveryRequired
      <3>3. QED
        BY <1>0, <2>0, <3>1, <3>2 DEF HaltedRecord
    <2>2. CASE ReconcileReap
      <3>1. /\ UNCHANGED <<record, tombFile, tombstone>> /\ server = "reap"
            /\ server' \in {"park", "park_killed"}
        BY <2>2 DEF ReconcileReap, durable, avars
      <3>2. QED
        BY <1>0, <2>0, <3>1 DEF HaltedRecord
    <2>3. CASE ReconcilePark
      <3>1. record \in Records /\ server \in {"park", "park_killed"}
        BY <2>3 DEF ReconcilePark, TxInv, Reconciled
      <3>2. record # NoRecord
        BY <3>1, TransactionAssumption DEF Records, NoRecord
      <3>3. record.gen = parked /\ ~(parked < tombstone)
        BY <1>2, <3>2, Numbers DEF BootedLast
      <3>4. CASE record.exec = "halted"
        BY <2>3, <3>3, <3>4 DEF ReconcilePark, MarkRecoveryRequired
      <3>5. CASE record.exec # "halted"
        <4>1. tombstone = parked /\ tombFile = parked
          BY <2>0, <3>1, <3>5 DEF HaltedRecord
        <4>2. QED
          BY <2>3, <3>5, <4>1 DEF ReconcilePark, avars
      <3>6. QED
        BY <3>4, <3>5
    <2>4. CASE ReconcileNotify \/ ReconcileDelete
      <3>1. ~(server \in {"tombstones", "park", "park_killed"})
        BY <2>4 DEF ReconcileNotify, ReconcileDelete
      <3>2. server = "reap" => ~HaltedRecord
        BY <2>4 DEF ReconcileNotify, ReconcileDelete, HaltedRecord
      <3>3. UNCHANGED <<tombstone, tombFile>>
        BY <2>4 DEF ReconcileNotify, ReconcileDelete, CloseAdmission, Unlink, durable, avars
      <3>4. QED
        BY <2>0, <3>1, <3>2, <3>3
    <2>5. QED
      BY <2>1, <2>2, <2>3, <2>4 DEF ReconcileStep
  <1>7. QED
    BY <1>1, <1>3, <1>4, <1>5, <1>6 DEF AloneInv

\* What the server leaves when it dies: the record of whoever had a process or a halted
\* kernel, the marks on disk, and the processes that no record names.
LEMMA CrashAlone ==
  ASSUME TxInv, UndisturbedInv, AloneInv, Crash
  PROVE  AloneInv'
  <1>0. /\ \A x \in Handles : /\ pc'[x] = IF pc[x] = "idle" THEN "idle" ELSE "dead"
                              /\ cpc'[x] = "none" /\ handle'[x].generation = None
        /\ server' = "tombstones" /\ tombstone' = None /\ snapGen' = None
        /\ UNCHANGED <<record, tombFile, booted, backend, forced>>
        /\ stranded' = stranded \cup {x \in backend : pc[x] = "spawned"}
        /\ parked' = IF record # NoRecord /\ record.exec = "halted" /\ record.gen >= parked
                     THEN record.gen ELSE parked
        /\ (record # NoRecord /\ record.exec = "halted") \/ unmarked' = unmarked
    BY DEF Crash, ForgetAdmission, durable
  <1>1. \A x, y \in Handles : Busy(x)' /\ Busy(y)' => x = y
    BY <1>0 DEF Busy
  <1>2. BootedLast /\ ParkedKept
    BY DEF AloneInv
  <1>3. ASSUME NEW x \in Handles PROVE RecordOk(x)' /\ Over(x)' /\ ParkedBefore(x)'
    <2>1. /\ pc'[x] \in {"idle", "dead"} /\ cpc'[x] = "none"
          /\ pc'[x] = "idle" => ~OwnsRecord(x) /\ x \notin backend
      BY <1>0, AloneFacts DEF RecordOk, Acquired
    <2>2. RecordOk(x)'
      <3>1. Gone(x) \/ pc[x] = "spawned" \/ (OwnsRecord(x) /\ record.pid)
        BY DEF AloneInv, RecordOk
      <3>2. pc[x] = "spawned" \/ Gone(x) => Gone(x)'
        BY <1>0 DEF Gone
      <3>3. QED
        BY <1>0, <2>1, <3>1, <3>2 DEF RecordOk, Recorded, OwnsRecord
    <2>3. QED
      BY <2>1, <2>2 DEF Over, ParkedBefore
  <1>4. BootedLast'
    BY <1>0, <1>2, Numbers DEF BootedLast, None
  <1>5. ParkedKept'
    <2> SUFFICES ASSUME parked' # None, parked' = booted, parked' \notin unmarked'
                 PROVE  \/ tombFile' = parked'
                        \/ HaltedRecord'
      BY <1>0 DEF ParkedKept
    <2>1. CASE record # NoRecord /\ record.exec = "halted"
      <3>1. parked' = record.gen
        BY <1>0, <1>2, <2>1, Numbers DEF BootedLast
      <3>2. QED
        BY <1>0, <2>1, <3>1 DEF HaltedRecord
    <2>2. CASE ~(record # NoRecord /\ record.exec = "halted")
      <3>1. parked' = parked /\ unmarked' = unmarked /\ ~HaltedRecord
        BY <1>0, <2>2 DEF HaltedRecord
      <3>2. QED
        BY <1>0, <1>2, <3>1 DEF ParkedKept
    <2>3. QED
      BY <2>1, <2>2
  <1>6. QED
    BY <1>1, <1>3, <1>4, <1>5 DEF AloneInv

\* The inductive step.
LEMMA AloneStep ==
  ASSUME Alone, TxInv, UndisturbedInv, AloneInv, [Next]_vars
  PROVE  AloneInv'
  <1>1. ASSUME server = "up", NEW s \in Handles, Acts(s)
        PROVE  AloneInv'
    <2>1. ASSUME NEW x \in Handles PROVE RecordOk(x)' /\ Over(x)' /\ ParkedBefore(x)'
      <3>1. CASE x = s
        BY <1>1, <3>1, OwnAlone
      <3>2. CASE x # s
        BY <1>1, <3>2, OthersAlone
      <3>3. QED
        BY <3>1, <3>2
    <2>2. \A x \in Handles : x # s => ~Busy(x)'
      BY <1>1, OthersAlone
    <2>3. QED
      BY <1>1, <2>1, <2>2, ActsBooted, ActsParked DEF AloneInv
  <1>2. CASE UNCHANGED vars
    BY <1>2 DEF AloneInv, Busy, RecordOk, Recorded, OwnsRecord, Gone, Over, NoLines,
       ParkedBefore, BootedLast, ParkedKept, HaltedRecord, LeavesHalted, vars, avars, tvars,
       threads, lines, session, durable, world
  <1>3. CASE Next
    BY <1>1, <1>3, UndisturbedNext, BootAlone, ReconcileAlone, CrashAlone DEF Alone, Acts
  <1>4. QED
    BY <1>2, <1>3

\* One call at a time, over any crashes and restarts: the record names every process
\* that a restart must reap and every kernel that it must mark.
LEMMA AloneInvariant ==
  ASSUME Alone
  PROVE  Spec => []AloneInv
  <1>1. Init => AloneInv
    BY DEF Init, AdmissionInit, AloneInv, Busy, RecordOk, Recorded, OwnsRecord, Gone, Over,
       ParkedBefore, BootedLast, ParkedKept, NoRecord, None
  <1>2. TxInv /\ UndisturbedInv /\ AloneInv /\ [Next]_vars => AloneInv'
    BY AloneStep
  <1>3. Spec => []UndisturbedInv
    BY UndisturbedInvariant DEF Alone
  <1>4. QED
    BY <1>1, <1>2, <1>3, TransactionInvariant, PTL DEF Spec

-----------------------------------------------------------------------------
(* What restarts may rely on                                                *)

\* A server that serves again has reaped its predecessor's processes: the pid is in the
\* record from the moment the spawner would no longer reap it, and the record goes only
\* after the process.
THEOREM RestartsReapOrphans ==
  ASSUME "invalidate" \notin Faults, Serial
  PROVE  Spec => []RestartReapsOrphans
  <1>1. TxInv /\ AloneInv => RestartReapsOrphans
    BY TransactionAssumption
       DEF TxInv, TxTypeOK, AloneInv, RecordOk, Gone, RestartReapsOrphans
  <1>2. QED
    BY <1>1, AloneInvariant, TransactionInvariant, PTL DEF Alone, Undisturbed

\* So a live process holds the guard, across crashes, too.
THEOREM RestartedBackendsHoldGuard ==
  ASSUME "invalidate" \notin Faults, Serial
  PROVE  Spec => []LiveBackendHoldsGuard
  <1>1. TxInv /\ RestartReapsOrphans => LiveBackendHoldsGuard
    BY LiveUnlessOrphan
  <1>2. QED
    BY <1>1, RestartsReapOrphans, TransactionInvariant, PTL

\* A session that is over holds nothing and is in no list, whichever of its steps failed.
THEOREM EndedSessionsLeaveNothing ==
  ASSUME "invalidate" \notin Faults, Serial
  PROVE  Spec => []EndedLeavesNothing
  <1>1. TxInv /\ UndisturbedInv /\ AloneInv => EndedLeavesNothing
    <2> SUFFICES ASSUME TxInv, UndisturbedInv, AloneInv, NEW s \in Handles,
                        pc[s] \in {"failed", "closed"}
                 PROVE  /\ NoLines(s) /\ s \notin table \cup subscribers
                        /\ Gone(s) /\ ~OwnsRecord(s)
      BY DEF EndedLeavesNothing, NoLines, Gone, UndisturbedInv, Untorn
    <2>1. NoLines(s) /\ s \notin subscribers
      BY DEF AloneInv, Over, TxInv, SessionOk, InOrder, LinesGone
    <2>2. s \notin table
      BY DEF UndisturbedInv, Kept
    <2>3. ~OwnsRecord(s) /\ Gone(s)
      BY DEF AloneInv, RecordOk
    <2>4. QED
      BY <2>1, <2>2, <2>3
  <1>2. Spec => []UndisturbedInv /\ []AloneInv
    BY UndisturbedInvariant, AloneInvariant DEF Alone, Undisturbed
  <1>3. QED
    BY <1>1, <1>2, TransactionInvariant, PTL

\* A kernel left halted stays marked in admission and on disk, whatever closes, crashes
\* and restarts follow, unless the code wrote no tombstone for it: the write failed in
\* close(), or force_release dropped its record.
THEOREM ParkedRemembered ==
  ASSUME "invalidate" \notin Faults, Serial
  PROVE  Spec => []ParkedIsRemembered
  <1>1. AloneInv => ParkedIsRemembered
    BY DEF AloneInv, ParkedKept, ParkedIsRemembered
  <1>2. QED
    BY <1>1, AloneInvariant, PTL DEF Alone, Undisturbed

\* And only a recovery attach gets a session on it, under the same exemption.
THEOREM ParkedGated ==
  ASSUME "invalidate" \notin Faults, Serial
  PROVE  Spec => []ParkedStaysGated
  <1>1. AloneInv => ParkedStaysGated
    BY DEF AloneInv, ParkedBefore, ParkedStaysGated, Holding
  <1>2. QED
    BY <1>1, AloneInvariant, PTL DEF Alone, Undisturbed

=============================================================================
