--------------------------- MODULE SshGateProofs ---------------------------
(***************************************************************************)
(* Proofs about SshGate, for any ssh operations, any controllers and any   *)
(* bounds: the gate drives the admission service by its own operations     *)
(* only, so what AdmissionProofs shows of the service holds under it, and  *)
(* the execution epoch keeps the work a halt or a resume caught in flight  *)
(* from reporting success, and the work admitted after it from being       *)
(* cancelled.                                                              *)
(***************************************************************************)
EXTENDS SshGate, AdmissionProofs

-----------------------------------------------------------------------------
(* The inductive invariant                                                  *)

\* The counters are within the bounds of the instance.
CountersBounded == snapGen \in 0..MaxGen /\ execEpoch \in 0..MaxEpoch

\* _bindings only holds ssh work here, bound at an epoch that was reached.
BoundAtEpoch ==
    \A h \in bindings : /\ handle[h].op = "ssh_tier"
                        /\ handle[h].admit_epoch <= execEpoch

\* The epoch backstop of complete(): work that a transition caught in flight is
\* registered, has not completed, and was bound at an epoch that is past.
SpannedIsStale ==
    \A h \in spanned : /\ state[h] \notin {"none", "completed"}
                       /\ h \in bindings => handle[h].admit_epoch < execEpoch

\* Neither the durable session record nor the copy a controller works from is of
\* an incarnation still to come: once stale, a copy stays stale.
CopiesBehind ==
    /\ record.gen <= snapGen
    /\ \A c \in Controllers : copy[c] <= snapGen

\* A controller that is about to cancel what its halt caught: cancelling[c].
Cancelling(c) == ctl[c] = "cancelling" /\ GenerationCurrent(copy[c])

\* What such a controller is about to cancel was bound under a halt: its epoch is
\* that of its own transition, and what is admitted at it is admitted while that
\* halt is still the last transition noted.
HaltReaches ==
    \A c \in Controllers : Cancelling(c) =>
        /\ haltEpoch[c] <= execEpoch
        /\ haltEpoch[c] = execEpoch => lastNote = "halt"
        /\ \A h \in bindings : handle[h].admit_epoch <= haltEpoch[c] => h \in overHalt

\* While a halt is the last noted transition, the work of the incarnation that a
\* transition caught in flight is told, or a controller is about to tell it.
HaltTells ==
    lastNote = "halt" =>
        \A h \in spanned \cap bindings : handle[h].generation = snapGen =>
            \/ h \in cancelled
            \/ \E c \in Controllers : Cancelling(c) /\ handle[h].admit_epoch <= haltEpoch[c]

SshInv ==
    /\ SshTypeOK
    /\ CountersBounded
    /\ AdmissionInv
    /\ BoundAtEpoch
    /\ SpannedIsStale
    /\ CopiesBehind
    /\ CancelOnlyUnderHalt
    /\ HaltReaches
    /\ HaltTells

\* The gate starts with no session, no operation and no transition noted.
LEMMA SshInit == Init => SshInv
  <1> SUFFICES ASSUME Init PROVE SshInv
    OBVIOUS
  <1> USE SshGateAssumption, AdmissionAssumption
  <1>1. AdmissionInv
    BY InitInv DEF Init
  <1>2. SshTypeOK
    BY DEF Init, SshTypeOK, NoSession, NoProof, ExecutionStates
  <1>3. CountersBounded /\ BoundAtEpoch /\ SpannedIsStale /\ CancelOnlyUnderHalt
    BY DEF Init, AdmissionInit, CountersBounded, BoundAtEpoch, SpannedIsStale,
           CancelOnlyUnderHalt, None
  <1>4. CopiesBehind /\ HaltReaches /\ HaltTells
    BY DEF Init, AdmissionInit, CopiesBehind, HaltReaches, HaltTells, Cancelling, NoSession,
           None
  <1>5. QED
    BY <1>1, <1>2, <1>3, <1>4 DEF SshInv

-----------------------------------------------------------------------------
(* The gate and the admission service                                       *)

\* Noting a transition is the service's note_execution_transition, or, for a stale
\* copy of the session, nothing.
LEMMA NoteIsAdmission ==
  ASSUME SshInv, NEW c \in Controllers, NEW t \in {"halt", "resume"}, Note(c, t)
  PROVE  [AdmissionNext]_avars
  <1>1. GenerationCurrent(copy[c]) => copy[c] \in Generations
    BY DEF SshInv, CountersBounded, GenerationCurrent, None, Generations
  <1>2. QED
    BY <1>1 DEF Note, NoteExecutionTransition, AdmissionNext

\* Every step of the gate is one operation of the admission service, or leaves the
\* service alone.
LEMMA StepIsAdmission ==
  ASSUME SshInv, [Next]_vars
  PROVE  [AdmissionNext]_avars
  <1> USE SshGateAssumption, AdmissionAssumption
  <1>1. ASSUME NEW g \in Generations, NEW s \in Published, Boot(g, s)
        PROVE  AdmissionNext
    BY <1>1 DEF Boot, AdmissionNext
  <1>2. ASSUME NEW g \in Generations, Invalidate(g)
        PROVE  AdmissionNext
    BY <1>2 DEF Invalidate, AdmissionNext
  <1>3. CASE ReopenAdmission
    BY <1>3 DEF ReopenAdmission, AdmissionNext
  <1>4. CASE SessionOpened \/ SessionClosed
    BY <1>4 DEF SessionOpened, SessionClosed
  <1>5. ASSUME NEW c \in Controllers,
               \/ HaltWrite(c) \/ Stop(c) \/ BreakUnconfirmed(c) \/ ResumeKernel(c)
               \/ ResumeWrite(c)
        PROVE  UNCHANGED avars
    BY <1>5 DEF HaltWrite, Stop, BreakUnconfirmed, ResumeKernel, ResumeWrite
  <1>6. ASSUME NEW c \in Controllers, HaltNote(c) \/ ResumeNote(c)
        PROVE  [AdmissionNext]_avars
    BY <1>6, NoteIsAdmission DEF HaltNote, ResumeNote
  <1>7. ASSUME NEW c \in Controllers, HaltCancel(c)
        PROVE  [AdmissionNext]_avars
    <2>1. GenerationCurrent(copy[c]) => copy[c] \in Generations
      BY DEF SshInv, CountersBounded, GenerationCurrent, None, Generations
    <2>2. haltEpoch[c] \in 0..MaxEpoch
      BY DEF SshInv, SshTypeOK
    <2>3. QED
      BY <1>7, <2>1, <2>2 DEF HaltCancel, CancelSshTier, AdmissionNext
  <1>8. ASSUME NEW h \in Handles,
               \/ OpSnapshot(h) \/ ProbeRecord(h) \/ ProbeEpoch(h) \/ OpPrepare(h)
               \/ OpPrepareFails(h) \/ OpEnds(h) \/ OpRaises(h)
        PROVE  UNCHANGED avars
    BY <1>8 DEF OpSnapshot, ProbeRecord, ProbeEpoch, OpPrepare, OpPrepareFails, OpEnds,
                OpRaises
  <1>9. ASSUME NEW h \in Handles, OpAdmit(h)
        PROVE  [AdmissionNext]_avars
    <2>1. CASE AdmitSshTier(h, proof[h].generation, proof[h])
      <3>1. proof[h].generation \in Generations
        BY <2>1 DEF SshInv, SshTypeOK, AdmitSshTier, CanAdmitSshTier, BindSnapshot
      <3>2. proof[h] \in Proofs
        BY <3>1 DEF SshInv, SshTypeOK, Proofs
      <3>3. QED
        BY <2>1, <3>1, <3>2 DEF AdmissionNext
    <2>2. CASE UNCHANGED avars
      BY <2>2
    <2>3. QED
      BY <1>9, <2>1, <2>2 DEF OpAdmit
  <1>10. ASSUME NEW h \in Handles, OpComplete(h) \/ OpRollback(h)
         PROVE  [AdmissionNext]_avars
    BY <1>10 DEF OpComplete, OpRollback, AdmissionNext
  <1>11. CASE UNCHANGED vars
    BY <1>11 DEF vars
  <1>12. QED
    BY <1>1, <1>2, <1>3, <1>4, <1>5, <1>6, <1>7, <1>8, <1>9, <1>10, <1>11
       DEF Next, ControllerStep, OpStep

-----------------------------------------------------------------------------
(* The types                                                                *)

\* Noting a transition keeps the counters and the histories typed, and the epoch it
\* returns to the controller within its bound.
LEMMA NoteTypes ==
  ASSUME SshInv, NEW c \in Controllers, NEW t \in {"halt", "resume"}, Note(c, t)
  PROVE  /\ execEpoch' \in 0..MaxEpoch
         /\ spanned' \cup overHalt' \cup shut' \subseteq Handles
         /\ lastNote' \in {"resume", "halt"}
         /\ snapGen' = snapGen
  BY AdmissionAssumption
     DEF Note, NoteExecutionTransition, SshInv, SshTypeOK, CountersBounded, AdmissionInv,
         AdmissionTypeOK, avars, hvars

\* Every step of the gate keeps its own state typed.
LEMMA SshTypeStep ==
  ASSUME SshInv, [Next]_vars
  PROVE  SshTypeOK'
  <1> USE SshGateAssumption, AdmissionAssumption DEF SshInv
  <1>0. snapGen \in Generations \cup {None} /\ execEpoch \in 0..MaxEpoch
    BY DEF CountersBounded, Generations, None
  <1> USE DEF SshTypeOK
  <1>1. ASSUME NEW g \in Generations, NEW s \in Published, Boot(g, s)
        PROVE  SshTypeOK'
    BY <1>1 DEF Boot, ovars, hvars
  <1>2. ASSUME NEW g \in Generations, Invalidate(g)
        PROVE  SshTypeOK'
    BY <1>2 DEF Invalidate, AdmissionInv, AdmissionTypeOK, cvars, ovars
  <1>3. CASE ReopenAdmission
    BY <1>3 DEF ReopenAdmission, cvars, ovars, hvars
  <1>4. CASE SessionOpened
    BY <1>4, <1>0 DEF SessionOpened, ExecutionStates, ovars, hvars
  <1>5. CASE SessionClosed
    BY <1>5 DEF SessionClosed, NoSession, ExecutionStates, ovars, hvars
  <1>6. ASSUME NEW c \in Controllers, HaltWrite(c)
        PROVE  SshTypeOK'
    BY <1>6 DEF HaltWrite, WriteExec, CtlGoto, ExecutionStates, ovars, hvars
  <1>7. ASSUME NEW c \in Controllers, HaltNote(c)
        PROVE  SshTypeOK'
    <2>1. Note(c, "halt")
      BY <1>7 DEF HaltNote
    <2>2. QED
      BY <1>7, <2>1, NoteTypes DEF HaltNote, CtlGoto, ovars
  <1>8. ASSUME NEW c \in Controllers, HaltCancel(c)
        PROVE  SshTypeOK'
    BY <1>8 DEF HaltCancel, CtlGoto, ovars, hvars
  <1>9. ASSUME NEW c \in Controllers, Stop(c)
        PROVE  SshTypeOK'
    BY <1>9 DEF Stop, CtlReturn, CtlGoto, ovars, hvars
  <1>10. ASSUME NEW c \in Controllers, BreakUnconfirmed(c)
         PROVE  SshTypeOK'
    BY <1>10 DEF BreakUnconfirmed, CtlReturn, CtlGoto, WriteExec, ExecutionStates, ovars,
                 hvars
  <1>11. ASSUME NEW c \in Controllers, ResumeKernel(c) \/ ResumeWrite(c)
         PROVE  SshTypeOK'
    BY <1>11 DEF ResumeKernel, ResumeWrite, CtlGoto, WriteExec, ExecutionStates, ovars,
                 hvars
  <1>12. ASSUME NEW c \in Controllers, ResumeNote(c)
         PROVE  SshTypeOK'
    <2>1. Note(c, "resume")
      BY <1>12 DEF ResumeNote
    <2>2. QED
      BY <1>12, <2>1, NoteTypes DEF ResumeNote, CtlReturn, CtlGoto, ovars
  <1>13. ASSUME NEW h \in Handles, OpSnapshot(h)
         PROVE  SshTypeOK'
    BY <1>13, <1>0 DEF OpSnapshot, OpGoto, cvars, hvars
  <1>14. ASSUME NEW h \in Handles, ProbeRecord(h)
         PROVE  SshTypeOK'
    BY <1>14 DEF ProbeRecord, OpGoto, cvars, hvars
  <1>15. ASSUME NEW h \in Handles, ProbeEpoch(h)
         PROVE  SshTypeOK'
    BY <1>15, <1>0 DEF ProbeEpoch, OpGoto, NoProof, ExecutionStates, cvars, hvars
  <1>16. ASSUME NEW h \in Handles, OpAdmit(h)
         PROVE  SshTypeOK'
    BY <1>16 DEF OpAdmit, OpGoto, NoProof, ExecutionStates, cvars
  <1>17. ASSUME NEW h \in Handles,
                \/ OpPrepare(h) \/ OpPrepareFails(h) \/ OpEnds(h) \/ OpRaises(h)
                \/ OpComplete(h) \/ OpRollback(h)
         PROVE  SshTypeOK'
    BY <1>17 DEF OpPrepare, OpPrepareFails, OpEnds, OpRaises, OpComplete, OpRollback,
                 OpGoto, cvars, hvars
  <1>18. CASE UNCHANGED vars
    BY <1>18 DEF vars, cvars, ovars, hvars
  <1>19. QED
    BY <1>1, <1>2, <1>3, <1>4, <1>5, <1>6, <1>7, <1>8, <1>9, <1>10, <1>11, <1>12, <1>13,
       <1>14, <1>15, <1>16, <1>17, <1>18
       DEF Next, ControllerStep, OpStep

\* The counters stay within their bounds, and neither ever goes back.
LEMMA CountersStep ==
  ASSUME SshInv, [Next]_vars
  PROVE  /\ CountersBounded'
         /\ snapGen <= snapGen'
         /\ execEpoch <= execEpoch'
  <1> USE AdmissionAssumption DEF SshInv, CountersBounded, Generations, None
  <1>1. [AdmissionNext]_avars
    BY StepIsAdmission
  <1>2. ASSUME NEW g \in Generations, NEW s \in TargetStates, PublishSnapshot(g, s)
        PROVE  snapGen' \in snapGen..MaxGen /\ execEpoch' = execEpoch
    BY <1>2 DEF PublishSnapshot
  <1>3. ASSUME NEW g \in Generations, NoteExecutionTransition(g)
        PROVE  snapGen' = snapGen /\ execEpoch' \in execEpoch..MaxEpoch
    BY <1>3 DEF NoteExecutionTransition
  <1>4. ASSUME NEW h \in Handles, NEW op \in Ops, NEW r \in BOOLEAN, Register(h, op, r)
        PROVE  snapGen' = snapGen /\ execEpoch' = execEpoch
    BY <1>4 DEF Register
  <1>5. ASSUME NEW h \in Handles, NEW t \in TerminalStates, Dispose(h, t)
        PROVE  snapGen' = snapGen /\ execEpoch' = execEpoch
    BY <1>5 DEF Dispose
  <1>6. CASE \/ \E g \in Generations :
                  \/ \E s \in TargetStates : PublishSnapshot(g, s)
                  \/ NoteExecutionTransition(g)
             \/ UNCHANGED avars
    BY <1>2, <1>3, <1>6 DEF avars
  <1>7. CASE \/ \E g \in Generations :
                  \/ \E e \in 0..MaxEpoch : CancelSshTier(g, e)
                  \/ CloseAdmission(g) \/ MarkRecoveryRequired(g)
                  \/ ClearRecoveryRequired(g)
             \/ \E h \in Handles : Promote(h) \/ ConfirmReaped(h)
             \/ Reopen
    BY <1>7 DEF CancelSshTier, CloseAdmission, MarkRecoveryRequired,
                ClearRecoveryRequired, Promote, ConfirmReaped, Reopen
  <1>8. ASSUME NEW g \in Generations, NEW h \in Handles,
               \/ Admit(h, g) \/ AdmitRecovery(h, g)
               \/ \E p \in Proofs : AdmitSshTier(h, g, p)
        PROVE  snapGen' = snapGen /\ execEpoch' = execEpoch
    <2>1. \E op \in Ops, r \in BOOLEAN : Register(h, op, r)
      BY <1>8 DEF Admit, AdmitRecovery, AdmitSshTier, Ops
    <2>2. QED
      BY <2>1, <1>4
  <1>9. CASE \E h \in Handles : Complete(h) \/ Rollback(h) \/ Abandon(h)
    BY <1>5, <1>9 DEF Complete, Rollback, Abandon, TerminalStates
  <1>10. QED
    BY <1>1, <1>6, <1>7, <1>8, <1>9 DEF AdmissionNext

-----------------------------------------------------------------------------
(* The steps, as the invariant sees them                                    *)

\* A step that leaves the admission service, the histories and the controllers that
\* are cancelling as they are.
Calm ==
    /\ UNCHANGED <<avars, hvars>>
    /\ \A c \in Controllers :
          /\ ctl'[c] = "cancelling" <=> ctl[c] = "cancelling"
          /\ ctl[c] = "cancelling" => copy'[c] = copy[c] /\ haltEpoch'[c] = haltEpoch[c]

\* The calls are read, written and answered in calm; the rest boots, invalidates or
\* reopens the target, notes a transition, cancels, or binds or disposes of a handle.
LEMMA StepKinds ==
  ASSUME SshInv, [Next]_vars
  PROVE  \/ Calm
         \/ \E g \in Generations : Invalidate(g) \/ \E s \in Published : Boot(g, s)
         \/ ReopenAdmission
         \/ \E c \in Controllers : HaltNote(c) \/ HaltCancel(c) \/ ResumeNote(c)
         \/ \E h \in Handles : OpAdmit(h) \/ OpComplete(h) \/ OpRollback(h)
  <1> USE DEF SshInv, SshTypeOK, Calm
  <1>1. CASE SessionOpened \/ SessionClosed \/ UNCHANGED vars
    BY <1>1 DEF SessionOpened, SessionClosed, vars, cvars
  <1>2. ASSUME NEW c \in Controllers,
               HaltWrite(c) \/ ResumeKernel(c) \/ ResumeWrite(c)
        PROVE  Calm
    BY <1>2 DEF HaltWrite, ResumeKernel, ResumeWrite, CtlGoto
  <1>3. ASSUME NEW c \in Controllers, Stop(c) \/ BreakUnconfirmed(c)
        PROVE  Calm
    BY <1>3 DEF Stop, BreakUnconfirmed, CtlReturn, CtlGoto
  <1>4. ASSUME NEW h \in Handles,
               \/ OpSnapshot(h) \/ ProbeRecord(h) \/ ProbeEpoch(h) \/ OpPrepare(h)
               \/ OpPrepareFails(h) \/ OpEnds(h) \/ OpRaises(h)
        PROVE  Calm
    BY <1>4 DEF OpSnapshot, ProbeRecord, ProbeEpoch, OpPrepare, OpPrepareFails, OpEnds,
                OpRaises, cvars
  <1>5. QED
    BY <1>1, <1>2, <1>3, <1>4 DEF Next, ControllerStep, OpStep

\* A copy of the session is not of an incarnation still to come.
LEMMA CopiesStep ==
  ASSUME SshInv, [Next]_vars
  PROVE  CopiesBehind'
  <1> USE DEF SshInv, SshTypeOK, CopiesBehind
  <1>1. /\ snapGen \in Nat /\ snapGen' \in Nat /\ snapGen <= snapGen'
        /\ record.gen \in Nat
        /\ \A c \in Controllers : copy[c] \in Nat
    BY CountersStep, AdmissionAssumption DEF CountersBounded, Generations, None
  <1>2. /\ record'.gen = record.gen \/ record'.gen = None \/ record'.gen = snapGen
           \/ \E c \in Controllers : record'.gen = copy[c]
        /\ \A c \in Controllers :
              copy'[c] = copy[c] \/ copy'[c] = None \/ copy'[c] = record.gen
    <2>1. CASE \/ \E g \in Generations : Invalidate(g) \/ \E s \in Published : Boot(g, s)
               \/ ReopenAdmission \/ SessionOpened \/ SessionClosed \/ UNCHANGED vars
      BY <2>1 DEF Invalidate, Boot, ReopenAdmission, SessionOpened, SessionClosed,
                  NoSession, vars, cvars
    <2>2. ASSUME NEW c \in Controllers, HaltNote(c) \/ HaltCancel(c) \/ ResumeWrite(c)
          PROVE  <1>2!:
      BY <2>2 DEF HaltNote, HaltCancel, ResumeWrite, WriteExec
    <2>6. ASSUME NEW c \in Controllers, HaltWrite(c)
          PROVE  <1>2!:
      BY <2>6 DEF HaltWrite, WriteExec
    <2>7. ASSUME NEW c \in Controllers, ResumeKernel(c)
          PROVE  <1>2!:
      BY <2>7 DEF ResumeKernel
    <2>3. ASSUME NEW c \in Controllers,
                 Stop(c) \/ BreakUnconfirmed(c) \/ ResumeNote(c)
          PROVE  <1>2!:
      BY <2>3 DEF Stop, BreakUnconfirmed, ResumeNote, CtlReturn, WriteExec
    <2>4. ASSUME NEW h \in Handles, OpSnapshot(h) \/ OpStep(h)
          PROVE  <1>2!:
      BY <2>4 DEF OpSnapshot, OpStep, ProbeRecord, ProbeEpoch, OpAdmit, OpPrepare,
                  OpPrepareFails, OpEnds, OpRaises, OpComplete, OpRollback, cvars
    <2>5. QED
      BY <2>1, <2>2, <2>3, <2>4, <2>6, <2>7 DEF Next, ControllerStep
  <1>3. QED
    BY <1>1, <1>2 DEF None

-----------------------------------------------------------------------------
(* The execution epoch                                                      *)

\* A binding's epoch is one that was reached, and work that a transition caught in
\* flight stays behind it: the transition that catches it moves the epoch on.
LEMMA EpochStep ==
  ASSUME SshInv, [Next]_vars
  PROVE  BoundAtEpoch' /\ SpannedIsStale'
  <1> USE AdmissionAssumption DEF SshInv, BoundAtEpoch, SpannedIsStale
  <1>0. /\ bindings \subseteq Handles /\ spanned \subseteq Handles
        /\ execEpoch \in Nat
        /\ \A h \in Handles : handle[h].admit_epoch \in Nat
        /\ \A h \in Handles : h \in bindings <=> state[h] \in LiveStates
        /\ handle \in [Handles -> HandleRecords]
        /\ state \in [Handles -> {"none"} \cup LiveStates \cup TerminalStates]
    BY DEF SshTypeOK, AdmissionInv, AdmissionTypeOK, BindingsAreLive, HandleRecords
  <1>1. CASE Calm
    BY <1>1 DEF Calm, avars, hvars
  <1>2. ASSUME NEW g \in Generations, Invalidate(g) \/ \E s \in Published : Boot(g, s)
        PROVE  BoundAtEpoch' /\ SpannedIsStale'
    BY <1>2 DEF Invalidate, CloseAdmission, Boot, PublishSnapshot, hvars
  <1>3. CASE ReopenAdmission
    BY <1>3 DEF ReopenAdmission, Reopen, hvars
  <1>4. ASSUME NEW c \in Controllers, HaltNote(c) \/ ResumeNote(c)
        PROVE  BoundAtEpoch' /\ SpannedIsStale'
    <2>1. \/ /\ execEpoch' = execEpoch + 1
             /\ spanned' = spanned \cup bindings
             /\ UNCHANGED <<bindings, handle, state>>
          \/ UNCHANGED <<avars, hvars>>
      BY <1>4 DEF HaltNote, ResumeNote, Note, NoteExecutionTransition
    <2>2. \A h \in bindings : state[h] \notin {"none", "completed"}
      BY <1>0 DEF LiveStates
    <2>3. QED
      BY <1>0, <2>1, <2>2 DEF avars, hvars
  <1>5. ASSUME NEW c \in Controllers, HaltCancel(c)
        PROVE  BoundAtEpoch' /\ SpannedIsStale'
    BY <1>5 DEF HaltCancel, CancelSshTier, avars, hvars
  <1>6. ASSUME NEW h \in Handles, OpAdmit(h)
        PROVE  BoundAtEpoch' /\ SpannedIsStale'
    <2>1. CASE AdmitSshTier(h, proof[h].generation, proof[h])
      <3>1. /\ state[h] = "none" /\ h \notin bindings /\ h \notin spanned
            /\ state' = [state EXCEPT ![h] = "pending"]
            /\ bindings' = bindings \cup {h}
            /\ handle' = [handle EXCEPT ![h] = [generation |-> snapGen,
                                                admit_epoch |-> execEpoch,
                                                op |-> "ssh_tier", recovery |-> FALSE]]
            /\ execEpoch' = execEpoch
        BY <1>0, <2>1 DEF AdmitSshTier, Register, LiveStates
      <3>2. spanned' = spanned
        BY <1>6 DEF OpAdmit
      <3>3. QED
        BY <1>0, <3>1, <3>2
    <2>2. CASE UNCHANGED avars
      BY <1>6, <2>2 DEF OpAdmit, avars
    <2>3. QED
      BY <1>6, <2>1, <2>2 DEF OpAdmit
  <1>7. ASSUME NEW h \in Handles, OpComplete(h)
        PROVE  BoundAtEpoch' /\ SpannedIsStale'
    <2>1. CASE Complete(h)
      <3>1. h \in bindings /\ h \notin spanned
        BY <1>0, <2>1 DEF Complete, CanComplete, EpochStaleForOp, Disposable
      <3>2. /\ state' = [state EXCEPT ![h] = "completed"]
            /\ bindings' = bindings \ {h}
            /\ UNCHANGED <<handle, execEpoch>>
        BY <2>1 DEF Complete, Dispose
      <3>3. spanned' = spanned
        BY <1>7 DEF OpComplete, hvars
      <3>4. QED
        BY <1>0, <3>1, <3>2, <3>3
    <2>2. CASE UNCHANGED avars
      BY <1>7, <2>2 DEF OpComplete, avars, hvars
    <2>3. QED
      BY <1>7, <2>1, <2>2 DEF OpComplete
  <1>8. ASSUME NEW h \in Handles, OpRollback(h)
        PROVE  BoundAtEpoch' /\ SpannedIsStale'
    BY <1>0, <1>8 DEF OpRollback, Rollback, Dispose, avars, hvars
  <1>9. QED
    BY <1>1, <1>2, <1>3, <1>4, <1>5, <1>6, <1>7, <1>8, StepKinds

-----------------------------------------------------------------------------
(* Who is cancelled, and who is told                                        *)

\* A halt cancels what was bound under it, and the lifecycle what it found bound.
LEMMA CancelStep ==
  ASSUME SshInv, [Next]_vars
  PROVE  CancelOnlyUnderHalt'
  <1> USE DEF SshInv, CancelOnlyUnderHalt
  <1>1. CASE Calm
    BY <1>1 DEF Calm, avars, hvars
  <1>2. ASSUME NEW g \in Generations, Invalidate(g)
        PROVE  CancelOnlyUnderHalt'
    BY <1>2 DEF Invalidate, CloseAdmission
  <1>3. ASSUME NEW g \in Generations, NEW s \in Published, Boot(g, s)
        PROVE  CancelOnlyUnderHalt'
    BY <1>3 DEF Boot, PublishSnapshot, hvars
  <1>4. CASE ReopenAdmission
    BY <1>4 DEF ReopenAdmission, Reopen, hvars
  <1>5. ASSUME NEW c \in Controllers, HaltNote(c) \/ ResumeNote(c)
        PROVE  CancelOnlyUnderHalt'
    <2>1. /\ cancelled' = cancelled /\ shut' = shut
          /\ overHalt \subseteq overHalt'
      BY <1>5 DEF HaltNote, ResumeNote, Note, NoteExecutionTransition, avars, hvars
    <2>2. QED
      BY <2>1
  <1>6. ASSUME NEW c \in Controllers, HaltCancel(c)
        PROVE  CancelOnlyUnderHalt'
    <2>1. CASE CancelSshTier(copy[c], haltEpoch[c])
      <3>1. InFlightAcross(copy[c], haltEpoch[c]) \subseteq overHalt
        BY <1>6, <2>1 DEF HaltCancel, CtlGoto, CancelSshTier, InFlightAcross, HaltReaches,
                          Cancelling
      <3>2. QED
        BY <1>6, <2>1, <3>1 DEF HaltCancel, CancelSshTier, hvars
    <2>2. CASE UNCHANGED avars
      BY <1>6, <2>2 DEF HaltCancel, avars, hvars
    <2>3. QED
      BY <1>6, <2>1, <2>2 DEF HaltCancel
  <1>7. ASSUME NEW h \in Handles, OpAdmit(h)
        PROVE  CancelOnlyUnderHalt'
    BY <1>7 DEF OpAdmit, AdmitSshTier, Register, avars
  <1>8. ASSUME NEW h \in Handles, OpComplete(h) \/ OpRollback(h)
        PROVE  CancelOnlyUnderHalt'
    BY <1>8 DEF OpComplete, OpRollback, Complete, Rollback, Dispose, avars, hvars
  <1>9. QED
    BY <1>1, <1>2, <1>3, <1>4, <1>5, <1>6, <1>7, <1>8, StepKinds

\* A copy that is current after a boot was current before it.
LEMMA CurrentBefore ==
  ASSUME SshInv, [Next]_vars, NEW c \in Controllers, copy'[c] = copy[c],
         GenerationCurrent(copy[c])'
  PROVE  GenerationCurrent(copy[c])
  <1>1. snapGen \in Nat /\ copy[c] \in Nat /\ snapGen <= snapGen' /\ copy[c] <= snapGen
    BY CountersStep, AdmissionAssumption
       DEF SshInv, SshTypeOK, CountersBounded, CopiesBehind, Generations, None
  <1>2. snapGen' = copy[c] /\ snapGen' # None
    BY DEF GenerationCurrent
  <1>3. QED
    BY <1>1, <1>2 DEF GenerationCurrent

\* The controller of a halt reaches only what was bound under it: what was bound when
\* it noted its transition, and what is admitted before the next one is noted.
LEMMA ReachStep ==
  ASSUME SshInv, [Next]_vars
  PROVE  HaltReaches'
  <1> SUFFICES ASSUME NEW c \in Controllers, Cancelling(c)'
               PROVE  /\ haltEpoch'[c] <= execEpoch'
                      /\ haltEpoch'[c] = execEpoch' => lastNote' = "halt"
                      /\ \A h \in bindings' :
                            handle'[h].admit_epoch <= haltEpoch'[c] => h \in overHalt'
    BY DEF HaltReaches
  <1> DEFINE Goal == /\ haltEpoch'[c] <= execEpoch'
                     /\ haltEpoch'[c] = execEpoch' => lastNote' = "halt"
                     /\ \A h \in bindings' :
                           handle'[h].admit_epoch <= haltEpoch'[c] => h \in overHalt'
  <1> USE DEF SshInv
  <1>0. /\ execEpoch \in Nat
        /\ \A d \in Controllers : haltEpoch[d] \in Nat
        /\ \A h \in Handles : handle[h].admit_epoch \in Nat
        /\ bindings \subseteq Handles
        /\ handle \in [Handles -> HandleRecords]
        /\ ctl \in [Controllers -> {"idle", "noting", "cancelling", "stopping", "resuming",
                                    "resumed"}]
        /\ copy \in [Controllers -> Generations \cup {None}]
        /\ haltEpoch \in [Controllers -> 0..MaxEpoch]
    BY AdmissionAssumption DEF SshTypeOK, AdmissionInv, AdmissionTypeOK, HandleRecords
  <1>1. Cancelling(c) => /\ haltEpoch[c] <= execEpoch
                         /\ haltEpoch[c] = execEpoch => lastNote = "halt"
                         /\ \A h \in bindings :
                               handle[h].admit_epoch <= haltEpoch[c] => h \in overHalt
    BY DEF HaltReaches
  <1>2. CASE Calm
    <2>1. Cancelling(c)
      BY <1>2 DEF Calm, Cancelling, GenerationCurrent, avars
    <2>2. QED
      BY <1>1, <1>2, <2>1 DEF Calm, Cancelling, avars, hvars
  <1>3. ASSUME UNCHANGED <<ctl, copy, haltEpoch, execEpoch, lastNote, overHalt>>,
               \A h \in bindings' : h \in bindings /\ handle'[h] = handle[h]
        PROVE  Goal
    <2>1. Cancelling(c)
      BY <1>3, CurrentBefore DEF Cancelling
    <2>2. QED
      BY <1>1, <1>3, <2>1
  <1>4. ASSUME NEW g \in Generations, Invalidate(g) \/ \E s \in Published : Boot(g, s)
        PROVE  Goal
    BY <1>3, <1>4 DEF Invalidate, CloseAdmission, Boot, PublishSnapshot, cvars, hvars
  <1>5. CASE ReopenAdmission
    BY <1>3, <1>5 DEF ReopenAdmission, Reopen, cvars, hvars
  <1>6. ASSUME NEW h \in Handles, OpComplete(h) \/ OpRollback(h)
        PROVE  Goal
    BY <1>3, <1>6 DEF OpComplete, OpRollback, Complete, Rollback, Dispose, avars, cvars, hvars
  <1>7. ASSUME NEW h \in Handles, OpAdmit(h)
        PROVE  Goal
    <2>1. CASE AdmitSshTier(h, proof[h].generation, proof[h])
      <3>1. /\ bindings' = bindings \cup {h}
            /\ handle' = [handle EXCEPT ![h] = [generation |-> snapGen,
                                                admit_epoch |-> execEpoch,
                                                op |-> "ssh_tier", recovery |-> FALSE]]
            /\ execEpoch' = execEpoch /\ snapGen' = snapGen
        BY <2>1 DEF AdmitSshTier, Register
      <3>2. /\ UNCHANGED <<ctl, copy, haltEpoch, lastNote>>
            /\ overHalt' = IF lastNote = "halt" THEN overHalt \cup {h} ELSE overHalt
        BY <1>7, <2>1 DEF OpAdmit, cvars, AdmitSshTier, Register, avars
      <3>3. Cancelling(c)
        BY <3>1, <3>2, CurrentBefore DEF Cancelling
      <3>4. handle'[h].admit_epoch = execEpoch
        BY <1>0, <3>1
      <3>5. \A x \in bindings \ {h} : handle'[x] = handle[x]
        BY <1>0, <3>1
      <3>6. QED
        BY <1>0, <1>1, <3>1, <3>2, <3>3, <3>4, <3>5
    <2>2. CASE UNCHANGED <<avars, overHalt>>
      BY <1>3, <1>7, <2>2 DEF OpAdmit, avars, cvars
    <2>3. QED
      BY <1>7, <2>1, <2>2 DEF OpAdmit
  <1>8. ASSUME NEW d \in Controllers, HaltCancel(d)
        PROVE  Goal
    <2>1. UNCHANGED <<execEpoch, bindings, handle, snapGen, lastNote, overHalt, copy>>
      BY <1>8 DEF HaltCancel, CancelSshTier, avars, hvars
    <2>2. c # d /\ ctl'[c] = ctl[c] /\ haltEpoch'[c] = haltEpoch[c]
      BY <1>0, <1>8 DEF HaltCancel, CtlGoto, Cancelling
    <2>3. Cancelling(c)
      BY <2>1, <2>2 DEF Cancelling, GenerationCurrent
    <2>4. QED
      BY <1>1, <2>1, <2>2, <2>3
  <1>9. ASSUME NEW d \in Controllers, HaltNote(d)
        PROVE  Goal
    <2>1. copy' = copy /\ UNCHANGED <<bindings, handle, snapGen>>
      BY <1>9 DEF HaltNote, Note, NoteExecutionTransition, avars
    <2>2. CASE d = c
      <3>1. NoteExecutionTransition(copy[c]) /\ lastNote' = "halt"
              /\ overHalt' = overHalt \cup bindings
        BY <1>9, <2>1, <2>2 DEF HaltNote, Note, Cancelling, GenerationCurrent
      <3>2. haltEpoch'[c] = execEpoch' /\ execEpoch' = execEpoch + 1
        BY <1>0, <1>9, <2>2, <3>1 DEF HaltNote, NoteExecutionTransition
      <3>3. QED
        BY <1>0, <2>1, <3>1, <3>2
    <2>3. CASE d # c
      <3>1. ctl'[c] = ctl[c] /\ haltEpoch'[c] = haltEpoch[c]
        BY <1>0, <1>9, <2>3 DEF HaltNote, CtlGoto
      <3>2. \/ execEpoch' = execEpoch + 1
            \/ execEpoch' = execEpoch /\ lastNote' = lastNote
        BY <1>9 DEF HaltNote, Note, NoteExecutionTransition, avars, hvars
      <3>3. overHalt \subseteq overHalt'
        BY <1>9 DEF HaltNote, Note, hvars
      <3>4. Cancelling(c)
        BY <2>1, <3>1 DEF Cancelling, GenerationCurrent
      <3>5. QED
        BY <1>0, <1>1, <2>1, <3>1, <3>2, <3>3, <3>4
    <2>4. QED
      BY <2>2, <2>3
  <1>10. ASSUME NEW d \in Controllers, ResumeNote(d)
         PROVE  Goal
    <2>1. haltEpoch' = haltEpoch /\ UNCHANGED <<bindings, handle, snapGen>>
      BY <1>10 DEF ResumeNote, CtlReturn, Note, NoteExecutionTransition, avars
    <2>2. c # d /\ ctl'[c] = ctl[c] /\ copy'[c] = copy[c]
      BY <1>0, <1>10 DEF ResumeNote, CtlReturn, CtlGoto, Cancelling
    <2>3. \/ execEpoch' = execEpoch + 1
          \/ execEpoch' = execEpoch /\ lastNote' = lastNote
      BY <1>10 DEF ResumeNote, Note, NoteExecutionTransition, avars, hvars
    <2>4. overHalt' = overHalt
      BY <1>10 DEF ResumeNote, Note, hvars
    <2>5. Cancelling(c)
      BY <2>1, <2>2 DEF Cancelling, GenerationCurrent
    <2>6. QED
      BY <1>0, <1>1, <2>1, <2>2, <2>3, <2>4, <2>5
  <1>11. QED
    BY <1>2, <1>4, <1>5, <1>6, <1>7, <1>8, <1>9, <1>10, StepKinds

\* While a halt is the last transition noted, nothing it caught is forgotten: a second
\* halt takes over, a cancel tells what it took over, and an incarnation published
\* since has no such work.
LEMMA TellStep ==
  ASSUME SshInv, [Next]_vars
  PROVE  HaltTells'
  <1> SUFFICES ASSUME lastNote' = "halt",
                      NEW h \in spanned' \cap bindings', handle'[h].generation = snapGen'
               PROVE  h \in cancelled' \/ \E c \in Controllers :
                        Cancelling(c)' /\ handle'[h].admit_epoch <= haltEpoch'[c]
    BY DEF HaltTells
  <1> DEFINE Goal == h \in cancelled' \/ \E c \in Controllers :
                        Cancelling(c)' /\ handle'[h].admit_epoch <= haltEpoch'[c]
             Told == h \in cancelled \/ \E c \in Controllers :
                        Cancelling(c) /\ handle[h].admit_epoch <= haltEpoch[c]
  <1> USE DEF SshInv
  <1>0. /\ execEpoch \in Nat /\ snapGen \in Nat
        /\ bindings \subseteq Handles
        /\ \A x \in Handles : handle[x].admit_epoch \in Nat /\ handle[x].generation \in Nat
        /\ \A x \in bindings : /\ handle[x].op = "ssh_tier"
                               /\ handle[x].admit_epoch <= execEpoch
                               /\ handle[x].generation <= snapGen
        /\ ctl \in [Controllers -> {"idle", "noting", "cancelling", "stopping", "resuming",
                                    "resumed"}]
        /\ copy \in [Controllers -> Generations \cup {None}]
        /\ haltEpoch \in [Controllers -> 0..MaxEpoch]
    BY AdmissionAssumption
       DEF SshTypeOK, AdmissionInv, AdmissionTypeOK, HandleRecords, SnapshotAhead,
           BoundAtEpoch
  <1>1. ASSUME lastNote = "halt", h \in spanned \cap bindings,
               handle[h].generation = snapGen
        PROVE  Told
    BY <1>1 DEF HaltTells
  <1>2. ASSUME UNCHANGED <<snapGen, handle, haltEpoch, copy, ctl>>,
               cancelled \subseteq cancelled', Told
        PROVE  Goal
    BY <1>2 DEF Cancelling, GenerationCurrent
  <1>3. CASE Calm
    <2>1. Told
      BY <1>1, <1>3 DEF Calm, avars, hvars
    <2>2. QED
      BY <1>3, <2>1 DEF Calm, Cancelling, GenerationCurrent, avars
  <1>4. ASSUME NEW g \in Generations, Invalidate(g)
        PROVE  Goal
    <2>1. Told
      BY <1>1, <1>4 DEF Invalidate, CloseAdmission
    <2>2. QED
      BY <1>2, <1>4, <2>1 DEF Invalidate, CloseAdmission, cvars
  <1>5. ASSUME NEW g \in Generations, NEW s \in Published, Boot(g, s)
        PROVE  Goal
    <2>1. UNCHANGED <<bindings, handle, cancelled, spanned, lastNote, ctl, copy, haltEpoch>>
      BY <1>5 DEF Boot, PublishSnapshot, hvars
    <2>2. snapGen' = snapGen
      BY <1>0, <2>1, CountersStep DEF CountersBounded
    <2>3. Told
      BY <1>1, <2>1, <2>2
    <2>4. QED
      BY <1>2, <2>1, <2>2, <2>3
  <1>6. CASE ReopenAdmission
    <2>1. Told
      BY <1>1, <1>6 DEF ReopenAdmission, Reopen, hvars
    <2>2. QED
      BY <1>2, <1>6, <2>1 DEF ReopenAdmission, Reopen, cvars
  <1>7. ASSUME NEW d \in Controllers, HaltNote(d) \/ ResumeNote(d)
        PROVE  Goal
    <2>1. UNCHANGED <<snapGen, handle, cancelled, bindings>>
      BY <1>7 DEF HaltNote, ResumeNote, Note, NoteExecutionTransition, avars
    <2>2. CASE HaltNote(d) /\ NoteExecutionTransition(copy[d])
      <3>1. /\ ctl'[d] = "cancelling" /\ copy' = copy
            /\ haltEpoch'[d] = execEpoch'
        BY <1>0, <2>2 DEF HaltNote, CtlGoto
      <3>2. GenerationCurrent(copy[d]) /\ execEpoch' = execEpoch + 1
        BY <2>2 DEF NoteExecutionTransition
      <3>3. Cancelling(d)'
        BY <2>1, <3>1, <3>2 DEF Cancelling, GenerationCurrent
      <3>4. handle'[h].admit_epoch <= haltEpoch'[d]
        BY <1>0, <2>1, <3>1, <3>2
      <3>5. QED
        BY <3>3, <3>4
    <2>3. CASE UNCHANGED <<avars, hvars>>
      <3>1. Told
        BY <1>1, <2>3 DEF avars, hvars
      <3>2. \A c \in Controllers : Cancelling(c) =>
              c # d /\ ctl'[c] = ctl[c] /\ copy'[c] = copy[c] /\ haltEpoch'[c] = haltEpoch[c]
        BY <1>0, <1>7 DEF HaltNote, ResumeNote, CtlReturn, CtlGoto, Cancelling
      <3>3. QED
        BY <2>1, <3>1, <3>2 DEF Cancelling, GenerationCurrent
    <2>4. CASE ResumeNote(d) /\ NoteExecutionTransition(copy[d])
      <3>1. GenerationCurrent(copy[d])
        BY <2>4 DEF NoteExecutionTransition
      <3>2. lastNote' = "resume"
        BY <2>4, <3>1 DEF ResumeNote, Note
      <3>3. QED
        BY <3>2
    <2>5. QED
      BY <1>7, <2>2, <2>3, <2>4 DEF HaltNote, ResumeNote, Note
  <1>8. ASSUME NEW d \in Controllers, HaltCancel(d)
        PROVE  Goal
    <2>1. /\ UNCHANGED <<snapGen, handle, bindings, spanned, lastNote, copy>>
          /\ cancelled \subseteq cancelled'
      BY <1>8 DEF HaltCancel, CancelSshTier, avars, hvars
    <2>2. Told
      BY <1>1, <2>1
    <2>3. ASSUME NEW c \in Controllers, Cancelling(c), handle[h].admit_epoch <= haltEpoch[c]
          PROVE  Goal
      <3>1. CASE c = d
        <4>1. CancelSshTier(copy[d], haltEpoch[d]) /\ copy[d] = snapGen
          BY <1>8, <2>3, <3>1 DEF HaltCancel, Cancelling, GenerationCurrent
        <4>2. h \in InFlightAcross(copy[d], haltEpoch[d])
          BY <1>0, <2>1, <2>3, <3>1, <4>1 DEF InFlightAcross
        <4>3. QED
          BY <4>1, <4>2 DEF CancelSshTier
      <3>2. CASE c # d
        <4>1. ctl'[c] = ctl[c] /\ haltEpoch'[c] = haltEpoch[c]
          BY <1>0, <1>8, <3>2 DEF HaltCancel, CtlGoto
        <4>2. QED
          BY <2>1, <2>3, <4>1 DEF Cancelling, GenerationCurrent
      <3>3. QED
        BY <3>1, <3>2
    <2>4. QED
      BY <2>1, <2>2, <2>3
  <1>9. ASSUME NEW x \in Handles, OpAdmit(x)
        PROVE  Goal
    <2>1. CASE AdmitSshTier(x, proof[x].generation, proof[x])
      <3>1. h # x /\ h \in spanned \cap bindings
        BY <1>9, <2>1 DEF OpAdmit, AdmitSshTier, Register, SpannedIsStale
      <3>2. /\ UNCHANGED <<snapGen, cancelled, lastNote, ctl, copy, haltEpoch>>
            /\ handle'[h] = handle[h]
        BY <1>9, <2>1, <3>1
           DEF OpAdmit, AdmitSshTier, Register, cvars, AdmissionInv, AdmissionTypeOK
      <3>3. Told
        BY <1>1, <3>1, <3>2
      <3>4. QED
        BY <3>2, <3>3 DEF Cancelling, GenerationCurrent
    <2>2. CASE UNCHANGED avars
      <3>1. Told
        BY <1>1, <1>9, <2>2 DEF OpAdmit, avars
      <3>2. QED
        BY <1>2, <1>9, <2>2, <3>1 DEF OpAdmit, avars, cvars
    <2>3. QED
      BY <1>9, <2>1, <2>2 DEF OpAdmit
  <1>10. ASSUME NEW x \in Handles, OpComplete(x) \/ OpRollback(x)
         PROVE  Goal
    <2>1. /\ UNCHANGED <<snapGen, handle, cancelled, spanned, lastNote, ctl, copy,
                         haltEpoch>>
          /\ bindings' \subseteq bindings
      BY <1>10 DEF OpComplete, OpRollback, Complete, Rollback, Dispose, avars, cvars, hvars
    <2>2. Told
      BY <1>1, <2>1
    <2>3. QED
      BY <1>2, <2>1, <2>2
  <1>11. QED
    BY <1>3, <1>4, <1>5, <1>6, <1>7, <1>8, <1>9, <1>10, StepKinds

-----------------------------------------------------------------------------
(* The theorems                                                             *)

\* The inductive invariant of the gate: one step of any call, boot or invalidation.
LEMMA SshNext == SshInv /\ [Next]_vars => SshInv'
  <1> SUFFICES ASSUME SshInv, [Next]_vars PROVE SshInv'
    OBVIOUS
  <1>1. AdmissionInv'
    BY StepIsAdmission, NextInv DEF SshInv
  <1>2. QED
    BY <1>1, SshTypeStep, CountersStep, CopiesStep, EpochStep, CancelStep, ReachStep,
       TellStep DEF SshInv

\* Whatever halts, resumes, boots and invalidations meet whatever ssh work, the epoch
\* the service keeps and the record the controllers work from stay in step.
THEOREM GateInvariant == Spec => []SshInv
  BY SshInit, SshNext, PTL DEF Spec

\* The gate's state has its types, its counters their bounds.
THEOREM GateIsTyped == Spec => []SshTypeOK
  <1>1. SshInv => SshTypeOK
    BY DEF SshInv
  <1>2. QED
    BY <1>1, GateInvariant, PTL

\* The controller, the probe and the operations use the admission service by its own
\* operations only: every behaviour of the gate is one of the service, ...
THEOREM GateIsAdmission == Spec => AdmissionSpec
  <1>1. Init => AdmissionInit
    BY DEF Init
  <1>2. SshInv /\ [Next]_vars => [AdmissionNext]_avars
    BY StepIsAdmission
  <1>3. QED
    BY <1>1, <1>2, GateInvariant, PTL DEF Spec, AdmissionSpec

\* ... so fenced ssh work never succeeds and none starts on a retired incarnation.
THEOREM GateImplementsFence == Spec => ImplementsFence
  BY GateIsAdmission, AdmissionImplementsFence

\* complete()'s epoch backstop: an operation in flight across a noted halt or resume
\* never reports success, whether or not cancel_ssh_tier has reached it.
THEOREM NoSuccessAcross == Spec => []NoSuccessAcrossTransition
  <1>1. SshInv => NoSuccessAcrossTransition
    BY DEF SshInv, SpannedIsStale, NoSuccessAcrossTransition
  <1>2. QED
    BY <1>1, GateInvariant, PTL

\* cancel_ssh_tier's filter by the epoch of its halt: a delayed cancel spares what was
\* admitted after the resume.
THEOREM CancelsUnderHaltOnly == Spec => []CancelOnlyUnderHalt
  <1>1. SshInv => CancelOnlyUnderHalt
    BY DEF SshInv
  <1>2. QED
    BY <1>1, GateInvariant, PTL

\* halt_debug_transport before the break or the attach: the kernel stops only under
\* work that was told, or that a second controller is about to tell.
THEOREM StopsFencedWorkOnly == Spec => StopsOnlyFencedWork
  <1>1. SshInv => (lastNote = "halt" =>
           \A h \in spanned \cap bindings : handle[h].generation = snapGen =>
              h \in cancelled \/ \E c \in Controllers : ctl[c] = "cancelling")
    BY DEF SshInv, HaltTells, Cancelling
  <1>2. SshInv /\ [Next]_vars =>
          [kernel = "running" /\ kernel' = "stopped" /\ lastNote = "halt" =>
             \A h \in spanned \cap bindings :
                handle[h].generation = snapGen =>
                   h \in cancelled \/ \E c \in Controllers : ctl[c] = "cancelling"]_vars
    BY <1>1
  <1>3. QED
    BY <1>2, GateInvariant, PTL DEF Spec, StopsOnlyFencedWork

=============================================================================
