-------------------------- MODULE AdmissionProofs --------------------------
(***************************************************************************)
(* Proofs about Admission for any set of handles and any bounds.           *)
(***************************************************************************)
EXTENDS Admission, TLAPS

-----------------------------------------------------------------------------
(* The tables keep their types.                                             *)

\* A new service has well-typed tables.
LEMMA InitType == AdmissionInit => AdmissionTypeOK
  BY DEF AdmissionInit, AdmissionTypeOK, None, TargetStates, HandleRecords, Ops,
         LiveStates, TerminalStates

\* Registering a handle keeps every table well typed.
LEMMA RegisterType ==
  ASSUME AdmissionTypeOK, NEW h \in Handles, NEW op \in Ops, NEW r \in BOOLEAN,
         Register(h, op, r)
  PROVE  AdmissionTypeOK'
  BY DEF AdmissionTypeOK, Register, HandleRecords, LiveStates

\* Disposing of a handle keeps every table well typed.
LEMMA DisposeType ==
  ASSUME AdmissionTypeOK, NEW h \in Handles, NEW t \in TerminalStates,
         Dispose(h, t)
  PROVE  AdmissionTypeOK'
  BY DEF AdmissionTypeOK, Dispose

\* Every operation keeps the tables well typed.
LEMMA NextType == AdmissionTypeOK /\ [AdmissionNext]_avars => AdmissionTypeOK'
  <1> SUFFICES ASSUME AdmissionTypeOK, [AdmissionNext]_avars
               PROVE  AdmissionTypeOK'
    OBVIOUS
  <1> USE AdmissionAssumption DEF Generations
  <1>1. ASSUME NEW g \in Generations, NEW s \in TargetStates, PublishSnapshot(g, s)
        PROVE  AdmissionTypeOK'
    BY <1>1 DEF AdmissionTypeOK, PublishSnapshot
  <1>2. ASSUME NEW g \in Generations, NoteExecutionTransition(g)
        PROVE  AdmissionTypeOK'
    BY <1>2 DEF AdmissionTypeOK, NoteExecutionTransition
  <1>3. ASSUME NEW g \in Generations, NEW e \in 0..MaxEpoch, CancelSshTier(g, e)
        PROVE  AdmissionTypeOK'
    BY <1>3 DEF AdmissionTypeOK, CancelSshTier, InFlightAcross
  <1>4. ASSUME NEW g \in Generations, CloseAdmission(g)
        PROVE  AdmissionTypeOK'
    BY <1>4 DEF AdmissionTypeOK, CloseAdmission
  <1>5. ASSUME NEW g \in Generations, MarkRecoveryRequired(g)
        PROVE  AdmissionTypeOK'
    BY <1>5 DEF AdmissionTypeOK, MarkRecoveryRequired
  <1>6. ASSUME NEW g \in Generations, ClearRecoveryRequired(g)
        PROVE  AdmissionTypeOK'
    BY <1>6 DEF AdmissionTypeOK, ClearRecoveryRequired, None
  <1>7. ASSUME NEW g \in Generations, NEW h \in Handles, Admit(h, g)
        PROVE  AdmissionTypeOK'
    BY <1>7, RegisterType DEF Admit, Ops
  <1>8. ASSUME NEW g \in Generations, NEW h \in Handles, AdmitRecovery(h, g)
        PROVE  AdmissionTypeOK'
    BY <1>8, RegisterType DEF AdmitRecovery, Ops
  <1>9. ASSUME NEW g \in Generations, NEW h \in Handles, NEW p \in Proofs,
               AdmitSshTier(h, g, p)
        PROVE  AdmissionTypeOK'
    BY <1>9, RegisterType DEF AdmitSshTier, Ops
  <1>10. ASSUME NEW h \in Handles, Promote(h)
         PROVE  AdmissionTypeOK'
    BY <1>10 DEF AdmissionTypeOK, Promote, LiveStates
  <1>11. ASSUME NEW h \in Handles, Complete(h) \/ Rollback(h) \/ Abandon(h)
         PROVE  AdmissionTypeOK'
    BY <1>11, DisposeType DEF Complete, Rollback, Abandon, TerminalStates
  <1>12. ASSUME NEW h \in Handles, ConfirmReaped(h)
         PROVE  AdmissionTypeOK'
    BY <1>12 DEF AdmissionTypeOK, ConfirmReaped
  <1>13. CASE Reopen
    BY <1>13 DEF AdmissionTypeOK, Reopen, None
  <1>14. CASE UNCHANGED avars
    BY <1>14 DEF AdmissionTypeOK, avars
  <1>15. QED
    BY <1>1, <1>2, <1>3, <1>4, <1>5, <1>6, <1>7, <1>8, <1>9, <1>10, <1>11,
       <1>12, <1>13, <1>14 DEF AdmissionNext

\* The types of the tables hold in every reachable state, for every caller.
THEOREM TypeCorrect == AdmissionSpec => []AdmissionTypeOK
  BY InitType, NextType, PTL DEF AdmissionSpec

-----------------------------------------------------------------------------
(* The inductive invariant.                                                 *)

\* A new service, with nothing registered, satisfies the invariant.
LEMMA InitInv == AdmissionInit => AdmissionInv
  BY InitType DEF AdmissionInit, AdmissionInv, BindingsAreLive,
     ClosedCoversBindings, NoRetiredWorkWhenOpen, SnapshotAhead, LiveStates, None

\* Registering on an open target with a snapshot keeps the invariant: the new
\* binding is of the snapshot's generation, which is past the retired ones.
LEMMA RegisterInv ==
  ASSUME AdmissionInv, NEW h \in Handles, NEW op \in Ops, NEW r \in BOOLEAN,
         Register(h, op, r), closedAt = None, snapGen # None
  PROVE  AdmissionInv'
  <1>1. AdmissionTypeOK'
    BY RegisterType DEF AdmissionInv
  <1>2. BindingsAreLive'
    BY DEF AdmissionInv, AdmissionTypeOK, BindingsAreLive, Register, LiveStates
  <1>3. ClosedCoversBindings'
    BY DEF ClosedCoversBindings, Register
  <1>4. NoRetiredWorkWhenOpen'
    BY DEF AdmissionInv, AdmissionTypeOK, NoRetiredWorkWhenOpen, SnapshotAhead,
           Register, HandleRecords, None
  <1>5. SnapshotAhead'
    BY DEF AdmissionInv, AdmissionTypeOK, SnapshotAhead, Register, HandleRecords
  <1>6. QED
    BY <1>1, <1>2, <1>3, <1>4, <1>5 DEF AdmissionInv

\* Disposing of a handle only takes bindings away.
LEMMA DisposeInv ==
  ASSUME AdmissionInv, NEW h \in Handles, NEW t \in TerminalStates,
         Dispose(h, t)
  PROVE  AdmissionInv'
  <1>1. AdmissionTypeOK'
    BY DisposeType DEF AdmissionInv
  <1>2. BindingsAreLive'
    BY DEF AdmissionInv, AdmissionTypeOK, BindingsAreLive, Dispose, LiveStates,
           TerminalStates
  <1>3. (ClosedCoversBindings /\ NoRetiredWorkWhenOpen /\ SnapshotAhead)'
    BY DEF AdmissionInv, ClosedCoversBindings, NoRetiredWorkWhenOpen,
           SnapshotAhead, Dispose
  <1>4. QED
    BY <1>1, <1>2, <1>3 DEF AdmissionInv

\* Every operation keeps the invariant.
LEMMA NextInv == AdmissionInv /\ [AdmissionNext]_avars => AdmissionInv'
  <1> SUFFICES ASSUME AdmissionInv, [AdmissionNext]_avars
               PROVE  AdmissionInv'
    OBVIOUS
  <1>t. AdmissionTypeOK'
    BY NextType DEF AdmissionInv
  <1>1. ASSUME NEW g \in Generations, NEW s \in TargetStates, PublishSnapshot(g, s)
        PROVE  AdmissionInv'
    <2>1. (BindingsAreLive /\ ClosedCoversBindings /\ NoRetiredWorkWhenOpen)'
      BY <1>1 DEF AdmissionInv, BindingsAreLive, ClosedCoversBindings,
                  NoRetiredWorkWhenOpen, PublishSnapshot
    <2>2. SnapshotAhead'
      BY <1>1, AdmissionAssumption
         DEF AdmissionInv, AdmissionTypeOK, SnapshotAhead, PublishSnapshot,
             HandleRecords, Generations, None
    <2>3. QED
      BY <1>t, <2>1, <2>2 DEF AdmissionInv
  <1>2. ASSUME NEW g \in Generations, NoteExecutionTransition(g)
        PROVE  AdmissionInv'
    BY <1>t, <1>2 DEF AdmissionInv, BindingsAreLive, ClosedCoversBindings,
       NoRetiredWorkWhenOpen, SnapshotAhead, NoteExecutionTransition
  <1>3. ASSUME NEW g \in Generations, NEW e \in 0..MaxEpoch, CancelSshTier(g, e)
        PROVE  AdmissionInv'
    <2>1. BindingsAreLive'
      BY <1>3 DEF AdmissionInv, AdmissionTypeOK, BindingsAreLive, CancelSshTier,
                  InFlightAcross, LiveStates
    <2>2. (ClosedCoversBindings /\ NoRetiredWorkWhenOpen /\ SnapshotAhead)'
      BY <1>3 DEF AdmissionInv, ClosedCoversBindings, NoRetiredWorkWhenOpen,
                  SnapshotAhead, CancelSshTier
    <2>3. QED
      BY <1>t, <2>1, <2>2 DEF AdmissionInv
  <1>4. ASSUME NEW g \in Generations, CloseAdmission(g)
        PROVE  AdmissionInv'
    <2>1. BindingsAreLive'
      BY <1>4 DEF AdmissionInv, AdmissionTypeOK, BindingsAreLive, CloseAdmission,
                  LiveStates
    <2>2. ClosedCoversBindings'
      BY <1>4, AdmissionAssumption
         DEF AdmissionInv, AdmissionTypeOK, ClosedCoversBindings, SnapshotAhead,
             CloseAdmission, StaleLifecycleClose, HandleRecords, Generations, None
    <2>3. NoRetiredWorkWhenOpen'
      BY <1>4, AdmissionAssumption
         DEF AdmissionInv, NoRetiredWorkWhenOpen, CloseAdmission, Generations, None
    <2>4. SnapshotAhead'
      BY <1>4 DEF AdmissionInv, SnapshotAhead, CloseAdmission
    <2>5. QED
      BY <1>t, <2>1, <2>2, <2>3, <2>4 DEF AdmissionInv
  <1>5. ASSUME NEW g \in Generations, MarkRecoveryRequired(g)
        PROVE  AdmissionInv'
    BY <1>t, <1>5 DEF AdmissionInv, BindingsAreLive, ClosedCoversBindings,
       NoRetiredWorkWhenOpen, SnapshotAhead, MarkRecoveryRequired
  <1>6. ASSUME NEW g \in Generations, ClearRecoveryRequired(g)
        PROVE  AdmissionInv'
    BY <1>t, <1>6 DEF AdmissionInv, BindingsAreLive, ClosedCoversBindings,
       NoRetiredWorkWhenOpen, SnapshotAhead, ClearRecoveryRequired
  <1>7. ASSUME NEW g \in Generations, NEW h \in Handles, Admit(h, g)
        PROVE  AdmissionInv'
    BY <1>7, RegisterInv DEF Admit, CanAdmit, BindSnapshot, Ops
  <1>8. ASSUME NEW g \in Generations, NEW h \in Handles, AdmitRecovery(h, g)
        PROVE  AdmissionInv'
    BY <1>8, RegisterInv DEF AdmitRecovery, CanAdmitRecovery, BindSnapshot, Ops
  <1>9. ASSUME NEW g \in Generations, NEW h \in Handles, NEW p \in Proofs,
               AdmitSshTier(h, g, p)
        PROVE  AdmissionInv'
    BY <1>9, RegisterInv DEF AdmitSshTier, CanAdmitSshTier, BindSnapshot, Ops
  <1>10. ASSUME NEW h \in Handles, Promote(h)
         PROVE  AdmissionInv'
    <2>1. BindingsAreLive'
      BY <1>10 DEF AdmissionInv, AdmissionTypeOK, BindingsAreLive, Promote,
                   CanPromote, LiveStates
    <2>2. (ClosedCoversBindings /\ NoRetiredWorkWhenOpen /\ SnapshotAhead)'
      BY <1>10 DEF AdmissionInv, ClosedCoversBindings, NoRetiredWorkWhenOpen,
                   SnapshotAhead, Promote
    <2>3. QED
      BY <1>t, <2>1, <2>2 DEF AdmissionInv
  <1>11. ASSUME NEW h \in Handles, Complete(h) \/ Rollback(h) \/ Abandon(h)
         PROVE  AdmissionInv'
    BY <1>11, DisposeInv DEF Complete, Rollback, Abandon, TerminalStates
  <1>12. ASSUME NEW h \in Handles, ConfirmReaped(h)
         PROVE  AdmissionInv'
    <2>1. BindingsAreLive'
      BY <1>12 DEF AdmissionInv, AdmissionTypeOK, BindingsAreLive, ConfirmReaped,
                   CanConfirmReaped, LiveStates
    <2>2. (ClosedCoversBindings /\ NoRetiredWorkWhenOpen /\ SnapshotAhead)'
      BY <1>12 DEF AdmissionInv, ClosedCoversBindings, NoRetiredWorkWhenOpen,
                   SnapshotAhead, ConfirmReaped
    <2>3. QED
      BY <1>t, <2>1, <2>2 DEF AdmissionInv
  <1>13. CASE Reopen
    <2>1. (BindingsAreLive /\ ClosedCoversBindings /\ NoRetiredWorkWhenOpen)'
      BY <1>13 DEF AdmissionInv, BindingsAreLive, ClosedCoversBindings,
                   NoRetiredWorkWhenOpen, Reopen
    <2>2. SnapshotAhead'
      BY <1>13 DEF AdmissionInv, AdmissionTypeOK, SnapshotAhead, Reopen
    <2>3. QED
      BY <1>t, <2>1, <2>2 DEF AdmissionInv
  <1>14. CASE UNCHANGED avars
    BY <1>t, <1>14 DEF AdmissionInv, BindingsAreLive, ClosedCoversBindings,
       NoRetiredWorkWhenOpen, SnapshotAhead, avars
  <1>15. QED
    BY <1>1, <1>2, <1>3, <1>4, <1>5, <1>6, <1>7, <1>8, <1>9, <1>10, <1>11,
       <1>12, <1>13, <1>14 DEF AdmissionNext

\* The inductive invariant holds in every reachable state.
LEMMA Invariance == AdmissionSpec => []AdmissionInv
  BY InitInv, NextInv, PTL DEF AdmissionSpec

\* While admission is closed, every binding is fenced and of the closed
\* incarnation or an earlier one.
THEOREM ClosedFencesEverything == AdmissionSpec => []ClosedCoversBindings
  <1>1. AdmissionInv => ClosedCoversBindings
    BY DEF AdmissionInv
  <1>2. QED
    BY <1>1, Invariance, PTL

\* An open target carries no work of a retired incarnation.
THEOREM NoRetiredWork == AdmissionSpec => []NoRetiredWorkWhenOpen
  <1>1. AdmissionInv => NoRetiredWorkWhenOpen
    BY DEF AdmissionInv
  <1>2. QED
    BY <1>1, Invariance, PTL

-----------------------------------------------------------------------------
(* Action properties.                                                       *)

\* A promoted session leaves a closed target's binding table only when reaped:
\* complete is out because every binding of a closed target is fenced.
THEOREM PromotedLeavesReaped == AdmissionSpec => PromotedLeavesClosedReaped
  <1>1. ASSUME AdmissionInv, [AdmissionNext]_avars, NEW h \in Handles,
               h \in bindings, h \notin bindings', state[h] = "promoted",
               closedAt # None
        PROVE  h \in reaped
    <2>1. h \in cancelled
      BY <1>1 DEF AdmissionInv, ClosedCoversBindings
    <2>2. Complete(h) \/ Rollback(h) \/ Abandon(h)
      BY <1>1 DEF AdmissionNext, avars, PublishSnapshot, NoteExecutionTransition,
         CancelSshTier, CloseAdmission, MarkRecoveryRequired, ClearRecoveryRequired,
         Admit, AdmitRecovery, AdmitSshTier, Register, Promote, Complete, Rollback,
         ConfirmReaped, Abandon, Dispose, Reopen
    <2>3. QED
      BY <1>1, <2>1, <2>2 DEF Complete, CanComplete, Rollback, CanRollback,
         Abandon, CanAbandon
  <1>2. AdmissionInv /\ [AdmissionNext]_avars =>
          [\A h \in Handles :
             (/\ h \in bindings /\ h \notin bindings'
              /\ state[h] = "promoted" /\ closedAt # None) => h \in reaped]_avars
    BY <1>1
  <1>3. QED
    BY <1>2, Invariance, PTL DEF AdmissionSpec, PromotedLeavesClosedReaped

-----------------------------------------------------------------------------
(* Admission implements the incarnation fence.                              *)

\* A new service is in an initial state of the fence.
LEMMA InitFence == AdmissionInit => Fence!FenceInit
  BY DEF AdmissionInit, Fence!FenceInit, FenceStatus, LiveStates, None

\* Registering a handle starts a piece of work.
LEMMA RegisterFence ==
  ASSUME AdmissionInv, NEW h \in Handles, NEW op, NEW r,
         Register(h, op, r), closedAt = None, snapGen # None
  PROVE  Fence!Start(h)
  <1>1. snapGen \in Nat /\ snapGen > retired
    BY DEF AdmissionInv, AdmissionTypeOK, SnapshotAhead, None
  <1>2. handle'[h].generation = snapGen
    BY DEF AdmissionInv, AdmissionTypeOK, Register
  <1>3. h \notin cancelled
    BY DEF AdmissionInv, BindingsAreLive, Register
  <1>4. [x \in Handles |-> FenceStatus(x)]' =
          [[x \in Handles |-> FenceStatus(x)] EXCEPT ![h] = "live"]
    BY <1>3 DEF AdmissionInv, AdmissionTypeOK, Register, FenceStatus, LiveStates
  <1>5. [x \in Handles |-> handle[x].generation]' =
          [[x \in Handles |-> handle[x].generation]
             EXCEPT ![h] = [x \in Handles |-> handle[x].generation]'[h]]
    BY DEF AdmissionInv, AdmissionTypeOK, Register
  <1>6. FenceStatus(h) = "idle"
    BY DEF Register, FenceStatus, LiveStates
  <1>7. QED
    BY <1>1, <1>2, <1>4, <1>5, <1>6 DEF Register, Fence!Start

\* Disposing of a handle ends its work, successfully only if it completes.
LEMMA DisposeFence ==
  ASSUME AdmissionInv, NEW h \in Handles,
         Complete(h) \/ Rollback(h) \/ Abandon(h)
  PROVE  Fence!Succeed(h) \/ Fence!Drop(h)
  <1>1. CASE Complete(h)
    <2>1. FenceStatus(h) = "live"
      BY <1>1 DEF Complete, CanComplete, Disposable, FenceStatus, LiveStates
    <2>2. [x \in Handles |-> FenceStatus(x)]' =
            [[x \in Handles |-> FenceStatus(x)] EXCEPT ![h] = "succeeded"]
      BY <1>1 DEF AdmissionInv, AdmissionTypeOK, Complete, Dispose, FenceStatus,
                  LiveStates
    <2>3. QED
      BY <1>1, <2>1, <2>2 DEF Complete, Dispose, Fence!Succeed
  <1>2. CASE Rollback(h) \/ Abandon(h)
    <2>1. FenceStatus(h) \in {"live", "fenced"}
      BY <1>2 DEF Rollback, CanRollback, Abandon, CanAbandon, Disposable,
                  FenceStatus, LiveStates
    <2>2. [x \in Handles |-> FenceStatus(x)]' =
            [[x \in Handles |-> FenceStatus(x)] EXCEPT ![h] = "dropped"]
      BY <1>2 DEF AdmissionInv, AdmissionTypeOK, Rollback, Abandon, Dispose,
                  FenceStatus, LiveStates
    <2>3. QED
      BY <1>2, <2>1, <2>2 DEF Rollback, Abandon, Dispose, Fence!Drop, Fence!InFlight
  <1>3. QED
    BY <1>1, <1>2

\* Closing an open target shuts the fence; closing a closed one changes nothing
\* that the fence can see, because all its bindings are fenced already.
LEMMA CloseFence ==
  ASSUME AdmissionInv, NEW g \in Generations, CloseAdmission(g)
  PROVE  Fence!Shut \/ UNCHANGED Fence!fvars
  <1>0. /\ [x \in Handles |-> handle[x].generation]' = [x \in Handles |-> handle[x].generation]
        /\ \A x \in Handles : x \in bindings <=> state[x] \in LiveStates
    BY DEF CloseAdmission, AdmissionInv, BindingsAreLive
  <1>1. CASE closedAt = None
    <2>1. g > retired
      BY <1>1, AdmissionAssumption
         DEF CloseAdmission, StaleLifecycleClose, AdmissionInv, AdmissionTypeOK,
             SnapshotAhead, Generations, None
    <2>2. closedAt' = g /\ g \in Nat /\ g # None
      BY <1>1, AdmissionAssumption DEF CloseAdmission, Generations, None
    <2>3. \A x \in bindings : handle[x].generation <= g
      BY <1>1, AdmissionAssumption
         DEF CloseAdmission, StaleLifecycleClose, AdmissionInv, AdmissionTypeOK,
             SnapshotAhead, Generations, HandleRecords, None
    <2>4. \A x \in Handles : FenceStatus(x) \in {"live", "fenced"} => x \in bindings
      BY <1>0 DEF FenceStatus, LiveStates
    <2>5. [x \in Handles |-> FenceStatus(x)]' =
            [x \in Handles |-> IF [y \in Handles |-> FenceStatus(y)][x] = "live"
                               THEN "fenced"
                               ELSE [y \in Handles |-> FenceStatus(y)][x]]
      BY <1>0 DEF CloseAdmission, FenceStatus, LiveStates
    <2>6. QED
      BY <1>0, <1>1, <2>1, <2>2, <2>3, <2>4, <2>5 DEF Fence!Shut, Fence!InFlight
  <1>2. CASE closedAt # None
    <2>1. cancelled' = cancelled
      BY <1>2 DEF CloseAdmission, AdmissionInv, ClosedCoversBindings
    <2>2. closedAt' = closedAt /\ retired' = retired /\ state' = state
      BY <1>2 DEF CloseAdmission
    <2>3. QED
      BY <1>0, <2>1, <2>2 DEF Fence!fvars, FenceStatus
  <1>3. QED
    BY <1>1, <1>2

\* A halt's cancellation interrupts some of the live work.
LEMMA CancelFence ==
  ASSUME AdmissionInv, NEW g \in Generations, NEW e \in 0..MaxEpoch,
         CancelSshTier(g, e)
  PROVE  Fence!Interrupt
  <1> DEFINE S == {x \in InFlightAcross(g, e) : x \notin cancelled}
  <1>1. S \in SUBSET {x \in Handles : [y \in Handles |-> FenceStatus(y)][x] = "live"}
    BY DEF AdmissionInv, AdmissionTypeOK, BindingsAreLive, InFlightAcross,
           FenceStatus, LiveStates
  <1>2. [x \in Handles |-> FenceStatus(x)]' =
          [x \in Handles |-> IF x \in S THEN "fenced"
                                        ELSE [y \in Handles |-> FenceStatus(y)][x]]
    BY DEF AdmissionInv, AdmissionTypeOK, BindingsAreLive, InFlightAcross,
           CancelSshTier, FenceStatus, LiveStates
  <1>3. QED
    BY <1>1, <1>2 DEF CancelSshTier, Fence!Interrupt

\* Every step of the service is a step of the fence, or invisible to it.
LEMMA NextFence ==
  AdmissionInv /\ [AdmissionNext]_avars => [Fence!FenceNext]_(Fence!fvars)
  <1> SUFFICES ASSUME AdmissionInv, [AdmissionNext]_avars
               PROVE  [Fence!FenceNext]_(Fence!fvars)
    OBVIOUS
  <1> USE DEF Fence!FenceNext
  <1>1. ASSUME NEW g \in Generations, NEW s \in TargetStates,
               \/ PublishSnapshot(g, s) \/ NoteExecutionTransition(g)
               \/ MarkRecoveryRequired(g) \/ ClearRecoveryRequired(g)
        PROVE  UNCHANGED Fence!fvars
    BY <1>1 DEF PublishSnapshot, NoteExecutionTransition, MarkRecoveryRequired,
       ClearRecoveryRequired, Fence!fvars, FenceStatus
  <1>2. ASSUME NEW g \in Generations, NEW e \in 0..MaxEpoch, CancelSshTier(g, e)
        PROVE  Fence!FenceNext
    BY <1>2, CancelFence
  <1>3. ASSUME NEW g \in Generations, CloseAdmission(g)
        PROVE  [Fence!FenceNext]_(Fence!fvars)
    BY <1>3, CloseFence
  <1>4. ASSUME NEW g \in Generations, NEW h \in Handles,
               \/ Admit(h, g) \/ AdmitRecovery(h, g)
               \/ \E p \in Proofs : AdmitSshTier(h, g, p)
        PROVE  Fence!FenceNext
    BY <1>4, RegisterFence DEF Admit, CanAdmit, AdmitRecovery, CanAdmitRecovery,
       AdmitSshTier, CanAdmitSshTier, BindSnapshot
  <1>5. ASSUME NEW h \in Handles, Complete(h) \/ Rollback(h) \/ Abandon(h)
        PROVE  Fence!FenceNext
    BY <1>5, DisposeFence
  <1>6. ASSUME NEW h \in Handles, Promote(h)
        PROVE  UNCHANGED Fence!fvars
    <2>1. [x \in Handles |-> FenceStatus(x)]' = [x \in Handles |-> FenceStatus(x)]
      BY <1>6 DEF AdmissionInv, AdmissionTypeOK, Promote, CanPromote, FenceStatus,
                  LiveStates
    <2>2. QED
      BY <1>6, <2>1 DEF Promote, Fence!fvars
  <1>7. ASSUME NEW h \in Handles, ConfirmReaped(h)
        PROVE  UNCHANGED Fence!fvars
    BY <1>7 DEF ConfirmReaped, Fence!fvars, FenceStatus
  <1>8. CASE Reopen
    <2>1. [x \in Handles |-> FenceStatus(x)]' = [x \in Handles |-> FenceStatus(x)]
      BY <1>8 DEF Reopen, FenceStatus
    <2>2. \A x \in Handles : FenceStatus(x) \notin {"live", "fenced"}
      BY <1>8 DEF Reopen, AdmissionInv, BindingsAreLive, FenceStatus, LiveStates
    <2>3. QED
      BY <1>8, <2>1, <2>2 DEF Reopen, Fence!OpenAgain, Fence!InFlight
  <1>9. CASE UNCHANGED avars
    BY <1>9 DEF avars, Fence!fvars, FenceStatus
  <1>10. QED
    BY <1>1, <1>2, <1>3, <1>4, <1>5, <1>6, <1>7, <1>8, <1>9
       DEF AdmissionNext, TargetStates

\* The admission service implements the incarnation fence, whoever calls it and
\* in whatever order.
THEOREM AdmissionImplementsFence == AdmissionSpec => ImplementsFence
  BY InitFence, NextFence, Invariance, PTL
     DEF AdmissionSpec, ImplementsFence, Fence!FenceSpec

=============================================================================
