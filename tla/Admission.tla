----------------------------- MODULE Admission -----------------------------
(***************************************************************************)
(* AdmissionService and SnapshotStore (coordination/admission.py) for one  *)
(* TargetKey.  Every public method runs in one critical section of the     *)
(* key's RLock and touches no other key, so each method is one action and  *)
(* one key is the general case.                                            *)
(*                                                                         *)
(* A call the service rejects raises AdmissionError and changes nothing:   *)
(* its action is not enabled.  The comparisons of a request's cached       *)
(* channel, capabilities, platform and lease with the snapshot's only ever *)
(* reject, so the requests here are the ones that pass them; what stays is *)
(* the generation, tombstone, closure and target-state control.            *)
(***************************************************************************)
EXTENDS Naturals, FiniteSets

CONSTANTS
    Handles,    \* identities of AdmissionHandles; each is registered at most once
    MaxGen,     \* bound on snapshot generations
    MaxEpoch    \* bound on the execution epoch

ASSUME AdmissionAssumption == MaxGen \in Nat /\ MaxEpoch \in Nat

VARIABLES
    snapGen,    \* generation of the authoritative snapshot, None if there is none
    snapState,  \* its TargetState
    closedAt,   \* _closed_at: generation admission was closed at, None if open
    tombstone,  \* _recovery_required: generation parked at, None if not marked
    execEpoch,  \* _exec_epoch
    bindings,   \* _bindings: the registered handles
    handle,     \* what a handle is bound to at registration, and never changes
    state,      \* its AdmissionState, "none" before registration
    cancelled,  \* handles whose private cancel fence is set
    reaped,     \* handles whose private reaped fence is set
    retired     \* history: latest generation admission was reopened past

avars == <<snapGen, snapState, closedAt, tombstone, execEpoch, bindings,
           handle, state, cancelled, reaped, retired>>

\* No generation.  Real ones start at 1; a tombstone at generation 0, which a
\* mark without a snapshot could write, would gate nothing and so equals None.
None == 0
Generations == 1..MaxGen

\* The non-live states (acquiring, preparing, booting, resetting, crashed,
\* releasing) are treated alike everywhere.
TargetStates == {"ready", "debugging", "nonlive"}

Ops == {"transport_open", "ssh_tier"}
LiveStates == {"pending", "promoted"}
TerminalStates == {"rolled_back", "completed", "abandoned"}

\* ExecutionProof: produced by the Layer-4 probe, judged here.
ExecutionStates == {"executing", "halted", "unknown"}
Proofs == [generation : Generations, epoch : 0..MaxEpoch, state : ExecutionStates]

AdmissionInit ==
    /\ snapGen = None
    /\ snapState = "nonlive"
    /\ closedAt = None
    /\ tombstone = None
    /\ execEpoch = 0
    /\ bindings = {}
    /\ handle = [h \in Handles |-> [generation |-> None, admit_epoch |-> 0,
                                    op |-> "transport_open", recovery |-> FALSE]]
    /\ state = [h \in Handles |-> "none"]
    /\ cancelled = {}
    /\ reaped = {}
    /\ retired = None

-----------------------------------------------------------------------------
(* Guards: the conditions of the methods, named so that a caller that       *)
(* suppresses the error can ask which way the call goes.                    *)

\* _generation_current
GenerationCurrent(g) == snapGen # None /\ g = snapGen

\* _bind_snapshot: closure refuses everyone, a tombstone at or ahead of the
\* snapshot refuses everyone but a recovery attach, then the generation fence.
BindSnapshot(g, recovery) ==
    /\ closedAt = None
    /\ \/ recovery
       \/ tombstone = None
       \/ snapGen # None /\ tombstone < snapGen
    /\ snapGen # None
    /\ g = snapGen

\* _require_recovery_tombstone
RecoveryTombstoneCurrent == tombstone # None /\ tombstone = snapGen

\* _require_executing_proof: generation- and epoch-current, positively EXECUTING
ExecutingProof(p) ==
    /\ p.state = "executing"
    /\ p.generation = snapGen
    /\ p.epoch = execEpoch

CanAdmit(g) == BindSnapshot(g, FALSE) /\ snapState = "ready"

CanAdmitRecovery(g) ==
    /\ BindSnapshot(g, TRUE)
    /\ snapState \in {"ready", "debugging"}
    /\ RecoveryTombstoneCurrent

\* A READY target admits without looking at the proof.
CanAdmitSshTier(g, p) ==
    /\ BindSnapshot(g, FALSE)
    /\ \/ snapState = "ready"
       \/ snapState = "debugging" /\ ExecutingProof(p)

CanPromote(h) == h \in bindings /\ state[h] = "pending" /\ h \notin cancelled

\* _dispose_locked
Disposable(h) == h \in bindings /\ state[h] \in LiveStates

\* Mutant of EpochStaleForOp: complete() has no epoch backstop.
NeverEpochStale(h) == FALSE

\* _epoch_stale_for_op
EpochStaleForOp(h) ==
    handle[h].op = "ssh_tier" /\ handle[h].admit_epoch # execEpoch

\* Mutant of CanComplete: the cancel fence is not looked at.
CanCompleteCancelled(h) ==
    /\ ~EpochStaleForOp(h)
    /\ ~(state[h] = "pending" /\ handle[h].op = "transport_open")
    /\ Disposable(h)

CanComplete(h) ==
    /\ h \notin cancelled
    /\ ~EpochStaleForOp(h)
    /\ ~(state[h] = "pending" /\ handle[h].op = "transport_open")
    /\ Disposable(h)

\* Mutant of CanRollback: a promoted session rolls back before it is reaped.
CanRollbackUnreaped(h) == Disposable(h)

CanRollback(h) ==
    /\ ~(state[h] = "promoted" /\ closedAt # None /\ h \notin reaped)
    /\ Disposable(h)

CanConfirmReaped(h) == closedAt # None /\ h \in cancelled /\ h \in bindings

CanAbandon(h) ==
    /\ closedAt # None
    /\ h \in cancelled
    /\ h \in reaped
    /\ Disposable(h)

\* Mutant of StaleLifecycleClose: a delayed close is never recognised.
NeverStaleClose(g) == FALSE

\* _is_stale_lifecycle_close: a delayed retry for an incarnation that the
\* target has already left behind and reopened past.
StaleLifecycleClose(g) == closedAt = None /\ snapGen # None /\ snapGen > g

-----------------------------------------------------------------------------
(* Operations                                                               *)

\* publish_snapshot / SnapshotStore.put: the same generation may be published
\* again, a regression is refused.
PublishSnapshot(g, s) ==
    /\ ~(snapGen # None /\ g < snapGen)
    /\ snapGen' = g
    /\ snapState' = s
    /\ UNCHANGED <<closedAt, tombstone, execEpoch, bindings, handle, state,
                   cancelled, reaped, retired>>

\* Mutant of Register: the handle is registered without the snapshot's epoch.
RegisterWithoutEpoch(h, op, recovery) ==
    /\ state[h] = "none"
    /\ handle' = [handle EXCEPT ![h] = [generation |-> snapGen, op |-> op,
                                        recovery |-> recovery]]
    /\ state' = [state EXCEPT ![h] = "pending"]
    /\ bindings' = bindings \cup {h}
    /\ UNCHANGED <<snapGen, snapState, closedAt, tombstone, execEpoch,
                   cancelled, reaped, retired>>

\* _register: binds the snapshot's generation and the current epoch.
Register(h, op, recovery) ==
    /\ state[h] = "none"
    /\ handle' = [handle EXCEPT ![h] = [generation |-> snapGen,
                                        admit_epoch |-> execEpoch,
                                        op |-> op, recovery |-> recovery]]
    /\ state' = [state EXCEPT ![h] = "pending"]
    /\ bindings' = bindings \cup {h}
    /\ UNCHANGED <<snapGen, snapState, closedAt, tombstone, execEpoch,
                   cancelled, reaped, retired>>

Admit(h, g) == CanAdmit(g) /\ Register(h, "transport_open", FALSE)

AdmitRecovery(h, g) == CanAdmitRecovery(g) /\ Register(h, "transport_open", TRUE)

AdmitSshTier(h, g, p) == CanAdmitSshTier(g, p) /\ Register(h, "ssh_tier", FALSE)

Promote(h) ==
    /\ CanPromote(h)
    /\ state' = [state EXCEPT ![h] = "promoted"]
    /\ UNCHANGED <<snapGen, snapState, closedAt, tombstone, execEpoch, bindings,
                   handle, cancelled, reaped, retired>>

\* _dispose_locked: the handle turns terminal and leaves the binding table.
Dispose(h, terminal) ==
    /\ state' = [state EXCEPT ![h] = terminal]
    /\ bindings' = bindings \ {h}
    /\ UNCHANGED <<snapGen, snapState, closedAt, tombstone, execEpoch, handle,
                   cancelled, reaped, retired>>

Complete(h) == CanComplete(h) /\ Dispose(h, "completed")

Rollback(h) == CanRollback(h) /\ Dispose(h, "rolled_back")

Abandon(h) == CanAbandon(h) /\ Dispose(h, "abandoned")

ConfirmReaped(h) ==
    /\ CanConfirmReaped(h)
    /\ reaped' = reaped \cup {h}
    /\ UNCHANGED <<snapGen, snapState, closedAt, tombstone, execEpoch, bindings,
                   handle, state, cancelled, retired>>

\* note_execution_transition: a transition seen at another generation is ignored.
NoteExecutionTransition(g) ==
    /\ GenerationCurrent(g)
    /\ execEpoch < MaxEpoch
    /\ execEpoch' = execEpoch + 1
    /\ UNCHANGED <<snapGen, snapState, closedAt, tombstone, bindings, handle,
                   state, cancelled, reaped, retired>>

\* Mutant of InFlightAcross: no filter by the epoch of the halt.
InFlightNow(g, haltEpoch) ==
    {h \in bindings : handle[h].op = "ssh_tier" /\ handle[h].generation = g}

\* cancel_ssh_tier: the ssh work of this generation admitted no later than the
\* halt, and nothing admitted after a later resume.
InFlightAcross(g, haltEpoch) ==
    {h \in bindings : /\ handle[h].op = "ssh_tier"
                      /\ handle[h].generation = g
                      /\ handle[h].admit_epoch <= haltEpoch}

CancelSshTier(g, haltEpoch) ==
    /\ GenerationCurrent(g)
    /\ cancelled' = cancelled \cup InFlightAcross(g, haltEpoch)
    /\ UNCHANGED <<snapGen, snapState, closedAt, tombstone, execEpoch, bindings,
                   handle, state, reaped, retired>>

\* close_admission, and the step of invalidate_lifecycle under the key lock:
\* the first closing generation is kept, every binding is fenced.
CloseAdmission(g) ==
    /\ ~StaleLifecycleClose(g)
    /\ closedAt' = IF closedAt = None THEN g ELSE closedAt
    /\ cancelled' = cancelled \cup bindings
    /\ UNCHANGED <<snapGen, snapState, tombstone, execEpoch, bindings, handle,
                   state, reaped, retired>>

\* Mutant of Reopen: it does not wait for the bindings to drain.
ReopenWithBindings ==
    /\ closedAt # None
    /\ snapGen # None /\ snapGen > closedAt
    /\ closedAt' = None
    /\ retired' = closedAt
    /\ UNCHANGED <<snapGen, snapState, tombstone, execEpoch, bindings, handle,
                   state, cancelled, reaped>>

\* reopen: the snapshot has moved past the closed generation and nothing of the
\* old incarnation is still registered.
Reopen ==
    /\ closedAt # None
    /\ snapGen # None /\ snapGen > closedAt
    /\ bindings = {}
    /\ closedAt' = None
    /\ retired' = closedAt
    /\ UNCHANGED <<snapGen, snapState, tombstone, execEpoch, bindings, handle,
                   state, cancelled, reaped>>

\* mark_recovery_required: an older mark never replaces a newer one.
MarkRecoveryRequired(g) ==
    /\ ~(tombstone # None /\ g < tombstone)
    /\ tombstone' = g
    /\ UNCHANGED <<snapGen, snapState, closedAt, execEpoch, bindings, handle,
                   state, cancelled, reaped, retired>>

ClearRecoveryRequired(g) ==
    /\ tombstone = g
    /\ tombstone' = None
    /\ UNCHANGED <<snapGen, snapState, closedAt, execEpoch, bindings, handle,
                   state, cancelled, reaped, retired>>

AdmissionNext ==
    \/ \E g \in Generations :
         \/ \E s \in TargetStates : PublishSnapshot(g, s)
         \/ NoteExecutionTransition(g)
         \/ \E e \in 0..MaxEpoch : CancelSshTier(g, e)
         \/ CloseAdmission(g)
         \/ MarkRecoveryRequired(g)
         \/ ClearRecoveryRequired(g)
         \/ \E h \in Handles :
              \/ Admit(h, g)
              \/ AdmitRecovery(h, g)
              \/ \E p \in Proofs : AdmitSshTier(h, g, p)
    \/ \E h \in Handles :
         \/ Promote(h)
         \/ Complete(h)
         \/ Rollback(h)
         \/ ConfirmReaped(h)
         \/ Abandon(h)
    \/ Reopen

AdmissionSpec == AdmissionInit /\ [][AdmissionNext]_avars

-----------------------------------------------------------------------------
(* Properties                                                               *)

HandleRecords ==
    [generation : Nat, admit_epoch : Nat, op : Ops, recovery : BOOLEAN]

\* The types of the service's tables and of the handles' fields.
AdmissionTypeOK ==
    /\ snapGen \in Nat
    /\ snapState \in TargetStates
    /\ closedAt \in Nat
    /\ tombstone \in Nat
    /\ execEpoch \in Nat
    /\ bindings \subseteq Handles
    /\ handle \in [Handles -> HandleRecords]
    /\ state \in [Handles -> {"none"} \cup LiveStates \cup TerminalStates]
    /\ cancelled \subseteq Handles
    /\ reaped \subseteq Handles
    /\ retired \in Nat

\* The binding table is exactly the handles that are pending or promoted, and
\* only registered handles carry a fence: the two records the service keeps of
\* a handle's life never disagree.
BindingsAreLive ==
    /\ \A h \in Handles : h \in bindings <=> state[h] \in LiveStates
    /\ \A h \in cancelled \cup reaped : state[h] # "none"

\* While admission is closed every registered handle is fenced and belongs to
\* the incarnation being torn down or to an earlier one: a delayed close of an
\* old incarnation cannot reach the work of a newer one, and nothing is
\* admitted between close_admission and reopen.
ClosedCoversBindings ==
    closedAt # None =>
        \A h \in bindings : h \in cancelled /\ handle[h].generation <= closedAt

\* Once reopened, no binding of a retired incarnation is left, whatever the
\* order of rollbacks, reaps, abandons, publications and reopen attempts.
NoRetiredWorkWhenOpen ==
    closedAt = None => \A h \in bindings : handle[h].generation > retired

\* The snapshot never falls behind what was bound to it: no binding is of a
\* generation still to come, and a reopened target is past what it retired.
SnapshotAhead ==
    /\ \A h \in bindings : handle[h].generation <= snapGen
    /\ retired # None => retired < snapGen

\* What the proofs carry from state to state.
AdmissionInv ==
    /\ AdmissionTypeOK
    /\ BindingsAreLive
    /\ ClosedCoversBindings
    /\ NoRetiredWorkWhenOpen
    /\ SnapshotAhead

\* A promoted session leaves the binding table of a closed target only once
\* its reaper has confirmed the teardown: reopen cannot admit the next
\* incarnation beside a backend, lease or guard that is still held.
PromotedLeavesClosedReaped ==
    [][\A h \in Handles :
         (/\ h \in bindings /\ h \notin bindings'
          /\ state[h] = "promoted" /\ closedAt # None) => h \in reaped]_avars

\* How far a handle is in the life that IncarnationFence describes.
FenceStatus(h) ==
    CASE state[h] = "none" -> "idle"
      [] state[h] \in LiveStates -> IF h \in cancelled THEN "fenced" ELSE "live"
      [] state[h] = "completed" -> "succeeded"
      [] OTHER -> "dropped"

Fence == INSTANCE IncarnationFence WITH
    Work <- Handles,
    open <- closedAt = None,
    floor <- IF closedAt = None THEN retired ELSE closedAt,
    status <- [h \in Handles |-> FenceStatus(h)],
    incarnation <- [h \in Handles |-> handle[h].generation]

\* Every behaviour of the service is one of the incarnation fence: fenced work
\* never succeeds, nothing starts on a retired incarnation, and a closed target
\* opens again only when the work it fenced is gone.
ImplementsFence == Fence!FenceSpec

=============================================================================
