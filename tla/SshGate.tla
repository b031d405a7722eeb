------------------------------ MODULE SshGate ------------------------------
(***************************************************************************)
(* The execution-state gate between the stop-capable controller, which     *)
(* halts and resumes the kernel (debug/policy.py, debug/session_state.py,  *)
(* transport/handlers.py), and the ssh work admitted on the same target:   *)
(* target.run_tests (target/test_handler.py) and debug.introspect          *)
(* (introspect/runner.py), through the Layer-4 probe                       *)
(* (coordination/exec_probe.py) and the admission service.                 *)
(*                                                                         *)
(* An ssh operation is identified with the AdmissionHandle it registers.   *)
(* The stop-capable session itself is its durable record; how it is opened *)
(* and closed is the subject of Transaction.                               *)
(***************************************************************************)
EXTENDS Admission

CONSTANTS
    Halters,      \* tool calls that halt the stop-capable session
    Resumers,     \* tool calls that resume it
    Kinds,        \* the operations that are called: "run_tests", "introspect"
    Published,    \* target states that boots publish
    Serial,       \* the server's synchronous tools: one call at a time
    StoreFails    \* the operations whose manifest or workspace write may raise

Controllers == Halters \cup Resumers

ASSUME SshGateAssumption ==
    /\ Kinds \subseteq {"run_tests", "introspect"}
    /\ Published \subseteq TargetStates
    /\ Serial \in BOOLEAN
    /\ StoreFails \subseteq Kinds

VARIABLES
    kernel,     \* "running", or "stopped" in the debugger
    record,     \* the durable session record's generation and execution_state
    ctl,        \* ctl[c]: where the controller call c is
    copy,       \* copy[c]: the generation of the record c works from
    haltEpoch,  \* haltEpoch[c]: what note_execution_transition returned to c
    pc,         \* pc[h]: where the ssh operation h is
    proof,      \* proof[h]: the ExecutionProof it assembles
    kind,       \* kind[h]: which operation it is
    spanned,    \* history: operations in flight when a transition was noted
    overHalt,   \* history: operations bound while the last noted transition was a halt
    shut,       \* history: operations bound when the lifecycle closed admission
    lastNote    \* history: the last noted transition

cvars == <<kernel, record, ctl, copy, haltEpoch>>
ovars == <<pc, proof, kind>>
hvars == <<spanned, overHalt, shut, lastNote>>
vars == <<avars, cvars, ovars, hvars>>

NoSession == [gen |-> None, exec |-> "unknown"]
NoProof == [generation |-> None, epoch |-> 0, state |-> "unknown"]

Init ==
    /\ AdmissionInit
    /\ kernel = "running"
    /\ record = NoSession
    /\ ctl = [c \in Controllers |-> "idle"]
    /\ copy = [c \in Controllers |-> None]
    /\ haltEpoch = [c \in Controllers |-> 0]
    /\ pc = [h \in Handles |-> "idle"]
    /\ proof = [h \in Handles |-> NoProof]
    /\ kind \in [Handles -> Kinds]
    /\ spanned = {} /\ overHalt = {} /\ shut = {} /\ lastNote = "resume"

\* A tool call may start: unless calls are served one at a time, always.
CallMayStart ==
    Serial => /\ \A c \in Controllers : ctl[c] = "idle"
              /\ \A h \in Handles : pc[h] \in {"idle", "refused", "done"}

-----------------------------------------------------------------------------
(* The target and its stop-capable session                                  *)

Boot(g, s) ==
    /\ CallMayStart
    /\ PublishSnapshot(g, s)
    /\ kernel' = IF g = snapGen THEN kernel ELSE "running"
    /\ UNCHANGED <<record, ctl, copy, haltEpoch, ovars, hvars>>

\* The committed open(), with an EXECUTING record.
SessionOpened ==
    /\ CallMayStart
    /\ CanAdmit(snapGen)
    /\ record = NoSession
    /\ record' = [gen |-> snapGen, exec |-> "executing"]
    /\ UNCHANGED <<avars, kernel, ctl, copy, haltEpoch, ovars, hvars>>

\* close(): the record goes; a kernel it leaves stopped is Transaction's subject.
SessionClosed ==
    /\ CallMayStart
    /\ record # NoSession /\ kernel = "running"
    /\ record' = NoSession
    /\ UNCHANGED <<avars, kernel, ctl, copy, haltEpoch, ovars, hvars>>

Invalidate(g) ==
    /\ CloseAdmission(g)
    /\ shut' = shut \cup bindings
    /\ UNCHANGED <<cvars, ovars, spanned, overHalt, lastNote>>

ReopenAdmission == Reopen /\ UNCHANGED <<cvars, ovars, hvars>>

-----------------------------------------------------------------------------
(* The controller                                                           *)

CtlGoto(c, from, to) == ctl[c] = from /\ ctl' = [ctl EXCEPT ![c] = to]

\* write_record of a copy of the session, of generation g, with another execution_state.
WriteExec(g, e) == record' = [gen |-> g, exec |-> e]

\* The call returns and its locals go.
CtlReturn(c, from) ==
    /\ CtlGoto(c, from, "idle")
    /\ copy' = [copy EXCEPT ![c] = None]
    /\ UNCHANGED haltEpoch

\* halt_debug_transport, first of all by transport.inject_break and by the attach
\* of debug.start_session: HALTED is recorded before anything stops.
HaltWrite(c) ==
    /\ CallMayStart
    /\ c \in Halters /\ record # NoSession
    /\ CtlGoto(c, "idle", "noting")
    /\ copy' = [copy EXCEPT ![c] = record.gen]
    /\ WriteExec(record.gen, "halted")
    /\ UNCHANGED <<avars, kernel, haltEpoch, ovars, hvars>>

\* note_execution_transition at the session's generation: a stale one returns the
\* epoch as it is.
Note(c, transition) ==
    \/ /\ NoteExecutionTransition(copy[c])
       /\ spanned' = spanned \cup bindings
       /\ lastNote' = transition
       /\ overHalt' = IF transition = "halt" THEN overHalt \cup bindings ELSE overHalt
       /\ UNCHANGED shut
    \/ /\ ~GenerationCurrent(copy[c])
       /\ UNCHANGED <<avars, hvars>>

\* Mutant of HaltNote: the controller stops the kernel without cancel_ssh_tier.
HaltNoteNoCancel(c) ==
    /\ CtlGoto(c, "noting", "stopping")
    /\ Note(c, "halt")
    /\ haltEpoch' = [haltEpoch EXCEPT ![c] = execEpoch']
    /\ UNCHANGED <<kernel, record, copy, ovars>>

HaltNote(c) ==
    /\ CtlGoto(c, "noting", "cancelling")
    /\ Note(c, "halt")
    /\ haltEpoch' = [haltEpoch EXCEPT ![c] = execEpoch']
    /\ UNCHANGED <<kernel, record, copy, ovars>>

HaltCancel(c) ==
    /\ CtlGoto(c, "cancelling", "stopping")
    /\ \/ CancelSshTier(copy[c], haltEpoch[c])
       \/ ~GenerationCurrent(copy[c]) /\ UNCHANGED avars
    /\ haltEpoch' = [haltEpoch EXCEPT ![c] = 0]
    /\ UNCHANGED <<kernel, record, copy, ovars, hvars>>

\* The debugger attaches, or the break is confirmed: the kernel is stopped.
Stop(c) ==
    /\ CtlReturn(c, "stopping")
    /\ kernel' = IF GenerationCurrent(copy[c]) THEN "stopped" ELSE kernel
    /\ UNCHANGED <<avars, record, ovars, hvars>>

\* inject_break fails or is not confirmed: UNKNOWN is recorded, whatever the
\* kernel really did.
BreakUnconfirmed(c) ==
    /\ CtlReturn(c, "stopping")
    /\ kernel' \in IF GenerationCurrent(copy[c]) THEN {kernel, "stopped"} ELSE {kernel}
    /\ WriteExec(copy[c], "unknown")
    /\ UNCHANGED <<avars, ovars, hvars>>

\* resume_debug_transport, once force_resume let the kernel go.
ResumeKernel(c) ==
    /\ CallMayStart
    /\ c \in Resumers /\ record # NoSession
    /\ CtlGoto(c, "idle", "resuming")
    /\ copy' = [copy EXCEPT ![c] = record.gen]
    /\ kernel' = "running"
    /\ UNCHANGED <<avars, record, haltEpoch, ovars, hvars>>

ResumeWrite(c) ==
    /\ CtlGoto(c, "resuming", "resumed")
    /\ WriteExec(copy[c], "executing")
    /\ UNCHANGED <<avars, kernel, copy, haltEpoch, ovars, hvars>>

ResumeNote(c) ==
    /\ CtlReturn(c, "resumed")
    /\ Note(c, "resume")
    /\ UNCHANGED <<kernel, record, ovars>>

ControllerStep(c) ==
    \/ HaltWrite(c) \/ HaltNote(c) \/ HaltCancel(c) \/ Stop(c) \/ BreakUnconfirmed(c)
    \/ ResumeKernel(c) \/ ResumeWrite(c) \/ ResumeNote(c)

-----------------------------------------------------------------------------
(* An ssh operation                                                         *)

OpGoto(h, from, to) == pc[h] = from /\ pc' = [pc EXCEPT ![h] = to]

\* require_target_snapshot / current_snapshot
OpSnapshot(h) ==
    /\ CallMayStart
    /\ snapGen # None
    /\ OpGoto(h, "idle", "record")
    /\ proof' = [proof EXCEPT ![h].generation = snapGen]
    /\ UNCHANGED <<avars, cvars, kind, hvars>>

\* probe_execution_state: the record first, no record is UNKNOWN, ...
ProbeRecord(h) ==
    /\ OpGoto(h, "record", "epoch")
    /\ proof' = [proof EXCEPT ![h].state = record.exec]
    /\ UNCHANGED <<avars, cvars, kind, hvars>>

\* ... then the epoch.  run_tests looks at the proof itself, introspect leaves
\* that to admit_ssh_tier.
RefusesProof(h) == kind[h] = "run_tests" /\ proof[h].state = "halted"

ProbeEpoch(h) ==
    /\ OpGoto(h, "epoch", IF RefusesProof(h) THEN "refused" ELSE "probed")
    /\ proof' = [proof EXCEPT ![h] = IF RefusesProof(h) THEN NoProof ELSE [@ EXCEPT !.epoch = execEpoch]]
    /\ UNCHANGED <<avars, cvars, kind, hvars>>

OpAdmit(h) ==
    /\ \/ /\ AdmitSshTier(h, proof[h].generation, proof[h])
          /\ OpGoto(h, "probed", "admitted")
          /\ overHalt' = IF lastNote = "halt" THEN overHalt \cup {h} ELSE overHalt
       \/ /\ ~CanAdmitSshTier(proof[h].generation, proof[h])
          /\ OpGoto(h, "probed", "refused")
          /\ UNCHANGED <<avars, overHalt>>
    /\ proof' = [proof EXCEPT ![h] = NoProof]
    /\ UNCHANGED <<cvars, kind, spanned, shut, lastNote>>

\* run_tests records its RUNNING step, introspect prepares its workspace.
OpPrepare(h) ==
    /\ OpGoto(h, "admitted", "running")
    /\ UNCHANGED <<avars, cvars, proof, kind, hvars>>

\* That write raises: introspect rolls the handle back, run_tests is outside its try.
OpPrepareFails(h) ==
    /\ kind[h] \in StoreFails
    /\ OpGoto(h, "admitted", IF kind[h] = "run_tests" THEN "done" ELSE "rollback")
    /\ UNCHANGED <<avars, cvars, proof, kind, hvars>>

\* The ssh command ends: it was answered, the watcher saw the cancel fence and
\* killed it, or its timeout expired.
OpEnds(h) ==
    /\ OpGoto(h, "running", "finished")
    /\ UNCHANGED <<avars, cvars, proof, kind, hvars>>

\* The runner raises.
OpRaises(h) ==
    /\ OpGoto(h, "running", "rollback")
    /\ UNCHANGED <<avars, cvars, proof, kind, hvars>>

\* Mutant of OpComplete: a refused complete() is tried again.
OpCompleteRetries(h) ==
    /\ Complete(h) /\ OpGoto(h, "finished", "done")
    /\ UNCHANGED <<cvars, proof, kind, hvars>>

OpComplete(h) ==
    /\ \/ Complete(h) /\ OpGoto(h, "finished", "done")
       \/ ~CanComplete(h) /\ OpGoto(h, "finished", "rollback") /\ UNCHANGED avars
    /\ UNCHANGED <<cvars, proof, kind, hvars>>

\* The failure path's rollback, its own error suppressed.
OpRollback(h) ==
    /\ OpGoto(h, "rollback", "done")
    /\ \/ Rollback(h)
       \/ ~CanRollback(h) /\ UNCHANGED avars
    /\ UNCHANGED <<cvars, proof, kind, hvars>>

OpStep(h) ==
    \/ ProbeRecord(h) \/ ProbeEpoch(h) \/ OpAdmit(h) \/ OpPrepare(h) \/ OpPrepareFails(h)
    \/ OpEnds(h) \/ OpRaises(h) \/ OpComplete(h) \/ OpRollback(h)

Next ==
    \/ \E g \in Generations :
         \/ \E s \in Published : Boot(g, s)
         \/ g <= snapGen /\ Invalidate(g)
    \/ SessionOpened \/ SessionClosed \/ ReopenAdmission
    \/ \E c \in Controllers : ControllerStep(c)
    \/ \E h \in Handles : OpSnapshot(h) \/ OpStep(h)

Spec == Init /\ [][Next]_vars

\* An operation that was started goes on; requests and halts are the environment's.
FairSpec == Spec /\ \A h \in Handles : WF_vars(OpStep(h))

-----------------------------------------------------------------------------
(* Properties                                                               *)

\* The types of the gate's state.
SshTypeOK ==
    /\ kernel \in {"running", "stopped"}
    /\ record \in [gen : Generations \cup {None}, exec : ExecutionStates]
    /\ ctl \in [Controllers -> {"idle", "noting", "cancelling", "stopping", "resuming",
                                "resumed"}]
    /\ copy \in [Controllers -> Generations \cup {None}]
    /\ haltEpoch \in [Controllers -> 0..MaxEpoch]
    /\ pc \in [Handles -> {"idle", "record", "epoch", "probed", "refused", "admitted",
                           "running", "finished", "rollback", "done"}]
    /\ proof \in [Handles -> [generation : Generations \cup {None}, epoch : 0..MaxEpoch,
                              state : ExecutionStates]]
    /\ kind \in [Handles -> Kinds]
    /\ spanned \cup overHalt \cup shut \subseteq Handles
    /\ lastNote \in {"resume", "halt"}

\* An operation in flight across a noted transition never reports success, even
\* if the cancel of the halt has not reached it.
NoSuccessAcrossTransition == \A h \in spanned : state[h] # "completed"

\* Only the lifecycle and a halt that was in force while the operation was bound
\* cancel it: a delayed cancel spares what was admitted after the resume.
CancelOnlyUnderHalt == cancelled \subseteq overHalt \cup shut

\* The kernel never stops, with a halt as the last noted transition, under an
\* operation of its incarnation that a noted transition caught in flight and that
\* has not been told, unless the controller of a second halt is about to tell it.
StopsOnlyFencedWork ==
    [][kernel = "running" /\ kernel' = "stopped" /\ lastNote = "halt" =>
         \A h \in spanned \cap bindings :
            handle[h].generation = snapGen =>
               h \in cancelled \/ \E c \in Controllers : ctl[c] = "cancelling"]_vars

\* An admitted operation leaves the binding table, whatever halts, resumes,
\* reboots and invalidations come its way.
OpsDrain == \A h \in Handles : h \in bindings ~> h \notin bindings

\* What the session-guard decision says of admit_ssh_tier: it refuses a target
\* recorded as HALTED.
HaltedAdmitsNoSsh ==
    record.exec = "halted" /\ (\A c \in Controllers : ctl[c] = "idle") =>
        \A h \in bindings : h \in cancelled

=============================================================================
