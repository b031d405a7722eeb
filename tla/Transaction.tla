---------------------------- MODULE Transaction ----------------------------
(***************************************************************************)
(* The open/close transaction of a transport session                       *)
(* (coordination/transaction.py) over the admission service, the durable   *)
(* session registry (registry.py), the stop-capable guard (guard.py), the  *)
(* console lease (lease.py) and the lifecycle dispatcher (lifecycle.py),   *)
(* for one target.                                                         *)
(*                                                                         *)
(* A session is identified with the AdmissionHandle its open() registers.  *)
(* Each call on a shared component is one step; open(), close(), the       *)
(* subscriber's teardown and the restart's reconcile() are threads with a  *)
(* program counter, so that calls of different threads interleave and the  *)
(* server may die between any two of them.                                 *)
(***************************************************************************)
EXTENDS Admission

CONSTANTS
    Nobody,     \* no holder
    Proxied,    \* sessions whose transport owns a console and spawns a backend process
    Serial,     \* the server's synchronous tools: one open() or close() at a time
    Faults      \* which environment events a run lets happen, of FaultKinds

FaultKinds == {"open_error", "clear_error", "close_error", "write_error", "reap_error",
               "overdue", "halt", "invalidate", "late_emit", "reopen", "close", "crash"}

ASSUME TransactionAssumption ==
    /\ Nobody \notin Handles
    /\ Proxied \subseteq Handles
    /\ Serial \in BOOLEAN
    /\ Faults \subseteq FaultKinds

VARIABLES
    pc,           \* pc[s]: where the open() of s is, then whether s is open or over
    cpc,          \* cpc[s]: where the close() of s is
    vpc,          \* vpc[s]: where the lifecycle teardown of s is
    copy,         \* copy[s]: the record close() found, with its force flag
    guard,        \* holder of the StopCapableGuard
    lease,        \* holder of the ConsoleLease
    tokens,       \* sessions with a GuardToken in _tokens
    table,        \* sessions with a handle in _handles
    subscribers,  \* sessions subscribed to the dispatcher
    killed,       \* subscribers whose _killed is set
    emitting,     \* an invalidate_lifecycle is between its two steps
    record,       \* the durable owner record of the target, or NoRecord
    tombFile,     \* generation of the durable tombstone, or None
    booted,       \* boot attempts in the durable run manifest
    backend,      \* sessions whose backend process is alive
    server,       \* "up", or how far the restart is
    forced,       \* history: sessions dropped by force_release, the backend not touched
    stranded,     \* history: backends whose kill failed or whose pid was never recorded
    parked,       \* history: generation whose record said HALTED when its owner went, or None
    unmarked      \* history: generations left halted without a tombstone: the write of
                  \* close() failed, or force_release dropped a record that said HALTED

threads == <<pc, cpc, vpc, copy>>
lines == <<guard, lease, tokens>>
session == <<table, subscribers, killed, emitting>>
durable == <<record, tombFile, booted>>
world == <<backend, server, forced, stranded, parked, unmarked>>
tvars == <<threads, lines, session, durable, world>>
vars == <<avars, tvars>>

NoRecord == [owner |-> Nobody]

\* execution_state UNKNOWN is treated as HALTED by close() and reconcile().
Phases == {"opening", "ready", "closing"}
ExecStates == {"executing", "halted"}
Records == [owner : Handles, phase : Phases, exec : ExecStates, pid : BOOLEAN,
            gen : Generations]

\* _record_by_session_id, and the fence of delete_record.
OwnsRecord(s) == record # NoRecord /\ record.owner = s

\* Mutant of Released: the release is not fenced by the token.
ReleasedUnfenced(holder, s) == Nobody

\* ConsoleLease.release and InProcessStopCapableGuard.release are fenced: a
\* token that is not the holder's releases nothing.
Released(holder, s) == IF holder = s THEN Nobody ELSE holder

Init ==
    /\ AdmissionInit
    /\ pc = [s \in Handles |-> "idle"]
    /\ cpc = [s \in Handles |-> "none"]
    /\ vpc = [s \in Handles |-> "none"]
    /\ copy = [s \in Handles |-> [exec |-> "executing", pid |-> FALSE, force |-> FALSE]]
    /\ guard = Nobody /\ lease = Nobody
    /\ tokens = {} /\ table = {} /\ subscribers = {} /\ killed = {}
    /\ emitting = FALSE
    /\ record = NoRecord /\ tombFile = None /\ booted = 0
    /\ backend = {} /\ forced = {} /\ stranded = {} /\ parked = None
    /\ unmarked = {}
    /\ server = "up"

-----------------------------------------------------------------------------
(* open()                                                                   *)

Goto(s, from, to) == pc[s] = from /\ pc' = [pc EXCEPT ![s] = to]

\* A tool call may start: unless calls are served one at a time, always.
CallMayStart ==
    Serial => \A t \in Handles : /\ pc[t] \in {"idle", "open", "failed", "closed", "dead"}
                                 /\ cpc[t] \in {"none", "done"}

OpenAdmit(s, g) ==
    /\ CallMayStart
    /\ Goto(s, "idle", "admitted")
    /\ Admit(s, g) \/ AdmitRecovery(s, g)
    /\ UNCHANGED <<cpc, vpc, copy, lines, session, durable, world>>

\* A held line makes acquire() raise.
OpenGuard(s) ==
    /\ \/ guard = Nobody /\ guard' = s /\ Goto(s, "admitted", "guarded")
       \/ guard # Nobody /\ Goto(s, "admitted", "rb_lines") /\ UNCHANGED guard
    /\ UNCHANGED <<avars, cpc, vpc, copy, lease, tokens, session, durable, world>>

OpenLease(s) ==
    /\ \/ s \notin Proxied /\ Goto(s, "guarded", "leased") /\ UNCHANGED lease
       \/ s \in Proxied /\ lease = Nobody /\ lease' = s /\ Goto(s, "guarded", "leased")
       \/ s \in Proxied /\ lease # Nobody /\ Goto(s, "guarded", "rb_lines") /\ UNCHANGED lease
    /\ UNCHANGED <<avars, cpc, vpc, copy, guard, tokens, session, durable, world>>

\* write_record: an atomic replacement, whoever owned the file before.
WriteOwn(s, phase, pid) ==
    /\ record' = [owner |-> s, phase |-> phase, exec |-> "executing", pid |-> pid,
                  gen |-> handle[s].generation]
    /\ UNCHANGED <<tombFile, booted>>

OpenRecord(s) ==
    /\ Goto(s, "leased", "recorded")
    /\ tokens' = tokens \cup {s}
    /\ WriteOwn(s, "opening", FALSE)
    /\ UNCHANGED <<avars, cpc, vpc, copy, guard, lease, session, world>>

\* attach(): the process starts, then on_partial writes its pid through.
OpenSpawn(s) ==
    /\ s \in Proxied
    /\ Goto(s, "recorded", "spawned")
    /\ backend' = backend \cup {s}
    /\ UNCHANGED <<avars, cpc, vpc, copy, lines, session, durable, server, stranded, parked,
                   unmarked, forced>>

\* Mutant of OpenPartial: on_partial does not write the pid through.
OpenPartialNoPid(s) ==
    /\ Goto(s, "spawned", "attached")
    /\ UNCHANGED <<avars, cpc, vpc, copy, lines, session, durable, world>>

OpenPartial(s) ==
    /\ Goto(s, "spawned", "attached")
    /\ WriteOwn(s, "opening", TRUE)
    /\ UNCHANGED <<avars, cpc, vpc, copy, lines, session, world>>

OpenReady(s) ==
    /\ \/ Goto(s, "attached", "ready")
       \/ s \notin Proxied /\ Goto(s, "recorded", "ready")
    /\ WriteOwn(s, "ready", s \in Proxied)
    /\ UNCHANGED <<avars, cpc, vpc, copy, lines, session, world>>

\* _commit_open_session: promote, register and subscribe in one hold of the key
\* lock; a cancelled handle is refused and the open unwinds.
OpenCommit(s) ==
    /\ \/ /\ Promote(s)
          /\ Goto(s, "ready", IF handle[s].recovery THEN "clearing" ELSE "open")
          /\ table' = table \cup {s}
          /\ subscribers' = subscribers \cup {s}
          /\ killed' = IF s \in Proxied THEN killed ELSE killed \cup {s}
       \/ /\ ~CanPromote(s)
          /\ Goto(s, "ready", "rb_reap")
          /\ UNCHANGED <<avars, table, subscribers, killed>>
    /\ UNCHANGED <<cpc, vpc, copy, lines, emitting, durable, world>>

\* A recovery attach clears the tombstone, the durable one first.
OpenClearDurable(s) ==
    /\ Goto(s, "clearing", "uncaching")
    /\ tombFile' = IF tombFile = handle[s].generation THEN None ELSE tombFile
    /\ parked' = IF parked = handle[s].generation THEN None ELSE parked
    /\ UNCHANGED <<avars, cpc, vpc, copy, lines, session, record, booted, backend,
                   server, stranded, unmarked, forced>>

OpenClearCache(s) ==
    /\ Goto(s, "uncaching", "open")
    /\ \/ ClearRecoveryRequired(handle[s].generation)
       \/ tombstone # handle[s].generation /\ UNCHANGED avars
    /\ UNCHANGED <<cpc, vpc, copy, lines, session, durable, world>>

\* Mutant of Unwind: a failed attach leaves the OPENING record behind.
UnwindRecordKept ==
    [admitted |-> "rb_lines", leased |-> "rb_lines", recorded |-> "rb_lines",
     spawned |-> "rb_check", attached |-> "rb_reap", clearing |-> "rb_reap"]

\* Break-plan selection, secret resolution, attach, the loopback check, a record
\* write or the durable clearance raises; what is undone is what was reached.  A
\* process whose pid could not be written through is reaped by its spawner.
Unwind == [admitted |-> "rb_lines", leased |-> "rb_lines", recorded |-> "rb_check",
           spawned |-> "rb_check", attached |-> "rb_reap", clearing |-> "rb_reap"]

OpenFail(s) ==
    /\ pc[s] \in DOMAIN Unwind
    /\ (IF pc[s] = "clearing" THEN "clear_error" ELSE "open_error") \in Faults
    /\ pc' = [pc EXCEPT ![s] = Unwind[pc[s]]]
    /\ tokens' \in IF pc[s] = "leased" THEN {tokens, tokens \cup {s}} ELSE {tokens}
    /\ backend' = IF pc[s] = "spawned" THEN backend \ {s} ELSE backend
    /\ UNCHANGED <<avars, cpc, vpc, copy, guard, lease, session, durable, server,
                   stranded, parked, unmarked, forced>>

\* _best_effort_reap: a failure is logged and the caller goes on.
BestEffortReap(s) ==
    /\ \/ backend' = backend \ {s} /\ stranded' = stranded \ {s}
       \/ /\ "reap_error" \in Faults /\ s \in backend
          /\ stranded' = stranded \cup {s} /\ UNCHANGED backend
    /\ UNCHANGED <<server, parked, unmarked, forced>>

\* _rollback, in reverse order of acquisition; lease and guard go together.
RollbackReap(s) ==
    /\ Goto(s, "rb_reap", "rb_check")
    /\ BestEffortReap(s)
    /\ UNCHANGED <<avars, cpc, vpc, copy, lines, session, durable>>

\* delete_record reads the owner and unlinks the file in two steps, so that a
\* record written in between is erased.
RollbackCheck(s) ==
    /\ Goto(s, "rb_check", IF OwnsRecord(s) THEN "rb_unlink" ELSE "rb_lines")
    /\ tokens' = tokens \ {s}
    /\ table' = table \ {s}
    /\ UNCHANGED <<avars, cpc, vpc, copy, guard, lease, subscribers, killed,
                   emitting, durable, world>>

Unlink ==
    /\ record' = NoRecord
    /\ UNCHANGED <<tombFile, booted>>

RollbackUnlink(s) ==
    /\ Goto(s, "rb_unlink", "rb_lines")
    /\ Unlink
    /\ UNCHANGED <<avars, cpc, vpc, copy, lines, session, world>>

RollbackLines(s) ==
    /\ Goto(s, "rb_lines", "rb_admission")
    /\ subscribers' = subscribers \ {s}
    /\ lease' = Released(lease, s)
    /\ guard' = Released(guard, s)
    /\ UNCHANGED <<avars, cpc, vpc, copy, tokens, table, killed, emitting, durable, world>>

RollbackAdmission(s) ==
    /\ Goto(s, "rb_admission", "failed")
    /\ \/ Rollback(s)
       \/ ~CanRollback(s) /\ UNCHANGED avars
    /\ UNCHANGED <<cpc, vpc, copy, lines, session, durable, world>>

OpenStep(s) ==
    \/ OpenGuard(s) \/ OpenLease(s) \/ OpenRecord(s) \/ OpenSpawn(s) \/ OpenPartial(s)
    \/ OpenReady(s) \/ OpenCommit(s) \/ OpenClearDurable(s) \/ OpenClearCache(s)
    \/ OpenFail(s)
    \/ RollbackReap(s) \/ RollbackCheck(s) \/ RollbackUnlink(s) \/ RollbackLines(s)
    \/ RollbackAdmission(s)

-----------------------------------------------------------------------------
(* The debugger's halt and resume, close() and force_release()              *)

\* halt_debug_transport / resume_debug_transport: the record's execution state.
Halt(s) ==
    /\ "halt" \in Faults
    /\ CallMayStart
    /\ pc[s] = "open" /\ cpc[s] = "none" /\ OwnsRecord(s)
    /\ \E e \in ExecStates : record' = [record EXCEPT !.exec = e]
    /\ UNCHANGED <<avars, threads, lines, session, tombFile, booted, world>>

CloseGoto(s, from, to) == cpc[s] = from /\ cpc' = [cpc EXCEPT ![s] = to]

\* close() works from the record it found; an unknown session is a no-op.
CloseFind(s, force) ==
    /\ "close" \in Faults
    /\ CallMayStart
    /\ pc[s] = "open"
    /\ OwnsRecord(s)
    /\ CloseGoto(s, "none", "found")
    /\ copy' = [copy EXCEPT ![s] = [exec |-> record.exec, pid |-> record.pid,
                                    force |-> force]]
    /\ UNCHANGED <<avars, pc, vpc, lines, session, durable, world>>

CloseWrite(s) ==
    /\ CloseGoto(s, "found", "closing")
    /\ record' = [owner |-> s, phase |-> "closing", exec |-> copy[s].exec,
                  pid |-> copy[s].pid, gen |-> handle[s].generation]
    /\ UNCHANGED <<avars, pc, vpc, copy, lines, session, tombFile, booted, world>>

\* The CLOSING write raises out of close().
CloseWriteFail(s) ==
    /\ "write_error" \in Faults
    /\ CloseGoto(s, "found", "raised")
    /\ UNCHANGED <<avars, pc, vpc, copy, lines, session, durable, world>>

\* transport.close: its error is kept and the cleanup goes on.
CloseBackend(s) ==
    /\ CloseGoto(s, "closing", "lines")
    /\ \/ backend' = backend \ {s} /\ stranded' = stranded \ {s}
       \/ /\ "close_error" \in Faults /\ s \in backend
          /\ stranded' = stranded \cup {s} /\ UNCHANGED backend
    /\ UNCHANGED <<avars, pc, vpc, copy, lines, session, durable, server, parked,
                   unmarked, forced>>

LeavesHalted(s) == copy[s].exec = "halted" /\ ~copy[s].force

\* Lease, then the guard by the in-memory token, if it is still there.
DropLines(s) ==
    /\ lease' = Released(lease, s)
    /\ guard' = IF s \in tokens THEN Released(guard, s) ELSE guard
    /\ tokens' = tokens \ {s}

CloseLines(s) ==
    /\ CloseGoto(s, "lines", "complete")
    /\ DropLines(s)
    /\ parked' = IF LeavesHalted(s) /\ handle[s].generation >= parked
                 THEN handle[s].generation ELSE parked
    /\ unmarked' = IF LeavesHalted(s) THEN unmarked \ {handle[s].generation} ELSE unmarked
    /\ UNCHANGED <<avars, pc, vpc, copy, session, durable, backend, server, stranded, forced>>

\* Mutant of CloseComplete: the handle is dropped without complete().
CloseNoComplete(s) ==
    /\ CloseGoto(s, "complete", IF LeavesHalted(s) THEN "tomb" ELSE "check")
    /\ table' = table \ {s}
    /\ UNCHANGED <<avars, pc, vpc, copy, lines, subscribers, killed, emitting, durable, world>>

\* Mutant of CloseComplete: no tombstone is left for a halted kernel.
CloseNoTombstone(s) ==
    /\ CloseGoto(s, "complete", "check")
    /\ \/ s \in table /\ Complete(s)
       \/ (s \notin table \/ ~CanComplete(s)) /\ UNCHANGED avars
    /\ table' = table \ {s}
    /\ UNCHANGED <<pc, vpc, copy, lines, subscribers, killed, emitting, durable, world>>

CloseComplete(s) ==
    /\ CloseGoto(s, "complete", IF LeavesHalted(s) THEN "tomb" ELSE "check")
    /\ \/ s \in table /\ Complete(s)
       \/ (s \notin table \/ ~CanComplete(s)) /\ UNCHANGED avars
    /\ table' = table \ {s}
    /\ UNCHANGED <<pc, vpc, copy, lines, subscribers, killed, emitting, durable, world>>

\* _mark_recovery: the durable tombstone, then the admission cache.  A write that
\* fails is kept for the report; the cache is not marked and the cleanup goes on.
CloseTombFile(s) ==
    /\ \/ /\ CloseGoto(s, "tomb", "mark")
          /\ tombFile' = handle[s].generation
          /\ UNCHANGED unmarked
       \/ /\ "write_error" \in Faults
          /\ CloseGoto(s, "tomb", "check")
          /\ unmarked' = unmarked \cup {handle[s].generation}
          /\ UNCHANGED tombFile
    /\ UNCHANGED <<avars, pc, vpc, copy, lines, session, record, booted, backend, server,
                   forced, stranded, parked>>

CloseMark(s) ==
    /\ CloseGoto(s, "mark", "check")
    /\ \/ MarkRecoveryRequired(handle[s].generation)
       \/ handle[s].generation < tombstone /\ UNCHANGED avars
    /\ UNCHANGED <<pc, vpc, copy, lines, session, durable, world>>

CloseCheck(s) ==
    /\ CloseGoto(s, "check", IF OwnsRecord(s) THEN "unlink" ELSE "unsubscribe")
    /\ UNCHANGED <<avars, pc, vpc, copy, lines, session, durable, world>>

CloseUnlink(s) ==
    /\ CloseGoto(s, "unlink", "unsubscribe")
    /\ Unlink
    /\ UNCHANGED <<avars, pc, vpc, copy, lines, session, world>>

\* Mutant of CloseUnsubscribe: the closed session keeps receiving events.
CloseStaysSubscribed(s) ==
    /\ CloseGoto(s, "unsubscribe", "done")
    /\ pc' = [pc EXCEPT ![s] = "closed"]
    /\ UNCHANGED <<avars, vpc, copy, lines, session, durable, world>>

CloseUnsubscribe(s) ==
    /\ CloseGoto(s, "unsubscribe", "done")
    /\ pc' = [pc EXCEPT ![s] = "closed"]
    /\ subscribers' = subscribers \ {s}
    /\ UNCHANGED <<avars, vpc, copy, lines, table, killed, emitting, durable, world>>

\* SessionGuard.teardown after a close() that raised: a record that still says
\* HALTED is forced out, anything else, UNKNOWN included, leaves the session as it is.
TeardownVerify(s) ==
    /\ \/ /\ record # NoRecord /\ record.exec = "halted"
          /\ CloseGoto(s, "raised", "fr_lines")
       \/ CloseGoto(s, "raised", "none")
    /\ UNCHANGED <<avars, pc, vpc, copy, lines, session, durable, world>>

\* The record that force_release deletes says HALTED, and nothing is written instead.
ParkUnmarked ==
    IF record.exec = "halted"
    THEN /\ parked' = IF record.gen >= parked THEN record.gen ELSE parked
         /\ unmarked' = unmarked \cup {record.gen}
    ELSE UNCHANGED <<parked, unmarked>>

\* force_release: the lines, unless there is no record to work from; then only
\* the in-memory token and handle are dropped.
ForceReleaseLines(s) ==
    /\ \/ /\ OwnsRecord(s)
          /\ CloseGoto(s, "fr_lines", "fr_confirm")
          /\ DropLines(s)
          /\ ParkUnmarked
          /\ UNCHANGED <<pc, table>>
       \/ /\ ~OwnsRecord(s)
          /\ CloseGoto(s, "fr_lines", "done")
          /\ pc' = [pc EXCEPT ![s] = "closed"]
          /\ tokens' = tokens \ {s}
          /\ table' = table \ {s}
          /\ UNCHANGED <<guard, lease, parked, unmarked>>
    /\ forced' = forced \cup {s}
    /\ UNCHANGED <<avars, vpc, copy, subscribers, killed, emitting, durable, backend,
                   server, stranded>>

ForceReleaseConfirm(s) ==
    /\ \/ /\ s \in table /\ ConfirmReaped(s)
          /\ CloseGoto(s, "fr_confirm", "fr_abandon")
       \/ /\ s \notin table \/ ~CanConfirmReaped(s)
          /\ CloseGoto(s, "fr_confirm", "check")
          /\ UNCHANGED avars
    /\ table' = table \ {s}
    /\ UNCHANGED <<pc, vpc, copy, lines, subscribers, killed, emitting, durable, world>>

ForceReleaseAbandon(s) ==
    /\ CloseGoto(s, "fr_abandon", "check")
    /\ \/ Abandon(s)
       \/ ~CanAbandon(s) /\ UNCHANGED avars
    /\ UNCHANGED <<pc, vpc, copy, lines, session, durable, world>>

CloseStep(s) ==
    \/ CloseWrite(s) \/ CloseWriteFail(s) \/ CloseBackend(s) \/ CloseLines(s)
    \/ CloseComplete(s) \/ CloseTombFile(s) \/ CloseMark(s) \/ CloseCheck(s)
    \/ CloseUnlink(s) \/ CloseUnsubscribe(s) \/ TeardownVerify(s)
    \/ ForceReleaseLines(s) \/ ForceReleaseConfirm(s) \/ ForceReleaseAbandon(s)

-----------------------------------------------------------------------------
(* Lifecycle invalidation                                                   *)

\* invalidate_lifecycle closes admission under the key lock, then emits.
Invalidate(g) ==
    /\ "invalidate" \in Faults
    /\ ~emitting
    /\ CloseAdmission(g)
    /\ emitting' = TRUE
    /\ UNCHANGED <<threads, lines, table, subscribers, killed, durable, world>>

\* emit waits for an earlier emit of the target, takes the subscribers of the
\* moment, skips the ones still wedged and starts a worker for each of the others.
Emit ==
    /\ emitting
    /\ \A s \in Handles : vpc[s] \in {"none", "done", "wedged"}
    /\ emitting' = FALSE
    /\ vpc' = [s \in Handles |-> IF s \in subscribers /\ vpc[s] # "wedged"
                                 THEN "reap" ELSE vpc[s]]
    /\ UNCHANGED <<avars, pc, cpc, copy, lines, table, subscribers, killed, durable, world>>

TeardownGoto(s, from, to) == vpc[s] = from /\ vpc' = [vpc EXCEPT ![s] = to]

\* invalidate: reap the backend, set _killed, force_drop.
TeardownReap(s, from) ==
    /\ TeardownGoto(s, from, "lines")
    /\ killed' = killed \cup {s}
    /\ BestEffortReap(s)
    /\ UNCHANGED <<avars, pc, cpc, copy, lines, table, subscribers, emitting, durable>>

\* The worker misses the deadline: the dispatcher calls force_drop itself, and
\* the wedged worker may still come to its end later, or never.
TeardownOverdue(s) ==
    /\ "overdue" \in Faults
    /\ s \in backend
    /\ TeardownGoto(s, "reap", "lines")
    /\ stranded' = stranded \cup {s}
    /\ UNCHANGED <<avars, pc, cpc, copy, lines, session, durable, backend, server, parked,
                   unmarked, forced>>

\* Mutant of ForceDropLines: force_drop does not revoke the console lease.
ForceDropKeepsLease(s) ==
    /\ TeardownGoto(s, "lines", "confirm")
    /\ guard' = Released(guard, s)
    /\ tokens' = tokens \ {s}
    /\ UNCHANGED <<avars, pc, cpc, copy, lease, session, durable, world>>

\* force_drop: lease, guard and token, then confirm_reaped and abandon with the
\* error logged, then the record if the kill has resolved, then unsubscribe.
ForceDropLines(s) ==
    /\ TeardownGoto(s, "lines", "confirm")
    /\ lease' = Released(lease, s)
    /\ guard' = Released(guard, s)
    /\ tokens' = tokens \ {s}
    /\ UNCHANGED <<avars, pc, cpc, copy, session, durable, world>>

\* Mutant of ForceDropConfirm: force_drop abandons without confirm_reaped.
ForceDropUnconfirmed(s) ==
    /\ TeardownGoto(s, "confirm", "abandon")
    /\ UNCHANGED <<avars, pc, cpc, copy, lines, session, durable, world>>

ForceDropConfirm(s) ==
    /\ \/ ConfirmReaped(s) /\ TeardownGoto(s, "confirm", "abandon")
       \/ ~CanConfirmReaped(s) /\ TeardownGoto(s, "confirm", "forget") /\ UNCHANGED avars
    /\ UNCHANGED <<pc, cpc, copy, lines, session, durable, world>>

ForceDropAbandon(s) ==
    /\ TeardownGoto(s, "abandon", "forget")
    /\ \/ Abandon(s)
       \/ ~CanAbandon(s) /\ UNCHANGED avars
    /\ UNCHANGED <<pc, cpc, copy, lines, session, durable, world>>

ForceDropCheck(s) ==
    /\ TeardownGoto(s, "forget", IF s \in killed /\ OwnsRecord(s)
                                 THEN "unlink" ELSE "unsubscribe")
    /\ table' = table \ {s}
    /\ UNCHANGED <<avars, pc, cpc, copy, lines, subscribers, killed, emitting, durable, world>>

ForceDropUnlink(s) ==
    /\ TeardownGoto(s, "unlink", "unsubscribe")
    /\ Unlink
    /\ UNCHANGED <<avars, pc, cpc, copy, lines, session, world>>

ForceDropUnsubscribe(s) ==
    /\ TeardownGoto(s, "unsubscribe", IF s \in killed THEN "done" ELSE "wedged")
    /\ subscribers' = subscribers \ {s}
    /\ UNCHANGED <<avars, pc, cpc, copy, lines, table, killed, emitting, durable, world>>

TeardownStep(s) ==
    \/ TeardownReap(s, "reap") \/ TeardownOverdue(s)
    \/ ForceDropLines(s) \/ ForceDropConfirm(s) \/ ForceDropAbandon(s)
    \/ ForceDropCheck(s) \/ ForceDropUnlink(s) \/ ForceDropUnsubscribe(s)

-----------------------------------------------------------------------------
(* Boots, the crash of the server, and reconcile()                          *)

\* target.boot publishes READY for the manifest's last attempt again, or for a
\* new one.
Boot(g) ==
    /\ g \in {booted, booted + 1} \cap Generations
    /\ PublishSnapshot(g, "ready")
    /\ booted' = g
    /\ UNCHANGED <<threads, lines, session, record, tombFile, world>>

\* Only a run with "late_emit" reopens while a close's events are still to come.
ReopenAdmission ==
    /\ "reopen" \in Faults
    /\ emitting => "late_emit" \in Faults
    /\ Reopen
    /\ UNCHANGED tvars

\* A new process starts with a new AdmissionService.
ForgetAdmission ==
    /\ snapGen' = None /\ snapState' = "nonlive"
    /\ closedAt' = None /\ tombstone' = None /\ execEpoch' = 0 /\ retired' = None
    /\ bindings' = {} /\ cancelled' = {} /\ reaped' = {}
    /\ handle' = [h \in Handles |-> [generation |-> None, admit_epoch |-> 0,
                                     op |-> "transport_open", recovery |-> FALSE]]
    /\ state' = [h \in Handles |-> "none"]

\* The server dies: memory is gone, the registry, the manifest and the backends
\* stay.  A backend whose pid has not reached the record is known to nobody.
Crash ==
    /\ "crash" \in Faults
    /\ server' = "tombstones"
    /\ ForgetAdmission
    /\ pc' = [s \in Handles |-> IF pc[s] = "idle" THEN "idle" ELSE "dead"]
    /\ cpc' = [s \in Handles |-> "none"]
    /\ vpc' = [s \in Handles |-> "none"]
    /\ guard' = Nobody /\ lease' = Nobody
    /\ tokens' = {} /\ table' = {} /\ subscribers' = {} /\ killed' = {}
    /\ emitting' = FALSE
    /\ stranded' = stranded \cup {s \in backend : pc[s] = "spawned"}
    /\ parked' = IF record # NoRecord /\ record.exec = "halted" /\ record.gen >= parked
                 THEN record.gen ELSE parked
    /\ unmarked' = IF record # NoRecord /\ record.exec = "halted"
                   THEN unmarked \ {record.gen} ELSE unmarked
    /\ UNCHANGED <<copy, durable, backend, forced>>

\* reconcile runs before any request: durable tombstones first.
ReconcileTombstones ==
    /\ server = "tombstones"
    /\ server' = "reap"
    /\ \/ tombFile # None /\ MarkRecoveryRequired(tombFile)
       \/ tombFile = None /\ UNCHANGED avars
    /\ UNCHANGED <<threads, lines, session, durable, backend, stranded, parked,
                   unmarked, forced>>

\* Then the record, if there is one: kill the backend it names, unless the
\* start-time fence cannot tell it from a foreign process, ...
ReconcileReap ==
    /\ server = "reap" /\ record # NoRecord
    /\ \/ /\ record.pid /\ record.owner \in backend
          /\ server' = "park_killed"
          /\ backend' = backend \ {record.owner}
          /\ stranded' = stranded \ {record.owner}
       \/ /\ ~(record.pid /\ record.owner \in backend) \/ "reap_error" \in Faults
          /\ server' = "park"
          /\ stranded' = stranded \cup {s \in backend : record.pid /\ record.owner = s}
          /\ UNCHANGED backend
    /\ UNCHANGED <<avars, threads, lines, session, durable, parked, unmarked, forced>>

\* Mutant of ReconcilePark: only the admission cache is marked.
ReconcileParkCacheOnly ==
    /\ server \in {"park_killed", "park"}
    /\ server' = IF server = "park_killed" THEN "notify" ELSE "delete"
    /\ \/ /\ record.exec = "halted"
          /\ \/ MarkRecoveryRequired(record.gen)
             \/ record.gen < tombstone /\ UNCHANGED avars
       \/ record.exec # "halted" /\ UNCHANGED avars
    /\ UNCHANGED <<threads, lines, session, durable, backend, stranded, parked,
                   unmarked, forced>>

\* ... tombstone a kernel left halted, ...
ReconcilePark ==
    /\ server \in {"park_killed", "park"}
    /\ server' = IF server = "park_killed" THEN "notify" ELSE "delete"
    /\ \/ /\ record.exec = "halted"
          /\ tombFile' = record.gen
          /\ \/ MarkRecoveryRequired(record.gen)
             \/ record.gen < tombstone /\ UNCHANGED avars
       \/ record.exec # "halted" /\ UNCHANGED <<tombFile, avars>>
    /\ UNCHANGED <<threads, lines, session, record, booted, backend, stranded,
                   parked, unmarked, forced>>

\* ... close admission if a live backend was killed, and delete the record.
ReconcileNotify ==
    /\ server = "notify"
    /\ server' = "delete"
    /\ CloseAdmission(record.gen)
    /\ UNCHANGED <<threads, lines, session, durable, backend, stranded, parked,
                   unmarked, forced>>

ReconcileDelete ==
    /\ server \in {"reap", "delete"}
    /\ server = "reap" => record = NoRecord
    /\ server' = "up"
    /\ Unlink
    /\ UNCHANGED <<avars, threads, lines, session, backend, stranded, parked, unmarked,
                   forced>>

ReconcileStep ==
    \/ ReconcileTombstones \/ ReconcileReap \/ ReconcilePark \/ ReconcileNotify
    \/ ReconcileDelete

Serve ==
    \/ \E g \in Generations :
         \/ Boot(g)
         \/ g <= booted /\ Invalidate(g)
         \/ \E s \in Handles : OpenAdmit(s, g)
    \/ \E s \in Handles :
         \/ OpenStep(s)
         \/ Halt(s)
         \/ \E force \in BOOLEAN : CloseFind(s, force)
         \/ CloseStep(s)
         \/ TeardownStep(s)
         \/ TeardownReap(s, "wedged")
    \/ Emit
    \/ ReopenAdmission

Next ==
    \/ server = "up" /\ Serve
    \/ server # "up" /\ ReconcileStep
    \/ Crash

Spec == Init /\ [][Next]_vars

\* Requests, crashes and the end of a wedged worker are the environment's; a
\* thread that can take its next step takes it.
Fairness ==
    /\ \A s \in Handles : /\ WF_vars(OpenStep(s))
                          /\ WF_vars(CloseStep(s))
                          /\ WF_vars(TeardownStep(s))
    /\ WF_vars(Emit)
    /\ WF_vars(ReconcileStep)

FairSpec == Spec /\ Fairness

-----------------------------------------------------------------------------
(* Properties                                                               *)

OpenPoints == {"idle", "dead", "open", "failed", "closed", "admitted", "guarded", "leased",
               "recorded", "spawned", "attached", "ready", "clearing", "uncaching",
               "rb_reap", "rb_check", "rb_unlink", "rb_lines", "rb_admission"}
ClosePoints == {"none", "done", "found", "closing", "lines", "complete", "tomb", "mark",
                "check", "unlink", "unsubscribe", "raised", "fr_lines", "fr_confirm",
                "fr_abandon"}
TeardownPoints == {"none", "done", "wedged", "reap", "lines", "confirm", "abandon",
                   "forget", "unlink", "unsubscribe"}

\* The types of the transaction's, the registry's and the environment's state.
TxTypeOK ==
    /\ pc \in [Handles -> OpenPoints]
    /\ cpc \in [Handles -> ClosePoints]
    /\ vpc \in [Handles -> TeardownPoints]
    /\ copy \in [Handles -> [exec : ExecStates, pid : BOOLEAN, force : BOOLEAN]]
    /\ guard \in Handles \cup {Nobody}
    /\ lease \in Handles \cup {Nobody}
    /\ tokens \cup table \cup subscribers \cup killed \subseteq Handles
    /\ emitting \in BOOLEAN
    /\ record \in Records \cup {NoRecord}
    /\ tombFile \in Generations \cup {None}
    /\ booted \in Generations \cup {0}
    /\ backend \subseteq Proxied
    /\ stranded \subseteq Proxied
    /\ forced \subseteq Handles
    /\ parked \in Generations \cup {None}
    /\ unmarked \subseteq Generations
    /\ server \in {"up", "tombstones", "reap", "park", "park_killed", "notify", "delete"}

\* A running server never has two owned backends on the target: whoever's
\* process is alive holds the guard, from before the spawn until after the kill,
\* through failed opens, closes, teardowns and restarts.
LiveBackendHoldsGuard ==
    server = "up" => \A s \in backend \ (stranded \cup forced) : guard = s

\* A reopened target is free of the earlier incarnations: what they still held
\* when their bindings went is released before admission opens.
NoPriorIncarnationResources ==
    closedAt = None =>
        \A s \in Handles : handle[s].generation # None /\ handle[s].generation <= retired =>
            guard # s /\ lease # s /\ (s \in backend => s \in stranded \cup forced)

\* A session that is over, whichever way it ended, holds no line, is in no table,
\* receives no events and left no process that was not given up on.
EndedLeavesNothing ==
    \A s \in Handles :
        \/ pc[s] \in {"failed", "closed"} /\ vpc[s] \in {"none", "done"}
        \/ vpc[s] = "done" /\ pc[s] = "open" /\ cpc[s] = "none"
        => /\ guard # s /\ lease # s
           /\ s \notin table \cup subscribers
           /\ s \in backend => s \in stranded \cup forced
           /\ ~OwnsRecord(s)

\* A restarted server has reaped every backend its predecessor left, except the
\* ones whose kill failed, whose pid never reached the record or whose record
\* force_release deleted.
RestartReapsOrphans ==
    server = "up" => \A s \in backend : pc[s] = "dead" => s \in stranded \cup forced

\* A kernel left halted stays marked, in admission and on disk, across closes,
\* crashes and restarts until a recovery attach takes it over or a reboot
\* replaces it.  Exempt is a kernel for which the code wrote no tombstone at all: the
\* write of the close failed, which the close reports, or force_release dropped a
\* record that said HALTED; a crash or a later close that finds it halted marks it again.
ParkedIsRemembered ==
    /\ server = "up"
    /\ parked # None /\ parked = booted
    /\ parked \notin unmarked
    /\ \A s \in Handles : cpc[s] \notin {"complete", "tomb", "mark"} /\ pc[s] # "uncaching"
    => tombstone = parked /\ tombFile = parked

\* What invalidate_lifecycle says of its emit: only sessions that the close of
\* their incarnation fenced are torn down, never one admitted after a reopen.
TornDownWasFenced == \A s \in Handles : vpc[s] = "reap" => s \in cancelled

\* A session that was closed, or whose open failed, is no longer registered with
\* admission, so it cannot block a later reopen.  force_release does not promise
\* that, and a close that races an invalidation finds its handle cancelled.
ClosedSessionDeregistered ==
    \A s \in Handles : pc[s] \in {"failed", "closed"} /\ s \notin forced => s \notin bindings

\* A kernel left halted by a close or by a crash stays gated: only a recovery
\* attach gets a session on it, unless the kernel was left without a tombstone, by
\* a close whose write of it failed or by force_release.
ParkedStaysGated ==
    \A s \in Handles :
        /\ server = "up" /\ pc[s] = "open" /\ cpc[s] = "none"
        /\ parked # None /\ handle[s].generation = parked /\ parked \notin unmarked
        => handle[s].recovery

\* Once the lifecycle closed admission, every binding of the target is disposed
\* of, so that reopen() is not blocked for ever; only an explicit close or forced
\* release that the invalidation overtook may leave its own behind.
TeardownDrains ==
    \A s \in Handles :
        s \in bindings /\ closedAt # None ~> s \notin bindings \/ pc[s] = "closed"

=============================================================================
