---------------------------- MODULE DebugSession ----------------------------
(***************************************************************************)
(* The debug.* tools of one run: debug.start_session and debug.end_session *)
(* (debug/session_handlers.py, debug/session_end.py), the operations on a  *)
(* live gdb attachment (debug/operations.py, debug/module_symbols.py), the *)
(* gdb/MI engine they drive (providers/local/debug/gdb_mi.py), and the     *)
(* transport tools that may close or break the transport session below.    *)
(*                                                                         *)
(* The server serves these synchronous tools one at a time; what goes on   *)
(* beside a call is the kernel, the RSP link, and the death of the server  *)
(* between any two steps.  A start mints a transport session and a debug   *)
(* session together, so both are known by the number of that start.        *)
(* Opening and closing a transport session is one step here: its own steps *)
(* are the subject of Transaction, the ssh work that a halt cancels that   *)
(* of SshGate.                                                             *)
(***************************************************************************)
EXTENDS Naturals, FiniteSets

CONSTANTS
    MaxStarts,   \* bound: transport sessions opened by start_session
    MaxGen,      \* bound: boots
    Locations,   \* where breakpoints and watchpoints are set
    Addresses,   \* .text addresses a caller gives for the one module
    Faults       \* which failures a run lets happen, of FaultKinds

FaultKinds == {"attach", "escape", "probe", "write", "record_write", "engine", "link", "exit", "crash"}

ASSUME DebugAssumption ==
    /\ MaxStarts \in Nat \ {0} /\ MaxGen \in Nat \ {0}
    /\ Faults \subseteq FaultKinds

VARIABLES
    gen,        \* the generation the last boot published
    kernel,     \* "running", "stopped" by the debugger, or "off"
    record,     \* the durable transport record, which goes together with the guard
    parked,     \* the generation of the recovery tombstone, 0 without one
    dbg,        \* the debug step of the run manifest
    file,       \* file[s]: the persisted DebugSession
    live,       \* the sessions GdbMiSessionRegistry holds
    gdb,        \* gdb[s]: the gdb process of a session, if it has one; history in
                \* it: the tables that changed while the record did not
    starts,     \* how many sessions were opened
    call,       \* the tool call being served
    lock,       \* the run's .debug.lock exists
    stray,      \* a gdb that nothing holds is connected to the stub
    failed,     \* history: a record write failed and left the record in place
    unmarked    \* history: a close left the stopped kernel of this boot without its
                \* tombstone, because that could not be written

svars == <<gen, kernel, record, parked>>
dvars == <<dbg, file>>
evars == <<live, gdb>>
cvars == <<call, lock>>
hvars == <<stray, failed, unmarked>>
vars == <<svars, dvars, evars, cvars, starts, hvars>>

Sessions == 1..MaxStarts
NoRecord == [sid |-> 0, gen |-> 0, exec |-> "none"]
NoStep == [sid |-> 0, exec |-> "none"]
NoFile == [exec |-> "none", bps |-> {}, mods |-> {}]
NoGdb == [link |-> "none", bps |-> {}, mods |-> {}, stop |-> FALSE, dirty |-> {}]
Idle == [op |-> "none", sid |-> 0, pc |-> "idle", arg |-> {}]

\* DebugReadRegistersRequest .. DebugInterruptRequest and load_module_symbols, by
\* what tells them apart: the pure reads, the gated queries, the mutators of the
\* breakpoint table, the execution verbs.
ReadOps == {"read"}
MutatorOps == {"set", "clear"}
EngineOps == ReadOps \cup MutatorOps \cup {"query", "exec", "interrupt", "load"}
RequiresAdmissionFence(op) == op \notin ReadOps
PersistManifest(op) == op \notin ReadOps \cup {"query"}

Init ==
    /\ gen = 1 /\ kernel = "running"
    /\ record = NoRecord /\ parked = 0
    /\ dbg = NoStep /\ file = [s \in Sessions |-> NoFile]
    /\ live = {} /\ gdb = [s \in Sessions |-> NoGdb]
    /\ starts = 0 /\ call = Idle /\ lock = FALSE
    /\ stray = FALSE /\ failed = FALSE /\ unmarked = FALSE

-----------------------------------------------------------------------------
(* Steps shared by the calls                                                *)

\* A call that needs the debug lock begins; a lock file that is there refuses it.
Begin(op, s, pc) ==
    /\ call = Idle /\ ~lock
    /\ call' = [op |-> op, sid |-> s, pc |-> pc, arg |-> {}]
    /\ lock' = TRUE

Goto(from, to) ==
    /\ call.pc = from
    /\ call' = [call EXCEPT !.pc = to]
    /\ UNCHANGED lock

\* The call returns, the lock file is unlinked.
Return == call' = Idle /\ lock' = FALSE

\* A call refused before it changes anything.
Refused == call = Idle /\ UNCHANGED <<call, lock>>

\* The stub answers the gdb of the session the call is about, and its *stopped
\* record is still to be read.
LinkUp == call # Idle /\ gdb[call.sid].link = "up"
StopPending == call # Idle /\ gdb[call.sid].stop

\* Mutant of ForceResume: gdb is left to its own devices.
ForceResumeNothing(s) == UNCHANGED evars /\ UNCHANGED kernel

\* reap() and force_resume(): continue, disconnect and kill; the disconnect lets
\* QEMU go on even if the commands failed, unless it is a stray gdb that holds it.
ForceResume(s) ==
    /\ live' = live \ {s}
    /\ gdb' = [gdb EXCEPT ![s] = NoGdb]
    /\ kernel' = IF gdb[s] # NoGdb /\ ~stray /\ kernel = "stopped" THEN "running" ELSE kernel

\* Mutant of WriteExec: the record keeps the state that the open gave it.
WriteExecKept(e) == UNCHANGED record

WriteExec(e) == record' = [record EXCEPT !.exec = e]

\* A close() without force of a session whose kernel may be stopped parks it.
LeavesTombstone == record.exec \in {"halted", "unknown"}

\* The record goes also when the tombstone cannot be written: that is one of the
\* cleanups whose errors close() collects, and the cache is marked after it.
Closed(force) ==
    /\ record' = NoRecord
    /\ \/ /\ parked' = IF LeavesTombstone /\ ~force THEN record.gen ELSE parked
          /\ UNCHANGED unmarked
       \/ /\ "record_write" \in Faults /\ LeavesTombstone /\ ~force
          /\ unmarked' = (unmarked \/ kernel = "stopped")
          /\ UNCHANGED parked

\* Mutant of Teardown: a failed close is not followed by force_release.
TeardownUnverified(force) ==
    /\ \/ Closed(force)
       \/ "record_write" \in Faults /\ UNCHANGED <<record, parked, unmarked>>
    /\ UNCHANGED <<stray, failed>>

\* SessionGuard.teardown around close(): if the CLOSING record cannot be written
\* nothing is closed, and force_release drops a record that still says HALTED.
Teardown(force) ==
    /\ \/ Closed(force) /\ UNCHANGED failed
       \/ /\ "record_write" \in Faults
          /\ record' = IF record.exec = "halted" THEN NoRecord ELSE record
          /\ failed' = (failed \/ record.exec # "halted")
          /\ UNCHANGED <<parked, unmarked>>
    /\ UNCHANGED stray

-----------------------------------------------------------------------------
(* debug.start_session                                                      *)

\* A recorded session that was not ended is the answer, unless a new one is asked for.
ReusesRecorded(new) == ~new /\ dbg # NoStep /\ dbg.exec # "ended"

StartReuse ==
    /\ call = Idle /\ ~lock
    /\ ReusesRecorded(FALSE)
    /\ UNCHANGED <<svars, dvars, evars, call, lock, starts, hvars>>

\* The guard is held, the generation is parked, or the version lock finds another vmlinux.
StartRefused(new) ==
    /\ ~ReusesRecorded(new)
    /\ Refused
    /\ UNCHANGED <<svars, dvars, evars, starts, hvars>>

StartOpen(new) ==
    /\ ~ReusesRecorded(new)
    /\ record = NoRecord /\ parked # gen
    /\ starts < MaxStarts
    /\ Begin("start", starts + 1, "halt")
    /\ starts' = starts + 1
    /\ record' = [sid |-> starts + 1, gen |-> gen, exec |-> "executing"]
    /\ UNCHANGED <<gen, kernel, parked, dvars, evars, hvars>>

\* halt_debug_transport, before gdb touches the target.
StartHalt ==
    /\ call.op = "start" /\ Goto("halt", "attach")
    /\ WriteExec("halted")
    /\ UNCHANGED <<gen, kernel, parked, dvars, evars, starts, hvars>>

\* That write raises outside every try: the call ends with the session open.
StartHaltFails ==
    /\ "record_write" \in Faults
    /\ call.op = "start" /\ call.pc = "halt"
    /\ Return /\ failed' = TRUE
    /\ UNCHANGED <<svars, dvars, evars, starts, stray, unmarked>>

\* QEMU's stub serves one gdb at a time.
StubFree == ~stray /\ \A s \in Sessions : gdb[s].link # "up"

\* attach(): ^connected stops the kernel.
StartAttach ==
    /\ kernel # "off" /\ StubFree
    /\ call.op = "start" /\ Goto("attach", "probe")
    /\ gdb' = [gdb EXCEPT ![call.sid].link = "up"]
    /\ kernel' = "stopped"
    /\ UNCHANGED <<gen, record, parked, dvars, live, starts, hvars>>

\* An attach that did not get as far leaves no gdb behind.
StartAttachFails ==
    /\ kernel = "off" \/ ~StubFree \/ "attach" \in Faults
    /\ call.op = "start" /\ Goto("attach", "unhalt")
    /\ UNCHANGED <<svars, dvars, evars, starts, hvars>>

\* ^connected was read, and _run raised past attach(), which cleans up after a
\* GdbMiError only: the transcript could not be written.  The handler has no attachment
\* to resume, and goes on as if nothing had been halted.
StartAttachEscapes ==
    /\ "escape" \in Faults
    /\ kernel # "off" /\ StubFree
    /\ call.op = "start" /\ Goto("attach", "unhalt")
    /\ kernel' = "stopped" /\ stray' = TRUE
    /\ UNCHANGED <<gen, record, parked, dvars, evars, starts, failed, unmarked>>

\* probe_read, resolve_symbol and the registration.
StartProbe ==
    /\ call.op = "start" /\ LinkUp /\ Goto("probe", "file")
    /\ live' = live \cup {call.sid}
    /\ UNCHANGED <<svars, dvars, gdb, starts, hvars>>

StartFile ==
    /\ call.op = "start" /\ Goto("file", "step")
    /\ file' = [file EXCEPT ![call.sid] = [exec |-> "stopped", bps |-> {}, mods |-> {}]]
    /\ UNCHANGED <<svars, dbg, evars, starts, hvars>>

StartStep ==
    /\ call.op = "start" /\ call.pc = "step"
    /\ dbg' = [sid |-> call.sid, exec |-> "stopped"]
    /\ Return
    /\ UNCHANGED <<svars, file, evars, starts, hvars>>

\* The probe fails, or the session cannot be recorded: reap and guaranteed resume.
StartAbandon ==
    /\ \/ call.pc = "probe" /\ (~LinkUp \/ "probe" \in Faults)
       \/ call.pc \in {"file", "step"} /\ "write" \in Faults
    /\ call.op = "start" /\ Goto(call.pc, "unhalt")
    /\ ForceResume(call.sid)
    /\ UNCHANGED <<gen, record, parked, dvars, starts, hvars>>

\* resume_debug_transport with its errors suppressed, also after a stalled operation.
UnhaltRecord ==
    /\ Goto("unhalt", "close")
    /\ \/ WriteExec("executing")
       \/ "record_write" \in Faults /\ UNCHANGED record
    /\ UNCHANGED <<gen, kernel, parked, dvars, evars, starts, hvars>>

\* teardown_debug_transport, last of the failure path.
FailureTeardown ==
    /\ call.pc = "close"
    /\ Teardown(FALSE)
    /\ Return
    /\ UNCHANGED <<gen, kernel, dvars, evars, starts>>

-----------------------------------------------------------------------------
(* Operations on the live attachment                                        *)

\* load_active_debug_session
ActiveSession(allowEnded) ==
    /\ dbg # NoStep /\ file[dbg.sid] # NoFile
    /\ allowEnded \/ (dbg.exec # "ended" /\ file[dbg.sid].exec # "ended")

OpRefused(op) ==
    /\ op \in EngineOps
    /\ ~ActiveSession(FALSE) \/ (record # NoRecord /\ dbg.sid \notin live)
    /\ Refused
    /\ UNCHANGED <<svars, dvars, evars, starts, hvars>>

\* enforce_debug_ownership_fence: no owner record.  A fenced operation parks the
\* generation published now, a pure read only refuses.
OpNotOwned(op) ==
    /\ op \in EngineOps /\ ~lock
    /\ ActiveSession(FALSE) /\ record = NoRecord
    /\ \/ parked' = IF RequiresAdmissionFence(op) THEN gen ELSE parked
       \/ "record_write" \in Faults /\ UNCHANGED parked
    /\ Refused
    /\ UNCHANGED <<gen, kernel, record, dvars, evars, starts, hvars>>

OpBegin(op) ==
    /\ op \in EngineOps
    /\ ActiveSession(FALSE) /\ record # NoRecord /\ dbg.sid \in live
    /\ Begin(op, dbg.sid, "engine")
    /\ UNCHANGED <<svars, dvars, evars, starts, hvars>>

Stopped(b) == [gdb EXCEPT ![call.sid].stop = b]
AfterOp == IF PersistManifest(call.op) THEN "persist" ELSE "done"

\* The reads and queries of the stack, registers, memory and breakpoint table.
EngineQuery ==
    /\ LinkUp /\ call.op \in {"read", "query"} /\ Goto("engine", AfterOp)
    /\ UNCHANGED <<svars, dvars, evars, starts, hvars>>

\* set_breakpoint, set_watchpoint and their clears.
EngineMutate(loc) ==
    /\ LinkUp /\ call.op \in MutatorOps /\ Goto("engine", "list")
    /\ gdb' = [gdb EXCEPT ![call.sid].bps = IF call.op = "set" THEN @ \cup {loc} ELSE @ \ {loc}]
    /\ UNCHANGED <<svars, dvars, live, starts, hvars>>

\* list_breakpoints, from which the ledger is rebuilt.
EngineList ==
    /\ LinkUp /\ Goto("list", AfterOp)
    /\ UNCHANGED <<svars, dvars, evars, starts, hvars>>

\* load_module_symbols: a module that is recorded is not loaded again, and refused
\* when its address changed.
EngineLoad(addr) ==
    /\ LinkUp /\ call.op = "load" /\ call.pc = "engine" /\ file[call.sid].mods = {}
    /\ call' = [call EXCEPT !.pc = "persist", !.arg = {addr}]
    /\ gdb' = [gdb EXCEPT ![call.sid].mods = @ \cup {addr}]
    /\ UNCHANGED <<svars, dvars, live, starts, hvars, lock>>

EngineLoaded ==
    /\ call.op = "load" /\ call.pc = "engine" /\ file[call.sid].mods # {}
    /\ Return
    /\ UNCHANGED <<svars, dvars, evars, starts, hvars>>

\* -exec-continue, -step, -next, -finish.  A stop that comes with the answer to the
\* command is in the batch that write() returns, where wait_for_stop does not look.
ExecVerb ==
    /\ LinkUp /\ call.op = "exec" /\ Goto("engine", "wait")
    /\ \/ kernel' = "running"
       \/ gdb[call.sid].bps # {} /\ kernel' = "stopped"
    /\ gdb' = Stopped(FALSE)
    /\ UNCHANGED <<gen, record, parked, dvars, live, starts, hvars>>

\* wait_for_stop reads the *stopped record.
WaitStop ==
    /\ StopPending
    /\ \E from \in {"wait", "waitint"} : Goto(from, "persist")
    /\ gdb' = Stopped(FALSE)
    /\ UNCHANGED <<svars, dvars, live, starts, hvars>>

\* The guest is gone: an exited* stop raises session_exited and nothing is reaped.
WaitExited ==
    /\ "exit" \in Faults /\ call.pc = "wait" /\ kernel = "running"
    /\ kernel' = "off"
    /\ gdb' = [gdb EXCEPT ![call.sid].link = "dead"]
    /\ Return
    /\ UNCHANGED <<gen, record, parked, dvars, live, starts, hvars>>

\* Mutant of WaitTimeout: the kernel is left running.
WaitTimeoutUninterrupted ==
    /\ ~StopPending
    /\ Goto("wait", "persist")
    /\ UNCHANGED <<svars, dvars, evars, starts, hvars>>

WaitTimeout ==
    /\ ~StopPending
    /\ Goto("wait", "interrupt")
    /\ UNCHANGED <<svars, dvars, evars, starts, hvars>>

\* -exec-interrupt.  Its batch swallows a stop that was under way; a kernel that
\* is already stopped reports none.
Interrupt ==
    /\ LinkUp
    /\ \/ Goto("interrupt", "waitint")
       \/ call.op = "interrupt" /\ Goto("engine", "waitint")
    /\ kernel' = IF kernel = "running" THEN "stopped" ELSE kernel
    /\ \/ gdb' = Stopped(FALSE)
       \/ kernel = "running" /\ gdb' = Stopped(TRUE)
    /\ UNCHANGED <<gen, record, parked, dvars, live, starts, hvars>>

\* debug.interrupt without a stop reports `unknown`.
InterruptUnconfirmed ==
    /\ call.op = "interrupt" /\ ~StopPending
    /\ Goto("waitint", "persist_unknown")
    /\ UNCHANGED <<svars, dvars, evars, starts, hvars>>

\* transport_stall: a command timed out, or an execution verb's interrupt was
\* followed by silence.  Without admission, which a pure read does not have, the
\* record stays HALTED.
AfterStall == IF RequiresAdmissionFence(call.op) THEN "unhalt" ELSE "close"

Stall ==
    /\ \/ ~LinkUp /\ call.pc \in {"engine", "list", "interrupt"}
       \/ call.op = "exec" /\ call.pc = "waitint" /\ ~StopPending
    /\ Goto(call.pc, AfterStall)
    /\ ForceResume(call.sid)
    /\ UNCHANGED <<gen, record, parked, dvars, starts, hvars>>

\* The change that a call leaves unrecorded.
Unrecorded ==
    IF call.op \in MutatorOps THEN {"bps"} ELSE IF call.op = "load" THEN {"mods"} ELSE {}

\* gdb answers ^error: the call fails and the session goes on.
OpError ==
    /\ "engine" \in Faults
    /\ call.op \in EngineOps /\ call.pc \in {"engine", "list"}
    /\ gdb' = [gdb EXCEPT ![call.sid].dirty = IF call.pc = "list" THEN @ \cup Unrecorded ELSE @]
    /\ Return
    /\ UNCHANGED <<svars, dvars, live, starts, hvars>>

\* Any other exception of the engine: the attachment is reaped, the record is not touched.
OpFault ==
    /\ "engine" \in Faults
    /\ call.op \in EngineOps /\ call.pc \in {"engine", "list", "wait", "interrupt", "waitint"}
    /\ ForceResume(call.sid)
    /\ Return
    /\ UNCHANGED <<gen, record, parked, dvars, starts, hvars>>

OpDone ==
    /\ call.pc = "done"
    /\ Return
    /\ UNCHANGED <<svars, dvars, evars, starts, hvars>>

\* Mutant of RebuiltSession: the mutator's session is persisted as it was loaded.
RebuiltSessionKept(s) == file[s]

\* The session to persist: its breakpoints from -break-list after a mutator, its
\* module after a load, otherwise as it was loaded.
RebuiltSession(s) ==
    [file[s] EXCEPT !.bps = IF call.op \in MutatorOps THEN gdb[s].bps ELSE @,
                    !.mods = IF call.op = "load" THEN call.arg ELSE @]

Persist ==
    /\ \E from \in {"persist", "persist_unknown"} :
         Goto(from, IF from = "persist" THEN "record" ELSE "record_unknown")
    /\ file' = [file EXCEPT ![call.sid] = RebuiltSession(call.sid)]
    /\ UNCHANGED <<svars, dbg, evars, starts, hvars>>

RecordStep ==
    /\ call.pc \in {"record", "record_unknown"}
    /\ dbg' = [sid |-> call.sid,
               exec |-> IF call.pc = "record" THEN file[call.sid].exec ELSE "unknown"]
    /\ gdb' = [gdb EXCEPT ![call.sid].dirty = IF call.op \in MutatorOps THEN @ \ {"bps"} ELSE @]
    /\ Return
    /\ UNCHANGED <<svars, file, live, starts, hvars>>

\* The bookkeeping fails: the session is not reaped, and a mutator stays unrecorded.
PersistFails ==
    /\ "write" \in Faults
    /\ call.pc \in {"persist", "persist_unknown", "record", "record_unknown"}
    /\ gdb' = [gdb EXCEPT ![call.sid].dirty = @ \cup Unrecorded]
    /\ Return
    /\ UNCHANGED <<svars, dvars, live, starts, hvars>>

-----------------------------------------------------------------------------
(* debug.end_session and the transport tools                                *)

EndRefused ==
    /\ ~ActiveSession(TRUE)
    /\ Refused
    /\ UNCHANGED <<svars, dvars, evars, starts, hvars>>

EndBegin ==
    /\ ActiveSession(TRUE)
    /\ Begin("end", dbg.sid, "endfile")
    /\ UNCHANGED <<svars, dvars, evars, starts, hvars>>

EndFile ==
    /\ Goto("endfile", "endstep")
    /\ file' = [file EXCEPT ![call.sid].exec = "ended"]
    /\ UNCHANGED <<svars, dbg, evars, starts, hvars>>

EndStep ==
    /\ Goto("endstep", "endreap")
    /\ dbg' = [dbg EXCEPT !.exec = "ended"]
    /\ UNCHANGED <<svars, file, evars, starts, hvars>>

EndWriteFails ==
    /\ "write" \in Faults
    /\ call.pc \in {"endfile", "endstep"}
    /\ Return
    /\ UNCHANGED <<svars, dvars, evars, starts, hvars>>

\* The attachment goes before the debug lock does, ...
EndReap ==
    /\ call.pc = "endreap"
    /\ call' = [call EXCEPT !.pc = "endclose"]
    /\ lock' = FALSE
    /\ ForceResume(call.sid)
    /\ UNCHANGED <<gen, record, parked, dvars, starts, hvars>>

\* ... the transport session after it, and without a tombstone.
EndClose ==
    /\ call.pc = "endclose"
    /\ IF record.sid = call.sid THEN Teardown(TRUE) ELSE UNCHANGED <<record, parked, hvars>>
    /\ call' = Idle
    /\ UNCHANGED <<gen, kernel, dvars, evars, starts, lock>>

\* transport.close by its session id, whatever debug session is attached above.
TransportClose ==
    /\ record # NoRecord
    /\ Closed(FALSE)
    /\ Refused
    /\ UNCHANGED <<gen, kernel, dvars, evars, starts, stray, failed>>

\* transport.inject_break: HALTED is recorded, then the gdbstub_native plan refuses
\* injection and UNKNOWN is.
BreakHalt ==
    /\ call = Idle /\ record # NoRecord
    /\ call' = [Idle EXCEPT !.op = "break", !.sid = record.sid, !.pc = "inject"]
    /\ WriteExec("halted")
    /\ UNCHANGED <<gen, kernel, parked, dvars, evars, starts, hvars, lock>>

BreakUnconfirmed ==
    /\ call.pc = "inject"
    /\ WriteExec("unknown")
    /\ call' = Idle
    /\ UNCHANGED <<gen, kernel, parked, dvars, evars, starts, hvars, lock>>

-----------------------------------------------------------------------------
(* The kernel, the link, the server                                         *)

\* target.boot starts a new domain.  plan_boot refuses while the old QEMU listens
\* on the gdbstub port, so that QEMU, and gdb's link to it, is gone.
Reboot ==
    /\ Refused
    /\ gen < MaxGen
    /\ gen' = gen + 1
    /\ kernel' = "running"
    /\ gdb' = [s \in Sessions |-> IF gdb[s] = NoGdb THEN NoGdb ELSE [gdb[s] EXCEPT !.link = "dead"]]
    /\ stray' = FALSE /\ unmarked' = FALSE
    /\ UNCHANGED <<record, parked, dvars, live, starts, failed>>

\* A running kernel reaches a breakpoint of the gdb connected to it.
BreakpointHit ==
    /\ kernel = "running"
    /\ \E s \in Sessions :
         /\ gdb[s].link = "up" /\ gdb[s].bps # {}
         /\ gdb' = [gdb EXCEPT ![s].stop = TRUE]
    /\ kernel' = "stopped"
    /\ UNCHANGED <<gen, record, parked, dvars, live, starts, hvars, cvars>>

\* The stub stops answering.
LinkDies ==
    /\ "link" \in Faults
    /\ \E s \in Sessions :
         /\ gdb[s].link = "up"
         /\ gdb' = [gdb EXCEPT ![s].link = "dead", ![s].stop = FALSE]
    /\ UNCHANGED <<svars, dvars, live, starts, hvars, cvars>>

\* Nothing in the code ends the stray gdb.  It goes when the interpreter drops the
\* controller, whose end of gdb's input is closed then.
StrayExits ==
    /\ stray /\ stray' = FALSE
    /\ kernel' = IF kernel = "stopped" THEN "running" ELSE kernel
    /\ UNCHANGED <<gen, record, parked, dvars, evars, starts, failed, unmarked, cvars>>

\* The server dies, its gdb children with it, and starts again: reconcile parks the
\* generation of a record that says HALTED or UNKNOWN and deletes the record.
CrashAndReconcile ==
    /\ "crash" \in Faults
    /\ call' = Idle
    /\ live' = {} /\ gdb' = [s \in Sessions |-> NoGdb]
    /\ kernel' = IF kernel = "stopped" THEN "running" ELSE kernel
    /\ parked' = IF LeavesTombstone THEN record.gen ELSE parked
    /\ record' = NoRecord
    /\ stray' = FALSE /\ unmarked' = FALSE
    /\ UNCHANGED <<gen, dvars, starts, failed, lock>>

StartStepNext ==
    \/ StartHalt \/ StartHaltFails \/ StartAttach \/ StartAttachFails \/ StartAttachEscapes
    \/ StartProbe \/ StartFile \/ StartStep \/ StartAbandon

EngineNext ==
    \/ EngineQuery \/ EngineList \/ EngineLoaded \/ ExecVerb
    \/ \E loc \in Locations : EngineMutate(loc)
    \/ \E addr \in Addresses : EngineLoad(addr)
    \/ WaitStop \/ WaitExited \/ WaitTimeout \/ Interrupt \/ InterruptUnconfirmed
    \/ Stall \/ OpError \/ OpFault \/ OpDone \/ Persist \/ RecordStep \/ PersistFails

EndNext == EndFile \/ EndStep \/ EndWriteFails \/ EndReap \/ EndClose

CallStep == StartStepNext \/ UnhaltRecord \/ FailureTeardown \/ EngineNext \/ EndNext \/ BreakUnconfirmed

Next ==
    \/ StartReuse \/ EndRefused \/ EndBegin \/ TransportClose \/ BreakHalt
    \/ \E new \in BOOLEAN : StartRefused(new) \/ StartOpen(new)
    \/ \E op \in EngineOps : OpRefused(op) \/ OpNotOwned(op) \/ OpBegin(op)
    \/ CallStep
    \/ Reboot \/ BreakpointHit \/ LinkDies \/ StrayExits \/ CrashAndReconcile

Spec == Init /\ [][Next]_vars

-----------------------------------------------------------------------------
(* Properties                                                               *)

\* The types of the state.
DebugTypeOK ==
    /\ gen \in 1..MaxGen /\ kernel \in {"running", "stopped", "off"}
    /\ record \in {NoRecord} \cup [sid : Sessions, gen : 1..MaxGen,
                                   exec : {"executing", "halted", "unknown"}]
    /\ parked \in 0..MaxGen
    /\ dbg \in {NoStep} \cup [sid : Sessions, exec : {"stopped", "unknown", "ended"}]
    /\ file \in [Sessions -> {NoFile} \cup [exec : {"stopped", "ended"}, bps : SUBSET Locations,
                                            mods : SUBSET Addresses]]
    /\ live \subseteq Sessions
    /\ gdb \in [Sessions -> [link : {"none", "up", "dead"}, bps : SUBSET Locations,
                             mods : SUBSET Addresses, stop : BOOLEAN, dirty : SUBSET {"bps", "mods"}]]
    /\ starts \in 0..MaxStarts
    /\ lock \in BOOLEAN /\ stray \in BOOLEAN /\ failed \in BOOLEAN /\ unmarked \in BOOLEAN
    /\ call.sid \in 0..MaxStarts

\* A kernel the debugger holds is never taken for a running one: its record does
\* not say EXECUTING, or the generation is parked.  Exempt are the two ways the code
\* has to lose it: a tombstone that could not be written, and the gdb of an attach()
\* that raised after it had connected.
StoppedIsGated ==
    kernel = "stopped" => LeavesTombstone \/ parked = gen \/ unmarked \/ stray

\* A stopped kernel belongs to the session the manifest names, so debug.end_session
\* can let it go: no failed start, stalled or faulted operation leaves it behind, but
\* for an attach() that raised after it had connected.
StoppedIsReachable ==
    call = Idle /\ kernel = "stopped" /\ ~stray =>
        dbg.sid \in live /\ gdb[dbg.sid] # NoGdb /\ dbg.exec # "ended"

\* Whatever an operation met (breakpoints before, during or after its wait, a timeout,
\* its own interrupt), the kernel is back in the debugger while the session stays.
LiveIsStopped ==
    call = Idle => \A s \in live : gdb[s].link = "up" => kernel = "stopped"

\* The guard is held for the session that the manifest names and that was not ended,
\* unless a write of the record itself failed.
HeldIsReachable ==
    call = Idle /\ record # NoRecord =>
        failed \/ (dbg.sid = record.sid /\ dbg.exec # "ended")

\* The persisted ledger is what gdb has, unless the bookkeeping of a change failed.
LedgerIsCurrent ==
    call = Idle => \A s \in live :
        /\ "bps" \in gdb[s].dirty \/ file[s].bps = gdb[s].bps
        /\ "mods" \in gdb[s].dirty \/ file[s].mods = gdb[s].mods

=============================================================================
