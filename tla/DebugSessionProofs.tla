------------------------- MODULE DebugSessionProofs -------------------------
(***************************************************************************)
(* A kernel that the debugger holds is gated, and the session that can let *)
(* it go is the one that the manifest names, for every number of sessions, *)
(* boots, breakpoints and addresses, whatever fails and wherever the       *)
(* server dies.                                                            *)
(*                                                                         *)
(* The argument: at most one gdb is connected to the stub, that of the     *)
(* session being started or of the one the manifest names, unless it is a  *)
(* stray one; while one is, or the kernel is stopped, the record says so   *)
(* or the generation is parked, unless a tombstone could not be written;   *)
(* and each call lets the kernel go before it takes that back.             *)
(***************************************************************************)
EXTENDS DebugSession, TLAPS

\* Where the calls are, by what serves them.
StartPoints == {"halt", "attach", "probe", "file", "step"}
WorkPoints == {"engine", "list", "wait", "interrupt", "waitint", "persist", "persist_unknown",
               "record", "record_unknown", "done"}
FailurePoints == {"unhalt", "close"}
EndPoints == {"endfile", "endstep", "endreap", "endclose"}

\* Nothing is attached yet, or no longer.
Detached == {"halt", "attach", "endclose"} \cup FailurePoints

Gdbs == [link : {"none", "up", "dead"}, bps : SUBSET Locations, mods : SUBSET Addresses,
         stop : BOOLEAN, dirty : SUBSET {"bps", "mods"}]
Files == [exec : {"none", "stopped", "ended"}, bps : SUBSET Locations, mods : SUBSET Addresses]
Records == [sid : 0..MaxStarts, gen : 0..MaxGen, exec : {"none", "executing", "halted", "unknown"}]
Steps == [sid : 0..MaxStarts, exec : {"none", "stopped", "unknown", "ended"}]
Calls == [op : {"none", "start", "end", "break"} \cup EngineOps, sid : 0..MaxStarts,
          pc : {"idle", "inject"} \cup StartPoints \cup WorkPoints \cup FailurePoints \cup EndPoints,
          arg : SUBSET Addresses]

\* A record is written whole, and a gdb that is not there has no tables.
Typed ==
    /\ gen \in 1..MaxGen /\ kernel \in {"running", "stopped", "off"}
    /\ record \in Records /\ (record # NoRecord => record.sid # 0 /\ record.gen # 0 /\ record.exec # "none")
    /\ parked \in 0..MaxGen
    /\ dbg \in Steps /\ (dbg # NoStep => dbg.sid # 0 /\ dbg.exec # "none")
    /\ file \in [Sessions -> Files] /\ \A s \in Sessions : file[s] # NoFile => file[s].exec # "none"
    /\ live \subseteq Sessions
    /\ gdb \in [Sessions -> Gdbs] /\ \A s \in Sessions : gdb[s].link = "none" => gdb[s] = NoGdb
    /\ starts \in 0..MaxStarts
    /\ lock \in BOOLEAN /\ stray \in BOOLEAN /\ failed \in BOOLEAN /\ unmarked \in BOOLEAN
    /\ call \in Calls

\* Which call is where.
CallOk ==
    /\ call.op = "none" => call = Idle
    /\ call # Idle => call.sid # 0 /\ call.pc # "idle"
    /\ call.op = "start" => call.pc \in StartPoints \cup FailurePoints
    /\ call.op \in EngineOps => call.pc \in WorkPoints \cup FailurePoints
    /\ call.op = "end" => call.pc \in EndPoints
    /\ call.op = "break" => call.pc = "inject"
    /\ call.pc \in {"wait", "interrupt"} => call.op = "exec"
    /\ call.pc = "waitint" => call.op \in {"exec", "interrupt"}
    /\ call.pc = "list" => call.op \in MutatorOps
    /\ call.pc \in {"persist_unknown", "record_unknown"} => call.op = "interrupt"

\* A session that was not started has nothing.
Fresh ==
    /\ record.sid <= starts /\ dbg.sid <= starts /\ call.sid <= starts
    /\ \A s \in Sessions : s > starts => s \notin live /\ gdb[s] = NoGdb /\ file[s] = NoFile

\* What a call knows of the session that it serves.
Served ==
    /\ call.op = "start" =>
         /\ record.sid = call.sid /\ record.gen = gen
         /\ call.pc = "attach" => record.exec = "halted"
         /\ call.pc \in {"halt", "attach"} => gdb[call.sid] = NoGdb /\ call.sid \notin live
         /\ call.pc = "probe" => call.sid \notin live
         /\ call.pc \in {"probe", "file", "step"} =>
              LET g == gdb[call.sid]
              IN g.link # "none" /\ g.bps = {} /\ g.mods = {} /\ ~g.stop /\ g.dirty = {}
         /\ call.pc \in {"file", "step"} => call.sid \in live
         /\ call.pc \in {"halt", "attach", "probe", "file"} => file[call.sid] = NoFile
         /\ call.pc = "step" => file[call.sid] = [exec |-> "stopped", bps |-> {}, mods |-> {}]
    /\ call.op \in EngineOps => record # NoRecord /\ call.sid = dbg.sid
    /\ call.pc \in WorkPoints => dbg.sid \in live /\ dbg.exec # "ended" /\ file[dbg.sid].exec = "stopped"
    /\ call.op = "end" => call.sid = dbg.sid /\ file[dbg.sid] # NoFile
    /\ call.op = "break" => record # NoRecord
    /\ dbg # NoStep => file[dbg.sid] # NoFile

\* The session that holds the kernel, if one does: the one being started as soon as it
\* is attached, otherwise the one the manifest names.
Holder == IF call.pc \in {"probe", "file", "step"} THEN call.sid ELSE dbg.sid

Up(s) == gdb[s].link = "up"

Attached == kernel = "stopped" \/ \E s \in Sessions : Up(s)

\* A gdb belongs to a registered session, or to one being started; ...
Registered ==
    \A s \in Sessions :
        /\ s \in live => gdb[s].link # "none"
        /\ gdb[s].link # "none" => s \in live \/ (call.pc = "probe" /\ s = call.sid)

\* ... one of them at most is connected, and the kernel runs under it only while an
\* execution verb waits; ...
Connected ==
    \A s \in Sessions :
        /\ Up(s) => /\ s = Holder /\ ~stray
                    /\ kernel = "stopped" \/ (kernel = "running" /\ call.pc \in {"wait", "interrupt"})
        /\ gdb[s].stop => Up(s) /\ kernel = "stopped" /\ call.pc \in {"wait", "interrupt", "waitint"}

\* ... what is attached can be found, unless a stray gdb holds it; ...
Found ==
    Attached /\ ~stray =>
        /\ Holder \in Sessions /\ gdb[Holder].link # "none"
        /\ record # NoRecord => record.gen = gen
        /\ call.pc \notin {"probe", "file", "step", "endreap"} => dbg.exec # "ended"

\* ... and it is gated, unless its tombstone could not be written.
Gated ==
    Attached /\ ~stray /\ ~unmarked =>
        /\ call.pc \notin Detached
        /\ LeavesTombstone \/ parked = gen

Held == Found /\ Gated

\* The guard is held for the session being started, or for the one the manifest names.
Owned ==
    record # NoRecord =>
        \/ failed
        \/ call.op = "start"
        \/ /\ dbg.sid = record.sid
           /\ dbg.exec # "ended" \/ call.pc \in {"endreap", "endclose"}

\* The ledger, but for the change that a call has made and not yet recorded.
Changed == IF call.pc \in {"list", "persist"} THEN Unrecorded ELSE {}

Ledger ==
    /\ \A s \in live :
         LET changed == IF s = call.sid THEN Changed ELSE {}
         IN /\ "bps" \in gdb[s].dirty \cup changed \/ file[s].bps = gdb[s].bps
            /\ "mods" \in gdb[s].dirty \cup changed \/ file[s].mods = gdb[s].mods
    /\ call.op = "load" /\ call.pc = "persist" =>
         "mods" \in gdb[call.sid].dirty \/ gdb[call.sid].mods = call.arg
    /\ call.op \in MutatorOps /\ call.pc = "record" => file[call.sid].bps = gdb[call.sid].bps

DebugInv == Typed /\ CallOk /\ Fresh /\ Served /\ Registered /\ Connected /\ Held /\ Owned /\ Ledger

-----------------------------------------------------------------------------
(* What the shared steps change                                             *)

Pcs == {"idle", "inject"} \cup StartPoints \cup WorkPoints \cup FailurePoints \cup EndPoints

\* Goto: the call is at another point and the same otherwise.
LEMMA GotoFacts ==
    ASSUME Typed, NEW from, NEW to \in Pcs, Goto(from, to)
    PROVE  /\ call.pc = from /\ call' \in Calls
           /\ call'.pc = to /\ call'.op = call.op /\ call'.sid = call.sid /\ call'.arg = call.arg
           /\ lock' = lock
  BY DEF Typed, Goto, Calls, Pcs

\* No call.
LEMMA IdleTyped == Idle \in Calls /\ Idle.pc = "idle" /\ Idle.op = "none" /\ Idle.sid = 0
  <1>1. 0 \in 0..MaxStarts
    BY DebugAssumption
  <1> QED
    BY <1>1 DEF Idle, Calls

\* Return: no call is served.
LEMMA ReturnFacts ==
    ASSUME Return
    PROVE  /\ call' = Idle /\ call' \in Calls /\ lock' \in BOOLEAN
           /\ call'.pc = "idle" /\ call'.op = "none" /\ call'.sid = 0
  BY IdleTyped DEF Return

\* One gdb is replaced.
LEMMA GdbSet ==
    ASSUME NEW G \in [Sessions -> Gdbs], NEW s \in Sessions, NEW g \in Gdbs
    PROVE  /\ [G EXCEPT ![s] = g] \in [Sessions -> Gdbs]
           /\ [G EXCEPT ![s] = g][s] = g
           /\ \A t \in Sessions : t # s => [G EXCEPT ![s] = g][t] = G[t]
  OBVIOUS

\* One field of a gdb is replaced: its link, ...
LEMMA GdbLink ==
    ASSUME NEW g \in Gdbs, NEW v \in {"none", "up", "dead"}
    PROVE  LET h == [g EXCEPT !.link = v]
           IN h \in Gdbs /\ h.link = v /\ h.bps = g.bps /\ h.mods = g.mods /\ h.stop = g.stop /\ h.dirty = g.dirty
  BY DEF Gdbs

\* ... its breakpoints, ...
LEMMA GdbBps ==
    ASSUME NEW g \in Gdbs, NEW v \in SUBSET Locations
    PROVE  LET h == [g EXCEPT !.bps = v]
           IN h \in Gdbs /\ h.link = g.link /\ h.bps = v /\ h.mods = g.mods /\ h.stop = g.stop /\ h.dirty = g.dirty
  BY DEF Gdbs

\* ... its modules, ...
LEMMA GdbMods ==
    ASSUME NEW g \in Gdbs, NEW v \in SUBSET Addresses
    PROVE  LET h == [g EXCEPT !.mods = v]
           IN h \in Gdbs /\ h.link = g.link /\ h.bps = g.bps /\ h.mods = v /\ h.stop = g.stop /\ h.dirty = g.dirty
  BY DEF Gdbs

\* ... its pending stop, ...
LEMMA GdbStop ==
    ASSUME NEW g \in Gdbs, NEW v \in BOOLEAN
    PROVE  LET h == [g EXCEPT !.stop = v]
           IN h \in Gdbs /\ h.link = g.link /\ h.bps = g.bps /\ h.mods = g.mods /\ h.stop = v /\ h.dirty = g.dirty
  BY DEF Gdbs

\* ... and what of it is not recorded.
LEMMA GdbDirty ==
    ASSUME NEW g \in Gdbs, NEW v \in SUBSET {"bps", "mods"}
    PROVE  LET h == [g EXCEPT !.dirty = v]
           IN h \in Gdbs /\ h.link = g.link /\ h.bps = g.bps /\ h.mods = g.mods /\ h.stop = g.stop /\ h.dirty = v
  BY DEF Gdbs

\* A session without a gdb has nothing in it.
LEMMA NoGdbTyped ==
    /\ NoGdb \in Gdbs /\ NoGdb.link = "none" /\ ~NoGdb.stop
    /\ NoGdb.bps = {} /\ NoGdb.mods = {} /\ NoGdb.dirty = {}
  BY DEF NoGdb, Gdbs

\* force_resume(): the session has no gdb, the others keep theirs, and a kernel that
\* this session held runs.
LEMMA ForceResumeFacts ==
    ASSUME Typed, NEW s \in Sessions, ForceResume(s)
    PROVE  /\ gdb' \in [Sessions -> Gdbs] /\ gdb'[s] = NoGdb
           /\ \A t \in Sessions : t # s => gdb'[t] = gdb[t]
           /\ live' = live \ {s} /\ kernel' \in {"running", "stopped", "off"}
           /\ kernel' = "stopped" => kernel = "stopped" /\ (gdb[s] = NoGdb \/ stray)
           /\ kernel' # "stopped" => kernel' = kernel \/ kernel = "stopped"
  BY NoGdbTyped DEF Typed, ForceResume

\* The state as its types give it, the fields of its records by themselves.
LEMMA Shape ==
    ASSUME DebugInv
    PROVE  /\ call \in Calls /\ call.op \in {"none", "start", "end", "break"} \cup EngineOps
           /\ call.sid \in 0..MaxStarts /\ (call # Idle => call.sid \in Sessions)
           /\ call.pc = "idle" <=> call = Idle
           /\ call.op = "none" <=> call = Idle
           /\ record \in Records /\ record.sid \in 0..MaxStarts /\ record.gen \in 0..MaxGen
           /\ record # NoRecord => record.sid \in Sessions /\ record.exec # "none"
           /\ dbg \in Steps /\ dbg.sid \in 0..MaxStarts /\ (dbg # NoStep => dbg.sid \in Sessions)
           /\ starts \in Nat /\ MaxStarts \in Nat /\ MaxGen \in Nat /\ gen \in Nat
  BY DebugAssumption DEF DebugInv, Typed, CallOk, Calls, Records, Steps, Sessions, Idle

\* The registered sessions are sessions.
LEMMA LiveTyped == DebugInv => live \subseteq Sessions
  BY DEF DebugInv, Typed

\* Only the execution state of the record is written.
LEMMA ExecFacts ==
    ASSUME DebugInv, NEW e \in {"executing", "halted", "unknown"}, record # NoRecord, WriteExec(e)
    PROVE  /\ record' \in Records /\ record' # NoRecord /\ record'.sid = record.sid
           /\ record'.gen = record.gen /\ record'.exec = e
           /\ record'.sid # 0 /\ record'.gen # 0
  BY DEF DebugInv, Typed, Records, WriteExec, NoRecord

\* A call that is refused, or answered from the record, changes nothing.
LEMMA Stutters ==
    ASSUME DebugInv, UNCHANGED vars
    PROVE  DebugInv'
  <1>1. UNCHANGED <<gen, kernel, record, parked, dbg, file, live, gdb, starts, stray, failed, unmarked, call, lock>>
    BY DEF vars, svars, dvars, evars, cvars, hvars
  <1>2. Typed'
    BY <1>1 DEF DebugInv, Typed
  <1>3. CallOk' /\ Fresh'
    BY <1>1, Shape DEF DebugInv, CallOk, Fresh, Idle, StartPoints, WorkPoints, FailurePoints,
       EndPoints, EngineOps, MutatorOps, ReadOps
  <1>4. Served'
    BY <1>1, Shape DEF DebugInv, Served, Idle, NoRecord, StartPoints, WorkPoints, FailurePoints,
       EndPoints, EngineOps, MutatorOps, ReadOps
  <1>5. Registered' /\ Connected'
    BY <1>1, LiveTyped DEF DebugInv, Registered, Connected, Holder, Up, Attached
  <1>6. Held' /\ Owned'
    BY <1>1 DEF DebugInv, Held, Found, Gated, Owned, Holder, Up, Attached, LeavesTombstone,
       Detached, FailurePoints
  <1>7. Ledger'
    BY <1>1, LiveTyped DEF DebugInv, Ledger, Changed, Unrecorded, MutatorOps
  <1> QED
    BY <1>2, <1>3, <1>4, <1>5, <1>6, <1>7 DEF DebugInv

\* enforce_debug_ownership_fence: the generation that it parks is the published one.
LEMMA NotOwnedParks ==
    ASSUME DebugInv, NEW op \in EngineOps, OpNotOwned(op)
    PROVE  DebugInv'
  <1>1. UNCHANGED <<gen, kernel, record, dbg, file, live, gdb, starts, stray, failed, unmarked, call, lock>>
    BY DEF OpNotOwned, Refused, dvars, evars, hvars
  <1>2. parked' = gen \/ parked' = parked
    BY DEF OpNotOwned
  <1>3. gen \in 0..MaxGen
    BY Shape DEF DebugInv, Typed
  <1>4. Typed'
    BY <1>1, <1>2, <1>3 DEF DebugInv, Typed
  <1>5. CallOk' /\ Fresh'
    BY <1>1, <1>2, <1>3, Shape DEF DebugInv, CallOk, Fresh, Idle, StartPoints, WorkPoints,
       FailurePoints, EndPoints, EngineOps, MutatorOps, ReadOps
  <1>6. Served'
    BY <1>1, <1>2, <1>3, Shape DEF DebugInv, Served, Idle, NoRecord, StartPoints, WorkPoints,
       FailurePoints, EndPoints, EngineOps, MutatorOps, ReadOps
  <1>7. Registered' /\ Connected'
    BY <1>1, <1>2, <1>3, LiveTyped DEF DebugInv, Registered, Connected, Holder, Up, Attached
  <1>8. Held' /\ Owned'
    BY <1>1, <1>2, <1>3 DEF DebugInv, Held, Found, Gated, Owned, Holder, Up, Attached,
       LeavesTombstone, Detached, FailurePoints
  <1>9. Ledger'
    BY <1>1, <1>2, <1>3, LiveTyped DEF DebugInv, Ledger, Changed, Unrecorded, MutatorOps
  <1> QED
    BY <1>4, <1>5, <1>6, <1>7, <1>8, <1>9 DEF DebugInv

\* start_session opens a transport session only while nothing is attached that is gated.
LEMMA StartOpens ==
    ASSUME DebugInv, NEW new \in BOOLEAN, StartOpen(new)
    PROVE  DebugInv'
  <1>1. /\ call = Idle /\ record = NoRecord /\ starts + 1 \in Sessions /\ starts \in Nat
        /\ UNCHANGED <<gen, kernel, parked, dbg, file, live, gdb, stray, failed, unmarked>>
    BY Shape DEF StartOpen, Begin, Sessions, dvars, evars, hvars
  <1>2. Attached => stray \/ unmarked
    BY <1>1 DEF DebugInv, Held, Gated, LeavesTombstone, StartOpen, NoRecord
  <1>3. /\ call' \in Calls /\ call'.op = "start" /\ call'.sid = starts + 1 /\ call'.pc = "halt" /\ call'.arg = {}
        /\ lock' = TRUE /\ starts' = starts + 1 /\ starts' \in 0..MaxStarts
    BY <1>1, Shape DEF StartOpen, Begin, Calls, Sessions, StartPoints
  <1>4. /\ record' \in Records /\ record'.sid = starts + 1 /\ record'.gen = gen /\ record'.exec = "executing"
        /\ gen # 0 /\ starts + 1 # 0
    BY <1>1, Shape DEF DebugInv, Typed, StartOpen, Records, Sessions
  <1>5. \A s \in Sessions : ~gdb[s].stop /\ (gdb[s].link = "up" => kernel = "stopped" /\ s = dbg.sid)
    BY <1>1, IdleTyped DEF DebugInv, Up, Connected, Holder
  <1>6. /\ call.pc = "idle" /\ call.op = "none" /\ call.sid = 0 /\ dbg.sid <= starts + 1
        /\ \A s \in Sessions : s > starts + 1 => s > starts
    BY <1>1, Shape DEF DebugInv, Fresh, Idle, Sessions
  <1>7. starts + 1 \notin live /\ gdb[starts + 1] = NoGdb /\ file[starts + 1] = NoFile
    BY <1>1 DEF DebugInv, Fresh, Sessions
  <1>8. live \subseteq Sessions /\ 0 \notin Sessions
    BY DEF DebugInv, Typed, Sessions
  <1>9. Typed'
    BY <1>1, <1>2, <1>3, <1>4, <1>5, <1>6, <1>7, <1>8 DEF DebugInv, Typed
  <1>10. CallOk' /\ Fresh'
    BY <1>1, <1>2, <1>3, <1>4, <1>5, <1>6, <1>7, <1>8, Shape DEF DebugInv, CallOk, Fresh, Idle,
       StartPoints, WorkPoints, FailurePoints, EndPoints, EngineOps, MutatorOps, ReadOps
  <1>11. Served'
    BY <1>1, <1>2, <1>3, <1>4, <1>5, <1>6, <1>7, <1>8, Shape DEF DebugInv, Served, Idle, NoRecord,
       StartPoints, WorkPoints, FailurePoints, EndPoints, EngineOps, MutatorOps, ReadOps
  <1>12. Registered' /\ Connected'
    BY <1>1, <1>2, <1>3, <1>5, <1>6, <1>7, LiveTyped DEF DebugInv, Registered, Connected, Holder,
       Up, Attached
  <1>13. Held' /\ Owned'
    BY <1>1, <1>2, <1>3, <1>4, <1>5, <1>6, <1>7, <1>8 DEF DebugInv, Held, Found, Gated, Owned,
       Holder, Up, Attached, LeavesTombstone, Detached, FailurePoints
  <1>14. Ledger'
    BY <1>1, <1>3, <1>6, <1>7, <1>8, LiveTyped DEF DebugInv, Ledger, Changed, Unrecorded, MutatorOps
  <1> QED
    BY <1>9, <1>10, <1>11, <1>12, <1>13, <1>14 DEF DebugInv

\* halt_debug_transport: the record says HALTED, nothing is attached yet.
LEMMA StartHalts ==
    ASSUME DebugInv, StartHalt
    PROVE  DebugInv'
  <1>1. /\ call.pc = "halt" /\ call' \in Calls /\ call.op = "start"
        /\ call'.pc = "attach" /\ call'.op = call.op /\ call'.sid = call.sid
        /\ call'.arg = call.arg /\ lock' = lock
    BY GotoFacts DEF DebugInv, StartHalt, Pcs, StartPoints, WorkPoints, FailurePoints, EndPoints
  <1>2. record # NoRecord
    BY <1>1, Shape DEF DebugInv, Served, NoRecord, Idle, Sessions
  <1>3. /\ record' \in Records /\ record' # NoRecord /\ record'.sid = record.sid
        /\ record'.gen = record.gen /\ record'.exec = "halted" /\ record'.sid # 0 /\ record'.gen # 0
    BY <1>2, ExecFacts DEF StartHalt
  <1>4. UNCHANGED <<gen, kernel, parked, dbg, file, live, gdb, starts, stray, failed, unmarked>>
    BY DEF StartHalt, svars, dvars, evars, hvars
  <1>5. Typed'
    BY <1>1, <1>2, <1>3, <1>4 DEF DebugInv, Typed
  <1>6. CallOk' /\ Fresh'
    BY <1>1, <1>2, <1>3, <1>4, Shape DEF DebugInv, CallOk, Fresh, Idle, StartPoints, WorkPoints,
       FailurePoints, EndPoints, EngineOps, MutatorOps, ReadOps
  <1>7. Served'
    BY <1>1, <1>2, <1>3, <1>4, Shape DEF DebugInv, Served, Idle, NoRecord, StartPoints,
       WorkPoints, FailurePoints, EndPoints, EngineOps, MutatorOps, ReadOps
  <1>8. Registered' /\ Connected'
    BY <1>1, <1>2, <1>3, <1>4, LiveTyped DEF DebugInv, Registered, Connected, Holder, Up, Attached
  <1>9. Held' /\ Owned'
    BY <1>1, <1>2, <1>3, <1>4 DEF DebugInv, Held, Found, Gated, Owned, Holder, Up, Attached,
       LeavesTombstone, Detached, FailurePoints
  <1>10. Ledger'
    BY <1>1, <1>2, <1>3, <1>4, LiveTyped DEF DebugInv, Ledger, Changed, Unrecorded, MutatorOps
  <1> QED
    BY <1>5, <1>6, <1>7, <1>8, <1>9, <1>10 DEF DebugInv

\* The halt of the record raises: the session stays open and nothing was attached.
LEMMA StartHaltFailsOk ==
    ASSUME DebugInv, StartHaltFails
    PROVE  DebugInv'
  <1>1. call.op = "start" /\ call.pc = "halt"
    BY DEF StartHaltFails
  <1>2. /\ call' = Idle /\ call' \in Calls /\ lock' \in BOOLEAN
        /\ call'.pc = "idle" /\ call'.op = "none" /\ call'.sid = 0
    BY ReturnFacts DEF StartHaltFails
  <1>3. UNCHANGED <<gen, kernel, record, parked, dbg, file, live, gdb, starts, stray, unmarked>> /\ failed' = TRUE
    BY DEF StartHaltFails, svars, dvars, evars, hvars
  <1>4. Attached => stray \/ unmarked
    BY <1>1 DEF DebugInv, Held, Found, Gated, Detached
  <1>5. Typed'
    BY <1>1, <1>2, <1>3, <1>4 DEF DebugInv, Typed
  <1>6. CallOk' /\ Fresh'
    BY <1>1, <1>2, <1>3, <1>4, Shape DEF DebugInv, CallOk, Fresh, Idle, StartPoints, WorkPoints,
       FailurePoints, EndPoints, EngineOps, MutatorOps, ReadOps
  <1>7. Served'
    BY <1>1, <1>2, <1>3, <1>4, Shape DEF DebugInv, Served, Idle, NoRecord, StartPoints,
       WorkPoints, FailurePoints, EndPoints, EngineOps, MutatorOps, ReadOps
  <1>8. Registered' /\ Connected'
    BY <1>1, <1>2, <1>3, <1>4, LiveTyped DEF DebugInv, Registered, Connected, Holder, Up, Attached
  <1>9. Held' /\ Owned'
    BY <1>1, <1>2, <1>3, <1>4 DEF DebugInv, Held, Found, Gated, Owned, Holder, Up, Attached,
       LeavesTombstone, Detached, FailurePoints
  <1>10. Ledger'
    BY <1>1, <1>2, <1>3, <1>4, LiveTyped DEF DebugInv, Ledger, Changed, Unrecorded, MutatorOps
  <1> QED
    BY <1>5, <1>6, <1>7, <1>8, <1>9, <1>10 DEF DebugInv

\* The file of no session.
LEMMA NoFileTyped == NoFile \in Files /\ NoFile.exec = "none" /\ NoFile.bps = {} /\ NoFile.mods = {}
  BY DEF NoFile, Files

\* One file is replaced.
LEMMA FileSet ==
    ASSUME NEW F \in [Sessions -> Files], NEW s \in Sessions, NEW f \in Files
    PROVE  /\ [F EXCEPT ![s] = f] \in [Sessions -> Files]
           /\ [F EXCEPT ![s] = f][s] = f
           /\ \A t \in Sessions : t # s => [F EXCEPT ![s] = f][t] = F[t]
  OBVIOUS

\* teardown(): the record goes, or its loss is noted, and what is parked is a generation.
LEMMA TeardownFacts ==
    ASSUME DebugInv, NEW force \in BOOLEAN, Teardown(force)
    PROVE  /\ record' = record \/ record' = NoRecord
           /\ parked' \in 0..MaxGen
           /\ failed' \in BOOLEAN /\ (failed => failed')
           /\ record' # NoRecord => failed'
           /\ unmarked' \in BOOLEAN /\ (unmarked => unmarked') /\ stray' = stray
  <1>1. record.gen \in 0..MaxGen
    BY Shape
  <1> QED
    BY <1>1 DEF DebugInv, Typed, Teardown, Closed

\* The record of no session.
LEMMA NoRecordTyped == NoRecord \in Records /\ NoRecord.sid = 0
  <1>1. 0 \in 0..MaxStarts /\ 0 \in 0..MaxGen
    BY DebugAssumption
  <1> QED
    BY <1>1 DEF NoRecord, Records

\* attach(): the one gdb that is connected is that of the session being started, whose
\* record says HALTED.
LEMMA StartAttaches ==
    ASSUME DebugInv, StartAttach
    PROVE  DebugInv'
  <1>1. /\ call.pc = "attach" /\ call' \in Calls /\ call.op = "start"
        /\ call'.pc = "probe" /\ call'.op = call.op /\ call'.sid = call.sid
        /\ call'.arg = call.arg /\ lock' = lock
    BY GotoFacts DEF DebugInv, StartAttach, Pcs, StartPoints, WorkPoints, FailurePoints, EndPoints
  <1>2. /\ call.sid \in Sessions /\ gdb[call.sid] = NoGdb /\ call.sid \notin live
        /\ record.sid = call.sid /\ record.gen = gen /\ record.exec = "halted" /\ file[call.sid] = NoFile
    BY <1>1, Shape DEF DebugInv, Served, Idle
  <1>3. ~stray /\ \A s \in Sessions : gdb[s].link # "up"
    BY DEF StartAttach, StubFree
  <1>4. gdb' = [gdb EXCEPT ![call.sid] = [NoGdb EXCEPT !.link = "up"]]
    BY <1>2 DEF StartAttach, DebugInv, Typed
  <1>5. LET g == [NoGdb EXCEPT !.link = "up"]
        IN /\ g \in Gdbs /\ g.link = "up" /\ g.bps = {} /\ g.mods = {}
           /\ ~g.stop /\ g.dirty = {}
    BY NoGdbTyped, GdbLink
  <1>6. /\ gdb' \in [Sessions -> Gdbs] /\ gdb'[call.sid].link = "up"
        /\ gdb'[call.sid].bps = {} /\ gdb'[call.sid].mods = {} /\ ~gdb'[call.sid].stop
        /\ gdb'[call.sid].dirty = {}
        /\ \A t \in Sessions : t # call.sid => gdb'[t] = gdb[t]
    BY <1>2, <1>4, <1>5, GdbSet DEF DebugInv, Typed
  <1>7. UNCHANGED <<gen, record, parked, dbg, file, live, starts, stray, failed, unmarked>> /\ kernel' = "stopped"
    BY DEF StartAttach, dvars, hvars
  <1>8. \A s \in Sessions : gdb[s].link # "up" /\ ~gdb[s].stop
    BY <1>3 DEF DebugInv, Up, Connected
  <1>9. Typed'
    BY <1>1, <1>2, <1>3, <1>4, <1>5, <1>6, <1>7, <1>8 DEF DebugInv, Typed
  <1>10. CallOk' /\ Fresh'
    BY <1>1, <1>2, <1>3, <1>4, <1>5, <1>6, <1>7, <1>8, Shape DEF DebugInv, CallOk, Fresh, Idle,
       StartPoints, WorkPoints, FailurePoints, EndPoints, EngineOps, MutatorOps, ReadOps
  <1>11. Served'
    BY <1>1, <1>2, <1>3, <1>4, <1>5, <1>6, <1>7, <1>8, Shape DEF DebugInv, Served, Idle, NoRecord,
       StartPoints, WorkPoints, FailurePoints, EndPoints, EngineOps, MutatorOps, ReadOps
  <1>12. Registered' /\ Connected'
    BY <1>1, <1>2, <1>3, <1>4, <1>5, <1>6, <1>7, <1>8, LiveTyped DEF DebugInv, Registered,
       Connected, Holder, Up, Attached
  <1>13. Held' /\ Owned'
    BY <1>1, <1>2, <1>3, <1>4, <1>5, <1>6, <1>7, <1>8 DEF DebugInv, Held, Found, Gated, Owned,
       Holder, Up, Attached, LeavesTombstone, Detached, FailurePoints
  <1>14. Ledger'
    BY <1>1, <1>2, <1>3, <1>4, <1>5, <1>6, <1>7, <1>8, LiveTyped DEF DebugInv, Ledger, Changed,
       Unrecorded, MutatorOps
  <1> QED
    BY <1>9, <1>10, <1>11, <1>12, <1>13, <1>14 DEF DebugInv

\* attach() fails: nothing is attached.
LEMMA StartAttachFailsOk ==
    ASSUME DebugInv, StartAttachFails
    PROVE  DebugInv'
  <1>1. /\ call.pc = "attach" /\ call' \in Calls /\ call.op = "start"
        /\ call'.pc = "unhalt" /\ call'.op = call.op /\ call'.sid = call.sid
        /\ call'.arg = call.arg /\ lock' = lock
    BY GotoFacts DEF DebugInv, StartAttachFails, Pcs, StartPoints, WorkPoints, FailurePoints,
       EndPoints
  <1>2. UNCHANGED <<gen, kernel, record, parked, dbg, file, live, gdb, starts, stray, failed, unmarked>>
    BY DEF StartAttachFails, svars, dvars, evars, hvars
  <1>3. Attached => stray \/ unmarked
    BY <1>1 DEF DebugInv, Held, Found, Gated, Detached
  <1>4. Typed'
    BY <1>1, <1>2, <1>3 DEF DebugInv, Typed
  <1>5. CallOk' /\ Fresh'
    BY <1>1, <1>2, <1>3, Shape DEF DebugInv, CallOk, Fresh, Idle, StartPoints, WorkPoints,
       FailurePoints, EndPoints, EngineOps, MutatorOps, ReadOps
  <1>6. Served'
    BY <1>1, <1>2, <1>3, Shape DEF DebugInv, Served, Idle, NoRecord, StartPoints, WorkPoints,
       FailurePoints, EndPoints, EngineOps, MutatorOps, ReadOps
  <1>7. Registered' /\ Connected'
    BY <1>1, <1>2, <1>3, LiveTyped DEF DebugInv, Registered, Connected, Holder, Up, Attached
  <1>8. Held' /\ Owned'
    BY <1>1, <1>2, <1>3 DEF DebugInv, Held, Found, Gated, Owned, Holder, Up, Attached,
       LeavesTombstone, Detached, FailurePoints
  <1>9. Ledger'
    BY <1>1, <1>2, <1>3, LiveTyped DEF DebugInv, Ledger, Changed, Unrecorded, MutatorOps
  <1> QED
    BY <1>4, <1>5, <1>6, <1>7, <1>8, <1>9 DEF DebugInv

\* attach() raises past its own clean-up: the one gdb that is connected is a stray one.
LEMMA AttachesEscape ==
    ASSUME DebugInv, StartAttachEscapes
    PROVE  DebugInv'
  <1>1. /\ call.pc = "attach" /\ call' \in Calls /\ call.op = "start"
        /\ call'.pc = "unhalt" /\ call'.op = call.op /\ call'.sid = call.sid
        /\ call'.arg = call.arg /\ lock' = lock
    BY GotoFacts DEF DebugInv, StartAttachEscapes, Pcs, StartPoints, WorkPoints, FailurePoints,
       EndPoints
  <1>2. /\ UNCHANGED <<gen, record, parked, dbg, file, live, gdb, starts, failed, unmarked>>
        /\ stray' = TRUE /\ kernel' = "stopped"
    BY DEF StartAttachEscapes, dvars, evars
  <1>3. \A s \in Sessions : gdb[s].link # "up" /\ ~gdb[s].stop
    BY DEF StartAttachEscapes, StubFree, DebugInv, Up, Connected
  <1>4. Typed'
    BY <1>1, <1>2 DEF DebugInv, Typed
  <1>5. CallOk' /\ Fresh'
    BY <1>1, <1>2, Shape DEF DebugInv, CallOk, Fresh, Idle, StartPoints, WorkPoints,
       FailurePoints, EndPoints, EngineOps, MutatorOps, ReadOps
  <1>6. Served'
    BY <1>1, <1>2, Shape DEF DebugInv, Served, Idle, NoRecord, StartPoints, WorkPoints,
       FailurePoints, EndPoints, EngineOps, MutatorOps, ReadOps
  <1>7. Registered' /\ Connected'
    BY <1>1, <1>2, <1>3, LiveTyped DEF DebugInv, Registered, Connected, Up
  <1>8. Held' /\ Owned'
    BY <1>1, <1>2 DEF DebugInv, Held, Found, Gated, Owned
  <1>9. Ledger'
    BY <1>1, <1>2, LiveTyped DEF DebugInv, Ledger, Changed, Unrecorded, MutatorOps
  <1> QED
    BY <1>4, <1>5, <1>6, <1>7, <1>8, <1>9 DEF DebugInv

\* The registration of the session that was attached.
LEMMA StartProbes ==
    ASSUME DebugInv, StartProbe
    PROVE  DebugInv'
  <1>1. /\ call.pc = "probe" /\ call' \in Calls /\ call.op = "start"
        /\ call'.pc = "file" /\ call'.op = call.op /\ call'.sid = call.sid
        /\ call'.arg = call.arg /\ lock' = lock
    BY GotoFacts DEF DebugInv, StartProbe, Pcs, StartPoints, WorkPoints, FailurePoints, EndPoints
  <1>2. call.sid \in Sessions /\ call.sid \notin live /\ live' = live \cup {call.sid}
    BY <1>1, Shape DEF DebugInv, Served, Idle, StartProbe
  <1>3. /\ gdb[call.sid].link # "none" /\ gdb[call.sid].bps = {} /\ gdb[call.sid].mods = {}
        /\ file[call.sid].bps = {} /\ file[call.sid].mods = {}
    BY <1>1, NoFileTyped DEF DebugInv, Served
  <1>4. UNCHANGED <<gen, kernel, record, parked, dbg, file, gdb, starts, stray, failed, unmarked>>
    BY DEF StartProbe, svars, dvars, evars, hvars
  <1>5. Typed'
    BY <1>1, <1>2, <1>3, <1>4 DEF DebugInv, Typed
  <1>6. CallOk' /\ Fresh'
    BY <1>1, <1>2, <1>3, <1>4, Shape DEF DebugInv, CallOk, Fresh, Idle, StartPoints, WorkPoints,
       FailurePoints, EndPoints, EngineOps, MutatorOps, ReadOps
  <1>7. Served'
    BY <1>1, <1>2, <1>3, <1>4, Shape DEF DebugInv, Served, Idle, NoRecord, StartPoints,
       WorkPoints, FailurePoints, EndPoints, EngineOps, MutatorOps, ReadOps
  <1>8. Registered' /\ Connected'
    BY <1>1, <1>2, <1>3, <1>4, LiveTyped DEF DebugInv, Registered, Connected, Holder, Up, Attached
  <1>9. Held' /\ Owned'
    BY <1>1, <1>2, <1>3, <1>4 DEF DebugInv, Held, Found, Gated, Owned, Holder, Up, Attached,
       LeavesTombstone, Detached, FailurePoints
  <1>10. Ledger'
    BY <1>1, <1>2, <1>3, <1>4, LiveTyped DEF DebugInv, Ledger, Changed, Unrecorded, MutatorOps
  <1> QED
    BY <1>5, <1>6, <1>7, <1>8, <1>9, <1>10 DEF DebugInv

\* The DebugSession file of the session that was attached.
LEMMA StartFiles ==
    ASSUME DebugInv, StartFile
    PROVE  DebugInv'
  <1>1. /\ call.pc = "file" /\ call' \in Calls /\ call.op = "start"
        /\ call'.pc = "step" /\ call'.op = call.op /\ call'.sid = call.sid
        /\ call'.arg = call.arg /\ lock' = lock
    BY GotoFacts DEF DebugInv, StartFile, Pcs, StartPoints, WorkPoints, FailurePoints, EndPoints
  <1>2. call.sid \in Sessions /\ call.sid <= starts
    BY <1>1, Shape DEF DebugInv, Fresh, Idle
  <1>3. [exec |-> "stopped", bps |-> {}, mods |-> {}] \in Files
    BY DEF Files
  <1>4. NoFile.exec = "none"
    BY NoFileTyped
  <1>5. /\ file' \in [Sessions -> Files] 
        /\ file'[call.sid] = [exec |-> "stopped", bps |-> {}, mods |-> {}]
        /\ \A t \in Sessions : t # call.sid => file'[t] = file[t]
    BY <1>2, <1>3, FileSet DEF StartFile, DebugInv, Typed
  <1>6. file'[call.sid].exec = "stopped" /\ file'[call.sid].bps = {} /\ file'[call.sid].mods = {}
    BY <1>5
  <1>7. file'[call.sid] # NoFile
    BY <1>4, <1>6
  <1>8. gdb[call.sid].bps = {} /\ gdb[call.sid].mods = {}
    BY <1>1 DEF DebugInv, Served
  <1>9. dbg # NoStep => dbg.sid \in Sessions
    BY Shape
  <1>10. UNCHANGED <<gen, kernel, record, parked, dbg, live, gdb, starts, stray, failed, unmarked>>
    BY DEF StartFile, svars, dvars, evars, hvars
  <1>11. Typed'
    BY <1>1, <1>2, <1>3, <1>4, <1>5, <1>6, <1>7, <1>8, <1>9, <1>10 DEF DebugInv, Typed
  <1>12. CallOk' /\ Fresh'
    BY <1>1, <1>2, <1>3, <1>4, <1>5, <1>6, <1>7, <1>8, <1>9, <1>10, Shape DEF DebugInv, CallOk,
       Fresh, Idle, StartPoints, WorkPoints, FailurePoints, EndPoints, EngineOps, MutatorOps,
       ReadOps
  <1>13. Served'
    BY <1>1, <1>2, <1>3, <1>4, <1>5, <1>6, <1>7, <1>8, <1>9, <1>10, Shape DEF DebugInv, Served,
       Idle, NoRecord, StartPoints, WorkPoints, FailurePoints, EndPoints, EngineOps, MutatorOps,
       ReadOps
  <1>14. Registered' /\ Connected'
    BY <1>1, <1>2, <1>3, <1>4, <1>5, <1>6, <1>7, <1>8, <1>9, <1>10, LiveTyped DEF DebugInv,
       Registered, Connected, Holder, Up, Attached
  <1>15. Held' /\ Owned'
    BY <1>1, <1>2, <1>3, <1>4, <1>5, <1>6, <1>7, <1>8, <1>9, <1>10 DEF DebugInv, Held, Found, Gated,
       Owned, Holder, Up, Attached, LeavesTombstone, Detached, FailurePoints
  <1>16. Ledger'
    BY <1>1, <1>2, <1>3, <1>4, <1>5, <1>6, <1>7, <1>8, <1>9, <1>10, LiveTyped DEF DebugInv,
       Ledger, Changed, Unrecorded, MutatorOps
  <1> QED
    BY <1>11, <1>12, <1>13, <1>14, <1>15, <1>16 DEF DebugInv

\* The step of the manifest names the session that was attached.
LEMMA StartSteps ==
    ASSUME DebugInv, StartStep
    PROVE  DebugInv'
  <1>1. call.op = "start" /\ call.pc = "step"
    BY DEF StartStep
  <1>2. /\ call' = Idle /\ call' \in Calls /\ lock' \in BOOLEAN
        /\ call'.pc = "idle" /\ call'.op = "none" /\ call'.sid = 0
    BY ReturnFacts DEF StartStep
  <1>3. /\ call.sid \in Sessions /\ call.sid <= starts /\ record.sid = call.sid
        /\ file[call.sid] # NoFile /\ call.sid \in live
    BY <1>1, Shape DEF DebugInv, Fresh, Idle, Served, NoFile
  <1>4. /\ dbg' \in Steps /\ dbg'.sid = call.sid /\ dbg'.exec = "stopped" /\ call.sid # 0
    BY <1>3, Shape DEF StartStep, Steps, Sessions
  <1>5. UNCHANGED <<gen, kernel, record, parked, file, live, gdb, starts, stray, failed, unmarked>>
    BY DEF StartStep, svars, dvars, evars, hvars
  <1>6. Typed'
    BY <1>1, <1>2, <1>3, <1>4, <1>5 DEF DebugInv, Typed
  <1>7. CallOk' /\ Fresh'
    BY <1>1, <1>2, <1>3, <1>4, <1>5, Shape DEF DebugInv, CallOk, Fresh, Idle, StartPoints,
       WorkPoints, FailurePoints, EndPoints, EngineOps, MutatorOps, ReadOps
  <1>8. Served'
    BY <1>1, <1>2, <1>3, <1>4, <1>5, Shape DEF DebugInv, Served, Idle, NoRecord, StartPoints,
       WorkPoints, FailurePoints, EndPoints, EngineOps, MutatorOps, ReadOps
  <1>9. Registered' /\ Connected'
    BY <1>1, <1>2, <1>3, <1>4, <1>5, LiveTyped DEF DebugInv, Registered, Connected, Holder, Up,
       Attached
  <1>10. Held' /\ Owned'
    BY <1>1, <1>2, <1>3, <1>4, <1>5 DEF DebugInv, Held, Found, Gated, Owned, Holder, Up, Attached,
       LeavesTombstone, Detached, FailurePoints
  <1>11. Ledger'
    BY <1>1, <1>2, <1>3, <1>4, <1>5, LiveTyped DEF DebugInv, Ledger, Changed, Unrecorded, MutatorOps
  <1> QED
    BY <1>6, <1>7, <1>8, <1>9, <1>10, <1>11 DEF DebugInv

\* The probe or the recording fails: the gdb of the session goes and the kernel runs.
LEMMA StartAbandons ==
    ASSUME DebugInv, StartAbandon
    PROVE  DebugInv'
  <1>1. /\ call.op = "start" /\ call.pc \in {"probe", "file", "step"} /\ call' \in Calls
        /\ call'.pc = "unhalt" /\ call'.op = call.op /\ call'.sid = call.sid
        /\ call'.arg = call.arg /\ lock' = lock
    BY GotoFacts DEF DebugInv, StartAbandon, Pcs, FailurePoints
  <1>2. /\ call.sid \in Sessions /\ call.sid <= starts /\ gdb[call.sid].link # "none"
    BY <1>1, Shape DEF DebugInv, Served, Fresh, Idle
  <1>3. /\ gdb' \in [Sessions -> Gdbs] /\ gdb'[call.sid] = NoGdb /\ live' = live \ {call.sid}
        /\ \A t \in Sessions : t # call.sid => gdb'[t] = gdb[t]
        /\ kernel' \in {"running", "stopped", "off"}
        /\ kernel' = "stopped" => kernel = "stopped" /\ (gdb[call.sid] = NoGdb \/ stray)
    BY <1>2, ForceResumeFacts DEF DebugInv, StartAbandon
  <1>4. /\ kernel' # "stopped" \/ stray
        /\ \A s \in Sessions : gdb'[s].link # "up" /\ ~gdb'[s].stop
    BY <1>1, <1>2, <1>3, NoGdbTyped DEF DebugInv, Connected, Up, Holder
  <1>5. UNCHANGED <<gen, record, parked, dbg, file, starts, stray, failed, unmarked>>
    BY DEF StartAbandon, dvars, hvars
  <1>6. Typed'
    BY <1>1, <1>2, <1>3, <1>4, <1>5 DEF DebugInv, Typed
  <1>7. CallOk' /\ Fresh'
    BY <1>1, <1>2, <1>3, <1>4, <1>5, Shape DEF DebugInv, CallOk, Fresh, Idle, StartPoints,
       WorkPoints, FailurePoints, EndPoints, EngineOps, MutatorOps, ReadOps
  <1>8. Served'
    BY <1>1, <1>2, <1>3, <1>4, <1>5, Shape DEF DebugInv, Served, Idle, NoRecord, StartPoints,
       WorkPoints, FailurePoints, EndPoints, EngineOps, MutatorOps, ReadOps
  <1>9. Registered' /\ Connected'
    BY <1>1, <1>2, <1>3, <1>4, <1>5, LiveTyped, NoGdbTyped DEF DebugInv, Registered, Connected,
       Holder, Up, Attached
  <1>10. Held' /\ Owned'
    BY <1>1, <1>2, <1>3, <1>4, <1>5 DEF DebugInv, Held, Found, Gated, Owned, Holder, Up, Attached,
       LeavesTombstone, Detached, FailurePoints
  <1>11. Ledger'
    BY <1>1, <1>2, <1>3, <1>4, <1>5, LiveTyped DEF DebugInv, Ledger, Changed, Unrecorded, MutatorOps
  <1> QED
    BY <1>6, <1>7, <1>8, <1>9, <1>10, <1>11 DEF DebugInv

\* resume_debug_transport: the record says EXECUTING after nothing is attached any more.
LEMMA UnhaltsRecord ==
    ASSUME DebugInv, UnhaltRecord
    PROVE  DebugInv'
  <1>1. /\ call.pc = "unhalt" /\ call' \in Calls
        /\ call'.pc = "close" /\ call'.op = call.op /\ call'.sid = call.sid
        /\ call'.arg = call.arg /\ lock' = lock
    BY GotoFacts DEF DebugInv, UnhaltRecord, Pcs, StartPoints, WorkPoints, FailurePoints, EndPoints
  <1>2. record # NoRecord /\ call.op \in {"start"} \cup EngineOps
    BY <1>1, Shape DEF DebugInv, CallOk, Served, NoRecord, Idle, Sessions, EndPoints, Calls
  <1>3. /\ record' \in Records /\ record' # NoRecord /\ record'.sid = record.sid
        /\ record'.gen = record.gen /\ record'.sid # 0 /\ record'.gen # 0 /\ record'.exec # "none"
    BY <1>2, ExecFacts DEF UnhaltRecord, DebugInv, Typed
  <1>4. Attached => stray \/ unmarked
    BY <1>1 DEF DebugInv, Held, Found, Gated, Detached, FailurePoints
  <1>5. UNCHANGED <<gen, kernel, parked, dbg, file, live, gdb, starts, stray, failed, unmarked>>
    BY DEF UnhaltRecord, svars, dvars, evars, hvars
  <1>6. Typed'
    BY <1>1, <1>2, <1>3, <1>4, <1>5 DEF DebugInv, Typed
  <1>7. CallOk' /\ Fresh'
    BY <1>1, <1>2, <1>3, <1>4, <1>5, Shape DEF DebugInv, CallOk, Fresh, Idle, StartPoints,
       WorkPoints, FailurePoints, EndPoints, EngineOps, MutatorOps, ReadOps
  <1>8. Served'
    BY <1>1, <1>2, <1>3, <1>4, <1>5, Shape DEF DebugInv, Served, Idle, NoRecord, StartPoints,
       WorkPoints, FailurePoints, EndPoints, EngineOps, MutatorOps, ReadOps
  <1>9. Registered' /\ Connected'
    BY <1>1, <1>2, <1>3, <1>4, <1>5, LiveTyped DEF DebugInv, Registered, Connected, Holder, Up,
       Attached
  <1>10. Held' /\ Owned'
    BY <1>1, <1>2, <1>3, <1>4, <1>5 DEF DebugInv, Held, Found, Gated, Owned, Holder, Up, Attached,
       LeavesTombstone, Detached, FailurePoints
  <1>11. Ledger'
    BY <1>1, <1>2, <1>3, <1>4, <1>5, LiveTyped DEF DebugInv, Ledger, Changed, Unrecorded, MutatorOps
  <1> QED
    BY <1>6, <1>7, <1>8, <1>9, <1>10, <1>11 DEF DebugInv

\* teardown_debug_transport, last of the failure path, when nothing is attached any more.
LEMMA FailureTeardowns ==
    ASSUME DebugInv, FailureTeardown
    PROVE  DebugInv'
  <1>1. call.pc = "close"
    BY DEF FailureTeardown
  <1>2. /\ call' = Idle /\ call' \in Calls /\ lock' \in BOOLEAN
        /\ call'.pc = "idle" /\ call'.op = "none" /\ call'.sid = 0
    BY ReturnFacts DEF FailureTeardown
  <1>3. /\ record' = record \/ record' = NoRecord
        /\ parked' \in 0..MaxGen
        /\ failed' \in BOOLEAN /\ (failed => failed')
        /\ record' # NoRecord => failed'
        /\ unmarked' \in BOOLEAN /\ (unmarked => unmarked') /\ stray' = stray
    BY TeardownFacts DEF FailureTeardown
  <1>4. NoRecord \in Records /\ NoRecord.sid = 0 /\ starts \in Nat
    BY NoRecordTyped, Shape
  <1>5. Attached => stray \/ unmarked
    BY <1>1 DEF DebugInv, Held, Found, Gated, Detached, FailurePoints
  <1>6. UNCHANGED <<gen, kernel, dbg, file, live, gdb, starts>>
    BY DEF FailureTeardown, svars, dvars, evars
  <1>7. Typed'
    BY <1>1, <1>2, <1>3, <1>4, <1>5, <1>6 DEF DebugInv, Typed
  <1>8. CallOk' /\ Fresh'
    BY <1>1, <1>2, <1>3, <1>4, <1>5, <1>6, Shape DEF DebugInv, CallOk, Fresh, Idle, StartPoints,
       WorkPoints, FailurePoints, EndPoints, EngineOps, MutatorOps, ReadOps
  <1>9. Served'
    BY <1>1, <1>2, <1>3, <1>4, <1>5, <1>6, Shape DEF DebugInv, Served, Idle, NoRecord,
       StartPoints, WorkPoints, FailurePoints, EndPoints, EngineOps, MutatorOps, ReadOps
  <1>10. Registered' /\ Connected'
    BY <1>1, <1>2, <1>3, <1>4, <1>5, <1>6, LiveTyped DEF DebugInv, Registered, Connected, Holder,
       Up, Attached
  <1>11. Held' /\ Owned'
    BY <1>1, <1>2, <1>3, <1>4, <1>5, <1>6 DEF DebugInv, Held, Found, Gated, Owned, Holder, Up,
       Attached, LeavesTombstone, Detached, FailurePoints
  <1>12. Ledger'
    BY <1>1, <1>2, <1>3, <1>4, <1>5, <1>6, LiveTyped DEF DebugInv, Ledger, Changed, Unrecorded,
       MutatorOps
  <1> QED
    BY <1>7, <1>8, <1>9, <1>10, <1>11, <1>12 DEF DebugInv

\* An operation on the attachment begins on the session that the manifest names.
LEMMA OpBegins ==
    ASSUME DebugInv, NEW op \in EngineOps, OpBegin(op)
    PROVE  DebugInv'
  <1>1. /\ call = Idle /\ record # NoRecord /\ dbg.sid \in live /\ dbg # NoStep
        /\ dbg.exec # "ended" /\ file[dbg.sid].exec = "stopped"
    BY Shape DEF OpBegin, Begin, ActiveSession, DebugInv, Typed, Files
  <1>2. /\ call' \in Calls /\ call'.op = op /\ call'.sid = dbg.sid /\ call'.pc = "engine" /\ call'.arg = {}
        /\ dbg.sid \in Sessions /\ dbg.sid # 0 /\ lock' = TRUE
    BY <1>1, Shape DEF OpBegin, Begin, Calls, WorkPoints, Sessions
  <1>3. call.pc = "idle" /\ call.op = "none" /\ op # "start" /\ op # "none" /\ op # "end" /\ op # "break"
    BY <1>1 DEF Idle, EngineOps, ReadOps, MutatorOps
  <1>4. UNCHANGED <<gen, kernel, record, parked, dbg, file, live, gdb, starts, stray, failed, unmarked>>
    BY DEF OpBegin, svars, dvars, evars, hvars
  <1>5. Typed'
    BY <1>1, <1>2, <1>3, <1>4 DEF DebugInv, Typed
  <1>6. CallOk' /\ Fresh'
    BY <1>1, <1>2, <1>3, <1>4, Shape DEF DebugInv, CallOk, Fresh, Idle, StartPoints, WorkPoints,
       FailurePoints, EndPoints, EngineOps, MutatorOps, ReadOps
  <1>7. Served'
    BY <1>1, <1>2, <1>3, <1>4, Shape DEF DebugInv, Served, Idle, NoRecord, StartPoints,
       WorkPoints, FailurePoints, EndPoints, EngineOps, MutatorOps, ReadOps
  <1>8. Registered' /\ Connected'
    BY <1>1, <1>2, <1>3, <1>4, LiveTyped DEF DebugInv, Registered, Connected, Holder, Up, Attached
  <1>9. Held' /\ Owned'
    BY <1>1, <1>2, <1>3, <1>4 DEF DebugInv, Held, Found, Gated, Owned, Holder, Up, Attached,
       LeavesTombstone, Detached, FailurePoints
  <1>10. Ledger'
    BY <1>1, <1>2, <1>3, <1>4, LiveTyped DEF DebugInv, Ledger, Changed, Unrecorded, MutatorOps
  <1> QED
    BY <1>5, <1>6, <1>7, <1>8, <1>9, <1>10 DEF DebugInv

\* Reads and queries change nothing; the queries are not recorded.
LEMMA QueriesDone ==
    ASSUME DebugInv, EngineQuery
    PROVE  DebugInv'
  <1>1. /\ call.pc = "engine" /\ call.op \in {"read", "query"} /\ call' \in Calls
        /\ call'.pc = "done" /\ call'.op = call.op /\ call'.sid = call.sid
        /\ call'.arg = call.arg /\ lock' = lock
    BY GotoFacts DEF DebugInv, EngineQuery, AfterOp, PersistManifest, ReadOps, Pcs, WorkPoints
  <1>2. UNCHANGED <<gen, kernel, record, parked, dbg, file, live, gdb, starts, stray, failed, unmarked>>
    BY DEF EngineQuery, svars, dvars, evars, hvars
  <1>3. Typed'
    BY <1>1, <1>2 DEF DebugInv, Typed
  <1>4. CallOk' /\ Fresh'
    BY <1>1, <1>2, Shape DEF DebugInv, CallOk, Fresh, Idle, StartPoints, WorkPoints,
       FailurePoints, EndPoints, EngineOps, MutatorOps, ReadOps
  <1>5. Served'
    BY <1>1, <1>2, Shape DEF DebugInv, Served, Idle, NoRecord, StartPoints, WorkPoints,
       FailurePoints, EndPoints, EngineOps, MutatorOps, ReadOps
  <1>6. Registered' /\ Connected'
    BY <1>1, <1>2, LiveTyped DEF DebugInv, Registered, Connected, Holder, Up, Attached
  <1>7. Held' /\ Owned'
    BY <1>1, <1>2 DEF DebugInv, Held, Found, Gated, Owned, Holder, Up, Attached, LeavesTombstone,
       Detached, FailurePoints
  <1>8. Ledger'
    BY <1>1, <1>2, LiveTyped DEF DebugInv, Ledger, Changed, Unrecorded, MutatorOps
  <1> QED
    BY <1>3, <1>4, <1>5, <1>6, <1>7, <1>8 DEF DebugInv

\* The list of breakpoints is read after a mutator.
LEMMA ListsPersisted ==
    ASSUME DebugInv, EngineList
    PROVE  DebugInv'
  <1>1. /\ call.pc = "list" /\ call.op \in MutatorOps /\ call' \in Calls
        /\ call'.pc = "persist" /\ call'.op = call.op /\ call'.sid = call.sid
        /\ call'.arg = call.arg /\ lock' = lock
    BY GotoFacts DEF DebugInv, CallOk, EngineList, Goto, AfterOp, PersistManifest, MutatorOps,
       ReadOps, Pcs, WorkPoints
  <1>2. UNCHANGED <<gen, kernel, record, parked, dbg, file, live, gdb, starts, stray, failed, unmarked>>
    BY DEF EngineList, svars, dvars, evars, hvars
  <1>3. Typed'
    BY <1>1, <1>2 DEF DebugInv, Typed
  <1>4. CallOk' /\ Fresh'
    BY <1>1, <1>2, Shape DEF DebugInv, CallOk, Fresh, Idle, StartPoints, WorkPoints,
       FailurePoints, EndPoints, EngineOps, MutatorOps, ReadOps
  <1>5. Served'
    BY <1>1, <1>2, Shape DEF DebugInv, Served, Idle, NoRecord, StartPoints, WorkPoints,
       FailurePoints, EndPoints, EngineOps, MutatorOps, ReadOps
  <1>6. Registered' /\ Connected'
    BY <1>1, <1>2, LiveTyped DEF DebugInv, Registered, Connected, Holder, Up, Attached
  <1>7. Held' /\ Owned'
    BY <1>1, <1>2 DEF DebugInv, Held, Found, Gated, Owned, Holder, Up, Attached, LeavesTombstone,
       Detached, FailurePoints
  <1>8. Ledger'
    BY <1>1, <1>2, LiveTyped DEF DebugInv, Ledger, Changed, Unrecorded, MutatorOps
  <1> QED
    BY <1>3, <1>4, <1>5, <1>6, <1>7, <1>8 DEF DebugInv

\* A mutator changes the breakpoints of gdb, and is then to be recorded.
LEMMA Mutates ==
    ASSUME DebugInv, NEW loc \in Locations, EngineMutate(loc)
    PROVE  DebugInv'
  <1>1. /\ call.pc = "engine" /\ call.op \in MutatorOps /\ call' \in Calls
        /\ call'.pc = "list" /\ call'.op = call.op /\ call'.sid = call.sid
        /\ call'.arg = call.arg /\ lock' = lock
    BY GotoFacts DEF DebugInv, EngineMutate, Pcs, WorkPoints
  <1>2. call.op \in EngineOps /\ call.sid \in Sessions /\ call.sid = dbg.sid /\ call.sid \in live
    BY <1>1, Shape DEF DebugInv, CallOk, Served, Idle, Calls, StartPoints, WorkPoints,
       FailurePoints, EndPoints
  <1>3. PICK b \in SUBSET Locations : gdb' = [gdb EXCEPT ![call.sid] = [gdb[call.sid] EXCEPT !.bps = b]]
    BY <1>2 DEF EngineMutate, DebugInv, Typed, Gdbs
  <1>4. gdb[call.sid] \in Gdbs
    BY <1>2 DEF DebugInv, Typed
  <1>5. LET g == gdb[call.sid]
            h == [g EXCEPT !.bps = b]
        IN /\ h \in Gdbs /\ h.link = g.link /\ h.mods = g.mods
           /\ h.stop = g.stop /\ h.dirty = g.dirty
    BY <1>4, GdbBps
  <1>6. /\ gdb' \in [Sessions -> Gdbs] /\ gdb'[call.sid].link = gdb[call.sid].link
        /\ gdb'[call.sid].mods = gdb[call.sid].mods /\ gdb'[call.sid].stop = gdb[call.sid].stop
        /\ gdb'[call.sid].dirty = gdb[call.sid].dirty
        /\ \A t \in Sessions : t # call.sid => gdb'[t] = gdb[t]
    BY <1>2, <1>3, <1>5, GdbSet DEF DebugInv, Typed
  <1>7. gdb[call.sid].link = "up" /\ kernel' = kernel
    BY DEF EngineMutate, LinkUp, svars
  <1>8. UNCHANGED <<gen, kernel, record, parked, dbg, file, live, starts, stray, failed, unmarked>>
    BY DEF EngineMutate, svars, dvars, evars, hvars
  <1>9. Typed'
    BY <1>1, <1>2, <1>3, <1>4, <1>5, <1>6, <1>7, <1>8 DEF DebugInv, Typed
  <1>10. CallOk' /\ Fresh'
    BY <1>1, <1>2, <1>3, <1>4, <1>5, <1>6, <1>7, <1>8, Shape DEF DebugInv, CallOk, Fresh, Idle,
       StartPoints, WorkPoints, FailurePoints, EndPoints, EngineOps, MutatorOps, ReadOps
  <1>11. Served'
    BY <1>1, <1>2, <1>3, <1>4, <1>5, <1>6, <1>7, <1>8, Shape DEF DebugInv, Served, Idle, NoRecord,
       StartPoints, WorkPoints, FailurePoints, EndPoints, EngineOps, MutatorOps, ReadOps
  <1>12. Registered' /\ Connected'
    BY <1>1, <1>2, <1>3, <1>4, <1>5, <1>6, <1>7, <1>8, LiveTyped DEF DebugInv, Registered,
       Connected, Holder, Up, Attached
  <1>13. Held' /\ Owned'
    BY <1>1, <1>2, <1>3, <1>4, <1>5, <1>6, <1>7, <1>8 DEF DebugInv, Held, Found, Gated, Owned,
       Holder, Up, Attached, LeavesTombstone, Detached, FailurePoints
  <1>14. Ledger'
    BY <1>1, <1>2, <1>3, <1>4, <1>5, <1>6, <1>7, <1>8, LiveTyped DEF DebugInv, Ledger, Changed,
       Unrecorded, MutatorOps
  <1> QED
    BY <1>9, <1>10, <1>11, <1>12, <1>13, <1>14 DEF DebugInv

\* load_module_symbols: gdb has the module, which is then to be recorded.
LEMMA Loads ==
    ASSUME DebugInv, NEW addr \in Addresses, EngineLoad(addr)
    PROVE  DebugInv'
  <1>1. /\ call.pc = "engine" /\ call.op = "load" /\ call' \in Calls
        /\ call'.pc = "persist" /\ call'.op = call.op /\ call'.sid = call.sid
        /\ call'.arg = {addr} /\ lock' = lock /\ file[call.sid].mods = {}
    BY DEF DebugInv, Typed, Calls, EngineLoad, WorkPoints
  <1>2. call.op \in EngineOps /\ call.sid \in Sessions /\ call.sid = dbg.sid /\ call.sid \in live
    BY <1>1, Shape DEF DebugInv, CallOk, Served, Idle, Calls, StartPoints, WorkPoints,
       FailurePoints, EndPoints
  <1>3. gdb[call.sid] \in Gdbs /\ gdb[call.sid].mods \cup {addr} \in SUBSET Addresses
    BY <1>2 DEF DebugInv, Typed, Gdbs
  <1>4. gdb' = [gdb EXCEPT ![call.sid] = [gdb[call.sid] EXCEPT !.mods = gdb[call.sid].mods \cup {addr}]]
    BY <1>2 DEF EngineLoad, DebugInv, Typed
  <1>5. LET g == gdb[call.sid]
            h == [g EXCEPT !.mods = g.mods \cup {addr}]
        IN /\ h \in Gdbs /\ h.link = g.link /\ h.bps = g.bps /\ h.mods = g.mods \cup {addr}
           /\ h.stop = g.stop /\ h.dirty = g.dirty
    BY <1>3, GdbMods
  <1>6. /\ gdb' \in [Sessions -> Gdbs] /\ gdb'[call.sid].link = gdb[call.sid].link
        /\ gdb'[call.sid].bps = gdb[call.sid].bps /\ gdb'[call.sid].stop = gdb[call.sid].stop
        /\ gdb'[call.sid].dirty = gdb[call.sid].dirty /\ gdb'[call.sid].mods = gdb[call.sid].mods \cup {addr}
        /\ \A t \in Sessions : t # call.sid => gdb'[t] = gdb[t]
    BY <1>2, <1>4, <1>5, GdbSet DEF DebugInv, Typed
  <1>7. gdb[call.sid].link = "up"
    BY DEF EngineLoad, LinkUp
  <1>8. UNCHANGED <<gen, kernel, record, parked, dbg, file, live, starts, stray, failed, unmarked>>
    BY DEF EngineLoad, svars, dvars, evars, hvars
  <1>9. Typed'
    BY <1>1, <1>2, <1>3, <1>4, <1>5, <1>6, <1>7, <1>8 DEF DebugInv, Typed
  <1>10. CallOk' /\ Fresh'
    BY <1>1, <1>2, <1>3, <1>4, <1>5, <1>6, <1>7, <1>8, Shape DEF DebugInv, CallOk, Fresh, Idle,
       StartPoints, WorkPoints, FailurePoints, EndPoints, EngineOps, MutatorOps, ReadOps
  <1>11. Served'
    BY <1>1, <1>2, <1>3, <1>4, <1>5, <1>6, <1>7, <1>8, Shape DEF DebugInv, Served, Idle, NoRecord,
       StartPoints, WorkPoints, FailurePoints, EndPoints, EngineOps, MutatorOps, ReadOps
  <1>12. Registered' /\ Connected'
    BY <1>1, <1>2, <1>3, <1>4, <1>5, <1>6, <1>7, <1>8, LiveTyped DEF DebugInv, Registered,
       Connected, Holder, Up, Attached
  <1>13. Held' /\ Owned'
    BY <1>1, <1>2, <1>3, <1>4, <1>5, <1>6, <1>7, <1>8 DEF DebugInv, Held, Found, Gated, Owned,
       Holder, Up, Attached, LeavesTombstone, Detached, FailurePoints
  <1>14. Ledger'
    BY <1>1, <1>2, <1>3, <1>4, <1>5, <1>6, <1>7, <1>8, LiveTyped DEF DebugInv, Ledger, Changed,
       Unrecorded, MutatorOps
  <1> QED
    BY <1>9, <1>10, <1>11, <1>12, <1>13, <1>14 DEF DebugInv

\* A module that is recorded is not loaded again.
LEMMA LoadedBefore ==
    ASSUME DebugInv, EngineLoaded
    PROVE  DebugInv'
  <1>1. call.op = "load" /\ call.pc = "engine"
    BY DEF EngineLoaded
  <1>2. call.op \in EngineOps /\ call.op # "start"
    BY <1>1 DEF DebugInv, Typed, CallOk, Calls, Idle, StartPoints, WorkPoints, FailurePoints,
       EndPoints, EngineOps, MutatorOps, ReadOps
  <1>3. /\ call' = Idle /\ call' \in Calls /\ lock' \in BOOLEAN
        /\ call'.pc = "idle" /\ call'.op = "none" /\ call'.sid = 0
    BY ReturnFacts DEF EngineLoaded
  <1>4. starts \in Nat
    BY Shape
  <1>5. UNCHANGED <<gen, kernel, record, parked, dbg, file, live, gdb, starts, stray, failed, unmarked>>
    BY DEF EngineLoaded, svars, dvars, evars, hvars
  <1>6. Typed'
    BY <1>1, <1>2, <1>3, <1>4, <1>5 DEF DebugInv, Typed
  <1>7. CallOk' /\ Fresh'
    BY <1>1, <1>2, <1>3, <1>4, <1>5, Shape DEF DebugInv, CallOk, Fresh, Idle, StartPoints,
       WorkPoints, FailurePoints, EndPoints, EngineOps, MutatorOps, ReadOps
  <1>8. Served'
    BY <1>1, <1>2, <1>3, <1>4, <1>5, Shape DEF DebugInv, Served, Idle, NoRecord, StartPoints,
       WorkPoints, FailurePoints, EndPoints, EngineOps, MutatorOps, ReadOps
  <1>9. Registered' /\ Connected'
    BY <1>1, <1>2, <1>3, <1>4, <1>5, LiveTyped DEF DebugInv, Registered, Connected, Holder, Up,
       Attached
  <1>10. Held' /\ Owned'
    BY <1>1, <1>2, <1>3, <1>4, <1>5 DEF DebugInv, Held, Found, Gated, Owned, Holder, Up, Attached,
       LeavesTombstone, Detached, FailurePoints
  <1>11. Ledger'
    BY <1>1, <1>2, <1>3, <1>4, <1>5, LiveTyped DEF DebugInv, Ledger, Changed, Unrecorded, MutatorOps
  <1> QED
    BY <1>6, <1>7, <1>8, <1>9, <1>10, <1>11 DEF DebugInv

\* A read or a query returns.
LEMMA DoneReturns ==
    ASSUME DebugInv, OpDone
    PROVE  DebugInv'
  <1>1. call.pc = "done"
    BY DEF OpDone
  <1>2. call.op \in EngineOps /\ call.op # "start"
    BY <1>1 DEF DebugInv, Typed, CallOk, Calls, Idle, StartPoints, WorkPoints, FailurePoints,
       EndPoints, EngineOps, MutatorOps, ReadOps
  <1>3. /\ call' = Idle /\ call' \in Calls /\ lock' \in BOOLEAN
        /\ call'.pc = "idle" /\ call'.op = "none" /\ call'.sid = 0
    BY ReturnFacts DEF OpDone
  <1>4. starts \in Nat
    BY Shape
  <1>5. UNCHANGED <<gen, kernel, record, parked, dbg, file, live, gdb, starts, stray, failed, unmarked>>
    BY DEF OpDone, svars, dvars, evars, hvars
  <1>6. Typed'
    BY <1>1, <1>2, <1>3, <1>4, <1>5 DEF DebugInv, Typed
  <1>7. CallOk' /\ Fresh'
    BY <1>1, <1>2, <1>3, <1>4, <1>5, Shape DEF DebugInv, CallOk, Fresh, Idle, StartPoints,
       WorkPoints, FailurePoints, EndPoints, EngineOps, MutatorOps, ReadOps
  <1>8. Served'
    BY <1>1, <1>2, <1>3, <1>4, <1>5, Shape DEF DebugInv, Served, Idle, NoRecord, StartPoints,
       WorkPoints, FailurePoints, EndPoints, EngineOps, MutatorOps, ReadOps
  <1>9. Registered' /\ Connected'
    BY <1>1, <1>2, <1>3, <1>4, <1>5, LiveTyped DEF DebugInv, Registered, Connected, Holder, Up,
       Attached
  <1>10. Held' /\ Owned'
    BY <1>1, <1>2, <1>3, <1>4, <1>5 DEF DebugInv, Held, Found, Gated, Owned, Holder, Up, Attached,
       LeavesTombstone, Detached, FailurePoints
  <1>11. Ledger'
    BY <1>1, <1>2, <1>3, <1>4, <1>5, LiveTyped DEF DebugInv, Ledger, Changed, Unrecorded, MutatorOps
  <1> QED
    BY <1>6, <1>7, <1>8, <1>9, <1>10, <1>11 DEF DebugInv

\* An execution verb: the kernel runs, or stopped at a breakpoint at once.
LEMMA Executes ==
    ASSUME DebugInv, ExecVerb
    PROVE  DebugInv'
  <1>1. /\ call.pc = "engine" /\ call' \in Calls /\ call.op = "exec"
        /\ call'.pc = "wait" /\ call'.op = call.op /\ call'.sid = call.sid
        /\ call'.arg = call.arg /\ lock' = lock
    BY GotoFacts DEF DebugInv, ExecVerb, Pcs, StartPoints, WorkPoints, FailurePoints, EndPoints
  <1>2. call.op \in EngineOps /\ call.sid \in Sessions /\ call.sid = dbg.sid /\ call.sid \in live
    BY <1>1, Shape DEF DebugInv, CallOk, Served, Idle, Calls, StartPoints, WorkPoints,
       FailurePoints, EndPoints
  <1>3. gdb' = [gdb EXCEPT ![call.sid] = [gdb[call.sid] EXCEPT !.stop = FALSE]]
    BY <1>2 DEF ExecVerb, Stopped, DebugInv, Typed
  <1>4. gdb[call.sid] \in Gdbs
    BY <1>2 DEF DebugInv, Typed
  <1>5. LET g == gdb[call.sid]
            h == [g EXCEPT !.stop = FALSE]
        IN /\ h \in Gdbs /\ h.stop = FALSE
           /\ h.link = g.link /\ h.bps = g.bps /\ h.mods = g.mods /\ h.dirty = g.dirty
    BY <1>4, GdbStop
  <1>6. /\ gdb' \in [Sessions -> Gdbs] /\ gdb'[call.sid].stop = FALSE
        /\ gdb'[call.sid].link = gdb[call.sid].link /\ gdb'[call.sid].bps = gdb[call.sid].bps
        /\ gdb'[call.sid].mods = gdb[call.sid].mods /\ gdb'[call.sid].dirty = gdb[call.sid].dirty
        /\ \A t \in Sessions : t # call.sid => gdb'[t] = gdb[t]
    BY <1>2, <1>3, <1>5, GdbSet DEF DebugInv, Typed
  <1>7. gdb[call.sid].link = "up" /\ kernel' \in {"running", "stopped"}
    BY DEF ExecVerb, LinkUp
  <1>8. UNCHANGED <<gen, record, parked, dbg, file, live, starts, stray, failed, unmarked>>
    BY DEF ExecVerb, svars, dvars, evars, hvars
  <1>9. Typed'
    BY <1>1, <1>2, <1>3, <1>4, <1>5, <1>6, <1>7, <1>8 DEF DebugInv, Typed
  <1>10. CallOk' /\ Fresh'
    BY <1>1, <1>2, <1>3, <1>4, <1>5, <1>6, <1>7, <1>8, Shape DEF DebugInv, CallOk, Fresh, Idle,
       StartPoints, WorkPoints, FailurePoints, EndPoints, EngineOps, MutatorOps, ReadOps
  <1>11. Served'
    BY <1>1, <1>2, <1>3, <1>4, <1>5, <1>6, <1>7, <1>8, Shape DEF DebugInv, Served, Idle, NoRecord,
       StartPoints, WorkPoints, FailurePoints, EndPoints, EngineOps, MutatorOps, ReadOps
  <1>12. Registered' /\ Connected'
    BY <1>1, <1>2, <1>3, <1>4, <1>5, <1>6, <1>7, <1>8, LiveTyped DEF DebugInv, Registered,
       Connected, Holder, Up, Attached
  <1>13. Held' /\ Owned'
    BY <1>1, <1>2, <1>3, <1>4, <1>5, <1>6, <1>7, <1>8 DEF DebugInv, Held, Found, Gated, Owned,
       Holder, Up, Attached, LeavesTombstone, Detached, FailurePoints
  <1>14. Ledger'
    BY <1>1, <1>2, <1>3, <1>4, <1>5, <1>6, <1>7, <1>8, LiveTyped DEF DebugInv, Ledger, Changed,
       Unrecorded, MutatorOps
  <1> QED
    BY <1>9, <1>10, <1>11, <1>12, <1>13, <1>14 DEF DebugInv

\* wait_for_stop reads the stop: the kernel is in the debugger.
LEMMA StopsRead ==
    ASSUME DebugInv, WaitStop
    PROVE  DebugInv'
  <1>1. /\ call.pc \in {"wait", "waitint"} /\ call' \in Calls
        /\ call'.pc = "persist" /\ call'.op = call.op /\ call'.sid = call.sid
        /\ call'.arg = call.arg /\ lock' = lock /\ call.op \in {"exec", "interrupt"}
    BY GotoFacts DEF DebugInv, CallOk, WaitStop, Pcs, WorkPoints
  <1>2. call.op \in EngineOps /\ call.sid \in Sessions /\ call.sid = dbg.sid /\ call.sid \in live
    BY <1>1, Shape DEF DebugInv, CallOk, Served, Idle, Calls, WorkPoints, EngineOps
  <1>3. gdb' = [gdb EXCEPT ![call.sid] = [gdb[call.sid] EXCEPT !.stop = FALSE]]
    BY <1>2 DEF WaitStop, Stopped, DebugInv, Typed
  <1>4. gdb[call.sid] \in Gdbs
    BY <1>2 DEF DebugInv, Typed
  <1>5. LET g == gdb[call.sid]
            h == [g EXCEPT !.stop = FALSE]
        IN /\ h \in Gdbs /\ h.stop = FALSE
           /\ h.link = g.link /\ h.bps = g.bps /\ h.mods = g.mods /\ h.dirty = g.dirty
    BY <1>4, GdbStop
  <1>6. /\ gdb' \in [Sessions -> Gdbs] /\ gdb'[call.sid].stop = FALSE
        /\ gdb'[call.sid].link = gdb[call.sid].link /\ gdb'[call.sid].bps = gdb[call.sid].bps
        /\ gdb'[call.sid].mods = gdb[call.sid].mods /\ gdb'[call.sid].dirty = gdb[call.sid].dirty
        /\ \A t \in Sessions : t # call.sid => gdb'[t] = gdb[t]
    BY <1>2, <1>3, <1>5, GdbSet DEF DebugInv, Typed
  <1>7. kernel = "stopped" /\ gdb[call.sid].link = "up"
    BY <1>2 DEF WaitStop, StopPending, DebugInv, Connected, Up
  <1>8. UNCHANGED <<gen, kernel, record, parked, dbg, file, live, starts, stray, failed, unmarked>>
    BY DEF WaitStop, svars, dvars, evars, hvars
  <1>9. Typed'
    BY <1>1, <1>2, <1>3, <1>4, <1>5, <1>6, <1>7, <1>8 DEF DebugInv, Typed
  <1>10. CallOk' /\ Fresh'
    BY <1>1, <1>2, <1>3, <1>4, <1>5, <1>6, <1>7, <1>8, Shape DEF DebugInv, CallOk, Fresh, Idle,
       StartPoints, WorkPoints, FailurePoints, EndPoints, EngineOps, MutatorOps, ReadOps
  <1>11. Served'
    BY <1>1, <1>2, <1>3, <1>4, <1>5, <1>6, <1>7, <1>8, Shape DEF DebugInv, Served, Idle, NoRecord,
       StartPoints, WorkPoints, FailurePoints, EndPoints, EngineOps, MutatorOps, ReadOps
  <1>12. Registered' /\ Connected'
    BY <1>1, <1>2, <1>3, <1>4, <1>5, <1>6, <1>7, <1>8, LiveTyped DEF DebugInv, Registered,
       Connected, Holder, Up, Attached
  <1>13. Held' /\ Owned'
    BY <1>1, <1>2, <1>3, <1>4, <1>5, <1>6, <1>7, <1>8 DEF DebugInv, Held, Found, Gated, Owned,
       Holder, Up, Attached, LeavesTombstone, Detached, FailurePoints
  <1>14. Ledger'
    BY <1>1, <1>2, <1>3, <1>4, <1>5, <1>6, <1>7, <1>8, LiveTyped DEF DebugInv, Ledger, Changed,
       Unrecorded, MutatorOps
  <1> QED
    BY <1>9, <1>10, <1>11, <1>12, <1>13, <1>14 DEF DebugInv

\* The guest is gone: the link is dead and nothing is stopped.
LEMMA ExitsSeen ==
    ASSUME DebugInv, WaitExited
    PROVE  DebugInv'
  <1>1. /\ call.pc = "wait" /\ call.op = "exec" /\ kernel = "running"
    BY DEF WaitExited, DebugInv, CallOk
  <1>2. call.op \in EngineOps /\ call.sid \in Sessions /\ call.sid = dbg.sid /\ call.sid \in live
    BY <1>1, Shape DEF DebugInv, CallOk, Served, Idle, Calls, WorkPoints, EngineOps
  <1>3. gdb' = [gdb EXCEPT ![call.sid] = [gdb[call.sid] EXCEPT !.link = "dead"]]
    BY <1>2 DEF WaitExited, DebugInv, Typed
  <1>4. gdb[call.sid] \in Gdbs
    BY <1>2 DEF DebugInv, Typed
  <1>5. LET g == gdb[call.sid]
            h == [g EXCEPT !.link = "dead"]
        IN /\ h \in Gdbs /\ h.link = "dead"
           /\ h.bps = g.bps /\ h.mods = g.mods /\ h.stop = g.stop /\ h.dirty = g.dirty
    BY <1>4, GdbLink
  <1>6. /\ gdb' \in [Sessions -> Gdbs] /\ gdb'[call.sid].link = "dead"
        /\ gdb'[call.sid].bps = gdb[call.sid].bps /\ gdb'[call.sid].mods = gdb[call.sid].mods
        /\ gdb'[call.sid].stop = gdb[call.sid].stop /\ gdb'[call.sid].dirty = gdb[call.sid].dirty
        /\ \A t \in Sessions : t # call.sid => gdb'[t] = gdb[t]
    BY <1>2, <1>3, <1>5, GdbSet DEF DebugInv, Typed
  <1>7. kernel' = "off" /\ starts \in Nat
    BY Shape DEF WaitExited
  <1>8. /\ call' = Idle /\ call' \in Calls /\ lock' \in BOOLEAN
        /\ call'.pc = "idle" /\ call'.op = "none" /\ call'.sid = 0
    BY ReturnFacts DEF WaitExited
  <1>9. UNCHANGED <<gen, record, parked, dbg, file, live, starts, stray, failed, unmarked>>
    BY DEF WaitExited, svars, dvars, evars, hvars
  <1>10. Typed'
    BY <1>1, <1>2, <1>3, <1>4, <1>5, <1>6, <1>7, <1>8, <1>9 DEF DebugInv, Typed
  <1>11. CallOk' /\ Fresh'
    BY <1>1, <1>2, <1>3, <1>4, <1>5, <1>6, <1>7, <1>8, <1>9, Shape DEF DebugInv, CallOk, Fresh,
       Idle, StartPoints, WorkPoints, FailurePoints, EndPoints, EngineOps, MutatorOps, ReadOps
  <1>12. Served'
    BY <1>1, <1>2, <1>3, <1>4, <1>5, <1>6, <1>7, <1>8, <1>9, Shape DEF DebugInv, Served, Idle,
       NoRecord, StartPoints, WorkPoints, FailurePoints, EndPoints, EngineOps, MutatorOps, ReadOps
  <1>13. Registered' /\ Connected'
    BY <1>1, <1>2, <1>3, <1>4, <1>5, <1>6, <1>7, <1>8, <1>9, LiveTyped DEF DebugInv, Registered,
       Connected, Holder, Up, Attached
  <1>14. Held' /\ Owned'
    BY <1>1, <1>2, <1>3, <1>4, <1>5, <1>6, <1>7, <1>8, <1>9 DEF DebugInv, Held, Found, Gated, Owned,
       Holder, Up, Attached, LeavesTombstone, Detached, FailurePoints
  <1>15. Ledger'
    BY <1>1, <1>2, <1>3, <1>4, <1>5, <1>6, <1>7, <1>8, <1>9, LiveTyped DEF DebugInv, Ledger,
       Changed, Unrecorded, MutatorOps
  <1> QED
    BY <1>10, <1>11, <1>12, <1>13, <1>14, <1>15 DEF DebugInv

\* A wait that timed out is to interrupt the kernel.
LEMMA WaitTimesOut ==
    ASSUME DebugInv, WaitTimeout
    PROVE  DebugInv'
  <1>1. /\ call.pc = "wait" /\ call' \in Calls
        /\ call'.pc = "interrupt" /\ call'.op = call.op /\ call'.sid = call.sid
        /\ call'.arg = call.arg /\ lock' = lock
    BY GotoFacts DEF DebugInv, WaitTimeout, Pcs, StartPoints, WorkPoints, FailurePoints, EndPoints
  <1>2. call.op = "exec"
    BY <1>1 DEF DebugInv, CallOk
  <1>3. UNCHANGED <<gen, kernel, record, parked, dbg, file, live, gdb, starts, stray, failed, unmarked>>
    BY DEF WaitTimeout, svars, dvars, evars, hvars
  <1>4. Typed'
    BY <1>1, <1>2, <1>3 DEF DebugInv, Typed
  <1>5. CallOk' /\ Fresh'
    BY <1>1, <1>2, <1>3, Shape DEF DebugInv, CallOk, Fresh, Idle, StartPoints, WorkPoints,
       FailurePoints, EndPoints, EngineOps, MutatorOps, ReadOps
  <1>6. Served'
    BY <1>1, <1>2, <1>3, Shape DEF DebugInv, Served, Idle, NoRecord, StartPoints, WorkPoints,
       FailurePoints, EndPoints, EngineOps, MutatorOps, ReadOps
  <1>7. Registered' /\ Connected'
    BY <1>1, <1>2, <1>3, LiveTyped DEF DebugInv, Registered, Connected, Holder, Up, Attached
  <1>8. Held' /\ Owned'
    BY <1>1, <1>2, <1>3 DEF DebugInv, Held, Found, Gated, Owned, Holder, Up, Attached,
       LeavesTombstone, Detached, FailurePoints
  <1>9. Ledger'
    BY <1>1, <1>2, <1>3, LiveTyped DEF DebugInv, Ledger, Changed, Unrecorded, MutatorOps
  <1> QED
    BY <1>4, <1>5, <1>6, <1>7, <1>8, <1>9 DEF DebugInv

\* An interrupt whose stop was not read is recorded as unknown.
LEMMA InterruptsUnconfirmed ==
    ASSUME DebugInv, InterruptUnconfirmed
    PROVE  DebugInv'
  <1>1. /\ call.pc = "waitint" /\ call' \in Calls /\ call.op = "interrupt"
        /\ call'.pc = "persist_unknown" /\ call'.op = call.op /\ call'.sid = call.sid
        /\ call'.arg = call.arg /\ lock' = lock
    BY GotoFacts DEF DebugInv, InterruptUnconfirmed, Pcs, StartPoints, WorkPoints, FailurePoints,
       EndPoints
  <1>2. call.sid \in Sessions /\ call.sid = dbg.sid /\ ~gdb[call.sid].stop
    BY <1>1, Shape DEF DebugInv, Served, Idle, EngineOps, InterruptUnconfirmed, StopPending
  <1>3. UNCHANGED <<gen, kernel, record, parked, dbg, file, live, gdb, starts, stray, failed, unmarked>>
    BY DEF InterruptUnconfirmed, svars, dvars, evars, hvars
  <1>4. Typed'
    BY <1>1, <1>2, <1>3 DEF DebugInv, Typed
  <1>5. CallOk' /\ Fresh'
    BY <1>1, <1>2, <1>3, Shape DEF DebugInv, CallOk, Fresh, Idle, StartPoints, WorkPoints,
       FailurePoints, EndPoints, EngineOps, MutatorOps, ReadOps
  <1>6. Served'
    BY <1>1, <1>2, <1>3, Shape DEF DebugInv, Served, Idle, NoRecord, StartPoints, WorkPoints,
       FailurePoints, EndPoints, EngineOps, MutatorOps, ReadOps
  <1>7. Registered' /\ Connected'
    BY <1>1, <1>2, <1>3, LiveTyped DEF DebugInv, Registered, Connected, Holder, Up, Attached
  <1>8. Held' /\ Owned'
    BY <1>1, <1>2, <1>3 DEF DebugInv, Held, Found, Gated, Owned, Holder, Up, Attached,
       LeavesTombstone, Detached, FailurePoints
  <1>9. Ledger'
    BY <1>1, <1>2, <1>3, LiveTyped DEF DebugInv, Ledger, Changed, Unrecorded, MutatorOps
  <1> QED
    BY <1>4, <1>5, <1>6, <1>7, <1>8, <1>9 DEF DebugInv

\* -exec-interrupt: the kernel is in the debugger.
LEMMA Interrupts ==
    ASSUME DebugInv, Interrupt
    PROVE  DebugInv'
  <1>1. /\ call.pc \in {"engine", "interrupt"} /\ call' \in Calls
        /\ call'.pc = "waitint" /\ call'.op = call.op /\ call'.sid = call.sid
        /\ call'.arg = call.arg /\ lock' = lock /\ call.op \in {"exec", "interrupt"}
    BY GotoFacts DEF DebugInv, CallOk, Interrupt, Pcs, WorkPoints
  <1>2. call.op \in EngineOps /\ call.sid \in Sessions /\ call.sid = dbg.sid /\ call.sid \in live
    BY <1>1, Shape DEF DebugInv, CallOk, Served, Idle, Calls, WorkPoints, EngineOps
  <1>3. PICK b \in BOOLEAN : gdb' = [gdb EXCEPT ![call.sid] = [gdb[call.sid] EXCEPT !.stop = b]]
    BY <1>2 DEF Interrupt, Stopped, DebugInv, Typed
  <1>4. gdb[call.sid] \in Gdbs
    BY <1>2 DEF DebugInv, Typed
  <1>5. LET g == gdb[call.sid]
            h == [g EXCEPT !.stop = b]
        IN /\ h \in Gdbs /\ h.stop = b
           /\ h.link = g.link /\ h.bps = g.bps /\ h.mods = g.mods /\ h.dirty = g.dirty
    BY <1>4, GdbStop
  <1>6. /\ gdb' \in [Sessions -> Gdbs] /\ gdb'[call.sid].stop = b
        /\ gdb'[call.sid].link = gdb[call.sid].link /\ gdb'[call.sid].bps = gdb[call.sid].bps
        /\ gdb'[call.sid].mods = gdb[call.sid].mods /\ gdb'[call.sid].dirty = gdb[call.sid].dirty
        /\ \A t \in Sessions : t # call.sid => gdb'[t] = gdb[t]
    BY <1>2, <1>3, <1>5, GdbSet DEF DebugInv, Typed
  <1>7. gdb[call.sid].link = "up"
    BY DEF Interrupt, LinkUp
  <1>8. kernel' = "stopped"
    BY <1>2, <1>7 DEF Interrupt, DebugInv, Connected, Up
  <1>9. UNCHANGED <<gen, record, parked, dbg, file, live, starts, stray, failed, unmarked>>
    BY DEF Interrupt, svars, dvars, evars, hvars
  <1>10. Typed'
    BY <1>1, <1>2, <1>3, <1>4, <1>5, <1>6, <1>7, <1>8, <1>9 DEF DebugInv, Typed
  <1>11. CallOk' /\ Fresh'
    BY <1>1, <1>2, <1>3, <1>4, <1>5, <1>6, <1>7, <1>8, <1>9, Shape DEF DebugInv, CallOk, Fresh,
       Idle, StartPoints, WorkPoints, FailurePoints, EndPoints, EngineOps, MutatorOps, ReadOps
  <1>12. Served'
    BY <1>1, <1>2, <1>3, <1>4, <1>5, <1>6, <1>7, <1>8, <1>9, Shape DEF DebugInv, Served, Idle,
       NoRecord, StartPoints, WorkPoints, FailurePoints, EndPoints, EngineOps, MutatorOps, ReadOps
  <1>13. Registered' /\ Connected'
    BY <1>1, <1>2, <1>3, <1>4, <1>5, <1>6, <1>7, <1>8, <1>9, LiveTyped DEF DebugInv, Registered,
       Connected, Holder, Up, Attached
  <1>14. Held' /\ Owned'
    BY <1>1, <1>2, <1>3, <1>4, <1>5, <1>6, <1>7, <1>8, <1>9 DEF DebugInv, Held, Found, Gated, Owned,
       Holder, Up, Attached, LeavesTombstone, Detached, FailurePoints
  <1>15. Ledger'
    BY <1>1, <1>2, <1>3, <1>4, <1>5, <1>6, <1>7, <1>8, <1>9, LiveTyped DEF DebugInv, Ledger,
       Changed, Unrecorded, MutatorOps
  <1> QED
    BY <1>10, <1>11, <1>12, <1>13, <1>14, <1>15 DEF DebugInv

\* transport_stall: gdb goes, the kernel runs, and the record is to follow.
LEMMA Stalls ==
    ASSUME DebugInv, Stall
    PROVE  DebugInv'
  <1>1. /\ call.pc \in {"engine", "list", "interrupt", "waitint"} /\ call' \in Calls
        /\ call'.pc \in FailurePoints /\ call'.op = call.op /\ call'.sid = call.sid
        /\ call'.arg = call.arg /\ lock' = lock
    BY GotoFacts DEF DebugInv, Stall, AfterStall, Pcs, FailurePoints
  <1>2. /\ call.op \in EngineOps /\ call.sid \in Sessions /\ call.sid = dbg.sid /\ call.sid \in live
        /\ call.sid <= starts /\ gdb[call.sid].link # "none"
    BY <1>1, Shape DEF DebugInv, CallOk, Served, Fresh, Registered, Idle, Calls, StartPoints,
       WorkPoints, FailurePoints, EndPoints
  <1>3. /\ gdb' \in [Sessions -> Gdbs] /\ gdb'[call.sid] = NoGdb /\ live' = live \ {call.sid}
        /\ \A t \in Sessions : t # call.sid => gdb'[t] = gdb[t]
        /\ kernel' \in {"running", "stopped", "off"}
        /\ kernel' = "stopped" => kernel = "stopped" /\ (gdb[call.sid] = NoGdb \/ stray)
    BY <1>2, ForceResumeFacts DEF DebugInv, Stall
  <1>4. call.op # "start"
    BY <1>2 DEF EngineOps, ReadOps, MutatorOps
  <1>5. /\ kernel' # "stopped" \/ stray
        /\ \A s \in Sessions : gdb'[s].link # "up" /\ ~gdb'[s].stop
    BY <1>2, <1>3, <1>4, NoGdbTyped DEF DebugInv, Connected, Up, Holder
  <1>6. UNCHANGED <<gen, record, parked, dbg, file, starts, stray, failed, unmarked>>
    BY DEF Stall, dvars, hvars
  <1>7. Typed'
    BY <1>1, <1>2, <1>3, <1>4, <1>5, <1>6 DEF DebugInv, Typed
  <1>8. CallOk' /\ Fresh'
    BY <1>1, <1>2, <1>3, <1>4, <1>5, <1>6, Shape DEF DebugInv, CallOk, Fresh, Idle, StartPoints,
       WorkPoints, FailurePoints, EndPoints, EngineOps, MutatorOps, ReadOps
  <1>9. Served'
    BY <1>1, <1>2, <1>3, <1>4, <1>5, <1>6, Shape DEF DebugInv, Served, Idle, NoRecord,
       StartPoints, WorkPoints, FailurePoints, EndPoints, EngineOps, MutatorOps, ReadOps
  <1>10. Registered' /\ Connected'
    BY <1>1, <1>2, <1>3, <1>4, <1>5, <1>6, LiveTyped, NoGdbTyped DEF DebugInv, Registered,
       Connected, Holder, Up, Attached
  <1>11. Held' /\ Owned'
    BY <1>1, <1>2, <1>3, <1>4, <1>5, <1>6 DEF DebugInv, Held, Found, Gated, Owned, Holder, Up,
       Attached, LeavesTombstone, Detached, FailurePoints
  <1>12. Ledger'
    BY <1>1, <1>2, <1>3, <1>4, <1>5, <1>6, LiveTyped DEF DebugInv, Ledger, Changed, Unrecorded,
       MutatorOps, FailurePoints
  <1> QED
    BY <1>7, <1>8, <1>9, <1>10, <1>11, <1>12 DEF DebugInv

\* The engine raises: gdb goes, the kernel runs.
LEMMA OpFaults ==
    ASSUME DebugInv, OpFault
    PROVE  DebugInv'
  <1>1. /\ call.op \in EngineOps /\ call.pc \in {"engine", "list", "wait", "interrupt", "waitint"}
    BY DEF OpFault
  <1>2. /\ call.sid \in Sessions /\ call.sid = dbg.sid /\ call.sid \in live
        /\ call.sid <= starts /\ gdb[call.sid].link # "none" /\ call.op # "start"
    BY <1>1, Shape DEF DebugInv, CallOk, Served, Fresh, Registered, Idle, Calls, WorkPoints,
       EngineOps, MutatorOps, ReadOps
  <1>3. /\ gdb' \in [Sessions -> Gdbs] /\ gdb'[call.sid] = NoGdb /\ live' = live \ {call.sid}
        /\ \A t \in Sessions : t # call.sid => gdb'[t] = gdb[t]
        /\ kernel' \in {"running", "stopped", "off"}
        /\ kernel' = "stopped" => kernel = "stopped" /\ (gdb[call.sid] = NoGdb \/ stray)
    BY <1>2, ForceResumeFacts DEF DebugInv, OpFault
  <1>4. /\ kernel' # "stopped" \/ stray
        /\ \A s \in Sessions : gdb'[s].link # "up" /\ ~gdb'[s].stop
    BY <1>2, <1>3, NoGdbTyped DEF DebugInv, Connected, Up, Holder
  <1>5. /\ call' = Idle /\ call' \in Calls /\ lock' \in BOOLEAN
        /\ call'.pc = "idle" /\ call'.op = "none" /\ call'.sid = 0
    BY ReturnFacts DEF OpFault
  <1>6. starts \in Nat
    BY Shape
  <1>7. UNCHANGED <<gen, record, parked, dbg, file, starts, stray, failed, unmarked>>
    BY DEF OpFault, dvars, hvars
  <1>8. Typed'
    BY <1>1, <1>2, <1>3, <1>4, <1>5, <1>6, <1>7 DEF DebugInv, Typed
  <1>9. CallOk' /\ Fresh'
    BY <1>1, <1>2, <1>3, <1>4, <1>5, <1>6, <1>7, Shape DEF DebugInv, CallOk, Fresh, Idle,
       StartPoints, WorkPoints, FailurePoints, EndPoints, EngineOps, MutatorOps, ReadOps
  <1>10. Served'
    BY <1>1, <1>2, <1>3, <1>4, <1>5, <1>6, <1>7, Shape DEF DebugInv, Served, Idle, NoRecord,
       StartPoints, WorkPoints, FailurePoints, EndPoints, EngineOps, MutatorOps, ReadOps
  <1>11. Registered' /\ Connected'
    BY <1>1, <1>2, <1>3, <1>4, <1>5, <1>6, <1>7, LiveTyped, NoGdbTyped DEF DebugInv, Registered,
       Connected, Holder, Up, Attached
  <1>12. Held' /\ Owned'
    BY <1>1, <1>2, <1>3, <1>4, <1>5, <1>6, <1>7 DEF DebugInv, Held, Found, Gated, Owned, Holder, Up,
       Attached, LeavesTombstone, Detached, FailurePoints
  <1>13. Ledger'
    BY <1>1, <1>2, <1>3, <1>4, <1>5, <1>6, <1>7, LiveTyped DEF DebugInv, Ledger, Changed,
       Unrecorded, MutatorOps
  <1> QED
    BY <1>8, <1>9, <1>10, <1>11, <1>12, <1>13 DEF DebugInv

\* gdb answers with an error: a mutator whose list was not read is unrecorded.
LEMMA OpErrors ==
    ASSUME DebugInv, OpError
    PROVE  DebugInv'
  <1>1. /\ call.op \in EngineOps /\ call.pc \in {"engine", "list"}
    BY Shape DEF OpError, DebugInv, CallOk, Calls, Idle, StartPoints, WorkPoints, FailurePoints,
       EndPoints
  <1>2. /\ call.sid \in Sessions /\ call.sid = dbg.sid /\ call.sid \in live
        /\ call.op # "start" /\ starts \in Nat /\ gdb[call.sid].link # "none"
    BY <1>1, Shape DEF DebugInv, CallOk, Served, Registered, Idle, Calls, WorkPoints, EngineOps,
       MutatorOps, ReadOps
  <1>3. PICK v \in SUBSET {"bps", "mods"} :
            /\ gdb' = [gdb EXCEPT ![call.sid] = [gdb[call.sid] EXCEPT !.dirty = v]]
            /\ gdb[call.sid].dirty \cup Changed \subseteq v
    <2> DEFINE w == IF call.pc = "list" THEN gdb[call.sid].dirty \cup Unrecorded ELSE gdb[call.sid].dirty
    <2>1. w \in SUBSET {"bps", "mods"}
      BY <1>2 DEF Unrecorded, DebugInv, Typed, Gdbs
    <2>2. gdb' = [gdb EXCEPT ![call.sid] = [gdb[call.sid] EXCEPT !.dirty = w]]
      BY <1>2 DEF OpError, DebugInv, Typed
    <2>3. gdb[call.sid].dirty \cup Changed \subseteq w
      BY <1>1 DEF Changed
    <2> QED
      BY <2>1, <2>2, <2>3
  <1>4. gdb[call.sid] \in Gdbs
    BY <1>2 DEF DebugInv, Typed
  <1>5. LET g == gdb[call.sid]
            h == [g EXCEPT !.dirty = v]
        IN /\ h \in Gdbs /\ h.dirty = v
           /\ h.link = g.link /\ h.bps = g.bps /\ h.mods = g.mods /\ h.stop = g.stop
    BY <1>4, GdbDirty
  <1>6. /\ gdb' \in [Sessions -> Gdbs] /\ gdb'[call.sid].dirty = v
        /\ gdb'[call.sid].link = gdb[call.sid].link /\ gdb'[call.sid].bps = gdb[call.sid].bps
        /\ gdb'[call.sid].mods = gdb[call.sid].mods /\ gdb'[call.sid].stop = gdb[call.sid].stop
        /\ \A t \in Sessions : t # call.sid => gdb'[t] = gdb[t]
    BY <1>2, <1>3, <1>5, GdbSet DEF DebugInv, Typed
  <1>7. UNCHANGED <<gen, kernel, record, parked, dbg, file, live, starts, stray, failed, unmarked>>
    BY DEF OpError, svars, dvars, evars, hvars
  <1>8. /\ call' = Idle /\ call' \in Calls /\ lock' \in BOOLEAN
        /\ call'.pc = "idle" /\ call'.op = "none" /\ call'.sid = 0
    BY ReturnFacts DEF OpError
  <1>9. Typed'
    BY <1>1, <1>2, <1>3, <1>4, <1>5, <1>6, <1>7, <1>8 DEF DebugInv, Typed
  <1>10. CallOk' /\ Fresh'
    BY <1>1, <1>2, <1>3, <1>4, <1>5, <1>6, <1>7, <1>8, Shape DEF DebugInv, CallOk, Fresh, Idle,
       StartPoints, WorkPoints, FailurePoints, EndPoints, EngineOps, MutatorOps, ReadOps
  <1>11. Served'
    BY <1>1, <1>2, <1>3, <1>4, <1>5, <1>6, <1>7, <1>8, Shape, LiveTyped DEF DebugInv, Served,
       Idle, NoRecord, StartPoints, WorkPoints, FailurePoints, EndPoints, EngineOps, MutatorOps,
       ReadOps
  <1>12. Registered' /\ Connected'
    BY <1>1, <1>2, <1>3, <1>4, <1>5, <1>6, <1>7, <1>8, LiveTyped DEF DebugInv, Registered,
       Connected, Holder, Up, Attached
  <1>13. Held' /\ Owned'
    BY <1>1, <1>2, <1>3, <1>4, <1>5, <1>6, <1>7, <1>8 DEF DebugInv, Held, Found, Gated, Owned,
       Holder, Up, Attached, LeavesTombstone, Detached, FailurePoints
  <1>14. Ledger'
    BY <1>1, <1>2, <1>3, <1>4, <1>5, <1>6, <1>7, <1>8, LiveTyped DEF DebugInv, Ledger, Changed,
       Unrecorded, MutatorOps
  <1> QED
    BY <1>9, <1>10, <1>11, <1>12, <1>13, <1>14 DEF DebugInv

\* The bookkeeping fails: what the call changed is unrecorded.
LEMMA PersistsFail ==
    ASSUME DebugInv, PersistFails
    PROVE  DebugInv'
  <1>1. /\ call.op \in EngineOps /\ call.pc \in {"persist", "persist_unknown", "record",
               "record_unknown"}
    BY Shape DEF PersistFails, DebugInv, CallOk, Calls, Idle, StartPoints, WorkPoints,
       FailurePoints, EndPoints
  <1>2. /\ call.sid \in Sessions /\ call.sid = dbg.sid /\ call.sid \in live
        /\ call.op # "start" /\ starts \in Nat /\ gdb[call.sid].link # "none"
    BY <1>1, Shape DEF DebugInv, CallOk, Served, Registered, Idle, Calls, WorkPoints, EngineOps,
       MutatorOps, ReadOps
  <1>3. PICK v \in SUBSET {"bps", "mods"} :
            /\ gdb' = [gdb EXCEPT ![call.sid] = [gdb[call.sid] EXCEPT !.dirty = v]]
            /\ gdb[call.sid].dirty \cup Unrecorded \subseteq v
    BY <1>1, <1>2 DEF PersistFails, Unrecorded, Changed, DebugInv, Typed, Gdbs
  <1>4. gdb[call.sid] \in Gdbs
    BY <1>2 DEF DebugInv, Typed
  <1>5. LET g == gdb[call.sid]
            h == [g EXCEPT !.dirty = v]
        IN /\ h \in Gdbs /\ h.dirty = v
           /\ h.link = g.link /\ h.bps = g.bps /\ h.mods = g.mods /\ h.stop = g.stop
    BY <1>4, GdbDirty
  <1>6. /\ gdb' \in [Sessions -> Gdbs] /\ gdb'[call.sid].dirty = v
        /\ gdb'[call.sid].link = gdb[call.sid].link /\ gdb'[call.sid].bps = gdb[call.sid].bps
        /\ gdb'[call.sid].mods = gdb[call.sid].mods /\ gdb'[call.sid].stop = gdb[call.sid].stop
        /\ \A t \in Sessions : t # call.sid => gdb'[t] = gdb[t]
    BY <1>2, <1>3, <1>5, GdbSet DEF DebugInv, Typed
  <1>7. UNCHANGED <<gen, kernel, record, parked, dbg, file, live, starts, stray, failed, unmarked>>
    BY DEF PersistFails, svars, dvars, evars, hvars
  <1>8. /\ call' = Idle /\ call' \in Calls /\ lock' \in BOOLEAN
        /\ call'.pc = "idle" /\ call'.op = "none" /\ call'.sid = 0
    BY ReturnFacts DEF PersistFails
  <1>9. Typed'
    BY <1>1, <1>2, <1>3, <1>4, <1>5, <1>6, <1>7, <1>8 DEF DebugInv, Typed
  <1>10. CallOk' /\ Fresh'
    BY <1>1, <1>2, <1>3, <1>4, <1>5, <1>6, <1>7, <1>8, Shape DEF DebugInv, CallOk, Fresh, Idle,
       StartPoints, WorkPoints, FailurePoints, EndPoints, EngineOps, MutatorOps, ReadOps
  <1>11. Served'
    BY <1>1, <1>2, <1>3, <1>4, <1>5, <1>6, <1>7, <1>8, Shape, LiveTyped DEF DebugInv, Served,
       Idle, NoRecord, StartPoints, WorkPoints, FailurePoints, EndPoints, EngineOps, MutatorOps,
       ReadOps
  <1>12. Registered' /\ Connected'
    BY <1>1, <1>2, <1>3, <1>4, <1>5, <1>6, <1>7, <1>8, LiveTyped DEF DebugInv, Registered,
       Connected, Holder, Up, Attached
  <1>13. Held' /\ Owned'
    BY <1>1, <1>2, <1>3, <1>4, <1>5, <1>6, <1>7, <1>8 DEF DebugInv, Held, Found, Gated, Owned,
       Holder, Up, Attached, LeavesTombstone, Detached, FailurePoints
  <1>14. Ledger'
    BY <1>1, <1>2, <1>3, <1>4, <1>5, <1>6, <1>7, <1>8, LiveTyped DEF DebugInv, Ledger, Changed,
       Unrecorded, MutatorOps
  <1> QED
    BY <1>9, <1>10, <1>11, <1>12, <1>13, <1>14 DEF DebugInv

\* RebuiltSession: the tables of the session that a call persists.
LEMMA RebuiltFacts ==
    ASSUME Typed, NEW s \in Sessions, file[s].exec # "none"
    PROVE  LET h == RebuiltSession(s)
           IN /\ h \in Files /\ h.exec = file[s].exec
              /\ h.bps = IF call.op \in MutatorOps THEN gdb[s].bps ELSE file[s].bps
              /\ h.mods = IF call.op = "load" THEN call.arg ELSE file[s].mods
  <1>1. file[s] \in Files /\ gdb[s].bps \in SUBSET Locations /\ call.arg \in SUBSET Addresses
    BY DEF Typed, Gdbs, Calls
  <1> DEFINE b == IF call.op \in MutatorOps THEN gdb[s].bps ELSE file[s].bps
             m == IF call.op = "load" THEN call.arg ELSE file[s].mods
  <1>2. b \in SUBSET Locations /\ m \in SUBSET Addresses
    BY <1>1 DEF Files
  <1>3. RebuiltSession(s) = [file[s] EXCEPT !.bps = b, !.mods = m]
    BY <1>1 DEF RebuiltSession, Files
  <1> HIDE DEF b, m
  <1>4. LET h == [file[s] EXCEPT !.bps = b, !.mods = m]
        IN h \in Files /\ h.exec = file[s].exec /\ h.bps = b /\ h.mods = m
    BY <1>1, <1>2 DEF Files
  <1> QED
    BY <1>3, <1>4 DEF b, m

\* The session file has what gdb has of what the call changed.
LEMMA Persists ==
    ASSUME DebugInv, Persist
    PROVE  DebugInv'
  <1>1. /\ call.pc \in {"persist", "persist_unknown"} /\ call' \in Calls
        /\ call'.pc = (IF call.pc = "persist" THEN "record" ELSE "record_unknown")
        /\ call'.op = call.op /\ call'.sid = call.sid
        /\ call'.arg = call.arg /\ lock' = lock
    BY GotoFacts DEF DebugInv, Persist, Pcs, WorkPoints
  <1>2. /\ call.op \in EngineOps /\ call.sid \in Sessions /\ call.sid = dbg.sid /\ call.sid \in live
        /\ call.sid <= starts /\ file[call.sid].exec = "stopped" /\ call.op # "start" /\ call.op # "end"
    BY <1>1, Shape DEF DebugInv, CallOk, Served, Fresh, Idle, Calls, WorkPoints, StartPoints,
       FailurePoints, EndPoints
  <1>3. LET h == RebuiltSession(call.sid)
        IN /\ h \in Files /\ h.exec = "stopped"
           /\ h.bps = IF call.op \in MutatorOps THEN gdb[call.sid].bps ELSE file[call.sid].bps
           /\ h.mods = IF call.op = "load" THEN call.arg ELSE file[call.sid].mods
    BY <1>2, RebuiltFacts DEF DebugInv
  <1>4. /\ file' \in [Sessions -> Files] /\ file'[call.sid].exec = "stopped"
        /\ file'[call.sid].bps = IF call.op \in MutatorOps THEN gdb[call.sid].bps ELSE file[call.sid].bps
        /\ file'[call.sid].mods = IF call.op = "load" THEN call.arg ELSE file[call.sid].mods
        /\ \A t \in Sessions : t # call.sid => file'[t] = file[t]
    BY <1>2, <1>3, FileSet DEF Persist, DebugInv, Typed
  <1>5. file'[call.sid] # NoFile
    BY <1>4, NoFileTyped
  <1>6. UNCHANGED <<gen, kernel, record, parked, dbg, live, gdb, starts, stray, failed, unmarked>>
    BY DEF Persist, svars, dvars, evars, hvars
  <1>7. Typed'
    BY <1>1, <1>2, <1>3, <1>4, <1>5, <1>6 DEF DebugInv, Typed
  <1>8. CallOk' /\ Fresh'
    BY <1>1, <1>2, <1>3, <1>4, <1>5, <1>6, Shape DEF DebugInv, CallOk, Fresh, Idle, StartPoints,
       WorkPoints, FailurePoints, EndPoints, EngineOps, MutatorOps, ReadOps
  <1>9. Served'
    BY <1>1, <1>2, <1>3, <1>4, <1>5, <1>6, Shape DEF DebugInv, Served, Idle, NoRecord,
       StartPoints, WorkPoints, FailurePoints, EndPoints, EngineOps, MutatorOps, ReadOps
  <1>10. Registered' /\ Connected'
    BY <1>1, <1>2, <1>3, <1>4, <1>5, <1>6, LiveTyped DEF DebugInv, Registered, Connected, Holder,
       Up, Attached
  <1>11. Held' /\ Owned'
    BY <1>1, <1>2, <1>3, <1>4, <1>5, <1>6 DEF DebugInv, Held, Found, Gated, Owned, Holder, Up,
       Attached, LeavesTombstone, Detached, FailurePoints
  <1>12. Ledger'
    <2>1. call.pc = "persist_unknown" => call.op = "interrupt"
      BY DEF DebugInv,
                 CallOk
    <2>2. Changed' = {} /\ Changed = IF call.pc = "persist" THEN Unrecorded ELSE {}
      BY <1>1 DEF Changed
    <2>3. \A s \in live : s # call.sid =>
            /\ "bps" \in gdb[s].dirty \/ file[s].bps = gdb[s].bps
            /\ "mods" \in gdb[s].dirty \/ file[s].mods = gdb[s].mods
      BY DEF DebugInv, Ledger
    <2>4. \/ "bps" \in gdb[call.sid].dirty
          \/ file'[call.sid].bps = gdb[call.sid].bps
      BY <1>2, <1>4, <2>1, <2>2 DEF DebugInv, Ledger, Unrecorded, MutatorOps
    <2>5. \/ "mods" \in gdb[call.sid].dirty
          \/ file'[call.sid].mods = gdb[call.sid].mods
      BY <1>1, <1>2, <1>4, <2>1, <2>2 DEF DebugInv, Ledger, Unrecorded, MutatorOps
    <2>6. call.op \in MutatorOps => file'[call.sid].bps = gdb[call.sid].bps
      BY <1>4
    <2>7. call'.pc # "persist" /\ \A s \in live : s \in Sessions
      BY <1>1, LiveTyped
    <2> QED
      BY <1>1, <1>4, <1>6, <2>2, <2>3, <2>4, <2>5, <2>6, <2>7 DEF Ledger
  <1> QED
    BY <1>7, <1>8, <1>9, <1>10, <1>11, <1>12 DEF DebugInv

\* The step of the manifest after the session file: the change is recorded.
LEMMA RecordsStep ==
    ASSUME DebugInv, RecordStep
    PROVE  DebugInv'
  <1>1. /\ call.op \in EngineOps /\ call.pc \in {"record", "record_unknown"}
    BY Shape DEF RecordStep, DebugInv, CallOk, Calls, Idle, StartPoints, WorkPoints,
       FailurePoints, EndPoints
  <1>2. /\ call.sid \in Sessions /\ call.sid = dbg.sid /\ call.sid \in live /\ call.sid # 0
        /\ call.sid <= starts /\ file[call.sid].exec = "stopped" /\ call.op # "start"
        /\ starts \in Nat /\ gdb[call.sid].link # "none"
    BY <1>1, Shape DEF DebugInv, CallOk, Served, Fresh, Registered, Idle, Calls, WorkPoints,
       Sessions, EngineOps, MutatorOps, ReadOps
  <1>3. PICK v \in SUBSET {"bps", "mods"} :
            /\ gdb' = [gdb EXCEPT ![call.sid] = [gdb[call.sid] EXCEPT !.dirty = v]]
            /\ gdb[call.sid].dirty \subseteq v \cup (IF call.op \in MutatorOps THEN {"bps"} ELSE {})
    <2> DEFINE w == IF call.op \in MutatorOps THEN gdb[call.sid].dirty \ {"bps"} ELSE gdb[call.sid].dirty
    <2>1. w \in SUBSET {"bps", "mods"}
      BY <1>2 DEF DebugInv, Typed, Gdbs
    <2>2. gdb' = [gdb EXCEPT ![call.sid] = [gdb[call.sid] EXCEPT !.dirty = w]]
      BY <1>2 DEF RecordStep, DebugInv, Typed
    <2> QED
      BY <2>1, <2>2
  <1>4. gdb[call.sid] \in Gdbs
    BY <1>2 DEF DebugInv, Typed
  <1>5. LET g == gdb[call.sid]
            h == [g EXCEPT !.dirty = v]
        IN /\ h \in Gdbs /\ h.dirty = v
           /\ h.link = g.link /\ h.bps = g.bps /\ h.mods = g.mods /\ h.stop = g.stop
    BY <1>4, GdbDirty
  <1>6. /\ gdb' \in [Sessions -> Gdbs] /\ gdb'[call.sid].dirty = v
        /\ gdb'[call.sid].link = gdb[call.sid].link /\ gdb'[call.sid].bps = gdb[call.sid].bps
        /\ gdb'[call.sid].mods = gdb[call.sid].mods /\ gdb'[call.sid].stop = gdb[call.sid].stop
        /\ \A t \in Sessions : t # call.sid => gdb'[t] = gdb[t]
    BY <1>2, <1>3, <1>5, GdbSet DEF DebugInv, Typed
  <1>7. /\ dbg' \in Steps /\ dbg'.sid = call.sid /\ dbg'.exec \in {"stopped", "unknown"}
    BY <1>2, Shape DEF RecordStep, Steps
  <1>8. file[call.sid] # NoFile
    BY <1>2, NoFileTyped
  <1>9. UNCHANGED <<gen, kernel, record, parked, file, live, starts, stray, failed, unmarked>>
    BY DEF RecordStep, svars, dvars, evars, hvars
  <1>10. /\ call' = Idle /\ call' \in Calls /\ lock' \in BOOLEAN
        /\ call'.pc = "idle" /\ call'.op = "none" /\ call'.sid = 0
    BY ReturnFacts DEF RecordStep
  <1>11. Typed'
    BY <1>1, <1>2, <1>3, <1>4, <1>5, <1>6, <1>7, <1>8, <1>9, <1>10 DEF DebugInv, Typed
  <1>12. CallOk' /\ Fresh'
    BY <1>1, <1>2, <1>3, <1>4, <1>5, <1>6, <1>7, <1>8, <1>9, <1>10, Shape DEF DebugInv, CallOk,
       Fresh, Idle, StartPoints, WorkPoints, FailurePoints, EndPoints, EngineOps, MutatorOps,
       ReadOps
  <1>13. Served'
    BY <1>1, <1>2, <1>3, <1>4, <1>5, <1>6, <1>7, <1>8, <1>9, <1>10, Shape DEF DebugInv, Served,
       Idle, NoRecord, StartPoints, WorkPoints, FailurePoints, EndPoints, EngineOps, MutatorOps,
       ReadOps
  <1>14. Registered' /\ Connected'
    BY <1>1, <1>2, <1>3, <1>4, <1>5, <1>6, <1>7, <1>8, <1>9, <1>10, LiveTyped DEF DebugInv,
       Registered, Connected, Holder, Up, Attached
  <1>15. Held' /\ Owned'
    BY <1>1, <1>2, <1>3, <1>4, <1>5, <1>6, <1>7, <1>8, <1>9, <1>10 DEF DebugInv, Held, Found, Gated,
       Owned, Holder, Up, Attached, LeavesTombstone, Detached, FailurePoints
  <1>16. Ledger'
    <2>1. call.op \in MutatorOps => call.pc = "record"
      BY <1>1 DEF DebugInv, CallOk,
                 MutatorOps
    <2>2. \A s \in live : s # call.sid =>
            /\ "bps" \in gdb[s].dirty \/ file[s].bps = gdb[s].bps
            /\ "mods" \in gdb[s].dirty \/ file[s].mods = gdb[s].mods
      BY DEF DebugInv, Ledger
    <2>3. /\ "bps" \in gdb[call.sid].dirty \/ file[call.sid].bps = gdb[call.sid].bps
          /\ "mods" \in gdb[call.sid].dirty \/ file[call.sid].mods = gdb[call.sid].mods
      BY <1>1, <1>2 DEF DebugInv, Ledger, Changed
    <2>4. call.op \in MutatorOps => file[call.sid].bps = gdb[call.sid].bps
      BY <2>1 DEF DebugInv, Ledger
    <2>5. \/ "bps" \in gdb'[call.sid].dirty
          \/ file[call.sid].bps = gdb[call.sid].bps
      BY <1>3, <1>6, <2>3, <2>4
    <2>6. \/ "mods" \in gdb'[call.sid].dirty
          \/ file[call.sid].mods = gdb[call.sid].mods
      BY <1>3, <1>6, <2>3
    <2>7. live' = live /\ file' = file /\ (\A s \in live : s \in Sessions)
      BY <1>9, LiveTyped
    <2> QED
      BY <1>6, <1>10, <2>2, <2>5, <2>6, <2>7 DEF Ledger, Changed, MutatorOps
  <1> QED
    BY <1>11, <1>12, <1>13, <1>14, <1>15, <1>16 DEF DebugInv

\* end_session begins on the session that the manifest names.
LEMMA EndBegins ==
    ASSUME DebugInv, EndBegin
    PROVE  DebugInv'
  <1>1. /\ call = Idle /\ dbg # NoStep /\ dbg.sid \in Sessions /\ dbg.sid # 0 /\ file[dbg.sid] # NoFile
        /\ call.pc = "idle" /\ call.op = "none" /\ call.sid = 0
    BY Shape DEF EndBegin, Begin, ActiveSession, DebugInv, Typed, Idle
  <1>2. /\ call' \in Calls /\ call'.op = "end" /\ call'.sid = dbg.sid /\ call'.pc = "endfile" /\ call'.arg = {}
        /\ lock' = TRUE
    BY <1>1, Shape DEF EndBegin, Begin, Calls, EndPoints
  <1>3. UNCHANGED <<gen, kernel, record, parked, dbg, file, live, gdb, starts, stray, failed, unmarked>>
    BY DEF EndBegin, svars, dvars, evars, hvars
  <1>4. Typed'
    BY <1>1, <1>2, <1>3 DEF DebugInv, Typed
  <1>5. CallOk' /\ Fresh'
    BY <1>1, <1>2, <1>3, Shape DEF DebugInv, CallOk, Fresh, Idle, StartPoints, WorkPoints,
       FailurePoints, EndPoints, EngineOps, MutatorOps, ReadOps
  <1>6. Served'
    BY <1>1, <1>2, <1>3, Shape DEF DebugInv, Served, Idle, NoRecord, StartPoints, WorkPoints,
       FailurePoints, EndPoints, EngineOps, MutatorOps, ReadOps
  <1>7. Registered' /\ Connected'
    BY <1>1, <1>2, <1>3, LiveTyped DEF DebugInv, Registered, Connected, Holder, Up, Attached
  <1>8. Held' /\ Owned'
    BY <1>1, <1>2, <1>3 DEF DebugInv, Held, Found, Gated, Owned, Holder, Up, Attached,
       LeavesTombstone, Detached, FailurePoints
  <1>9. Ledger'
    BY <1>1, <1>2, <1>3, LiveTyped DEF DebugInv, Ledger, Changed, Unrecorded, MutatorOps
  <1> QED
    BY <1>4, <1>5, <1>6, <1>7, <1>8, <1>9 DEF DebugInv

\* The session file says that the session ended.
LEMMA EndFiles ==
    ASSUME DebugInv, EndFile
    PROVE  DebugInv'
  <1>1. /\ call.pc = "endfile" /\ call' \in Calls
        /\ call'.pc = "endstep" /\ call'.op = call.op /\ call'.sid = call.sid
        /\ call'.arg = call.arg /\ lock' = lock
    BY GotoFacts DEF DebugInv, EndFile, Pcs, StartPoints, WorkPoints, FailurePoints, EndPoints
  <1>2. call.op = "end" /\ call.sid \in Sessions /\ call.sid = dbg.sid /\ call.sid <= starts /\ dbg # NoStep
        /\ file[call.sid] # NoFile /\ call.sid # 0 /\ dbg.sid # 0 /\ starts \in Nat
    BY <1>1, Shape DEF DebugInv, Typed, CallOk, Served, Fresh, NoStep, Idle, Calls, Sessions,
       StartPoints, WorkPoints, FailurePoints, EndPoints
  <1>3. LET f == file[call.sid]
            h == [f EXCEPT !.exec = "ended"]
        IN /\ h \in Files /\ h.exec = "ended" /\ h.bps = f.bps /\ h.mods = f.mods
    BY <1>2 DEF Files, DebugInv, Typed
  <1>4. /\ file' \in [Sessions -> Files] /\ file'[call.sid].exec = "ended"
        /\ file'[call.sid].bps = file[call.sid].bps /\ file'[call.sid].mods = file[call.sid].mods
        /\ \A t \in Sessions : t # call.sid => file'[t] = file[t]
    BY <1>2, <1>3, FileSet DEF EndFile, DebugInv, Typed
  <1>5. file'[call.sid] # NoFile
    BY <1>4, NoFileTyped
  <1>6. UNCHANGED <<gen, kernel, record, parked, dbg, live, gdb, starts, stray, failed, unmarked>>
    BY DEF EndFile, svars, dvars, evars, hvars
  <1>7. Typed'
    BY <1>1, <1>2, <1>3, <1>4, <1>5, <1>6 DEF DebugInv, Typed
  <1>8. CallOk' /\ Fresh'
    BY <1>1, <1>2, <1>3, <1>4, <1>5, <1>6, Shape DEF DebugInv, CallOk, Fresh, Idle, StartPoints,
       WorkPoints, FailurePoints, EndPoints, EngineOps, MutatorOps, ReadOps
  <1>9. Served'
    BY <1>1, <1>2, <1>3, <1>4, <1>5, <1>6, Shape DEF DebugInv, Served, Idle, NoRecord,
       StartPoints, WorkPoints, FailurePoints, EndPoints, EngineOps, MutatorOps, ReadOps
  <1>10. Registered' /\ Connected'
    BY <1>1, <1>2, <1>3, <1>4, <1>5, <1>6, LiveTyped DEF DebugInv, Registered, Connected, Holder,
       Up, Attached
  <1>11. Held' /\ Owned'
    BY <1>1, <1>2, <1>3, <1>4, <1>5, <1>6 DEF DebugInv, Held, Found, Gated, Owned, Holder, Up,
       Attached, LeavesTombstone, Detached, FailurePoints
  <1>12. Ledger'
    BY <1>1, <1>2, <1>3, <1>4, <1>5, <1>6, LiveTyped DEF DebugInv, Ledger, Changed, Unrecorded,
       MutatorOps
  <1> QED
    BY <1>7, <1>8, <1>9, <1>10, <1>11, <1>12 DEF DebugInv

\* The step of the manifest says that the session ended, before gdb goes.
LEMMA EndSteps ==
    ASSUME DebugInv, EndStep
    PROVE  DebugInv'
  <1>1. /\ call.pc = "endstep" /\ call' \in Calls
        /\ call'.pc = "endreap" /\ call'.op = call.op /\ call'.sid = call.sid
        /\ call'.arg = call.arg /\ lock' = lock
    BY GotoFacts DEF DebugInv, EndStep, Pcs, StartPoints, WorkPoints, FailurePoints, EndPoints
  <1>2. call.op = "end" /\ call.sid \in Sessions /\ call.sid = dbg.sid /\ call.sid <= starts /\ dbg # NoStep
        /\ file[call.sid] # NoFile /\ call.sid # 0 /\ dbg.sid # 0 /\ starts \in Nat
    BY <1>1, Shape DEF DebugInv, Typed, CallOk, Served, Fresh, NoStep, Idle, Calls, Sessions,
       StartPoints, WorkPoints, FailurePoints, EndPoints
  <1>3. dbg' \in Steps /\ dbg'.sid = dbg.sid /\ dbg'.exec = "ended"
    BY Shape DEF EndStep, Steps
  <1>4. UNCHANGED <<gen, kernel, record, parked, file, live, gdb, starts, stray, failed, unmarked>>
    BY DEF EndStep, svars, dvars, evars, hvars
  <1>5. Typed'
    BY <1>1, <1>2, <1>3, <1>4 DEF DebugInv, Typed
  <1>6. CallOk' /\ Fresh'
    BY <1>1, <1>2, <1>3, <1>4, Shape DEF DebugInv, CallOk, Fresh, Idle, StartPoints, WorkPoints,
       FailurePoints, EndPoints, EngineOps, MutatorOps, ReadOps
  <1>7. Served'
    BY <1>1, <1>2, <1>3, <1>4, Shape DEF DebugInv, Served, Idle, NoRecord, StartPoints,
       WorkPoints, FailurePoints, EndPoints, EngineOps, MutatorOps, ReadOps
  <1>8. Registered' /\ Connected'
    BY <1>1, <1>2, <1>3, <1>4, LiveTyped DEF DebugInv, Registered, Connected, Holder, Up, Attached
  <1>9. Held' /\ Owned'
    BY <1>1, <1>2, <1>3, <1>4 DEF DebugInv, Held, Found, Gated, Owned, Holder, Up, Attached,
       LeavesTombstone, Detached, FailurePoints
  <1>10. Ledger'
    BY <1>1, <1>2, <1>3, <1>4, LiveTyped DEF DebugInv, Ledger, Changed, Unrecorded, MutatorOps
  <1> QED
    BY <1>5, <1>6, <1>7, <1>8, <1>9, <1>10 DEF DebugInv

\* The end is not recorded: the session goes on.
LEMMA EndWritesFail ==
    ASSUME DebugInv, EndWriteFails
    PROVE  DebugInv'
  <1>1. call.pc \in {"endfile", "endstep"}
    BY DEF EndWriteFails
  <1>2. call.op = "end" /\ call.sid \in Sessions /\ call.sid = dbg.sid /\ call.sid <= starts /\ dbg # NoStep
        /\ file[call.sid] # NoFile /\ call.sid # 0 /\ dbg.sid # 0 /\ starts \in Nat
    BY <1>1, Shape DEF DebugInv, Typed, CallOk, Served, Fresh, NoStep, Idle, Calls, Sessions,
       StartPoints, WorkPoints, FailurePoints, EndPoints
  <1>3. /\ call' = Idle /\ call' \in Calls /\ lock' \in BOOLEAN
        /\ call'.pc = "idle" /\ call'.op = "none" /\ call'.sid = 0
    BY ReturnFacts DEF EndWriteFails
  <1>4. UNCHANGED <<gen, kernel, record, parked, dbg, file, live, gdb, starts, stray, failed, unmarked>>
    BY DEF EndWriteFails, svars, dvars, evars, hvars
  <1>5. Typed'
    BY <1>1, <1>2, <1>3, <1>4 DEF DebugInv, Typed
  <1>6. CallOk' /\ Fresh'
    BY <1>1, <1>2, <1>3, <1>4, Shape DEF DebugInv, CallOk, Fresh, Idle, StartPoints, WorkPoints,
       FailurePoints, EndPoints, EngineOps, MutatorOps, ReadOps
  <1>7. Served'
    BY <1>1, <1>2, <1>3, <1>4, Shape DEF DebugInv, Served, Idle, NoRecord, StartPoints,
       WorkPoints, FailurePoints, EndPoints, EngineOps, MutatorOps, ReadOps
  <1>8. Registered' /\ Connected'
    BY <1>1, <1>2, <1>3, <1>4, LiveTyped DEF DebugInv, Registered, Connected, Holder, Up, Attached
  <1>9. Held' /\ Owned'
    BY <1>1, <1>2, <1>3, <1>4 DEF DebugInv, Held, Found, Gated, Owned, Holder, Up, Attached,
       LeavesTombstone, Detached, FailurePoints
  <1>10. Ledger'
    BY <1>1, <1>2, <1>3, <1>4, LiveTyped DEF DebugInv, Ledger, Changed, Unrecorded, MutatorOps
  <1> QED
    BY <1>5, <1>6, <1>7, <1>8, <1>9, <1>10 DEF DebugInv

\* The gdb of the session that ended goes, and the kernel runs.
LEMMA EndReaps ==
    ASSUME DebugInv, EndReap
    PROVE  DebugInv'
  <1>1. /\ call.pc = "endreap" /\ call' \in Calls
        /\ call'.pc = "endclose" /\ call'.op = call.op /\ call'.sid = call.sid
        /\ call'.arg = call.arg /\ lock' = FALSE
    BY DEF DebugInv, Typed, Calls, EndReap, EndPoints
  <1>2. call.op = "end" /\ call.sid \in Sessions /\ call.sid = dbg.sid /\ call.sid <= starts /\ dbg # NoStep
        /\ file[call.sid] # NoFile /\ call.sid # 0 /\ dbg.sid # 0 /\ starts \in Nat
    BY <1>1, Shape DEF DebugInv, Typed, CallOk, Served, Fresh, NoStep, Idle, Calls, Sessions,
       StartPoints, WorkPoints, FailurePoints, EndPoints
  <1>3. /\ gdb' \in [Sessions -> Gdbs] /\ gdb'[call.sid] = NoGdb /\ live' = live \ {call.sid}
        /\ \A t \in Sessions : t # call.sid => gdb'[t] = gdb[t]
        /\ kernel' \in {"running", "stopped", "off"}
        /\ kernel' = "stopped" => kernel = "stopped" /\ (gdb[call.sid] = NoGdb \/ stray)
    BY <1>2, ForceResumeFacts DEF DebugInv, EndReap
  <1>4. kernel = "stopped" => gdb[call.sid] # NoGdb \/ stray
    BY <1>2, NoGdbTyped DEF DebugInv, Held, Found, Gated, Attached, Holder
  <1>5. /\ kernel' # "stopped" \/ stray
        /\ \A s \in Sessions : gdb'[s].link # "up" /\ ~gdb'[s].stop
    BY <1>2, <1>3, <1>4, NoGdbTyped DEF DebugInv, Connected, Up, Holder
  <1>6. UNCHANGED <<gen, record, parked, dbg, file, starts, stray, failed, unmarked>>
    BY DEF EndReap, dvars, hvars
  <1>7. Typed'
    BY <1>1, <1>2, <1>3, <1>4, <1>5, <1>6 DEF DebugInv, Typed
  <1>8. CallOk' /\ Fresh'
    BY <1>1, <1>2, <1>3, <1>4, <1>5, <1>6, Shape DEF DebugInv, CallOk, Fresh, Idle, StartPoints,
       WorkPoints, FailurePoints, EndPoints, EngineOps, MutatorOps, ReadOps
  <1>9. Served'
    BY <1>1, <1>2, <1>3, <1>4, <1>5, <1>6, Shape DEF DebugInv, Served, Idle, NoRecord,
       StartPoints, WorkPoints, FailurePoints, EndPoints, EngineOps, MutatorOps, ReadOps
  <1>10. Registered' /\ Connected'
    BY <1>1, <1>2, <1>3, <1>4, <1>5, <1>6, LiveTyped, NoGdbTyped DEF DebugInv, Registered,
       Connected, Holder, Up, Attached
  <1>11. Held' /\ Owned'
    BY <1>1, <1>2, <1>3, <1>4, <1>5, <1>6 DEF DebugInv, Held, Found, Gated, Owned, Holder, Up,
       Attached, LeavesTombstone, Detached, FailurePoints
  <1>12. Ledger'
    BY <1>1, <1>2, <1>3, <1>4, <1>5, <1>6, LiveTyped DEF DebugInv, Ledger, Changed, Unrecorded,
       MutatorOps
  <1> QED
    BY <1>7, <1>8, <1>9, <1>10, <1>11, <1>12 DEF DebugInv

\* The transport session goes last, without a tombstone.
LEMMA EndCloses ==
    ASSUME DebugInv, EndClose
    PROVE  DebugInv'
  <1>1. call.pc = "endclose"
    BY DEF EndClose
  <1>2. call.op = "end" /\ call.sid \in Sessions /\ call.sid = dbg.sid /\ call.sid <= starts /\ dbg # NoStep
        /\ file[call.sid] # NoFile /\ call.sid # 0 /\ dbg.sid # 0 /\ starts \in Nat
    BY <1>1, Shape DEF DebugInv, Typed, CallOk, Served, Fresh, NoStep, Idle, Calls, Sessions,
       StartPoints, WorkPoints, FailurePoints, EndPoints
  <1>3. call' = Idle /\ lock' = lock
    BY DEF EndClose
  <1>4. call' \in Calls /\ call'.pc = "idle" /\ call'.op = "none" /\ call'.sid = 0
    BY <1>3, IdleTyped
  <1>5. /\ record' = record \/ record' = NoRecord
        /\ parked' \in 0..MaxGen
        /\ failed' \in BOOLEAN /\ (failed => failed')
        /\ record' # NoRecord => failed' \/ record.sid # call.sid
        /\ unmarked' \in BOOLEAN /\ (unmarked => unmarked') /\ stray' = stray
    BY TeardownFacts DEF EndClose, DebugInv, Typed, hvars
  <1>6. NoRecord \in Records /\ NoRecord.sid = 0
    BY NoRecordTyped
  <1>7. Attached => stray \/ unmarked
    BY <1>1 DEF DebugInv, Held, Found, Gated, Detached
  <1>8. UNCHANGED <<gen, kernel, dbg, file, live, gdb, starts>>
    BY DEF EndClose, svars, dvars, evars
  <1>9. Typed'
    BY <1>1, <1>2, <1>3, <1>4, <1>5, <1>6, <1>7, <1>8 DEF DebugInv, Typed
  <1>10. CallOk' /\ Fresh'
    BY <1>1, <1>2, <1>3, <1>4, <1>5, <1>6, <1>7, <1>8, Shape DEF DebugInv, CallOk, Fresh, Idle,
       StartPoints, WorkPoints, FailurePoints, EndPoints, EngineOps, MutatorOps, ReadOps
  <1>11. Served'
    BY <1>1, <1>2, <1>3, <1>4, <1>5, <1>6, <1>7, <1>8, Shape DEF DebugInv, Served, Idle, NoRecord,
       StartPoints, WorkPoints, FailurePoints, EndPoints, EngineOps, MutatorOps, ReadOps
  <1>12. Registered' /\ Connected'
    BY <1>1, <1>2, <1>3, <1>4, <1>5, <1>6, <1>7, <1>8, LiveTyped DEF DebugInv, Registered,
       Connected, Holder, Up, Attached
  <1>13. Held' /\ Owned'
    BY <1>1, <1>2, <1>3, <1>4, <1>5, <1>6, <1>7, <1>8 DEF DebugInv, Held, Found, Gated, Owned,
       Holder, Up, Attached, LeavesTombstone, Detached, FailurePoints
  <1>14. Ledger'
    BY <1>1, <1>2, <1>3, <1>4, <1>5, <1>6, <1>7, <1>8, LiveTyped DEF DebugInv, Ledger, Changed,
       Unrecorded, MutatorOps
  <1> QED
    BY <1>9, <1>10, <1>11, <1>12, <1>13, <1>14 DEF DebugInv

\* transport.close under a session parks the generation of its record.
LEMMA TransportCloses ==
    ASSUME DebugInv, TransportClose
    PROVE  DebugInv'
  <1>1. /\ call = Idle /\ record # NoRecord /\ call' = call /\ lock' = lock /\ record' = NoRecord
    BY DEF TransportClose, Refused, Closed
  <1>2. /\ \/ parked' = (IF LeavesTombstone THEN record.gen ELSE parked)
           \/ parked' = parked /\ (kernel = "stopped" => unmarked')
        /\ unmarked' \in BOOLEAN /\ (unmarked => unmarked') /\ record.gen \in 0..MaxGen
    <2>1. \/ parked' = (IF LeavesTombstone THEN record.gen ELSE parked) /\ unmarked' = unmarked
          \/ parked' = parked /\ unmarked' = (unmarked \/ kernel = "stopped")
      BY DEF TransportClose, Closed
    <2>2. unmarked \in BOOLEAN /\ record.gen \in 0..MaxGen
      BY Shape DEF DebugInv, Typed
    <2>3. CASE parked' = (IF LeavesTombstone THEN record.gen ELSE parked) /\ unmarked' = unmarked
      BY <2>2, <2>3
    <2>4. CASE parked' = parked /\ unmarked' = (unmarked \/ kernel = "stopped")
      BY <2>2, <2>4
    <2> QED
      BY <2>1, <2>3, <2>4
  <1>3. NoRecord \in Records /\ NoRecord.sid = 0 /\ starts \in Nat
    BY NoRecordTyped, Shape
  <1>4. call.pc = "idle" /\ call.op = "none" /\ (Attached => kernel = "stopped")
    BY <1>1, IdleTyped DEF DebugInv, Connected, Attached
  <1>5. UNCHANGED <<gen, kernel, dbg, file, live, gdb, starts, stray, failed>>
    BY DEF TransportClose, svars, dvars, evars, hvars
  <1>6. Typed'
    BY <1>1, <1>2, <1>3, <1>4, <1>5 DEF DebugInv, Typed
  <1>7. CallOk' /\ Fresh'
    BY <1>1, <1>2, <1>3, <1>4, <1>5, Shape DEF DebugInv, CallOk, Fresh, Idle, StartPoints,
       WorkPoints, FailurePoints, EndPoints, EngineOps, MutatorOps, ReadOps
  <1>8. Served'
    BY <1>1, <1>2, <1>3, <1>4, <1>5, Shape DEF DebugInv, Served, Idle, NoRecord, StartPoints,
       WorkPoints, FailurePoints, EndPoints, EngineOps, MutatorOps, ReadOps
  <1>9. Registered' /\ Connected'
    BY <1>1, <1>2, <1>3, <1>4, <1>5, LiveTyped DEF DebugInv, Registered, Connected, Holder, Up,
       Attached
  <1>10. Found' /\ Owned'
    BY <1>1, <1>4, <1>5 DEF DebugInv, Held, Found, Owned, Holder, Up, Attached
  <1>11. Gated'
    <2>1. Attached' => kernel = "stopped" /\ Attached
      BY <1>4, <1>5 DEF Attached, Up
    <2>2. Attached /\ ~stray => record.gen = gen
      BY <1>1 DEF DebugInv, Held, Found
    <2>3. Attached /\ ~stray /\ ~unmarked' => LeavesTombstone \/ parked = gen
      BY <1>2 DEF DebugInv, Held, Gated
    <2>4. Attached /\ ~stray /\ ~unmarked' => parked' = gen
      BY <1>2, <1>4, <2>2, <2>3
    <2> QED
      BY <1>1, <1>4, <1>5, <2>1, <2>4 DEF Gated, Detached, FailurePoints
  <1>12. Ledger'
    BY <1>1, <1>2, <1>3, <1>4, <1>5, LiveTyped DEF DebugInv, Ledger, Changed, Unrecorded, MutatorOps
  <1> QED
    BY <1>6, <1>7, <1>8, <1>9, <1>10, <1>11, <1>12 DEF DebugInv, Held

\* inject_break records HALTED first.
LEMMA BreakHalts ==
    ASSUME DebugInv, BreakHalt
    PROVE  DebugInv'
  <1>1. call = Idle /\ record # NoRecord /\ record.sid \in Sessions /\ record.sid # 0
    BY Shape DEF BreakHalt, Sessions
  <1>2. /\ call' \in Calls /\ call'.op = "break" /\ call'.sid = record.sid /\ call'.pc = "inject" /\ call'.arg = {}
        /\ lock' = lock
    BY <1>1, IdleTyped, Shape DEF BreakHalt, Idle, Calls
  <1>3. /\ record' \in Records /\ record' # NoRecord /\ record'.sid = record.sid
        /\ record'.gen = record.gen /\ record'.exec = "halted" /\ record'.sid # 0 /\ record'.gen # 0
    BY <1>1, ExecFacts DEF BreakHalt
  <1>4. call.pc = "idle" /\ call.op = "none" /\ call.sid = 0
    BY <1>1, IdleTyped
  <1>5. UNCHANGED <<gen, kernel, parked, dbg, file, live, gdb, starts, stray, failed, unmarked>>
    BY DEF BreakHalt, svars, dvars, evars, hvars
  <1>6. Typed'
    BY <1>1, <1>2, <1>3, <1>4, <1>5 DEF DebugInv, Typed
  <1>7. CallOk' /\ Fresh'
    BY <1>1, <1>2, <1>3, <1>4, <1>5, Shape DEF DebugInv, CallOk, Fresh, Idle, StartPoints,
       WorkPoints, FailurePoints, EndPoints, EngineOps, MutatorOps, ReadOps
  <1>8. Served'
    BY <1>1, <1>2, <1>3, <1>4, <1>5, Shape DEF DebugInv, Served, Idle, NoRecord, StartPoints,
       WorkPoints, FailurePoints, EndPoints, EngineOps, MutatorOps, ReadOps
  <1>9. Registered' /\ Connected'
    BY <1>1, <1>2, <1>3, <1>4, <1>5, LiveTyped DEF DebugInv, Registered, Connected, Holder, Up,
       Attached
  <1>10. Held' /\ Owned'
    BY <1>1, <1>2, <1>3, <1>4, <1>5 DEF DebugInv, Held, Found, Gated, Owned, Holder, Up, Attached,
       LeavesTombstone, Detached, FailurePoints
  <1>11. Ledger'
    BY <1>1, <1>2, <1>3, <1>4, <1>5, LiveTyped DEF DebugInv, Ledger, Changed, Unrecorded, MutatorOps
  <1> QED
    BY <1>6, <1>7, <1>8, <1>9, <1>10, <1>11 DEF DebugInv

\* The break was refused: the record says UNKNOWN.
LEMMA BreaksUnconfirmed ==
    ASSUME DebugInv, BreakUnconfirmed
    PROVE  DebugInv'
  <1>1. call.pc = "inject" /\ call' = Idle /\ lock' = lock
    BY DEF BreakUnconfirmed
  <1>2. call' \in Calls /\ call'.pc = "idle" /\ call'.op = "none" /\ call'.sid = 0
    BY <1>1, IdleTyped
  <1>3. call.op = "break" /\ record # NoRecord
    BY <1>1, Shape DEF DebugInv, CallOk, Served, Idle, Calls, StartPoints, WorkPoints,
       FailurePoints, EndPoints
  <1>4. /\ record' \in Records /\ record' # NoRecord /\ record'.sid = record.sid
        /\ record'.gen = record.gen /\ record'.exec = "unknown" /\ record'.sid # 0 /\ record'.gen # 0
    BY <1>3, ExecFacts DEF BreakUnconfirmed
  <1>5. UNCHANGED <<gen, kernel, parked, dbg, file, live, gdb, starts, stray, failed, unmarked>>
    BY DEF BreakUnconfirmed, svars, dvars, evars, hvars
  <1>6. Typed'
    BY <1>1, <1>2, <1>3, <1>4, <1>5 DEF DebugInv, Typed
  <1>7. CallOk' /\ Fresh'
    BY <1>1, <1>2, <1>3, <1>4, <1>5, Shape DEF DebugInv, CallOk, Fresh, Idle, StartPoints,
       WorkPoints, FailurePoints, EndPoints, EngineOps, MutatorOps, ReadOps
  <1>8. Served'
    BY <1>1, <1>2, <1>3, <1>4, <1>5, Shape DEF DebugInv, Served, Idle, NoRecord, StartPoints,
       WorkPoints, FailurePoints, EndPoints, EngineOps, MutatorOps, ReadOps
  <1>9. Registered' /\ Connected'
    BY <1>1, <1>2, <1>3, <1>4, <1>5, LiveTyped DEF DebugInv, Registered, Connected, Holder, Up,
       Attached
  <1>10. Held' /\ Owned'
    BY <1>1, <1>2, <1>3, <1>4, <1>5 DEF DebugInv, Held, Found, Gated, Owned, Holder, Up, Attached,
       LeavesTombstone, Detached, FailurePoints
  <1>11. Ledger'
    BY <1>1, <1>2, <1>3, <1>4, <1>5, LiveTyped DEF DebugInv, Ledger, Changed, Unrecorded, MutatorOps
  <1> QED
    BY <1>6, <1>7, <1>8, <1>9, <1>10, <1>11 DEF DebugInv

\* A new boot: what was attached is attached no more.
LEMMA Reboots ==
    ASSUME DebugInv, Reboot
    PROVE  DebugInv'
  <1>1. call = Idle /\ call' = call /\ lock' = lock /\ gen' \in 1..MaxGen /\ kernel' = "running"
    BY Shape DEF Reboot, Refused, DebugInv, Typed
  <1>2. call.pc = "idle" /\ call.op = "none"
    BY <1>1, IdleTyped
  <1>3. \A s \in Sessions : ~gdb[s].stop
    BY <1>2 DEF DebugInv, Connected
  <1>4. \A s \in Sessions :
            LET g == gdb[s]
                h == [g EXCEPT !.link = "dead"]
            IN /\ h \in Gdbs /\ h.link = "dead" /\ h.bps = g.bps /\ h.mods = g.mods
               /\ h.stop = g.stop /\ h.dirty = g.dirty
    <2> TAKE s \in Sessions
    <2>1. gdb[s] \in Gdbs
      BY DEF DebugInv,
                 Typed
    <2> QED
      BY <2>1, GdbLink
  <1>5. /\ gdb' \in [Sessions -> Gdbs]
        /\ \A s \in Sessions :
             /\ gdb'[s].link \in {"none", "dead"} /\ gdb'[s].bps = gdb[s].bps
             /\ gdb'[s].mods = gdb[s].mods /\ gdb'[s].stop = gdb[s].stop /\ gdb'[s].dirty = gdb[s].dirty
             /\ gdb'[s].link = "none" <=> gdb[s].link = "none"
             /\ gdb'[s].link = "none" => gdb'[s] = NoGdb
             /\ gdb[s] = NoGdb => gdb'[s] = NoGdb
    BY <1>4, NoGdbTyped DEF Reboot, DebugInv, Typed
  <1>6. UNCHANGED <<record, parked, dbg, file, live, starts, failed>> /\ stray' = FALSE /\ unmarked' = FALSE
    BY DEF Reboot, svars, dvars, evars, hvars
  <1>7. Typed'
    BY <1>1, <1>2, <1>3, <1>4, <1>5, <1>6 DEF DebugInv, Typed
  <1>8. CallOk' /\ Fresh'
    BY <1>1, <1>2, <1>3, <1>4, <1>5, <1>6, Shape DEF DebugInv, CallOk, Fresh, Idle, StartPoints,
       WorkPoints, FailurePoints, EndPoints, EngineOps, MutatorOps, ReadOps
  <1>9. Served'
    BY <1>1, <1>2, <1>3, <1>4, <1>5, <1>6, Shape DEF DebugInv, Served, Idle, NoRecord,
       StartPoints, WorkPoints, FailurePoints, EndPoints, EngineOps, MutatorOps, ReadOps
  <1>10. Registered' /\ Connected'
    BY <1>1, <1>2, <1>3, <1>4, <1>5, <1>6, LiveTyped DEF DebugInv, Registered, Connected, Holder,
       Up, Attached
  <1>11. Held' /\ Owned'
    BY <1>1, <1>2, <1>3, <1>4, <1>5, <1>6 DEF DebugInv, Held, Found, Gated, Owned, Holder, Up,
       Attached, LeavesTombstone, Detached, FailurePoints
  <1>12. Ledger'
    BY <1>1, <1>2, <1>3, <1>4, <1>5, <1>6, LiveTyped DEF DebugInv, Ledger, Changed, Unrecorded,
       MutatorOps
  <1> QED
    BY <1>7, <1>8, <1>9, <1>10, <1>11, <1>12 DEF DebugInv

\* The kernel reaches a breakpoint of the gdb that is connected.
LEMMA BreakpointsHit ==
    ASSUME DebugInv, BreakpointHit
    PROVE  DebugInv'
  <1>1. PICK s \in Sessions :
            /\ gdb[s].link = "up"
            /\ gdb' = [gdb EXCEPT ![s] = [gdb[s] EXCEPT !.stop = TRUE]]
    BY DEF BreakpointHit, DebugInv, Typed
  <1>2. gdb[s] \in Gdbs
    BY <1>1 DEF DebugInv, Typed
  <1>3. LET g == gdb[s]
            h == [g EXCEPT !.stop = TRUE]
        IN /\ h \in Gdbs /\ h.stop = TRUE /\ h.link = g.link /\ h.bps = g.bps
           /\ h.mods = g.mods /\ h.dirty = g.dirty
    BY <1>2, GdbStop
  <1>4. /\ gdb' \in [Sessions -> Gdbs] /\ gdb'[s].stop = TRUE /\ gdb'[s].link = gdb[s].link
        /\ gdb'[s].bps = gdb[s].bps /\ gdb'[s].mods = gdb[s].mods /\ gdb'[s].dirty = gdb[s].dirty
        /\ \A t \in Sessions : t # s => gdb'[t] = gdb[t]
    BY <1>1, <1>3, GdbSet DEF DebugInv, Typed
  <1>5. kernel = "running" /\ kernel' = "stopped" /\ call' = call /\ lock' = lock
    BY DEF BreakpointHit, cvars
  <1>6. s = Holder /\ call.pc \in {"wait", "interrupt"} /\ call.op = "exec" /\ call.sid = dbg.sid
    BY <1>1, <1>5 DEF DebugInv, Connected, CallOk, Served, Up, EngineOps
  <1>7. UNCHANGED <<gen, record, parked, dbg, file, live, starts, stray, failed, unmarked>>
    BY DEF BreakpointHit, svars, dvars, evars, hvars
  <1>8. Typed'
    BY <1>1, <1>2, <1>3, <1>4, <1>5, <1>6, <1>7 DEF DebugInv, Typed
  <1>9. CallOk' /\ Fresh'
    BY <1>1, <1>2, <1>3, <1>4, <1>5, <1>6, <1>7, Shape, NoGdbTyped DEF DebugInv, CallOk, Fresh,
       Idle, StartPoints, WorkPoints, FailurePoints, EndPoints, EngineOps, MutatorOps, ReadOps
  <1>10. Served'
    BY <1>1, <1>2, <1>3, <1>4, <1>5, <1>6, <1>7, Shape DEF DebugInv, Served, Idle, NoRecord,
       StartPoints, WorkPoints, FailurePoints, EndPoints, EngineOps, MutatorOps, ReadOps
  <1>11. Registered' /\ Connected'
    BY <1>1, <1>2, <1>3, <1>4, <1>5, <1>6, <1>7, LiveTyped DEF DebugInv, Registered, Connected,
       Holder, Up, Attached
  <1>12. Held' /\ Owned'
    BY <1>1, <1>2, <1>3, <1>4, <1>5, <1>6, <1>7 DEF DebugInv, Held, Found, Gated, Owned, Holder, Up,
       Attached, LeavesTombstone, Detached, FailurePoints
  <1>13. Ledger'
    BY <1>1, <1>2, <1>3, <1>4, <1>5, <1>6, <1>7, LiveTyped DEF DebugInv, Ledger, Changed,
       Unrecorded, MutatorOps
  <1> QED
    BY <1>8, <1>9, <1>10, <1>11, <1>12, <1>13 DEF DebugInv

\* The stub stops answering: its gdb stays, not connected.
LEMMA LinksDie ==
    ASSUME DebugInv, LinkDies
    PROVE  DebugInv'
  <1>1. PICK s \in Sessions :
            /\ gdb[s].link = "up"
            /\ gdb' = [gdb EXCEPT ![s] = [[gdb[s] EXCEPT !.link = "dead"] EXCEPT !.stop = FALSE]]
    BY DEF LinkDies, DebugInv, Typed, Gdbs
  <1>2. gdb[s] \in Gdbs
    BY <1>1 DEF DebugInv, Typed
  <1>3. LET g == gdb[s]
            h == [[g EXCEPT !.link = "dead"] EXCEPT !.stop = FALSE]
        IN /\ h \in Gdbs /\ h.stop = FALSE /\ h.link = "dead" /\ h.bps = g.bps
           /\ h.mods = g.mods /\ h.dirty = g.dirty
    BY <1>2 DEF Gdbs
  <1>4. /\ gdb' \in [Sessions -> Gdbs] /\ gdb'[s].stop = FALSE /\ gdb'[s].link = "dead"
        /\ gdb'[s].bps = gdb[s].bps /\ gdb'[s].mods = gdb[s].mods /\ gdb'[s].dirty = gdb[s].dirty
        /\ \A t \in Sessions : t # s => gdb'[t] = gdb[t]
    BY <1>1, <1>3, GdbSet DEF DebugInv, Typed
  <1>5. call' = call /\ lock' = lock
    BY DEF LinkDies, cvars
  <1>6. s = Holder /\ ~stray
    BY <1>1 DEF DebugInv, Connected, Up
  <1>7. UNCHANGED <<gen, kernel, record, parked, dbg, file, live, starts, stray, failed, unmarked>>
    BY DEF LinkDies, svars, dvars, hvars
  <1>8. Typed'
    BY <1>1, <1>2, <1>3, <1>4, <1>5, <1>6, <1>7 DEF DebugInv, Typed
  <1>9. CallOk' /\ Fresh'
    BY <1>1, <1>2, <1>3, <1>4, <1>5, <1>6, <1>7, Shape, NoGdbTyped DEF DebugInv, CallOk, Fresh,
       Idle, StartPoints, WorkPoints, FailurePoints, EndPoints, EngineOps, MutatorOps, ReadOps
  <1>10. Served'
    BY <1>1, <1>2, <1>3, <1>4, <1>5, <1>6, <1>7, Shape, NoGdbTyped DEF DebugInv, Served, Idle,
       NoRecord, StartPoints, WorkPoints, FailurePoints, EndPoints, EngineOps, MutatorOps, ReadOps
  <1>11. Registered' /\ Connected'
    BY <1>1, <1>2, <1>3, <1>4, <1>5, <1>6, <1>7, LiveTyped DEF DebugInv, Registered, Connected,
       Holder, Up, Attached
  <1>12. Held' /\ Owned'
    BY <1>1, <1>2, <1>3, <1>4, <1>5, <1>6, <1>7 DEF DebugInv, Held, Found, Gated, Owned, Holder, Up,
       Attached, LeavesTombstone, Detached, FailurePoints
  <1>13. Ledger'
    BY <1>1, <1>2, <1>3, <1>4, <1>5, <1>6, <1>7, LiveTyped DEF DebugInv, Ledger, Changed,
       Unrecorded, MutatorOps
  <1> QED
    BY <1>8, <1>9, <1>10, <1>11, <1>12, <1>13 DEF DebugInv

\* The stray gdb goes, and nothing is attached.
LEMMA StraysExit ==
    ASSUME DebugInv, StrayExits
    PROVE  DebugInv'
  <1>1. /\ stray /\ stray' = FALSE /\ kernel' # "stopped" /\ kernel' \in {"running", "off"}
        /\ UNCHANGED <<gen, record, parked, dbg, file, live, gdb, starts, failed, unmarked, call, lock>>
    BY DEF StrayExits, dvars, evars, cvars, DebugInv, Typed
  <1>2. \A s \in Sessions : gdb[s].link # "up" /\ ~gdb[s].stop
    BY <1>1 DEF DebugInv, Up, Connected
  <1>3. Typed'
    BY <1>1 DEF DebugInv, Typed
  <1>4. CallOk' /\ Fresh'
    BY <1>1, Shape DEF DebugInv, CallOk, Fresh, Idle, StartPoints, WorkPoints, FailurePoints,
       EndPoints, EngineOps, MutatorOps, ReadOps
  <1>5. Served'
    BY <1>1, Shape DEF DebugInv, Served, Idle, NoRecord, StartPoints, WorkPoints, FailurePoints,
       EndPoints, EngineOps, MutatorOps, ReadOps
  <1>6. Registered' /\ Connected'
    BY <1>1, <1>2, LiveTyped DEF DebugInv, Registered, Connected, Up
  <1>7. Held' /\ Owned'
    BY <1>1, <1>2 DEF DebugInv, Held, Found, Gated, Owned, Attached, Up
  <1>8. Ledger'
    BY <1>1, LiveTyped DEF DebugInv, Ledger, Changed, Unrecorded, MutatorOps
  <1> QED
    BY <1>3, <1>4, <1>5, <1>6, <1>7, <1>8 DEF DebugInv

\* The server dies with its gdb children, and starts again without a record.
LEMMA Crashes ==
    ASSUME DebugInv, CrashAndReconcile
    PROVE  DebugInv'
  <1>1. call' = Idle /\ call' \in Calls /\ call'.pc = "idle" /\ call'.op = "none" /\ call'.sid = 0 /\ lock' = lock
    BY IdleTyped DEF CrashAndReconcile
  <1>2. live' = {} /\ gdb' \in [Sessions -> Gdbs] /\ \A s \in Sessions : gdb'[s] = NoGdb
    BY NoGdbTyped DEF CrashAndReconcile
  <1>3. kernel' # "stopped" /\ kernel' \in {"running", "stopped",
               "off"} /\ record' = NoRecord /\ parked' \in 0..MaxGen
    BY Shape DEF CrashAndReconcile, DebugInv, Typed
  <1>4. NoRecord \in Records /\ NoRecord.sid = 0 /\ starts \in Nat
    BY NoRecordTyped, Shape
  <1>5. UNCHANGED <<gen, dbg, file, starts, failed>> /\ stray' = FALSE /\ unmarked' = FALSE
    BY DEF CrashAndReconcile, dvars, hvars
  <1>6. Typed'
    BY <1>1, <1>2, <1>3, <1>4, <1>5 DEF DebugInv, Typed
  <1>7. CallOk' /\ Fresh'
    BY <1>1, <1>2, <1>3, <1>4, <1>5, Shape DEF DebugInv, CallOk, Fresh, Idle, StartPoints,
       WorkPoints, FailurePoints, EndPoints, EngineOps, MutatorOps, ReadOps
  <1>8. Served'
    BY <1>1, <1>2, <1>3, <1>4, <1>5, Shape DEF DebugInv, Served, Idle, NoRecord, StartPoints,
       WorkPoints, FailurePoints, EndPoints, EngineOps, MutatorOps, ReadOps
  <1>9. Registered' /\ Connected'
    BY <1>1, <1>2, <1>3, <1>4, <1>5, LiveTyped, NoGdbTyped DEF DebugInv, Registered, Connected,
       Holder, Up, Attached
  <1>10. Held' /\ Owned'
    BY <1>1, <1>2, <1>3, <1>4, <1>5, NoGdbTyped DEF DebugInv, Held, Found, Gated, Owned, Holder, Up,
       Attached, LeavesTombstone, Detached, FailurePoints
  <1>11. Ledger'
    BY <1>1, <1>2, <1>3, <1>4, <1>5, LiveTyped DEF DebugInv, Ledger, Changed, Unrecorded, MutatorOps
  <1> QED
    BY <1>6, <1>7, <1>8, <1>9, <1>10, <1>11 DEF DebugInv

-----------------------------------------------------------------------------
(* The invariant                                                            *)

LEMMA InitInv == Init => DebugInv
  <1> SUFFICES ASSUME Init PROVE DebugInv
    OBVIOUS
  <1>1. /\ gen = 1 /\ kernel = "running" /\ record = NoRecord /\ parked = 0 /\ dbg = NoStep
        /\ file = [s \in Sessions |-> NoFile] /\ live = {} /\ gdb = [s \in Sessions |-> NoGdb]
        /\ starts = 0 /\ call = Idle /\ lock = FALSE /\ stray = FALSE /\ failed = FALSE /\ unmarked = FALSE
    BY DEF Init
  <1>2. /\ NoStep \in Steps /\ NoStep.sid = 0 /\ NoRecord \in Records /\ NoRecord.sid = 0
        /\ 1 \in 1..MaxGen /\ 0 \in 0..MaxGen /\ 0 \in 0..MaxStarts
    BY DebugAssumption, NoRecordTyped DEF NoStep, Steps
  <1>3. Typed
    BY <1>1, <1>2, NoGdbTyped, NoFileTyped, IdleTyped DEF Typed
  <1>4. CallOk /\ Fresh
    BY <1>1, <1>2, IdleTyped DEF CallOk, Fresh, EngineOps, ReadOps, MutatorOps
  <1>5. Served /\ Owned
    BY <1>1, IdleTyped DEF Served, Owned, EngineOps, ReadOps, MutatorOps, WorkPoints
  <1>6. Registered /\ Connected /\ Held
    BY <1>1, NoGdbTyped DEF Registered, Connected, Held, Found, Gated, Attached, Up
  <1>7. Ledger
    BY <1>1, IdleTyped DEF Ledger, MutatorOps
  <1> QED
    BY <1>3, <1>4, <1>5, <1>6, <1>7 DEF DebugInv

\* Every step of a call, of the kernel, of the link and of the server keeps it.
LEMMA NextInv == DebugInv /\ [Next]_vars => DebugInv'
  <1> SUFFICES ASSUME DebugInv, [Next]_vars PROVE DebugInv'
    OBVIOUS
  <1>1. CASE UNCHANGED vars
    BY <1>1, Stutters
  <1>2. CASE StartReuse \/ EndRefused \/ \E new \in BOOLEAN : StartRefused(new)
    BY <1>2, Stutters DEF StartReuse, EndRefused, StartRefused, Refused, vars, svars, dvars, evars,
       cvars, hvars
  <1>3. CASE \E op \in EngineOps : OpRefused(op)
    BY <1>3, Stutters DEF OpRefused, Refused, vars, svars, dvars, evars, cvars, hvars
  <1>4. CASE EndBegin \/ TransportClose \/ BreakHalt \/ \E new \in BOOLEAN : StartOpen(new)
    BY <1>4, EndBegins, TransportCloses, BreakHalts, StartOpens
  <1>5. CASE \E op \in EngineOps : OpNotOwned(op) \/ OpBegin(op)
    BY <1>5, NotOwnedParks, OpBegins
  <1>6. CASE StartStepNext
    BY <1>6, StartHalts, StartHaltFailsOk, StartAttaches, StartAttachFailsOk, AttachesEscape,
       StartProbes, StartFiles, StartSteps, StartAbandons DEF StartStepNext
  <1>7. CASE EngineNext
    BY <1>7, QueriesDone, ListsPersisted, LoadedBefore, Executes, Mutates, Loads, StopsRead,
       ExitsSeen, WaitTimesOut, Interrupts, InterruptsUnconfirmed, Stalls, OpErrors, OpFaults,
       DoneReturns, Persists, RecordsStep, PersistsFail DEF EngineNext
  <1>8. CASE EndNext
    BY <1>8, EndFiles, EndSteps, EndWritesFail, EndReaps, EndCloses DEF EndNext
  <1>9. CASE UnhaltRecord \/ FailureTeardown \/ BreakUnconfirmed
    BY <1>9, UnhaltsRecord, FailureTeardowns, BreaksUnconfirmed
  <1>10. CASE Reboot \/ BreakpointHit \/ LinkDies \/ StrayExits \/ CrashAndReconcile
    BY <1>10, Reboots, BreakpointsHit, LinksDie, StraysExit, Crashes
  <1> QED
    BY <1>1, <1>2, <1>3, <1>4, <1>5, <1>6, <1>7, <1>8, <1>9, <1>10 DEF Next, CallStep

-----------------------------------------------------------------------------
(* The theorems                                                             *)

\* The debug tools, the kernel and the server keep the invariant, for every number of
\* sessions and boots (session_handlers.py, operations.py, gdb_mi.py, session_end.py).
THEOREM DebugInvariant == Spec => []DebugInv
  BY InitInv, NextInv, PTL DEF Spec

\* The session, its record, its file and its gdb have the values that the code gives them.
THEOREM DebugIsTyped == Spec => []DebugTypeOK
  <1>1. DebugInv => DebugTypeOK
    <2> SUFFICES ASSUME DebugInv PROVE DebugTypeOK
      OBVIOUS
    <2>1. record \in {NoRecord} \cup [sid : Sessions, gen : 1..MaxGen, exec : {"executing", "halted", "unknown"}]
      BY Shape DEF DebugInv, Typed, Records, NoRecord
    <2>2. dbg \in {NoStep} \cup [sid : Sessions, exec : {"stopped", "unknown", "ended"}]
      BY Shape DEF DebugInv, Typed, Steps, NoStep
    <2>3. file \in [Sessions -> {NoFile} \cup [exec : {"stopped", "ended"}, bps : SUBSET Locations,
                                               mods : SUBSET Addresses]]
      BY DEF DebugInv, Typed, Files
    <2>4. gdb \in [Sessions -> Gdbs] /\ live \subseteq Sessions /\ call.sid \in 0..MaxStarts
      BY Shape DEF DebugInv, Typed
    <2> QED
      BY <2>1, <2>2, <2>3, <2>4 DEF DebugInv, Typed, DebugTypeOK, Gdbs
  <1> QED
    BY <1>1, DebugInvariant, PTL

\* A kernel that the debugger holds is never taken for a running one: its record does not
\* say EXECUTING, or its generation is parked (halt_debug_transport before the attach,
\* force_resume before the record is written back).  Exempt are a boot whose tombstone
\* close() could not write, and the stray gdb of an attach() that raised after it had
\* connected: the code loses these two.
THEOREM StoppedKernelIsGated == Spec => []StoppedIsGated
  <1>1. DebugInv => StoppedIsGated
    BY DEF DebugInv, Held, Found, Gated, Attached, StoppedIsGated
  <1> QED
    BY <1>1, DebugInvariant, PTL

\* Between calls a stopped kernel belongs to the session that the manifest names, so
\* end_session can let it go (session_handlers.py reaps what it could not record), unless
\* a stray gdb holds it, which no session has.
THEOREM StoppedKernelIsReachable == Spec => []StoppedIsReachable
  <1>1. DebugInv => StoppedIsReachable
    <2> SUFFICES ASSUME DebugInv, call = Idle, kernel = "stopped", ~stray
                 PROVE  dbg.sid \in live /\ gdb[dbg.sid] # NoGdb /\ dbg.exec # "ended"
      BY DEF StoppedIsReachable
    <2>1. call.op = "none" /\ call.pc = "idle"
      BY IdleTyped
    <2>2. dbg.sid \in Sessions /\ gdb[dbg.sid].link # "none" /\ dbg.exec # "ended"
      BY <2>1 DEF DebugInv, Held, Found, Gated, Attached, Holder
    <2> QED
      BY <2>1, <2>2, NoGdbTyped DEF DebugInv, Registered
  <1> QED
    BY <1>1, DebugInvariant, PTL

\* Whatever an operation met, the kernel is back in the debugger when it returned, while
\* its session stays (wait_for_stop, interrupt, transport_stall).
THEOREM LiveSessionIsStopped == Spec => []LiveIsStopped
  <1>1. DebugInv => LiveIsStopped
    BY IdleTyped, LiveTyped DEF DebugInv, Connected, Up, LiveIsStopped
  <1> QED
    BY <1>1, DebugInvariant, PTL

\* The guard is held for the session that the manifest names and that was not ended, unless
\* a write of the record itself failed (teardown_debug_transport, EndClose).
THEOREM HeldGuardIsReachable == Spec => []HeldIsReachable
  <1>1. DebugInv => HeldIsReachable
    BY IdleTyped DEF DebugInv, Owned, HeldIsReachable
  <1> QED
    BY <1>1, DebugInvariant, PTL

\* Between calls the persisted ledger is what gdb has, unless the bookkeeping of a change
\* failed (operations.py rebuilds it from -break-list before it persists).
THEOREM LedgerMatchesGdb == Spec => []LedgerIsCurrent
  <1>1. DebugInv => LedgerIsCurrent
    BY IdleTyped DEF DebugInv, Ledger, Changed, LedgerIsCurrent
  <1> QED
    BY <1>1, DebugInvariant, PTL

=============================================================================
