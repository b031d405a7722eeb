---------------------------- MODULE Postmortem ----------------------------
(***************************************************************************)
(* The postmortem tools on the crash dump of a run: debug.postmortem.fetch *)
(* (postmortem/dumps/handlers.py), debug.postmortem.crash (crash/handler), *)
(* debug.introspect.from_vmcore and its helpers                            *)
(* (introspect/vmcore_execution.py, result.py) and debug.postmortem.triage *)
(* (triage/), which calls the other two.                                   *)
(*                                                                         *)
(* A fetch copies the files of the dump one by one, under a lock file; the *)
(* analyses take no lock, read what is staged, and append one step each to *)
(* the manifest.  Calls that fail validation change nothing.               *)
(***************************************************************************)
EXTENDS Naturals, FiniteSets, Sequences

CONSTANTS
    Callers,     \* tool calls in progress at once
    Free,        \* a lock file that does not exist
    Orphan,      \* a lock file whose process is gone
    MaxFetches,  \* bound on transfers
    MaxCalls,    \* MAX_POSTMORTEM_CRASH_CALLS_PER_RUN, MAX_INTROSPECT_CALLS_PER_RUN
    MaxIds       \* bound on call ids

ASSUME PostmortemAssumption ==
    /\ IsFiniteSet(Callers) /\ Callers # {}
    /\ Free \notin Callers /\ Orphan \notin Callers
    /\ {MaxFetches, MaxCalls, MaxIds} \subseteq Nat

VARIABLES
    dump,        \* the dump on the target: kdump is still writing it, or not
    staged,      \* staged[f]: the transfer that the local file is of, 0 if none
    fetched,     \* the transfer that the postmortem.fetch step records, 0 if none
    lost,        \* the recorded transfer whose files a forced fetch removed last
    lock,        \* who made .postmortem-fetch.lock
    transfers,   \* transfers so far
    steps,       \* the crash, introspect and triage steps of the manifest
    ids,         \* call ids given out
    call         \* call[c]: the call in progress

vars == <<dump, staged, fetched, lost, lock, transfers, steps, ids, call>>
fetchVars == <<staged, fetched, lost, lock, transfers>>

\* plan_fetch: the core first, then what lies beside it.
Files == 1..2
Core == 1

NoFiles == [f \in Files |-> 0]
Idle == [pc |-> "idle"]

Init ==
    /\ dump = "incomplete"
    /\ staged = NoFiles
    /\ fetched = 0
    /\ lost = 0
    /\ lock = Free
    /\ transfers = 0
    /\ steps = {}
    /\ ids = 0
    /\ call = [c \in Callers |-> Idle]

At(c, pc) == call[c].pc = pc
End(c) == call' = [call EXCEPT ![c] = Idle]

-----------------------------------------------------------------------------
(* debug.postmortem.fetch                                                   *)

\* Mutant of LockFetch: the lock is not taken.
LockFetchNot(c) == UNCHANGED lock

LockFetch(c) == lock = Free /\ lock' = c

Unlock(c) == lock' = IF lock = c THEN Free ELSE lock

\* A recorded fetch answers, unless it is forced; one that finds the lock taken
\* is refused.
FetchBegin(c, force) ==
    /\ At(c, "idle")
    /\ transfers < MaxFetches
    /\ fetched = 0 \/ force
    /\ LockFetch(c)
    /\ call' = [call EXCEPT ![c] = [pc |-> "admit", force |-> force, id |-> 0, next |-> Core]]
    /\ UNCHANGED <<dump, staged, fetched, lost, transfers, steps, ids>>

\* _admit_fetch_entry: the dump is listed again; one in progress has to be forced.
\* It is not found, flat, too large or outside the directory: refused.
FetchAdmit(c) ==
    /\ At(c, "admit")
    /\ \/ /\ dump = "complete" \/ call[c].force
          /\ call' = [call EXCEPT ![c].pc = "clear"]
          /\ UNCHANGED lock
       \/ End(c) /\ Unlock(c)
    /\ UNCHANGED <<dump, staged, fetched, lost, transfers, steps, ids>>

\* What is staged is removed, whatever the manifest says of it.
FetchClear(c) ==
    /\ At(c, "clear")
    /\ transfers < MaxFetches
    /\ staged' = NoFiles
    /\ lost' = IF call[c].force THEN fetched ELSE lost
    /\ transfers' = transfers + 1
    /\ call' = [call EXCEPT ![c].pc = "stage", ![c].id = transfers + 1]
    /\ UNCHANGED <<dump, fetched, lock, steps, ids>>

\* Mutant of AfterFile: one file too many.
AfterFilePast(n) == IF n \in Files THEN "stage" ELSE "record"

\* The loop over the files of the plan.
AfterFile(n) == IF n + 1 \in Files THEN "stage" ELSE "record"

\* _stage_one_file: scp and the comparison of the sizes.  A file that does not
\* arrive whole ends the fetch, and the directory goes; an error of the local
\* file system ends it where it is.
StageFile(c) ==
    /\ At(c, "stage")
    /\ \/ /\ staged' = [staged EXCEPT ![call[c].next] = call[c].id]
          /\ call' = [call EXCEPT ![c].next = @ + 1, ![c].pc = AfterFile(call[c].next)]
          /\ UNCHANGED lock
       \/ staged' \in {NoFiles, staged} /\ End(c) /\ Unlock(c)
    /\ UNCHANGED <<dump, fetched, lost, transfers, steps, ids>>

\* _record_fetch_result with replace_succeeded = force: the step is recorded, or
\* the manifest stays locked and the call raises.
FetchRecord(c) ==
    /\ At(c, "record")
    /\ \/ fetched' = IF fetched = 0 \/ call[c].force THEN call[c].id ELSE fetched
       \/ UNCHANGED fetched
    /\ End(c) /\ Unlock(c)
    /\ UNCHANGED <<dump, staged, lost, transfers, steps, ids>>

\* debug.postmortem.list_dumps, check_prereqs, a fetch that is answered from the
\* manifest, and every call that is refused at its start: nothing changes.
OnlyAnswers(c) == At(c, "idle") /\ UNCHANGED vars

Fetch(c) == FetchAdmit(c) \/ FetchClear(c) \/ StageFile(c) \/ FetchRecord(c)

-----------------------------------------------------------------------------
(* The outcome of a drgn script and of a crash batch                        *)

\* How the wrapper may end: drgn does not open the core, its API does not
\* resolve the main module, the core has no build id or another one, the script
\* does not compile, tries to write, raises or runs; the document cannot be
\* made; nothing, or something else than the document, is printed.
Ends == {"open", "skew", "api", "noid", "mismatch", "compile", "write", "error", "ran",
         "internal", "silent", "value"}

\* The outcome status that the wrapper prints.
StatusOf(end) ==
    CASE end = "open" -> "drgn_open_failure"
      [] end = "skew" -> "drgn_version_skew"
      [] end = "api" -> "drgn_api_incompatible"
      [] end = "noid" -> "provenance_unverifiable"
      [] end = "mismatch" -> "provenance_mismatch"
      [] end = "compile" -> "script_compile_error"
      [] end = "write" -> "write_mode_disabled"
      [] end = "error" -> "error"
      [] end = "ran" -> "ok"
      [] end = "internal" -> "wrapper_internal_error"
      [] OTHER -> "none"

\* The build id that it prints.
BuildOf(end) ==
    CASE end \in {"open", "skew", "api", "noid"} -> "none"
      [] end = "mismatch" -> "differs"
      [] OTHER -> "expected"

\* What the runner reports, and the wrapper printed.
Facts == [cut : {"no", "oversized", "cancelled", "stdin_failed", "timed_out"},
          end : Ends,
          emit : BOOLEAN]   \* there is one emit, and it fits the helper's schema

\* _triage_introspect_runner_output: a run that was cut short, or no document.
RunnerFailed(f) == f.cut # "no" \/ f.end = "silent"

\* Mutant of FailureStatuses: a status is not in the table.
FailureStatusesUnmapped ==
    {"drgn_open_failure", "drgn_version_skew", "drgn_api_incompatible",
     "provenance_unverifiable", "provenance_mismatch", "script_compile_error",
     "wrapper_internal_error"}

\* _introspect_wrapper_failure_by_status; another status falls through to success.
FailureStatuses ==
    {"drgn_open_failure", "drgn_version_skew", "drgn_api_incompatible",
     "provenance_unverifiable", "provenance_mismatch", "script_compile_error",
     "write_mode_disabled", "wrapper_internal_error"}

\* _map_introspect_wrapper_failure
WrapperFailed(f) == StatusOf(f.end) \in FailureStatuses \/ BuildOf(f.end) # "expected"

\* The post-validator of a helper: no script error, one valid emit.
VerdictFailed(f) == f.end = "error" \/ ~f.emit

\* _finalize_introspect_call; a document that is no object raises.
Finalized(f, helper) ==
    IF RunnerFailed(f) THEN "failed"
    ELSE IF f.end = "value" THEN "raised"
    ELSE IF WrapperFailed(f) \/ (helper /\ VerdictFailed(f)) THEN "failed"
    ELSE "succeeded"

\* What is made of a run of the wrapper, and how one that is taken for a success
\* ended.  A core that is not there does not open.
DrgnOutcomes(helper, readable) ==
    {[status |-> Finalized(f, helper),
      end |-> IF Finalized(f, helper) = "succeeded" THEN f.end ELSE "none"] :
        f \in {g \in Facts : readable \/ g.end \in {"open", "silent"}}}

\* What a batch of crash commands ends with; without a core crash fails.
CrashFacts(readable) ==
    [cut : BOOLEAN, captured : {readable, FALSE}, exit : {IF readable THEN 0 ELSE 1, 1}]

\* _finalize_crash_call: crash was cut short, or printed nothing and failed.
CrashFailed(f) == f.cut \/ (~f.captured /\ f.exit # 0)

CrashOutcomes(readable) ==
    {[end |-> "ran", status |-> IF CrashFailed(f) THEN "failed" ELSE "succeeded"] :
        f \in CrashFacts(readable)}

-----------------------------------------------------------------------------
(* debug.postmortem.crash, debug.introspect.from_vmcore(_helper) and        *)
(* debug.postmortem.triage                                                  *)

KindOf(sub) == IF sub = "crash" THEN "crash" ELSE "introspect"

Recorded(kind) == Cardinality({s \in steps : s.kind = kind})

\* The file is there as soon as scp has made it.
CoreIsFile == \/ staged[Core] # 0
              \/ \E c \in Callers : At(c, "stage") /\ call[c].next = Core

\* A tool call is a list of sub-calls: one of its own kind, or the three of triage
\* (crash, and the helpers for dmesg and the modules).
CallBegin(c, todo, triage) ==
    /\ At(c, "idle")
    /\ CoreIsFile
    /\ ids < MaxIds
    /\ call' = [call EXCEPT ![c] = [pc |-> "sub", todo |-> todo, triage |-> triage,
                                    id |-> 0, ok |-> FALSE, from |-> {}]]
    /\ UNCHANGED <<dump, fetchVars, steps, ids>>

\* What a call does with the answer of its sub-call; triage notes the call id and
\* whether a section could be made of it, and goes on whatever the answer is.
SubAnswered(c, ok, from) ==
    IF ~call[c].triage THEN End(c)
    ELSE call' = [call EXCEPT ![c].todo = Tail(@), ![c].ok = @ \/ ok, ![c].from = @ \cup from,
                              ![c].pc = IF Len(call[c].todo) = 1 THEN "report" ELSE "sub"]

\* Mutant of WithinBudget: one too many.
WithinBudgetPlusOne(kind) == Recorded(kind) <= MaxCalls

\* The budget is counted in the manifest as it is read at the start.
WithinBudget(kind) == Recorded(kind) < MaxCalls

\* The context resolves (the core and the build ids), the budget is not used up.
SubBegin(c) ==
    /\ At(c, "sub")
    /\ CoreIsFile
    /\ WithinBudget(KindOf(Head(call[c].todo)))
    /\ ids < MaxIds
    /\ ids' = ids + 1
    /\ call' = [call EXCEPT ![c].pc = "run", ![c].id = ids + 1]
    /\ UNCHANGED <<dump, fetchVars, steps>>

\* It is refused, or raises, before there is a workspace.
SubRefused(c) ==
    /\ At(c, "sub")
    /\ SubAnswered(c, FALSE, {})
    /\ UNCHANGED <<dump, fetchVars, steps, ids>>

Outcomes(sub) ==
    IF sub = "crash" THEN CrashOutcomes(CoreIsFile)
    ELSE DrgnOutcomes(sub # "script", CoreIsFile)

\* Mutant of SubOk: a call whose step was not recorded has its section all the same.
SubOkUnrecorded(o, recorded) == o.status = "succeeded"

\* A sub-call whose record raised answers triage as a failure.
SubOk(o, recorded) == o.status = "succeeded" /\ recorded

\* The subprocess ends, the artifacts are written and the one step of the call is
\* appended; or one of these raises, and there is none.
SubEnd(c) ==
    /\ At(c, "run")
    /\ \E o \in Outcomes(Head(call[c].todo)), recorded \in BOOLEAN :
          /\ recorded => o.status # "raised"
          /\ steps' = IF ~recorded THEN steps
                      ELSE steps \cup {[kind |-> KindOf(Head(call[c].todo)), id |-> call[c].id,
                                        status |-> o.status, sub |-> Head(call[c].todo),
                                        end |-> o.end, from |-> {}]}
          /\ \E section \in {SubOk(o, recorded), SubOk(o, recorded) /\ Head(call[c].todo) # "crash"} :
                SubAnswered(c, section, {call[c].id})
    /\ UNCHANGED <<dump, fetchVars, ids>>

\* any_section_ok; the report is written and recorded, or that raises.
Report(c) ==
    /\ At(c, "report")
    /\ \/ /\ ids < MaxIds
          /\ ids' = ids + 1
          /\ steps' = steps \cup {[kind |-> "triage", id |-> ids + 1,
                                   status |-> IF call[c].ok THEN "succeeded" ELSE "failed",
                                   sub |-> "triage", end |-> "ran", from |-> call[c].from]}
       \/ UNCHANGED <<steps, ids>>
    /\ End(c)
    /\ UNCHANGED <<dump, fetchVars>>

-----------------------------------------------------------------------------
\* kdump finishes writing.
DumpCompletes ==
    /\ dump = "incomplete"
    /\ dump' = "complete"
    /\ UNCHANGED <<fetchVars, steps, ids, call>>

\* The server dies: its lock file stays.
ServerDies ==
    /\ \E c \in Callers : call[c] # Idle
    /\ call' = [c \in Callers |-> Idle]
    /\ lock' = IF lock \in Callers THEN Orphan ELSE lock
    /\ UNCHANGED <<dump, staged, fetched, lost, transfers, steps, ids>>

\* An operator removes the lock file that nobody holds.
RemoveLock ==
    /\ lock = Orphan
    /\ lock' = Free
    /\ UNCHANGED <<dump, staged, fetched, lost, transfers, steps, ids, call>>

Next ==
    \/ \E c \in Callers :
          \/ \E force \in BOOLEAN : FetchBegin(c, force)
          \/ Fetch(c)
          \/ OnlyAnswers(c)
          \/ \E sub \in {"crash", "script", "helper"} : CallBegin(c, <<sub>>, FALSE)
          \/ CallBegin(c, <<"crash", "helper", "helper">>, TRUE)
          \/ SubBegin(c) \/ SubRefused(c) \/ SubEnd(c) \/ Report(c)
    \/ DumpCompletes \/ ServerDies \/ RemoveLock

Spec == Init /\ [][Next]_vars

-----------------------------------------------------------------------------
(* Properties                                                               *)

\* Type invariant of the fetch, the manifest's steps and the calls in progress
\* (dumps/handlers.py, crash/handler.py, introspect/result.py, triage/handlers.py).
PostTypeOK ==
    /\ dump \in {"incomplete", "complete"}
    /\ staged \in [Files -> 0..MaxFetches]
    /\ {fetched, lost, transfers} \subseteq 0..MaxFetches
    /\ lock \in Callers \cup {Free, Orphan}
    /\ ids \in 0..MaxIds
    /\ \A s \in steps : s.status \in {"succeeded", "failed"} /\ s.id \in 1..ids
    /\ \A c \in Callers :
          /\ call[c].pc \in {"idle", "admit", "clear", "stage", "record", "sub", "run", "report"}
          /\ At(c, "stage") => call[c].next \in Files
          /\ call[c].pc \in {"sub", "run"} => call[c].todo # <<>>

Fetching == \E c \in Callers : call[c].pc \in {"stage", "record"}

\* A fetch that the manifest records as succeeded has all of its files in place,
\* of one transfer, although calls race, die half way and are retried: only a
\* forced fetch, in progress or failed, may have removed them (_fetch_under_lock,
\* _record_fetch_result).
FetchedIsStaged ==
    fetched # 0 /\ ~Fetching /\ lost # fetched => \A f \in Files : staged[f] = fetched

\* The budget of a run is overrun by at most one step for every other call in
\* progress: each counts the steps at its start and appends its own at its end
\* (debug_postmortem_crash_handler, _validate_vmcore_introspect_request).
BudgetBound ==
    \A kind \in {"crash", "introspect"} : Recorded(kind) <= MaxCalls + Cardinality(Callers) - 1

\* A triage step that succeeded rests on a step of the manifest that did: a
\* sub-call that ran but could not record itself is no source of a section
\* (_run_triage_sources, any_section_ok).
TriageIsBacked ==
    \A t \in steps : t.kind = "triage" /\ t.status = "succeeded" =>
        \E s \in steps : s.id \in t.from /\ s.status = "succeeded"

\* An introspect step that succeeded is of a script that ran, on a core with the
\* build id expected: to its end, or, for a script of the caller's, to its own
\* error.  Every other end of the wrapper has a status that the host knows
\* (wrappers/common.py, wrappers/vmcore.py against result.py).
SucceededRan ==
    \A s \in steps : s.kind = "introspect" /\ s.status = "succeeded" =>
        \/ s.end = "ran"
        \/ s.end = "error" /\ s.sub = "script"
=============================================================================
