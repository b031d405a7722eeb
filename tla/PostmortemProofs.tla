-------------------------- MODULE PostmortemProofs --------------------------
(***************************************************************************)
(* Theorems about Postmortem: the properties of its run, for any number of *)
(* callers, transfers, calls and ids.                                      *)
(***************************************************************************)
EXTENDS Postmortem, FiniteSetTheorems, SequenceTheorems, TLAPS

-----------------------------------------------------------------------------
(* The types of the calls and of the steps of the manifest                  *)

Subs == {"crash", "script", "helper"}
FetchPcs == {"admit", "clear", "stage", "record"}
FetchCalls == [pc : FetchPcs, force : BOOLEAN, id : 0..MaxFetches, next : 1..3]
ToolCalls == [pc : {"sub", "run", "report"}, todo : Seq(Subs), triage : BOOLEAN,
              id : 0..MaxIds, ok : BOOLEAN, from : SUBSET (1..MaxIds)]
CallRecords == {Idle} \cup FetchCalls \cup ToolCalls
StepRecords == [kind : {"crash", "introspect", "triage"}, id : 1..MaxIds,
                status : {"succeeded", "failed"}, sub : Subs \cup {"triage"},
                end : Ends \cup {"none"}, from : SUBSET (1..MaxIds)]

\* What holds of a call at the point where it is, when n ids were given out.
CallOk(r, n) ==
    /\ r.pc \in {"admit", "clear"} => r.next = Core
    /\ r.pc = "stage" => r.next \in Files
    /\ r.pc \in {"sub", "run"} => r.todo # <<>>
    /\ r.pc = "run" => r.id \in 1..n

CallsTyped ==
    /\ call \in [Callers -> CallRecords]
    /\ \A c \in Callers : CallOk(call[c], ids)

StepsTyped == steps \subseteq StepRecords /\ \A s \in steps : s.id \in 1..ids

StateTyped ==
    /\ dump \in {"incomplete", "complete"}
    /\ staged \in [Files -> 0..MaxFetches]
    /\ fetched \in 0..MaxFetches /\ lost \in 0..MaxFetches /\ transfers \in 0..MaxFetches
    /\ lock \in Callers \cup {Free, Orphan}
    /\ ids \in 0..MaxIds

Typed == StateTyped /\ StepsTyped /\ CallsTyped

\* The strengthening has the type invariant of the run.
LEMMA TypedImpliesTypeOK == Typed => PostTypeOK
  <1> SUFFICES ASSUME Typed PROVE PostTypeOK
    OBVIOUS
  <1>1. ASSUME NEW c \in Callers
        PROVE  call[c].pc \in {"idle", "admit", "clear", "stage", "record", "sub", "run", "report"}
    BY DEF Typed, CallsTyped, CallRecords, FetchCalls, ToolCalls, FetchPcs, Idle
  <1>2. \A s \in steps : s.status \in {"succeeded", "failed"} /\ s.id \in 1..ids
    BY DEF Typed, StepsTyped, StepRecords
  <1> QED
    BY <1>1, <1>2 DEF Typed, StateTyped, CallsTyped, CallOk, PostTypeOK, At

-----------------------------------------------------------------------------
(* What a sub-call may end with                                             *)

\* The statuses that are outcomes, and the ends of the wrapper that a success of
\* each kind of sub-call may have.
OutcomeOk(sub, o) ==
    /\ o.status \in {"succeeded", "failed", "raised"}
    /\ o.end \in Ends \cup {"none"}
    /\ sub # "crash" /\ o.status = "succeeded" =>
          o.end = "ran" \/ (o.end = "error" /\ sub = "script")

\* A wrapper that is taken for a success ran: every other end has a status in the
\* table of failures, or no build id, or raises.
LEMMA SuccessRan ==
    ASSUME NEW f \in Facts, NEW helper \in BOOLEAN, Finalized(f, helper) = "succeeded"
    PROVE  f.end = "ran" \/ (f.end = "error" /\ ~helper)
  <1>1. f.end \in Ends
    BY DEF Facts
  <1>2. ~RunnerFailed(f) /\ f.end # "value" /\ ~WrapperFailed(f) /\ ~(helper /\ VerdictFailed(f))
    BY DEF Finalized
  <1>3. f.end \notin {"silent", "value"}
    BY <1>2 DEF RunnerFailed
  <1>4. f.end \notin {"open", "skew", "api", "noid", "mismatch"}
    BY <1>2 DEF WrapperFailed, BuildOf
  <1>5. f.end # "compile"
    BY <1>2 DEF WrapperFailed, StatusOf, FailureStatuses
  <1>6. f.end # "write"
    BY <1>2 DEF WrapperFailed, StatusOf, FailureStatuses
  <1>7. f.end # "internal"
    BY <1>2 DEF WrapperFailed, StatusOf, FailureStatuses
  <1>8. helper => f.end # "error"
    BY <1>2 DEF VerdictFailed
  <1> QED
    BY <1>1, <1>3, <1>4, <1>5, <1>6, <1>7, <1>8 DEF Ends

\* The same, of the outcomes that SubEnd chooses from.
LEMMA OutcomesOk ==
    ASSUME NEW sub \in Subs, NEW o \in Outcomes(sub)
    PROVE  OutcomeOk(sub, o)
  <1>1. CASE sub = "crash"
    <2>1. o \in CrashOutcomes(CoreIsFile)
      BY <1>1 DEF Outcomes
    <2>2. o.end = "ran" /\ o.status \in {"failed", "succeeded"}
      BY <2>1 DEF CrashOutcomes
    <2> QED
      BY <1>1, <2>2 DEF OutcomeOk, Ends
  <1>2. CASE sub # "crash"
    <2> DEFINE helper == sub # "script"
    <2>1. o \in DrgnOutcomes(helper, CoreIsFile)
      BY <1>2 DEF Outcomes
    <2>2. PICK f \in Facts : o = [status |-> Finalized(f, helper),
                                  end |-> IF Finalized(f, helper) = "succeeded" THEN f.end ELSE "none"]
      BY <2>1 DEF DrgnOutcomes
    <2>3. o.status \in {"succeeded", "failed", "raised"}
      BY <2>2 DEF Finalized
    <2>4. o.end \in Ends \cup {"none"}
      BY <2>2 DEF Facts
    <2>5. o.status = "succeeded" => o.end = "ran" \/ (o.end = "error" /\ ~helper)
      BY <2>2, SuccessRan
    <2> QED
      BY <2>3, <2>4, <2>5 DEF OutcomeOk
  <1> QED
    BY <1>1, <1>2

-----------------------------------------------------------------------------
(* Types are preserved                                                      *)

\* The point where a call is tells which kind of record it has.
LEMMA CallShape ==
    ASSUME CallsTyped, NEW c \in Callers
    PROVE  /\ call[c].pc \in FetchPcs => call[c] \in FetchCalls
           /\ call[c].pc \in {"sub", "run", "report"} => call[c] \in ToolCalls
           /\ call[c].pc = "idle" => call[c] = Idle
  BY DEF CallsTyped, CallRecords, FetchCalls, ToolCalls, FetchPcs, Idle

\* A list of sub-calls that is not at its last one has another.
LEMMA TailNotEmpty ==
    ASSUME NEW S, NEW q \in Seq(S), q # <<>>, Len(q) # 1
    PROVE  Tail(q) # <<>>
  <1> DEFINE t == Tail(q)
  <1>1. t \in Seq(S) /\ Len(t) = Len(q) - 1 /\ Len(q) \in Nat \ {0}
    BY HeadTailProperties, EmptySeq
  <1>2. Len(<<>>) = 0
    BY EmptySeq
  <1> HIDE DEF t
  <1>3. Len(t) # 0
    BY <1>1
  <1>4. t # <<>>
    BY <1>2, <1>3, Zenon
  <1> QED
    BY <1>4 DEF t

\* A sub-call's answer leaves the call well-formed: triage goes on to its next source.
LEMMA AnsweredTyped ==
    ASSUME NEW c \in Callers, CallsTyped, call[c] \in ToolCalls, call[c].todo # <<>>,
           NEW ok \in BOOLEAN, NEW from \in SUBSET (1..MaxIds), SubAnswered(c, ok, from)
    PROVE  /\ call' \in [Callers -> CallRecords]
           /\ \A d \in Callers \ {c} : call'[d] = call[d]
           /\ \/ call'[c] = Idle
              \/ /\ call'[c] \in ToolCalls /\ call'[c].pc \in {"sub", "report"}
                 /\ call'[c].pc = "sub" => call'[c].todo # <<>>
                 /\ call'[c].ok = (call[c].ok \/ ok)
                 /\ call'[c].from = call[c].from \cup from
  <1>1. CASE ~call[c].triage
    BY <1>1 DEF SubAnswered, End, CallsTyped, CallRecords
  <1>2. CASE call[c].triage
    <2> DEFINE next == [call[c] EXCEPT !.todo = Tail(@), !.ok = @ \/ ok, !.from = @ \cup from,
                                       !.pc = IF Len(call[c].todo) = 1 THEN "report" ELSE "sub"]
    <2>1. call' = [call EXCEPT ![c] = next]
      BY <1>2 DEF SubAnswered
    <2>2. call[c].todo \in Seq(Subs)
      BY DEF ToolCalls
    <2>3. Tail(call[c].todo) \in Seq(Subs) /\ Len(Tail(call[c].todo)) = Len(call[c].todo) - 1
      BY <2>2, HeadTailProperties
    <2>4. next \in ToolCalls
      BY <2>3 DEF ToolCalls
    <2>5. next.pc = "sub" => next.todo # <<>>
      <3>2. Len(call[c].todo) # 1 => Tail(call[c].todo) # <<>>
        BY <2>2, TailNotEmpty
      <3>3. next.todo = Tail(call[c].todo) /\ (next.pc = "sub" => Len(call[c].todo) # 1)
        BY DEF ToolCalls
      <3> QED
        BY <3>2, <3>3
    <2>6. next.pc \in {"sub", "report"} /\ next.ok = (call[c].ok \/ ok)
            /\ next.from = call[c].from \cup from
      BY DEF ToolCalls
    <2> HIDE DEF next
    <2>7. call \in [Callers -> CallRecords]
      BY DEF CallsTyped
    <2>8. call'[c] = next /\ (\A d \in Callers \ {c} : call'[d] = call[d])
      BY <2>1, <2>7
    <2> QED
      BY <2>1, <2>4, <2>5, <2>6, <2>7, <2>8 DEF CallRecords
  <1> QED
    BY <1>1, <1>2 DEF ToolCalls

\* A call that ended is no call.
LEMMA IdleTyped == Idle \in CallRecords /\ Idle.pc = "idle"
  BY DEF CallRecords, Idle

\* A step of one call replaces its record by one that is well-formed.
LEMMA CallReplaced ==
    ASSUME NEW c \in Callers, CallsTyped, NEW r \in CallRecords, ids \in Nat, ids' \in Nat,
           ids <= ids', CallOk(r, ids'), call' = [call EXCEPT ![c] = r]
    PROVE  CallsTyped'
  <1>1. call' \in [Callers -> CallRecords]
    BY DEF CallsTyped
  <1>2. ASSUME NEW d \in Callers PROVE CallOk(call'[d], ids')
    <2>1. CASE d = c
      BY <2>1 DEF CallsTyped
    <2>2. CASE d # c
      <3>1. call'[d] = call[d] /\ CallOk(call[d], ids)
        BY <2>2 DEF CallsTyped
      <3> QED
        BY <3>1 DEF CallOk
    <2> QED
      BY <2>1, <2>2
  <1> QED
    BY <1>1, <1>2 DEF CallsTyped

\* The same for a step that gives out no id.
LEMMA CallReplacedOnly ==
    ASSUME NEW c \in Callers, CallsTyped, NEW r \in CallRecords, ids \in Nat, ids' = ids,
           CallOk(r, ids), call' = [call EXCEPT ![c] = r]
    PROVE  CallsTyped'
  <1>1. ids' \in Nat /\ ids <= ids' /\ CallOk(r, ids')
    OBVIOUS
  <1> QED
    BY <1>1, CallReplaced

\* Nothing is staged, recorded or in progress.
LEMMA TypedInit == Init => Typed
  BY PostmortemAssumption
     DEF Init, Typed, StateTyped, StepsTyped, CallsTyped, CallOk, CallRecords, Idle, NoFiles, Files

\* One step per action of Next.
LEMMA TypedStep ==
    ASSUME Typed, [Next]_vars
    PROVE  Typed'
  <1> USE PostmortemAssumption
  <1>a. ids \in Nat /\ CallsTyped
    BY DEF Typed, StateTyped
  <1>b. Idle \in CallRecords /\ \A n : CallOk(Idle, n)
    BY IdleTyped DEF CallOk
  <1>1. ASSUME NEW c \in Callers, NEW force \in BOOLEAN, FetchBegin(c, force)
        PROVE  Typed'
    <2> DEFINE new == [pc |-> "admit", force |-> force, id |-> 0, next |-> Core]
    <2>1. new \in CallRecords /\ CallOk(new, ids)
      BY DEF CallRecords, FetchCalls, FetchPcs, Core, CallOk
    <2>2. call' = [call EXCEPT ![c] = new] /\ ids' = ids
      BY <1>1 DEF FetchBegin
    <2> HIDE DEF new
    <2>3. CallsTyped'
      BY <1>a, <2>1, <2>2, CallReplacedOnly
    <2> QED
      BY <1>1, <2>3 DEF FetchBegin, LockFetch, Typed, StateTyped, StepsTyped
  <1>2. ASSUME NEW c \in Callers, FetchAdmit(c)
        PROVE  Typed'
    <2> DEFINE new == [call[c] EXCEPT !.pc = "clear"]
    <2>1. call[c] \in FetchCalls /\ call[c].next = Core
      BY <1>2, <1>a, CallShape DEF FetchAdmit, At, FetchPcs, CallsTyped, CallOk
    <2>2. new \in CallRecords /\ CallOk(new, ids)
      BY <2>1 DEF CallRecords, FetchCalls, FetchPcs, CallOk
    <2>3. ids' = ids /\ (call' = [call EXCEPT ![c] = new] \/ call' = [call EXCEPT ![c] = Idle])
      BY <1>2 DEF FetchAdmit, End
    <2> HIDE DEF new
    <2>4. CallsTyped'
      BY <1>a, <1>b, <2>2, <2>3, CallReplacedOnly
    <2> QED
      BY <1>2, <2>4 DEF FetchAdmit, Unlock, Typed, StateTyped, StepsTyped
  <1>3. ASSUME NEW c \in Callers, FetchClear(c)
        PROVE  Typed'
    <2> DEFINE new == [call[c] EXCEPT !.pc = "stage", !.id = transfers + 1]
    <2>1. call[c] \in FetchCalls /\ call[c].next = Core
      BY <1>3, <1>a, CallShape DEF FetchClear, At, FetchPcs, CallsTyped, CallOk
    <2>2. transfers \in Nat /\ MaxFetches \in Nat /\ transfers < MaxFetches
      BY <1>3 DEF FetchClear, Typed, StateTyped
    <2>3. new \in CallRecords /\ CallOk(new, ids)
      <3>1. new.pc = "stage" /\ new.next = Core
        BY <2>1 DEF FetchCalls
      <3>2. transfers + 1 \in 0..MaxFetches
        BY <2>2
      <3>3. new \in FetchCalls
        BY <2>1, <3>2 DEF FetchCalls, FetchPcs
      <3> HIDE DEF new
      <3> QED
        BY <3>1, <3>3 DEF CallRecords, CallOk, Core, Files
    <2>4. ids' = ids /\ call' = [call EXCEPT ![c] = new]
      BY <1>3 DEF FetchClear
    <2> HIDE DEF new
    <2>5. CallsTyped'
      BY <1>a, <2>3, <2>4, CallReplacedOnly
    <2>6. staged' \in [Files -> 0..MaxFetches]
      BY <1>3, <2>2 DEF FetchClear, NoFiles
    <2> QED
      BY <1>3, <2>2, <2>5, <2>6 DEF FetchClear, Typed, StateTyped, StepsTyped
  <1>4. ASSUME NEW c \in Callers, StageFile(c)
        PROVE  Typed'
    <2> DEFINE new == [call[c] EXCEPT !.next = @ + 1, !.pc = AfterFile(call[c].next)]
    <2>1. call[c] \in FetchCalls /\ call[c].next \in Files
      BY <1>4, <1>a, CallShape DEF StageFile, At, FetchPcs, CallsTyped, CallOk
    <2>2. new \in CallRecords /\ CallOk(new, ids)
      <3>1. new.pc = AfterFile(call[c].next) /\ new.next = call[c].next + 1
        BY <2>1 DEF FetchCalls
      <3>2. call[c].next + 1 \in 1..3 /\ AfterFile(call[c].next) \in {"stage", "record"}
        BY <2>1 DEF Files, AfterFile
      <3>3. new \in FetchCalls
        BY <2>1, <3>2 DEF FetchCalls, FetchPcs
      <3>4. new.pc = "stage" => new.next \in Files
        BY <3>1 DEF AfterFile
      <3> HIDE DEF new
      <3> QED
        BY <3>1, <3>2, <3>3, <3>4 DEF CallRecords, CallOk
    <2>3. ids' = ids /\ (call' = [call EXCEPT ![c] = new] \/ call' = [call EXCEPT ![c] = Idle])
      BY <1>4 DEF StageFile, End
    <2> HIDE DEF new
    <2>4. CallsTyped'
      BY <1>a, <1>b, <2>2, <2>3, CallReplacedOnly
    <2>5. staged' \in [Files -> 0..MaxFetches]
      <3>1. NoFiles \in [Files -> 0..MaxFetches] /\ staged \in [Files -> 0..MaxFetches]
        BY DEF NoFiles, Typed, StateTyped
      <3>2. call[c].id \in 0..MaxFetches
        BY <2>1 DEF FetchCalls
      <3> QED
        BY <1>4, <3>1, <3>2 DEF StageFile
    <2> QED
      BY <1>4, <2>4, <2>5 DEF StageFile, Unlock, Typed, StateTyped, StepsTyped
  <1>5. ASSUME NEW c \in Callers, FetchRecord(c)
        PROVE  Typed'
    <2>1. call[c] \in FetchCalls
      BY <1>5, <1>a, CallShape DEF FetchRecord, At, FetchPcs
    <2>2. call[c].id \in 0..MaxFetches
      BY <2>1 DEF FetchCalls
    <2>3. ids' = ids /\ call' = [call EXCEPT ![c] = Idle]
      BY <1>5 DEF FetchRecord, End
    <2>4. CallsTyped'
      BY <1>a, <1>b, <2>3, CallReplacedOnly
    <2> QED
      BY <1>5, <2>2, <2>4 DEF FetchRecord, Unlock, Typed, StateTyped, StepsTyped
  <1>6. ASSUME NEW c \in Callers, NEW todo \in Seq(Subs), todo # <<>>, NEW triage \in BOOLEAN,
               CallBegin(c, todo, triage)
        PROVE  Typed'
    <2> DEFINE new == [pc |-> "sub", todo |-> todo, triage |-> triage,
                       id |-> 0, ok |-> FALSE, from |-> {}]
    <2>1. new \in ToolCalls
      BY DEF ToolCalls
    <2>2. new \in CallRecords /\ CallOk(new, ids)
      BY <1>6, <2>1 DEF CallRecords, CallOk
    <2>3. ids' = ids /\ call' = [call EXCEPT ![c] = new]
      BY <1>6 DEF CallBegin
    <2> HIDE DEF new
    <2>4. CallsTyped'
      BY <1>a, <2>2, <2>3, CallReplacedOnly
    <2> QED
      BY <1>6, <2>4 DEF CallBegin, fetchVars, Typed, StateTyped, StepsTyped
  <1>7. ASSUME NEW c \in Callers, SubBegin(c)
        PROVE  Typed'
    <2> DEFINE new == [call[c] EXCEPT !.pc = "run", !.id = ids + 1]
    <2>1. call[c] \in ToolCalls /\ call[c].todo # <<>>
      BY <1>7, <1>a, CallShape DEF SubBegin, At, CallsTyped, CallOk
    <2>2. ids' = ids + 1 /\ ids < MaxIds /\ MaxIds \in Nat
      BY <1>7 DEF SubBegin
    <2>3. ids' \in Nat /\ ids <= ids' /\ ids + 1 \in 1..ids' /\ ids' \in 0..MaxIds
      BY <1>a, <2>2
    <2>4. new \in ToolCalls
      BY <2>1, <2>2, <2>3 DEF ToolCalls
    <2>5. new.pc = "run" /\ new.id = ids + 1 /\ new.todo = call[c].todo
      BY <2>1 DEF ToolCalls
    <2>6. call' = [call EXCEPT ![c] = new]
      BY <1>7 DEF SubBegin
    <2> HIDE DEF new
    <2>7. new \in CallRecords /\ CallOk(new, ids')
      BY <2>1, <2>3, <2>4, <2>5 DEF CallRecords, CallOk
    <2>8. CallsTyped'
      BY <1>a, <2>3, <2>6, <2>7, CallReplaced
    <2>9. \A s \in steps : s.id \in 1..ids'
      BY <1>a, <2>3 DEF Typed, StepsTyped
    <2> QED
      BY <1>7, <2>3, <2>8, <2>9 DEF SubBegin, fetchVars, Typed, StateTyped, StepsTyped
  <1>c. ASSUME NEW c \in Callers, call[c] \in ToolCalls, call[c].todo # <<>>, ids' = ids,
               NEW ok \in BOOLEAN, NEW from \in SUBSET (1..MaxIds), SubAnswered(c, ok, from)
        PROVE  CallsTyped'
    <2>1. /\ call' \in [Callers -> CallRecords]
          /\ \A d \in Callers \ {c} : call'[d] = call[d]
          /\ call'[c] = Idle \/ (call'[c].pc \in {"sub", "report"}
                                 /\ (call'[c].pc = "sub" => call'[c].todo # <<>>))
      BY <1>a, <1>c, AnsweredTyped
    <2>2. CallOk(call'[c], ids)
      BY <2>1, <1>b DEF CallOk
    <2>3. \A d \in Callers : CallOk(call'[d], ids)
      BY <2>1, <2>2, <1>a DEF CallsTyped
    <2> QED
      BY <1>c, <2>1, <2>3 DEF CallsTyped
  <1>8. ASSUME NEW c \in Callers, SubRefused(c)
        PROVE  Typed'
    <2>1. call[c] \in ToolCalls /\ call[c].todo # <<>>
      BY <1>8, <1>a, CallShape DEF SubRefused, At, CallsTyped, CallOk
    <2>2. SubAnswered(c, FALSE, {}) /\ ids' = ids /\ {} \in SUBSET (1..MaxIds)
      BY <1>8 DEF SubRefused
    <2>3. CallsTyped'
      BY <2>1, <2>2, <1>c
    <2> QED
      BY <1>8, <2>3 DEF SubRefused, fetchVars, Typed, StateTyped, StepsTyped
  <1>9. ASSUME NEW c \in Callers, SubEnd(c)
        PROVE  Typed'
    <2> DEFINE sub == Head(call[c].todo)
               step(o) == [kind |-> KindOf(sub), id |-> call[c].id, status |-> o.status,
                           sub |-> sub, end |-> o.end, from |-> {}]
    <2>1. call[c] \in ToolCalls /\ call[c].todo # <<>> /\ call[c].id \in 1..ids
      BY <1>9, <1>a, CallShape DEF SubEnd, At, CallsTyped, CallOk
    <2>2. sub \in Subs
      BY <2>1, HeadTailProperties DEF ToolCalls
    <2>3. call[c].id \in 1..MaxIds
      BY <2>1, <1>a DEF Typed, StateTyped
    <2>4. PICK o \in Outcomes(sub), recorded \in BOOLEAN :
             /\ recorded => o.status # "raised"
             /\ steps' = IF ~recorded THEN steps ELSE steps \cup {step(o)}
             /\ \E section \in {SubOk(o, recorded), SubOk(o, recorded) /\ sub # "crash"} :
                   SubAnswered(c, section, {call[c].id})
      BY <1>9 DEF SubEnd
    <2>5. OutcomeOk(sub, o)
      BY <2>2, OutcomesOk
    <2> HIDE DEF sub
    <2>6. recorded => step(o) \in StepRecords
      BY <2>2, <2>3, <2>4, <2>5 DEF OutcomeOk, StepRecords, KindOf
    <2>7. step(o).id = call[c].id
      OBVIOUS
    <2>8. PICK section \in BOOLEAN : SubAnswered(c, section, {call[c].id})
      BY <2>4 DEF SubOk
    <2>9. ids' = ids
      BY <1>9 DEF SubEnd
    <2>10. CallsTyped'
      BY <1>c, <2>1, <2>3, <2>8, <2>9
    <2> HIDE DEF step
    <2>11. StepsTyped'
      BY <2>1, <2>4, <2>6, <2>7, <2>9 DEF Typed, StepsTyped
    <2> QED
      BY <1>9, <2>10, <2>11 DEF SubEnd, fetchVars, Typed, StateTyped
  <1>10. ASSUME NEW c \in Callers, Report(c)
         PROVE  Typed'
    <2> DEFINE step == [kind |-> "triage", id |-> ids + 1,
                        status |-> IF call[c].ok THEN "succeeded" ELSE "failed",
                        sub |-> "triage", end |-> "ran", from |-> call[c].from]
    <2>1. call[c] \in ToolCalls
      BY <1>10, <1>a, CallShape DEF Report, At
    <2>2. call' = [call EXCEPT ![c] = Idle]
      BY <1>10 DEF Report, End
    <2>3. \/ ids < MaxIds /\ ids' = ids + 1 /\ steps' = steps \cup {step}
          \/ steps' = steps /\ ids' = ids
      BY <1>10 DEF Report
    <2>4. ids' \in 0..MaxIds /\ ids' \in Nat /\ ids <= ids'
      BY <1>a, <2>3 DEF Typed, StateTyped
    <2>5. CallsTyped'
      BY <1>a, <1>b, <2>2, <2>4, CallReplaced
    <2>6. ASSUME ids < MaxIds, ids' = ids + 1, steps' = steps \cup {step}
          PROVE  StepsTyped'
      <3>1. ids + 1 \in 1..MaxIds /\ ids + 1 \in 1..ids'
        BY <1>a, <2>6
      <3>2. step \in StepRecords
        BY <2>1, <3>1 DEF StepRecords, ToolCalls, Ends
      <3>3. step.id = ids + 1
        OBVIOUS
      <3> HIDE DEF step
      <3>4. \A s \in steps : s.id \in 1..ids'
        BY <1>a, <2>4 DEF Typed, StepsTyped
      <3> QED
        BY <2>6, <3>1, <3>2, <3>3, <3>4 DEF Typed, StepsTyped
    <2>7. StepsTyped'
      BY <2>3, <2>6 DEF Typed, StepsTyped
    <2> QED
      BY <1>10, <2>4, <2>5, <2>7 DEF Report, fetchVars, Typed, StateTyped, StepsTyped
  <1>11. CASE ServerDies
    <2>1. ids' = ids /\ call' = [c \in Callers |-> Idle]
      BY <1>11 DEF ServerDies
    <2>2. CallsTyped'
      BY <1>b, <2>1 DEF CallsTyped
    <2> QED
      BY <1>11, <2>2 DEF ServerDies, Typed, StateTyped, StepsTyped
  <1>12. CASE DumpCompletes \/ RemoveLock
    BY <1>12, <1>a DEF DumpCompletes, RemoveLock, fetchVars, Typed, StateTyped, StepsTyped,
                       CallsTyped
  <1>13. CASE UNCHANGED vars
    BY <1>13 DEF vars, Typed, StateTyped, StepsTyped, CallsTyped
  <1>14. ASSUME NEW sub \in Subs
         PROVE  <<sub>> \in Seq(Subs) /\ <<sub>> # <<>>
    OBVIOUS
  <1>15. <<"crash", "helper", "helper">> \in Seq(Subs) /\ <<"crash", "helper", "helper">> # <<>>
    BY DEF Subs
  <1> QED
    BY <1>1, <1>2, <1>3, <1>4, <1>5, <1>6, <1>7, <1>8, <1>9, <1>10, <1>11, <1>12, <1>13, <1>14,
       <1>15 DEF Next, Fetch, OnlyAnswers, Subs

\* The tools, the manifest and the calls stay well-typed, for any bounds.
THEOREM PostTyped == Spec => []PostTypeOK
  <1>1. Init => Typed
    BY TypedInit
  <1>2. Typed /\ [Next]_vars => Typed'
    BY TypedStep
  <1>3. Typed => PostTypeOK
    BY TypedImpliesTypeOK
  <1> QED
    BY <1>1, <1>2, <1>3, PTL DEF Spec

-----------------------------------------------------------------------------
(* The steps of the tools that take no lock                                 *)

\* What a step of crash, from_vmcore or triage of caller c leaves alone.
ToolFrame(c) ==
    /\ UNCHANGED <<staged, fetched, lost, lock>>
    /\ steps \subseteq steps'
    /\ \A d \in Callers \ {c} : call'[d] = call[d]
    /\ call[c].pc \notin FetchPcs /\ call'[c].pc \notin FetchPcs

ToolStep(c) ==
    \/ \E todo \in Seq(Subs), triage \in BOOLEAN : todo # <<>> /\ CallBegin(c, todo, triage)
    \/ SubBegin(c) \/ SubRefused(c) \/ SubEnd(c) \/ Report(c)

\* Every step of Next is one of a fetch, of a tool, of kdump, of the server as a
\* whole or of an operator.
LEMMA NextCases ==
    ASSUME [Next]_vars
    PROVE  \/ \E c \in Callers : \/ \E force \in BOOLEAN : FetchBegin(c, force)
                                  \/ FetchAdmit(c) \/ FetchClear(c) \/ StageFile(c)
                                  \/ FetchRecord(c) \/ ToolStep(c)
           \/ DumpCompletes \/ ServerDies \/ RemoveLock \/ UNCHANGED vars
  <1>1. \A sub \in Subs : <<sub>> \in Seq(Subs) /\ <<sub>> # <<>>
    OBVIOUS
  <1>2. <<"crash", "helper", "helper">> \in Seq(Subs) /\ <<"crash", "helper", "helper">> # <<>>
    BY DEF Subs
  <1>3. ASSUME NEW c \in Callers,
               \/ \E sub \in Subs : CallBegin(c, <<sub>>, FALSE)
               \/ CallBegin(c, <<"crash", "helper", "helper">>, TRUE)
        PROVE  ToolStep(c)
    BY <1>1, <1>2, <1>3 DEF ToolStep
  <1> QED
    BY <1>3 DEF Next, Fetch, OnlyAnswers, ToolStep, Subs

\* A sub-call that ends or is refused concerns its caller alone.
LEMMA AnsweredFrame ==
    ASSUME Typed, NEW c \in Callers, call[c].pc \in {"sub", "run"},
           NEW ok \in BOOLEAN, NEW from \in SUBSET (1..MaxIds), SubAnswered(c, ok, from)
    PROVE  /\ \A d \in Callers \ {c} : call'[d] = call[d]
           /\ \/ call'[c].pc = "idle"
              \/ /\ call'[c].pc \in {"sub", "report"}
                 /\ call'[c].ok = (call[c].ok \/ ok)
                 /\ call'[c].from = call[c].from \cup from
  <1>1. CallsTyped /\ call[c] \in ToolCalls /\ call[c].todo # <<>>
    BY CallShape DEF Typed, CallsTyped, CallOk
  <1> QED
    BY <1>1, AnsweredTyped, IdleTyped

\* The step that a sub-call with outcome o appends.
StepOf(c, o) ==
    [kind |-> KindOf(Head(call[c].todo)), id |-> call[c].id, status |-> o.status,
     sub |-> Head(call[c].todo), end |-> o.end, from |-> {}]

\* What a sub-call that ends does to the manifest and to its call.
LEMMA SubEndEffect ==
    ASSUME Typed, NEW c \in Callers, SubEnd(c)
    PROVE  \E o \in Outcomes(Head(call[c].todo)), recorded \in BOOLEAN, section \in BOOLEAN :
              /\ Head(call[c].todo) \in Subs /\ OutcomeOk(Head(call[c].todo), o)
              /\ steps' = IF ~recorded THEN steps ELSE steps \cup {StepOf(c, o)}
              /\ section => recorded /\ o.status = "succeeded"
              /\ SubAnswered(c, section, {call[c].id})
              /\ {call[c].id} \in SUBSET (1..MaxIds)
  <1> DEFINE sub == Head(call[c].todo)
  <1>1. call[c] \in ToolCalls /\ call[c].todo # <<>> /\ call[c].id \in 1..ids
    BY CallShape DEF Typed, SubEnd, At, CallsTyped, CallOk
  <1>2. sub \in Subs
    BY <1>1, HeadTailProperties DEF ToolCalls
  <1>3. PICK o \in Outcomes(sub), recorded \in BOOLEAN :
             /\ steps' = IF ~recorded THEN steps ELSE steps \cup {StepOf(c, o)}
             /\ \E section \in {SubOk(o, recorded), SubOk(o, recorded) /\ sub # "crash"} :
                   SubAnswered(c, section, {call[c].id})
    BY DEF SubEnd, StepOf
  <1>4. PICK section \in BOOLEAN : /\ section => recorded /\ o.status = "succeeded"
                                  /\ SubAnswered(c, section, {call[c].id})
    BY <1>3 DEF SubOk
  <1>5. OutcomeOk(sub, o)
    BY <1>2, OutcomesOk
  <1>6. {call[c].id} \in SUBSET (1..MaxIds)
    BY <1>1, PostmortemAssumption DEF Typed, StateTyped
  <1> QED
    BY <1>2, <1>3, <1>4, <1>5, <1>6 DEF sub

\* The analyses touch neither the staged files nor the lock, and only add steps.
LEMMA ToolStepFrame ==
    ASSUME Typed, NEW c \in Callers, ToolStep(c)
    PROVE  ToolFrame(c)
  <1>0. call \in [Callers -> CallRecords]
    BY DEF Typed, CallsTyped
  <1>1. ASSUME NEW todo, NEW triage, CallBegin(c, todo, triage) PROVE ToolFrame(c)
    BY <1>0, <1>1 DEF CallBegin, At, ToolFrame, fetchVars, FetchPcs
  <1>2. CASE SubBegin(c)
    <2>1. call[c] \in ToolCalls
      BY <1>2, CallShape DEF Typed, SubBegin, At
    <2>2. call'[c].pc = "run"
      BY <1>0, <1>2, <2>1 DEF SubBegin, ToolCalls
    <2> QED
      BY <1>0, <1>2, <2>2 DEF SubBegin, At, ToolFrame, fetchVars, FetchPcs
  <1>3. CASE SubRefused(c)
    <2>1. /\ \A d \in Callers \ {c} : call'[d] = call[d]
          /\ call'[c].pc \in {"idle", "sub", "report"}
      BY <1>3, AnsweredFrame DEF SubRefused, At
    <2> QED
      BY <1>3, <2>1 DEF SubRefused, At, ToolFrame, fetchVars, FetchPcs
  <1>4. CASE SubEnd(c)
    <2>1. At(c, "run") /\ UNCHANGED <<staged, fetched, lost, lock>>
      BY <1>4 DEF SubEnd, fetchVars
    <2>2. PICK section \in BOOLEAN : /\ SubAnswered(c, section, {call[c].id})
                                    /\ {call[c].id} \in SUBSET (1..MaxIds)
      BY <1>4, SubEndEffect
    <2>3. /\ \A d \in Callers \ {c} : call'[d] = call[d]
          /\ call'[c].pc \in {"idle", "sub", "report"}
      BY <2>1, <2>2, AnsweredFrame DEF At
    <2>4. steps \subseteq steps'
      BY <1>4 DEF SubEnd
    <2> QED
      BY <2>1, <2>3, <2>4 DEF At, ToolFrame, FetchPcs
  <1>5. CASE Report(c)
    <2>1. call'[c].pc = "idle" /\ \A d \in Callers \ {c} : call'[d] = call[d]
      BY <1>0, <1>5, IdleTyped DEF Report, End
    <2> QED
      BY <1>5, <2>1 DEF Report, At, ToolFrame, fetchVars, FetchPcs
  <1> QED
    BY <1>1, <1>2, <1>3, <1>4, <1>5 DEF ToolStep

-----------------------------------------------------------------------------
(* The fetch                                                                *)

\* One fetch at a time, which holds the lock file; a recorded one is only
\* replaced by one that is forced.
FetchHolds ==
    \A c \in Callers : call[c].pc \in FetchPcs => lock = c /\ (fetched = 0 \/ call[c].force)

\* What the fetch in progress has staged, and given up of the recorded one.
FetchProgress ==
    \A c \in Callers :
        /\ call[c].pc = "stage" => \A f \in Files : f < call[c].next => staged[f] = call[c].id
        /\ call[c].pc = "record" => \A f \in Files : staged[f] = call[c].id
        /\ call[c].pc \in {"stage", "record"} => fetched = 0 \/ lost = fetched

FetchInv == FetchHolds /\ FetchProgress /\ FetchedIsStaged

\* Steps that leave the files and the lock alone, and no fetch of whatever caller.
LEMMA FetchFrame ==
    ASSUME FetchInv, UNCHANGED <<staged, fetched, lost, lock>>,
           \A d \in Callers : call[d].pc \in FetchPcs \/ call'[d].pc \in FetchPcs => call'[d] = call[d]
    PROVE  FetchInv'
  <1>1. FetchHolds'
    BY DEF FetchInv, FetchHolds
  <1>2. FetchProgress'
    BY DEF FetchInv, FetchProgress, FetchPcs
  <1>3. Fetching' <=> Fetching
    BY DEF Fetching, FetchPcs
  <1>4. FetchedIsStaged'
    BY <1>3 DEF FetchInv, FetchedIsStaged
  <1> QED
    BY <1>1, <1>2, <1>4 DEF FetchInv

\* The fetch of c ends: nobody holds the lock, nobody fetches.
LEMMA FetchEnds ==
    ASSUME Typed, FetchInv, NEW c \in Callers, call[c].pc \in FetchPcs, End(c)
    PROVE  \A d \in Callers : call'[d].pc \notin FetchPcs
  <1>1. ASSUME NEW d \in Callers, d # c PROVE call'[d] = call[d] /\ call[d].pc \notin FetchPcs
    BY <1>1 DEF End, Typed, CallsTyped, FetchInv, FetchHolds
  <1>2. call'[c].pc = "idle"
    BY IdleTyped DEF End, Typed, CallsTyped
  <1> QED
    BY <1>1, <1>2 DEF FetchPcs

\* The record of c is replaced, and it is the only fetch.
LEMMA FetchGoesOn ==
    ASSUME Typed, FetchInv, NEW c \in Callers, call[c].pc \in FetchPcs,
           NEW r, call' = [call EXCEPT ![c] = r]
    PROVE  /\ call'[c] = r
           /\ \A d \in Callers : d # c => call'[d] = call[d] /\ call'[d].pc \notin FetchPcs
  BY DEF Typed, CallsTyped, FetchInv, FetchHolds

\* No fetch in progress, none recorded.
LEMMA FetchInit == Init => FetchInv
  BY DEF Init, FetchInv, FetchHolds, FetchProgress, FetchedIsStaged, Idle, FetchPcs

\* One step per action of the fetch, and the frames for the others.
LEMMA FetchStep ==
    ASSUME Typed, FetchInv, [Next]_vars
    PROVE  FetchInv'
  <1>a. call \in [Callers -> CallRecords] /\ transfers \in Nat /\ lost \in Nat /\ fetched \in Nat
    BY PostmortemAssumption DEF Typed, CallsTyped, StateTyped
  <1>1. ASSUME NEW c \in Callers, NEW force \in BOOLEAN, FetchBegin(c, force)
        PROVE  FetchInv'
    <2>1. \A d \in Callers : call[d].pc \notin FetchPcs
      BY <1>1, PostmortemAssumption DEF FetchBegin, LockFetch, FetchInv, FetchHolds
    <2>2. /\ \A d \in Callers : d # c => call'[d] = call[d]
          /\ call'[c].pc = "admit" /\ call'[c].force = force
      BY <1>1, <1>a DEF FetchBegin
    <2>3. lock' = c /\ (fetched = 0 \/ force) /\ UNCHANGED <<staged, fetched, lost>>
      BY <1>1 DEF FetchBegin, LockFetch
    <2>4. FetchHolds'
      BY <2>1, <2>2, <2>3 DEF FetchHolds
    <2>5. \A d \in Callers : call'[d].pc \notin {"stage", "record"}
                             /\ call[d].pc \notin {"stage", "record"}
      BY <2>1, <2>2 DEF FetchPcs
    <2>6. FetchProgress' /\ FetchedIsStaged'
      BY <2>3, <2>5 DEF FetchProgress, FetchInv, FetchedIsStaged, Fetching
    <2> QED
      BY <2>4, <2>6 DEF FetchInv
  <1>2. ASSUME NEW c \in Callers, FetchAdmit(c)
        PROVE  FetchInv'
    <2>1. call[c].pc = "admit" /\ call[c] \in FetchCalls /\ UNCHANGED <<staged, fetched, lost>>
      BY <1>2, CallShape DEF FetchAdmit, At, Typed, FetchPcs
    <2>2. \A d \in Callers : call[d].pc \in FetchPcs => d = c
      BY <2>1 DEF FetchInv, FetchHolds, FetchPcs
    <2>3. CASE End(c)
      <3>1. \A d \in Callers : call'[d].pc \notin FetchPcs
        BY <2>1, <2>3, FetchEnds DEF FetchPcs
      <3>2. ~Fetching /\ ~Fetching'
        BY <2>1, <2>2, <3>1 DEF Fetching, FetchPcs
      <3> QED
        BY <2>1, <3>1, <3>2 DEF FetchInv, FetchHolds, FetchProgress, FetchedIsStaged, FetchPcs
    <2>4. CASE UNCHANGED lock /\ call' = [call EXCEPT ![c].pc = "clear"]
      <3> DEFINE r == [call[c] EXCEPT !.pc = "clear"]
      <3>1. call' = [call EXCEPT ![c] = r] /\ r.pc = "clear" /\ r.force = call[c].force
        BY <2>1, <2>4 DEF FetchCalls
      <3> HIDE DEF r
      <3>2. call'[c] = r /\ \A d \in Callers : d # c => call'[d] = call[d]
                                                       /\ call'[d].pc \notin FetchPcs
        BY <2>1, <3>1, FetchGoesOn DEF FetchPcs
      <3>3. ~Fetching /\ ~Fetching'
        BY <2>1, <2>2, <3>1, <3>2 DEF Fetching, FetchPcs
      <3>4. FetchHolds'
        BY <2>1, <2>4, <3>1, <3>2 DEF FetchInv, FetchHolds, FetchPcs
      <3> QED
        BY <2>1, <3>1, <3>2, <3>3, <3>4 DEF FetchInv, FetchProgress, FetchedIsStaged, FetchPcs
    <2> QED
      BY <1>2, <2>3, <2>4 DEF FetchAdmit
  <1>3. ASSUME NEW c \in Callers, FetchClear(c)
        PROVE  FetchInv'
    <2> DEFINE r == [call[c] EXCEPT !.pc = "stage", !.id = transfers + 1]
    <2>1. /\ call[c].pc = "clear" /\ call[c] \in FetchCalls /\ UNCHANGED <<fetched, lock>>
          /\ lost' = IF call[c].force THEN fetched ELSE lost
          /\ call' = [call EXCEPT ![c] = r]
      BY <1>3, CallShape DEF FetchClear, At, Typed, FetchPcs
    <2>2. r.pc = "stage" /\ r.force = call[c].force /\ r.next = Core
      BY <2>1 DEF FetchCalls, Typed, CallsTyped, CallOk
    <2> HIDE DEF r
    <2>3. call'[c] = r /\ \A d \in Callers : d # c => call'[d].pc \notin FetchPcs
      BY <2>1, FetchGoesOn DEF FetchPcs
    <2>4. lock = c /\ (fetched = 0 \/ call[c].force)
      BY <2>1 DEF FetchInv, FetchHolds, FetchPcs
    <2>5. FetchHolds'
      BY <2>1, <2>2, <2>3, <2>4 DEF FetchHolds
    <2>6. \A f \in Files : ~(f < Core)
      BY DEF Files, Core
    <2>7. FetchProgress'
      BY <2>1, <2>2, <2>3, <2>4, <2>6 DEF FetchProgress, FetchPcs
    <2>8. Fetching'
      BY <2>2, <2>3 DEF Fetching
    <2> QED
      BY <2>5, <2>7, <2>8 DEF FetchInv, FetchedIsStaged
  <1>4. ASSUME NEW c \in Callers, StageFile(c)
        PROVE  FetchInv'
    <2>1. /\ call[c].pc = "stage" /\ call[c] \in FetchCalls /\ call[c].next \in Files
          /\ UNCHANGED <<fetched, lost>>
      BY <1>4, CallShape DEF StageFile, At, Typed, CallsTyped, CallOk, FetchPcs
    <2>2. lock = c /\ (fetched = 0 \/ call[c].force) /\ (fetched = 0 \/ lost = fetched)
      BY <2>1 DEF FetchInv, FetchHolds, FetchProgress, FetchPcs
    <2>3. CASE End(c)
      <3>1. \A d \in Callers : call'[d].pc \notin FetchPcs
        BY <2>1, <2>3, FetchEnds DEF FetchPcs
      <3> QED
        BY <2>1, <2>2, <3>1 DEF FetchInv, FetchHolds, FetchProgress, FetchedIsStaged, FetchPcs
    <2>4. ASSUME staged' = [staged EXCEPT ![call[c].next] = call[c].id], UNCHANGED lock,
                 call' = [call EXCEPT ![c].next = @ + 1, ![c].pc = AfterFile(call[c].next)]
          PROVE  FetchInv'
      <3> DEFINE r == [call[c] EXCEPT !.next = @ + 1, !.pc = AfterFile(call[c].next)]
                 n == call[c].next
      <3>1. /\ call' = [call EXCEPT ![c] = r] /\ r.pc = AfterFile(n) /\ r.next = n + 1
            /\ r.force = call[c].force /\ r.id = call[c].id
        BY <2>1, <2>4 DEF FetchCalls
      <3> HIDE DEF r
      <3>2. call'[c] = r /\ \A d \in Callers : d # c => call'[d].pc \notin FetchPcs
        BY <2>1, <3>1, FetchGoesOn DEF FetchPcs
      <3>3. FetchHolds'
        BY <2>1, <2>2, <2>4, <3>1, <3>2 DEF FetchHolds
      <3>4. staged \in [Files -> 0..MaxFetches] /\ \A f \in Files : f < n => staged[f] = call[c].id
        BY <2>1 DEF FetchInv, FetchProgress, Typed, StateTyped
      <3>5. \A f \in Files : f < n + 1 => staged'[f] = r.id
        BY <2>1, <2>4, <3>1, <3>4 DEF Files
      <3>6. r.pc = "record" => \A f \in Files : f < n + 1
        BY <2>1, <3>1 DEF AfterFile, Files
      <3>7. r.pc \in {"stage", "record"}
        BY <3>1 DEF AfterFile
      <3>8. FetchProgress'
        BY <2>1, <2>2, <3>1, <3>2, <3>5, <3>6 DEF FetchProgress, FetchPcs
      <3>9. Fetching'
        BY <3>2, <3>7 DEF Fetching
      <3> QED
        BY <3>3, <3>8, <3>9 DEF FetchInv, FetchedIsStaged
    <2> QED
      BY <1>4, <2>3, <2>4 DEF StageFile
  <1>5. ASSUME NEW c \in Callers, FetchRecord(c)
        PROVE  FetchInv'
    <2>1. /\ call[c].pc = "record" /\ UNCHANGED <<staged, lost>> /\ End(c)
          /\ \/ fetched' = IF fetched = 0 \/ call[c].force THEN call[c].id ELSE fetched
             \/ fetched' = fetched
      BY <1>5 DEF FetchRecord, At
    <2>2. /\ fetched = 0 \/ call[c].force
          /\ fetched = 0 \/ lost = fetched
          /\ \A f \in Files : staged[f] = call[c].id
      BY <2>1 DEF FetchInv, FetchHolds, FetchProgress, FetchPcs
    <2>3. \A d \in Callers : call'[d].pc \notin FetchPcs
      BY <2>1, FetchEnds DEF FetchPcs
    <2>4. FetchedIsStaged'
      BY <2>1, <2>2 DEF FetchedIsStaged
    <2> QED
      BY <2>3, <2>4 DEF FetchInv, FetchHolds, FetchProgress, FetchPcs
  <1>6. ASSUME NEW c \in Callers, ToolStep(c)
        PROVE  FetchInv'
    <2>1. ToolFrame(c)
      BY <1>6, ToolStepFrame
    <2> QED
      BY <2>1, FetchFrame DEF ToolFrame
  <1>7. CASE ServerDies
    <2>1. \A d \in Callers : call'[d].pc = "idle"
      BY <1>7, IdleTyped DEF ServerDies
    <2>2. UNCHANGED <<staged, fetched, lost>>
      BY <1>7 DEF ServerDies
    <2>3. fetched # 0 /\ lost # fetched => ~Fetching
      BY DEF FetchInv, FetchProgress, Fetching
    <2> QED
      BY <2>1, <2>2, <2>3 DEF FetchInv, FetchHolds, FetchProgress, FetchedIsStaged, FetchPcs
  <1>8. CASE RemoveLock
    <2>1. \A d \in Callers : call[d].pc \notin FetchPcs
      BY <1>8, PostmortemAssumption DEF RemoveLock, FetchInv, FetchHolds
    <2>2. UNCHANGED <<staged, fetched, lost, call>>
      BY <1>8 DEF RemoveLock
    <2> QED
      BY <2>1, <2>2 DEF FetchInv, FetchHolds, FetchProgress, FetchedIsStaged, Fetching
  <1>9. CASE DumpCompletes \/ UNCHANGED vars
    <2>1. UNCHANGED <<staged, fetched, lost, lock, call>>
      BY <1>9 DEF DumpCompletes, fetchVars, vars
    <2> QED
      BY <2>1, FetchFrame
  <1> QED
    BY <1>1, <1>2, <1>3, <1>4, <1>5, <1>6, <1>7, <1>8, <1>9, NextCases

\* What the manifest says was fetched is staged whole and of one transfer, for
\* any number of racing, dying and retried fetches (_fetch_under_lock).
THEOREM FetchIsWhole == Spec => []FetchedIsStaged
  <1>1. Init => Typed /\ FetchInv
    BY TypedInit, FetchInit
  <1>2. Typed /\ FetchInv /\ [Next]_vars => (Typed /\ FetchInv)'
    BY TypedStep, FetchStep
  <1>3. FetchInv => FetchedIsStaged
    BY DEF FetchInv
  <1> QED
    BY <1>1, <1>2, <1>3, PTL DEF Spec

\* A step of a fetch records nothing and leaves the calls of the others alone.
LEMMA FetchStepFrame ==
    ASSUME Typed, NEW c \in Callers,
           \/ \E force \in BOOLEAN : FetchBegin(c, force)
           \/ FetchAdmit(c) \/ FetchClear(c) \/ StageFile(c) \/ FetchRecord(c)
    PROVE  /\ steps' = steps
           /\ call'[c].pc \in FetchPcs \cup {"idle"}
           /\ \A d \in Callers : d # c => call'[d] = call[d]
  <1>a. call \in [Callers -> CallRecords]
    BY DEF Typed, CallsTyped
  <1>1. steps' = steps
    BY DEF FetchBegin, FetchAdmit, FetchClear, StageFile, FetchRecord
  <1>2. CASE \E force \in BOOLEAN : FetchBegin(c, force)
    BY <1>a, <1>1, <1>2 DEF FetchBegin, FetchPcs
  <1>3. CASE End(c)
    BY <1>a, <1>1, <1>3, IdleTyped DEF End
  <1>4. ASSUME FetchAdmit(c) \/ FetchClear(c) \/ StageFile(c)
        PROVE  call[c] \in FetchCalls
    BY <1>4, CallShape DEF FetchAdmit, FetchClear, StageFile, At, FetchPcs, Typed
  <1>5. CASE FetchAdmit(c) /\ call' = [call EXCEPT ![c].pc = "clear"]
    <2> DEFINE r == [call[c] EXCEPT !.pc = "clear"]
    <2>1. call' = [call EXCEPT ![c] = r] /\ r.pc = "clear"
      BY <1>4, <1>5 DEF FetchCalls
    <2> HIDE DEF r
    <2> QED
      BY <1>a, <1>1, <2>1 DEF FetchPcs
  <1>6. CASE FetchClear(c)
    <2> DEFINE r == [call[c] EXCEPT !.pc = "stage", !.id = transfers + 1]
    <2>1. call' = [call EXCEPT ![c] = r] /\ r.pc = "stage"
      BY <1>4, <1>6 DEF FetchCalls, FetchClear
    <2> HIDE DEF r
    <2> QED
      BY <1>a, <1>1, <2>1 DEF FetchPcs
  <1>7. CASE StageFile(c)
              /\ call' = [call EXCEPT ![c].next = @ + 1, ![c].pc = AfterFile(call[c].next)]
    <2> DEFINE r == [call[c] EXCEPT !.next = @ + 1, !.pc = AfterFile(call[c].next)]
    <2>1. call' = [call EXCEPT ![c] = r] /\ r.pc = AfterFile(call[c].next)
      BY <1>4, <1>7 DEF FetchCalls
    <2>2. AfterFile(call[c].next) \in FetchPcs
      BY DEF AfterFile, FetchPcs
    <2> HIDE DEF r
    <2> QED
      BY <1>a, <1>1, <2>1, <2>2
  <1> QED
    BY <1>2, <1>3, <1>5, <1>6, <1>7 DEF FetchAdmit, StageFile, FetchRecord

-----------------------------------------------------------------------------
(* What a success of the manifest rests on                                  *)

\* A triage that has a section has a step of the manifest for it.
Backed(from, S) == \E s \in S : s.id \in from /\ s.status = "succeeded"

TriageProgress ==
    \A c \in Callers :
        call[c].pc \in {"sub", "run", "report"} /\ call[c].ok => Backed(call[c].from, steps)

ManifestInv == TriageProgress /\ TriageIsBacked /\ SucceededRan

\* The manifest only grows, and so does what a triage call notes.
LEMMA BackedGrows ==
    ASSUME NEW from, NEW wider, NEW S, NEW larger, from \subseteq wider, S \subseteq larger,
           Backed(from, S)
    PROVE  Backed(wider, larger)
  BY DEF Backed

\* The manifest and the calls as they are, or calls that are gone.
LEMMA ManifestFrame ==
    ASSUME ManifestInv, steps' = steps,
           \A d \in Callers : call'[d].pc \in {"sub", "run", "report"} => call'[d] = call[d]
    PROVE  ManifestInv'
  BY DEF ManifestInv, TriageProgress, TriageIsBacked, SucceededRan

\* A step that is appended keeps what holds of the others.
LEMMA ManifestGrows ==
    ASSUME ManifestInv, NEW t, steps' = steps \cup {t},
           t.kind = "triage" /\ t.status = "succeeded" => Backed(t.from, steps),
           t.kind = "introspect" /\ t.status = "succeeded" =>
              t.end = "ran" \/ (t.end = "error" /\ t.sub = "script")
    PROVE  TriageIsBacked' /\ SucceededRan'
  BY DEF ManifestInv, TriageIsBacked, SucceededRan, Backed

\* No step is recorded.
LEMMA ManifestInit == Init => ManifestInv
  BY DEF Init, ManifestInv, TriageProgress, TriageIsBacked, SucceededRan, Idle

\* Only SubEnd and Report append a step; the others are frames.
LEMMA ManifestStep ==
    ASSUME Typed, ManifestInv, [Next]_vars
    PROVE  ManifestInv'
  <1>a. call \in [Callers -> CallRecords]
    BY DEF Typed, CallsTyped
  <1>1. ASSUME NEW c \in Callers,
               \/ \E force \in BOOLEAN : FetchBegin(c, force)
               \/ FetchAdmit(c) \/ FetchClear(c) \/ StageFile(c) \/ FetchRecord(c)
        PROVE  ManifestInv'
    <2>1. /\ steps' = steps
          /\ call'[c].pc \in FetchPcs \cup {"idle"}
          /\ \A d \in Callers : d # c => call'[d] = call[d]
      BY <1>1, FetchStepFrame
    <2> QED
      BY <2>1, ManifestFrame DEF FetchPcs
  <1>2. ASSUME NEW c \in Callers, NEW todo, NEW triage, CallBegin(c, todo, triage)
        PROVE  ManifestInv'
    <2>1. steps' = steps /\ call'[c].ok = FALSE /\ \A d \in Callers : d # c => call'[d] = call[d]
      BY <1>2, <1>a DEF CallBegin
    <2> QED
      BY <2>1 DEF ManifestInv, TriageProgress, TriageIsBacked, SucceededRan
  <1>3. ASSUME NEW c \in Callers, SubBegin(c)
        PROVE  ManifestInv'
    <2> DEFINE r == [call[c] EXCEPT !.pc = "run", !.id = ids + 1]
    <2>1. call[c].pc = "sub" /\ call[c] \in ToolCalls /\ steps' = steps
      BY <1>3, CallShape DEF SubBegin, At, Typed
    <2>2. call' = [call EXCEPT ![c] = r] /\ r.ok = call[c].ok /\ r.from = call[c].from
      BY <1>3, <2>1 DEF SubBegin, ToolCalls
    <2> HIDE DEF r
    <2>3. call'[c] = r /\ \A d \in Callers : d # c => call'[d] = call[d]
      BY <1>a, <2>2
    <2> QED
      BY <2>1, <2>2, <2>3 DEF ManifestInv, TriageProgress, TriageIsBacked, SucceededRan
  <1>4. ASSUME NEW c \in Callers, SubRefused(c)
        PROVE  ManifestInv'
    <2>1. call[c].pc = "sub" /\ steps' = steps /\ call[c] \in ToolCalls
      BY <1>4, CallShape DEF SubRefused, At, Typed
    <2>2. /\ \A d \in Callers \ {c} : call'[d] = call[d]
          /\ \/ call'[c].pc = "idle"
             \/ call'[c].ok = (call[c].ok \/ FALSE) /\ call'[c].from = call[c].from \cup {}
      BY <1>4, <2>1, AnsweredFrame DEF SubRefused
    <2>3. call'[c].pc = "idle" \/ (call'[c].ok = call[c].ok /\ call'[c].from = call[c].from)
      BY <2>1, <2>2 DEF ToolCalls
    <2> QED
      BY <2>1, <2>2, <2>3 DEF ManifestInv, TriageProgress, TriageIsBacked, SucceededRan
  <1>5. ASSUME NEW c \in Callers, SubEnd(c)
        PROVE  ManifestInv'
    <2>1. call[c].pc = "run" /\ call[c] \in ToolCalls
      BY <1>5, CallShape DEF SubEnd, At, Typed
    <2>2. PICK o \in Outcomes(Head(call[c].todo)), recorded \in BOOLEAN, section \in BOOLEAN :
              /\ Head(call[c].todo) \in Subs /\ OutcomeOk(Head(call[c].todo), o)
              /\ steps' = IF ~recorded THEN steps ELSE steps \cup {StepOf(c, o)}
              /\ section => recorded /\ o.status = "succeeded"
              /\ SubAnswered(c, section, {call[c].id})
              /\ {call[c].id} \in SUBSET (1..MaxIds)
      BY <1>5, SubEndEffect
    <2>3. /\ \A d \in Callers \ {c} : call'[d] = call[d]
          /\ \/ call'[c].pc = "idle"
             \/ /\ call'[c].ok = (call[c].ok \/ section)
                /\ call'[c].from = call[c].from \cup {call[c].id}
      BY <2>1, <2>2, AnsweredFrame
    <2> DEFINE t == StepOf(c, o)
    <2>4. /\ t.kind = KindOf(Head(call[c].todo)) /\ t.id = call[c].id /\ t.status = o.status
          /\ t.sub = Head(call[c].todo) /\ t.end = o.end
      BY DEF StepOf
    <2>5. /\ t.kind # "triage"
          /\ t.kind = "introspect" /\ t.status = "succeeded" =>
                t.end = "ran" \/ (t.end = "error" /\ t.sub = "script")
      BY <2>2, <2>4 DEF KindOf, OutcomeOk
    <2> HIDE DEF t
    <2>6. TriageIsBacked' /\ SucceededRan'
      <3>1. CASE recorded
        BY <2>2, <2>5, <3>1, ManifestGrows DEF t
      <3>2. CASE ~recorded
        BY <2>2, <3>2 DEF ManifestInv, TriageIsBacked, SucceededRan
      <3> QED
        BY <3>1, <3>2
    <2>7. steps \subseteq steps'
      BY <2>2
    <2>8. section => Backed({call[c].id}, steps')
      BY <2>2, <2>4 DEF Backed, t
    <2>9. ASSUME NEW d \in Callers, call'[d].pc \in {"sub", "run", "report"}, call'[d].ok
          PROVE  Backed(call'[d].from, steps')
      <3>1. CASE d # c
        <4>1. Backed(call[d].from, steps) /\ call'[d] = call[d]
          BY <2>3, <2>9, <3>1 DEF ManifestInv, TriageProgress
        <4> QED
          BY <2>7, <4>1, BackedGrows
      <3>2. CASE d = c
        <4>1. call'[c].ok = (call[c].ok \/ section)
                /\ call'[c].from = call[c].from \cup {call[c].id}
          BY <2>3, <2>9, <3>2
        <4>2. CASE section
          <5>1. {call[c].id} \subseteq call'[c].from
            BY <4>1
          <5> QED
            BY <2>8, <3>2, <4>2, <5>1, BackedGrows
        <4>3. CASE call[c].ok
          <5>1. Backed(call[c].from, steps) /\ call[c].from \subseteq call'[c].from
            BY <2>1, <4>1, <4>3 DEF ManifestInv, TriageProgress
          <5> QED
            BY <2>7, <3>2, <5>1, BackedGrows
        <4> QED
          BY <2>9, <3>2, <4>1, <4>2, <4>3
      <3> QED
        BY <3>1, <3>2
    <2> QED
      BY <2>6, <2>9 DEF ManifestInv, TriageProgress
  <1>6. ASSUME NEW c \in Callers, Report(c)
        PROVE  ManifestInv'
    <2> DEFINE t == [kind |-> "triage", id |-> ids + 1,
                     status |-> IF call[c].ok THEN "succeeded" ELSE "failed",
                     sub |-> "triage", end |-> "ran", from |-> call[c].from]
    <2>1. /\ call[c].pc = "report" /\ call'[c] = Idle
          /\ \A d \in Callers : d # c => call'[d] = call[d]
      BY <1>6, <1>a DEF Report, At, End
    <2>2. steps' = steps \cup {t} \/ steps' = steps
      BY <1>6 DEF Report
    <2>3. /\ t.kind = "triage" /\ t.from = call[c].from
          /\ t.status = "succeeded" => Backed(call[c].from, steps)
      BY <2>1 DEF ManifestInv, TriageProgress
    <2> HIDE DEF t
    <2>4. TriageIsBacked' /\ SucceededRan'
      <3>1. CASE steps' = steps \cup {t}
        BY <2>3, <3>1, ManifestGrows
      <3>2. CASE steps' = steps
        BY <3>2 DEF ManifestInv, TriageIsBacked, SucceededRan
      <3> QED
        BY <2>2, <3>1, <3>2
    <2>5. ASSUME NEW d \in Callers, call'[d].pc \in {"sub", "run", "report"}, call'[d].ok
          PROVE  Backed(call'[d].from, steps')
      <3>1. d # c
        BY <2>1, <2>5, IdleTyped
      <3>2. Backed(call[d].from, steps) /\ call'[d] = call[d]
        BY <2>1, <2>5, <3>1 DEF ManifestInv, TriageProgress
      <3> QED
        BY <2>2, <3>2, BackedGrows
    <2> QED
      BY <2>4, <2>5 DEF ManifestInv, TriageProgress
  <1>7. CASE ServerDies
    <2>1. steps' = steps /\ \A d \in Callers : call'[d].pc = "idle"
      BY <1>7, IdleTyped DEF ServerDies
    <2> QED
      BY <2>1, ManifestFrame
  <1>8. CASE DumpCompletes \/ RemoveLock \/ UNCHANGED vars
    <2>1. steps' = steps /\ call' = call
      BY <1>8 DEF DumpCompletes, RemoveLock, vars
    <2> QED
      BY <2>1, ManifestFrame
  <1> QED
    BY <1>1, <1>2, <1>3, <1>4, <1>5, <1>6, <1>7, <1>8, NextCases DEF ToolStep

\* A triage that succeeded has a step of the manifest that did, whatever ran
\* beside it and whatever could not be recorded (_run_triage_sources).
THEOREM TriageRestsOnSteps == Spec => []TriageIsBacked
  <1>1. Init => Typed /\ ManifestInv
    BY TypedInit, ManifestInit
  <1>2. Typed /\ ManifestInv /\ [Next]_vars => (Typed /\ ManifestInv)'
    BY TypedStep, ManifestStep
  <1>3. ManifestInv => TriageIsBacked
    BY DEF ManifestInv
  <1> QED
    BY <1>1, <1>2, <1>3, PTL DEF Spec

\* An introspect step that succeeded is of a script that ran on the right core:
\* the table of failure statuses has every other end of the wrapper (result.py).
THEOREM IntrospectSuccessRan == Spec => []SucceededRan
  <1>1. Init => Typed /\ ManifestInv
    BY TypedInit, ManifestInit
  <1>2. Typed /\ ManifestInv /\ [Next]_vars => (Typed /\ ManifestInv)'
    BY TypedStep, ManifestStep
  <1>3. ManifestInv => SucceededRan
    BY DEF ManifestInv
  <1> QED
    BY <1>1, <1>2, <1>3, PTL DEF Spec

-----------------------------------------------------------------------------
(* The budget                                                               *)

BudgetKinds == {"crash", "introspect"}

\* The calls of a kind that were counted before their own step is there.
Running(kind) == {c \in Callers : call[c].pc = "run" /\ KindOf(Head(call[c].todo)) = kind}

BudgetInv ==
    /\ IsFiniteSet(steps)
    /\ \A kind \in BudgetKinds :
          Recorded(kind) + Cardinality(Running(kind)) <= MaxCalls + Cardinality(Callers) - 1

\* There are at most as many running calls as callers.
LEMMA RunningFinite ==
    ASSUME NEW kind
    PROVE  /\ IsFiniteSet(Running(kind)) /\ Cardinality(Running(kind)) \in Nat
           /\ Cardinality(Running(kind)) <= Cardinality(Callers)
  <1>1. Running(kind) \subseteq Callers
    BY DEF Running
  <1> QED
    BY <1>1, PostmortemAssumption, FS_Subset, FS_CardinalityType

\* The steps of one kind can be counted.
LEMMA RecordedFinite ==
    ASSUME IsFiniteSet(steps), NEW kind
    PROVE  IsFiniteSet({s \in steps : s.kind = kind}) /\ Recorded(kind) \in Nat
  <1>1. {s \in steps : s.kind = kind} \subseteq steps
    OBVIOUS
  <1> QED
    BY <1>1, FS_Subset, FS_CardinalityType DEF Recorded

\* There is a caller, and the budget is a number.
LEMMA CallersCounted == Cardinality(Callers) \in Nat /\ MaxCalls \in Nat /\ Cardinality(Callers) # 0
  BY PostmortemAssumption, FS_CardinalityType, FS_EmptySet

\* A step that records nothing and starts no sub-call takes nothing of the budget.
LEMMA BudgetFrame ==
    ASSUME BudgetInv, steps' = steps, \A kind \in BudgetKinds : Running(kind)' \subseteq Running(kind)
    PROVE  BudgetInv'
  <1>1. ASSUME NEW kind \in BudgetKinds
        PROVE  (Recorded(kind) + Cardinality(Running(kind)) <= MaxCalls + Cardinality(Callers) - 1)'
    <2>1. Cardinality(Running(kind)') <= Cardinality(Running(kind))
          /\ Cardinality(Running(kind)') \in Nat
      BY RunningFinite, FS_Subset, FS_CardinalityType
    <2>2. Recorded(kind)' = Recorded(kind) /\ Recorded(kind) \in Nat
      BY RecordedFinite DEF Recorded, BudgetInv
    <2>3. Cardinality(Running(kind)) \in Nat
      BY RunningFinite
    <2> QED
      BY <2>1, <2>2, <2>3, CallersCounted DEF BudgetInv
  <1> QED
    BY <1>1 DEF BudgetInv

\* A call whose record changes and that does not run after it.
LEMMA NotRunning ==
    ASSUME NEW c \in Callers, call'[c].pc # "run", \A d \in Callers \ {c} : call'[d] = call[d],
           NEW kind
    PROVE  Running(kind)' = Running(kind) \ {c}
  BY DEF Running

\* No step, no call.
LEMMA BudgetInit == Init => BudgetInv
  <1> SUFFICES ASSUME Init PROVE BudgetInv
    OBVIOUS
  <1>1. steps = {} /\ \A c \in Callers : call[c].pc = "idle"
    BY IdleTyped DEF Init
  <1>2. ASSUME NEW kind PROVE Running(kind) = {} /\ {s \in steps : s.kind = kind} = {}
    BY <1>1 DEF Running
  <1>3. \A kind : Recorded(kind) = 0 /\ Cardinality(Running(kind)) = 0
    BY <1>2, FS_EmptySet DEF Recorded
  <1> QED
    BY <1>1, <1>3, FS_EmptySet, CallersCounted DEF BudgetInv

\* A sub-call that ends moves from the running ones to the recorded ones, or is
\* lost to both; a triage step is of no kind with a budget.
LEMMA BudgetEnd ==
    ASSUME Typed, BudgetInv, NEW c \in Callers, SubEnd(c)
    PROVE  BudgetInv'
  <1> DEFINE k == KindOf(Head(call[c].todo))
  <1>1. call[c].pc = "run"
    BY DEF SubEnd, At
  <1>2. PICK o \in Outcomes(Head(call[c].todo)), recorded \in BOOLEAN, section \in BOOLEAN :
              /\ steps' = IF ~recorded THEN steps ELSE steps \cup {StepOf(c, o)}
              /\ SubAnswered(c, section, {call[c].id})
              /\ {call[c].id} \in SUBSET (1..MaxIds)
    BY SubEndEffect
  <1>3. (\A d \in Callers \ {c} : call'[d] = call[d]) /\ call'[c].pc # "run"
    BY <1>1, <1>2, AnsweredFrame
  <1>4. \A kind : Running(kind)' = Running(kind) \ {c}
    BY <1>3, NotRunning
  <1>5. CASE ~recorded
    BY <1>2, <1>4, <1>5, BudgetFrame
  <1>6. CASE recorded
    <2> DEFINE t == StepOf(c, o)
    <2>1. t.kind = k
      BY DEF StepOf
    <2> HIDE DEF t, k
    <2>2. steps' = steps \cup {t} /\ IsFiniteSet(steps)
      BY <1>2, <1>6 DEF BudgetInv, t
    <2>3. IsFiniteSet(steps')
      BY <2>2, FS_AddElement
    <2>4. ASSUME NEW kind \in BudgetKinds
          PROVE  (Recorded(kind) + Cardinality(Running(kind)) <= MaxCalls + Cardinality(Callers) - 1)'
      <3> DEFINE S == {s \in steps : s.kind = kind}
                 R == Running(kind)
      <3>1. IsFiniteSet(S) /\ Cardinality(S) \in Nat /\ Cardinality(S) = Recorded(kind)
        BY <2>2, RecordedFinite DEF Recorded
      <3>2. IsFiniteSet(R) /\ Cardinality(R) \in Nat
        BY RunningFinite
      <3>3. Cardinality(S) + Cardinality(R) <= MaxCalls + Cardinality(Callers) - 1
        BY <3>1 DEF BudgetInv
      <3>4. CASE kind # k
        <4>1. {s \in steps' : s.kind = kind} = S
          BY <2>1, <2>2, <3>4
        <4>2. R \ {c} = R
          BY <3>4 DEF Running, k
        <4> QED
          BY <1>4, <3>3, <4>1, <4>2 DEF Recorded
      <3>5. CASE kind = k
        <4>1. {s \in steps' : s.kind = kind} = S \cup {t}
          BY <2>1, <2>2, <3>5
        <4>2. Cardinality(S \cup {t}) <= Cardinality(S) + 1 /\ Cardinality(S \cup {t}) \in Nat
          <5>1. IsFiniteSet(S \cup {t}) /\ (Cardinality(S \cup {t}) = Cardinality(S)
                                           \/ Cardinality(S \cup {t}) = Cardinality(S) + 1)
            BY <3>1, FS_AddElement
          <5> HIDE DEF S
          <5> QED
            BY <3>1, <5>1, FS_CardinalityType
        <4>3. c \in R
          BY <1>1, <3>5 DEF Running, k
        <4>4. Cardinality(R \ {c}) = Cardinality(R) - 1
          BY <3>2, <4>3, FS_RemoveElement
        <4>5. Recorded(kind)' = Cardinality(S \cup {t})
                /\ Cardinality(Running(kind))' = Cardinality(R) - 1
          BY <1>4, <4>1, <4>4 DEF Recorded
        <4> HIDE DEF S, R
        <4>6. Cardinality(Callers)' = Cardinality(Callers)
          OBVIOUS
        <4> QED
          BY <3>1, <3>2, <3>3, <4>2, <4>5, CallersCounted
      <3> QED
        BY <3>4, <3>5
    <2> QED
      BY <2>3, <2>4 DEF BudgetInv
  <1> QED
    BY <1>5, <1>6

\* SubBegin adds a running call below the budget; the others add none.
LEMMA BudgetStep ==
    ASSUME Typed, BudgetInv, [Next]_vars
    PROVE  BudgetInv'
  <1>a. call \in [Callers -> CallRecords]
    BY DEF Typed, CallsTyped
  <1>1. ASSUME NEW c \in Callers,
               \/ \E force \in BOOLEAN : FetchBegin(c, force)
               \/ FetchAdmit(c) \/ FetchClear(c) \/ StageFile(c) \/ FetchRecord(c)
        PROVE  BudgetInv'
    <2>1. /\ steps' = steps /\ call'[c].pc # "run"
          /\ \A d \in Callers \ {c} : call'[d] = call[d]
      BY <1>1, FetchStepFrame DEF FetchPcs
    <2> QED
      BY <2>1, NotRunning, BudgetFrame
  <1>2. ASSUME NEW c \in Callers, SubBegin(c)
        PROVE  BudgetInv'
    <2> DEFINE r == [call[c] EXCEPT !.pc = "run", !.id = ids + 1]
               k == KindOf(Head(call[c].todo))
    <2>1. call[c].pc = "sub" /\ call[c] \in ToolCalls /\ steps' = steps /\ Recorded(k) < MaxCalls
      BY <1>2, CallShape DEF SubBegin, At, Typed, WithinBudget
    <2>2. call' = [call EXCEPT ![c] = r] /\ r.pc = "run" /\ r.todo = call[c].todo
      BY <1>2, <2>1 DEF SubBegin, ToolCalls
    <2> HIDE DEF r, k
    <2>3. call'[c] = r /\ \A d \in Callers : d # c => call'[d] = call[d]
      BY <1>a, <2>2
    <2>4. \A kind : kind # k => Running(kind)' = Running(kind)
      BY <2>1, <2>2, <2>3 DEF Running, k
    <2>5. ASSUME NEW kind \in BudgetKinds
          PROVE  (Recorded(kind) + Cardinality(Running(kind)) <= MaxCalls + Cardinality(Callers) - 1)'
      <3>1. Recorded(kind)' = Recorded(kind)
        BY <2>1 DEF Recorded
      <3>2. CASE kind # k
        <4>1. Cardinality(Running(kind))' = Cardinality(Running(kind))
          BY <2>4, <3>2
        <4> QED
          BY <3>1, <4>1 DEF BudgetInv
      <3>3. CASE kind = k
        <4>1. Running(kind)' \subseteq Callers
          BY DEF Running
        <4>2. Cardinality(Running(kind)') <= Cardinality(Callers)
                /\ Cardinality(Running(kind)') \in Nat
          BY <4>1, PostmortemAssumption, FS_Subset, FS_CardinalityType
        <4>3. Recorded(kind) \in Nat /\ Recorded(kind) < MaxCalls
          BY <2>1, <3>3, RecordedFinite DEF BudgetInv
        <4> QED
          BY <3>1, <4>2, <4>3, CallersCounted
      <3> QED
        BY <3>2, <3>3
    <2> QED
      BY <2>1, <2>5 DEF BudgetInv
  <1>3. ASSUME NEW c \in Callers, SubRefused(c)
        PROVE  BudgetInv'
    <2>1. steps' = steps /\ call[c].pc = "sub"
      BY <1>3 DEF SubRefused, At
    <2>2. call'[c].pc # "run" /\ \A d \in Callers \ {c} : call'[d] = call[d]
      BY <1>3, <2>1, AnsweredFrame DEF SubRefused
    <2> QED
      BY <2>1, <2>2, NotRunning, BudgetFrame
  <1>4. ASSUME NEW c \in Callers, SubEnd(c)
        PROVE  BudgetInv'
    BY <1>4, BudgetEnd
  <1>5. ASSUME NEW c \in Callers, Report(c)
        PROVE  BudgetInv'
    <2> DEFINE t == [kind |-> "triage", id |-> ids + 1,
                     status |-> IF call[c].ok THEN "succeeded" ELSE "failed",
                     sub |-> "triage", end |-> "ran", from |-> call[c].from]
    <2>1. call[c].pc = "report" /\ call'[c].pc = "idle" /\ \A d \in Callers \ {c} : call'[d] = call[d]
      BY <1>5, <1>a, IdleTyped DEF Report, At, End
    <2>2. \A kind : Running(kind)' = Running(kind)
      BY <2>1 DEF Running
    <2>3. (steps' = steps \cup {t} \/ steps' = steps) /\ t.kind = "triage"
      BY <1>5 DEF Report
    <2> HIDE DEF t
    <2>4. IsFiniteSet(steps')
      BY <2>3, FS_AddElement DEF BudgetInv
    <2>5. ASSUME NEW kind \in BudgetKinds
          PROVE  {s \in steps' : s.kind = kind} = {s \in steps : s.kind = kind}
      BY <2>3 DEF BudgetKinds
    <2>6. ASSUME NEW kind \in BudgetKinds
          PROVE  Recorded(kind)' = Recorded(kind)
                   /\ Cardinality(Running(kind))' = Cardinality(Running(kind))
      BY <2>2, <2>5 DEF Recorded
    <2> QED
      BY <2>4, <2>6 DEF BudgetInv
  <1>6. CASE ServerDies
    <2>1. steps' = steps /\ \A d \in Callers : call'[d].pc = "idle"
      BY <1>6, IdleTyped DEF ServerDies
    <2>2. \A kind : Running(kind)' \subseteq Running(kind)
      BY <2>1 DEF Running
    <2> QED
      BY <2>1, <2>2, BudgetFrame
  <1>7. CASE DumpCompletes \/ RemoveLock \/ UNCHANGED vars
    <2>1. steps' = steps /\ call' = call
      BY <1>7 DEF DumpCompletes, RemoveLock, vars
    <2>2. \A kind : Running(kind)' \subseteq Running(kind)
      BY <2>1 DEF Running
    <2> QED
      BY <2>1, <2>2, BudgetFrame
  <1>8. ASSUME NEW c \in Callers, NEW todo, NEW triage, CallBegin(c, todo, triage)
        PROVE  BudgetInv'
    <2>1. /\ steps' = steps /\ call'[c].pc # "run"
          /\ \A d \in Callers \ {c} : call'[d] = call[d]
      BY <1>8, <1>a DEF CallBegin
    <2> QED
      BY <2>1, NotRunning, BudgetFrame
  <1> QED
    BY <1>1, <1>2, <1>3, <1>4, <1>5, <1>6, <1>7, <1>8, NextCases DEF ToolStep

\* The budget is overrun by at most one step for each other call in progress, for
\* any number of callers and any budget (debug_postmortem_crash_handler).
THEOREM BudgetOverrunBounded == Spec => []BudgetBound
  <1>1. Init => Typed /\ BudgetInv
    BY TypedInit, BudgetInit
  <1>2. Typed /\ BudgetInv /\ [Next]_vars => (Typed /\ BudgetInv)'
    BY TypedStep, BudgetStep
  <1>3. BudgetInv => BudgetBound
    <2> SUFFICES ASSUME BudgetInv, NEW kind \in BudgetKinds
                 PROVE  Recorded(kind) <= MaxCalls + Cardinality(Callers) - 1
      BY DEF BudgetBound, BudgetKinds
    <2>1. Recorded(kind) \in Nat /\ Cardinality(Running(kind)) \in Nat
      BY RecordedFinite, RunningFinite DEF BudgetInv
    <2> QED
      BY <2>1, CallersCounted DEF BudgetInv
  <1> QED
    BY <1>1, <1>2, <1>3, PTL DEF Spec

=============================================================================
