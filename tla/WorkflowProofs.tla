-------------------------- MODULE WorkflowProofs --------------------------
(***************************************************************************)
(* What target.boot reports of the domain is true of the domain, and what  *)
(* a test workflow bundles are the results of its own boot and tests, for  *)
(* every number of runs, of concurrent callers, of boots and of tests, and *)
(* over crashes of the server and everything the guest and the operator do *)
(* meanwhile.                                                              *)
(*                                                                         *)
(* The argument: a boot in progress holds the lock of the domain, so there *)
(* is one at a time and it is the latest of all boots; it stops what ran   *)
(* before and empties the console log before its own kernel can print, so  *)
(* a marker in the log of its attempt is its own.                          *)
(***************************************************************************)
EXTENDS Workflow, SequenceTheorems, TLAPS

-----------------------------------------------------------------------------
(* The boot                                                                 *)

Points == ProviderPoints \cup {"cleanup", "record"}

\* Before the domain of this boot can have been started.
Unstarted == {"prepare", "reconcile", "destroy", "define", "start"}

BootedCalls == [pc : {"booted"}, run : Runs, res : {"succeeded", "failed"},
                why : {"recorded", "refused", "port"}, of : 0..MaxBoots]

\* Why a boot in progress failed, as far as the console tells.
Reasons == {"none", "exited", "presumed"}

BootCalls == [pc : Points, run : Runs, boot : BootIds, res : {"succeeded", "failed"},
              why : Reasons, unclean : BOOLEAN]

InBoot(c) == call[c].pc \in Points

\* The types, as BootTypeOK has them, and no number beyond the boots there were.
BootTyped ==
    /\ dom \in 0..Len(boots) \cup {Alien}
    /\ vm \in [boot : 0..Len(boots) \cup {Alien}, log : Dirs \cup {<<>>}]
    /\ console \in [Dirs -> SUBSET ready]
    /\ ready \subseteq 1..Len(boots)
    /\ boots \in Seq([run : Runs, attempt : BootIds, wait : BOOLEAN])
    /\ Len(boots) <= MaxBoots
    /\ step \in [Runs -> [status : {"none", "running", "succeeded", "failed"}, id : 0..Len(boots)]]
    /\ attempts \in [Runs -> 0..Len(boots)]
    /\ locks \in [Runs \cup {Domain} -> Callers \cup {Free, Orphan}]
    /\ call \in [Callers -> {Idle} \cup BootedCalls \cup BootCalls]

\* The recorded success of a run is its latest boot and has an attempt.
RecordOk ==
    \A r \in Runs : step[r].status = "succeeded" =>
        /\ step[r].id # 0
        /\ boots[step[r].id].run = r
        /\ boots[step[r].id].attempt <= attempts[r]
        /\ \A b \in DOMAIN boots : boots[b].run = r => b <= step[r].id

\* The directory of a boot.
DirIn(B, b) == <<B[b].run, B[b].attempt>>

\* A boot x in progress for caller c is the latest of all boots B, under both its
\* locks in L, and recorded in S as running, with the next of the attempts A.
Latest(c, x, L, S, A, B) ==
    /\ L[Domain] = c /\ L[x.run] = c
    /\ x.boot = Len(B)
    /\ B[x.boot].run = x.run
    /\ B[x.boot].attempt = A[x.run] + 1
    /\ A[x.run] < Len(B)
    /\ S[x.run].status = "running" /\ S[x.run].id = x.boot

\* What the boot x knows of the domain D, of the QEMU V that runs, of the console
\* logs K and of the kernels R that came up.
Progress(x, D, V, K, R, B) ==
    /\ x.pc \in Unstarted => x.boot \notin R /\ V.boot # x.boot
    /\ x.pc \in {"destroy", "define"} => D # Alien
    /\ x.pc \in {"start", "stream", "probe", "cleanup"} => D = x.boot
    /\ x.pc \in {"stream", "probe"} =>
         /\ V.boot # 0 => V.boot = x.boot /\ V.log = DirIn(B, x.boot)
         /\ K[DirIn(B, x.boot)] \subseteq {x.boot}
         /\ x.boot \in R => x.boot \in K[DirIn(B, x.boot)]
    /\ x.res = "succeeded" =>
         /\ x.pc \in {"finish", "record"}
         /\ D = x.boot
         /\ x.boot \in R \/ B[x.boot].wait
    /\ x.pc \in {"finish", "record"} /\ x.res = "failed" /\ x.run \in Stops /\ ~x.unclean
         => V.boot # x.boot
    /\ x.why # "none" => x.pc \in {"cleanup", "finish", "record"}
    /\ x.why = "exited" => x.boot \notin R /\ V.boot # x.boot

\* An answer is of a boot that is recorded.
AnswerOk(c) ==
    call[c].pc = "booted" /\ call[c].of # 0 =>
        call[c].of <= Len(boots) /\ boots[call[c].of].attempt <= attempts[call[c].run]

BootInv ==
    /\ BootTyped
    /\ RecordOk
    /\ \A c \in Callers : InBoot(c) =>
         /\ Latest(c, call[c], locks, step, attempts, boots)
         /\ Progress(call[c], dom, vm, console, ready, boots)
    /\ \A c \in Callers : AnswerOk(c)

-----------------------------------------------------------------------------
(* What a boot carries                                                      *)

\* Only a boot in progress carries a record with the points of a boot.
LEMMA InBootTyped ==
    ASSUME BootInv, NEW c \in Callers, InBoot(c)
    PROVE  /\ call[c] \in BootCalls /\ Latest(c, call[c], locks, step, attempts, boots)
           /\ Progress(call[c], dom, vm, console, ready, boots)
PROOF
  <1>1. Idle.pc \notin Points
    BY DEF Idle, Points, ProviderPoints
  <1>2. ASSUME NEW y \in BootedCalls PROVE y.pc \notin Points
    BY DEF BootedCalls, Points, ProviderPoints
  <1>3. call[c] \in {Idle} \cup BootedCalls \cup BootCalls
    BY DEF BootInv, BootTyped
  <1> QED BY <1>1, <1>2, <1>3 DEF BootInv, InBoot

\* The fields of a boot in progress, and its directory.
LEMMA BootFields ==
    ASSUME BootInv, NEW c \in Callers, NEW x \in BootCalls,
           Latest(c, x, locks, step, attempts, boots)
    PROVE  /\ x.pc \in Points /\ x.run \in Runs /\ x.boot \in BootIds
           /\ x.res \in {"succeeded", "failed"} /\ x.why \in Reasons
           /\ x.unclean \in BOOLEAN
           /\ x.boot = Len(boots) /\ x.boot \in 1..Len(boots) /\ Len(boots) \in Nat
           /\ DirOf(x.boot) \in Dirs /\ DirOf(x.boot) = DirIn(boots, x.boot)
PROOF
  <1>1. /\ x.pc \in Points /\ x.run \in Runs /\ x.boot \in BootIds
        /\ x.res \in {"succeeded", "failed"} /\ x.why \in Reasons
        /\ x.unclean \in BOOLEAN
    BY DEF BootCalls
  <1>2. x.boot = Len(boots) /\ Len(boots) \in Nat
        /\ boots \in Seq([run : Runs, attempt : BootIds, wait : BOOLEAN])
    BY LenProperties DEF Latest, BootInv, BootTyped
  <1>3. x.boot \in 1..Len(boots)
    BY <1>1, <1>2, BootAssumption DEF BootIds
  <1>4. boots[x.boot] \in [run : Runs, attempt : BootIds, wait : BOOLEAN]
    BY <1>2, <1>3, ElementOfSeq
  <1>5. DirOf(x.boot) \in Dirs /\ DirOf(x.boot) = DirIn(boots, x.boot)
    BY <1>4 DEF DirOf, DirIn, Dirs
  <1> QED BY <1>1, <1>2, <1>3, <1>5

\* The lock of the domain keeps boots apart.
LEMMA OneBoot ==
    ASSUME BootInv, NEW c \in Callers, NEW d \in Callers, InBoot(c), InBoot(d)
    PROVE  c = d
PROOF BY InBootTyped DEF Latest

\* The record of a boot that went on.
Moved(x, pc, res, why, unclean) ==
    [pc |-> pc, run |-> x.run, boot |-> x.boot, res |-> res, why |-> why, unclean |-> unclean]

\* Its fields.
LEMMA MovedTyped ==
    ASSUME NEW x \in BootCalls, NEW pc \in Points, NEW res \in {"succeeded", "failed"},
           NEW why \in Reasons, NEW unclean \in BOOLEAN
    PROVE  /\ Moved(x, pc, res, why, unclean) \in BootCalls
           /\ Moved(x, pc, res, why, unclean).pc = pc
           /\ Moved(x, pc, res, why, unclean).run = x.run
           /\ Moved(x, pc, res, why, unclean).boot = x.boot
           /\ Moved(x, pc, res, why, unclean).res = res
           /\ Moved(x, pc, res, why, unclean).why = why
           /\ Moved(x, pc, res, why, unclean).unclean = unclean
PROOF BY DEF BootCalls, Moved

\* What the assignments of the handlers make of the record: it goes on,
LEMMA MovesOn ==
    ASSUME NEW x \in BootCalls, NEW pc
    PROVE  [x EXCEPT !.pc = pc] = Moved(x, pc, x.res, x.why, x.unclean)
PROOF BY DEF BootCalls, Moved

\* with a reason,
LEMMA MovesWhy ==
    ASSUME NEW x \in BootCalls, NEW pc, NEW why
    PROVE  [x EXCEPT !.pc = pc, !.why = why] = Moved(x, pc, x.res, why, x.unclean)
PROOF
  <1>1. [Moved(x, pc, x.res, x.why, x.unclean) EXCEPT !.why = why]
           = Moved(x, pc, x.res, why, x.unclean)
    BY DEF Moved
  <1> QED BY <1>1, MovesOn

\* with a result,
LEMMA MovesRes ==
    ASSUME NEW x \in BootCalls, NEW pc, NEW res
    PROVE  [x EXCEPT !.pc = pc, !.res = res] = Moved(x, pc, res, x.why, x.unclean)
PROOF
  <1>1. [Moved(x, pc, x.res, x.why, x.unclean) EXCEPT !.res = res]
           = Moved(x, pc, res, x.why, x.unclean)
    BY DEF Moved
  <1> QED BY <1>1, MovesOn

\* or with what was not cleaned up.
LEMMA MovesUnclean ==
    ASSUME NEW x \in BootCalls, NEW pc, NEW unclean
    PROVE  [x EXCEPT !.pc = pc, !.unclean = unclean] = Moved(x, pc, x.res, x.why, unclean)
PROOF
  <1>1. [Moved(x, pc, x.res, x.why, x.unclean) EXCEPT !.unclean = unclean]
           = Moved(x, pc, x.res, x.why, unclean)
    BY DEF Moved
  <1> QED BY <1>1, MovesOn

\* A step of a boot that leaves the locks and the manifest alone keeps the
\* invariant, if what it then knows is true.
LEMMA BootMoved ==
    ASSUME BootInv, NEW c \in Callers, InBoot(c), NEW y \in BootCalls,
           call' = [call EXCEPT ![c] = y], y.run = call[c].run, y.boot = call[c].boot,
           boots' = boots, step' = step, attempts' = attempts, locks' = locks, ready' = ready,
           dom' \in 0..Len(boots) \cup {Alien},
           vm' \in [boot : 0..Len(boots) \cup {Alien}, log : Dirs \cup {<<>>}],
           console' \in [Dirs -> SUBSET ready],
           Progress(y, dom', vm', console', ready, boots)
    PROVE  BootInv'
PROOF
  <1>1. /\ call' \in [Callers -> {Idle} \cup BootedCalls \cup BootCalls] /\ call'[c] = y
        /\ \A d \in Callers : d # c => call'[d] = call[d]
    BY DEF BootInv, BootTyped
  <1>2. BootTyped'
    BY <1>1 DEF BootInv, BootTyped
  <1>3. RecordOk'
    BY DEF BootInv, RecordOk
  <1>4. Latest(c, call'[c], locks', step', attempts', boots')
    BY <1>1, InBootTyped DEF Latest
  <1>5. Progress(call'[c], dom', vm', console', ready', boots')
    BY <1>1
  <1>6. ASSUME NEW d \in Callers, d # c PROVE call'[d].pc \notin Points
    BY <1>1, <1>6, OneBoot DEF InBoot
  <1>7. ASSUME NEW d \in Callers PROVE AnswerOk(d)'
    <2>1. CASE d = c
      <3>1. y.pc \in Points
        BY DEF BootCalls
      <3> QED BY <1>1, <2>1, <3>1 DEF AnswerOk, Points, ProviderPoints
    <2>2. CASE d # c
      BY <1>1, <2>2 DEF BootInv, AnswerOk
    <2> QED BY <2>1, <2>2
  <1> QED BY <1>2, <1>3, <1>4, <1>5, <1>6, <1>7 DEF BootInv, InBoot

\* The state around a boot in progress.
LEMMA BootState ==
    ASSUME BootInv, NEW c \in Callers, InBoot(c)
    PROVE  /\ call[c] \in BootCalls /\ Progress(call[c], dom, vm, console, ready, boots)
           /\ call[c].res \in {"succeeded", "failed"} /\ call[c].why \in Reasons
           /\ call[c].unclean \in BOOLEAN /\ call[c].run \in Runs
           /\ call[c].boot \in BootIds /\ call[c].boot \in 0..Len(boots)
           /\ call[c].boot # 0 /\ call[c].boot # Alien
           /\ DirOf(call[c].boot) \in Dirs /\ DirOf(call[c].boot) = DirIn(boots, call[c].boot)
           /\ dom \in 0..Len(boots) \cup {Alien}
           /\ vm \in [boot : 0..Len(boots) \cup {Alien}, log : Dirs \cup {<<>>}]
           /\ NoVm \in [boot : 0..Len(boots) \cup {Alien}, log : Dirs \cup {<<>>}]
           /\ NoVm.boot = 0
           /\ console \in [Dirs -> SUBSET ready] /\ console \in [Dirs -> SUBSET ready]
PROOF
  <1>1. call[c] \in BootCalls /\ Progress(call[c], dom, vm, console, ready, boots)
        /\ Latest(c, call[c], locks, step, attempts, boots)
    BY InBootTyped
  <1>2. /\ call[c].boot \in BootIds /\ call[c].boot \in 1..Len(boots) /\ Len(boots) \in Nat
        /\ call[c].res \in {"succeeded", "failed"} /\ call[c].why \in Reasons
        /\ call[c].unclean \in BOOLEAN /\ call[c].run \in Runs
        /\ DirOf(call[c].boot) \in Dirs /\ DirOf(call[c].boot) = DirIn(boots, call[c].boot)
    BY <1>1, BootFields
  <1>3. call[c].boot \in 0..Len(boots) /\ call[c].boot # 0 /\ call[c].boot # Alien
    BY <1>2, BootAssumption DEF BootIds
  <1>4. 0 \in 0..Len(boots)
    BY <1>2
  <1> QED BY <1>1, <1>2, <1>3, <1>4 DEF BootInv, BootTyped, NoVm

\* A step that only moves a boot on.
LEMMA BootGoes ==
    ASSUME BootInv, NEW c \in Callers, InBoot(c), NEW pc \in Points,
           NEW res \in {"succeeded", "failed"}, NEW why \in Reasons,
           NEW unclean \in BOOLEAN,
           call' = [call EXCEPT ![c] = Moved(call[c], pc, res, why, unclean)],
           UNCHANGED <<boots, step, attempts, locks, ready>>,
           dom' \in 0..Len(boots) \cup {Alien},
           vm' \in [boot : 0..Len(boots) \cup {Alien}, log : Dirs \cup {<<>>}],
           console' \in [Dirs -> SUBSET ready],
           Progress(Moved(call[c], pc, res, why, unclean), dom', vm', console', ready, boots)
    PROVE  BootInv'
PROOF
  <1> DEFINE y == Moved(call[c], pc, res, why, unclean)
  <1>1. y \in BootCalls /\ y.run = call[c].run /\ y.boot = call[c].boot
    BY BootState, MovedTyped
  <1> HIDE DEF y
  <1>2. call' = [call EXCEPT ![c] = y] /\ Progress(y, dom', vm', console', ready, boots)
    BY DEF y
  <1> QED BY <1>1, <1>2, BootMoved

\* A command of the provider fails, and the boot is summed up as it is.
LEMMA BootFails ==
    ASSUME BootInv, NEW c \in Callers, Fails(c),
           call[c].pc \in {"prepare", "reconcile", "destroy", "define"},
           UNCHANGED <<console, boots, step, attempts, locks, ready>>,
           dom' \in {dom, call[c].boot}, vm' \in {vm, NoVm}
    PROVE  BootInv'
PROOF
  <1> DEFINE x == call[c]
             y == Moved(x, "finish", x.res, x.why, x.unclean)
  <1>0. InBoot(c)
    BY DEF InBoot, Points, ProviderPoints
  <1>1. x \in BootCalls /\ Progress(x, dom, vm, console, ready, boots) /\ x.boot # 0
        /\ x.pc \in {"prepare", "reconcile", "destroy", "define"}
    BY <1>0, BootState
  <1>2. y.pc = "finish" /\ y.run = x.run /\ y.boot = x.boot /\ y.res = x.res /\ y.why = x.why
    BY DEF Moved
  <1>3. call' = [call EXCEPT ![c] = y]
    BY <1>1, MovesOn DEF Fails, Goto
  <1>4. vm' = vm \/ vm'.boot = 0
    BY DEF NoVm
  <1> HIDE DEF x, y
  <1>5. Progress(y, dom', vm', console', ready, boots)
    BY <1>1, <1>2, <1>4 DEF Progress, Unstarted
  <1>6. "finish" \in Points
    BY DEF Points, ProviderPoints
  <1> USE DEF x, y
  <1> QED BY <1>0, <1>3, <1>5, <1>6, BootState, BootGoes

\* The old console log goes before anything is started.
LEMMA BootPrepare ==
    ASSUME BootInv, NEW c \in Callers, Prepare(c)
    PROVE  BootInv'
PROOF
  <1> DEFINE x == call[c]
             y == Moved(x, "reconcile", x.res, x.why, x.unclean)
  <1>0. InBoot(c) /\ x.pc = "prepare"
    BY DEF Prepare, At, InBoot, Points, ProviderPoints
  <1>1. CASE Fails(c) /\ UNCHANGED <<vm, console>>
    BY <1>0, <1>1, BootFails DEF Prepare
  <1>2. CASE /\ console' = [console EXCEPT ![Dir(c)] = {}]
             /\ vm' = [vm EXCEPT !.log = IF @ = Dir(c) THEN <<>> ELSE @]
             /\ Goto(c, "reconcile")
    <2>1. x \in BootCalls /\ Progress(x, dom, vm, console, ready, boots)
      BY <1>0, BootState
    <2>2. y.pc = "reconcile" /\ y.run = x.run /\ y.boot = x.boot /\ y.res = x.res /\ y.why = x.why
      BY DEF Moved
    <2>3. call' = [call EXCEPT ![c] = y]
      BY <1>2, <2>1, MovesOn DEF Goto
    <2>4. /\ vm' \in [boot : 0..Len(boots) \cup {Alien}, log : Dirs \cup {<<>>}]
          /\ vm'.boot = vm.boot
      BY <1>0, <1>2, BootState
    <2>5. console' \in [Dirs -> SUBSET ready]
      BY <1>0, <1>2, BootState
    <2> HIDE DEF x, y
    <2>6. Progress(y, dom', vm', console', ready, boots)
      BY <1>0, <2>1, <2>2, <2>4 DEF Progress, Unstarted, Prepare
    <2>7. "reconcile" \in Points
      BY DEF Points, ProviderPoints
    <2> USE DEF x, y
    <2> QED BY <1>0, <2>3, <2>4, <2>5, <2>6, <2>7, BootState, BootGoes DEF Prepare
  <1> QED BY <1>1, <1>2 DEF Prepare

\* A domain of somebody else is not destroyed.
LEMMA BootReconcile ==
    ASSUME BootInv, NEW c \in Callers, Reconcile(c)
    PROVE  BootInv'
PROOF
  <1> DEFINE x == call[c]
  <1>0. InBoot(c) /\ x.pc = "reconcile" /\ UNCHANGED <<dom, vm, console, ready, boots, step, attempts, locks>>
    BY DEF Reconcile, At, InBoot, Points, ProviderPoints
  <1>1. CASE Fails(c)
    BY <1>0, <1>1, BootFails
  <1>2. ASSUME NEW pc \in {"define", "destroy"}, Goto(c, pc), dom # Alien PROVE BootInv'
    <2> DEFINE y == Moved(x, pc, x.res, x.why, x.unclean)
    <2>1. x \in BootCalls /\ Progress(x, dom, vm, console, ready, boots)
      BY <1>0, BootState
    <2>2. y.pc = pc /\ y.run = x.run /\ y.boot = x.boot /\ y.res = x.res /\ y.why = x.why
      BY DEF Moved
    <2>3. call' = [call EXCEPT ![c] = y]
      BY <1>2, <2>1, MovesOn DEF Goto
    <2> HIDE DEF x, y
    <2>4. Progress(y, dom', vm', console', ready, boots)
      BY <1>0, <1>2, <2>1, <2>2 DEF Progress, Unstarted
    <2>5. pc \in Points
      BY DEF Points, ProviderPoints
    <2>6. /\ dom' \in 0..Len(boots) \cup {Alien}
          /\ vm' \in [boot : 0..Len(boots) \cup {Alien}, log : Dirs \cup {<<>>}]
          /\ console' \in [Dirs -> SUBSET ready]
      BY <1>0, BootState
    <2>7. x.res \in {"succeeded", "failed"} /\ x.why \in Reasons /\ x.unclean \in BOOLEAN
      BY <1>0, BootState DEF x
    <2> USE DEF x, y
    <2> QED BY <1>0, <2>3, <2>4, <2>5, <2>6, <2>7, BootGoes
  <1>3. dom = 0 => dom # Alien
    BY BootAssumption
  <1>4. Owned => dom # Alien
    BY BootAssumption DEF Owned, BootIds
  <1> QED BY <1>1, <1>2, <1>3, <1>4 DEF Reconcile

\* What ran before is stopped.
LEMMA BootDestroy ==
    ASSUME BootInv, NEW c \in Callers, Destroy(c)
    PROVE  BootInv'
PROOF
  <1> DEFINE x == call[c]
             y == Moved(x, "define", x.res, x.why, x.unclean)
  <1>0. InBoot(c) /\ x.pc = "destroy" /\ UNCHANGED <<dom, console, ready, boots, step, attempts, locks>>
    BY DEF Destroy, At, InBoot, Points, ProviderPoints
  <1>1. CASE vm' \in {vm, NoVm} /\ Fails(c)
    BY <1>0, <1>1, BootFails
  <1>2. CASE vm' = NoVm /\ Goto(c, "define")
    <2>1. x \in BootCalls /\ Progress(x, dom, vm, console, ready, boots) /\ x.boot # 0
      BY <1>0, BootState
    <2>2. y.pc = "define" /\ y.run = x.run /\ y.boot = x.boot /\ y.res = x.res /\ y.why = x.why
      BY DEF Moved
    <2>3. call' = [call EXCEPT ![c] = y]
      BY <1>2, <2>1, MovesOn DEF Goto
    <2>4. vm'.boot = 0
      BY <1>2 DEF NoVm
    <2> HIDE DEF x, y
    <2>5. Progress(y, dom', vm', console', ready, boots)
      BY <1>0, <2>1, <2>2, <2>4 DEF Progress, Unstarted
    <2>6. "define" \in Points
      BY DEF Points, ProviderPoints
    <2>7. /\ dom' \in 0..Len(boots) \cup {Alien}
          /\ vm' \in [boot : 0..Len(boots) \cup {Alien}, log : Dirs \cup {<<>>}]
          /\ console' \in [Dirs -> SUBSET ready]
      BY <1>0, <1>2, BootState
    <2>8. x.res \in {"succeeded", "failed"} /\ x.why \in Reasons /\ x.unclean \in BOOLEAN
      BY <1>0, BootState DEF x
    <2> USE DEF x, y
    <2> QED BY <1>0, <2>3, <2>5, <2>6, <2>7, <2>8, BootGoes
  <1> QED BY <1>1, <1>2 DEF Destroy

\* From here on the domain has the definition of this boot.
LEMMA BootDefine ==
    ASSUME BootInv, NEW c \in Callers, Define(c)
    PROVE  BootInv'
PROOF
  <1> DEFINE x == call[c]
             y == Moved(x, "start", x.res, x.why, x.unclean)
  <1>0. InBoot(c) /\ x.pc = "define" /\ UNCHANGED <<vm, console, ready, boots, step, attempts, locks>>
    BY DEF Define, At, InBoot, Points, ProviderPoints
  <1>1. CASE dom' \in {dom, Boot(c)} /\ Fails(c)
    BY <1>0, <1>1, BootFails DEF Boot
  <1>2. CASE dom' = Boot(c) /\ Goto(c, "start")
    <2>1. x \in BootCalls /\ Progress(x, dom, vm, console, ready, boots) /\ dom' = x.boot
      BY <1>0, <1>2, BootState DEF Boot
    <2>2. y.pc = "start" /\ y.run = x.run /\ y.boot = x.boot /\ y.res = x.res /\ y.why = x.why
      BY DEF Moved
    <2>3. call' = [call EXCEPT ![c] = y]
      BY <1>2, <2>1, MovesOn DEF Goto
    <2> HIDE DEF x, y
    <2>4. Progress(y, dom', vm', console', ready, boots)
      BY <1>0, <2>1, <2>2 DEF Progress, Unstarted
    <2>5. "start" \in Points
      BY DEF Points, ProviderPoints
    <2> USE DEF x, y
    <2> QED BY <1>0, <2>1, <2>3, <2>4, <2>5, BootState, BootGoes
  <1> QED BY <1>1, <1>2 DEF Define

\* A step that moves a boot on and nothing else.
LEMMA BootTurns ==
    ASSUME BootInv, NEW c \in Callers, InBoot(c), NEW pc \in Points,
           NEW res \in {"succeeded", "failed"}, NEW why \in Reasons,
           NEW unclean \in BOOLEAN,
           call' = [call EXCEPT ![c] = Moved(call[c], pc, res, why, unclean)],
           UNCHANGED <<dom, vm, console, boots, step, attempts, locks, ready>>,
           Progress(Moved(call[c], pc, res, why, unclean), dom, vm, console, ready, boots)
    PROVE  BootInv'
PROOF
  <1>1. /\ dom' \in 0..Len(boots) \cup {Alien}
        /\ vm' \in [boot : 0..Len(boots) \cup {Alien}, log : Dirs \cup {<<>>}]
        /\ console' \in [Dirs -> SUBSET ready]
    BY BootState
  <1>2. Progress(Moved(call[c], pc, res, why, unclean), dom', vm', console', ready, boots)
    OBVIOUS
  <1> QED BY <1>1, <1>2, BootGoes

\* Where a boot that is not ready goes on.
LEMMA UnreadyMoves ==
    ASSUME BootInv, NEW c \in Callers, InBoot(c), NEW why \in Reasons,
           Unready(c, why), call[c].res = "failed"
    PROVE  /\ call' = [call EXCEPT ![c] = Moved(call[c], CleanupNext(c), "failed", why, call[c].unclean)]
           /\ CleanupNext(c) \in Points
           /\ \/ CleanupNext(c) = "cleanup" /\ call[c].run \in Stops
              \/ CleanupNext(c) = "finish" /\ call[c].run \notin Stops
PROOF
  <1>1. call[c] \in BootCalls
    BY BootState
  <1>2. [call[c] EXCEPT !.pc = CleanupNext(c), !.why = why]
           = Moved(call[c], CleanupNext(c), "failed", why, call[c].unclean)
    BY <1>1, MovesWhy
  <1>3. call' = [call EXCEPT ![c] = [call[c] EXCEPT !.pc = CleanupNext(c), !.why = why]]
    BY DEF Unready
  <1>4. \/ CleanupNext(c) = "cleanup" /\ call[c].run \in Stops
        \/ CleanupNext(c) = "finish" /\ call[c].run \notin Stops
    BY DEF CleanupNext, Run
  <1>5. CleanupNext(c) \in Points
    BY <1>4 DEF Points, ProviderPoints
  <1> QED BY <1>2, <1>3, <1>4, <1>5

\* QEMU starts with an empty log, or the boot ends before readiness.
LEMMA BootStarts ==
    ASSUME BootInv, NEW c \in Callers, StartDomain(c)
    PROVE  BootInv'
PROOF
  <1> DEFINE x == call[c]
  <1>0. /\ InBoot(c) /\ x.pc = "start"
        /\ dom' = dom /\ ready' = ready /\ boots' = boots /\ step' = step
        /\ attempts' = attempts /\ locks' = locks
    BY DEF StartDomain, At, InBoot, Points, ProviderPoints
  <1>1. /\ x \in BootCalls /\ Progress(x, dom, vm, console, ready, boots)
        /\ x.why \in Reasons /\ x.unclean \in BOOLEAN
        /\ x.res \in {"succeeded", "failed"}
        /\ DirOf(x.boot) \in Dirs /\ DirOf(x.boot) = DirIn(boots, x.boot)
        /\ x.boot # 0 /\ x.boot \in 0..Len(boots)
    BY <1>0, BootState
  <1>2. x.res = "failed" /\ dom = x.boot /\ x.boot \notin ready /\ vm.boot # x.boot /\ x.why = "none"
    BY <1>0, <1>1 DEF Progress, Unstarted
  <1>3. Started => /\ vm' = [boot |-> x.boot, log |-> DirOf(x.boot)]
                   /\ console' = [console EXCEPT ![DirOf(x.boot)] = {}]
    BY <1>2 DEF Started
  <1>4. Started \/ UNCHANGED <<vm, console>> =>
          /\ dom' \in 0..Len(boots) \cup {Alien}
          /\ vm' \in [boot : 0..Len(boots) \cup {Alien}, log : Dirs \cup {<<>>}]
          /\ console' \in [Dirs -> SUBSET ready]
    <2>1. /\ dom \in 0..Len(boots) \cup {Alien}
          /\ vm \in [boot : 0..Len(boots) \cup {Alien}, log : Dirs \cup {<<>>}]
          /\ console \in [Dirs -> SUBSET ready]
      BY <1>0, BootState
    <2> HIDE DEF x
    <2> QED BY <1>0, <1>1, <1>3, <2>1
  <1>5. CASE /\ Started
             /\ call' = [call EXCEPT ![c].pc = IF boots[Boot(c)].wait THEN "finish" ELSE "stream",
                                     ![c].res = IF boots[Boot(c)].wait THEN "succeeded" ELSE @]
    <2> DEFINE pc == IF boots[x.boot].wait THEN "finish" ELSE "stream"
               res == IF boots[x.boot].wait THEN "succeeded" ELSE "failed"
               y == Moved(x, pc, res, x.why, x.unclean)
    <2>1. call' = [call EXCEPT ![c] = [x EXCEPT !.pc = pc, !.res = res]]
      BY <1>2, <1>5 DEF Boot
    <2>2. pc \in Points /\ res \in {"succeeded", "failed"}
      BY DEF Points, ProviderPoints
    <2>3. [x EXCEPT !.pc = pc, !.res = res] = y
      <3> HIDE DEF x, pc, res
      <3> QED BY <1>1, MovesRes DEF y
    <2>4. y.pc = pc /\ y.run = x.run /\ y.boot = x.boot /\ y.res = res /\ y.why = x.why
      BY DEF Moved
    <2>5. vm'.boot = x.boot /\ vm'.log = DirIn(boots, x.boot) /\ console'[DirIn(boots, x.boot)] = {}
      <3>1. console \in [Dirs -> SUBSET ready]
        BY <1>0, BootState
      <3> HIDE DEF x
      <3> QED BY <1>1, <1>3, <1>5, <3>1
    <2>6. Progress(y, dom', vm', console', ready, boots)
      <3>1. (pc = "finish" /\ res = "succeeded" /\ boots[x.boot].wait) \/ (pc = "stream" /\ res = "failed")
        OBVIOUS
      <3> HIDE DEF x, y, pc, res
      <3> QED BY <1>0, <1>2, <2>4, <2>5, <3>1 DEF Progress, Unstarted
    <2>7. call' = [call EXCEPT ![c] = Moved(call[c], pc, res, call[c].why, call[c].unclean)]
      BY <2>1, <2>3
    <2>8. Progress(Moved(call[c], pc, res, call[c].why, call[c].unclean), dom', vm', console', ready, boots)
      BY <2>6
    <2>9. /\ dom' \in 0..Len(boots) \cup {Alien}
          /\ vm' \in [boot : 0..Len(boots) \cup {Alien}, log : Dirs \cup {<<>>}]
          /\ console' \in [Dirs -> SUBSET ready]
      BY <1>4, <1>5
    <2> HIDE DEF pc, res, y
    <2> QED BY <1>0, <1>1, <2>2, <2>7, <2>8, <2>9, BootGoes
  <1>6. CASE (Started \/ UNCHANGED <<vm, console>>) /\ Unready(c, "none")
    <2> DEFINE pc == CleanupNext(c)
               y == Moved(x, pc, "failed", "none", x.unclean)
    <2>1. /\ call' = [call EXCEPT ![c] = Moved(call[c], pc, "failed", "none", call[c].unclean)]
          /\ pc \in Points
          /\ (pc = "cleanup" /\ x.run \in Stops) \/ (pc = "finish" /\ x.run \notin Stops)
      BY <1>0, <1>2, <1>6, UnreadyMoves DEF Reasons
    <2>2. y.pc = pc /\ y.run = x.run /\ y.boot = x.boot /\ y.res = "failed" /\ y.why = "none"
      BY DEF Moved
    <2>3. Progress(y, dom', vm', console', ready, boots)
      <3> HIDE DEF x, y, pc
      <3> QED BY <1>0, <1>2, <2>1, <2>2 DEF Progress, Unstarted
    <2>4. Progress(Moved(call[c], pc, "failed", "none", call[c].unclean), dom', vm', console', ready, boots)
      BY <2>3
    <2>5. "none" \in Reasons
      BY DEF Reasons
    <2> HIDE DEF pc, y
    <2> QED BY <1>0, <1>1, <1>4, <1>6, <2>1, <2>4, <2>5, BootGoes
  <1> QED BY <1>5, <1>6 DEF StartDomain

\* A boot whose marker is in the log is ready, one whose is not goes on or ends.
LEMMA BootWaits ==
    ASSUME BootInv, NEW c \in Callers, Stream(c) \/ ProbeDomain(c)
    PROVE  BootInv'
PROOF
  <1> DEFINE x == call[c]
  <1>0. /\ InBoot(c) /\ x.pc \in {"stream", "probe"}
        /\ UNCHANGED <<dom, vm, console, boots, step, attempts, locks, ready>>
    BY DEF Stream, ProbeDomain, At, InBoot, Points, ProviderPoints
  <1>1. /\ x \in BootCalls /\ Progress(x, dom, vm, console, ready, boots)
        /\ x.why \in Reasons /\ x.unclean \in BOOLEAN
        /\ x.res \in {"succeeded", "failed"} /\ x.boot # 0
        /\ DirOf(x.boot) \in Dirs /\ DirOf(x.boot) = DirIn(boots, x.boot)
        /\ console \in [Dirs -> SUBSET ready]
    BY <1>0, BootState
  <1>2. x.res = "failed" /\ dom = x.boot /\ x.why = "none"
    BY <1>0, <1>1 DEF Progress, Unstarted
  <1>3. Marked(c) => x.boot \in ready
    <2> HIDE DEF x
    <2>1. console[DirIn(boots, x.boot)] \subseteq {x.boot}
      BY <1>0, <1>1 DEF Progress
    <2>2. console[DirIn(boots, x.boot)] \subseteq ready
      BY <1>1
    <2> USE DEF x
    <2> QED BY <1>1, <2>1, <2>2 DEF Marked, Dir, Boot
  <1>4. ~Marked(c) => x.boot \notin ready
    <2> HIDE DEF x
    <2>1. x.boot \in ready => x.boot \in console[DirIn(boots, x.boot)]
      BY <1>0, <1>1 DEF Progress
    <2> USE DEF x
    <2> QED BY <1>1, <2>1 DEF Marked, Dir, Boot
  <1>5. ASSUME NEW why \in Reasons, Unready(c, why),
               why = "exited" => x.boot \notin ready /\ vm.boot # x.boot
        PROVE  BootInv'
    <2> DEFINE pc == CleanupNext(c)
               y == Moved(x, pc, "failed", why, x.unclean)
    <2>1. /\ call' = [call EXCEPT ![c] = Moved(call[c], pc, "failed", why, call[c].unclean)]
          /\ pc \in Points
          /\ (pc = "cleanup" /\ x.run \in Stops) \/ (pc = "finish" /\ x.run \notin Stops)
      BY <1>0, <1>2, <1>5, UnreadyMoves
    <2>2. y.pc = pc /\ y.run = x.run /\ y.boot = x.boot /\ y.res = "failed" /\ y.why = why
      BY DEF Moved
    <2>3. Progress(y, dom, vm, console, ready, boots)
      <3> HIDE DEF x, y, pc
      <3> QED BY <1>0, <1>2, <1>5, <2>1, <2>2 DEF Progress, Unstarted
    <2>4. Progress(Moved(call[c], pc, "failed", why, call[c].unclean), dom, vm, console, ready, boots)
      BY <2>3
    <2> HIDE DEF pc, y
    <2> QED BY <1>0, <1>1, <2>1, <2>4, BootTurns
  <1>6. ASSUME Marked(c), Ready(c) PROVE BootInv'
    <2> DEFINE y == Moved(x, "finish", "succeeded", x.why, x.unclean)
    <2>1. call' = [call EXCEPT ![c] = y]
      BY <1>1, <1>6, MovesRes DEF Ready
    <2>2. y.pc = "finish" /\ y.run = x.run /\ y.boot = x.boot /\ y.res = "succeeded" /\ y.why = x.why
      BY DEF Moved
    <2>3. Progress(y, dom, vm, console, ready, boots)
      <3> HIDE DEF x, y
      <3> QED BY <1>2, <1>3, <1>6, <2>2 DEF Progress, Unstarted
    <2>4. "finish" \in Points
      BY DEF Points, ProviderPoints
    <2> QED BY <1>0, <1>1, <2>1, <2>3, <2>4, BootTurns
  <1>7. ASSUME NEW pc \in {"stream", "probe"}, Goto(c, pc) PROVE BootInv'
    <2> DEFINE y == Moved(x, pc, x.res, x.why, x.unclean)
    <2>1. call' = [call EXCEPT ![c] = y]
      BY <1>1, <1>7, MovesOn DEF Goto
    <2>2. y.pc = pc /\ y.run = x.run /\ y.boot = x.boot /\ y.res = x.res /\ y.why = x.why
      BY DEF Moved
    <2>3. Progress(y, dom, vm, console, ready, boots)
      <3> HIDE DEF x, y
      <3> QED BY <1>0, <1>1, <1>2, <2>2 DEF Progress, Unstarted
    <2>4. pc \in Points
      BY DEF Points, ProviderPoints
    <2> QED BY <1>0, <1>1, <2>1, <2>3, <2>4, BootTurns
  <1>8. "none" \in Reasons /\ "exited" \in Reasons /\ "presumed" \in Reasons
    BY DEF Reasons
  <1>9. CASE Stream(c)
    <2>1. CASE Unready(c, "none")
      BY <1>5, <1>8, <2>1
    <2>2. CASE Marked(c) /\ Ready(c)
      BY <1>6, <2>2
    <2>3. CASE Goto(c, "probe")
      BY <1>7, <2>3
    <2> QED BY <1>9, <2>1, <2>2, <2>3 DEF Stream
  <1>10. CASE ProbeDomain(c)
    <2>1. CASE Goto(c, "stream")
      BY <1>7, <2>1
    <2>2. CASE Marked(c) /\ Ready(c)
      BY <1>6, <2>2
    <2>3. CASE ~Marked(c) /\ vm.boot = 0 /\ Unready(c, "exited")
      BY <1>1, <1>4, <1>5, <1>8, <2>3
    <2>4. CASE ~Marked(c) /\ Unready(c, "presumed")
      BY <1>5, <1>8, <2>4
    <2> QED BY <1>10, <2>1, <2>2, <2>3, <2>4 DEF ProbeDomain, Drain, ReportedExit
  <1> QED BY <1>9, <1>10

\* The cleanup stops QEMU, or says that it could not.
LEMMA BootCleans ==
    ASSUME BootInv, NEW c \in Callers, Cleanup(c)
    PROVE  BootInv'
PROOF
  <1> DEFINE x == call[c]
  <1>0. /\ InBoot(c) /\ x.pc = "cleanup"
        /\ dom' = dom /\ ready' = ready /\ boots' = boots /\ step' = step
        /\ attempts' = attempts /\ locks' = locks /\ console' = console
        /\ vm' \in {vm, NoVm}
    BY DEF Cleanup, At, InBoot, Points, ProviderPoints
  <1>1. /\ x \in BootCalls /\ Progress(x, dom, vm, console, ready, boots)
        /\ x.why \in Reasons /\ x.unclean \in BOOLEAN
        /\ x.res \in {"succeeded", "failed"} /\ x.boot # 0
        /\ dom' \in 0..Len(boots) \cup {Alien}
        /\ vm' \in [boot : 0..Len(boots) \cup {Alien}, log : Dirs \cup {<<>>}]
        /\ console' \in [Dirs -> SUBSET ready]
    BY <1>0, BootState
  <1>2. vm' = vm \/ vm'.boot = 0
    BY <1>0 DEF NoVm
  <1>3. PICK unclean \in BOOLEAN :
          /\ call' = [call EXCEPT ![c] = Moved(x, "finish", x.res, x.why, unclean)]
          /\ unclean \/ vm'.boot = 0
    <2>1. CASE vm' = NoVm /\ Goto(c, "finish")
      <3>1. vm'.boot = 0
        BY <2>1 DEF NoVm
      <3>2. call' = [call EXCEPT ![c] = Moved(x, "finish", x.res, x.why, x.unclean)]
        BY <1>1, <2>1, MovesOn DEF Goto
      <3> HIDE DEF x
      <3> QED BY <1>1, <3>1, <3>2
    <2>2. ASSUME NEW u \in BOOLEAN, u = TRUE,
                 call' = [call EXCEPT ![c].pc = "finish", ![c].unclean = u]
          PROVE  \E unclean \in BOOLEAN :
                    /\ call' = [call EXCEPT ![c] = Moved(x, "finish", x.res, x.why, unclean)]
                    /\ unclean \/ vm'.boot = 0
      <3>1. [x EXCEPT !.pc = "finish", !.unclean = u] = Moved(x, "finish", x.res, x.why, u)
        <4>1. x \in BootCalls
          BY <1>1
        <4> HIDE DEF x
        <4> QED BY <4>1, MovesUnclean
      <3>2. call' = [call EXCEPT ![c] = Moved(x, "finish", x.res, x.why, u)]
        BY <2>2, <3>1
      <3> HIDE DEF x
      <3> QED BY <2>2, <3>2
    <2> QED BY <2>1, <2>2 DEF Cleanup
  <1> DEFINE y == Moved(x, "finish", x.res, x.why, unclean)
  <1>4. /\ y.pc = "finish" /\ y.run = x.run /\ y.boot = x.boot /\ y.res = x.res /\ y.why = x.why
        /\ y.unclean = unclean
    BY DEF Moved
  <1>5. Progress(y, dom', vm', console', ready, boots)
    <2> HIDE DEF x, y
    <2> QED BY <1>0, <1>1, <1>2, <1>3, <1>4 DEF Progress, Unstarted
  <1>6. "finish" \in Points
    BY DEF Points, ProviderPoints
  <1> QED BY <1>0, <1>1, <1>3, <1>5, <1>6, BootGoes

\* A summary that cannot be written, and whatever the provider raises, is a boot
\* that failed and may have left its QEMU.
LEMMA BootSums ==
    ASSUME BootInv, NEW c \in Callers, Finish(c) \/ ProviderRaises(c)
    PROVE  BootInv'
PROOF
  <1> DEFINE x == call[c]
  <1>0. /\ InBoot(c)
        /\ UNCHANGED <<dom, vm, console, boots, step, attempts, locks, ready>>
    BY DEF Finish, ProviderRaises, At, InBoot, Points, ProviderPoints
  <1>1. /\ x \in BootCalls /\ Progress(x, dom, vm, console, ready, boots)
        /\ x.why \in Reasons /\ x.unclean \in BOOLEAN
        /\ x.res \in {"succeeded", "failed"} /\ x.boot # 0
    BY <1>0, BootState
  <1>2. "record" \in Points
    BY DEF Points
  <1>3. CASE x.pc = "finish" /\ Goto(c, "record")
    <2> DEFINE y == Moved(x, "record", x.res, x.why, x.unclean)
    <2>1. call' = [call EXCEPT ![c] = y]
      BY <1>1, <1>3, MovesOn DEF Goto
    <2>2. /\ y.pc = "record" /\ y.run = x.run /\ y.boot = x.boot /\ y.res = x.res /\ y.why = x.why
          /\ y.unclean = x.unclean
      BY DEF Moved
    <2>3. Progress(y, dom, vm, console, ready, boots)
      <3> HIDE DEF x, y
      <3> QED BY <1>1, <1>3, <2>2 DEF Progress, Unstarted
    <2> QED BY <1>0, <1>1, <1>2, <2>1, <2>3, BootTurns
  <1>4. ASSUME NEW u \in BOOLEAN, u = TRUE, x.pc # "cleanup",
               call' = [call EXCEPT ![c].pc = "record", ![c].res = "failed", ![c].unclean = u]
        PROVE  BootInv'
    <2> DEFINE y == Moved(x, "record", "failed", x.why, u)
    <2>0. [x EXCEPT !.pc = "record", !.res = "failed", !.unclean = u]
             = Moved(x, "record", "failed", x.why, u)
      <3>1. [x EXCEPT !.pc = "record", !.res = "failed"]
               = Moved(x, "record", "failed", x.why, x.unclean)
        <4> HIDE DEF x
        <4> QED BY <1>1, MovesRes
      <3>2. [Moved(x, "record", "failed", x.why, x.unclean) EXCEPT !.unclean = u]
               = Moved(x, "record", "failed", x.why, u)
        BY DEF Moved
      <3> HIDE DEF x
      <3> QED BY <3>1, <3>2
    <2>1. call' = [call EXCEPT ![c] = y]
      BY <1>4, <2>0
    <2>2. /\ y.pc = "record" /\ y.run = x.run /\ y.boot = x.boot /\ y.res = "failed" /\ y.why = x.why
          /\ y.unclean = TRUE
      BY <1>4 DEF Moved
    <2>3. Progress(y, dom, vm, console, ready, boots)
      <3> HIDE DEF x, y
      <3> QED BY <1>1, <2>2 DEF Progress, Unstarted
    <2> QED BY <1>0, <1>1, <1>2, <2>1, <2>3, BootTurns
  <1> QED BY <1>3, <1>4 DEF Finish, ProviderRaises, At, ProviderPoints

-----------------------------------------------------------------------------
(* The handler around the provider                                          *)

Answer(r, status, why, of) == [pc |-> "booted", run |-> r, res |-> status, why |-> why, of |-> of]

\* An answer is no boot in progress.
LEMMA AnswerTyped ==
    ASSUME NEW r \in Runs, NEW status \in {"succeeded", "failed"},
           NEW why \in {"recorded", "refused", "port"}, NEW of \in 0..MaxBoots
    PROVE  /\ Answer(r, status, why, of) \in BootedCalls
           /\ Answer(r, status, why, of).pc = "booted"
           /\ Answer(r, status, why, of).of = of /\ Answer(r, status, why, of).run = r
PROOF BY DEF Answer, BootedCalls

\* A call that answers gives up its locks and nothing of anybody else's.
LEMMA BootAnswers ==
    ASSUME BootInv, NEW c \in Callers, NEW r \in Runs, NEW status \in {"succeeded", "failed"},
           NEW why \in {"recorded", "refused", "port"}, NEW of \in 0..Len(boots),
           Answered(c, r, status, why, of), of # 0 => boots[of].attempt <= attempts'[r],
           UNCHANGED <<dom, vm, console, ready, boots>>,
           step' \in [Runs -> [status : {"none", "running", "succeeded", "failed"}, id : 0..Len(boots)]],
           attempts' \in [Runs -> 0..Len(boots)],
           RecordOk',
           \A q \in Runs : attempts[q] <= attempts'[q],
           \A d \in Callers : d # c /\ InBoot(d) =>
               Latest(d, call[d], locks, step', attempts', boots)
    PROVE  BootInv'
PROOF
  <1> DEFINE y == Answer(r, status, why, of)
  <1>0. /\ call \in [Callers -> {Idle} \cup BootedCalls \cup BootCalls]
        /\ locks \in [Runs \cup {Domain} -> Callers \cup {Free, Orphan}]
        /\ attempts \in [Runs -> 0..Len(boots)]
        /\ Len(boots) \in Nat /\ Len(boots) <= MaxBoots
    BY LenProperties DEF BootInv, BootTyped
  <1>1. y \in BootedCalls /\ y.pc = "booted" /\ y.of = of /\ y.run = r
    <2>1. of \in 0..MaxBoots
      BY <1>0, BootAssumption
    <2> QED BY <2>1, AnswerTyped
  <1>2. call' = [call EXCEPT ![c] = y]
    BY DEF Answered, Answer
  <1>3. locks' = [l \in Runs \cup {Domain} |-> IF locks[l] = c THEN Free ELSE locks[l]]
    BY <1>0 DEF Answered
  <1> HIDE DEF y
  <1>4. /\ call' \in [Callers -> {Idle} \cup BootedCalls \cup BootCalls] /\ call'[c] = y
        /\ \A d \in Callers : d # c => call'[d] = call[d]
    BY <1>0, <1>1, <1>2
  <1>5. locks' \in [Runs \cup {Domain} -> Callers \cup {Free, Orphan}]
    BY <1>0, <1>3
  <1>6. BootTyped'
    BY <1>4, <1>5 DEF BootInv, BootTyped
  <1>7. ASSUME NEW d \in Callers, call'[d].pc \in Points
        PROVE  /\ Latest(d, call'[d], locks', step', attempts', boots')
               /\ Progress(call'[d], dom', vm', console', ready', boots')
    <2>1. d # c
      BY <1>1, <1>4, <1>7 DEF Points, ProviderPoints
    <2>2. InBoot(d) /\ call'[d] = call[d]
      BY <1>4, <1>7, <2>1 DEF InBoot
    <2>3. call[d].run \in Runs /\ Progress(call[d], dom, vm, console, ready, boots)
      BY <2>2, BootState
    <2>4. Latest(d, call[d], locks, step', attempts', boots)
      BY <2>1, <2>2
    <2>5. locks'[Domain] = d /\ locks'[call[d].run] = d
      BY <1>3, <2>1, <2>3, <2>4 DEF Latest
    <2> QED BY <2>2, <2>3, <2>4, <2>5 DEF Latest
  <1>8. ASSUME NEW d \in Callers PROVE AnswerOk(d)'
    <2>1. CASE d = c
      BY <1>0, <1>1, <1>4, <2>1 DEF AnswerOk
    <2>2. CASE d # c
      <3>1. AnswerOk(d) /\ call'[d] = call[d]
        BY <1>4, <2>2 DEF BootInv
      <3>2. SUFFICES ASSUME call[d].pc = "booted", call[d].of # 0
                     PROVE  call[d].of <= Len(boots) /\ boots[call[d].of].attempt <= attempts'[call[d].run]
        BY <3>1 DEF AnswerOk
      <3>3. call[d] \in BootedCalls
        <4>1. Idle.pc # "booted"
          BY DEF Idle
        <4>2. ASSUME NEW z \in BootCalls PROVE z.pc # "booted"
          BY DEF BootCalls, Points, ProviderPoints
        <4> QED BY <1>0, <3>2, <4>1, <4>2
      <3>4. call[d].of \in 0..MaxBoots /\ call[d].run \in Runs
        BY <3>3 DEF BootedCalls
      <3>5. call[d].of <= Len(boots) /\ boots[call[d].of].attempt <= attempts[call[d].run]
        BY <3>1, <3>2 DEF AnswerOk
      <3>6. boots[call[d].of].attempt \in Nat
        <4>1. call[d].of \in 1..Len(boots)
          BY <1>0, <3>2, <3>4, <3>5, BootAssumption
        <4>2. boots[call[d].of] \in [run : Runs, attempt : BootIds, wait : BOOLEAN]
          BY <4>1, ElementOfSeq DEF BootInv, BootTyped
        <4> QED BY <4>2, BootAssumption DEF BootIds
      <3>7. attempts[call[d].run] \in Nat /\ attempts'[call[d].run] \in Nat
            /\ attempts[call[d].run] <= attempts'[call[d].run]
        BY <1>0, <3>4
      <3> QED BY <3>5, <3>6, <3>7
    <2> QED BY <2>1, <2>2
  <1> QED BY <1>6, <1>7, <1>8 DEF BootInv, InBoot

\* The number and the attempt of a boot, and what is recorded of it.
LEMMA BootNumbers ==
    ASSUME BootInv
    PROVE  /\ Len(boots) \in Nat /\ Len(boots) <= MaxBoots
           /\ \A b \in 1..Len(boots) :
                boots[b].run \in Runs /\ boots[b].attempt \in Nat /\ boots[b].attempt <= MaxBoots
           /\ \A r \in Runs : step[r].id \in 0..Len(boots) /\ attempts[r] \in 0..Len(boots)
           /\ DOMAIN boots = 1..Len(boots)
PROOF
  <1>1. boots \in Seq([run : Runs, attempt : BootIds, wait : BOOLEAN])
    BY DEF BootInv, BootTyped
  <1>2. Len(boots) \in Nat /\ DOMAIN boots = 1..Len(boots)
    BY <1>1, LenProperties
  <1>3. ASSUME NEW b \in 1..Len(boots)
        PROVE  boots[b].run \in Runs /\ boots[b].attempt \in Nat /\ boots[b].attempt <= MaxBoots
    <2>1. boots[b] \in [run : Runs, attempt : BootIds, wait : BOOLEAN]
      BY <1>1, ElementOfSeq
    <2> QED BY <2>1, BootAssumption DEF BootIds
  <1> QED BY <1>2, <1>3 DEF BootInv, BootTyped

\* A recorded success answers.
LEMMA BootIsCached ==
    ASSUME BootInv, NEW c \in Callers, NEW r \in Runs, NEW force, BootCached(c, r, force)
    PROVE  BootInv'
PROOF
  <1>1. /\ step[r].status = "succeeded"
        /\ Answered(c, r, "succeeded", "recorded", step[r].id)
        /\ UNCHANGED <<dom, vm, console, ready, boots>> /\ step' = step /\ attempts' = attempts
    BY DEF BootCached, ShortCircuit
  <1>2. step[r].id \in 0..Len(boots) /\ boots[step[r].id].attempt <= attempts'[r]
    BY <1>1, BootNumbers DEF BootInv, RecordOk
  <1>3. RecordOk'
    BY <1>1 DEF BootInv, RecordOk
  <1>4. \A d \in Callers : d # c /\ InBoot(d) => Latest(d, call[d], locks, step', attempts', boots)
    BY <1>1, InBootTyped
  <1>5. \A q \in Runs : attempts[q] <= attempts'[q]
    BY <1>1, BootNumbers
  <1>6. /\ step' \in [Runs -> [status : {"none", "running", "succeeded", "failed"}, id : 0..Len(boots)]]
        /\ attempts' \in [Runs -> 0..Len(boots)]
    BY <1>1 DEF BootInv, BootTyped
  <1> QED BY <1>1, <1>2, <1>3, <1>4, <1>5, <1>6, BootAnswers

\* A refused call answers.
LEMMA BootIsRefused ==
    ASSUME BootInv, NEW c \in Callers, NEW r \in Runs, NEW force, BootRefused(c, r, force)
    PROVE  BootInv'
PROOF
  <1>1. /\ Answered(c, r, "failed", "refused", 0)
        /\ UNCHANGED <<dom, vm, console, ready, boots>> /\ step' = step /\ attempts' = attempts
    BY DEF BootRefused
  <1>2. 0 \in 0..Len(boots)
    BY BootNumbers
  <1>3. RecordOk'
    BY <1>1 DEF BootInv, RecordOk
  <1>4. \A d \in Callers : d # c /\ InBoot(d) => Latest(d, call[d], locks, step', attempts', boots)
    BY <1>1, InBootTyped
  <1>5. \A q \in Runs : attempts[q] <= attempts'[q]
    BY <1>1, BootNumbers
  <1>6. /\ step' \in [Runs -> [status : {"none", "running", "succeeded", "failed"}, id : 0..Len(boots)]]
        /\ attempts' \in [Runs -> 0..Len(boots)]
    BY <1>1 DEF BootInv, BootTyped
  <1> QED BY <1>1, <1>2, <1>3, <1>4, <1>5, <1>6, BootAnswers

\* A step of a run whose lock is free is no boot's in progress.
LEMMA FreeRun ==
    ASSUME BootInv, NEW r \in Runs, locks[r] = Free, NEW d \in Callers, InBoot(d)
    PROVE  call[d].run # r
PROOF BY InBootTyped, BootAssumption DEF Latest

\* A plan that fails is recorded, and answers.
LEMMA BootIsUnplanned ==
    ASSUME BootInv, NEW c \in Callers, NEW r \in Runs, NEW force, BootUnplanned(c, r, force)
    PROVE  BootInv'
PROOF
  <1> DEFINE s == [status |-> "failed", id |-> 0]
  <1>1. PICK why \in {"refused", "port"} : Answered(c, r, "failed", why, 0)
    BY DEF BootUnplanned
  <1>2. /\ UNCHANGED <<dom, vm, console, ready, boots>> /\ attempts' = attempts
        /\ step' = [step EXCEPT ![r] = s] /\ locks[r] = Free
    BY DEF BootUnplanned
  <1>3. 0 \in 0..Len(boots)
    BY BootNumbers
  <1>4. /\ s \in [status : {"none", "running", "succeeded", "failed"}, id : 0..Len(boots)]
        /\ s.status = "failed"
    BY <1>3
  <1> HIDE DEF s
  <1>5. /\ step' \in [Runs -> [status : {"none", "running", "succeeded", "failed"}, id : 0..Len(boots)]]
        /\ step'[r] = s /\ \A q \in Runs : q # r => step'[q] = step[q]
        /\ attempts' \in [Runs -> 0..Len(boots)]
    BY <1>2, <1>4 DEF BootInv, BootTyped
  <1>6. RecordOk'
    <2>1. SUFFICES ASSUME NEW q \in Runs, step'[q].status = "succeeded"
                   PROVE  /\ step'[q].id # 0 /\ boots[step'[q].id].run = q
                          /\ boots[step'[q].id].attempt <= attempts[q]
                          /\ \A b \in DOMAIN boots : boots[b].run = q => b <= step'[q].id
      BY <1>2 DEF RecordOk
    <2>2. q # r /\ step'[q] = step[q]
      BY <1>4, <1>5, <2>1
    <2> QED BY <2>1, <2>2 DEF BootInv, RecordOk
  <1>7. ASSUME NEW d \in Callers, d # c, InBoot(d)
        PROVE  Latest(d, call[d], locks, step', attempts', boots)
    <2>1. call[d].run # r /\ call[d].run \in Runs
      BY <1>2, <1>7, FreeRun, BootState
    <2> QED BY <1>2, <1>5, <1>7, <2>1, InBootTyped DEF Latest
  <1>8. \A q \in Runs : attempts[q] <= attempts'[q]
    BY <1>2, BootNumbers
  <1>9. why \in {"recorded", "refused", "port"} /\ "failed" \in {"succeeded", "failed"}
        /\ (0 # 0 => boots[0].attempt <= attempts'[r])
    BY <1>1
  <1>10. UNCHANGED <<dom, vm, console, ready, boots>>
    BY <1>2

  <1> QED BY <1>1, <1>3, <1>5, <1>6, <1>7, <1>8, <1>9, <1>10, BootAnswers

\* A boot begins under both its locks, as the latest of all.
LEMMA BootIsPlanned ==
    ASSUME BootInv, NEW c \in Callers, NEW r \in Runs, NEW force, NEW wait \in BOOLEAN,
           BootPlanned(c, r, force, wait)
    PROVE  BootInv'
PROOF
  <1> DEFINE n == Len(boots) + 1
             b == [run |-> r, attempt |-> NextAttempt(r), wait |-> wait]
             s == [status |-> "running", id |-> n]
             y == [pc |-> "prepare", run |-> r, boot |-> n, res |-> "failed", why |-> "none",
                   unclean |-> FALSE]
  <1>1. /\ locks[r] = Free /\ locks[Domain] = Free
        /\ locks' = [locks EXCEPT ![r] = c, ![Domain] = c]
        /\ boots' = Append(boots, b)
        /\ step' = [step EXCEPT ![r] = s]
        /\ call' = [call EXCEPT ![c] = y]
        /\ dom' = dom /\ vm' = vm /\ console' = console /\ ready' = ready /\ attempts' = attempts
        /\ Len(boots) < MaxBoots
    BY DEF BootPlanned, BootLocks, RunningStep
  <1>2. /\ Len(boots) \in Nat /\ n \in Nat /\ n \in BootIds /\ n <= MaxBoots
        /\ attempts \in [Runs -> 0..Len(boots)] /\ NextAttempt(r) \in BootIds
        /\ attempts[r] < n
    <2>1. Len(boots) \in Nat /\ attempts \in [Runs -> 0..Len(boots)] /\ MaxBoots \in Nat
      BY BootNumbers, BootAssumption DEF BootInv, BootTyped
    <2>2. attempts[r] \in 0..Len(boots)
      BY <2>1
    <2> QED BY <1>1, <2>1, <2>2 DEF BootIds, NextAttempt
  <1>3. /\ b \in [run : Runs, attempt : BootIds, wait : BOOLEAN]
        /\ b.run = r /\ b.attempt = attempts[r] + 1
    BY <1>2 DEF NextAttempt
  <1>4. /\ s \in [status : {"none", "running", "succeeded", "failed"}, id : 0..n]
        /\ s.status = "running" /\ s.id = n
    BY <1>2
  <1>5. /\ y \in BootCalls /\ y.pc = "prepare" /\ y.run = r /\ y.boot = n /\ y.res = "failed"
        /\ y.why = "none"
    BY <1>2 DEF BootCalls, Points, ProviderPoints, Reasons
  <1> HIDE DEF b, s, y
  <1>6. /\ boots' \in Seq([run : Runs, attempt : BootIds, wait : BOOLEAN])
        /\ Len(boots') = n /\ boots'[n] = b
        /\ \A i \in 1..Len(boots) : boots'[i] = boots[i]
    <2>1. boots \in Seq([run : Runs, attempt : BootIds, wait : BOOLEAN])
      BY DEF BootInv, BootTyped
    <2> QED BY <1>1, <1>3, <2>1, AppendProperties
  <1>7. BootTyped'
    <2>1. /\ dom \in 0..n \cup {Alien}
          /\ vm \in [boot : 0..n \cup {Alien}, log : Dirs \cup {<<>>}]
          /\ ready \subseteq 1..n
          /\ attempts \in [Runs -> 0..n]
      BY <1>2 DEF BootInv, BootTyped
    <2>2. step' \in [Runs -> [status : {"none", "running", "succeeded", "failed"}, id : 0..n]]
      <3>1. 0..Len(boots) \subseteq 0..n
        BY <1>2
      <3>2. step \in [Runs -> [status : {"none", "running", "succeeded", "failed"}, id : 0..n]]
        BY <3>1 DEF BootInv, BootTyped
      <3> QED BY <1>1, <1>4, <3>2
    <2>3. locks' \in [Runs \cup {Domain} -> Callers \cup {Free, Orphan}]
      BY <1>1 DEF BootInv, BootTyped
    <2>4. call' \in [Callers -> {Idle} \cup BootedCalls \cup BootCalls]
      BY <1>1, <1>5 DEF BootInv, BootTyped
    <2>5. console' \in [Dirs -> SUBSET ready']
      BY <1>1 DEF BootInv, BootTyped
    <2> QED BY <1>1, <1>2, <1>6, <2>1, <2>2, <2>3, <2>4, <2>5 DEF BootTyped
  <1>8. /\ step \in [Runs -> [status : {"none", "running", "succeeded", "failed"}, id : 0..Len(boots)]]
        /\ step'[r] = s /\ \A q \in Runs : q # r => step'[q] = step[q]
    BY <1>1 DEF BootInv, BootTyped
  <1>9. RecordOk'
    <2>1. SUFFICES ASSUME NEW q \in Runs, step'[q].status = "succeeded"
                   PROVE  /\ step'[q].id # 0 /\ boots'[step'[q].id].run = q
                          /\ boots'[step'[q].id].attempt <= attempts[q]
                          /\ \A i \in DOMAIN boots' : boots'[i].run = q => i <= step'[q].id
      BY <1>1 DEF RecordOk
    <2>2. q # r /\ step'[q] = step[q]
      BY <1>4, <1>8, <2>1
    <2>3. /\ step[q].id # 0 /\ boots[step[q].id].run = q
          /\ boots[step[q].id].attempt <= attempts[q]
          /\ \A i \in DOMAIN boots : boots[i].run = q => i <= step[q].id
          /\ step[q].id \in 1..Len(boots)
      BY <1>2, <2>1, <2>2, BootNumbers DEF BootInv, RecordOk
    <2>4. ASSUME NEW i \in DOMAIN boots', boots'[i].run = q PROVE i <= step[q].id
      <3>1. i \in 1..n
        BY <1>6, <2>4, LenProperties
      <3>2. i # n
        BY <1>3, <1>6, <2>2, <2>4
      <3>3. i \in 1..Len(boots)
        BY <1>2, <3>1, <3>2
      <3> QED BY <1>6, <2>3, <2>4, <3>3, BootNumbers
    <2> QED BY <1>6, <2>2, <2>3, <2>4
  <1>10. ASSUME NEW d \in Callers PROVE ~InBoot(d)
    BY <1>1, InBootTyped, BootAssumption DEF Latest
  <1>11. /\ call \in [Callers -> {Idle} \cup BootedCalls \cup BootCalls]
         /\ locks \in [Runs \cup {Domain} -> Callers \cup {Free, Orphan}]
         /\ call'[c] = y /\ \A d \in Callers : d # c => call'[d] = call[d]
    BY <1>1 DEF BootInv, BootTyped
  <1>12. Latest(c, y, locks', step', attempts', boots')
    <2>1. locks'[r] = c /\ locks'[Domain] = c
      BY <1>1, <1>11
    <2> QED BY <1>1, <1>2, <1>3, <1>4, <1>5, <1>6, <1>8, <2>1 DEF Latest
  <1>13. Progress(y, dom', vm', console', ready', boots')
    <2>1. ready \subseteq 1..Len(boots) /\ vm.boot \in 0..Len(boots) \cup {Alien}
      BY DEF BootInv, BootTyped
    <2>2. n \notin ready
      BY <1>2, <2>1
    <2>3. vm.boot # n
      BY <1>2, <2>1, BootAssumption DEF BootIds
    <2> QED BY <1>1, <1>5, <2>2, <2>3 DEF Progress
  <1>14. ASSUME NEW d \in Callers PROVE AnswerOk(d)'
    <2>1. CASE d = c
      BY <1>5, <1>11, <2>1 DEF AnswerOk
    <2>2. CASE d # c
      <3>1. AnswerOk(d) /\ call'[d] = call[d]
        BY <1>11, <2>2 DEF BootInv
      <3>2. SUFFICES ASSUME call[d].pc = "booted", call[d].of # 0
                     PROVE  call[d].of <= Len(boots')
                            /\ boots'[call[d].of].attempt <= attempts'[call[d].run]
        BY <3>1 DEF AnswerOk
      <3>3. call[d].of \in 0..MaxBoots
        <4>1. Idle.pc # "booted"
          BY DEF Idle
        <4>2. ASSUME NEW z \in BootCalls PROVE z.pc # "booted"
          BY DEF BootCalls, Points, ProviderPoints
        <4>3. call[d] \in BootedCalls
          BY <1>11, <3>2, <4>1, <4>2
        <4> QED BY <4>3 DEF BootedCalls
      <3>4. call[d].of <= Len(boots) /\ boots[call[d].of].attempt <= attempts[call[d].run]
        BY <3>1, <3>2 DEF AnswerOk
      <3>5. call[d].of \in 1..Len(boots) /\ call[d].of <= n
        BY <1>2, <3>2, <3>3, <3>4, BootAssumption
      <3> QED BY <1>1, <1>6, <3>4, <3>5
    <2> QED BY <2>1, <2>2
  <1>15. ASSUME NEW d \in Callers, InBoot(d)'
         PROVE  /\ Latest(d, call'[d], locks', step', attempts', boots')
                /\ Progress(call'[d], dom', vm', console', ready', boots')
    <2>1. d = c
      BY <1>10, <1>11, <1>15 DEF InBoot
    <2> QED BY <1>11, <1>12, <1>13, <2>1
  <1> QED BY <1>7, <1>9, <1>14, <1>15 DEF BootInv

\* The attempt and the step are recorded together, under the locks.
LEMMA BootIsRecorded ==
    ASSUME BootInv, NEW c \in Callers, BootRecord(c)
    PROVE  BootInv'
PROOF
  <1> DEFINE x == call[c]
             r == x.run
             s == [status |-> x.res, id |-> x.boot]
  <1>0. /\ InBoot(c) /\ x.pc = "record"
        /\ UNCHANGED <<dom, vm, console, ready, boots>>
    BY DEF BootRecord, At, InBoot, Points
  <1>1. /\ x \in BootCalls /\ r \in Runs /\ x.boot \in 1..Len(boots) /\ x.boot = Len(boots)
        /\ x.res \in {"succeeded", "failed"} /\ Len(boots) \in Nat
        /\ boots[x.boot].run = r /\ boots[x.boot].attempt = attempts[r] + 1
        /\ attempts[r] < Len(boots)
    BY <1>0, InBootTyped, BootFields DEF Latest
  <1>2. ASSUME NEW d \in Callers, d # c PROVE ~InBoot(d)
    BY <1>0, <1>2, OneBoot
  <1>3. /\ step \in [Runs -> [status : {"none", "running", "succeeded", "failed"}, id : 0..Len(boots)]]
        /\ attempts \in [Runs -> 0..Len(boots)]
    BY DEF BootInv, BootTyped
  <1>4. CASE /\ step' = [step EXCEPT ![Run(c)] = [status |-> call[c].res, id |-> Boot(c)]]
             /\ attempts' = [attempts EXCEPT ![Run(c)] = @ + 1]
             /\ Answered(c, Run(c), call[c].res, "recorded", Boot(c))
    <2>1. /\ step' = [step EXCEPT ![r] = s]
          /\ attempts' = [attempts EXCEPT ![r] = @ + 1]
          /\ Answered(c, r, x.res, "recorded", x.boot)
      BY <1>4 DEF Run, Boot
    <2>2. s \in [status : {"none", "running", "succeeded", "failed"}, id : 0..Len(boots)]
          /\ s.status = x.res /\ s.id = x.boot
      BY <1>1
    <2> HIDE DEF x, r, s
    <2>3. /\ step' \in [Runs -> [status : {"none", "running", "succeeded", "failed"}, id : 0..Len(boots)]]
          /\ step'[r] = s /\ \A q \in Runs : q # r => step'[q] = step[q]
      BY <1>1, <1>3, <2>1, <2>2
    <2>4. attempts[r] \in 0..Len(boots)
      BY <1>1, <1>3
    <2>5. attempts[r] + 1 \in 0..Len(boots)
      BY <1>1, <2>4
    <2>6. /\ attempts' \in [Runs -> 0..Len(boots)] /\ attempts'[r] = attempts[r] + 1
          /\ \A q \in Runs : q # r => attempts'[q] = attempts[q]
      BY <1>1, <1>3, <2>1, <2>5
    <2>7. RecordOk'
      <3>1. SUFFICES ASSUME NEW q \in Runs, step'[q].status = "succeeded"
                     PROVE  /\ step'[q].id # 0 /\ boots[step'[q].id].run = q
                            /\ boots[step'[q].id].attempt <= attempts'[q]
                            /\ \A b \in DOMAIN boots : boots[b].run = q => b <= step'[q].id
        BY <1>0 DEF RecordOk
      <3>2. CASE q # r
        <4>1. step'[q] = step[q] /\ attempts'[q] = attempts[q]
          BY <2>3, <2>6, <3>2
        <4> QED BY <3>1, <4>1 DEF BootInv, RecordOk
      <3>3. CASE q = r
        <4>1. step'[q].id = x.boot
          BY <2>2, <2>3, <3>3
        <4>2. \A b \in DOMAIN boots : b <= x.boot
          BY <1>1, BootNumbers
        <4>3. boots[x.boot].attempt <= attempts'[r]
          BY <1>1, <2>4, <2>6
        <4>4. x.boot # 0
          BY <1>1
        <4> QED BY <1>1, <3>3, <4>1, <4>2, <4>3, <4>4
      <3> QED BY <3>2, <3>3
    <2>8. \A q \in Runs : attempts[q] <= attempts'[q]
      <3>1. SUFFICES ASSUME NEW q \in Runs PROVE attempts[q] <= attempts'[q]
        OBVIOUS
      <3>2. attempts[q] \in Nat
        BY <1>3
      <3> QED BY <2>6, <3>2
    <2>9. x.boot # 0 => boots[x.boot].attempt <= attempts'[r]
      BY <1>1, <2>4, <2>6
    <2>10. \A d \in Callers : d # c /\ InBoot(d) => Latest(d, call[d], locks, step', attempts', boots)
      BY <1>2
    <2>11. x.boot \in 0..Len(boots) /\ "recorded" \in {"recorded", "refused", "port"}
      BY <1>1
    <2>12. /\ step' \in [Runs -> [status : {"none", "running", "succeeded", "failed"}, id : 0..Len(boots)]]
           /\ attempts' \in [Runs -> 0..Len(boots)]
           /\ Answered(c, r, x.res, "recorded", x.boot)
           /\ r \in Runs /\ x.res \in {"succeeded", "failed"}
      BY <1>1, <2>1, <2>3, <2>6
    <2>13. UNCHANGED <<dom, vm, console, ready, boots>>
      BY <1>0
    <2> QED BY <2>7, <2>8, <2>9, <2>10, <2>11, <2>12, <2>13, BootAnswers
  <1>5. CASE Answered(c, Run(c), "failed", "refused", 0) /\ UNCHANGED <<step, attempts>>
    <2>1. Answered(c, r, "failed", "refused", 0) /\ step' = step /\ attempts' = attempts
      BY <1>5 DEF Run
    <2>2. RecordOk'
      BY <1>0, <2>1 DEF BootInv, RecordOk
    <2>3. \A q \in Runs : attempts[q] <= attempts'[q]
      BY <2>1, BootNumbers
    <2>4. /\ step' \in [Runs -> [status : {"none", "running", "succeeded", "failed"}, id : 0..Len(boots)]]
          /\ attempts' \in [Runs -> 0..Len(boots)] /\ 0 \in 0..Len(boots)
      BY <1>1, <1>3, <2>1
    <2>5. "refused" \in {"recorded", "refused", "port"} /\ "failed" \in {"succeeded", "failed"}
          /\ (0 # 0 => boots[0].attempt <= attempts'[r])
      OBVIOUS
    <2>6. \A d \in Callers : d # c /\ InBoot(d) => Latest(d, call[d], locks, step', attempts', boots)
      BY <1>2
    <2> HIDE DEF x, r
    <2> QED BY <1>0, <1>1, <2>1, <2>2, <2>3, <2>4, <2>5, <2>6, BootAnswers
  <1> QED BY <1>4, <1>5 DEF BootRecord

-----------------------------------------------------------------------------
(* Everybody else                                                           *)

\* A step that leaves the handlers alone keeps the invariant, if what every boot in
\* progress knows stays true.
LEMMA BootUndisturbed ==
    ASSUME BootInv, UNCHANGED <<boots, step, attempts, call>>, BootTyped',
           \A c \in Callers : InBoot(c) =>
              /\ Latest(c, call[c], locks', step, attempts, boots)
              /\ Progress(call[c], dom', vm', console', ready', boots)
    PROVE  BootInv'
PROOF
  <1>1. RecordOk'
    BY DEF BootInv, RecordOk
  <1>2. ASSUME NEW c \in Callers PROVE AnswerOk(c)'
    BY DEF BootInv, AnswerOk
  <1>3. ASSUME NEW c \in Callers, call'[c].pc \in Points
        PROVE  /\ Latest(c, call'[c], locks', step', attempts', boots')
               /\ Progress(call'[c], dom', vm', console', ready', boots')
    BY <1>3 DEF InBoot
  <1> QED BY <1>1, <1>2, <1>3 DEF BootInv, InBoot

\* A kernel that comes up writes the log that its QEMU has, which for a boot that is
\* waited for is its own.
LEMMA GuestComesUp ==
    ASSUME BootInv, GuestReady
    PROVE  BootInv'
PROOF
  <1> DEFINE v == vm.boot
  <1>1. /\ v \in BootIds \ ready /\ ready' = ready \cup {v}
        /\ console' = IF vm.log = <<>> THEN console ELSE [console EXCEPT ![vm.log] = @ \cup {v}]
        /\ dom' = dom /\ vm' = vm /\ boots' = boots /\ step' = step /\ attempts' = attempts
        /\ locks' = locks /\ call' = call
    BY DEF GuestReady
  <1>2. /\ vm.boot \in 0..Len(boots) \cup {Alien} /\ vm.log \in Dirs \cup {<<>>}
        /\ console \in [Dirs -> SUBSET ready] /\ ready \subseteq 1..Len(boots)
    BY DEF BootInv, BootTyped
  <1>3. v \in 1..Len(boots)
    BY <1>1, <1>2, BootNumbers, BootAssumption DEF BootIds
  <1>4. console' \in [Dirs -> SUBSET ready']
    BY <1>1, <1>2
  <1>5. BootTyped'
    <2>1. ready' \subseteq 1..Len(boots)
      BY <1>1, <1>2, <1>3
    <2> QED BY <1>1, <1>4, <2>1 DEF BootInv, BootTyped
  <1>6. ASSUME NEW c \in Callers, InBoot(c)
        PROVE  Progress(call[c], dom', vm', console', ready', boots)
    <2> DEFINE x == call[c]
               D == DirIn(boots, x.boot)
    <2>1. /\ Progress(x, dom, vm, console, ready, boots) /\ x.boot # 0
          /\ DirOf(x.boot) \in Dirs /\ DirOf(x.boot) = D
      BY <1>6, BootState
    <2>2. D # <<>>
      BY DEF DirIn
    <2>3. v # 0
      BY <1>1, BootAssumption DEF BootIds
    <2> HIDE DEF x, D
    <2>4. ASSUME x.pc \in {"stream", "probe"}
          PROVE  /\ vm.boot = x.boot /\ vm.log = D
                 /\ console'[D] = console[D] \cup {v} /\ console[D] \subseteq {x.boot}
      <3>1. vm.boot = x.boot /\ vm.log = D /\ console[D] \subseteq {x.boot}
        BY <2>1, <2>3, <2>4 DEF Progress, D
      <3> QED BY <1>1, <1>2, <2>1, <2>2, <3>1
    <2>5. x.pc \in {"stream", "probe"} =>
             /\ vm'.boot # 0 => vm'.boot = x.boot /\ vm'.log = D
             /\ console'[D] \subseteq {x.boot}
             /\ x.boot \in ready' => x.boot \in console'[D]
      BY <1>1, <2>4
    <2>6. vm.boot # x.boot /\ x.boot \notin ready => x.boot \notin ready'
      BY <1>1
    <2> QED BY <1>1, <2>1, <2>5, <2>6 DEF Progress, D, x
  <1>7. ASSUME NEW c \in Callers, InBoot(c)
        PROVE  Latest(c, call[c], locks', step, attempts, boots)
    BY <1>1, <1>7, InBootTyped
  <1> QED BY <1>1, <1>5, <1>6, <1>7, BootUndisturbed

\* A guest that goes away.
LEMMA GuestGoes ==
    ASSUME BootInv, GuestExits
    PROVE  BootInv'
PROOF
  <1>1. /\ vm' = NoVm
        /\ dom' = dom /\ console' = console /\ ready' = ready /\ boots' = boots /\ step' = step
        /\ attempts' = attempts /\ locks' = locks /\ call' = call
    BY DEF GuestExits
  <1>2. BootTyped'
    <2>1. 0 \in 0..Len(boots)
      BY BootNumbers
    <2>2. vm' \in [boot : 0..Len(boots) \cup {Alien}, log : Dirs \cup {<<>>}]
      BY <1>1, <2>1 DEF NoVm
    <2> QED BY <1>1, <2>2 DEF BootInv, BootTyped
  <1>3. ASSUME NEW c \in Callers, InBoot(c)
        PROVE  /\ Latest(c, call[c], locks', step, attempts, boots)
               /\ Progress(call[c], dom', vm', console', ready', boots)
    <2> DEFINE x == call[c]
    <2>1. /\ Progress(x, dom, vm, console, ready, boots) /\ x.boot # 0
          /\ Latest(c, x, locks, step, attempts, boots)
      BY <1>3, BootState, InBootTyped
    <2>2. vm'.boot = 0
      BY <1>1 DEF NoVm
    <2> HIDE DEF x
    <2>3. Progress(x, dom', vm', console', ready', boots)
      BY <1>1, <2>1, <2>2 DEF Progress
    <2> QED BY <1>1, <2>1, <2>3 DEF x
  <1> QED BY <1>1, <1>2, <1>3, BootUndisturbed

\* The operator comes when no boot is in progress.
LEMMA OperatorComes ==
    ASSUME BootInv, Operator
    PROVE  BootInv'
PROOF
  <1>1. \A c \in Callers : ~InBoot(c)
    BY DEF Operator, NoBootInProgress, InBoot, Points, ProviderPoints
  <1>2. UNCHANGED <<console, ready, boots, step, attempts, call>>
    BY DEF Operator
  <1>3. 0 \in 0..Len(boots)
    BY BootNumbers
  <1>4. /\ dom \in 0..Len(boots) \cup {Alien}
        /\ vm \in [boot : 0..Len(boots) \cup {Alien}, log : Dirs \cup {<<>>}]
        /\ locks \in [Runs \cup {Domain} -> Callers \cup {Free, Orphan}]
    BY DEF BootInv, BootTyped
  <1>5. /\ dom' \in 0..Len(boots) \cup {Alien}
        /\ vm' \in [boot : 0..Len(boots) \cup {Alien}, log : Dirs \cup {<<>>}]
        /\ locks' \in [Runs \cup {Domain} -> Callers \cup {Free, Orphan}]
    BY <1>3, <1>4 DEF Operator, NoVm
  <1>6. BootTyped'
    BY <1>2, <1>5 DEF BootInv, BootTyped
  <1> QED BY <1>1, <1>2, <1>6, BootUndisturbed

\* The answer is taken, or the server dies: fewer calls are in progress.
LEMMA CallsGone ==
    ASSUME BootInv, UNCHANGED <<dom, vm, console, ready, boots, step, attempts>>,
           NEW C, call' = [c \in Callers |-> IF c \in C THEN Idle ELSE call[c]],
           locks' \in [Runs \cup {Domain} -> Callers \cup {Free, Orphan}],
           \A c \in Callers \ C : InBoot(c) =>
               locks'[Domain] = locks[Domain] /\ locks'[call[c].run] = locks[call[c].run]
    PROVE  BootInv'
PROOF
  <1>0. call \in [Callers -> {Idle} \cup BootedCalls \cup BootCalls]
    BY DEF BootInv, BootTyped
  <1>1. /\ call' \in [Callers -> {Idle} \cup BootedCalls \cup BootCalls]
        /\ \A c \in Callers : call'[c] = IF c \in C THEN Idle ELSE call[c]
    BY <1>0
  <1>2. BootTyped'
    BY <1>1 DEF BootInv, BootTyped
  <1>3. RecordOk'
    BY DEF BootInv, RecordOk
  <1>4. Idle.pc = "idle" /\ "idle" \notin Points
    BY DEF Idle, Points, ProviderPoints
  <1>5. ASSUME NEW c \in Callers PROVE AnswerOk(c)'
    BY <1>1, <1>4 DEF BootInv, AnswerOk
  <1>6. ASSUME NEW c \in Callers, call'[c].pc \in Points
        PROVE  /\ Latest(c, call'[c], locks', step', attempts', boots')
               /\ Progress(call'[c], dom', vm', console', ready', boots')
    <2>1. c \notin C /\ call'[c] = call[c] /\ InBoot(c)
      BY <1>1, <1>4, <1>6 DEF InBoot
    <2> QED BY <2>1, InBootTyped DEF Latest
  <1> QED BY <1>2, <1>3, <1>5, <1>6 DEF BootInv, InBoot

\* The server dies with every call it has.
LEMMA ServerGone ==
    ASSUME BootInv, ServerDies
    PROVE  BootInv'
PROOF
  <1>1. call' = [c \in Callers |-> IF c \in Callers THEN Idle ELSE call[c]]
    BY DEF ServerDies
  <1>2. locks \in [Runs \cup {Domain} -> Callers \cup {Free, Orphan}]
    BY DEF BootInv, BootTyped
  <1>3. locks' \in [Runs \cup {Domain} -> Callers \cup {Free, Orphan}]
    BY <1>2 DEF ServerDies
  <1>4. UNCHANGED <<dom, vm, console, ready, boots, step, attempts>>
    BY DEF ServerDies
  <1>5. \A c \in Callers \ Callers : InBoot(c) =>
          locks'[Domain] = locks[Domain] /\ locks'[call[c].run] = locks[call[c].run]
    OBVIOUS
  <1> QED BY <1>1, <1>3, <1>4, <1>5, CallsGone

\* The workflow goes on with the answer.
LEMMA AnswerTaken ==
    ASSUME BootInv, NEW c \in Callers, call' = [call EXCEPT ![c] = Idle],
           UNCHANGED <<dom, vm, console, ready, boots, step, attempts, locks>>
    PROVE  BootInv'
PROOF
  <1>1. call' = [d \in Callers |-> IF d \in {c} THEN Idle ELSE call[d]]
    BY DEF BootInv, BootTyped
  <1>2. locks' \in [Runs \cup {Domain} -> Callers \cup {Free, Orphan}]
    BY DEF BootInv, BootTyped
  <1>3. UNCHANGED <<dom, vm, console, ready, boots, step, attempts>>
    OBVIOUS
  <1>4. \A d \in Callers \ {c} : InBoot(d) =>
          locks'[Domain] = locks[Domain] /\ locks'[call[d].run] = locks[call[d].run]
    OBVIOUS
  <1> QED BY <1>1, <1>2, <1>3, <1>4, CallsGone

\* Nothing has happened yet.
LEMMA BootStartsClean ==
    ASSUME BootInit
    PROVE  BootInv
PROOF
  <1>1. /\ boots \in Seq([run : Runs, attempt : BootIds, wait : BOOLEAN]) /\ Len(boots) = 0
    BY EmptySeq DEF BootInit
  <1>2. BootTyped
    <2>1. 0 \in 0..Len(boots) /\ Len(boots) <= MaxBoots
      BY <1>1, BootAssumption
    <2>2. vm \in [boot : 0..Len(boots) \cup {Alien}, log : Dirs \cup {<<>>}]
      BY <2>1 DEF BootInit, NoVm
    <2>3. step \in [Runs -> [status : {"none", "running", "succeeded", "failed"}, id : 0..Len(boots)]]
      BY <2>1 DEF BootInit, NoStep
    <2>4. dom \in 0..Len(boots) \cup {Alien}
      BY <2>1 DEF BootInit
    <2> QED BY <1>1, <2>1, <2>2, <2>3, <2>4 DEF BootTyped, BootInit
  <1>3. RecordOk
    BY DEF RecordOk, BootInit, NoStep
  <1>4. \A c \in Callers : call[c].pc = "idle"
    BY DEF BootInit, Idle
  <1>5. \A c \in Callers : ~InBoot(c) /\ AnswerOk(c)
    BY <1>4 DEF InBoot, AnswerOk, Points, ProviderPoints
  <1> QED BY <1>2, <1>3, <1>5 DEF BootInv

-----------------------------------------------------------------------------
(* The workflow                                                             *)

Paths == {"build", "boot-log", "boot-files", "tests"} \X Nat
Bundles == [status : {"none", "succeeded", "failed", "refused"}, arts : SUBSET Paths]
TestSteps == [status : {"none", "running", "succeeded", "failed"}, id : Nat, arts : SUBSET Paths]

Flows == [at : {"build", "boot", "tests", "testing", "debug", "collect", "done"},
          kind : Kinds, run : Runs, made : SUBSET Paths, bundle : Bundles]

FlowTyped ==
    /\ built \in [Runs -> BOOLEAN]
    /\ tests \in [Runs -> TestSteps]
    /\ ran \in [Runs -> Nat]
    /\ bundle \in [Runs -> Bundles]
    /\ flow \in [Callers -> {NoFlow} \cup Flows]

\* The tests that are recorded are the last that ran, and name only their files.
TestsOk ==
    \A r \in Runs :
        /\ tests[r].id = ran[r]
        /\ tests[r].arts \subseteq {<<"tests", tests[r].id>>}
        /\ tests[r].status = "running" => tests[r].arts = {}

\* The file is of an attempt that ended, so no later boot and no later tests of
\* the run will have it.
Settled(r, a) ==
    \/ a[1] \in {"boot-log", "boot-files"} /\ a[2] <= attempts[r]
    \/ /\ a[1] = "tests" /\ a[2] <= ran[r]
       /\ tests[r].status = "running" => a[2] # tests[r].id

\* A boot runs for the workflow that called it.  What the workflow has made is
\* settled, and when it is done what the manifest still names of it is bundled.
FlowOk(c) ==
    /\ call[c].pc # "idle" => FlowAt(c, "boot") /\ call[c].run = FlowRun(c)
    /\ FlowAt(c, "testing") => tests[FlowRun(c)].status = "running"
    /\ FlowAt(c, "debug") => flow[c].kind # "test"
    /\ flow[c] # NoFlow => \A a \in flow[c].made : Settled(FlowRun(c), a)
    /\ FlowAt(c, "done") /\ flow[c].kind = "test" /\ flow[c].bundle.status \notin {"failed", "refused"}
         => flow[c].made \cap ManifestArts(FlowRun(c)) \subseteq flow[c].bundle.arts

\* Tests of a run are made by one workflow at a time.
OneTests ==
    \A c, d \in Callers :
        FlowAt(c, "testing") /\ FlowAt(d, "testing") /\ FlowRun(c) = FlowRun(d) => c = d

FlowInv ==
    /\ FlowTyped
    /\ TestsOk
    /\ \A c \in Callers : FlowOk(c)
    /\ OneTests

\* A workflow that is somewhere has a run.
LEMMA FlowSomewhere ==
    ASSUME FlowTyped, NEW c \in Callers, flow[c].at # "none"
    PROVE  /\ flow[c] \in Flows /\ flow[c] # NoFlow
           /\ flow[c].run \in Runs /\ flow[c].kind \in Kinds
           /\ flow[c].made \in SUBSET Paths /\ flow[c].bundle \in Bundles
PROOF
  <1>1. NoFlow.at = "none"
    BY DEF NoFlow
  <1>2. flow[c] \in Flows /\ flow[c] # NoFlow
    BY <1>1 DEF FlowTyped
  <1> QED BY <1>2 DEF Flows

\* What is settled stays settled, and is not named again once it is not.
Grows(r) ==
    \A a \in Paths : Settled(r, a) =>
        /\ Settled(r, a)'
        /\ a \in ManifestArts(r)' => a \in ManifestArts(r)

\* A workflow that a step leaves alone keeps what it knows, when the manifests only
\* grow.
LEMMA FlowLeftAlone ==
    ASSUME FlowInv, NEW d \in Callers, \A r \in Runs : Grows(r), flow'[d] = flow[d],
           call'[d].pc # "idle" => FlowAt(d, "boot") /\ call'[d].run = FlowRun(d),
           FlowAt(d, "testing") => tests'[FlowRun(d)].status = "running"
    PROVE  FlowOk(d)'
PROOF
  <1>1. FlowOk(d)
    BY DEF FlowInv
  <1>2. CASE flow[d] = NoFlow
    <2>1. flow'[d].at = "none" /\ flow[d].at = "none"
      BY <1>2 DEF NoFlow
    <2> QED BY <1>2, <2>1 DEF FlowOk, FlowAt
  <1>3. CASE flow[d] # NoFlow
    <2>1. flow[d] \in Flows
      BY <1>3 DEF FlowInv, FlowTyped
    <2>2. PICK r \in Runs, made \in SUBSET Paths : flow[d].run = r /\ flow[d].made = made
      BY <2>1 DEF Flows
    <2>3. \A a \in made : Settled(r, a)
      BY <1>1, <1>3, <2>2 DEF FlowOk, FlowRun
    <2>4. \A a \in made : Settled(r, a)' /\ (a \in ManifestArts(r)' => a \in ManifestArts(r))
      BY <2>3 DEF Grows
    <2>5. made \cap ManifestArts(r)' \subseteq made \cap ManifestArts(r)
      BY <2>4
    <2>6. /\ FlowRun(d)' = r /\ FlowRun(d) = r
          /\ FlowAt(d, "boot")' <=> FlowAt(d, "boot")
          /\ FlowAt(d, "testing")' <=> FlowAt(d, "testing")
          /\ FlowAt(d, "done")' <=> FlowAt(d, "done")
          /\ FlowAt(d, "debug")' <=> FlowAt(d, "debug")
      BY <2>2 DEF FlowRun, FlowAt
    <2>7. call'[d].pc # "idle" => FlowAt(d, "boot")' /\ call'[d].run = FlowRun(d)'
      BY <2>6
    <2>8. FlowAt(d, "testing")' => tests'[FlowRun(d)'].status = "running"
      BY <2>6
    <2>9. \A a \in flow'[d].made : Settled(FlowRun(d), a)'
      BY <2>2, <2>4, <2>6 DEF Settled
    <2>10. ManifestArts(FlowRun(d))' = ManifestArts(r)' /\ ManifestArts(FlowRun(d)) = ManifestArts(r)
      BY <2>6 DEF ManifestArts, BootArts
    <2>11. FlowAt(d, "done") /\ flow[d].kind = "test" /\ flow[d].bundle.status \notin {"failed", "refused"}
             => made \cap ManifestArts(r) \subseteq flow[d].bundle.arts
      BY <1>1, <2>2, <2>10 DEF FlowOk
    <2>12. FlowAt(d, "done")' /\ flow'[d].kind = "test" /\ flow'[d].bundle.status \notin {"failed", "refused"}
             => flow'[d].made \cap ManifestArts(FlowRun(d))' \subseteq flow'[d].bundle.arts
      BY <2>2, <2>5, <2>6, <2>10, <2>11
    <2>13. FlowAt(d, "debug")' => flow'[d].kind # "test"
      BY <1>1, <2>6 DEF FlowOk
    <2> QED BY <2>7, <2>8, <2>9, <2>12, <2>13 DEF FlowOk
  <1> QED BY <1>2, <1>3

\* The boot step of the manifest names what it named, and files of a later attempt.
BootGrows(r) ==
    /\ attempts[r] \in Nat /\ attempts'[r] \in Nat /\ attempts[r] <= attempts'[r]
    /\ \A a \in BootArts(r)' : \/ a \in BootArts(r)
                               \/ a[1] \in {"boot-log", "boot-files"} /\ ~(a[2] <= attempts[r])

\* So does the run_tests step.
TestsGrow(r) ==
    /\ ran[r] \in Nat /\ ran'[r] \in Nat /\ ran[r] <= ran'[r]
    /\ tests'[r].status = "running" =>
         \/ tests'[r].id = ran[r] + 1
         \/ tests[r].status = "running" /\ tests'[r].id = tests[r].id
    /\ \A a \in tests'[r].arts : \/ a \in tests[r].arts
                                 \/ a = <<"tests", tests[r].id>> /\ tests[r].status = "running"

\* Then the manifest only grows by what was not settled.
LEMMA ManifestGrows ==
    ASSUME NEW r, BootGrows(r), TestsGrow(r)
    PROVE  Grows(r)
PROOF
  <1>1. SUFFICES ASSUME NEW a \in Paths, Settled(r, a)
                 PROVE  Settled(r, a)' /\ (a \in ManifestArts(r)' => a \in ManifestArts(r))
    BY DEF Grows
  <1>2. a[2] \in Nat
    BY DEF Paths
  <1>3. CASE a[1] \in {"boot-log", "boot-files"} /\ a[2] <= attempts[r]
    <2>1. a[2] <= attempts'[r]
      BY <1>2, <1>3 DEF BootGrows
    <2>2. Settled(r, a)'
      BY <1>3, <2>1 DEF Settled
    <2>3. ASSUME a \in ManifestArts(r)' PROVE a \in ManifestArts(r)
      <3>1. a # <<"build", 0>>
        BY <1>3
      <3>2. a \in BootArts(r)' \/ a \in tests'[r].arts
        BY <2>3, <3>1 DEF ManifestArts
      <3>3. a \in tests'[r].arts => a \in tests[r].arts
        BY <1>3 DEF TestsGrow
      <3>4. a \in BootArts(r)' => a \in BootArts(r)
        BY <1>3 DEF BootGrows
      <3> QED BY <3>2, <3>3, <3>4 DEF ManifestArts
    <2> QED BY <2>2, <2>3
  <1>4. CASE /\ a[1] = "tests" /\ a[2] <= ran[r]
             /\ tests[r].status = "running" => a[2] # tests[r].id
    <2>1. a[2] <= ran'[r] /\ a[2] # ran[r] + 1
      BY <1>2, <1>4 DEF TestsGrow
    <2>2. Settled(r, a)'
      BY <1>4, <2>1 DEF Settled, TestsGrow
    <2>3. ASSUME a \in ManifestArts(r)' PROVE a \in ManifestArts(r)
      <3>1. a # <<"build", 0>>
        BY <1>4
      <3>2. a \in BootArts(r)' \/ a \in tests'[r].arts
        BY <2>3, <3>1 DEF ManifestArts
      <3>3. a \in tests'[r].arts => a \in tests[r].arts
        BY <1>4 DEF TestsGrow
      <3>4. a \in BootArts(r)' => a \in BootArts(r)
        BY <1>4 DEF BootGrows
      <3> QED BY <3>2, <3>3, <3>4 DEF ManifestArts
    <2> QED BY <2>2, <2>3
  <1> QED BY <1>1, <1>3, <1>4 DEF Settled

\* A boot step that is left alone names what it named.
LEMMA BootStepKept ==
    ASSUME BootInv, NEW r \in Runs, step'[r] = step[r], attempts' = attempts,
           \A b \in 1..Len(boots) : boots'[b] = boots[b]
    PROVE  BootGrows(r)
PROOF
  <1>1. step[r].id \in 0..Len(boots) /\ attempts[r] \in Nat /\ Len(boots) \in Nat
    BY BootNumbers
  <1>2. step[r].id # 0 => boots'[step[r].id] = boots[step[r].id]
    BY <1>1
  <1>3. BootArts(r)' = BootArts(r)
    BY <1>2 DEF BootArts, BootFiles
  <1> QED BY <1>1, <1>3 DEF BootGrows

\* The files of a boot are of its attempt.
LEMMA FilesOfAttempt ==
    ASSUME NEW b, NEW kinds \in SUBSET {"boot-log", "boot-files"}, NEW a \in BootFiles(b, kinds)
    PROVE  b # 0 /\ a[1] \in kinds /\ a[2] = boots[b].attempt /\ a = <<a[1], a[2]>>
PROOF BY DEF BootFiles

\* target.boot writes the manifest when it plans, when it cannot plan, and at its end.
LEMMA BootActionsGrow ==
    ASSUME BootInv, NEW r \in Runs, NEW c \in Callers, NEW q \in Runs,
           \/ Provider(c)
           \/ \E force, wait \in BOOLEAN : \/ BootRefused(c, q, force) \/ BootCached(c, q, force)
                                           \/ BootUnplanned(c, q, force)
                                           \/ BootPlanned(c, q, force, wait)
    PROVE  BootGrows(r)
PROOF
  <1>0. /\ step \in [Runs -> [status : {"none", "running", "succeeded", "failed"}, id : 0..Len(boots)]]
        /\ attempts \in [Runs -> 0..Len(boots)] /\ Len(boots) \in Nat
        /\ attempts[r] \in Nat
    BY BootNumbers DEF BootInv, BootTyped
  <1>1. ASSUME UNCHANGED <<boots, step, attempts>> PROVE BootGrows(r)
    BY <1>1, BootStepKept
  <1>2. ASSUME NEW force, BootUnplanned(c, q, force) PROVE BootGrows(r)
    <2>1. /\ step' = [step EXCEPT ![q] = [status |-> "failed", id |-> 0]]
          /\ boots' = boots /\ attempts' = attempts
      BY <1>2 DEF BootUnplanned
    <2>2. CASE r # q
      BY <1>0, <2>1, <2>2, BootStepKept
    <2>3. CASE r = q
      <3>1. step'[r].id = 0
        BY <1>0, <2>1, <2>3
      <3>2. BootArts(r)' = {}
        BY <3>1 DEF BootArts, BootFiles
      <3> QED BY <1>0, <2>1, <3>2 DEF BootGrows
    <2> QED BY <2>2, <2>3
  <1>3. ASSUME NEW force, NEW wait, BootPlanned(c, q, force, wait) PROVE BootGrows(r)
    <2> DEFINE n == Len(boots) + 1
               b == [run |-> q, attempt |-> NextAttempt(q), wait |-> wait]
               s == [status |-> "running", id |-> n]
    <2>1. /\ step' = [step EXCEPT ![q] = s]
          /\ boots' = Append(boots, b) /\ attempts' = attempts
      BY <1>3 DEF BootPlanned, RunningStep
    <2>2. b.attempt = attempts[q] + 1 /\ s.status = "running" /\ s.id = n
      BY DEF NextAttempt
    <2> HIDE DEF b, s
    <2>3. boots'[n] = b /\ \A i \in 1..Len(boots) : boots'[i] = boots[i]
      BY <2>1, AppendProperties DEF BootInv, BootTyped
    <2>4. CASE r # q
      BY <1>0, <2>1, <2>3, <2>4, BootStepKept
    <2>5. CASE r = q
      <3>1. step'[r].id = n /\ step'[r].status = "running" /\ n # 0
        BY <1>0, <2>1, <2>2, <2>5
      <3>2. BootArts(r)' = {<<"boot-log", attempts[r] + 1>>}
        BY <2>2, <2>3, <2>5, <3>1 DEF BootArts, BootFiles
      <3>3. ~(attempts[r] + 1 <= attempts[r])
        BY <1>0
      <3> QED BY <1>0, <2>1, <3>2, <3>3 DEF BootGrows
    <2> QED BY <2>4, <2>5
  <1>4. ASSUME BootRecord(c) PROVE BootGrows(r)
    <2>1. CASE UNCHANGED <<step, attempts>>
      BY <1>1, <1>4, <2>1 DEF BootRecord
    <2>2. CASE /\ step' = [step EXCEPT ![Run(c)] = [status |-> call[c].res, id |-> Boot(c)]]
               /\ attempts' = [attempts EXCEPT ![Run(c)] = @ + 1]
      <3>1. PICK x \in BootCalls : x = call[c] /\ Latest(c, x, locks, step, attempts, boots)
        BY <1>4, InBootTyped DEF BootRecord, At, InBoot, Points
      <3>2. x.run \in Runs /\ x.boot \in 1..Len(boots)
        BY <3>1, BootFields
      <3>3. /\ step' = [step EXCEPT ![x.run] = [status |-> x.res, id |-> x.boot]]
            /\ attempts' = [attempts EXCEPT ![x.run] = @ + 1] /\ boots' = boots
        BY <1>4, <2>2, <3>1 DEF Run, Boot, BootRecord
      <3>4. CASE r # x.run
        <4>1. step'[r] = step[r] /\ attempts'[r] = attempts[r]
          BY <1>0, <3>3, <3>4
        <4>2. BootArts(r)' = BootArts(r)
          BY <3>3, <4>1 DEF BootArts, BootFiles
        <4> QED BY <1>0, <4>1, <4>2 DEF BootGrows
      <3>5. CASE r = x.run
        <4>1. attempts'[r] = attempts[r] + 1 /\ step'[r].id = x.boot
          BY <1>0, <3>3, <3>5
        <4>2. boots[x.boot].attempt = attempts[r] + 1
          BY <3>1, <3>5 DEF Latest
        <4>3. BootArts(r)' \subseteq {<<"boot-log", attempts[r] + 1>>, <<"boot-files", attempts[r] + 1>>}
          BY <3>3, <4>1, <4>2 DEF BootArts, BootFiles
        <4>4. ~(attempts[r] + 1 <= attempts[r])
          BY <1>0
        <4> QED BY <1>0, <4>1, <4>3, <4>4 DEF BootGrows
      <3> QED BY <3>4, <3>5
    <2> QED BY <1>4, <2>1, <2>2 DEF BootRecord
  <1>5. ASSUME NEW force, BootRefused(c, q, force) \/ BootCached(c, q, force) PROVE BootGrows(r)
    BY <1>1, <1>5 DEF BootRefused, BootCached
  <1>6. ASSUME \/ Prepare(c) \/ Reconcile(c) \/ Destroy(c) \/ Define(c) \/ StartDomain(c)
               \/ Stream(c) \/ ProbeDomain(c) \/ Cleanup(c) \/ Finish(c) \/ ProviderRaises(c)
        PROVE  BootGrows(r)
    BY <1>1, <1>6 DEF Prepare, Reconcile, Destroy, Define, StartDomain, Stream, ProbeDomain,
       Cleanup, Finish, ProviderRaises
  <1> QED BY <1>2, <1>3, <1>4, <1>5, <1>6 DEF Provider

\* The tests of a run that no step touches.
LEMMA TestsLeftAlone ==
    ASSUME FlowInv, NEW r \in Runs, tests'[r] = tests[r], ran'[r] = ran[r]
    PROVE  TestsGrow(r)
PROOF BY DEF TestsGrow, FlowInv, FlowTyped, TestsOk

\* A step of target.boot, of the guest or of the operator leaves the workflows where
\* they are.
LEMMA FlowKeptByBoot ==
    ASSUME FlowInv, UNCHANGED flowVars, \A r \in Runs : BootGrows(r),
           \A d \in Callers : call'[d].pc # "idle" => FlowAt(d, "boot") /\ call'[d].run = FlowRun(d)
    PROVE  FlowInv'
PROOF
  <1>1. built' = built /\ tests' = tests /\ ran' = ran /\ bundle' = bundle /\ flow' = flow
    BY DEF flowVars
  <1>2. \A r \in Runs : Grows(r)
    BY <1>1, TestsLeftAlone, ManifestGrows
  <1>3. FlowTyped' /\ TestsOk' /\ OneTests'
    BY <1>1 DEF FlowInv, FlowTyped, TestsOk, OneTests, FlowAt, FlowRun
  <1>4. ASSUME NEW d \in Callers PROVE FlowOk(d)'
    <2>1. FlowAt(d, "testing") => tests'[FlowRun(d)].status = "running"
      BY <1>1 DEF FlowInv, FlowOk
    <2> QED BY <1>1, <1>2, <2>1, FlowLeftAlone
  <1> QED BY <1>3, <1>4 DEF FlowInv

\* A step of one workflow, with what it then knows.
LEMMA FlowMoves ==
    ASSUME BootInv, FlowInv, NEW c \in Callers, NEW y \in {NoFlow} \cup Flows,
           flow' = [flow EXCEPT ![c] = y],
           UNCHANGED <<boots, step, attempts>>,
           \A r \in Runs : TestsGrow(r),
           \A d \in Callers : d # c =>
              /\ call'[d] = call[d]
              /\ FlowAt(d, "testing") =>
                   /\ tests'[FlowRun(d)].status = "running"
                   /\ y.at = "testing" => y.run # FlowRun(d),
           built' \in [Runs -> BOOLEAN], tests' \in [Runs -> TestSteps], ran' \in [Runs -> Nat],
           bundle' \in [Runs -> Bundles], TestsOk', FlowOk(c)'
    PROVE  FlowInv'
PROOF
  <1>1. /\ flow' \in [Callers -> {NoFlow} \cup Flows] /\ flow'[c] = y
        /\ \A d \in Callers : d # c => flow'[d] = flow[d]
    BY DEF FlowInv, FlowTyped
  <1>2. FlowTyped'
    BY <1>1 DEF FlowTyped
  <1>3. ASSUME NEW r \in Runs PROVE Grows(r)
    <2>1. BootGrows(r)
      BY BootStepKept
    <2> QED BY <2>1, ManifestGrows
  <1>4. ASSUME NEW d \in Callers, d # c PROVE FlowOk(d)'
    <2>1. call'[d].pc # "idle" => FlowAt(d, "boot") /\ call'[d].run = FlowRun(d)
      BY <1>4 DEF FlowInv, FlowOk
    <2> QED BY <1>1, <1>3, <1>4, <2>1, FlowLeftAlone
  <1>5. ASSUME NEW d \in Callers, NEW e \in Callers, flow'[d].at = "testing", flow'[e].at = "testing",
               flow'[d].run = flow'[e].run
        PROVE  d = e
    <2>1. CASE d = c /\ e # c
      BY <1>1, <1>5, <2>1 DEF FlowAt, FlowRun
    <2>2. CASE d # c /\ e = c
      BY <1>1, <1>5, <2>2 DEF FlowAt, FlowRun
    <2>3. CASE d # c /\ e # c
      BY <1>1, <1>5, <2>3 DEF FlowInv, OneTests, FlowAt, FlowRun
    <2> QED BY <2>1, <2>2, <2>3
  <1>6. OneTests'
    BY <1>5 DEF OneTests, FlowAt, FlowRun
  <1> QED BY <1>2, <1>4, <1>6 DEF FlowInv

Went(x, at, made, b) == [at |-> at, kind |-> x.kind, run |-> x.run, made |-> made, bundle |-> b]

\* The record of a workflow that went on.
LEMMA WentTyped ==
    ASSUME NEW x \in Flows, NEW at \in {"build", "boot", "tests", "testing", "debug", "collect", "done"},
           NEW made \in SUBSET Paths, NEW b \in Bundles
    PROVE  /\ Went(x, at, made, b) \in Flows /\ Went(x, at, made, b) # NoFlow
           /\ Went(x, at, made, b).at = at /\ Went(x, at, made, b).kind = x.kind
           /\ Went(x, at, made, b).run = x.run /\ Went(x, at, made, b).made = made
           /\ Went(x, at, made, b).bundle = b
PROOF
  <1>1. Went(x, at, made, b).at = at /\ at # "none"
    BY DEF Went
  <1> QED BY <1>1 DEF Flows, Went, NoFlow

\* What the assignments of the workflow make of it: it goes on,
LEMMA WentOn ==
    ASSUME NEW x \in Flows, NEW at
    PROVE  [x EXCEPT !.at = at] = Went(x, at, x.made, x.bundle)
PROOF BY DEF Flows, Went

\* with what it made,
LEMMA WentMade ==
    ASSUME NEW x \in Flows, NEW at, NEW made
    PROVE  [x EXCEPT !.at = at, !.made = made] = Went(x, at, made, x.bundle)
PROOF
  <1>1. [Went(x, at, x.made, x.bundle) EXCEPT !.made = made] = Went(x, at, made, x.bundle)
    BY DEF Went
  <1> QED BY <1>1, WentOn

\* or with its bundle.
LEMMA WentBundle ==
    ASSUME NEW x \in Flows, NEW at, NEW b
    PROVE  [x EXCEPT !.at = at, !.bundle = b] = Went(x, at, x.made, b)
PROOF
  <1>1. [Went(x, at, x.made, x.bundle) EXCEPT !.bundle = b] = Went(x, at, x.made, b)
    BY DEF Went
  <1> QED BY <1>1, WentOn

\* A workflow that goes on, with what it has made, and writes no manifest.
LEMMA FlowGoesOn ==
    ASSUME BootInv, FlowInv, NEW c \in Callers, flow[c].at # "none",
           NEW at \in {"boot", "tests", "debug", "collect", "done"},
           NEW made \in SUBSET Paths,
           flow' = [flow EXCEPT ![c] = Went(flow[c], at, made, flow[c].bundle)],
           UNCHANGED <<boots, step, attempts, tests, ran, bundle>>,
           built' \in [Runs -> BOOLEAN],
           call'[c].pc # "idle" => at = "boot" /\ call'[c].run = flow[c].run,
           \A d \in Callers : d # c => call'[d] = call[d],
           \A a \in made : Settled(flow[c].run, a),
           at \in {"done", "debug"} => flow[c].kind # "test"
    PROVE  FlowInv'
PROOF
  <1>1. PICK x \in Flows : x = flow[c] /\ x.run \in Runs /\ x.bundle \in Bundles
    BY FlowSomewhere DEF FlowInv
  <1>2. PICK y \in Flows : /\ y = Went(x, at, made, x.bundle) /\ y # NoFlow /\ y.at = at
                           /\ y.kind = x.kind /\ y.run = x.run /\ y.made = made
    BY <1>1, WentTyped
  <1>3. flow' = [flow EXCEPT ![c] = y] /\ flow'[c] = y
    BY <1>1, <1>2 DEF FlowInv, FlowTyped
  <1>4. \A r \in Runs : TestsGrow(r)
    BY TestsLeftAlone
  <1>5. FlowOk(c)'
    <2>1. \A a \in y.made : Settled(y.run, a)'
      BY <1>1, <1>2 DEF Settled
    <2> QED BY <1>1, <1>2, <1>3, <2>1 DEF FlowOk, FlowAt, FlowRun, Settled
  <1>6. /\ tests' \in [Runs -> TestSteps] /\ ran' \in [Runs -> Nat]
        /\ bundle' \in [Runs -> Bundles] /\ TestsOk'
    BY DEF FlowInv, FlowTyped, TestsOk
  <1>7. \A d \in Callers : d # c =>
              /\ call'[d] = call[d]
              /\ FlowAt(d, "testing") =>
                   /\ tests'[FlowRun(d)].status = "running"
                   /\ y.at = "testing" => y.run # FlowRun(d)
    BY <1>2 DEF FlowInv, FlowOk
  <1> QED BY <1>2, <1>3, <1>4, <1>5, <1>6, <1>7, FlowMoves

\* What a workflow has made is settled.
LEMMA MadeSettled ==
    ASSUME FlowInv, NEW c \in Callers, flow[c].at # "none"
    PROVE  flow[c].made \in SUBSET Paths /\ \A a \in flow[c].made : Settled(flow[c].run, a)
PROOF BY FlowSomewhere DEF FlowInv, FlowOk, FlowRun

\* No call is made but to target.boot.
LEMMA NoCallElsewhere ==
    ASSUME FlowInv, NEW c \in Callers, flow[c].at # "boot"
    PROVE  call[c].pc = "idle"
PROOF BY DEF FlowInv, FlowOk, FlowAt

\* A workflow begins with nothing made.
LEMMA FlowBegins ==
    ASSUME BootInv, FlowInv, NEW c \in Callers, NEW kind \in Kinds, NEW r \in Runs,
           FlowBegin(c, kind, r)
    PROVE  FlowInv'
PROOF
  <1> DEFINE y == [at |-> IF kind = "boot" THEN "boot" ELSE "build", kind |-> kind, run |-> r,
                   made |-> {}, bundle |-> NoBundle]
  <1>1. /\ UNCHANGED <<boots, step, attempts>> /\ call' = call /\ call[c].pc = "idle"
        /\ built' = built /\ tests' = tests /\ ran' = ran /\ bundle' = bundle
        /\ flow' = [flow EXCEPT ![c] = y]
    BY DEF FlowBegin, bootVars, At
  <1>2. y \in Flows /\ y.at \in {"build", "boot"} /\ y.made = {}
    BY DEF Flows, Bundles, NoBundle
  <1> HIDE DEF y
  <1>3. flow'[c] = y
    BY <1>1 DEF FlowInv, FlowTyped
  <1>4. \A q \in Runs : TestsGrow(q)
    BY <1>1, TestsLeftAlone
  <1>5. FlowOk(c)'
    BY <1>1, <1>2, <1>3 DEF FlowOk, FlowAt, FlowRun
  <1>6. /\ built' \in [Runs -> BOOLEAN] /\ tests' \in [Runs -> TestSteps] /\ ran' \in [Runs -> Nat]
        /\ bundle' \in [Runs -> Bundles] /\ TestsOk'
    BY <1>1 DEF FlowInv, FlowTyped, TestsOk
  <1>7. \A d \in Callers : d # c =>
              /\ call'[d] = call[d]
              /\ FlowAt(d, "testing") =>
                   /\ tests'[FlowRun(d)].status = "running"
                   /\ y.at = "testing" => y.run # FlowRun(d)
    BY <1>1, <1>2 DEF FlowInv, FlowOk
  <1> QED BY <1>1, <1>2, <1>4, <1>5, <1>6, <1>7, FlowMoves

\* The build.
LEMMA FlowBuilds ==
    ASSUME BootInv, FlowInv, NEW c \in Callers, FlowBuild(c)
    PROVE  FlowInv'
PROOF
  <1>1. /\ flow[c].at = "build" /\ UNCHANGED <<boots, step, attempts, tests, ran, bundle>> /\ call' = call
    BY DEF FlowBuild, FlowAt, bootVars
  <1>2. PICK x \in Flows : x = flow[c] /\ x.run \in Runs /\ x.kind \in Kinds
    BY <1>1, FlowSomewhere DEF FlowInv
  <1>3. built' \in [Runs -> BOOLEAN]
    <2>1. built \in [Runs -> BOOLEAN] /\ [built EXCEPT ![FlowRun(c)] = TRUE] \in [Runs -> BOOLEAN]
      BY <1>2 DEF FlowInv, FlowTyped
    <2> QED BY <2>1 DEF FlowBuild
  <1>4. call'[c].pc = "idle"
    BY <1>1, NoCallElsewhere
  <1>5. PICK at \in {"boot", "collect", "done"} :
          flow' = [flow EXCEPT ![c].at = at] /\ (at = "done" => x.kind # "test")
    BY <1>2 DEF FlowBuild, AfterFailure
  <1>6. flow' = [flow EXCEPT ![c] = Went(flow[c], at, flow[c].made, flow[c].bundle)]
    BY <1>2, <1>5, WentOn
  <1>7. flow[c].made \in SUBSET Paths /\ \A a \in flow[c].made : Settled(flow[c].run, a)
    BY <1>1, MadeSettled
  <1>8. /\ at \in {"boot", "tests", "debug", "collect", "done"}
        /\ at \in {"done", "debug"} => flow[c].kind # "test"
    BY <1>2, <1>5
  <1>9. call'[c].pc # "idle" => at = "boot" /\ call'[c].run = flow[c].run
    BY <1>4
  <1>10. /\ UNCHANGED <<boots, step, attempts, tests, ran, bundle>> /\ flow[c].at # "none"
         /\ \A d \in Callers : d # c => call'[d] = call[d]
    BY <1>1
  <1> QED BY <1>3, <1>6, <1>7, <1>8, <1>9, <1>10, FlowGoesOn

\* The debug session.
LEMMA FlowDebugs ==
    ASSUME BootInv, FlowInv, NEW c \in Callers, FlowDebug(c)
    PROVE  FlowInv'
PROOF
  <1>1. /\ flow[c].at = "debug" /\ UNCHANGED <<boots, step, attempts, tests, ran, bundle>> /\ call' = call
        /\ built' = built /\ flow' = [flow EXCEPT ![c].at = "done"]
    BY DEF FlowDebug, FlowAt, bootVars
  <1>2. PICK x \in Flows : x = flow[c] /\ x.run \in Runs
    BY <1>1, FlowSomewhere DEF FlowInv
  <1>3. call'[c].pc = "idle" /\ built' \in [Runs -> BOOLEAN]
    BY <1>1, NoCallElsewhere DEF FlowInv, FlowTyped
  <1>4. flow' = [flow EXCEPT ![c] = Went(flow[c], "done", flow[c].made, flow[c].bundle)]
    BY <1>1, <1>2, WentOn
  <1>5. flow[c].made \in SUBSET Paths /\ \A a \in flow[c].made : Settled(flow[c].run, a)
    BY <1>1, MadeSettled
  <1>6. "done" \in {"done", "debug"} => flow[c].kind # "test"
    BY <1>1 DEF FlowInv, FlowOk, FlowAt
  <1>7. call'[c].pc # "idle" => "done" = "boot" /\ call'[c].run = flow[c].run
    BY <1>3
  <1>8. /\ UNCHANGED <<boots, step, attempts, tests, ran, bundle>> /\ flow[c].at # "none"
        /\ \A d \in Callers : d # c => call'[d] = call[d]
    BY <1>1
  <1> QED BY <1>3, <1>4, <1>5, <1>6, <1>7, <1>8, FlowGoesOn

\* target.boot answered, with the files of a boot that is recorded.
LEMMA FlowTakesAnswer ==
    ASSUME BootInv, FlowInv, NEW c \in Callers, FlowBooted(c)
    PROVE  FlowInv'
PROOF
  <1> DEFINE b == call[c].of
             made == BootFiles(b, {"boot-log", "boot-files"})
  <1>1. /\ flow[c].at = "boot" /\ call[c].pc = "booted"
        /\ call' = [call EXCEPT ![c] = Idle]
        /\ UNCHANGED <<boots, step, attempts, tests, ran, bundle>> /\ built' = built
    BY DEF FlowBooted, FlowAt, At
  <1>2. PICK x \in Flows : x = flow[c] /\ x.run \in Runs /\ x.kind \in Kinds
    BY <1>1, FlowSomewhere DEF FlowInv
  <1>3. call[c].run = flow[c].run
    BY <1>1 DEF FlowInv, FlowOk, FlowRun
  <1>4. call[c] \in BootedCalls
    <2>1. Idle.pc # "booted"
      BY DEF Idle
    <2>2. ASSUME NEW z \in BootCalls PROVE z.pc # "booted"
      BY DEF BootCalls, Points, ProviderPoints
    <2> QED BY <1>1, <2>1, <2>2 DEF BootInv, BootTyped
  <1>5. b # 0 => b \in 1..Len(boots) /\ boots[b].attempt \in Nat /\ boots[b].attempt <= attempts[flow[c].run]
    <2>1. SUFFICES ASSUME b # 0
                   PROVE  b \in 1..Len(boots) /\ boots[b].attempt \in Nat
                          /\ boots[b].attempt <= attempts[flow[c].run]
      OBVIOUS
    <2>2. b \in 0..MaxBoots
      BY <1>4 DEF BootedCalls
    <2>3. b <= Len(boots) /\ boots[b].attempt <= attempts[flow[c].run]
      BY <1>1, <1>3, <2>1 DEF BootInv, AnswerOk
    <2>4. b \in 1..Len(boots)
      BY <2>1, <2>2, <2>3, BootNumbers, BootAssumption
    <2> QED BY <2>3, <2>4, BootNumbers
  <1> HIDE DEF b
  <1>6. made \in SUBSET Paths
    BY <1>5 DEF BootFiles, Paths
  <1>7. \A a \in made : Settled(flow[c].run, a)
    <2>1. SUFFICES ASSUME NEW a \in made PROVE Settled(flow[c].run, a)
      OBVIOUS
    <2>2. a[1] \in {"boot-log", "boot-files"} /\ a[2] = boots[b].attempt /\ b # 0
      BY FilesOfAttempt
    <2> QED BY <1>5, <2>2 DEF Settled
  <1>8. PICK at \in {"tests", "debug", "collect", "done"} :
          /\ flow' = [flow EXCEPT ![c].at = at, ![c].made = made]
          /\ at \in {"done", "debug"} => x.kind # "test"
    <2>1. CASE call[c].res = "succeeded"
      <3>1. CASE x.kind = "boot"
        BY <1>2, <2>1, <3>1 DEF FlowBooted, b
      <3>2. CASE x.kind = "test"
        BY <1>2, <2>1, <3>2 DEF FlowBooted, b
      <3>3. CASE x.kind = "debug"
        BY <1>2, <2>1, <3>3 DEF FlowBooted, b
      <3> QED BY <1>2, <3>1, <3>2, <3>3 DEF Kinds
    <2>2. CASE call[c].res # "succeeded"
      BY <1>2, <2>2 DEF FlowBooted, AfterFailure, b
    <2> QED BY <2>1, <2>2
  <1> HIDE DEF made
  <1>9. flow' = [flow EXCEPT ![c] = Went(flow[c], at, made, flow[c].bundle)]
    <2>1. flow' = [flow EXCEPT ![c] = [flow[c] EXCEPT !.at = at, !.made = made]]
      BY <1>8
    <2>2. [x EXCEPT !.at = at, !.made = made] = Went(x, at, made, x.bundle)
      BY WentMade
    <2> QED BY <1>2, <2>1, <2>2
  <1>10. /\ at \in {"boot", "tests", "debug", "collect", "done"}
         /\ at \in {"done", "debug"} => flow[c].kind # "test"
    BY <1>2, <1>8
  <1>11. call \in [Callers -> {Idle} \cup BootedCalls \cup BootCalls]
    BY DEF BootInv, BootTyped
  <1>12. /\ call'[c].pc # "idle" => at = "boot" /\ call'[c].run = flow[c].run
         /\ \A d \in Callers : d # c => call'[d] = call[d]
    BY <1>1, <1>11 DEF Idle
  <1>13. /\ UNCHANGED <<boots, step, attempts, tests, ran, bundle>> /\ flow[c].at # "none"
         /\ built' \in [Runs -> BOOLEAN]
    BY <1>1 DEF FlowInv, FlowTyped
  <1> QED BY <1>6, <1>7, <1>9, <1>10, <1>12, <1>13, FlowGoesOn

\* The recorded tests answer, or none.
LEMMA FlowTakesTests ==
    ASSUME BootInv, FlowInv, NEW c \in Callers, TestsAnswered(c)
    PROVE  FlowInv'
PROOF
  <1>1. /\ flow[c].at = "tests" /\ UNCHANGED <<boots, step, attempts, tests, ran, bundle>> /\ call' = call
        /\ built' = built
    BY DEF TestsAnswered, FlowAt, bootVars
  <1>2. PICK x \in Flows : x = flow[c] /\ x.run \in Runs
    BY <1>1, FlowSomewhere DEF FlowInv
  <1>3. x.made \in SUBSET Paths /\ \A a \in x.made : Settled(x.run, a)
    BY <1>1, <1>2, MadeSettled
  <1>4. PICK new : /\ TestsDone(c, new)
                   /\ \/ new = {}
                      \/ new = tests[x.run].arts /\ tests[x.run].status # "running"
    BY <1>2 DEF TestsAnswered, FlowRun
  <1>5. /\ tests[x.run] \in TestSteps /\ tests[x.run].arts \subseteq {<<"tests", tests[x.run].id>>}
        /\ tests[x.run].id = ran[x.run] /\ ran[x.run] \in Nat
    BY <1>2 DEF FlowInv, FlowTyped, TestsOk
  <1>6. x.made \cup new \in SUBSET Paths
    BY <1>3, <1>4, <1>5 DEF TestSteps
  <1>7. \A a \in x.made \cup new : Settled(x.run, a)
    <2>1. SUFFICES ASSUME NEW a \in new PROVE Settled(x.run, a)
      BY <1>3
    <2>2. a = <<"tests", ran[x.run]>> /\ tests[x.run].status # "running"
      BY <1>4, <1>5, <2>1
    <2>3. ran[x.run] <= ran[x.run]
      BY <1>5
    <2> QED BY <2>2, <2>3 DEF Settled
  <1>8. flow' = [flow EXCEPT ![c] = Went(flow[c], "collect", flow[c].made \cup new, flow[c].bundle)]
    <2>1. flow' = [flow EXCEPT ![c] = [x EXCEPT !.at = "collect", !.made = x.made \cup new]]
      BY <1>2, <1>4 DEF TestsDone, Flows
    <2>2. [x EXCEPT !.at = "collect", !.made = x.made \cup new]
             = Went(x, "collect", x.made \cup new, x.bundle)
      BY WentMade
    <2> QED BY <1>2, <2>1, <2>2
  <1>9. /\ flow[c].made \cup new \in SUBSET Paths
        /\ \A a \in flow[c].made \cup new : Settled(flow[c].run, a)
    BY <1>2, <1>6, <1>7
  <1>10. call'[c].pc # "idle" => "collect" = "boot" /\ call'[c].run = flow[c].run
    BY <1>1, NoCallElsewhere
  <1>11. /\ UNCHANGED <<boots, step, attempts, tests, ran, bundle>> /\ flow[c].at # "none"
         /\ \A d \in Callers : d # c => call'[d] = call[d]
         /\ built' \in [Runs -> BOOLEAN]
         /\ "collect" \in {"done", "debug"} => flow[c].kind # "test"
    BY <1>1 DEF FlowInv, FlowTyped
  <1> QED BY <1>8, <1>9, <1>10, <1>11, FlowGoesOn

\* Tests begin where none are in progress.
LEMMA FlowTestsBegin ==
    ASSUME BootInv, FlowInv, NEW c \in Callers, TestsBegin(c)
    PROVE  FlowInv'
PROOF
  <1>1. /\ flow[c].at = "tests" /\ UNCHANGED <<boots, step, attempts>> /\ call' = call
        /\ built' = built /\ bundle' = bundle
        /\ flow' = [flow EXCEPT ![c].at = "testing"]
    BY DEF TestsBegin, FlowAt, bootVars
  <1>2. PICK x \in Flows : x = flow[c] /\ x.run \in Runs /\ x.bundle \in Bundles
    BY <1>1, FlowSomewhere DEF FlowInv
  <1>3. x.made \in SUBSET Paths /\ \A a \in x.made : Settled(x.run, a)
    BY <1>1, <1>2, MadeSettled
  <1> DEFINE r == x.run
             t == [status |-> "running", id |-> ran[r] + 1, arts |-> {}]
  <1>4. /\ ran' = [ran EXCEPT ![r] = @ + 1] /\ tests' = [tests EXCEPT ![r] = t]
        /\ \A d \in Callers : FlowAt(d, "testing") => FlowRun(d) # r
    BY <1>2 DEF TestsBegin, FlowRun
  <1>5. tests \in [Runs -> TestSteps] /\ ran \in [Runs -> Nat] /\ ran[r] \in Nat /\ r \in Runs
    BY <1>2 DEF FlowInv, FlowTyped
  <1>6. t \in TestSteps /\ t.status = "running" /\ t.id = ran[r] + 1 /\ t.arts = {}
    BY <1>5 DEF TestSteps
  <1> HIDE DEF r, t
  <1>7. /\ tests' \in [Runs -> TestSteps] /\ tests'[r] = t /\ ran' \in [Runs -> Nat]
        /\ ran'[r] = ran[r] + 1
        /\ \A q \in Runs : q # r => tests'[q] = tests[q] /\ ran'[q] = ran[q]
    BY <1>4, <1>5, <1>6
  <1>8. ASSUME NEW q \in Runs PROVE TestsGrow(q)
    <2>1. CASE q = r
      BY <1>5, <1>6, <1>7, <2>1 DEF TestsGrow
    <2>2. CASE q # r
      BY <1>7, <2>2, TestsLeftAlone
    <2> QED BY <2>1, <2>2
  <1>9. TestsOk'
    <2>1. SUFFICES ASSUME NEW q \in Runs
                   PROVE  /\ tests'[q].id = ran'[q]
                          /\ tests'[q].arts \subseteq {<<"tests", tests'[q].id>>}
                          /\ tests'[q].status = "running" => tests'[q].arts = {}
      BY DEF TestsOk
    <2>2. CASE q = r
      BY <1>6, <1>7, <2>2
    <2>3. CASE q # r
      BY <1>7, <2>3 DEF FlowInv, TestsOk
    <2> QED BY <2>2, <2>3
  <1>10. Grows(r)
    BY <1>1, <1>5, <1>8, BootStepKept, ManifestGrows
  <1>11. PICK y \in Flows : /\ y = Went(x, "testing", x.made, x.bundle) /\ y # NoFlow
                            /\ y.at = "testing" /\ y.run = x.run /\ y.made = x.made
    BY <1>2, <1>3, WentTyped
  <1>12. flow' = [flow EXCEPT ![c] = y] /\ flow'[c] = y
    <2>1. [x EXCEPT !.at = "testing"] = y
      BY <1>11, WentOn
    <2>2. flow' = [flow EXCEPT ![c] = [x EXCEPT !.at = "testing"]]
      BY <1>1, <1>2
    <2>3. flow \in [Callers -> {NoFlow} \cup Flows]
      BY DEF FlowInv, FlowTyped
    <2> QED BY <2>1, <2>2, <2>3
  <1>13. call'[c].pc = "idle"
    BY <1>1, NoCallElsewhere
  <1>14. FlowOk(c)'
    <2>1. \A a \in x.made : Settled(r, a)'
      BY <1>3, <1>10 DEF Grows, r
    <2>2. FlowRun(c)' = r /\ flow'[c].made = x.made /\ flow'[c].at = "testing"
      BY <1>11, <1>12 DEF FlowRun, r
    <2>3. \A a \in flow'[c].made : Settled(FlowRun(c), a)'
      BY <2>1, <2>2 DEF Settled
    <2>4. tests'[FlowRun(c)'].status = "running"
      BY <1>6, <1>7, <2>2
    <2> QED BY <1>13, <2>2, <2>3, <2>4 DEF FlowOk, FlowAt
  <1>15. \A d \in Callers : d # c =>
              /\ call'[d] = call[d]
              /\ FlowAt(d, "testing") =>
                   /\ tests'[FlowRun(d)].status = "running"
                   /\ y.at = "testing" => y.run # FlowRun(d)
    <2>1. SUFFICES ASSUME NEW d \in Callers, d # c, FlowAt(d, "testing")
                   PROVE  tests'[FlowRun(d)].status = "running" /\ y.run # FlowRun(d)
      BY <1>1
    <2>2. FlowRun(d) # r /\ FlowRun(d) \in Runs
      BY <1>4, <2>1, FlowSomewhere DEF FlowAt, FlowRun, FlowInv
    <2> QED BY <1>7, <1>11, <2>1, <2>2 DEF FlowInv, FlowOk, r
  <1>16. built' \in [Runs -> BOOLEAN] /\ bundle' \in [Runs -> Bundles]
    BY <1>1 DEF FlowInv, FlowTyped
  <1>17. UNCHANGED <<boots, step, attempts>>
    BY <1>1
  <1>18. tests' \in [Runs -> TestSteps] /\ ran' \in [Runs -> Nat]
    BY <1>7
  <1>19. y \in Flows /\ flow' = [flow EXCEPT ![c] = y]
    BY <1>12
  <1> QED BY <1>8, <1>9, <1>14, <1>15, <1>16, <1>17, <1>18, <1>19, FlowMoves

\* The result of the tests, with or without their files.
LEMMA FlowTestsEnd ==
    ASSUME BootInv, FlowInv, NEW c \in Callers, TestsEnd(c)
    PROVE  FlowInv'
PROOF
  <1>1. /\ flow[c].at = "testing" /\ UNCHANGED <<boots, step, attempts>> /\ call' = call
        /\ built' = built /\ bundle' = bundle /\ ran' = ran
    BY DEF TestsEnd, FlowAt, bootVars
  <1>2. PICK x \in Flows : x = flow[c] /\ x.run \in Runs /\ x.bundle \in Bundles
    BY <1>1, FlowSomewhere DEF FlowInv
  <1>3. x.made \in SUBSET Paths /\ \A a \in x.made : Settled(x.run, a)
    BY <1>1, <1>2, MadeSettled
  <1>4. /\ tests \in [Runs -> TestSteps] /\ ran \in [Runs -> Nat] /\ ran[x.run] \in Nat
        /\ tests[x.run] \in TestSteps /\ tests[x.run].id = ran[x.run]
        /\ tests[x.run].status = "running"
    BY <1>1, <1>2 DEF FlowInv, FlowTyped, TestsOk, FlowOk, FlowAt, FlowRun
  <1>5. PICK status \in {"succeeded", "failed"}, arts \in {{}, {<<"tests", tests[x.run].id>>}} :
          /\ tests' = [tests EXCEPT ![x.run].status = status, ![x.run].arts = arts]
          /\ TestsDone(c, arts)
    BY <1>2 DEF TestsEnd, FlowRun
  <1>6. PICK r \in Runs, t \in TestSteps :
          /\ r = x.run /\ tests' = [tests EXCEPT ![r] = t]
          /\ t.status = status /\ t.id = ran[r] /\ t.arts = arts
    <2>1. [tests[x.run] EXCEPT !.status = status, !.arts = arts]
             = [status |-> status, id |-> tests[x.run].id, arts |-> arts]
      <3>1. [tests[x.run] EXCEPT !.status = status]
               = [status |-> status, id |-> tests[x.run].id, arts |-> tests[x.run].arts]
        BY <1>4 DEF TestSteps
      <3>2. [[status |-> status, id |-> tests[x.run].id, arts |-> tests[x.run].arts] EXCEPT !.arts = arts]
               = [status |-> status, id |-> tests[x.run].id, arts |-> arts]
        OBVIOUS
      <3> QED BY <3>1, <3>2
    <2>2. arts \in SUBSET Paths
      BY <1>4, <1>5 DEF Paths
    <2>3. [status |-> status, id |-> tests[x.run].id, arts |-> arts] \in TestSteps
      BY <1>4, <2>2 DEF TestSteps
    <2>4. tests' = [tests EXCEPT ![x.run] = [status |-> status, id |-> tests[x.run].id, arts |-> arts]]
      BY <1>5, <2>1
    <2> QED BY <1>2, <1>4, <2>3, <2>4
  <1>7. /\ tests' \in [Runs -> TestSteps] /\ tests'[r] = t
        /\ \A q \in Runs : q # r => tests'[q] = tests[q]
    BY <1>4, <1>6
  <1>8. ASSUME NEW q \in Runs PROVE TestsGrow(q)
    <2>1. CASE q = r
      <3>1. t.status # "running"
        BY <1>5, <1>6
      <3>2. t.arts = {} \/ t.arts = {<<"tests", tests[r].id>>}
        BY <1>5, <1>6
      <3> QED BY <1>1, <1>4, <1>6, <1>7, <2>1, <3>1, <3>2 DEF TestsGrow
    <2>2. CASE q # r
      BY <1>1, <1>7, <2>2, TestsLeftAlone
    <2> QED BY <2>1, <2>2
  <1>9. TestsOk'
    <2>1. SUFFICES ASSUME NEW q \in Runs
                   PROVE  /\ tests'[q].id = ran'[q]
                          /\ tests'[q].arts \subseteq {<<"tests", tests'[q].id>>}
                          /\ tests'[q].status = "running" => tests'[q].arts = {}
      BY DEF TestsOk
    <2>2. CASE q = r
      <3>1. t.status # "running" /\ t.arts \subseteq {<<"tests", t.id>>}
        BY <1>4, <1>5, <1>6
      <3> QED BY <1>1, <1>6, <1>7, <2>2, <3>1
    <2>3. CASE q # r
      BY <1>1, <1>7, <2>3 DEF FlowInv, TestsOk
    <2> QED BY <2>2, <2>3
  <1>10. Grows(r)
    BY <1>1, <1>8, BootStepKept, ManifestGrows
  <1>11. x.made \cup arts \in SUBSET Paths
    BY <1>3, <1>6 DEF TestSteps
  <1>12. PICK y \in Flows : /\ y = Went(x, "collect", x.made \cup arts, x.bundle) /\ y # NoFlow
                            /\ y.at = "collect" /\ y.run = r /\ y.made = x.made \cup arts
    BY <1>2, <1>6, <1>11, WentTyped
  <1>13. flow' = [flow EXCEPT ![c] = y]
    <2>1. flow' = [flow EXCEPT ![c] = [x EXCEPT !.at = "collect", !.made = x.made \cup arts]]
      BY <1>2, <1>5 DEF TestsDone, Flows
    <2>2. [x EXCEPT !.at = "collect", !.made = x.made \cup arts] = y
      BY <1>12, WentMade
    <2> QED BY <2>1, <2>2
  <1>14. flow'[c] = y
    BY <1>13 DEF FlowInv, FlowTyped
  <1>15. call'[c].pc = "idle"
    BY <1>1, NoCallElsewhere
  <1>16. FlowOk(c)'
    <2>1. \A a \in x.made : Settled(r, a)'
      BY <1>3, <1>6, <1>10 DEF Grows
    <2>2. \A a \in arts : Settled(r, a)'
      <3>1. SUFFICES ASSUME NEW a \in arts PROVE Settled(r, a)'
        OBVIOUS
      <3>2. a = <<"tests", ran[r]>>
        BY <1>4, <1>5, <1>6
      <3>3. ran'[r] = ran[r] /\ ran[r] <= ran[r] /\ tests'[r].status # "running"
        BY <1>1, <1>4, <1>5, <1>6, <1>7
      <3> QED BY <3>2, <3>3 DEF Settled
    <2>3. FlowRun(c)' = r /\ flow'[c].made = x.made \cup arts /\ flow'[c].at = "collect"
      BY <1>12, <1>14 DEF FlowRun
    <2>4. \A a \in flow'[c].made : Settled(FlowRun(c), a)'
      BY <2>1, <2>2, <2>3 DEF Settled
    <2> QED BY <1>15, <2>3, <2>4 DEF FlowOk, FlowAt
  <1>17. \A d \in Callers : d # c =>
              /\ call'[d] = call[d]
              /\ FlowAt(d, "testing") =>
                   /\ tests'[FlowRun(d)].status = "running"
                   /\ y.at = "testing" => y.run # FlowRun(d)
    <2>1. SUFFICES ASSUME NEW d \in Callers, d # c, FlowAt(d, "testing")
                   PROVE  tests'[FlowRun(d)].status = "running"
      BY <1>1, <1>12
    <2>2. FlowRun(d) # r
      BY <1>1, <1>2, <1>6, <2>1 DEF FlowInv, OneTests, FlowAt, FlowRun
    <2>3. FlowRun(d) \in Runs
      BY <2>1, FlowSomewhere DEF FlowAt, FlowRun, FlowInv
    <2> QED BY <1>7, <2>1, <2>2, <2>3 DEF FlowInv, FlowOk
  <1>18. built' \in [Runs -> BOOLEAN] /\ bundle' \in [Runs -> Bundles] /\ ran' \in [Runs -> Nat]
    BY <1>1 DEF FlowInv, FlowTyped
  <1>19. UNCHANGED <<boots, step, attempts>>
    BY <1>1
  <1> QED BY <1>7, <1>8, <1>9, <1>12, <1>13, <1>16, <1>17, <1>18, <1>19, FlowMoves

\* The steps of a manifest name files.
LEMMA ManifestNamesFiles ==
    ASSUME BootInv, FlowInv, NEW r \in Runs
    PROVE  ManifestArts(r) \in SUBSET Paths
PROOF
  <1>1. <<"build", 0>> \in Paths
    BY DEF Paths
  <1>2. tests[r].arts \in SUBSET Paths
    BY DEF FlowInv, FlowTyped, TestSteps
  <1>3. step[r].id # 0 => boots[step[r].id].attempt \in Nat
    BY BootNumbers
  <1>4. BootArts(r) \in SUBSET Paths
    BY <1>3 DEF BootArts, BootFiles, Paths
  <1> QED BY <1>1, <1>2, <1>4 DEF ManifestArts

\* The collection names what the manifest does, or is that of the manifest already.
LEMMA FlowCollects ==
    ASSUME BootInv, FlowInv, NEW c \in Callers, FlowCollect(c)
    PROVE  FlowInv'
PROOF
  <1>1. /\ flow[c].at = "collect" /\ UNCHANGED <<boots, step, attempts>> /\ call' = call
        /\ built' = built /\ tests' = tests /\ ran' = ran
    BY DEF FlowCollect, FlowAt, bootVars
  <1>2. PICK x \in Flows : x = flow[c] /\ x.run \in Runs
    BY <1>1, FlowSomewhere DEF FlowInv
  <1>3. x.made \in SUBSET Paths /\ \A a \in x.made : Settled(x.run, a)
    BY <1>1, <1>2, MadeSettled
  <1>4. PICK r \in Runs : r = x.run /\ r = FlowRun(c)
    BY <1>2 DEF FlowRun
  <1>5. bundle \in [Runs -> Bundles] /\ ManifestArts(r) \in SUBSET Paths
    BY ManifestNamesFiles DEF FlowInv, FlowTyped
  <1>6. PICK b \in Bundles :
          /\ CollectDone(c, b) /\ bundle' \in [Runs -> Bundles]
          /\ b.status \notin {"failed", "refused"} => ManifestArts(r) \subseteq b.arts
    <2>1. CASE /\ bundle[r].status = "succeeded" /\ Covers(r)
               /\ CollectDone(c, bundle[r]) /\ UNCHANGED bundle
      BY <1>5, <2>1 DEF Covers
    <2>2. ASSUME NEW b \in {[status |-> "succeeded", arts |-> ManifestArts(r)],
                            [status |-> "failed", arts |-> {}]},
                 bundle' = [bundle EXCEPT ![r] = b], CollectDone(c, b)
          PROVE  /\ b \in Bundles /\ bundle' \in [Runs -> Bundles]
                 /\ b.status \notin {"failed", "refused"} => ManifestArts(r) \subseteq b.arts
      <3>1. b \in Bundles /\ (b.status \notin {"failed", "refused"} => ManifestArts(r) \subseteq b.arts)
        BY <1>5, <2>2 DEF Bundles
      <3> HIDE DEF ManifestArts
      <3> QED BY <1>5, <2>2, <3>1
    <2>3. CASE CollectDone(c, [NoBundle EXCEPT !.status = "refused"]) /\ UNCHANGED bundle
      BY <1>5, <2>3 DEF NoBundle, Bundles
    <2> QED BY <1>4, <2>1, <2>2, <2>3 DEF FlowCollect
  <1>7. PICK y \in Flows : /\ y = Went(x, "done", x.made, b) /\ y # NoFlow
                           /\ y.at = "done" /\ y.run = r /\ y.made = x.made /\ y.bundle = b
    <2> DEFINE z == Went(x, "done", x.made, b)
    <2>1. /\ z \in Flows /\ z # NoFlow /\ z.at = "done" /\ z.run = x.run
          /\ z.made = x.made /\ z.bundle = b
      BY <1>3, WentTyped
    <2> HIDE DEF z
    <2>2. z.run = r
      BY <1>4, <2>1
    <2> QED BY <2>1, <2>2 DEF z
  <1>8. flow' = [flow EXCEPT ![c] = y]
    <2>1. flow' = [flow EXCEPT ![c] = [x EXCEPT !.at = "done", !.bundle = b]]
      BY <1>2, <1>6 DEF CollectDone
    <2>2. [x EXCEPT !.at = "done", !.bundle = b] = Went(x, "done", x.made, b)
      BY WentBundle
    <2>3. [x EXCEPT !.at = "done", !.bundle = b] = y
      BY <1>7, <2>2
    <2> QED BY <2>1, <2>3
  <1>9. flow'[c] = y
    BY <1>8 DEF FlowInv, FlowTyped
  <1>10. call'[c].pc = "idle"
    BY <1>1, NoCallElsewhere
  <1>11. FlowOk(c)'
    <2>1. FlowRun(c)' = r /\ flow'[c].made = x.made /\ flow'[c].at = "done" /\ flow'[c].bundle = b
      BY <1>7, <1>9 DEF FlowRun
    <2>2. \A a \in flow'[c].made : Settled(FlowRun(c), a)'
      BY <1>1, <1>3, <1>4, <2>1 DEF Settled
    <2>3. ManifestArts(FlowRun(c))' = ManifestArts(r)
      BY <1>1, <2>1 DEF ManifestArts, BootArts, BootFiles
    <2>4. b.status \notin {"failed", "refused"} =>
             flow'[c].made \cap ManifestArts(FlowRun(c))' \subseteq flow'[c].bundle.arts
      BY <1>6, <2>1, <2>3
    <2> QED BY <1>10, <2>1, <2>2, <2>4 DEF FlowOk, FlowAt
  <1>12. \A q \in Runs : TestsGrow(q)
    BY <1>1, TestsLeftAlone
  <1>13. \A d \in Callers : d # c =>
              /\ call'[d] = call[d]
              /\ FlowAt(d, "testing") =>
                   /\ tests'[FlowRun(d)].status = "running"
                   /\ y.at = "testing" => y.run # FlowRun(d)
    BY <1>1, <1>7 DEF FlowInv, FlowOk
  <1>14. /\ built' \in [Runs -> BOOLEAN] /\ tests' \in [Runs -> TestSteps] /\ ran' \in [Runs -> Nat]
         /\ TestsOk' /\ bundle' \in [Runs -> Bundles] /\ UNCHANGED <<boots, step, attempts>>
    BY <1>1, <1>6 DEF FlowInv, FlowTyped, TestsOk
  <1> QED BY <1>7, <1>8, <1>11, <1>12, <1>13, <1>14, FlowMoves

\* The workflow answers.
LEMMA FlowAnswers ==
    ASSUME BootInv, FlowInv, NEW c \in Callers, FlowAnswer(c)
    PROVE  FlowInv'
PROOF
  <1>1. /\ flow[c].at = "done" /\ UNCHANGED <<boots, step, attempts>> /\ call' = call
        /\ built' = built /\ tests' = tests /\ ran' = ran /\ bundle' = bundle
        /\ flow' = [flow EXCEPT ![c] = NoFlow]
    BY DEF FlowAnswer, FlowAt, bootVars
  <1>2. flow'[c] = NoFlow /\ NoFlow.at = "none"
    BY <1>1 DEF FlowInv, FlowTyped, NoFlow
  <1>3. call'[c].pc = "idle"
    BY <1>1, NoCallElsewhere
  <1>4. FlowOk(c)'
    BY <1>2, <1>3 DEF FlowOk, FlowAt
  <1>5. \A q \in Runs : TestsGrow(q)
    BY <1>1, TestsLeftAlone
  <1>6. \A d \in Callers : d # c =>
              /\ call'[d] = call[d]
              /\ FlowAt(d, "testing") =>
                   /\ tests'[FlowRun(d)].status = "running"
                   /\ NoFlow.at = "testing" => NoFlow.run # FlowRun(d)
    BY <1>1, <1>2 DEF FlowInv, FlowOk
  <1>7. /\ built' \in [Runs -> BOOLEAN] /\ tests' \in [Runs -> TestSteps] /\ ran' \in [Runs -> Nat]
        /\ TestsOk' /\ bundle' \in [Runs -> Bundles]
    BY <1>1 DEF FlowInv, FlowTyped, TestsOk
  <1> QED BY <1>1, <1>4, <1>5, <1>6, <1>7, FlowMoves

\* The server dies with every workflow it runs.
LEMMA FlowsDie ==
    ASSUME FlowInv, FlowDies
    PROVE  FlowInv'
PROOF
  <1>1. /\ \A c \in Callers : flow'[c] = NoFlow /\ call'[c] = Idle
        /\ built' = built /\ tests' = tests /\ ran' = ran /\ bundle' = bundle
        /\ flow' \in [Callers -> {NoFlow} \cup Flows]
    BY DEF FlowDies, ServerDies
  <1>2. NoFlow.at = "none" /\ Idle.pc = "idle"
    BY DEF NoFlow, Idle
  <1>3. FlowTyped' /\ TestsOk'
    BY <1>1 DEF FlowInv, FlowTyped, TestsOk
  <1>4. ASSUME NEW c \in Callers PROVE FlowOk(c)'
    BY <1>1, <1>2 DEF FlowOk, FlowAt
  <1>5. OneTests'
    BY <1>1, <1>2 DEF OneTests, FlowAt
  <1> QED BY <1>3, <1>4, <1>5 DEF FlowInv

\* target.boot is called for a workflow.
LEMMA FlowCallsBoot ==
    ASSUME BootInv, FlowInv, NEW c \in Callers, FlowBoot(c)
    PROVE  BootInv' /\ FlowInv'
PROOF
  <1>1. PICK r \in Runs : r = flow[c].run
    BY FlowSomewhere DEF FlowBoot, FlowAt, FlowInv
  <1>2. flow[c].at = "boot" /\ UNCHANGED flowVars
    BY DEF FlowBoot, FlowAt
  <1>3. PICK force \in BOOLEAN, wait \in BOOLEAN :
          \/ BootRefused(c, r, force) \/ BootCached(c, r, force)
          \/ BootUnplanned(c, r, force) \/ BootPlanned(c, r, force, wait)
    BY <1>1 DEF FlowBoot, FlowRun
  <1>4. BootInv'
    BY <1>3, BootIsRefused, BootIsCached, BootIsUnplanned, BootIsPlanned
  <1>5. \A q \in Runs : BootGrows(q)
    BY <1>3, BootActionsGrow
  <1>6. call \in [Callers -> {Idle} \cup BootedCalls \cup BootCalls]
    BY DEF BootInv, BootTyped
  <1>7. PICK y : y.run = r /\ call' = [call EXCEPT ![c] = y]
    <2>1. ASSUME NEW status, NEW why, NEW of, Answered(c, r, status, why, of)
          PROVE  \E y : y.run = r /\ call' = [call EXCEPT ![c] = y]
      <3>1. Answer(r, status, why, of).run = r
        BY DEF Answer
      <3> QED BY <2>1, <3>1 DEF Answered, Answer
    <2>2. ASSUME BootPlanned(c, r, force, wait)
          PROVE  \E y : y.run = r /\ call' = [call EXCEPT ![c] = y]
      <3> DEFINE y == [pc |-> "prepare", run |-> r, boot |-> Len(boots) + 1,
                       res |-> "failed", why |-> "none", unclean |-> FALSE]
      <3>1. y.run = r /\ call' = [call EXCEPT ![c] = y]
        BY <2>2 DEF BootPlanned
      <3> HIDE DEF y
      <3> QED BY <3>1
    <2> QED BY <1>3, <2>1, <2>2 DEF BootRefused, BootCached, BootUnplanned
  <1>8. \A d \in Callers : d # c => call'[d] = call[d]
    BY <1>6, <1>7
  <1>9. call'[c].run = r
    BY <1>6, <1>7
  <1>10. \A d \in Callers : call'[d].pc # "idle" => FlowAt(d, "boot") /\ call'[d].run = FlowRun(d)
    BY <1>1, <1>2, <1>8, <1>9 DEF FlowInv, FlowOk, FlowAt, FlowRun
  <1>11. FlowInv'
    BY <1>2, <1>5, <1>10, FlowKeptByBoot
  <1> QED BY <1>4, <1>11

\* A boot stays the boot of its run until it answers.
LEMMA BootOfItsRun ==
    ASSUME BootInv, NEW c \in Callers, Provider(c)
    PROVE  /\ call[c].pc # "idle" /\ call'[c].run = call[c].run
           /\ \A d \in Callers : d # c => call'[d] = call[d]
PROOF
  <1>1. InBoot(c)
    BY DEF Provider, Prepare, Reconcile, Destroy, Define, StartDomain, Stream, ProbeDomain,
       Cleanup, Finish, ProviderRaises, BootRecord, At, InBoot, Points, ProviderPoints
  <1>2. PICK x \in BootCalls : x = call[c]
    BY <1>1, BootState
  <1>3. call \in [Callers -> {Idle} \cup BootedCalls \cup BootCalls]
    BY DEF BootInv, BootTyped
  <1>4. call[c].pc # "idle"
    BY <1>1 DEF InBoot, Points, ProviderPoints
  <1>5. \E y : y.run = x.run /\ call' = [call EXCEPT ![c] = y]
    <2>1. ASSUME NEW pc, NEW res, NEW why, NEW unclean,
                 call' = [call EXCEPT ![c] = Moved(x, pc, res, why, unclean)]
          PROVE  \E y : y.run = x.run /\ call' = [call EXCEPT ![c] = y]
      <3>1. Moved(x, pc, res, why, unclean).run = x.run
        BY DEF Moved
      <3> QED BY <2>1, <3>1
    <2>2. ASSUME NEW pc, Goto(c, pc) PROVE \E y : y.run = x.run /\ call' = [call EXCEPT ![c] = y]
      <3>1. call' = [call EXCEPT ![c] = Moved(x, pc, x.res, x.why, x.unclean)]
        BY <1>2, <2>2, MovesOn DEF Goto
      <3> QED BY <2>1, <3>1
    <2>3. ASSUME NEW pc, NEW res, call' = [call EXCEPT ![c].pc = pc, ![c].res = res]
          PROVE  \E y : y.run = x.run /\ call' = [call EXCEPT ![c] = y]
      <3>1. [x EXCEPT !.pc = pc, !.res = res] = Moved(x, pc, res, x.why, x.unclean)
        BY MovesRes
      <3>2. call' = [call EXCEPT ![c] = Moved(x, pc, res, x.why, x.unclean)]
        BY <1>2, <2>3, <3>1
      <3> QED BY <2>1, <3>2
    <2>4. ASSUME NEW why, Unready(c, why)
          PROVE  \E y : y.run = x.run /\ call' = [call EXCEPT ![c] = y]
      <3>1. [x EXCEPT !.pc = CleanupNext(c), !.why = why]
               = Moved(x, CleanupNext(c), x.res, why, x.unclean)
        BY MovesWhy
      <3>2. call' = [call EXCEPT ![c] = Moved(x, CleanupNext(c), x.res, why, x.unclean)]
        BY <1>2, <2>4, <3>1 DEF Unready
      <3> QED BY <2>1, <3>2
    <2>5. ASSUME NEW unclean, call' = [call EXCEPT ![c].pc = "finish", ![c].unclean = unclean]
          PROVE  \E y : y.run = x.run /\ call' = [call EXCEPT ![c] = y]
      <3>1. [x EXCEPT !.pc = "finish", !.unclean = unclean]
               = Moved(x, "finish", x.res, x.why, unclean)
        BY MovesUnclean
      <3>2. call' = [call EXCEPT ![c] = Moved(x, "finish", x.res, x.why, unclean)]
        BY <1>2, <2>5, <3>1
      <3> QED BY <2>1, <3>2
    <2>6. ASSUME NEW unclean,
                 call' = [call EXCEPT ![c].pc = "record", ![c].res = "failed", ![c].unclean = unclean]
          PROVE  \E y : y.run = x.run /\ call' = [call EXCEPT ![c] = y]
      <3>1. [x EXCEPT !.pc = "record", !.res = "failed"]
               = Moved(x, "record", "failed", x.why, x.unclean)
        BY MovesRes
      <3>2. [Moved(x, "record", "failed", x.why, x.unclean) EXCEPT !.unclean = unclean]
               = Moved(x, "record", "failed", x.why, unclean)
        BY DEF Moved
      <3>3. call' = [call EXCEPT ![c] = Moved(x, "record", "failed", x.why, unclean)]
        BY <1>2, <2>6, <3>1, <3>2
      <3> QED BY <2>1, <3>3
    <2>7. ASSUME NEW status, NEW why, NEW of, Answered(c, Run(c), status, why, of)
          PROVE  \E y : y.run = x.run /\ call' = [call EXCEPT ![c] = y]
      <3>1. Answer(x.run, status, why, of).run = x.run
        BY DEF Answer
      <3>2. call' = [call EXCEPT ![c] = Answer(x.run, status, why, of)]
        BY <1>2, <2>7 DEF Answered, Answer, Run
      <3> QED BY <3>1, <3>2
    <2>8. Prepare(c) \/ Reconcile(c) \/ Destroy(c) \/ Define(c) =>
             \E y : y.run = x.run /\ call' = [call EXCEPT ![c] = y]
      BY <2>2 DEF Prepare, Reconcile, Destroy, Define, Fails
    <2>9. StartDomain(c) => \E y : y.run = x.run /\ call' = [call EXCEPT ![c] = y]
      <3>1. ASSUME call' = [call EXCEPT ![c].pc = IF boots[Boot(c)].wait THEN "finish" ELSE "stream",
                                        ![c].res = IF boots[Boot(c)].wait THEN "succeeded" ELSE @]
            PROVE  \E y : y.run = x.run /\ call' = [call EXCEPT ![c] = y]
        <4>1. PICK pc, res : pc = (IF boots[Boot(c)].wait THEN "finish" ELSE "stream")
                             /\ res = (IF boots[Boot(c)].wait THEN "succeeded" ELSE x.res)
          OBVIOUS
        <4>2. call' = [call EXCEPT ![c].pc = pc, ![c].res = res]
          BY <1>2, <3>1, <4>1 DEF BootCalls
        <4> QED BY <2>3, <4>2
      <3> QED BY <2>4, <3>1 DEF StartDomain
    <2>10. Stream(c) \/ ProbeDomain(c) => \E y : y.run = x.run /\ call' = [call EXCEPT ![c] = y]
      BY <2>2, <2>3, <2>4 DEF Stream, ProbeDomain, Drain, Ready
    <2>11. Cleanup(c) => \E y : y.run = x.run /\ call' = [call EXCEPT ![c] = y]
      BY <2>2, <2>5 DEF Cleanup
    <2>12. Finish(c) \/ ProviderRaises(c) => \E y : y.run = x.run /\ call' = [call EXCEPT ![c] = y]
      BY <2>2, <2>6 DEF Finish, ProviderRaises
    <2>13. BootRecord(c) => \E y : y.run = x.run /\ call' = [call EXCEPT ![c] = y]
      BY <2>7 DEF BootRecord
    <2> QED BY <2>8, <2>9, <2>10, <2>11, <2>12, <2>13 DEF Provider
  <1>6. PICK y : y.run = x.run /\ call' = [call EXCEPT ![c] = y]
    BY <1>5
  <1>7. call'[c] = y /\ \A d \in Callers : d # c => call'[d] = call[d]
    BY <1>3, <1>6
  <1> QED BY <1>2, <1>4, <1>6, <1>7

\* target.boot takes its next step for a workflow.
LEMMA FlowWaitsForBoot ==
    ASSUME BootInv, FlowInv, NEW c \in Callers, Provider(c), UNCHANGED flowVars
    PROVE  BootInv' /\ FlowInv'
PROOF
  <1>1. BootInv'
    BY BootPrepare, BootReconcile, BootDestroy, BootDefine, BootStarts, BootWaits,
       BootCleans, BootSums, BootIsRecorded DEF Provider
  <1>2. ASSUME NEW q \in Runs PROVE BootGrows(q)
    BY BootActionsGrow
  <1>3. \A d \in Callers : call'[d].pc # "idle" => FlowAt(d, "boot") /\ call'[d].run = FlowRun(d)
    BY BootOfItsRun DEF FlowInv, FlowOk
  <1> QED BY <1>1, <1>2, <1>3, FlowKeptByBoot

\* Nothing has happened yet.
LEMMA FlowsStartClean ==
    ASSUME Init
    PROVE  BootInv /\ FlowInv
PROOF
  <1>1. BootInv
    BY BootStartsClean DEF Init
  <1>2. NoFlow.at = "none" /\ Idle.pc = "idle"
    BY DEF NoFlow, Idle
  <1>3. FlowTyped
    <2>1. NoTests \in TestSteps /\ NoBundle \in Bundles
      BY DEF NoTests, NoBundle, TestSteps, Bundles
    <2> QED BY <2>1 DEF Init, FlowTyped
  <1>4. TestsOk
    BY DEF Init, TestsOk, NoTests
  <1>5. \A c \in Callers : FlowOk(c)
    BY <1>2 DEF Init, BootInit, FlowOk, FlowAt
  <1>6. OneTests
    BY <1>2 DEF Init, OneTests, FlowAt
  <1> QED BY <1>1, <1>3, <1>4, <1>5, <1>6 DEF FlowInv

\* A step that leaves the boots alone.
LEMMA BootsLeftAlone ==
    ASSUME BootInv, UNCHANGED bootVars
    PROVE  BootInv'
PROOF
  <1>1. /\ dom' = dom /\ vm' = vm /\ console' = console /\ ready' = ready /\ boots' = boots
        /\ step' = step /\ attempts' = attempts /\ locks' = locks /\ call' = call
    BY DEF bootVars
  <1>2. BootTyped'
    BY <1>1 DEF BootInv, BootTyped
  <1>3. ASSUME NEW c \in Callers, InBoot(c)
        PROVE  /\ Latest(c, call[c], locks', step, attempts, boots)
               /\ Progress(call[c], dom', vm', console', ready', boots)
    BY <1>1, <1>3, InBootTyped
  <1> QED BY <1>1, <1>2, <1>3, BootUndisturbed

\* Every step keeps what is known of the boots and of the workflows.
LEMMA WorkflowKept ==
    ASSUME BootInv, FlowInv, [Next]_vars
    PROVE  BootInv' /\ FlowInv'
PROOF
  <1>1. ASSUME NEW c \in Callers, NEW kind \in Kinds, NEW r \in Runs, FlowBegin(c, kind, r)
        PROVE  BootInv' /\ FlowInv'
    BY <1>1, FlowBegins, BootsLeftAlone DEF FlowBegin
  <1>2. ASSUME NEW c \in Callers, FlowBuild(c) PROVE BootInv' /\ FlowInv'
    BY <1>2, FlowBuilds, BootsLeftAlone DEF FlowBuild
  <1>3. ASSUME NEW c \in Callers, FlowBoot(c) PROVE BootInv' /\ FlowInv'
    BY <1>3, FlowCallsBoot
  <1>4. ASSUME NEW c \in Callers, FlowBooted(c) PROVE BootInv' /\ FlowInv'
    BY <1>4, FlowTakesAnswer, AnswerTaken DEF FlowBooted
  <1>5. ASSUME NEW c \in Callers, FlowDebug(c) PROVE BootInv' /\ FlowInv'
    BY <1>5, FlowDebugs, BootsLeftAlone DEF FlowDebug
  <1>6. ASSUME NEW c \in Callers, TestsAnswered(c) PROVE BootInv' /\ FlowInv'
    BY <1>6, FlowTakesTests, BootsLeftAlone DEF TestsAnswered
  <1>7. ASSUME NEW c \in Callers, TestsBegin(c) PROVE BootInv' /\ FlowInv'
    BY <1>7, FlowTestsBegin, BootsLeftAlone DEF TestsBegin
  <1>8. ASSUME NEW c \in Callers, TestsEnd(c) PROVE BootInv' /\ FlowInv'
    BY <1>8, FlowTestsEnd, BootsLeftAlone DEF TestsEnd
  <1>9. ASSUME NEW c \in Callers, FlowCollect(c) PROVE BootInv' /\ FlowInv'
    BY <1>9, FlowCollects, BootsLeftAlone DEF FlowCollect
  <1>10. ASSUME NEW c \in Callers, FlowAnswer(c) PROVE BootInv' /\ FlowInv'
    BY <1>10, FlowAnswers, BootsLeftAlone DEF FlowAnswer
  <1>11. ASSUME NEW c \in Callers, Provider(c), UNCHANGED flowVars PROVE BootInv' /\ FlowInv'
    BY <1>11, FlowWaitsForBoot
  <1>12. ASSUME GuestReady \/ GuestExits \/ Operator, UNCHANGED flowVars PROVE BootInv' /\ FlowInv'
    <2>1. BootInv'
      BY <1>12, GuestComesUp, GuestGoes, OperatorComes
    <2>2. UNCHANGED <<boots, step, attempts, call>>
      BY <1>12 DEF GuestReady, GuestExits, Operator
    <2>3. \A r \in Runs : BootGrows(r)
      BY <2>2, BootStepKept
    <2>4. \A d \in Callers : call'[d].pc # "idle" => FlowAt(d, "boot") /\ call'[d].run = FlowRun(d)
      BY <2>2 DEF FlowInv, FlowOk
    <2> QED BY <1>12, <2>1, <2>3, <2>4, FlowKeptByBoot
  <1>13. ASSUME FlowDies PROVE BootInv' /\ FlowInv'
    BY <1>13, ServerGone, FlowsDie DEF FlowDies
  <1>14. ASSUME UNCHANGED vars PROVE BootInv' /\ FlowInv'
    <2>1. UNCHANGED bootVars /\ UNCHANGED flowVars
      BY <1>14 DEF vars, bootVars, flowVars
    <2>2. BootInv'
      BY <2>1, BootsLeftAlone
    <2>3. \A r \in Runs : BootGrows(r)
      BY <2>1, BootStepKept DEF bootVars
    <2>4. \A d \in Callers : call'[d].pc # "idle" => FlowAt(d, "boot") /\ call'[d].run = FlowRun(d)
      BY <2>1 DEF FlowInv, FlowOk, bootVars
    <2> QED BY <2>1, <2>2, <2>3, <2>4, FlowKeptByBoot
  <1> QED BY <1>1, <1>2, <1>3, <1>4, <1>5, <1>6, <1>7, <1>8, <1>9, <1>10, <1>11, <1>12, <1>13, <1>14
         DEF Next

-----------------------------------------------------------------------------
(* The theorems                                                             *)

\* The locks, the manifests, the domain and the workflows stay consistent, for every
\* number of callers and runs (boot_handler.py, local_libvirt_qemu.py, workflow/handlers.py).
THEOREM WorkflowInvariant == Spec => [](BootInv /\ FlowInv)
PROOF BY FlowsStartClean, WorkflowKept, PTL DEF Spec

\* The domain, the manifests, the locks and the calls have the values that the code
\* gives them.
THEOREM BootIsTyped == Spec => []BootTypeOK
PROOF
  <1>1. BootInv => BootTypeOK
    <2>1. SUFFICES ASSUME BootInv PROVE BootTypeOK
      OBVIOUS
    <2>2. Len(boots) \in Nat /\ Len(boots) <= MaxBoots
      BY <2>1, BootNumbers
    <2>3. 0..Len(boots) \subseteq 0..MaxBoots /\ 1..Len(boots) \subseteq BootIds
      BY <2>2, BootAssumption DEF BootIds
    <2>4. /\ dom \in 0..MaxBoots \cup {Alien}
          /\ vm \in [boot : 0..MaxBoots \cup {Alien}, log : Dirs \cup {<<>>}]
          /\ ready \subseteq BootIds
          /\ console \in [Dirs -> SUBSET BootIds]
          /\ step \in [Runs -> [status : {"none", "running", "succeeded", "failed"}, id : 0..MaxBoots]]
          /\ attempts \in [Runs -> 0..MaxBoots]
      BY <2>1, <2>3 DEF BootInv, BootTyped
    <2>5. ASSUME NEW c \in Callers
          PROVE  \/ call[c] = Idle
                 \/ call[c].pc = "booted" /\ call[c].run \in Runs /\ call[c].res \in {"succeeded", "failed"}
                      /\ call[c].of \in 0..MaxBoots
                 \/ call[c].pc \in ProviderPoints \cup {"cleanup", "record"} /\ call[c].boot \in BootIds
      <3>1. call[c] \in {Idle} \cup BootedCalls \cup BootCalls
        BY <2>1 DEF BootInv, BootTyped
      <3> QED BY <3>1 DEF BootedCalls, BootCalls, Points
    <2> QED BY <2>1, <2>4, <2>5 DEF BootTypeOK, BootInv, BootTyped
  <1> QED BY <1>1, WorkflowInvariant, PTL

\* A boot at the end of its handler.
LEMMA AtRecord ==
    ASSUME BootInv, NEW c \in Callers, call[c].pc \in {"cleanup", "record"}
    PROVE  Progress(call[c], dom, vm, console, ready, boots)
PROOF BY InBootTyped DEF InBoot, Points

\* A boot is reported as succeeded only when the domain has its definition and its own
\* kernel came up, or waits for the debugger (execute_boot, stream_console).
THEOREM BootReportsItsOwn == Spec => []SuccessIsItsOwn
PROOF
  <1>1. BootInv => SuccessIsItsOwn
    BY AtRecord DEF SuccessIsItsOwn, Progress, Boot
  <1> QED BY <1>1, WorkflowInvariant, PTL

\* A boot that failed under stop_on_failure has not left its QEMU running, unless the
\* cleanup failed or the provider raised (_cleanup_after_failure).
THEOREM FailedBootIsStopped == Spec => []FailedIsStopped
PROOF
  <1>1. BootInv => FailedIsStopped
    BY AtRecord DEF FailedIsStopped, Progress, Boot, Run
  <1> QED BY <1>1, WorkflowInvariant, PTL

\* A kernel that came up is not reported as having exited before readiness (the last
\* read of the console log in stream_console) if the probe found its QEMU gone.  One that
\* only failed, or found a paused domain, says nothing of the QEMU.
THEOREM ExitedBootWasNotReady == Spec => []ExitedWasNotReady
PROOF
  <1>1. BootInv => ExitedWasNotReady
    BY AtRecord DEF ExitedWasNotReady, Progress, Boot
  <1> QED BY <1>1, WorkflowInvariant, PTL

\* The success in the manifest is of the last boot of the run (the RUNNING result that
\* boot_handler.py writes first replaces an older one).
THEOREM RecordedBootIsLatest == Spec => []SuccessIsLatest
PROOF
  <1>1. BootInv => SuccessIsLatest
    BY DEF BootInv, RecordOk, SuccessIsLatest
  <1> QED BY <1>1, WorkflowInvariant, PTL

\* A domain that somebody else defined is left alone by every step of every boot
\* (validate_existing_domain_ownership).
THEOREM AlienDomainUntouched == Spec => AlienUntouched
PROOF
  <1>1. ASSUME BootInv, [Next]_vars
        PROVE  [dom = Alien /\ ~NoBootInProgress =>
                  dom' = Alien /\ (vm.boot = Alien => vm'.boot = Alien \/ GuestExits)]_bootVars
    <2>1. SUFFICES ASSUME dom = Alien, ~NoBootInProgress, Next
                   PROVE  dom' = Alien /\ (vm.boot = Alien => vm'.boot = Alien \/ GuestExits)
      BY <1>1 DEF vars, bootVars
    <2>2. ASSUME dom' = dom, vm' = vm
          PROVE  dom' = Alien /\ (vm.boot = Alien => vm'.boot = Alien \/ GuestExits)
      BY <2>1, <2>2
    <2>3. ASSUME NEW c \in Callers, Provider(c)
          PROVE  dom' = Alien /\ (vm.boot = Alien => vm'.boot = Alien \/ GuestExits)
      <3>1. CASE Prepare(c)
        <4>1. vm \in [boot : 0..Len(boots) \cup {Alien}, log : Dirs \cup {<<>>}]
          BY <1>1 DEF BootInv, BootTyped
        <4>2. dom' = dom /\ vm'.boot = vm.boot
          BY <3>1, <4>1 DEF Prepare
        <4> QED BY <2>1, <4>2
      <3>2. CASE Destroy(c) \/ Define(c) \/ StartDomain(c) \/ Cleanup(c)
        <4>1. InBoot(c) /\ call[c].pc \in {"destroy", "define", "start", "cleanup"}
          BY <3>2 DEF Destroy, Define, StartDomain, Cleanup, At, InBoot, Points, ProviderPoints
        <4>2. Progress(call[c], dom, vm, console, ready, boots) /\ call[c].boot # Alien
          BY <1>1, <4>1, BootState
        <4> QED BY <2>1, <4>1, <4>2 DEF Progress
      <3>3. CASE Reconcile(c) \/ Stream(c) \/ ProbeDomain(c) \/ Finish(c) \/ ProviderRaises(c)
                 \/ BootRecord(c)
        BY <2>2, <3>3 DEF Reconcile, Stream, ProbeDomain, Finish, ProviderRaises, BootRecord
      <3> QED BY <2>3, <3>1, <3>2, <3>3 DEF Provider
    <2>4. ASSUME GuestReady \/ GuestExits \/ Operator
          PROVE  dom' = Alien /\ (vm.boot = Alien => vm'.boot = Alien \/ GuestExits)
      BY <2>1, <2>4 DEF GuestReady, GuestExits, Operator
    <2>5. ASSUME NEW c \in Callers, FlowBoot(c) PROVE dom' = dom /\ vm' = vm
      BY <2>5 DEF FlowBoot, BootRefused, BootCached, BootUnplanned, BootPlanned
    <2>6. ASSUME NEW c \in Callers,
                 \/ \E kind \in Kinds, r \in Runs : FlowBegin(c, kind, r)
                 \/ FlowBuild(c) \/ FlowDebug(c) \/ TestsAnswered(c) \/ TestsBegin(c) \/ TestsEnd(c)
                 \/ FlowCollect(c) \/ FlowAnswer(c) \/ FlowBooted(c)
          PROVE  dom' = dom /\ vm' = vm
      BY <2>6 DEF FlowBegin, FlowBuild, FlowDebug, TestsAnswered, TestsBegin, TestsEnd,
         FlowCollect, FlowAnswer, FlowBooted, bootVars
    <2>7. FlowDies => dom' = dom /\ vm' = vm
      BY DEF FlowDies, ServerDies
    <2> QED BY <2>1, <2>2, <2>3, <2>4, <2>5, <2>6, <2>7 DEF Next
  <1> QED BY <1>1, WorkflowInvariant, PTL DEF Spec, AlienUntouched

\* A test workflow answers with a collection that names what its own boot and tests
\* left (_collection_covers_manifest and the order of the steps in workflow/handlers.py).
THEOREM BundleNamesItsResults == Spec => []BundleNamesResults
PROOF
  <1>1. FlowInv => BundleNamesResults
    BY DEF FlowInv, FlowOk, BundleNamesResults
  <1> QED BY <1>1, WorkflowInvariant, PTL

=============================================================================
