--------------------------- MODULE LibvirtBoot ---------------------------
(***************************************************************************)
(* target.boot on the libvirt provider: boot_handler.py under its locks,   *)
(* and execute_boot of providers/local/target/local_libvirt_qemu.py, one   *)
(* virsh command after the other, on the one domain that the runs share.   *)
(*                                                                         *)
(* A boot is named by its number; the domain definition, the running QEMU  *)
(* and the console logs say which boot they are of.  A command that times  *)
(* out may have taken effect.  The locks and the manifest are those of     *)
(* RunSteps, taken and written here in one step each.                      *)
(***************************************************************************)
EXTENDS Naturals, Sequences, FiniteSets

CONSTANTS
    Callers,     \* tool calls in progress at once
    Runs,        \* run ids; their target profiles name the same domain
    Debug,       \* the runs whose profile has debug_gdbstub, on one endpoint
    Stops,       \* the runs whose cleanup policy is stop_on_failure
    Free,        \* a lock file that does not exist
    Orphan,      \* a lock file whose process is gone
    Domain,      \* the lock of the domain
    Alien,       \* a domain of that name with the metadata of somebody else
    MaxBoots,    \* bound on boots
    Crashes      \* the server may die

ASSUME BootAssumption ==
    /\ Debug \subseteq Runs /\ Stops \subseteq Runs
    /\ Domain \notin Runs
    /\ Free \notin Callers /\ Orphan \notin Callers /\ Free # Orphan
    /\ MaxBoots \in Nat
    /\ Alien \notin 0..MaxBoots
    /\ Crashes \in BOOLEAN

VARIABLES
    dom,         \* the boot whose XML the domain has, 0 if there is no domain
    vm,          \* the boot that QEMU runs, 0 if none, and the log it writes
    console,     \* console[d]: the boots whose readiness marker is in console.log
    ready,       \* the boots whose kernel printed the marker
    boots,       \* the run, the attempt and the wait_for_debugger of every boot
    step,        \* step[r]: the boot step of the manifest
    attempts,    \* attempts[r]: how many boot_attempts the manifest has
    locks,       \* locks[r], locks[Domain]: who made the lock file
    call         \* call[c]: the call in progress

bootVars == <<dom, vm, console, ready, boots, step, attempts, locks, call>>

BootIds == 1..MaxBoots

\* attempt-<n> in the directory of the run; a number is used again when the
\* attempt was not recorded.
Dirs == Runs \X BootIds
DirOf(b) == <<boots[b].run, boots[b].attempt>>

NoVm == [boot |-> 0, log |-> <<>>]
NoStep == [status |-> "none", id |-> 0]
Idle == [pc |-> "idle"]

BootInit ==
    /\ dom \in {0, Alien}
    /\ vm = NoVm
    /\ console = [d \in Dirs |-> {}]
    /\ ready = {}
    /\ boots = <<>>
    /\ step = [r \in Runs |-> NoStep]
    /\ attempts = [r \in Runs |-> 0]
    /\ locks = [l \in Runs \cup {Domain} |-> Free]
    /\ call = [c \in Callers |-> Idle]

-----------------------------------------------------------------------------
(* The handler, up to the provider                                          *)

At(c, pc) == call[c].pc = pc
Run(c) == call[c].run
Goto(c, pc) == call' = [call EXCEPT ![c].pc = pc]

\* The handler answers, out of its with blocks, with the files of a recorded boot
\* or with none.
Answered(c, r, status, why, of) ==
    /\ call' = [call EXCEPT ![c] = [pc |-> "booted", run |-> r, res |-> status, why |-> why, of |-> of]]
    /\ locks' = [l \in DOMAIN locks |-> IF locks[l] = c THEN Free ELSE locks[l]]

\* A recorded success answers a call that forces nothing and overrides nothing.
\* (It also publishes the snapshot again: RunSteps.)
ShortCircuit(r, force) == step[r].status = "succeeded" /\ ~force

BootCached(c, r, force) ==
    /\ At(c, "idle")
    /\ ShortCircuit(r, force)
    /\ Answered(c, r, "succeeded", "recorded", step[r].id)
    /\ UNCHANGED <<dom, vm, console, ready, boots, step, attempts>>

\* Inputs that do not resolve, missing permissions, a lock that is taken, a plan
\* that is refused as misconfigured: nothing is written.
BootRefused(c, r, force) ==
    /\ At(c, "idle")
    /\ ~ShortCircuit(r, force)
    /\ Answered(c, r, "failed", "refused", 0)
    /\ UNCHANGED <<dom, vm, console, ready, boots, step, attempts>>

\* The lock of the run's boot, then the lock of the domain.
BootLocks(c, r) ==
    /\ locks[r] = Free /\ locks[Domain] = Free
    /\ locks' = [locks EXCEPT ![r] = c, ![Domain] = c]

\* is_tcp_port_available: the endpoint of a debug profile is taken by a QEMU
\* that runs with the gdbstub.
PortTaken == vm.boot \in BootIds /\ boots[vm.boot].run \in Debug

\* The plan fails: the step is recorded as FAILED, no attempt is.
BootUnplanned(c, r, force) ==
    /\ At(c, "idle")
    /\ ~ShortCircuit(r, force)
    /\ locks[r] = Free /\ locks[Domain] = Free
    /\ \E why \in {"refused", "port"} :
         /\ why = "port" => r \in Debug /\ PortTaken
         /\ Answered(c, r, "failed", why, 0)
    /\ step' = [step EXCEPT ![r] = [status |-> "failed", id |-> 0]]
    /\ UNCHANGED <<dom, vm, console, ready, boots, attempts>>

\* Mutant of RunningStep: a succeeded step stays while the boot is under way.
RunningStepKept(r, b) ==
    [step EXCEPT ![r] = IF @.status = "succeeded" THEN @ ELSE [status |-> "running", id |-> b]]

\* The RUNNING result replaces whatever was recorded, a stale RUNNING included.
RunningStep(r, b) == [step EXCEPT ![r] = [status |-> "running", id |-> b]]

\* len(boot_attempts) + 1
NextAttempt(r) == attempts[r] + 1

\* The plan is made and the step recorded as RUNNING.
BootPlanned(c, r, force, wait) ==
    /\ At(c, "idle")
    /\ ~ShortCircuit(r, force)
    /\ wait => r \in Debug
    /\ r \in Debug => ~PortTaken
    /\ Len(boots) < MaxBoots
    /\ BootLocks(c, r)
    /\ boots' = Append(boots, [run |-> r, attempt |-> NextAttempt(r), wait |-> wait])
    /\ step' = RunningStep(r, Len(boots) + 1)
    /\ call' = [call EXCEPT ![c] = [pc |-> "prepare", run |-> r, boot |-> Len(boots) + 1,
                                    res |-> "failed", why |-> "none", unclean |-> FALSE]]
    /\ UNCHANGED <<dom, vm, console, ready, attempts>>

-----------------------------------------------------------------------------
(* execute_boot                                                             *)

Boot(c) == call[c].boot
Dir(c) == DirOf(Boot(c))

\* _command_failure_result and the like: on to the summary.
Fails(c) == Goto(c, "finish")

\* The tools are looked up; a console.log that is there is renamed, with the
\* QEMU that still writes to it; the plan is written.
Prepare(c) ==
    /\ At(c, "prepare")
    /\ \/ Fails(c) /\ UNCHANGED <<vm, console>>
       \/ /\ console' = [console EXCEPT ![Dir(c)] = {}]
          /\ vm' = [vm EXCEPT !.log = IF @ = Dir(c) THEN <<>> ELSE @]
          /\ Goto(c, "reconcile")
    /\ UNCHANGED <<dom, ready, boots, step, attempts, locks>>

\* Mutant of Owned: any domain of the name is taken over.
OwnedByName == dom # 0

\* validate_existing_domain_ownership: provider, domain and profile, not the run.
Owned == dom \in BootIds

\* dumpxml, the check of the ownership, and the XML file.
Reconcile(c) ==
    /\ At(c, "reconcile")
    /\ \/ dom = 0 /\ Goto(c, "define")
       \/ Owned /\ Goto(c, "destroy")
       \/ dom # 0 /\ ~Owned /\ Fails(c)
       \/ Fails(c)
    /\ UNCHANGED <<dom, vm, console, ready, boots, step, attempts, locks>>

\* The domain that is there is destroyed, or was not running.
Destroy(c) ==
    /\ At(c, "destroy")
    /\ \/ vm' = NoVm /\ Goto(c, "define")
       \/ vm' \in {vm, NoVm} /\ Fails(c)
    /\ UNCHANGED <<dom, console, ready, boots, step, attempts, locks>>

\* The overlay is made, the domain defined.
Define(c) ==
    /\ At(c, "define")
    /\ \/ dom' = Boot(c) /\ Goto(c, "start")
       \/ dom' \in {dom, Boot(c)} /\ Fails(c)
    /\ UNCHANGED <<vm, console, ready, boots, step, attempts, locks>>

\* What virsh start does, of whatever definition the domain has now: the serial
\* log is opened with append off.
Started ==
    /\ vm.boot = 0 /\ dom \in BootIds
    /\ vm' = [boot |-> dom, log |-> DirOf(dom)]
    /\ console' = [console EXCEPT ![DirOf(dom)] = {}]

\* Mutant of CleanupNext: a start that failed is not cleaned up after.
CleanupNextStream(c) == IF Run(c) \in Stops /\ ~At(c, "start") THEN "cleanup" ELSE "finish"

\* cleanup_policy
CleanupNext(c) == IF Run(c) \in Stops THEN "cleanup" ELSE "finish"

Unready(c, why) == call' = [call EXCEPT ![c].pc = CleanupNext(c), ![c].why = why]

\* A domain that waits for the debugger is done, with an empty console log; the
\* others have to print the marker.  A start that timed out may have started.
StartDomain(c) ==
    /\ At(c, "start")
    /\ \/ /\ Started
          /\ call' = [call EXCEPT ![c].pc = IF boots[Boot(c)].wait THEN "finish" ELSE "stream",
                                  ![c].res = IF boots[Boot(c)].wait THEN "succeeded" ELSE @]
       \/ Started /\ Unready(c, "none")
       \/ UNCHANGED <<vm, console>> /\ Unready(c, "none")
    /\ UNCHANGED <<dom, ready, boots, step, attempts, locks>>

\* _cleanup_after_failure: what it reports is only put into the details.
Cleanup(c) ==
    /\ At(c, "cleanup")
    /\ \/ vm' = NoVm /\ Goto(c, "finish")
       \/ vm' \in {vm, NoVm} /\ call' = [call EXCEPT ![c].pc = "finish", ![c].unclean = TRUE]
    /\ UNCHANGED <<dom, console, ready, boots, step, attempts, locks>>

-----------------------------------------------------------------------------
(* stream_console                                                           *)

\* Mutant of Marked: the console log is not that of the attempt alone.
MarkedAnywhere(c) == \E d \in Dirs : console[d] # {}

Marked(c) == console[Dir(c)] # {}

Ready(c) == call' = [call EXCEPT ![c].pc = "finish", ![c].res = "succeeded"]

\* One turn of the loop: the deadline comes first, then the log is read.
Stream(c) ==
    /\ At(c, "stream")
    /\ \/ Unready(c, "none")
       \/ Marked(c) /\ Ready(c)
       \/ ~Marked(c) /\ Goto(c, "probe")
    /\ UNCHANGED <<dom, vm, console, ready, boots, step, attempts, locks>>

\* History, in the reason of a boot that is reported as exited: whether its QEMU was
\* gone, or only presumed to be.
ReportedExit == IF vm.boot = 0 THEN "exited" ELSE "presumed"

\* Mutant of Drain: the log is not read again after the domain exited.
DrainNothing(c) == Unready(c, ReportedExit)

\* A domain that is not taken for a running one: what it wrote so far is still read.
Drain(c) ==
    \/ Marked(c) /\ Ready(c)
    \/ ~Marked(c) /\ Unready(c, ReportedExit)

\* virsh domstate of the domain.  A probe that times out says nothing; one that fails,
\* or names any state but running, ends the boot, whatever QEMU does.
ProbeDomain(c) ==
    /\ At(c, "probe")
    /\ Goto(c, "stream") \/ Drain(c)
    /\ UNCHANGED <<dom, vm, console, ready, boots, step, attempts, locks>>

\* The guest IP is looked up and never changes the status; then _boot_result
\* writes the summary, and a summary that cannot be written is a failed boot.
Finish(c) ==
    /\ At(c, "finish")
    /\ \/ Goto(c, "record")
       \/ call' = [call EXCEPT ![c].pc = "record", ![c].res = "failed", ![c].unclean = TRUE]
    /\ UNCHANGED <<dom, vm, console, ready, boots, step, attempts, locks>>

ProviderPoints == {"prepare", "reconcile", "destroy", "define", "start", "stream", "probe", "finish"}

\* A file of the attempt cannot be written, or a command cannot be run or logged:
\* the boot fails where it is, and nothing is cleaned up.
ProviderRaises(c) ==
    /\ call[c].pc \in ProviderPoints
    /\ call' = [call EXCEPT ![c].pc = "record", ![c].res = "failed", ![c].unclean = TRUE]
    /\ UNCHANGED <<dom, vm, console, ready, boots, step, attempts, locks>>

-----------------------------------------------------------------------------
(* The end of the handler                                                   *)

\* _finalize_boot_execution: the attempt and the step are recorded together, or
\* the manifest cannot be written and the step stays RUNNING.
BootRecord(c) ==
    /\ At(c, "record")
    /\ \/ /\ step' = [step EXCEPT ![Run(c)] = [status |-> call[c].res, id |-> Boot(c)]]
          /\ attempts' = [attempts EXCEPT ![Run(c)] = @ + 1]
          /\ Answered(c, Run(c), call[c].res, "recorded", Boot(c))
       \/ /\ Answered(c, Run(c), "failed", "refused", 0)
          /\ UNCHANGED <<step, attempts>>
    /\ UNCHANGED <<dom, vm, console, ready, boots>>

Provider(c) ==
    \/ Prepare(c) \/ Reconcile(c) \/ Destroy(c) \/ Define(c) \/ StartDomain(c)
    \/ Stream(c) \/ ProbeDomain(c) \/ Cleanup(c) \/ Finish(c) \/ ProviderRaises(c)
    \/ BootRecord(c)

-----------------------------------------------------------------------------
(* The guest, the operator, the server                                      *)

\* The kernel comes up; one that waits for the debugger does not.
GuestReady ==
    /\ vm.boot \in BootIds \ ready
    /\ ~boots[vm.boot].wait
    /\ ready' = ready \cup {vm.boot}
    /\ console' = IF vm.log = <<>> THEN console
                  ELSE [console EXCEPT ![vm.log] = @ \cup {vm.boot}]
    /\ UNCHANGED <<dom, vm, boots, step, attempts, locks, call>>

\* The kernel powers off or QEMU dies.
GuestExits ==
    /\ vm.boot # 0
    /\ vm' = NoVm
    /\ UNCHANGED <<dom, console, ready, boots, step, attempts, locks, call>>

NoBootInProgress == \A c \in Callers : call[c].pc \in {"idle", "booted"}

\* The operator, between boots: undefines the domain, defines one of that name
\* by hand and starts it, removes the lock files a dead server left.
Operator ==
    /\ NoBootInProgress
    /\ \/ dom' = 0 /\ vm' = NoVm /\ UNCHANGED locks
       \/ dom = 0 /\ dom' = Alien /\ UNCHANGED <<vm, locks>>
       \/ dom = Alien /\ vm' = [boot |-> Alien, log |-> <<>>] /\ UNCHANGED <<dom, locks>>
       \/ /\ locks' = [l \in DOMAIN locks |-> IF locks[l] = Orphan THEN Free ELSE locks[l]]
          /\ UNCHANGED <<dom, vm>>
    /\ UNCHANGED <<console, ready, boots, step, attempts, call>>

\* The server dies; the domain, the manifest and the lock files stay.
ServerDies ==
    /\ Crashes
    /\ call' = [c \in Callers |-> Idle]
    /\ locks' = [l \in DOMAIN locks |-> IF locks[l] = Free THEN Free ELSE Orphan]
    /\ UNCHANGED <<dom, vm, console, ready, boots, step, attempts>>

-----------------------------------------------------------------------------
(* Properties                                                               *)

\* The types of the domain, the manifests, the locks and the calls.
BootTypeOK ==
    /\ dom \in 0..MaxBoots \cup {Alien}
    /\ vm \in [boot : 0..MaxBoots \cup {Alien}, log : Dirs \cup {<<>>}]
    /\ console \in [Dirs -> SUBSET BootIds]
    /\ ready \subseteq BootIds
    /\ boots \in Seq([run : Runs, attempt : BootIds, wait : BOOLEAN])
    /\ step \in [Runs -> [status : {"none", "running", "succeeded", "failed"}, id : 0..MaxBoots]]
    /\ attempts \in [Runs -> 0..MaxBoots]
    /\ locks \in [Runs \cup {Domain} -> Callers \cup {Free, Orphan}]
    /\ \A c \in Callers :
         \/ call[c] = Idle
         \/ call[c].pc = "booted" /\ call[c].run \in Runs /\ call[c].res \in {"succeeded", "failed"}
              /\ call[c].of \in 0..MaxBoots
         \/ call[c].pc \in ProviderPoints \cup {"cleanup", "record"} /\ call[c].boot \in BootIds

\* A boot is reported as succeeded only when the domain has its definition and
\* its own kernel printed the marker, whatever other boots, of other runs too,
\* and earlier attempts in its directory left behind.
SuccessIsItsOwn ==
    \A c \in Callers :
        call[c].pc = "record" /\ call[c].res = "succeeded" =>
          /\ dom = Boot(c)
          /\ Boot(c) \in ready \/ boots[Boot(c)].wait

\* A boot that failed under stop_on_failure leaves no QEMU of its own running,
\* unless the cleanup itself failed or a file could not be written.
FailedIsStopped ==
    \A c \in Callers :
        call[c].pc = "record" /\ call[c].res = "failed" /\ Run(c) \in Stops /\ ~call[c].unclean
          => vm.boot # Boot(c)

\* A kernel that came up before its QEMU went away is not reported as having exited
\* before readiness.  Exempt is a QEMU that was not gone when the probe took it for that.
ExitedWasNotReady ==
    \A c \in Callers :
        call[c].pc \in {"cleanup", "record"} /\ call[c].why = "exited" => Boot(c) \notin ready

\* A run that is recorded as booted was not booted again since: the success in
\* the manifest is of the last boot that touched the domain for that run.
SuccessIsLatest ==
    \A r \in Runs : step[r].status = "succeeded" =>
        /\ boots[step[r].id].run = r
        /\ \A b \in DOMAIN boots : boots[b].run = r => b <= step[r].id

\* No boot destroys, redefines or stops a domain that is not of this server.
AlienUntouched ==
    [][dom = Alien /\ ~NoBootInProgress =>
          dom' = Alien /\ (vm.boot = Alien => vm'.boot = Alien \/ GuestExits)]_bootVars

\* What the frozen-domain section of the wait-for-debugger design says: a boot
\* that is forced destroys the domain of the boot before, which is its own.
RebootReplacesDomain ==
    \A c \in Callers :
        call[c].pc = "booted" /\ call[c].why = "port" => ~(Owned /\ vm.boot = dom)

=============================================================================
