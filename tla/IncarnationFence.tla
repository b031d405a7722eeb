-------------------------- MODULE IncarnationFence --------------------------
(***************************************************************************)
(* What admission promises the layers above it, without its mechanism.     *)
(*                                                                         *)
(* A target lives through numbered incarnations.  Work is started on the   *)
(* incarnation of the moment and ends in success or by being dropped.  The *)
(* target can be shut down to retire an incarnation: from then on all work *)
(* in flight is fenced, fenced work never succeeds, nothing starts, and    *)
(* the target opens again only when no fenced work is left.  Work started  *)
(* afterwards belongs to an incarnation later than any retired one.        *)
(***************************************************************************)
EXTENDS Naturals

CONSTANT Work           \* identities of pieces of work

VARIABLES
    open,               \* new work may start
    floor,              \* no incarnation up to this one is ever worked on again
    status,             \* status[w]: where w is in its life
    incarnation         \* incarnation[w]: what w was started on

fvars == <<open, floor, status, incarnation>>

Status == {"idle", "live", "fenced", "succeeded", "dropped"}

FenceTypeOK ==
    /\ open \in BOOLEAN
    /\ floor \in Nat
    /\ status \in [Work -> Status]
    /\ incarnation \in [Work -> Nat]

InFlight == {w \in Work : status[w] \in {"live", "fenced"}}

FenceInit ==
    /\ open = TRUE
    /\ floor = 0
    /\ status = [w \in Work |-> "idle"]
    /\ incarnation = [w \in Work |-> 0]

\* Work starts only on an open target and above every retired incarnation.
Start(w) ==
    /\ open
    /\ status[w] = "idle"
    /\ incarnation'[w] \in Nat /\ incarnation'[w] > floor
    /\ incarnation' = [incarnation EXCEPT ![w] = incarnation'[w]]
    /\ status' = [status EXCEPT ![w] = "live"]
    /\ UNCHANGED <<open, floor>>

\* Some live work is told to stop while the target stays as it is.
Interrupt ==
    /\ \E S \in SUBSET {w \in Work : status[w] = "live"} :
         status' = [w \in Work |-> IF w \in S THEN "fenced" ELSE status[w]]
    /\ UNCHANGED <<open, floor, incarnation>>

\* Only work that was never fenced succeeds.
Succeed(w) ==
    /\ status[w] = "live"
    /\ status' = [status EXCEPT ![w] = "succeeded"]
    /\ UNCHANGED <<open, floor, incarnation>>

Drop(w) ==
    /\ w \in InFlight
    /\ status' = [status EXCEPT ![w] = "dropped"]
    /\ UNCHANGED <<open, floor, incarnation>>

\* Shutting down raises the floor over all the work in flight and fences that
\* work in the same step.
Shut ==
    /\ open
    /\ open' = FALSE
    /\ floor' \in Nat /\ floor' > floor
    /\ \A w \in InFlight : incarnation[w] <= floor'
    /\ status' = [w \in Work |-> IF status[w] = "live" THEN "fenced"
                                                       ELSE status[w]]
    /\ UNCHANGED incarnation

OpenAgain ==
    /\ ~open
    /\ InFlight = {}
    /\ open' = TRUE
    /\ UNCHANGED <<floor, status, incarnation>>

FenceNext ==
    \/ \E w \in Work : Start(w) \/ Succeed(w) \/ Drop(w)
    \/ Interrupt
    \/ Shut
    \/ OpenAgain

FenceSpec == FenceInit /\ [][FenceNext]_fvars

=============================================================================
