--------------------------- MODULE CoveragePromise ---------------------------
(***************************************************************************)
(* What the protocol promises for a policy, with no claims, queues, locks, *)
(* delays or keepers in it.  A policy is sold once; its cover ends in one  *)
(* of three ways and then for good: its exact coverage is paid after the   *)
(* trigger was confirmed for it, its holder takes back at most the premium *)
(* or it lapses, which it never does before its end.  The fund moves with  *)
(* these steps and with nothing else, one policy at a time.                *)
(***************************************************************************)
EXTENDS Integers

CONSTANT PolicyIds

VARIABLES
    clock,     \* the time
    stage,     \* per policy: "unsold", "covered", "paid", "refunded" or "lapsed"
    confirmed, \* per policy: whether its trigger was ever found met
    terms,     \* per policy sold: its coverage, its premium, the end of its cover
    fund       \* the money held

promiseVars == <<clock, stage, confirmed, terms, fund>>

PromiseInit ==
    /\ clock = 0
    /\ stage = [p \in PolicyIds |-> "unsold"]
    /\ confirmed = [p \in PolicyIds |-> FALSE]
    /\ terms = [p \in PolicyIds |-> [coverage |-> 0, premium |-> 0, end |-> 0]]
    /\ fund \in Nat

\* The terms are the ones the new state shows; those of the others stay.
Sell(p) ==
    LET sold == terms'[p] IN
    /\ stage[p] = "unsold"
    /\ stage' = [stage EXCEPT ![p] = "covered"]
    /\ sold.end > clock
    /\ sold.coverage > 0
    /\ terms' = [terms EXCEPT ![p] = sold]
    /\ fund' = fund + sold.premium
    /\ UNCHANGED <<clock, confirmed>>

\* A verdict alone: the payment may follow later.  It may come again, and it
\* may come when the cover has ended, where it is of no use.
Confirm(p) ==
    /\ stage[p] # "unsold"
    /\ confirmed' = [confirmed EXCEPT ![p] = TRUE]
    /\ UNCHANGED <<clock, stage, terms, fund>>

\* On the verdict of an earlier step or of this one.
Pay(p) ==
    /\ stage[p] = "covered"
    /\ stage' = [stage EXCEPT ![p] = "paid"]
    /\ confirmed' = [confirmed EXCEPT ![p] = TRUE]
    /\ fund' = fund - terms[p].coverage
    /\ fund' >= 0
    /\ UNCHANGED <<clock, terms>>

\* confirmed[p] may already hold: a holder can give up a confirmed cover.
TakeBack(p) ==
    /\ stage[p] = "covered"
    /\ stage' = [stage EXCEPT ![p] = "refunded"]
    /\ fund' \in (fund - terms[p].premium)..fund
    /\ fund' >= 0
    /\ UNCHANGED <<clock, confirmed, terms>>

Lapse(p) ==
    /\ stage[p] = "covered"
    /\ clock > terms[p].end
    /\ stage' = [stage EXCEPT ![p] = "lapsed"]
    /\ UNCHANGED <<clock, confirmed, terms, fund>>

PromiseNext ==
    \/ clock' = clock + 1 /\ UNCHANGED <<stage, confirmed, terms, fund>>
    \/ \E p \in PolicyIds : Sell(p) \/ Confirm(p) \/ Pay(p) \/ TakeBack(p) \/ Lapse(p)

PromiseSpec == PromiseInit /\ [][PromiseNext]_promiseVars

=============================================================================
