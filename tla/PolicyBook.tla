----------------------------- MODULE PolicyBook -----------------------------
(***************************************************************************)
(* The policy side of the policy engine: purchase, cancellation, transfer  *)
(* and the two settlements the claims processor asks for, with the USDC    *)
(* the contract holds.  Every entry point is one ledger transaction: it    *)
(* either happens as a whole or, on any panic, not at all.                 *)
(*                                                                         *)
(* Abstracted: authentication (the actor of an action is the address that  *)
(* signed), the buyer's own balance (a purchase whose transfer would fail  *)
(* simply does not happen), time-to-live of storage entries, events.  The  *)
(* four purchase entry points differ only in the start they pass.          *)
(***************************************************************************)
EXTENDS ProductCatalogue

CONSTANTS
    Users,            \* addresses that may come to hold a policy
    Admin,            \* the protocol admin; may or may not be one of Users
    MaxPolicies,      \* bound: policies ever sold
    MaxTime,          \* bound: the last ledger timestamp
    Coverages,        \* coverage amounts on offer (coverage_min..coverage_max)
    Durations,        \* policy durations in days (1..max_duration_days)
    DaySecs,          \* seconds of a day: 86_400
    StartDelays,      \* how far ahead of now a policy may be scheduled
    RateBps,          \* premium_rate_bps
    PremiumScale,     \* 365 * 10_000, the divisor of the premium
    PurchaseCooldown, \* PURCHASE_COOLING_OFF_SECONDS
    InitialEscrow     \* USDC minted to the policy engine from outside

ASSUME BookAssumption ==
    /\ MaxPolicies \in Nat
    /\ MaxTime \in Nat
    /\ Coverages \subseteq Nat
    /\ Durations \subseteq Nat \ {0}
    /\ StartDelays \subseteq Nat
    /\ DaySecs \in Nat \ {0}
    /\ RateBps \in Nat
    /\ PremiumScale \in Nat \ {0}
    /\ PurchaseCooldown \in Nat
    /\ InitialEscrow \in Nat

VARIABLES
    now,          \* env.ledger().timestamp()
    policy,       \* Policy(id) records
    nextPolicyId, \* NextPolicyId
    escrow,       \* the contract's own USDC balance
    listed,       \* UserPolicies(user)
    lastPurchase, \* LastPurchase((buyer, oracle_key))
    pePaused      \* Paused

policyVars == <<policy, nextPolicyId, escrow, listed, lastPurchase, pePaused>>
bookVars == <<now, policyVars, catalogueVars>>

PolicyIds == 1..MaxPolicies

\* Stands for an absent Option<u64> or a missing storage entry.
NoTime == -1

Policies == [product: ProductIds, holder: Users, key: OracleKeys,
             status: {"Active", "Claimed", "Expired", "Cancelled"},
             start: Nat, end: Nat, coverage: Nat, premium: Nat]

NoPolicy == [status |-> "None"]

BookInit ==
    /\ CatalogueInit
    /\ now = 0
    /\ policy = [p \in PolicyIds |-> NoPolicy]
    /\ nextPolicyId = 1
    /\ escrow = InitialEscrow
    /\ listed = [u \in Users |-> EmptyVec(PolicyIds)]
    /\ lastPurchase = [uk \in Users \X OracleKeys |-> NoTime]
    /\ pePaused = FALSE

-----------------------------------------------------------------------------
Lesser(a, b) == IF a <= b THEN a ELSE b

\* coverage * premium_rate_bps * days / 365 / 10_000; two truncating divisions
\* in a row are one division by the product of the divisors.
Premium(coverage, days) == (coverage * RateBps * days) \div PremiumScale

\* A bug: the scheduled start is forgotten and a refund is never reduced.
RefundInFull(pol, t) == pol.premium

\* premium_paid less the part earned by the elapsed share of the cover; nothing
\* is earned before a scheduled start (saturating_sub) nor after the end (min).
Refund(pol, t) ==
    LET total == pol.end - pol.start
        elapsed == IF t <= pol.start THEN 0 ELSE Lesser(t - pol.start, total)
    IN  pol.premium - (pol.premium * elapsed) \div total

\* remove_policy_from_user.
Unlist(u, p) == [listed EXCEPT ![u] = RemoveFirst(@, p)]

\* buy_policy (start = now), buy_policy_scheduled, buy_policy_with_rate and each
\* item of batch_buy_policy: buy_policy_inner.
BuyPolicy(u, g, coverage, days, k, start) ==
    /\ nextPolicyId \in PolicyIds
    /\ ~pePaused
    /\ start >= now
    /\ u # Admin
    /\ \/ lastPurchase[<<u, k>>] = NoTime
       \/ now >= lastPurchase[<<u, k>>] + PurchaseCooldown
    /\ product[g].status = "Active"
    /\ coverage > 0
    /\ Premium(coverage, days) > 0
    /\ escrow' = escrow + Premium(coverage, days)
    /\ policy' = [policy EXCEPT ![nextPolicyId] =
                    [product |-> g, holder |-> u, key |-> k, status |-> "Active",
                     start |-> start, end |-> start + days * DaySecs,
                     coverage |-> coverage, premium |-> Premium(coverage, days)]]
    /\ nextPolicyId' = nextPolicyId + 1
    /\ lastPurchase' = [lastPurchase EXCEPT ![<<u, k>>] = now]
    /\ listed' = [listed EXCEPT ![u] = Push(@, nextPolicyId)]
    /\ UNCHANGED pePaused

\* Not gated by the pause.  The refund comes out of the contract's balance, and
\* the call reverts when that does not hold it.
CancelPolicy(p) ==
    LET pol == policy[p] IN
    /\ pol.status = "Active"
    /\ Refund(pol, now) <= escrow
    /\ policy' = [policy EXCEPT ![p].status = "Cancelled"]
    /\ listed' = Unlist(pol.holder, p)
    /\ escrow' = escrow - Refund(pol, now)
    /\ UNCHANGED <<nextPolicyId, lastPurchase, pePaused>>

\* A bug: the new holder is recorded and listed, the old listing is kept.
TransferPolicyKeepsListing(p, to) ==
    LET pol == policy[p] IN
    /\ ~pePaused
    /\ pol.status = "Active"
    /\ to # pol.holder
    /\ policy' = [policy EXCEPT ![p].holder = to]
    /\ listed' = [listed EXCEPT ![to] = Push(@, p)]
    /\ UNCHANGED <<nextPolicyId, escrow, lastPurchase, pePaused>>

\* `to` is any address: the admin is not refused.  A transfer to the holder
\* itself returns early and changes nothing.
TransferPolicy(p, to) ==
    LET pol == policy[p] IN
    /\ ~pePaused
    /\ pol.status = "Active"
    /\ to # pol.holder
    /\ policy' = [policy EXCEPT ![p].holder = to]
    /\ listed' = [Unlist(pol.holder, p) EXCEPT ![to] = Push(@, p)]
    /\ UNCHANGED <<nextPolicyId, escrow, lastPurchase, pePaused>>

\* A bug: the coverage is paid and the policy stays Active.
PayClaimKeepsActive(p) ==
    /\ policy[p].status = "Active"
    /\ policy[p].coverage <= escrow
    /\ escrow' = escrow - policy[p].coverage
    /\ UNCHANGED <<policy, listed, nextPolicyId, lastPurchase, pePaused>>

\* A bug: the balance is not looked at before the payout.
PayClaimUnfunded(p) ==
    /\ policy[p].status = "Active"
    /\ escrow' = escrow - policy[p].coverage
    /\ policy' = [policy EXCEPT ![p].status = "Claimed"]
    /\ listed' = Unlist(policy[p].holder, p)
    /\ UNCHANGED <<nextPolicyId, lastPurchase, pePaused>>

\* The whole coverage goes to the holder of the moment; a balance that does not
\* hold it is InsufficientPool.  Called by the claims processor only.
PayClaim(p) ==
    /\ policy[p].status = "Active"
    /\ policy[p].coverage <= escrow
    /\ escrow' = escrow - policy[p].coverage
    /\ policy' = [policy EXCEPT ![p].status = "Claimed"]
    /\ listed' = Unlist(policy[p].holder, p)
    /\ UNCHANGED <<nextPolicyId, lastPurchase, pePaused>>

\* No look at end_time here: the claims processor has compared it.
ExpirePolicy(p) ==
    /\ policy[p].status = "Active"
    /\ policy' = [policy EXCEPT ![p].status = "Expired"]
    /\ listed' = Unlist(policy[p].holder, p)
    /\ UNCHANGED <<nextPolicyId, escrow, lastPurchase, pePaused>>

EmergencyPause ==
    /\ "pe_pause" \in AdminOps
    /\ pePaused' = TRUE
    /\ UNCHANGED <<policy, nextPolicyId, escrow, listed, lastPurchase>>

EmergencyResume ==
    /\ "pe_pause" \in AdminOps
    /\ pePaused' = FALSE
    /\ UNCHANGED <<policy, nextPolicyId, escrow, listed, lastPurchase>>

Purchase ==
    \E u \in Users, g \in ProductIds, coverage \in Coverages, days \in Durations,
       k \in OracleKeys, d \in StartDelays :
        BuyPolicy(u, g, coverage, days, k, now + d)

HolderStep ==
    \E p \in PolicyIds :
        CancelPolicy(p) \/ \E to \in Users : TransferPolicy(p, to)

BookSwitch == EmergencyPause \/ EmergencyResume

Tick == now < MaxTime /\ now' = now + 1

-----------------------------------------------------------------------------
(***************************************************************************)
(* The policy engine alone.  Its claims processor is any caller of         *)
(* pay_claim and expire_policy, at any time and in any order.              *)
(***************************************************************************)
BookNext ==
    \/ Tick /\ UNCHANGED <<policyVars, catalogueVars>>
    \/ CatalogueNext /\ UNCHANGED <<now, policyVars>>
    \/ /\ \/ Purchase
          \/ HolderStep
          \/ BookSwitch
          \/ \E p \in PolicyIds : PayClaim(p) \/ ExpirePolicy(p)
       /\ UNCHANGED <<now, catalogueVars>>

BookSpec == BookInit /\ [][BookNext]_bookVars

-----------------------------------------------------------------------------
PolicyTypeOK ==
    /\ now \in Nat
    /\ policy \in [PolicyIds -> Policies \cup {NoPolicy}]
    /\ nextPolicyId \in 1..(MaxPolicies + 1)
    /\ escrow \in Nat
    /\ listed \in [Users -> [PolicyIds -> Nat]]
    /\ lastPurchase \in [Users \X OracleKeys -> Nat \cup {NoTime}]
    /\ pePaused \in BOOLEAN

BookTypeOK == CatalogueTypeOK /\ PolicyTypeOK

\* next_policy_id hands out ids in order: the policies sold are those below it.
SoldInOrder ==
    \A p \in PolicyIds : policy[p].status = "None" <=> p >= nextPolicyId

\* buy_policy_inner never writes a cover of no length, by which Refund divides.
CoverHasLength ==
    \A p \in PolicyIds : policy[p].status # "None" => policy[p].start < policy[p].end

\* What every entry point of the policy engine preserves: its types, and with
\* them that balances stay non-negative, ids are fresh and covers have a length.
PolicyInv == PolicyTypeOK /\ SoldInOrder /\ CoverHasLength

BookInv == CatalogueTypeOK /\ PolicyInv

\* UserPolicies over buy, cancel, transfer, pay and expire: an Active policy is
\* on its holder's list once, on nobody else's, and a settled one on no list.
ListedExactly ==
    \A u \in Users, p \in PolicyIds :
        listed[u][p] = IF policy[p].status = "Active" /\ policy[p].holder = u
                       THEN 1 ELSE 0

\* The balance shrinks: one policy is settled and the money is its own.
PaysOneSettlement ==
    escrow' < escrow =>
        \E p \in PolicyIds :
            /\ policy[p].status = "Active"
            /\ \A q \in PolicyIds \ {p} : policy'[q] = policy[q]
            /\ \/ /\ policy'[p].status = "Claimed"
                  /\ escrow - escrow' = policy[p].coverage
               \/ /\ policy'[p].status = "Cancelled"
                  /\ escrow - escrow' <= policy[p].premium

\* Money leaves the policy engine only by settling an Active policy, one per
\* transaction: its exact coverage when it becomes Claimed (pay_claim), no more
\* than its own premium when it becomes Cancelled (cancel_policy).
MoneyLeavesBySettlement == [][PaysOneSettlement]_bookVars

RefundShrinks ==
    \A p \in PolicyIds :
        policy[p].status = "Active" /\ policy'[p].status = "Active" =>
            /\ Refund(policy'[p], now') <= Refund(policy[p], now)
            /\ now' >= policy[p].end => Refund(policy'[p], now') = 0

\* cancel_policy's refund over time: cancelling later never pays more, and
\* once the cover has run out nothing is left to refund.
RefundOnlyShrinks == [][RefundShrinks]_bookVars

\* buy_policy_inner's comment on AdminCannotBuyPolicy: letting the admin be a
\* policyholder "creates a direct self-dealing path".
AdminHoldsNoPolicy ==
    \A p \in PolicyIds : policy[p].status = "Active" => policy[p].holder # Admin

=============================================================================
