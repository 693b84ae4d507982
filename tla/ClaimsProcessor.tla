--------------------------- MODULE ClaimsProcessor ---------------------------
(***************************************************************************)
(* The claims processor, composed with the policy engine it settles        *)
(* through and the lock ledger of the risk pool it releases from.          *)
(*                                                                         *)
(* One action is one ledger transaction.  A call into another contract is  *)
(* part of the caller's transaction: PayClaim and Release below are        *)
(* conjuncts of the action that makes the call, so a callee that refuses   *)
(* disables the whole action, as its panic reverts the whole call.         *)
(*                                                                         *)
(* The oracle verifier is the environment: verify_trigger_fresh answers    *)
(* yes, answers no or panics (no fresh reading), so every verdict is a     *)
(* parameter and no verdict is ever forced.  The fraud detector can only   *)
(* refuse a submission, which no action here is obliged to make.           *)
(***************************************************************************)
EXTENDS PolicyBook, PoolLocks

CONSTANTS
    MaxClaims,        \* bound: claims ever created
    PayoutBps,        \* partial_payout_bps a keeper passes
    PayoutDelays,     \* payout delays the admin sets, 0 for immediate payout
    WindowSettings,   \* settings of the claim deadline, dispute window, escalation threshold
    AutoCooldown,     \* AutoProcessCooldown
    ClaimCooldown,    \* USER_CLAIM_COOLDOWN_SECONDS
    InstallmentPlans, \* plans a keeper schedules: amount each, count, interval
    DeadlineOffsets   \* how far ahead of now the admin sets a dispute deadline

ASSUME ClaimsAssumption ==
    /\ LockIds = PolicyIds
    /\ MaxClaims \in Nat
    /\ PayoutBps \subseteq Nat
    /\ PayoutDelays \subseteq Nat
    /\ WindowSettings \subseteq [deadline: Nat, dispute: Nat, escalation: Nat]
    /\ AutoCooldown \in Nat
    /\ ClaimCooldown \in Nat
    /\ InstallmentPlans \subseteq [each: Nat \ {0}, count: Nat \ {0}, interval: Nat]
    /\ DeadlineOffsets \subseteq Nat \ {0}

VARIABLES
    claim,           \* Claim(id) records
    nextClaimId,     \* NextClaimId
    policyClaim,     \* PolicyClaim(policy_id) -> claim_id, 0 if absent
    queued,          \* PendingClaims
    lastClaim,       \* UserLastClaim(user)
    autoLast,        \* AutoProcessLastTime(policy_id)
    disputeDeadline, \* ClaimDisputeDeadline(claim_id)
    payoutDelay,     \* PayoutDelay
    windows,         \* ClaimDeadline, DisputeWindow, EscalationThreshold
    cpPaused         \* Paused

claimVars == <<claim, nextClaimId, policyClaim, queued, lastClaim, autoLast,
               disputeDeadline, payoutDelay, windows, cpPaused>>
vars == <<claimVars, bookVars, lockVars>>

ClaimIds == 1..MaxClaims

\* paid, processedAt and readyAt are Options: NoTime or NoAmount when absent.
NoAmount == -1

\* A schedule with no installments stands for the empty installments vector.
NoPlan == [each |-> 0, count |-> 0, interval |-> 0, first |-> 0, done |-> 0]

Plans == [each: Nat, count: Nat, interval: Nat, first: Nat, done: Nat]

Claims == [policy: PolicyIds, claimant: Users, coverage: Nat, met: BOOLEAN,
           status: {"Pending", "Paid", "PartiallyPaid", "Rejected", "Disputed",
                    "Escalated"},
           submittedAt: Nat, processedAt: Nat \cup {NoTime},
           paid: Nat \cup {NoAmount}, readyAt: Nat \cup {NoTime}, plan: Plans]

NoClaim == [status |-> "None"]

ClaimsInit ==
    /\ claim = [c \in ClaimIds |-> NoClaim]
    /\ nextClaimId = 1
    /\ policyClaim = [p \in PolicyIds |-> 0]
    /\ queued = EmptyVec(ClaimIds)
    /\ lastClaim = [u \in Users |-> NoTime]
    /\ autoLast = [p \in PolicyIds |-> NoTime]
    /\ disputeDeadline = [c \in ClaimIds |-> NoTime]
    /\ payoutDelay = 0
    /\ windows \in WindowSettings
    /\ cpPaused = FALSE

Init == BookInit /\ LockInit /\ ClaimsInit

-----------------------------------------------------------------------------
(***************************************************************************)
(* Submission.                                                             *)
(***************************************************************************)
NewClaim(p) ==
    [policy |-> p, claimant |-> policy[p].holder, coverage |-> policy[p].coverage,
     met |-> FALSE, status |-> "Pending", submittedAt |-> now,
     processedAt |-> NoTime, paid |-> NoAmount, readyAt |-> NoTime, plan |-> NoPlan]

\* A bug: a second claim may be filed for a policy that already has one.
FileClaimAgain(p) ==
    /\ nextClaimId \in ClaimIds
    /\ policy[p].status = "Active"
    /\ policy[p].start <= now
    /\ now <= policy[p].end + windows.deadline
    /\ claim' = [claim EXCEPT ![nextClaimId] = NewClaim(p)]
    /\ policyClaim' = [policyClaim EXCEPT ![p] = nextClaimId]
    /\ queued' = Push(queued, nextClaimId)
    /\ nextClaimId' = nextClaimId + 1

\* file_claim, less the claimant's cooldown: the record, its index entry and
\* its place in the queue.  start <= now makes the guard of issue #625 idle.
FileClaim(p) ==
    /\ nextClaimId \in ClaimIds
    /\ policyClaim[p] = 0
    /\ policy[p].status = "Active"
    /\ policy[p].start <= now
    /\ now <= policy[p].end + windows.deadline
    /\ claim' = [claim EXCEPT ![nextClaimId] = NewClaim(p)]
    /\ policyClaim' = [policyClaim EXCEPT ![p] = nextClaimId]
    /\ queued' = Push(queued, nextClaimId)
    /\ nextClaimId' = nextClaimId + 1

\* submit_claim, submit_claim_with_ref, submit_claim_with_type; the claimant is
\* the holder and not the admin.  A batch of two or more claims of one claimant
\* fails on the cooldown, and a batch of one is submit_claim.
SubmitClaim(p) ==
    /\ ~cpPaused
    /\ FileClaim(p)
    /\ LET u == policy[p].holder IN
       /\ u # Admin
       /\ lastClaim[u] = NoTime \/ now >= lastClaim[u] + ClaimCooldown
       /\ lastClaim' = [lastClaim EXCEPT ![u] = now]
    /\ UNCHANGED <<autoLast, disputeDeadline, payoutDelay, windows, cpPaused>>
    /\ UNCHANGED <<bookVars, lockVars>>

-----------------------------------------------------------------------------
(***************************************************************************)
(* Settlement.                                                             *)
(***************************************************************************)

\* The claim after a verdict.  A negative one leaves paid and readyAt of an
\* earlier positive one in place; so does a positive one without a delay.
Decided(cl, met, bps) ==
    IF met
    THEN [cl EXCEPT
            !.met = TRUE, !.processedAt = now,
            !.status = IF bps >= FullBps THEN "Paid" ELSE "PartiallyPaid",
            !.paid = IF bps >= FullBps THEN cl.coverage
                     ELSE (cl.coverage * bps) \div FullBps,
            !.readyAt = IF payoutDelay > 0 THEN now + payoutDelay ELSE @]
    ELSE [cl EXCEPT !.met = FALSE, !.processedAt = now, !.status = "Rejected"]

\* A bug: the engine pays and the pool keeps the coverage locked.
PayOutKeepsLock(p) == PayClaim(p) /\ UNCHANGED lockVars

\* Policy engine and risk pool, in one transaction: the payout of the coverage
\* and the release of the capital behind it.
PayOut(p) == PayClaim(p) /\ Release(p)

\* A bug: an immediate payout is recorded and not made.
SettleForgetsPayout(c, cl, queue, met, bps) ==
    /\ cl.status = "Pending"
    /\ cl.claimant = policy[cl.policy].holder
    /\ claim' = [claim EXCEPT ![c] = Decided(cl, met, bps)]
    /\ queued' = RemoveFirst(queue, c)
    /\ UNCHANGED <<policyVars, lockVars>>

\* A bug: the verdict is not looked at before the payout.
SettlePaysAnyway(c, cl, queue, met, bps) ==
    /\ cl.status = "Pending"
    /\ cl.claimant = policy[cl.policy].holder
    /\ claim' = [claim EXCEPT ![c] = Decided(cl, met, bps)]
    /\ queued' = RemoveFirst(queue, c)
    /\ IF payoutDelay = 0 THEN PayOut(cl.policy) ELSE UNCHANGED <<policyVars, lockVars>>

\* settle_claim_with_trigger_result for claim c, whose record is cl and whose
\* queue is `queue` when the settlement begins.
Settle(c, cl, queue, met, bps) ==
    /\ cl.status = "Pending"
    /\ cl.claimant = policy[cl.policy].holder
    /\ claim' = [claim EXCEPT ![c] = Decided(cl, met, bps)]
    /\ queued' = RemoveFirst(queue, c)
    /\ IF met /\ payoutDelay = 0
       THEN PayOut(cl.policy)
       ELSE UNCHANGED <<policyVars, lockVars>>

\* On a claim that is not Pending the call returns AlreadyProcessed and changes
\* nothing.  batch_process_claims is a sequence of these in one transaction.
ProcessClaim(c, met, bps) ==
    /\ ~cpPaused
    /\ claim[c].status = "Pending"
    /\ claim[c].coverage = policy[claim[c].policy].coverage
    /\ Settle(c, claim[c], queued, met, bps)
    /\ UNCHANGED <<nextClaimId, policyClaim, lastClaim, autoLast, disputeDeadline,
                   payoutDelay, windows, cpPaused, now, catalogueVars>>

\* The verdict is drawn from answers to queries of the keeper's choice, not from
\* the policy's own trigger: all of them, or any of them.
ProcessMultiReadingClaim(c, answers, requireAll, bps) ==
    ProcessClaim(c, IF requireAll THEN FALSE \notin answers ELSE TRUE \in answers, bps)

\* The keeper's cooldown per policy, which every auto_process that returns
\* restarts, whether it settled anything or not.
AutoProcessGate(p) ==
    /\ ~cpPaused
    /\ policy[p].status # "None"
    /\ autoLast[p] = NoTime \/ now >= autoLast[p] + AutoCooldown
    /\ autoLast' = [autoLast EXCEPT ![p] = now]

\* The idempotency guard: a claim on file that is no longer Pending.
HasDecidedClaim(p) ==
    policyClaim[p] # 0 /\ claim[policyClaim[p]].status # "Pending"

AutoProcessIdle(p) ==
    /\ AutoProcessGate(p)
    /\ HasDecidedClaim(p) \/ policy[p].status # "Active"
    /\ UNCHANGED <<claim, nextClaimId, policyClaim, queued, lastClaim,
                   disputeDeadline, payoutDelay, windows, cpPaused, bookVars, lockVars>>

\* A bug: the policy expires and its capital stays locked.
AutoProcessExpireKeepsLock(p) ==
    /\ AutoProcessGate(p)
    /\ ~HasDecidedClaim(p)
    /\ policy[p].status = "Active"
    /\ now > policy[p].end
    /\ ExpirePolicy(p)
    /\ UNCHANGED <<claim, nextClaimId, policyClaim, queued, lastClaim,
                   disputeDeadline, payoutDelay, windows, cpPaused, now, catalogueVars>>
    /\ UNCHANGED lockVars

\* A bug: any claim on file, a Pending one too, makes the call return early.
AutoProcessExpireUnclaimed(p) ==
    /\ AutoProcessGate(p)
    /\ policyClaim[p] = 0
    /\ policy[p].status = "Active"
    /\ now > policy[p].end
    /\ ExpirePolicy(p)
    /\ Release(p)
    /\ UNCHANGED <<claim, nextClaimId, policyClaim, queued, lastClaim,
                   disputeDeadline, payoutDelay, windows, cpPaused, now, catalogueVars>>

\* A bug: the policy expires at the last moment of its cover.
AutoProcessExpireAtEnd(p) ==
    /\ AutoProcessGate(p)
    /\ ~HasDecidedClaim(p)
    /\ policy[p].status = "Active"
    /\ now >= policy[p].end
    /\ ExpirePolicy(p)
    /\ Release(p)
    /\ UNCHANGED <<claim, nextClaimId, policyClaim, queued, lastClaim,
                   disputeDeadline, payoutDelay, windows, cpPaused, now, catalogueVars>>

\* Past the end an undecided policy expires: its Pending claim, if it has one,
\* keeps that status and its place in the queue.
AutoProcessExpire(p) ==
    /\ AutoProcessGate(p)
    /\ ~HasDecidedClaim(p)
    /\ policy[p].status = "Active"
    /\ now > policy[p].end
    /\ ExpirePolicy(p)
    /\ Release(p)
    /\ UNCHANGED <<claim, nextClaimId, policyClaim, queued, lastClaim,
                   disputeDeadline, payoutDelay, windows, cpPaused, now, catalogueVars>>

\* Up to the end the policy is evaluated, on the claim it has or on a new one.
\* The start of the cover is not compared, and the new claim is not gated by
\* the admin check nor the claimant's cooldown of submit_claim.
AutoProcessSettle(p, met, bps) ==
    /\ AutoProcessGate(p)
    /\ ~HasDecidedClaim(p)
    /\ policy[p].status = "Active"
    /\ now <= policy[p].end
    /\ IF policyClaim[p] # 0
       THEN /\ Settle(policyClaim[p], claim[policyClaim[p]], queued, met, bps)
            /\ UNCHANGED <<policyClaim, nextClaimId>>
       ELSE /\ nextClaimId \in ClaimIds
            /\ policyClaim' = [policyClaim EXCEPT ![p] = nextClaimId]
            /\ nextClaimId' = nextClaimId + 1
            /\ Settle(nextClaimId, NewClaim(p), Push(queued, nextClaimId), met, bps)
    /\ UNCHANGED <<lastClaim, disputeDeadline, payoutDelay, windows, cpPaused,
                   now, catalogueVars>>

-----------------------------------------------------------------------------
(***************************************************************************)
(* Disputes, rejections and escalations.                                   *)
(***************************************************************************)

\* What these leave alone: all but the claim records and the queue.
OnlyClaimAndQueue ==
    UNCHANGED <<nextClaimId, policyClaim, lastClaim, autoLast, disputeDeadline,
                payoutDelay, windows, cpPaused, bookVars, lockVars>>

\* A bug: a disputed claim stays in the queue.
DisputeClaimKeepsQueued(u, c) ==
    /\ claim[c].status \in {"Pending", "Rejected", "PartiallyPaid"}
    /\ u \in {claim[c].claimant, policy[claim[c].policy].holder}
    /\ claim' = [claim EXCEPT ![c].status = "Disputed"]
    /\ UNCHANGED queued
    /\ OnlyClaimAndQueue

\* Not gated by the pause.
DisputeClaim(u, c) ==
    /\ claim[c].status \in {"Pending", "Rejected", "PartiallyPaid"}
    /\ u \in {claim[c].claimant, policy[claim[c].policy].holder}
    /\ disputeDeadline[c] = NoTime \/ now <= disputeDeadline[c]
    /\ \/ claim[c].status = "Pending"
       \/ claim[c].processedAt = NoTime
       \/ now <= claim[c].processedAt + windows.dispute
    /\ claim' = [claim EXCEPT ![c].status = "Disputed"]
    /\ queued' = RemoveFirst(queued, c)
    /\ OnlyClaimAndQueue

ResolveDispute(c) ==
    /\ claim[c].status = "Disputed"
    /\ claim' = [claim EXCEPT ![c].status = "Pending"]
    /\ queued' = Push(queued, c)
    /\ OnlyClaimAndQueue

\* Whatever the status, a Paid claim's included.
RejectClaim(c) ==
    /\ "reject" \in AdminOps
    /\ claim[c].status # "None"
    /\ claim' = [claim EXCEPT ![c].status = "Rejected"]
    /\ queued' = RemoveFirst(queued, c)
    /\ OnlyClaimAndQueue

EscalateClaim(c) ==
    /\ ~cpPaused
    /\ claim[c].status = "Pending"
    /\ now - claim[c].submittedAt >= windows.escalation
    /\ now <= policy[claim[c].policy].end + windows.deadline
    /\ claim' = [claim EXCEPT ![c].status = "Escalated"]
    /\ queued' = RemoveFirst(queued, c)
    /\ OnlyClaimAndQueue

-----------------------------------------------------------------------------
(***************************************************************************)
(* Payouts.                                                                *)
(***************************************************************************)

\* A bug: the time of the payout is not compared.
ClaimPayoutEarly(c) ==
    /\ ~cpPaused
    /\ claim[c].status # "None"
    /\ claim[c].readyAt # NoTime
    /\ claim[c].paid # NoAmount
    /\ claim' = [claim EXCEPT ![c].readyAt = NoTime]
    /\ PayOut(claim[c].policy)
    /\ UNCHANGED <<nextClaimId, policyClaim, queued, lastClaim, autoLast,
                   disputeDeadline, payoutDelay, windows, cpPaused, now, catalogueVars>>

\* claim_payout, claim_payout_to and claim_payout_with_token; anyone may call.
\* The status is not looked at, and what leaves the engine is the coverage of
\* the policy, not paid.
ClaimPayout(c) ==
    /\ ~cpPaused
    /\ claim[c].status # "None"
    /\ claim[c].readyAt # NoTime
    /\ now >= claim[c].readyAt
    /\ claim[c].paid # NoAmount
    /\ claim[c].paid <= claim[c].coverage
    /\ claim' = [claim EXCEPT ![c].readyAt = NoTime]
    /\ PayOut(claim[c].policy)
    /\ UNCHANGED <<nextClaimId, policyClaim, queued, lastClaim, autoLast,
                   disputeDeadline, payoutDelay, windows, cpPaused, now, catalogueVars>>

\* A new plan replaces an old one, whatever has been collected under that.
ScheduleInstallments(c, plan) ==
    /\ ~cpPaused
    /\ claim[c].status \in {"Paid", "PartiallyPaid"}
    /\ plan.each * plan.count <= claim[c].coverage
    /\ claim' = [claim EXCEPT ![c].plan =
                   [each |-> plan.each, count |-> plan.count, interval |-> plan.interval,
                    first |-> now + plan.interval, done |-> 0]]
    /\ UNCHANGED queued
    /\ OnlyClaimAndQueue

\* The installments due at time t; a zero interval divides by zero and traps.
InstallmentsDue(plan, t) ==
    IF t >= plan.first THEN Lesser((t - plan.first) \div plan.interval + 1, plan.count)
                       ELSE 0

\* By the claimant.  The amount is computed and returned, and no token moves:
\* the one effect outside the record is the release of the policy's lock.
ClaimInstallment(c) ==
    /\ ~cpPaused
    /\ claim[c].status # "None"
    /\ LET plan == claim[c].plan IN
       /\ plan.done < plan.count
       /\ plan.interval > 0
       /\ InstallmentsDue(plan, now) > plan.done
       /\ claim' = [claim EXCEPT ![c].plan.done = InstallmentsDue(plan, now)]
    /\ Release(claim[c].policy)
    /\ UNCHANGED <<nextClaimId, policyClaim, queued, lastClaim, autoLast,
                   disputeDeadline, payoutDelay, windows, cpPaused, bookVars>>

-----------------------------------------------------------------------------
(***************************************************************************)
(* Administration.                                                         *)
(***************************************************************************)
OnlySettings == UNCHANGED <<claim, nextClaimId, policyClaim, queued, lastClaim,
                            autoLast, bookVars, lockVars>>

SetPayoutDelay(d) ==
    /\ d # payoutDelay
    /\ payoutDelay' = d
    /\ UNCHANGED <<disputeDeadline, windows, cpPaused>>
    /\ OnlySettings

\* set_claim_deadline, set_dispute_window and set_escalation_threshold.
SetWindows(w) ==
    /\ w # windows
    /\ windows' = w
    /\ UNCHANGED <<disputeDeadline, payoutDelay, cpPaused>>
    /\ OnlySettings

SetDisputeDeadline(c, deadline) ==
    /\ deadline > now
    /\ claim[c].status # "None"
    /\ disputeDeadline' = [disputeDeadline EXCEPT ![c] = deadline]
    /\ UNCHANGED <<payoutDelay, windows, cpPaused>>
    /\ OnlySettings

SetProcessorPause(b) ==
    /\ "cp_pause" \in AdminOps
    /\ b # cpPaused
    /\ cpPaused' = b
    /\ UNCHANGED <<disputeDeadline, payoutDelay, windows>>
    /\ OnlySettings

\* The admin calls the risk pool directly.
AdminRelease(p) ==
    /\ "release" \in AdminOps
    /\ Release(p)

-----------------------------------------------------------------------------
Submission == \E p \in PolicyIds : SubmitClaim(p)

Processing ==
    \E c \in ClaimIds, met \in BOOLEAN, bps \in PayoutBps : ProcessClaim(c, met, bps)

MultiReadingProcessing ==
    \E c \in ClaimIds, answers \in SUBSET BOOLEAN \ {{}}, requireAll \in BOOLEAN,
       bps \in PayoutBps :
        ProcessMultiReadingClaim(c, answers, requireAll, bps)

\* One call of auto_process, in its three outcomes.
AutoProcess(p) ==
    \/ AutoProcessIdle(p)
    \/ AutoProcessExpire(p)
    \/ \E met \in BOOLEAN, bps \in PayoutBps : AutoProcessSettle(p, met, bps)

Review ==
    \E c \in ClaimIds :
        \/ \E u \in Users : DisputeClaim(u, c)
        \/ ResolveDispute(c)
        \/ RejectClaim(c)
        \/ EscalateClaim(c)

Payouts ==
    \E c \in ClaimIds :
        \/ ClaimPayout(c)
        \/ \E plan \in InstallmentPlans : ScheduleInstallments(c, plan)
        \/ ClaimInstallment(c)

Settings ==
    \/ \E d \in PayoutDelays : SetPayoutDelay(d)
    \/ \E w \in WindowSettings : SetWindows(w)
    \/ \E c \in ClaimIds, off \in DeadlineOffsets : SetDisputeDeadline(c, now + off)
    \/ \E b \in BOOLEAN : SetProcessorPause(b)

PoolStep ==
    \/ \E p \in PolicyIds, amount \in LockAmounts : LockForPolicy(p, amount)
    \/ \E p \in PolicyIds : AdminRelease(p)
    \/ \E bps \in UtilizationCaps : SetCapacity(bps)
    \/ "pool" \in AdminOps
       /\ \E s \in {"Active", "Paused", "WindingDown"} : SetPoolStatus(s)

BookStep ==
    \/ Purchase
    \/ HolderStep
    \/ BookSwitch

TimePasses == Tick /\ UNCHANGED <<policyVars, catalogueVars, claimVars, lockVars>>

Next ==
    \/ Submission
    \/ Processing
    \/ MultiReadingProcessing
    \/ \E p \in PolicyIds : AutoProcess(p)
    \/ Review
    \/ Payouts
    \/ Settings
    \/ PoolStep /\ UNCHANGED <<bookVars, claimVars>>
    \/ BookStep /\ UNCHANGED <<now, catalogueVars, claimVars, lockVars>>
    \/ CatalogueNext /\ UNCHANGED <<now, policyVars, claimVars, lockVars>>
    \/ TimePasses

Spec == Init /\ [][Next]_vars

\* Time goes on, and a keeper calls auto_process on every policy again and again.
FairSpec ==
    /\ Spec
    /\ WF_vars(TimePasses)
    /\ \A p \in PolicyIds : WF_vars(AutoProcess(p))

-----------------------------------------------------------------------------
RecordTypeOK ==
    /\ claim \in [ClaimIds -> Claims \cup {NoClaim}]
    /\ nextClaimId \in 1..(MaxClaims + 1)
    /\ policyClaim \in [PolicyIds -> 0..MaxClaims]
    /\ queued \in [ClaimIds -> Nat]

SettingTypeOK ==
    /\ lastClaim \in [Users -> Nat \cup {NoTime}]
    /\ autoLast \in [PolicyIds -> Nat \cup {NoTime}]
    /\ disputeDeadline \in [ClaimIds -> Nat \cup {NoTime}]
    /\ payoutDelay \in Nat
    /\ windows \in [deadline: Nat, dispute: Nat, escalation: Nat]
    /\ cpPaused \in BOOLEAN

ClaimTypeOK == RecordTypeOK /\ SettingTypeOK

TypeOK == BookTypeOK /\ LockTypeOK /\ ClaimTypeOK

\* PendingClaims over filing, settlement, dispute, resolution, rejection and
\* escalation: a claim is in the queue exactly once while it is Pending and not
\* at all otherwise, so no keeper sees a decided claim and none is lost.
QueueExact ==
    \A c \in ClaimIds : queued[c] = IF claim[c].status = "Pending" THEN 1 ELSE 0

\* The PolicyClaim index (one claim per policy, filed by its holder or created
\* by auto_process): the claim a policy points to is its claim and its only one.
ClaimIndexExact ==
    \A c \in ClaimIds, p \in PolicyIds :
        policyClaim[p] = c <=> claim[c].status # "None" /\ claim[c].policy = p

\* pay_claim is reached only through a decision: a policy that was paid has a
\* claim on file for which the trigger was found met, now or at some time before.
PaidOnlyIfConfirmed ==
    \A p \in PolicyIds :
        policy[p].status = "Claimed" =>
            policyClaim[p] # 0 /\ claim[policyClaim[p]].paid # NoAmount

\* settle and claim_payout: a claim on record as Paid or PartiallyPaid with no
\* payout outstanding means that the coverage did leave the policy engine.
DecidedMeansSettled ==
    \A c \in ClaimIds :
        claim[c].status \in {"Paid", "PartiallyPaid"} /\ claim[c].readyAt = NoTime =>
            policy[claim[c].policy].status = "Claimed"

\* The comment of auto_process on the atomic lock release, and the payout path
\* it mirrors: no policy is paid or expired whose capital is still locked.
SettledReleasesLock ==
    \A p \in PolicyIds :
        policy[p].status \in {"Claimed", "Expired"} => lock[p].state = "released"

\* next_claim_id hands out ids in order, and a claim is for a policy that was sold.
ClaimsInOrder ==
    \A c \in ClaimIds : claim[c].status = "None" <=> c >= nextClaimId

ClaimIsForSold ==
    \A c \in ClaimIds :
        claim[c].status # "None" => policy[claim[c].policy].status # "None"

\* What every entry point of the claims processor preserves.
ClaimsInv ==
    /\ ClaimTypeOK
    /\ ClaimsInOrder
    /\ ClaimIsForSold
    /\ QueueExact
    /\ ClaimIndexExact
    /\ PaidOnlyIfConfirmed
    /\ DecidedMeansSettled
    /\ SettledReleasesLock

PaidInDueTime ==
    \A p \in PolicyIds :
        policy[p].status = "Active" /\ policy'[p].status = "Claimed" =>
            LET c == policyClaim'[p] IN
            \/ /\ payoutDelay = 0
               /\ claim[c].status \in {"None", "Pending"}
               /\ claim'[c].status \in {"Paid", "PartiallyPaid"}
            \/ /\ claim[c].readyAt \in 0..now
               /\ claim'[c].readyAt = NoTime

\* The payout delay: a policy is paid either in the very step that decides its
\* claim, and then no delay is in force, or at or after the time its claim became
\* ready, and then that time is spent.
PayoutDelayHolds == [][PaidInDueTime]_vars

ReleasedStaysOut ==
    \A p \in PolicyIds :
        policy[p].status = "Active" /\ lock[p].state = "released" =>
            policy'[p].status \in {"Active", "Cancelled"}

\* The lock is what lets a policy be settled, since the payout and the expiry both
\* release it in their own transaction: once it was released by another way (the
\* admin, or the first installment of a delayed payout) while the policy is still
\* Active, that policy is never paid and never expires; it can only be cancelled.
ReleasedIsFrozen == [][ReleasedStaysOut]_vars

\* The comment of settle_claim (lib.rs, l. 2609): "If the trigger is not met the
\* claim is marked as rejected and no payout is issued."  The code violates it: a
\* decision that waits for its delay keeps its payout when it is turned round.
RejectedIsNotPaid ==
    [][\A p \in PolicyIds :
         policy[p].status = "Active" /\ policy'[p].status = "Claimed" =>
             claim'[policyClaim'[p]].status # "Rejected"]_vars

\* The comment of process_claim (lib.rs, l. 733) on partial payouts: "`Some(5000)`
\* pays 50%".  The code violates it: pay_claim pays the coverage of the policy.
PayoutIsItsShare ==
    [][\A p \in PolicyIds :
         policy[p].status = "Active" /\ policy'[p].status = "Claimed" =>
             escrow - escrow' = claim'[policyClaim'[p]].paid]_vars

\* What CoveragePromise sees of a policy: how far its status has come, the terms
\* it was sold on, and whether the claim on file for it was ever found met.
StageOf ==
    [None |-> "unsold", Active |-> "covered", Claimed |-> "paid",
     Cancelled |-> "refunded", Expired |-> "lapsed"]

TermsOf(pol) ==
    IF pol.status = "None"
    THEN [coverage |-> 0, premium |-> 0, end |-> 0]
    ELSE [coverage |-> pol.coverage, premium |-> pol.premium, end |-> pol.end]

stageBar == [p \in PolicyIds |-> StageOf[policy[p].status]]
termsBar == [p \in PolicyIds |-> TermsOf(policy[p])]
confirmedBar == [p \in PolicyIds |->
                   policyClaim[p] # 0 /\ claim[policyClaim[p]].paid # NoAmount]

Promise == INSTANCE CoveragePromise WITH
    clock <- now,
    stage <- stageBar,
    confirmed <- confirmedBar,
    terms <- termsBar,
    fund <- escrow

\* The three contracts together keep the promise made for each policy.
KeepsPromise == Promise!PromiseSpec

\* The bound on time leaves room for the keeper's next call.
KeeperHasTime(p) == autoLast[p] = NoTime \/ autoLast[p] + AutoCooldown <= MaxTime

\* auto_process past the end (ARCHITECTURE.md, data flow): when the cover of a
\* policy has run out undecided, the capital behind it is eventually freed, unless
\* its claim is taken out of the keeper's hands (decided, disputed, escalated or
\* rejected), the holder cancels it or the admin pauses the processor.
LapsedIsFreed ==
    \A p \in PolicyIds :
        (/\ policy[p].status = "Active"
         /\ now > policy[p].end
         /\ lock[p].state = "held"
         /\ ~HasDecidedClaim(p)
         /\ KeeperHasTime(p))
        ~> (\/ lock[p].state = "released"
            \/ HasDecidedClaim(p)
            \/ policy[p].status = "Cancelled"
            \/ cpPaused)

=============================================================================
