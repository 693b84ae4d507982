------------------------ MODULE ClaimsProcessorProofs ------------------------
(***************************************************************************)
(* Proofs about the three contracts together.                              *)
(*                                                                         *)
(* Every transaction is, seen from the policy engine, one of its own steps *)
(* or none, and the same holds for the lock ledger: what was proved about  *)
(* each of them alone holds in the composition.  On top of that, ClaimsInv *)
(* is inductive: the queue, the claim index and the settlement of policy,  *)
(* claim and lock agree with each other after every transaction.           *)
(***************************************************************************)
EXTENDS ClaimsProcessor, PolicyBookProofs, PoolLocksProofs

Inv == BookInv /\ LockInv /\ ClaimsInv

\* A claim on file is a record of type Claims, for one of the policies.
LEMMA ClaimOnFile ==
    ASSUME ClaimTypeOK, NEW c \in ClaimIds, claim[c].status # "None"
    PROVE  claim[c] \in Claims /\ claim[c].policy \in PolicyIds
  BY DEF ClaimTypeOK, RecordTypeOK, NoClaim, Claims

-----------------------------------------------------------------------------
(***************************************************************************)
(* What a transaction is to the two contracts behind the processor.        *)
(***************************************************************************)

\* The part of a step that touches the policy engine and the lock ledger.
BackendStep ==
    \/ UNCHANGED <<bookVars, lockVars>>
    \/ /\ \E p \in PolicyIds : PayClaim(p) /\ Release(p)
       /\ UNCHANGED <<now, catalogueVars>>
    \/ /\ \E p \in PolicyIds : ExpirePolicy(p) /\ Release(p)
       /\ UNCHANGED <<now, catalogueVars>>
    \/ LockNext /\ UNCHANGED bookVars
    \/ BookStep /\ UNCHANGED <<now, catalogueVars, lockVars>>
    \/ CatalogueNext /\ UNCHANGED <<now, policyVars, lockVars>>
    \/ Tick /\ UNCHANGED <<policyVars, catalogueVars, lockVars>>

LEMMA SettleBackend ==
    ASSUME NEW c, NEW cl \in Claims, NEW queue, NEW met, NEW bps,
           Settle(c, cl, queue, met, bps), UNCHANGED <<now, catalogueVars>>
    PROVE  BackendStep
  <1>1. cl.policy \in PolicyIds
    BY DEF Claims
  <1>2. QED
    BY <1>1 DEF Settle, PayOut, BackendStep, bookVars

LEMMA ProcessClaimBackend ==
    ASSUME ClaimTypeOK, NEW c \in ClaimIds, NEW met, NEW bps, ProcessClaim(c, met, bps)
    PROVE  BackendStep
  <1>1. claim[c] \in Claims
    BY ClaimOnFile DEF ProcessClaim
  <1>2. QED
    BY <1>1, SettleBackend DEF ProcessClaim

\* The claim that auto_process creates.
LEMMA NewClaimType ==
    ASSUME BookInv, NEW p \in PolicyIds, policy[p].status = "Active"
    PROVE  NewClaim(p) \in Claims
  <1>1. policy[p] \in Policies /\ now \in Nat
    BY DEF BookInv, PolicyInv, PolicyTypeOK, NoPolicy
  <1>2. policy[p].holder \in Users /\ policy[p].coverage \in Nat
    BY <1>1 DEF Policies
  <1>3. NoPlan \in Plans
    BY DEF NoPlan, Plans
  <1>4. QED
    BY <1>1, <1>2, <1>3 DEF NewClaim, Claims

LEMMA AutoProcessBackend ==
    ASSUME BookInv, ClaimTypeOK, ClaimsAssumption, NEW p \in PolicyIds, AutoProcess(p)
    PROVE  BackendStep
  <1>1. CASE AutoProcessIdle(p)
    BY <1>1 DEF AutoProcessIdle, BackendStep
  <1>2. CASE AutoProcessExpire(p)
    BY <1>2 DEF AutoProcessExpire, BackendStep
  <1>3. ASSUME NEW met \in BOOLEAN, NEW bps \in PayoutBps, AutoProcessSettle(p, met, bps)
        PROVE  BackendStep
    <2>1. CASE policyClaim[p] # 0
      <3>1. policyClaim[p] \in ClaimIds
        BY <2>1 DEF ClaimTypeOK, RecordTypeOK, ClaimIds, ClaimsAssumption
      <3>2. Settle(policyClaim[p], claim[policyClaim[p]], queued, met, bps)
        BY <1>3, <2>1 DEF AutoProcessSettle
      <3>3. claim[policyClaim[p]] \in Claims
        BY <3>1, <3>2, ClaimOnFile DEF Settle
      <3>4. QED
        BY <1>3, <3>2, <3>3, SettleBackend DEF AutoProcessSettle
    <2>2. CASE policyClaim[p] = 0
      BY <1>3, <2>2, NewClaimType, SettleBackend DEF AutoProcessSettle
    <2>3. QED
      BY <2>1, <2>2
  <1>4. QED
    BY <1>1, <1>2, <1>3 DEF AutoProcess

LEMMA PayoutsBackend ==
    ASSUME ClaimTypeOK, ClaimsAssumption, NEW c \in ClaimIds,
           ClaimPayout(c) \/ ClaimInstallment(c)
    PROVE  BackendStep
  <1>1. claim[c].policy \in PolicyIds /\ claim[c].policy \in LockIds
    BY ClaimOnFile DEF ClaimPayout, ClaimInstallment, ClaimsAssumption
  <1>2. QED
    BY <1>1 DEF ClaimPayout, ClaimInstallment, PayOut, BackendStep, LockNext, bookVars

LEMMA NextBackend ==
    ASSUME BookInv, ClaimTypeOK, ClaimsAssumption, Next
    PROVE  BackendStep
  <1>1. CASE Submission
    BY <1>1 DEF Submission, SubmitClaim, BackendStep
  <1>2. CASE Processing \/ MultiReadingProcessing
    BY <1>2, ProcessClaimBackend
       DEF Processing, MultiReadingProcessing, ProcessMultiReadingClaim
  <1>3. CASE \E p \in PolicyIds : AutoProcess(p)
    BY <1>3, AutoProcessBackend
  <1>4. CASE Review
    BY <1>4 DEF Review, DisputeClaim, ResolveDispute, RejectClaim, EscalateClaim,
                OnlyClaimAndQueue, BackendStep
  <1>5. CASE Payouts
    <2>1. ASSUME NEW c \in ClaimIds, NEW plan \in InstallmentPlans,
                 ScheduleInstallments(c, plan)
          PROVE  BackendStep
      BY <2>1 DEF ScheduleInstallments, OnlyClaimAndQueue, BackendStep
    <2>2. QED
      BY <1>5, <2>1, PayoutsBackend DEF Payouts
  <1>6. CASE Settings
    BY <1>6 DEF Settings, SetPayoutDelay, SetWindows, SetDisputeDeadline,
                SetProcessorPause, OnlySettings, BackendStep
  <1>7. CASE PoolStep /\ UNCHANGED <<bookVars, claimVars>>
    BY <1>7 DEF PoolStep, AdminRelease, LockNext, BackendStep, ClaimsAssumption
  <1>8. CASE BookStep /\ UNCHANGED <<now, catalogueVars, claimVars, lockVars>>
    BY <1>8 DEF BackendStep
  <1>9. CASE CatalogueNext /\ UNCHANGED <<now, policyVars, claimVars, lockVars>>
    BY <1>9 DEF BackendStep
  <1>10. CASE TimePasses
    BY <1>10 DEF TimePasses, BackendStep
  <1>11. QED
    BY <1>1, <1>2, <1>3, <1>4, <1>5, <1>6, <1>7, <1>8, <1>9, <1>10 DEF Next

LEMMA BackendIsBookStep ==
    ASSUME BackendStep
    PROVE  [BookNext]_bookVars
  BY DEF BackendStep, BookStep, BookNext, bookVars

LEMMA BackendIsLockStep ==
    ASSUME ClaimsAssumption, BackendStep
    PROVE  [LockNext]_lockVars
  BY DEF BackendStep, LockNext, ClaimsAssumption

-----------------------------------------------------------------------------
(***************************************************************************)
(* How the status of a policy moves.                                       *)
(***************************************************************************)

LEMMA PayClaimMoves ==
    ASSUME PolicyInv, NEW p \in PolicyIds, PayClaim(p)
    PROVE  /\ policy[p].status = "Active" /\ policy'[p].status = "Claimed"
           /\ \A q \in PolicyIds \ {p} : policy'[q].status = policy[q].status
  BY StatusRecord DEF PayClaim, PolicyInv, PolicyTypeOK

LEMMA ExpirePolicyMoves ==
    ASSUME PolicyInv, NEW p \in PolicyIds, ExpirePolicy(p)
    PROVE  /\ policy[p].status = "Active" /\ policy'[p].status = "Expired"
           /\ \A q \in PolicyIds \ {p} : policy'[q].status = policy[q].status
  BY StatusRecord DEF ExpirePolicy, PolicyInv, PolicyTypeOK

LEMMA BookStepMoves ==
    ASSUME PolicyInv, BookStep
    PROVE  \A q \in PolicyIds :
             \/ policy'[q].status = policy[q].status
             \/ policy[q].status = "None" /\ policy'[q].status = "Active"
             \/ policy[q].status = "Active" /\ policy'[q].status = "Cancelled"
  <1>1. ASSUME NEW u, NEW g, NEW coverage, NEW days, NEW k, NEW start,
               BuyPolicy(u, g, coverage, days, k, start), NEW q \in PolicyIds
        PROVE  \/ policy'[q].status = policy[q].status
               \/ policy[q].status = "None" /\ policy'[q].status = "Active"
    <2>1. policy[nextPolicyId].status = "None" /\ nextPolicyId \in PolicyIds
      BY <1>1 DEF BuyPolicy, PolicyInv, SoldInOrder, PolicyIds
    <2>2. /\ policy'[nextPolicyId].status = "Active"
          /\ q # nextPolicyId => policy'[q] = policy[q]
      BY <1>1, <2>1 DEF BuyPolicy, PolicyInv, PolicyTypeOK
    <2>3. QED
      BY <2>1, <2>2
  <1>2. ASSUME NEW p \in PolicyIds, CancelPolicy(p), NEW q \in PolicyIds
        PROVE  \/ policy'[q].status = policy[q].status
               \/ policy[q].status = "Active" /\ policy'[q].status = "Cancelled"
    BY <1>2, StatusRecord DEF CancelPolicy, PolicyInv, PolicyTypeOK
  <1>3. ASSUME NEW p \in PolicyIds, NEW to \in Users, TransferPolicy(p, to),
               NEW q \in PolicyIds
        PROVE  policy'[q].status = policy[q].status
    BY <1>3, HolderRecord DEF TransferPolicy, PolicyInv, PolicyTypeOK
  <1>4. QED
    BY <1>1, <1>2, <1>3 DEF BookStep, Purchase, HolderStep, BookSwitch, EmergencyPause,
                            EmergencyResume

\* A policy once sold stays sold, one once paid stays paid, and the lock of every
\* policy that is paid or expired has been released.
LEMMA BackendMoves ==
    ASSUME PolicyInv, LockInv, ClaimsAssumption, SettledReleasesLock, BackendStep
    PROVE  /\ \A p \in PolicyIds : /\ policy[p].status # "None" => policy'[p].status # "None"
                                   /\ policy[p].status = "Claimed"
                                        => policy'[p].status = "Claimed"
           /\ SettledReleasesLock'
  <1> DEFINE Sold == \A p \in PolicyIds :
                        /\ policy[p].status # "None" => policy'[p].status # "None"
                        /\ policy[p].status = "Claimed" => policy'[p].status = "Claimed"
  <1>1. ASSUME NEW p \in PolicyIds, Release(p)
        PROVE  /\ lock'[p].state = "released"
               /\ \A q \in PolicyIds \ {p} : lock'[q] = lock[q]
    BY <1>1 DEF Release, LockInv, LockTypeOK, ClaimsAssumption
  <1>2. CASE UNCHANGED <<bookVars, lockVars>>
    BY <1>2 DEF bookVars, policyVars, lockVars, SettledReleasesLock
  <1>3. ASSUME NEW p \in PolicyIds, PayClaim(p), Release(p)
        PROVE  Sold /\ SettledReleasesLock'
    BY <1>1, <1>3, PayClaimMoves DEF SettledReleasesLock
  <1>4. ASSUME NEW p \in PolicyIds, ExpirePolicy(p), Release(p)
        PROVE  Sold /\ SettledReleasesLock'
    BY <1>1, <1>4, ExpirePolicyMoves DEF SettledReleasesLock
  <1>5. CASE LockNext /\ UNCHANGED bookVars
    <2>1. \A p \in PolicyIds : lock[p].state = "released" => lock'[p].state = "released"
      BY <1>5 DEF LockNext, LockForPolicy, Release, SetCapacity, SetPoolStatus, LockInv,
                  LockTypeOK, ClaimsAssumption
    <2>2. QED
      BY <1>5, <2>1 DEF bookVars, policyVars, SettledReleasesLock
  <1>6. CASE BookStep /\ UNCHANGED lockVars
    BY <1>6, BookStepMoves DEF lockVars, SettledReleasesLock
  <1>7. CASE UNCHANGED policyVars /\ UNCHANGED lockVars
    BY <1>7 DEF policyVars, lockVars, SettledReleasesLock
  <1>8. QED
    BY <1>2, <1>3, <1>4, <1>5, <1>6, <1>7 DEF BackendStep

-----------------------------------------------------------------------------
(***************************************************************************)
(* The claim records.  A transaction replaces the record of one claim,     *)
(* creates one or leaves them all alone; what it may do to the policies in *)
(* the meantime is put in the hypotheses.                                  *)
(***************************************************************************)

\* ClaimsInv without the settings and without the locks, each proved apart.
RecordInv ==
    /\ RecordTypeOK
    /\ ClaimsInOrder
    /\ ClaimIsForSold
    /\ QueueExact
    /\ ClaimIndexExact
    /\ PaidOnlyIfConfirmed
    /\ DecidedMeansSettled

\* Every policy sold stays sold and every policy paid stays paid.
PoliciesMoveOn ==
    \A p \in PolicyIds : /\ policy[p].status # "None" => policy'[p].status # "None"
                         /\ policy[p].status = "Claimed" => policy'[p].status = "Claimed"

\* At most the policy of record r is paid, and then on an amount in r.
PaysOnly(r) ==
    \A p \in PolicyIds :
        policy'[p].status = "Claimed" =>
            policy[p].status = "Claimed" \/ (p = r.policy /\ r.paid # NoAmount)

\* A record that says its payout was made is right.
SettlesIfPaid(r) ==
    r.status \in {"Paid", "PartiallyPaid"} /\ r.readyAt = NoTime =>
        policy'[r.policy].status = "Claimed"

LEMMA RecordReplaced ==
    ASSUME RecordInv, PoliciesMoveOn,
           NEW c \in ClaimIds, claim[c].status # "None",
           NEW r \in Claims, r.policy = claim[c].policy,
           r.paid = NoAmount => claim[c].paid = NoAmount,
           claim' = [claim EXCEPT ![c] = r],
           nextClaimId' = nextClaimId, policyClaim' = policyClaim,
           queued' = [queued EXCEPT ![c] = IF r.status = "Pending" THEN 1 ELSE 0],
           PaysOnly(r), SettlesIfPaid(r)
    PROVE  RecordInv'
  <1>1. /\ claim'[c] = r
        /\ \A d \in ClaimIds \ {c} : claim'[d] = claim[d]
    BY DEF RecordInv, RecordTypeOK
  <1>2. r.status # "None" /\ r.policy \in PolicyIds
    BY DEF Claims
  <1>3. RecordTypeOK'
    BY DEF RecordInv, RecordTypeOK
  <1>4. ClaimsInOrder'
    BY <1>1, <1>2 DEF RecordInv, ClaimsInOrder
  <1>5. \A d \in ClaimIds : claim[d].status # "None" => claim[d].policy \in PolicyIds
    BY DEF RecordInv, RecordTypeOK, NoClaim, Claims
  <1>6. ClaimIsForSold'
    BY <1>1, <1>2, <1>5 DEF RecordInv, ClaimIsForSold, PoliciesMoveOn
  <1>7. QueueExact'
    BY <1>1 DEF RecordInv, RecordTypeOK, QueueExact
  <1>8. ClaimIndexExact'
    BY <1>1, <1>2 DEF RecordInv, ClaimIndexExact
  <1>9. PaidOnlyIfConfirmed'
    <2> SUFFICES ASSUME NEW p \in PolicyIds, policy'[p].status = "Claimed"
                 PROVE  policyClaim[p] # 0 /\ claim'[policyClaim[p]].paid # NoAmount
      BY DEF PaidOnlyIfConfirmed
    <2>1. policyClaim[p] # 0 => policyClaim[p] \in ClaimIds
      BY DEF RecordInv, RecordTypeOK, ClaimIds
    <2>2. CASE p = r.policy /\ r.paid # NoAmount
      <3>1. policyClaim[p] = c
        BY <2>2 DEF RecordInv, ClaimIndexExact
      <3>2. QED
        BY <1>1, <2>2, <3>1 DEF ClaimIds
    <2>3. CASE policy[p].status = "Claimed"
      BY <1>1, <2>1, <2>3 DEF RecordInv, PaidOnlyIfConfirmed
    <2>4. QED
      BY <2>2, <2>3 DEF PaysOnly
  <1>10. DecidedMeansSettled'
    BY <1>1, <1>2, <1>5 DEF RecordInv, DecidedMeansSettled, SettlesIfPaid, PoliciesMoveOn
  <1>11. QED
    BY <1>3, <1>4, <1>6, <1>7, <1>8, <1>9, <1>10 DEF RecordInv

LEMMA RecordCreated ==
    ASSUME RecordInv, PoliciesMoveOn, ClaimsAssumption,
           NEW p \in PolicyIds, policy[p].status = "Active", policyClaim[p] = 0,
           nextClaimId \in ClaimIds,
           NEW r \in Claims, r.policy = p,
           claim' = [claim EXCEPT ![nextClaimId] = r],
           nextClaimId' = nextClaimId + 1,
           policyClaim' = [policyClaim EXCEPT ![p] = nextClaimId],
           queued' = [queued EXCEPT ![nextClaimId] =
                        IF r.status = "Pending" THEN 1 ELSE 0],
           PaysOnly(r), SettlesIfPaid(r)
    PROVE  RecordInv'
  <1> DEFINE c == nextClaimId
  <1>1. /\ claim'[c] = r
        /\ \A d \in ClaimIds \ {c} : claim'[d] = claim[d]
    BY DEF RecordInv, RecordTypeOK
  <1>2. r.status # "None"
    BY DEF Claims
  <1>3. c \in Nat \ {0} /\ c \in 0..MaxClaims /\ c + 1 \in 1..(MaxClaims + 1)
    BY DEF ClaimIds, ClaimsAssumption
  <1>4. claim[c].status = "None"
    BY <1>3 DEF RecordInv, ClaimsInOrder
  <1>5. RecordTypeOK'
    BY <1>3 DEF RecordInv, RecordTypeOK
  <1>6. ClaimsInOrder'
    BY <1>1, <1>2, <1>3 DEF RecordInv, ClaimsInOrder, ClaimIds
  <1>7. \A d \in ClaimIds : claim[d].status # "None" => claim[d].policy \in PolicyIds
    BY DEF RecordInv, RecordTypeOK, NoClaim, Claims
  <1>8. ClaimIsForSold'
    BY <1>1, <1>7 DEF RecordInv, ClaimIsForSold, PoliciesMoveOn
  <1>9. QueueExact'
    BY <1>1 DEF RecordInv, RecordTypeOK, QueueExact
  <1>10. /\ policyClaim'[p] = c
         /\ \A q \in PolicyIds \ {p} : policyClaim'[q] = policyClaim[q]
    BY DEF RecordInv, RecordTypeOK
  <1>11. ClaimIndexExact'
    <2> SUFFICES ASSUME NEW d \in ClaimIds, NEW q \in PolicyIds
                 PROVE  policyClaim'[q] = d <=>
                          claim'[d].status # "None" /\ claim'[d].policy = q
      BY DEF ClaimIndexExact
    <2>1. policyClaim[q] = d <=> claim[d].status # "None" /\ claim[d].policy = q
      BY DEF RecordInv, ClaimIndexExact
    <2>2. d # 0 /\ policyClaim[q] # c
      BY <1>3, <1>4 DEF RecordInv, ClaimIndexExact, ClaimIds
    <2>3. QED
      BY <1>1, <1>2, <1>10, <2>1, <2>2
  <1>12. PaidOnlyIfConfirmed'
    <2> SUFFICES ASSUME NEW q \in PolicyIds, policy'[q].status = "Claimed"
                 PROVE  policyClaim'[q] # 0 /\ claim'[policyClaim'[q]].paid # NoAmount
      BY DEF PaidOnlyIfConfirmed
    <2>1. CASE q = p
      BY <1>1, <1>3, <1>10, <2>1 DEF PaysOnly
    <2>2. CASE q # p
      <3>1. policyClaim[q] # 0 /\ claim[policyClaim[q]].paid # NoAmount
        BY <2>2 DEF PaysOnly, RecordInv, PaidOnlyIfConfirmed
      <3>2. policyClaim[q] \in ClaimIds \ {c}
        BY <1>4, <3>1 DEF RecordInv, RecordTypeOK, ClaimIndexExact, ClaimIds
      <3>3. QED
        BY <1>1, <1>10, <2>2, <3>1, <3>2
    <2>3. QED
      BY <2>1, <2>2
  <1>13. DecidedMeansSettled'
    BY <1>1, <1>7 DEF RecordInv, DecidedMeansSettled, SettlesIfPaid, PoliciesMoveOn
  <1>14. QED
    BY <1>5, <1>6, <1>8, <1>9, <1>11, <1>12, <1>13 DEF RecordInv

LEMMA RecordsKept ==
    ASSUME RecordInv, PoliciesMoveOn,
           UNCHANGED <<claim, nextClaimId, policyClaim, queued>>,
           \A p \in PolicyIds :
             policy'[p].status = "Claimed" => policy[p].status = "Claimed"
    PROVE  RecordInv'
  <1>1. \A d \in ClaimIds : claim[d].status # "None" => claim[d].policy \in PolicyIds
    BY DEF RecordInv, RecordTypeOK, NoClaim, Claims
  <1>2. RecordTypeOK' /\ ClaimsInOrder' /\ QueueExact' /\ ClaimIndexExact'
    BY DEF RecordInv, RecordTypeOK, ClaimsInOrder, QueueExact, ClaimIndexExact
  <1>3. ClaimIsForSold' /\ DecidedMeansSettled'
    BY <1>1 DEF RecordInv, ClaimIsForSold, DecidedMeansSettled, PoliciesMoveOn
  <1>4. PaidOnlyIfConfirmed'
    BY DEF RecordInv, PaidOnlyIfConfirmed
  <1>5. QED
    BY <1>2, <1>3, <1>4 DEF RecordInv

-----------------------------------------------------------------------------
(***************************************************************************)
(* One lemma per entry point that touches a claim record.                  *)
(***************************************************************************)

LEMMA DecidedType ==
    ASSUME LockAssumption, ClaimsAssumption, NEW cl \in Claims, NEW met, NEW bps \in PayoutBps,
           now \in Nat, payoutDelay \in Nat
    PROVE  LET r == Decided(cl, met, bps) IN
           /\ r \in Claims
           /\ r.policy = cl.policy
           /\ r.status # "Pending"
           /\ r.paid = NoAmount => cl.paid = NoAmount
           /\ met => r.paid # NoAmount
           /\ r.status \in {"Paid", "PartiallyPaid"} /\ r.readyAt = NoTime
                => met /\ payoutDelay = 0
  <1>1. (cl.coverage * bps) \div FullBps \in Nat
    <2>1. cl.coverage * bps \in Nat
      BY DEF Claims, ClaimsAssumption
    <2>2. QED
      BY <2>1, DivNat DEF ClaimsAssumption
  <1>2. now + payoutDelay \in Nat
    OBVIOUS
  <1>3. CASE met
    <2> DEFINE status == IF bps >= FullBps THEN "Paid" ELSE "PartiallyPaid"
               amount == IF bps >= FullBps THEN cl.coverage
                         ELSE (cl.coverage * bps) \div FullBps
               ready  == IF payoutDelay > 0 THEN now + payoutDelay ELSE cl.readyAt
               r      == [cl EXCEPT !.met = TRUE, !.processedAt = now,
                                    !.status = status, !.paid = amount, !.readyAt = ready]
    <2>1. Decided(cl, met, bps) = r
      BY <1>3 DEF Decided, Claims
    <2>2. amount \in Nat
      BY <1>1 DEF Claims
    <2>3. ready \in Nat \cup {NoTime} /\ (ready = NoTime => payoutDelay = 0)
      BY <1>2 DEF Claims, NoTime
    <2>4. status \in {"Paid", "PartiallyPaid"}
      OBVIOUS
    <2> HIDE DEF status, amount, ready
    <2>5. r \in Claims
      BY <2>2, <2>3, <2>4 DEF Claims
    <2>6. r.policy = cl.policy /\ r.status = status /\ r.paid = amount /\ r.readyAt = ready
      BY DEF Claims
    <2>7. amount # NoAmount
      BY <2>2 DEF NoAmount
    <2> HIDE DEF r
    <2>8. QED
      BY <1>3, <2>1, <2>3, <2>4, <2>5, <2>6, <2>7
  <1>4. CASE ~met
    BY <1>4 DEF Decided, Claims
  <1>5. QED
    BY <1>3, <1>4

LEMMA PayOutPaysOnly ==
    ASSUME PolicyInv, NEW r \in Claims, r.paid # NoAmount, PayClaim(r.policy)
    PROVE  PaysOnly(r) /\ policy'[r.policy].status = "Claimed"
  <1>1. r.policy \in PolicyIds
    BY DEF Claims
  <1>2. QED
    BY <1>1, PayClaimMoves DEF PaysOnly

LEMMA SettleFacts ==
    ASSUME LockAssumption, ClaimsAssumption, Inv, NEW c, NEW cl \in Claims, NEW queue, NEW met,
           NEW bps \in PayoutBps, Settle(c, cl, queue, met, bps)
    PROVE  LET r == Decided(cl, met, bps) IN
           /\ r \in Claims /\ r.policy = cl.policy /\ r.status # "Pending"
           /\ r.paid = NoAmount => cl.paid = NoAmount
           /\ PaysOnly(r) /\ SettlesIfPaid(r)
  <1> DEFINE r == Decided(cl, met, bps)
  <1>1. now \in Nat /\ payoutDelay \in Nat
    BY DEF Inv, BookInv, PolicyInv, PolicyTypeOK, ClaimsInv, ClaimTypeOK, SettingTypeOK
  <1>2. /\ r \in Claims /\ r.policy = cl.policy /\ r.status # "Pending"
        /\ r.paid = NoAmount => cl.paid = NoAmount
        /\ met => r.paid # NoAmount
        /\ r.status \in {"Paid", "PartiallyPaid"} /\ r.readyAt = NoTime
             => met /\ payoutDelay = 0
    BY <1>1, DecidedType
  <1> HIDE DEF r
  <1>3. CASE met /\ payoutDelay = 0
    <2>1. PayClaim(r.policy) /\ r.paid # NoAmount
      BY <1>2, <1>3 DEF Settle, PayOut
    <2>2. PaysOnly(r) /\ policy'[r.policy].status = "Claimed"
      BY <1>2, <2>1, PayOutPaysOnly DEF Inv, BookInv
    <2>3. QED
      BY <1>2, <2>2 DEF SettlesIfPaid, r
  <1>4. CASE ~(met /\ payoutDelay = 0)
    <2>1. policy' = policy
      BY <1>4 DEF Settle, policyVars
    <2>2. PaysOnly(r)
      BY <2>1 DEF PaysOnly
    <2>3. QED
      BY <1>2, <1>4, <2>2 DEF SettlesIfPaid, r
  <1>5. QED
    BY <1>3, <1>4

LEMMA SettleRecords ==
    ASSUME LockAssumption, ClaimsAssumption, Inv, RecordInv, PoliciesMoveOn, NEW c \in ClaimIds,
           NEW met, NEW bps \in PayoutBps,
           Settle(c, claim[c], queued, met, bps),
           UNCHANGED <<nextClaimId, policyClaim>>
    PROVE  RecordInv'
  <1> DEFINE r == Decided(claim[c], met, bps)
  <1>1. claim[c] \in Claims /\ claim[c].status = "Pending"
    BY ClaimOnFile DEF Settle, Inv, ClaimsInv
  <1>2. /\ r \in Claims /\ r.policy = claim[c].policy /\ r.status # "Pending"
        /\ r.paid = NoAmount => claim[c].paid = NoAmount
        /\ PaysOnly(r) /\ SettlesIfPaid(r)
    BY <1>1, SettleFacts
  <1>3. claim' = [claim EXCEPT ![c] = r] /\ queued' = RemoveFirst(queued, c)
    BY DEF Settle
  <1> HIDE DEF r
  <1>4. queued' = [queued EXCEPT ![c] = IF r.status = "Pending" THEN 1 ELSE 0]
    <2>1. queued[c] = 1 /\ queued \in [ClaimIds -> Nat]
      BY <1>1 DEF RecordInv, RecordTypeOK, QueueExact
    <2>2. RemoveFirst(queued, c) = [queued EXCEPT ![c] = 0]
      BY <2>1 DEF RemoveFirst
    <2>3. QED
      BY <1>2, <1>3, <2>2
  <1>5. QED
    BY <1>1, <1>2, <1>3, <1>4, RecordReplaced

LEMMA SettleNewRecords ==
    ASSUME LockAssumption, ClaimsAssumption, Inv, RecordInv, PoliciesMoveOn, NEW p \in PolicyIds,
           NEW met, NEW bps \in PayoutBps,
           policy[p].status = "Active", policyClaim[p] = 0, nextClaimId \in ClaimIds,
           policyClaim' = [policyClaim EXCEPT ![p] = nextClaimId],
           nextClaimId' = nextClaimId + 1,
           Settle(nextClaimId, NewClaim(p), Push(queued, nextClaimId), met, bps)
    PROVE  RecordInv'
  <1> DEFINE r == Decided(NewClaim(p), met, bps)
  <1>1. NewClaim(p) \in Claims /\ NewClaim(p).policy = p
    BY NewClaimType DEF Inv, NewClaim
  <1>2. /\ r \in Claims /\ r.policy = p /\ r.status # "Pending"
        /\ PaysOnly(r) /\ SettlesIfPaid(r)
    <2>1. Settle(nextClaimId, NewClaim(p), Push(queued, nextClaimId), met, bps)
      OBVIOUS
    <2> DEFINE cl == NewClaim(p)
    <2>2. cl \in Claims /\ Settle(nextClaimId, cl, Push(queued, nextClaimId), met, bps)
      BY <1>1, <2>1
    <2> HIDE DEF cl
    <2>3. /\ Decided(cl, met, bps) \in Claims
          /\ Decided(cl, met, bps).policy = cl.policy
          /\ Decided(cl, met, bps).status # "Pending"
          /\ PaysOnly(Decided(cl, met, bps)) /\ SettlesIfPaid(Decided(cl, met, bps))
      BY <2>2, SettleFacts
    <2>4. QED
      BY <1>1, <2>3 DEF cl
  <1>3. /\ claim' = [claim EXCEPT ![nextClaimId] = r]
        /\ queued' = RemoveFirst(Push(queued, nextClaimId), nextClaimId)
    BY DEF Settle
  <1> HIDE DEF r
  <1>4. queued[nextClaimId] = 0
    BY DEF RecordInv, ClaimsInOrder, QueueExact, ClaimIds, ClaimsAssumption
  <1>5. queued' = [queued EXCEPT ![nextClaimId] = IF r.status = "Pending" THEN 1 ELSE 0]
    BY <1>2, <1>3, <1>4 DEF RemoveFirst, Push, RecordInv, RecordTypeOK
  <1>6. QED
    BY <1>2, <1>3, <1>5, RecordCreated

LEMMA SubmitClaimRecords ==
    ASSUME Inv, ClaimsAssumption, RecordInv, NEW p \in PolicyIds, SubmitClaim(p)
    PROVE  RecordInv'
  <1> DEFINE r == NewClaim(p)
  <1>1. r \in Claims /\ r.policy = p /\ r.status = "Pending"
    BY NewClaimType DEF SubmitClaim, FileClaim, Inv, NewClaim
  <1>2. policy' = policy
    BY DEF SubmitClaim, bookVars, policyVars
  <1>3. PoliciesMoveOn /\ PaysOnly(r) /\ SettlesIfPaid(r)
    BY <1>1, <1>2 DEF PoliciesMoveOn, PaysOnly, SettlesIfPaid
  <1>4. /\ policy[p].status = "Active" /\ policyClaim[p] = 0 /\ nextClaimId \in ClaimIds
        /\ claim' = [claim EXCEPT ![nextClaimId] = r]
        /\ policyClaim' = [policyClaim EXCEPT ![p] = nextClaimId]
        /\ nextClaimId' = nextClaimId + 1
        /\ queued' = Push(queued, nextClaimId)
    BY DEF SubmitClaim, FileClaim
  <1> HIDE DEF r
  <1>5. queued' = [queued EXCEPT ![nextClaimId] = IF r.status = "Pending" THEN 1 ELSE 0]
    <2>1. queued[nextClaimId] = 0
      BY <1>4 DEF RecordInv, ClaimsInOrder, QueueExact, ClaimIds, ClaimsAssumption
    <2>2. QED
      BY <1>1, <1>4, <2>1 DEF Push, RecordInv, RecordTypeOK
  <1>6. QED
    BY <1>1, <1>3, <1>4, <1>5, RecordCreated

\* A dispute, a resolution, a rejection, an escalation: the status, and with it
\* the place in the queue, and nothing else.
LEMMA StatusOnlyRecords ==
    ASSUME RecordInv, NEW c \in ClaimIds, claim[c].status # "None",
           NEW s \in {"Pending", "Rejected", "Disputed", "Escalated"},
           claim' = [claim EXCEPT ![c].status = s],
           queued' = IF s = "Pending" THEN Push(queued, c) ELSE RemoveFirst(queued, c),
           s = "Pending" => claim[c].status # "Pending",
           UNCHANGED <<nextClaimId, policyClaim, policy>>
    PROVE  RecordInv'
  <1> DEFINE r == [claim[c] EXCEPT !.status = s]
  <1>1. claim[c] \in Claims
    BY DEF RecordInv, RecordTypeOK, NoClaim
  <1>2. /\ r \in Claims /\ r.policy = claim[c].policy /\ r.status = s
        /\ r.paid = claim[c].paid
        /\ claim' = [claim EXCEPT ![c] = r]
    BY <1>1 DEF Claims
  <1> HIDE DEF r
  <1>3. PoliciesMoveOn /\ PaysOnly(r) /\ SettlesIfPaid(r)
    BY <1>2 DEF PoliciesMoveOn, PaysOnly, SettlesIfPaid
  <1>4. queued' = [queued EXCEPT ![c] = IF s = "Pending" THEN 1 ELSE 0]
    <2>1. queued \in [ClaimIds -> Nat] /\ queued[c] \in {0, 1}
          /\ (s = "Pending" => queued[c] = 0)
      BY DEF RecordInv, RecordTypeOK, QueueExact
    <2>2. CASE s = "Pending"
      BY <2>1, <2>2 DEF Push
    <2>3. CASE s # "Pending"
      <3>1. CASE queued[c] = 0
        BY <2>1, <2>3, <3>1 DEF RemoveFirst
      <3>2. CASE queued[c] = 1
        BY <2>1, <2>3, <3>2 DEF RemoveFirst
      <3>3. QED
        BY <2>1, <3>1, <3>2
    <2>4. QED
      BY <2>2, <2>3
  <1>5. QED
    BY <1>2, <1>3, <1>4, RecordReplaced

LEMMA ReviewRecords ==
    ASSUME RecordInv, Review
    PROVE  RecordInv'
  <1>1. ASSUME NEW u \in Users, NEW c \in ClaimIds, DisputeClaim(u, c)
        PROVE  RecordInv'
    BY <1>1, StatusOnlyRecords DEF DisputeClaim, OnlyClaimAndQueue, bookVars, policyVars
  <1>2. ASSUME NEW c \in ClaimIds, ResolveDispute(c)
        PROVE  RecordInv'
    BY <1>2, StatusOnlyRecords DEF ResolveDispute, OnlyClaimAndQueue, bookVars, policyVars
  <1>3. ASSUME NEW c \in ClaimIds, RejectClaim(c)
        PROVE  RecordInv'
    BY <1>3, StatusOnlyRecords DEF RejectClaim, OnlyClaimAndQueue, bookVars, policyVars
  <1>4. ASSUME NEW c \in ClaimIds, EscalateClaim(c)
        PROVE  RecordInv'
    BY <1>4, StatusOnlyRecords DEF EscalateClaim, OnlyClaimAndQueue, bookVars, policyVars
  <1>5. QED
    BY <1>1, <1>2, <1>3, <1>4 DEF Review

LEMMA ClaimPayoutRecords ==
    ASSUME Inv, RecordInv, PoliciesMoveOn, NEW c \in ClaimIds, ClaimPayout(c)
    PROVE  RecordInv'
  <1> DEFINE r == [claim[c] EXCEPT !.readyAt = NoTime]
  <1>1. claim[c] \in Claims /\ claim[c].status # "None"
    BY DEF ClaimPayout, RecordInv, RecordTypeOK, NoClaim
  <1>2. /\ r \in Claims /\ r.policy = claim[c].policy /\ r.status = claim[c].status
        /\ r.paid = claim[c].paid /\ r.paid # NoAmount
        /\ claim' = [claim EXCEPT ![c] = r]
    BY <1>1 DEF Claims, ClaimPayout
  <1> HIDE DEF r
  <1>3. PaysOnly(r) /\ policy'[r.policy].status = "Claimed"
    BY <1>2, PayOutPaysOnly DEF ClaimPayout, PayOut, Inv, BookInv
  <1>4. SettlesIfPaid(r)
    BY <1>3 DEF SettlesIfPaid
  <1>5. queued' = [queued EXCEPT ![c] = IF r.status = "Pending" THEN 1 ELSE 0]
    BY <1>2 DEF ClaimPayout, RecordInv, RecordTypeOK, QueueExact
  <1>6. QED
    BY <1>1, <1>2, <1>3, <1>4, <1>5, RecordReplaced DEF ClaimPayout

\* A step that writes nothing but the installment plan of a claim.
LEMMA PlanOnlyRecords ==
    ASSUME RecordInv, NEW c \in ClaimIds, claim[c].status # "None", NEW plan \in Plans,
           claim' = [claim EXCEPT ![c].plan = plan],
           UNCHANGED <<nextClaimId, policyClaim, queued, policy>>
    PROVE  RecordInv'
  <1> DEFINE r == [claim[c] EXCEPT !.plan = plan]
  <1>1. claim[c] \in Claims
    BY DEF RecordInv, RecordTypeOK, NoClaim
  <1>2. /\ r \in Claims /\ r.policy = claim[c].policy /\ r.status = claim[c].status
        /\ r.paid = claim[c].paid /\ r.readyAt = claim[c].readyAt
        /\ claim' = [claim EXCEPT ![c] = r]
    BY <1>1 DEF Claims
  <1> HIDE DEF r
  <1>3. PoliciesMoveOn /\ PaysOnly(r) /\ SettlesIfPaid(r)
    BY <1>2 DEF PoliciesMoveOn, PaysOnly, SettlesIfPaid, RecordInv, DecidedMeansSettled
  <1>4. queued' = [queued EXCEPT ![c] = IF r.status = "Pending" THEN 1 ELSE 0]
    BY <1>2 DEF RecordInv, RecordTypeOK, QueueExact
  <1>5. QED
    BY <1>2, <1>3, <1>4, RecordReplaced

LEMMA InstallmentsDueNat ==
    ASSUME NEW plan \in Plans, plan.interval > 0, NEW t \in Nat
    PROVE  InstallmentsDue(plan, t) \in Nat
  <1>1. plan.first \in Nat /\ plan.count \in Nat /\ plan.interval \in Nat \ {0}
    BY DEF Plans
  <1>2. CASE t >= plan.first
    <2>1. t - plan.first \in Nat
      BY <1>1, <1>2
    <2>2. (t - plan.first) \div plan.interval \in Nat
      BY <1>1, <2>1, DivNat
    <2>3. QED
      BY <1>1, <1>2, <2>2 DEF InstallmentsDue, Lesser
  <1>3. CASE ~(t >= plan.first)
    BY <1>3 DEF InstallmentsDue
  <1>4. QED
    BY <1>2, <1>3

LEMMA InstallmentRecords ==
    ASSUME Inv, ClaimsAssumption, RecordInv, NEW c \in ClaimIds,
           \/ \E plan \in InstallmentPlans : ScheduleInstallments(c, plan)
           \/ ClaimInstallment(c)
    PROVE  RecordInv'
  <1>1. now \in Nat
    BY DEF Inv, BookInv, PolicyInv, PolicyTypeOK
  <1>2. ASSUME NEW plan \in InstallmentPlans, ScheduleInstallments(c, plan)
        PROVE  RecordInv'
    <2>1. [each |-> plan.each, count |-> plan.count, interval |-> plan.interval,
           first |-> now + plan.interval, done |-> 0] \in Plans
      BY <1>1 DEF ClaimsAssumption, Plans
    <2>2. QED
      BY <1>2, <2>1, PlanOnlyRecords
         DEF ScheduleInstallments, OnlyClaimAndQueue, bookVars, policyVars
  <1>3. CASE ClaimInstallment(c)
    <2> DEFINE due == InstallmentsDue(claim[c].plan, now)
               plan == [claim[c].plan EXCEPT !.done = due]
    <2>1. claim[c] \in Claims /\ claim[c].plan \in Plans
      BY <1>3 DEF ClaimInstallment, RecordInv, RecordTypeOK, NoClaim, Claims
    <2>2. due \in Nat
      BY <1>1, <1>3, <2>1, InstallmentsDueNat DEF ClaimInstallment
    <2>3. claim' = [claim EXCEPT ![c].plan.done = due]
      BY <1>3 DEF ClaimInstallment
    <2> HIDE DEF due
    <2>4. plan \in Plans /\ claim' = [claim EXCEPT ![c].plan = plan]
      BY <2>1, <2>2, <2>3 DEF Plans, Claims
    <2> HIDE DEF plan
    <2>5. QED
      BY <1>3, <2>4, PlanOnlyRecords DEF ClaimInstallment, bookVars, policyVars
  <1>4. QED
    BY <1>2, <1>3

\* One call of auto_process.
LEMMA AutoProcessRecords ==
    ASSUME LockAssumption, ClaimsAssumption, Inv, RecordInv, PoliciesMoveOn, NEW p \in PolicyIds,
           AutoProcess(p)
    PROVE  RecordInv'
  <1>1. CASE AutoProcessIdle(p)
    BY <1>1, RecordsKept DEF AutoProcessIdle, bookVars, policyVars
  <1>2. CASE AutoProcessExpire(p)
    <2>1. \A q \in PolicyIds :
            policy'[q].status = "Claimed" => policy[q].status = "Claimed"
      BY <1>2, ExpirePolicyMoves DEF AutoProcessExpire, Inv, BookInv
    <2>2. QED
      BY <1>2, <2>1, RecordsKept DEF AutoProcessExpire
  <1>3. ASSUME NEW met \in BOOLEAN, NEW bps \in PayoutBps, AutoProcessSettle(p, met, bps)
        PROVE  RecordInv'
    <2>1. CASE policyClaim[p] # 0
      <3>1. policyClaim[p] \in ClaimIds
        BY <2>1 DEF RecordInv, RecordTypeOK, ClaimIds, ClaimsAssumption
      <3>2. QED
        BY <1>3, <2>1, <3>1, SettleRecords DEF AutoProcessSettle
    <2>2. CASE policyClaim[p] = 0
      BY <1>3, <2>2, SettleNewRecords DEF AutoProcessSettle
    <2>3. QED
      BY <2>1, <2>2
  <1>4. QED
    BY <1>1, <1>2, <1>3 DEF AutoProcess

LEMMA NextRecords ==
    ASSUME LockAssumption, ClaimsAssumption, Inv, RecordInv, PoliciesMoveOn, Next
    PROVE  RecordInv'
  <1>0. PolicyInv
    BY DEF Inv, BookInv
  <1>1. CASE Submission
    BY <1>1, SubmitClaimRecords DEF Submission
  <1>2. CASE Processing \/ MultiReadingProcessing
    <2>1. ASSUME NEW c \in ClaimIds, NEW met, NEW bps \in PayoutBps,
                 ProcessClaim(c, met, bps)
          PROVE  RecordInv'
      BY <2>1, SettleRecords DEF ProcessClaim
    <2>2. QED
      BY <1>2, <2>1 DEF Processing, MultiReadingProcessing, ProcessMultiReadingClaim
  <1>3. CASE \E p \in PolicyIds : AutoProcess(p)
    BY <1>3, AutoProcessRecords
  <1>4. CASE Review
    BY <1>4, ReviewRecords
  <1>5. CASE Payouts
    <2>1. PICK c \in ClaimIds :
            \/ ClaimPayout(c)
            \/ \E plan \in InstallmentPlans : ScheduleInstallments(c, plan)
            \/ ClaimInstallment(c)
      BY <1>5 DEF Payouts
    <2>2. CASE ClaimPayout(c)
      BY <2>2, ClaimPayoutRecords
    <2>3. CASE \/ \E plan \in InstallmentPlans : ScheduleInstallments(c, plan)
               \/ ClaimInstallment(c)
      BY <2>3, InstallmentRecords
    <2>4. QED
      BY <2>1, <2>2, <2>3
  <1>6. CASE Settings
    BY <1>6, RecordsKept DEF Settings, SetPayoutDelay, SetWindows, SetDisputeDeadline,
                             SetProcessorPause, OnlySettings, bookVars, policyVars
  <1>7. CASE PoolStep /\ UNCHANGED <<bookVars, claimVars>>
    BY <1>7, RecordsKept DEF claimVars, bookVars, policyVars
  <1>8. CASE BookStep /\ UNCHANGED claimVars
    <2>1. \A q \in PolicyIds :
            policy'[q].status = "Claimed" => policy[q].status = "Claimed"
      BY <1>0, <1>8, BookStepMoves
    <2>2. QED
      BY <1>8, <2>1, RecordsKept DEF claimVars
  <1>9. CASE UNCHANGED <<policyVars, claimVars>>
    BY <1>9, RecordsKept DEF claimVars, policyVars
  <1>10. QED
    BY <1>1, <1>2, <1>3, <1>4, <1>5, <1>6, <1>7, <1>8, <1>9 DEF Next, TimePasses

-----------------------------------------------------------------------------
(***************************************************************************)
(* The settings, the cooldowns and the deadlines.                          *)
(***************************************************************************)

LEMMA SettingsStep ==
    ASSUME Inv, ClaimsAssumption, SettingTypeOK, Next
    PROVE  SettingTypeOK'
  <1>1. now \in Nat /\ \A p \in PolicyIds : policy[p].status = "Active"
                                              => policy[p].holder \in Users
    BY DEF Inv, BookInv, PolicyInv, PolicyTypeOK, NoPolicy, Policies
  <1>2. CASE Submission
    BY <1>1, <1>2 DEF Submission, SubmitClaim, FileClaim, SettingTypeOK
  <1>3. CASE Processing \/ MultiReadingProcessing
    BY <1>3 DEF Processing, MultiReadingProcessing, ProcessMultiReadingClaim,
                ProcessClaim, SettingTypeOK
  <1>4. CASE \E p \in PolicyIds : AutoProcess(p)
    <2>1. PICK p \in PolicyIds : AutoProcess(p)
      BY <1>4
    <2>2. /\ autoLast' = [autoLast EXCEPT ![p] = now]
          /\ UNCHANGED <<lastClaim, disputeDeadline, payoutDelay, windows, cpPaused>>
      BY <2>1 DEF AutoProcess, AutoProcessIdle, AutoProcessExpire, AutoProcessSettle,
                  AutoProcessGate
    <2>3. QED
      BY <1>1, <2>2 DEF SettingTypeOK
  <1>5. CASE Review
    BY <1>5 DEF Review, DisputeClaim, ResolveDispute, RejectClaim, EscalateClaim,
                OnlyClaimAndQueue, SettingTypeOK
  <1>6. CASE Payouts
    BY <1>6 DEF Payouts, ClaimPayout, ScheduleInstallments, ClaimInstallment,
                OnlyClaimAndQueue, SettingTypeOK
  <1>7. CASE Settings
    <2>1. ASSUME NEW d \in PayoutDelays, SetPayoutDelay(d)
          PROVE  SettingTypeOK'
      BY <2>1 DEF SetPayoutDelay, OnlySettings, SettingTypeOK, ClaimsAssumption
    <2>2. ASSUME NEW w \in WindowSettings, SetWindows(w)
          PROVE  SettingTypeOK'
      BY <2>2 DEF SetWindows, OnlySettings, SettingTypeOK, ClaimsAssumption
    <2>3. ASSUME NEW c \in ClaimIds, NEW off \in DeadlineOffsets,
                 SetDisputeDeadline(c, now + off)
          PROVE  SettingTypeOK'
      <3>1. now + off \in Nat
        BY <1>1 DEF ClaimsAssumption
      <3>2. QED
        BY <2>3, <3>1 DEF SetDisputeDeadline, OnlySettings, SettingTypeOK
    <2>4. ASSUME NEW b \in BOOLEAN, SetProcessorPause(b)
          PROVE  SettingTypeOK'
      BY <2>4 DEF SetProcessorPause, OnlySettings, SettingTypeOK
    <2>5. QED
      BY <1>7, <2>1, <2>2, <2>3, <2>4 DEF Settings
  <1>8. CASE UNCHANGED claimVars
    BY <1>8 DEF claimVars, SettingTypeOK
  <1>9. QED
    BY <1>2, <1>3, <1>4, <1>5, <1>6, <1>7, <1>8 DEF Next, TimePasses

-----------------------------------------------------------------------------
(***************************************************************************)
(* The composition.                                                        *)
(***************************************************************************)

LEMMA InitInv ==
    ASSUME CatalogueAssumption, BookAssumption, LockAssumption, ClaimsAssumption, Init
    PROVE  Inv
  <1>1. BookInv
    BY BookInitInv DEF Init
  <1>2. LockInv
    BY DEF Init, LockInit, LockInv, LockTypeOK, LockStates, NeverOverbooked, LockAssumption
  <1>3. RecordTypeOK
    BY DEF Init, ClaimsInit, RecordTypeOK, ClaimsAssumption, EmptyVec
  <1>4. SettingTypeOK
    BY DEF Init, ClaimsInit, SettingTypeOK, ClaimsAssumption
  <1>5. /\ ClaimsInOrder /\ ClaimIsForSold /\ QueueExact /\ ClaimIndexExact
        /\ DecidedMeansSettled
    BY DEF Init, ClaimsInit, ClaimsInOrder, ClaimIsForSold, QueueExact, ClaimIndexExact,
           DecidedMeansSettled, NoClaim, ClaimIds, EmptyVec
  <1>6. PaidOnlyIfConfirmed /\ SettledReleasesLock
    BY DEF Init, BookInit, PaidOnlyIfConfirmed, SettledReleasesLock, NoPolicy
  <1>7. QED
    BY <1>1, <1>2, <1>3, <1>4, <1>5, <1>6 DEF Inv, ClaimsInv, ClaimTypeOK

LEMMA NextInv ==
    ASSUME CatalogueAssumption, BookAssumption, LockAssumption, ClaimsAssumption,
           Inv, [Next]_vars
    PROVE  Inv'
  <1>1. CASE Next
    <2>1. RecordInv /\ SettingTypeOK /\ SettledReleasesLock
      BY DEF Inv, ClaimsInv, ClaimTypeOK, RecordInv
    <2>2. BackendStep
      BY <1>1, NextBackend DEF Inv, ClaimsInv
    <2>3. BookInv' /\ LockInv'
      BY <2>2, BackendIsBookStep, BackendIsLockStep, BookNextInv, LockNextInv DEF Inv
    <2>4. PoliciesMoveOn /\ SettledReleasesLock'
      BY <2>1, <2>2, BackendMoves DEF Inv, BookInv, PoliciesMoveOn
    <2>5. RecordInv' /\ SettingTypeOK'
      BY <1>1, <2>1, <2>4, NextRecords, SettingsStep
    <2>6. QED
      BY <2>3, <2>4, <2>5 DEF Inv, ClaimsInv, ClaimTypeOK, RecordInv
  <1>2. CASE UNCHANGED vars
    <2>1. BookInv' /\ LockInv'
      BY <1>2, BookNextInv, LockNextInv DEF vars, Inv
    <2>2. ClaimsInv'
      BY <1>2 DEF vars, claimVars, bookVars, policyVars, lockVars, Inv, ClaimsInv,
                  ClaimTypeOK, RecordTypeOK, SettingTypeOK, ClaimsInOrder, ClaimIsForSold,
                  QueueExact, ClaimIndexExact, PaidOnlyIfConfirmed, DecidedMeansSettled,
                  SettledReleasesLock
    <2>3. QED
      BY <2>1, <2>2 DEF Inv
  <1>3. QED
    BY <1>1, <1>2

\* The inductive invariant of the three contracts.
THEOREM Invariance ==
    ASSUME CatalogueAssumption, BookAssumption, LockAssumption, ClaimsAssumption
    PROVE  Spec => []Inv
  <1>1. Init => Inv
    BY InitInv
  <1>2. Inv /\ [Next]_vars => Inv'
    BY NextInv
  <1>3. QED
    BY <1>1, <1>2, PTL DEF Spec

\* The types of all three contracts, for every value of the constants.
THEOREM TypeCorrect ==
    ASSUME CatalogueAssumption, BookAssumption, LockAssumption, ClaimsAssumption
    PROVE  Spec => []TypeOK
  <1>1. Inv => TypeOK
    BY DEF Inv, BookInv, PolicyInv, BookTypeOK, LockInv, ClaimsInv, TypeOK
  <1>2. QED
    BY <1>1, Invariance, PTL

\* The pending queue holds each undecided claim once and no other, and a policy
\* has one claim at most, the one its index entry names.
THEOREM ClaimsFiledOnce ==
    ASSUME CatalogueAssumption, BookAssumption, LockAssumption, ClaimsAssumption
    PROVE  Spec => [](QueueExact /\ ClaimIndexExact)
  <1>1. Inv => QueueExact /\ ClaimIndexExact
    BY DEF Inv, ClaimsInv
  <1>2. QED
    BY <1>1, Invariance, PTL

\* Policy, claim and lock agree on what was settled: a policy paid has a claim
\* whose trigger was found met, a claim paid with nothing outstanding has a policy
\* paid, and no capital stays locked behind a policy paid or expired.
THEOREM SettlementsAgree ==
    ASSUME CatalogueAssumption, BookAssumption, LockAssumption, ClaimsAssumption
    PROVE  Spec => [](PaidOnlyIfConfirmed /\ DecidedMeansSettled /\ SettledReleasesLock)
  <1>1. Inv => PaidOnlyIfConfirmed /\ DecidedMeansSettled /\ SettledReleasesLock
    BY DEF Inv, ClaimsInv
  <1>2. QED
    BY <1>1, Invariance, PTL

\* submit_claim and auto_process: a policy never has a second claim.
THEOREM OneClaimPerPolicy ==
    ASSUME CatalogueAssumption, BookAssumption, LockAssumption, ClaimsAssumption
    PROVE  Spec => []ClaimIndexExact
  BY ClaimsFiledOnce, PTL

\* pay_claim by any path: nothing is paid whose trigger was never found met.
THEOREM PaymentsConfirmed ==
    ASSUME CatalogueAssumption, BookAssumption, LockAssumption, ClaimsAssumption
    PROVE  Spec => []PaidOnlyIfConfirmed
  BY SettlementsAgree, PTL

\* A claim recorded as paid with nothing outstanding has its policy paid.
THEOREM DecisionsSettled ==
    ASSUME CatalogueAssumption, BookAssumption, LockAssumption, ClaimsAssumption
    PROVE  Spec => []DecidedMeansSettled
  BY SettlementsAgree, PTL

\* The composition implements the policy engine and the lock ledger alone, each
\* with an arbitrary claims processor; all that was proved of them carries over.
THEOREM ImplementsBackends ==
    ASSUME CatalogueAssumption, BookAssumption, LockAssumption, ClaimsAssumption
    PROVE  Spec => BookSpec /\ LockSpec
  <1>1. Init => BookInit /\ LockInit
    BY DEF Init
  <1>2. Inv /\ [Next]_vars => [BookNext]_bookVars /\ [LockNext]_lockVars
    <2>1. CASE Next
      <3>1. Inv /\ Next => BackendStep
        BY NextBackend DEF Inv, ClaimsInv
      <3>2. QED
        BY <2>1, <3>1, BackendIsBookStep, BackendIsLockStep
    <2>2. CASE UNCHANGED vars
      BY <2>2 DEF vars
    <2>3. QED
      BY <2>1, <2>2
  <1>3. QED
    BY <1>1, <1>2, Invariance, PTL DEF Spec, BookSpec, LockSpec

\* Listing, money, refunds, the lock ledger and the catalogue in the composition,
\* whatever keepers, claimants and admins do.
THEOREM BackendsHold ==
    ASSUME CatalogueAssumption, BookAssumption, LockAssumption, ClaimsAssumption
    PROVE  Spec => /\ []ListedExactly
                   /\ MoneyLeavesBySettlement
                   /\ RefundOnlyShrinks
                   /\ [](NeverOverbooked /\ LockedTotalExact)
                   /\ [](OnSaleOwnsName /\ ActiveListExact)
  <1>1. BookSpec => []ListedExactly
    BY ListingExact
  <1>2. BookSpec => MoneyLeavesBySettlement
    BY MoneyLeaves
  <1>3. LockSpec => [](NeverOverbooked /\ LockedTotalExact)
    BY LocksAreBacked, LockedTotalIsTheLocksHeld, PTL
  <1>4. BookSpec => [](OnSaleOwnsName /\ ActiveListExact)
    BY CatalogueHolds
  <1>5. BookSpec => RefundOnlyShrinks
    BY RefundsShrink
  <1>6. QED
    BY <1>1, <1>2, <1>3, <1>4, <1>5, ImplementsBackends, PTL

-----------------------------------------------------------------------------
(***************************************************************************)
(* What a single transaction may not do.                                   *)
(***************************************************************************)

LEMMA ReleasedStep ==
    ASSUME Inv, ClaimsAssumption, BackendStep
    PROVE  ReleasedStaysOut
  <1> SUFFICES ASSUME NEW p \in PolicyIds, policy[p].status = "Active",
                      lock[p].state = "released"
               PROVE  policy'[p].status \in {"Active", "Cancelled"}
    BY DEF ReleasedStaysOut
  <1>1. PolicyInv
    BY DEF Inv, BookInv
  <1>2. ASSUME NEW q \in PolicyIds, Release(q) PROVE q # p
    BY <1>2 DEF Release
  <1>3. CASE UNCHANGED policyVars
    BY <1>3 DEF policyVars
  <1>4. CASE \E q \in PolicyIds : PayClaim(q) /\ Release(q)
    BY <1>1, <1>2, <1>4, PayClaimMoves
  <1>5. CASE \E q \in PolicyIds : ExpirePolicy(q) /\ Release(q)
    BY <1>1, <1>2, <1>5, ExpirePolicyMoves
  <1>6. CASE BookStep
    BY <1>1, <1>6, BookStepMoves
  <1>7. QED
    BY <1>3, <1>4, <1>5, <1>6 DEF BackendStep, bookVars

\* A lock released ahead of time puts its policy out of reach of every payout and
\* of every expiry, for good.
THEOREM ReleaseFreezes ==
    ASSUME CatalogueAssumption, BookAssumption, LockAssumption, ClaimsAssumption
    PROVE  Spec => ReleasedIsFrozen
  <1>1. Inv /\ [Next]_vars => [ReleasedStaysOut]_vars
    <2> SUFFICES ASSUME Inv, Next PROVE ReleasedStaysOut
      OBVIOUS
    <2>1. BackendStep
      BY NextBackend DEF Inv, ClaimsInv
    <2>2. QED
      BY <2>1, ReleasedStep
  <1>2. QED
    BY <1>1, Invariance, PTL DEF Spec, ReleasedIsFrozen

\* The status of a policy moves to Claimed in no step but a payout.
LEMMA NothingPaid ==
    ASSUME \/ policy' = policy
           \/ BookStep /\ PolicyInv
           \/ PolicyInv /\ \E q \in PolicyIds : ExpirePolicy(q)
    PROVE  PaidInDueTime
  <1>1. CASE policy' = policy
    BY <1>1 DEF PaidInDueTime
  <1>2. CASE BookStep /\ PolicyInv
    BY <1>2, BookStepMoves DEF PaidInDueTime
  <1>3. ASSUME PolicyInv, NEW q \in PolicyIds, ExpirePolicy(q)
        PROVE  PaidInDueTime
    <2>1. \A p \in PolicyIds :
            policy'[p].status = policy[p].status \/ policy'[p].status = "Expired"
      BY <1>3, ExpirePolicyMoves
    <2>2. QED
      BY <2>1 DEF PaidInDueTime
  <1>4. QED
    BY <1>1, <1>2, <1>3

\* A settlement pays only without a delay, and decides the claim as it does.
LEMMA SettlePaysInDueTime ==
    ASSUME Inv, NEW c \in ClaimIds, NEW cl \in Claims, NEW queue, NEW met, NEW bps,
           Settle(c, cl, queue, met, bps),
           policyClaim'[cl.policy] = c, claim[c].status \in {"None", "Pending"}
    PROVE  PaidInDueTime
  <1>1. CASE met /\ payoutDelay = 0
    <2>1. PayClaim(cl.policy) /\ cl.policy \in PolicyIds
      BY <1>1 DEF Settle, PayOut, Claims
    <2>2. \A p \in PolicyIds \ {cl.policy} : policy'[p].status = policy[p].status
      BY <2>1, PayClaimMoves DEF Inv, BookInv
    <2>3. claim'[c] = Decided(cl, met, bps)
      BY DEF Settle, Inv, ClaimsInv, ClaimTypeOK, RecordTypeOK
    <2>4. Decided(cl, met, bps).status \in {"Paid", "PartiallyPaid"}
      BY <1>1 DEF Decided, Claims
    <2>5. QED
      BY <1>1, <2>2, <2>3, <2>4 DEF PaidInDueTime
  <1>2. CASE ~(met /\ payoutDelay = 0)
    <2>1. policy' = policy
      BY <1>2 DEF Settle, policyVars
    <2>2. QED
      BY <2>1, NothingPaid
  <1>3. QED
    BY <1>1, <1>2

LEMMA ProcessClaimPaysInDueTime ==
    ASSUME Inv, NEW c \in ClaimIds, NEW met, NEW bps, ProcessClaim(c, met, bps)
    PROVE  PaidInDueTime
  <1>1. claim[c] \in Claims /\ claim[c].status = "Pending" /\ claim[c].policy \in PolicyIds
    BY ClaimOnFile DEF ProcessClaim, Inv, ClaimsInv
  <1>2. policyClaim[claim[c].policy] = c
    BY <1>1 DEF Inv, ClaimsInv, ClaimIndexExact
  <1>3. Settle(c, claim[c], queued, met, bps) /\ policyClaim' = policyClaim
    BY DEF ProcessClaim
  <1>4. QED
    BY <1>1, <1>2, <1>3, SettlePaysInDueTime

LEMMA AutoProcessPaysInDueTime ==
    ASSUME Inv, ClaimsAssumption, NEW p \in PolicyIds, AutoProcess(p)
    PROVE  PaidInDueTime
  <1>1. CASE AutoProcessIdle(p)
    BY <1>1, NothingPaid DEF AutoProcessIdle, bookVars, policyVars
  <1>2. CASE AutoProcessExpire(p)
    BY <1>2, NothingPaid DEF AutoProcessExpire, Inv, BookInv
  <1>3. ASSUME NEW met \in BOOLEAN, NEW bps \in PayoutBps, AutoProcessSettle(p, met, bps)
        PROVE  PaidInDueTime
    <2>0. policyClaim \in [PolicyIds -> 0..MaxClaims]
      BY DEF Inv, ClaimsInv, ClaimTypeOK, RecordTypeOK
    <2>1. CASE policyClaim[p] # 0
      <3>1. policyClaim[p] \in ClaimIds
        BY <2>0, <2>1 DEF ClaimIds, ClaimsAssumption
      <3>2. /\ Settle(policyClaim[p], claim[policyClaim[p]], queued, met, bps)
            /\ policyClaim' = policyClaim
        BY <1>3, <2>1 DEF AutoProcessSettle
      <3>3. claim[policyClaim[p]].status = "Pending"
        BY <3>2 DEF Settle
      <3>4. claim[policyClaim[p]] \in Claims /\ claim[policyClaim[p]].policy = p
        BY <3>1, <3>3, ClaimOnFile DEF Inv, ClaimsInv, ClaimIndexExact
      <3>5. QED
        BY <3>1, <3>2, <3>3, <3>4, SettlePaysInDueTime
    <2>2. CASE policyClaim[p] = 0
      <3>1. /\ policy[p].status = "Active" /\ nextClaimId \in ClaimIds
            /\ policyClaim' = [policyClaim EXCEPT ![p] = nextClaimId]
            /\ Settle(nextClaimId, NewClaim(p), Push(queued, nextClaimId), met, bps)
        BY <1>3, <2>2 DEF AutoProcessSettle
      <3>2. NewClaim(p) \in Claims /\ NewClaim(p).policy = p
        BY <3>1, NewClaimType DEF Inv, NewClaim
      <3>3. claim[nextClaimId].status = "None"
        BY <3>1 DEF Inv, ClaimsInv, ClaimsInOrder, ClaimIds
      <3>4. policyClaim'[p] = nextClaimId
        BY <2>0, <3>1
      <3>5. QED
        BY <3>1, <3>2, <3>3, <3>4, SettlePaysInDueTime
    <2>3. QED
      BY <2>1, <2>2
  <1>4. QED
    BY <1>1, <1>2, <1>3 DEF AutoProcess

LEMMA ClaimPayoutPaysInDueTime ==
    ASSUME Inv, NEW c \in ClaimIds, ClaimPayout(c)
    PROVE  PaidInDueTime
  <1>1. claim[c] \in Claims /\ claim[c].policy \in PolicyIds
    BY ClaimOnFile DEF ClaimPayout, Inv, ClaimsInv
  <1>2. policyClaim'[claim[c].policy] = c
    BY <1>1 DEF ClaimPayout, Inv, ClaimsInv, ClaimIndexExact
  <1>3. claim[c].readyAt \in 0..now
    <2>1. claim[c].readyAt \in Nat \cup {NoTime} /\ now \in Nat
      BY <1>1 DEF Claims, Inv, BookInv, PolicyInv, PolicyTypeOK
    <2>2. QED
      BY <2>1 DEF ClaimPayout
  <1>4. claim'[c].readyAt = NoTime
    BY <1>1 DEF ClaimPayout, Inv, ClaimsInv, ClaimTypeOK, RecordTypeOK, Claims
  <1>5. \A p \in PolicyIds \ {claim[c].policy} : policy'[p].status = policy[p].status
    BY <1>1, PayClaimMoves DEF ClaimPayout, PayOut, Inv, BookInv
  <1>6. QED
    BY <1>2, <1>3, <1>4, <1>5 DEF PaidInDueTime

LEMMA NextPaysInDueTime ==
    ASSUME Inv, ClaimsAssumption, Next
    PROVE  PaidInDueTime
  <1>1. CASE Processing \/ MultiReadingProcessing
    BY <1>1, ProcessClaimPaysInDueTime
       DEF Processing, MultiReadingProcessing, ProcessMultiReadingClaim
  <1>2. CASE \E p \in PolicyIds : AutoProcess(p)
    BY <1>2, AutoProcessPaysInDueTime
  <1>3. CASE Payouts
    <2>1. ASSUME NEW c \in ClaimIds, NEW plan \in InstallmentPlans,
                 ScheduleInstallments(c, plan)
          PROVE  policy' = policy
      BY <2>1 DEF ScheduleInstallments, OnlyClaimAndQueue, bookVars, policyVars
    <2>2. ASSUME NEW c \in ClaimIds, ClaimInstallment(c) PROVE policy' = policy
      BY <2>2 DEF ClaimInstallment, bookVars, policyVars
    <2>3. QED
      BY <1>3, <2>1, <2>2, ClaimPayoutPaysInDueTime, NothingPaid DEF Payouts
  <1>4. CASE BookStep /\ UNCHANGED <<now, catalogueVars, claimVars, lockVars>>
    BY <1>4, NothingPaid DEF Inv, BookInv
  <1>5. CASE Submission \/ Review \/ Settings
    <2>1. policy' = policy
      BY <1>5 DEF Submission, SubmitClaim, Review, DisputeClaim, ResolveDispute,
                  RejectClaim, EscalateClaim, OnlyClaimAndQueue, Settings, SetPayoutDelay,
                  SetWindows, SetDisputeDeadline, SetProcessorPause, OnlySettings,
                  bookVars, policyVars
    <2>2. QED
      BY <2>1, NothingPaid
  <1>6. CASE \/ PoolStep /\ UNCHANGED <<bookVars, claimVars>>
             \/ CatalogueNext /\ UNCHANGED <<now, policyVars, claimVars, lockVars>>
             \/ TimePasses
    <2>1. policy' = policy
      BY <1>6 DEF TimePasses, bookVars, policyVars
    <2>2. QED
      BY <2>1, NothingPaid
  <1>7. QED
    BY <1>1, <1>2, <1>3, <1>4, <1>5, <1>6 DEF Next

\* No setting of the payout delay, no dispute and no second decision in between
\* brings a payout forward: it is immediate where no delay is in force and else
\* waits until its claim is ready.
THEOREM PayoutsWait ==
    ASSUME CatalogueAssumption, BookAssumption, LockAssumption, ClaimsAssumption
    PROVE  Spec => PayoutDelayHolds
  <1>1. Inv /\ [Next]_vars => [PaidInDueTime]_vars
    BY NextPaysInDueTime
  <1>2. QED
    BY <1>1, Invariance, PTL DEF Spec, PayoutDelayHolds

-----------------------------------------------------------------------------
(***************************************************************************)
(* The three contracts implement CoveragePromise: seen through the status  *)
(* of the policies, their terms, the verdicts on their claims and the      *)
(* engine's balance, every transaction sells, confirms, pays, refunds or   *)
(* lapses one policy, or is a stutter.                                     *)
(***************************************************************************)

PromiseStep == Promise!PromiseNext \/ UNCHANGED Promise!promiseVars

\* No transaction but a purchase, a settlement or a verdict is seen at all.
LEMMA Unseen ==
    ASSUME UNCHANGED <<now, policy, escrow>>, confirmedBar' = confirmedBar
    PROVE  PromiseStep
  BY DEF PromiseStep, Promise!promiseVars, stageBar, termsBar

-----------------------------------------------------------------------------
(***************************************************************************)
(* The policies.                                                           *)
(***************************************************************************)

\* A settlement moves the stage of one policy that was covered, and no terms.
LEMMA SettledBars ==
    ASSUME PolicyInv, NEW p \in PolicyIds, NEW s,
           \/ PayClaim(p) /\ s = "Claimed"
           \/ ExpirePolicy(p) /\ s = "Expired"
           \/ CancelPolicy(p) /\ s = "Cancelled"
    PROVE  /\ stageBar[p] = "covered"
           /\ stageBar' = [stageBar EXCEPT ![p] = StageOf[s]]
           /\ termsBar' = termsBar
           /\ termsBar[p] = [coverage |-> policy[p].coverage,
                             premium |-> policy[p].premium, end |-> policy[p].end]
  <1>1. policy[p] \in Policies /\ policy[p].status = "Active"
    BY DEF PayClaim, ExpirePolicy, CancelPolicy, PolicyInv, PolicyTypeOK, NoPolicy
  <1>2. /\ policy'[p] = [policy[p] EXCEPT !.status = s]
        /\ \A q \in PolicyIds \ {p} : policy'[q] = policy[q]
    BY DEF PayClaim, ExpirePolicy, CancelPolicy, PolicyInv, PolicyTypeOK
  <1>3. /\ policy'[p].status = s
        /\ policy'[p].coverage = policy[p].coverage
        /\ policy'[p].premium = policy[p].premium
        /\ policy'[p].end = policy[p].end
        /\ s # "None"
    BY <1>1, <1>2 DEF Policies
  <1>4. stageBar[p] = "covered"
    BY <1>1 DEF stageBar, StageOf
  <1>5. stageBar' = [stageBar EXCEPT ![p] = StageOf[s]]
    BY <1>2, <1>3 DEF stageBar
  <1>6. termsBar' = termsBar
    BY <1>1, <1>2, <1>3 DEF termsBar, TermsOf
  <1>7. QED
    BY <1>1, <1>4, <1>5, <1>6 DEF termsBar, TermsOf

\* A payout, on a verdict of this step or of an earlier one.
LEMMA PayPromise ==
    ASSUME Inv, NEW p \in PolicyIds, PayClaim(p), now' = now,
           confirmedBar' = [confirmedBar EXCEPT ![p] = TRUE]
    PROVE  PromiseStep
  <1>1. /\ stageBar[p] = "covered"
        /\ stageBar' = [stageBar EXCEPT ![p] = StageOf["Claimed"]]
        /\ termsBar' = termsBar
        /\ termsBar[p].coverage = policy[p].coverage
    <2>1. PolicyInv
      BY DEF Inv, BookInv
    <2>2. /\ stageBar[p] = "covered"
          /\ stageBar' = [stageBar EXCEPT ![p] = StageOf["Claimed"]]
          /\ termsBar' = termsBar
          /\ termsBar[p] = [coverage |-> policy[p].coverage,
                            premium |-> policy[p].premium, end |-> policy[p].end]
      BY <2>1, SettledBars
    <2>3. QED
      BY <2>2
  <1>2. StageOf["Claimed"] = "paid"
    BY DEF StageOf
  <1>3. policy[p].coverage \in Nat /\ escrow \in Nat
    BY DEF PayClaim, Inv, BookInv, PolicyInv, PolicyTypeOK, NoPolicy, Policies
  <1>4. escrow' = escrow - termsBar[p].coverage /\ escrow' >= 0
    BY <1>1, <1>3 DEF PayClaim
  <1>5. Promise!Pay(p)
    BY <1>1, <1>2, <1>4 DEF Promise!Pay
  <1>6. QED
    BY <1>5 DEF PromiseStep, Promise!PromiseNext

\* An expiry past the end of the cover.
LEMMA ExpirePromise ==
    ASSUME Inv, NEW p \in PolicyIds, ExpirePolicy(p), now > policy[p].end, now' = now,
           confirmedBar' = confirmedBar
    PROVE  PromiseStep
  <1>1. /\ stageBar[p] = "covered"
        /\ stageBar' = [stageBar EXCEPT ![p] = StageOf["Expired"]]
        /\ termsBar' = termsBar
        /\ termsBar[p].end = policy[p].end
    <2>1. PolicyInv
      BY DEF Inv, BookInv
    <2>2. /\ stageBar[p] = "covered"
          /\ stageBar' = [stageBar EXCEPT ![p] = StageOf["Expired"]]
          /\ termsBar' = termsBar
          /\ termsBar[p] = [coverage |-> policy[p].coverage,
                            premium |-> policy[p].premium, end |-> policy[p].end]
      BY <2>1, SettledBars
    <2>3. QED
      BY <2>2
  <1>2. StageOf["Expired"] = "lapsed"
    BY DEF StageOf
  <1>3. Promise!Lapse(p)
    BY <1>1, <1>2 DEF Promise!Lapse, ExpirePolicy
  <1>4. QED
    BY <1>3 DEF PromiseStep, Promise!PromiseNext

\* A refund lies between nothing and the premium.
LEMMA RefundNat ==
    ASSUME NEW pol, NEW t \in Nat,
           pol.start \in Nat, pol.end \in Nat, pol.premium \in Nat,
           pol.start < pol.end
    PROVE  Refund(pol, t) \in 0..pol.premium
  <1> DEFINE total == pol.end - pol.start
             elapsed == IF t <= pol.start THEN 0 ELSE Lesser(t - pol.start, total)
  <1>1. total \in Nat \ {0}
    OBVIOUS
  <1>2. elapsed \in 0..total
    BY <1>1 DEF Lesser
  <1>3. Refund(pol, t) = pol.premium - (pol.premium * elapsed) \div total
    BY DEF Refund
  <1> HIDE DEF total, elapsed
  <1>4. elapsed \in Nat /\ elapsed <= total /\ pol.premium * elapsed \in Nat
    BY <1>1, <1>2
  <1>5. (pol.premium * elapsed) \div total <= pol.premium
    BY <1>1, <1>4, DivShare
  <1>6. (pol.premium * elapsed) \div total \in Nat
    BY <1>1, <1>4, DivNat
  <1>7. QED
    BY <1>3, <1>5, <1>6

LEMMA CancelPromise ==
    ASSUME Inv, NEW p \in PolicyIds, CancelPolicy(p), now' = now,
           confirmedBar' = confirmedBar
    PROVE  PromiseStep
  <1>1. /\ stageBar[p] = "covered"
        /\ stageBar' = [stageBar EXCEPT ![p] = StageOf["Cancelled"]]
        /\ termsBar' = termsBar
        /\ termsBar[p].premium = policy[p].premium
    <2>1. PolicyInv
      BY DEF Inv, BookInv
    <2>2. /\ stageBar[p] = "covered"
          /\ stageBar' = [stageBar EXCEPT ![p] = StageOf["Cancelled"]]
          /\ termsBar' = termsBar
          /\ termsBar[p] = [coverage |-> policy[p].coverage,
                            premium |-> policy[p].premium, end |-> policy[p].end]
      BY <2>1, SettledBars
    <2>3. QED
      BY <2>2
  <1>2. StageOf["Cancelled"] = "refunded"
    BY DEF StageOf
  <1>3. policy[p] \in Policies /\ escrow \in Nat /\ now \in Nat
    BY DEF CancelPolicy, Inv, BookInv, PolicyInv, PolicyTypeOK, NoPolicy
  <1>4. Refund(policy[p], now) \in 0..policy[p].premium
    <2>1. policy[p].start < policy[p].end
      BY <1>3 DEF Inv, BookInv, PolicyInv, CoverHasLength, Policies
    <2>2. QED
      BY <1>3, <2>1, RefundNat DEF Policies
  <1>5. escrow' \in (escrow - termsBar[p].premium)..escrow /\ escrow' >= 0
    BY <1>1, <1>3, <1>4 DEF CancelPolicy, Policies
  <1>6. Promise!TakeBack(p)
    BY <1>1, <1>2, <1>5 DEF Promise!TakeBack
  <1>7. QED
    BY <1>6 DEF PromiseStep, Promise!PromiseNext

\* The holder is no part of the promise.
LEMMA TransferPromise ==
    ASSUME Inv, NEW p \in PolicyIds, NEW to \in Users, TransferPolicy(p, to), now' = now,
           confirmedBar' = confirmedBar
    PROVE  PromiseStep
  <1>1. policy[p] \in Policies
    BY DEF TransferPolicy, Inv, BookInv, PolicyInv, PolicyTypeOK, NoPolicy
  <1>2. /\ policy'[p] = [policy[p] EXCEPT !.holder = to]
        /\ \A q \in PolicyIds \ {p} : policy'[q] = policy[q]
    BY DEF TransferPolicy, Inv, BookInv, PolicyInv, PolicyTypeOK
  <1>3. /\ policy'[p].status = policy[p].status
        /\ policy'[p].coverage = policy[p].coverage
        /\ policy'[p].premium = policy[p].premium
        /\ policy'[p].end = policy[p].end
    BY <1>1, <1>2 DEF Policies
  <1>4. stageBar' = stageBar
    BY <1>2, <1>3 DEF stageBar
  <1>5. TermsOf(policy'[p]) = TermsOf(policy[p])
    BY <1>3 DEF TermsOf
  <1>6. termsBar' = termsBar
    BY <1>2, <1>5 DEF termsBar
  <1>7. QED
    BY <1>4, <1>6 DEF TransferPolicy, PromiseStep, Promise!promiseVars

\* A purchase sells the next id, on terms that end after now.
LEMMA BuyPromise ==
    ASSUME BookAssumption, Inv, NEW u \in Users, NEW g \in ProductIds,
           NEW coverage \in Coverages, NEW days \in Durations, NEW k \in OracleKeys,
           NEW start \in Nat, BuyPolicy(u, g, coverage, days, k, start), now' = now,
           confirmedBar' = confirmedBar
    PROVE  PromiseStep
  <1> DEFINE p == nextPolicyId
             sold == [product |-> g, holder |-> u, key |-> k, status |-> "Active",
                      start |-> start, end |-> start + days * DaySecs,
                      coverage |-> coverage, premium |-> Premium(coverage, days)]
             deal == [coverage |-> coverage, premium |-> Premium(coverage, days),
                      end |-> start + days * DaySecs]
  <1>1. p \in PolicyIds /\ policy[p].status = "None"
    BY DEF BuyPolicy, Inv, BookInv, PolicyInv, SoldInOrder, PolicyIds
  <1>2. /\ policy'[p] = sold
        /\ \A q \in PolicyIds \ {p} : policy'[q] = policy[q]
    BY <1>1 DEF BuyPolicy, Inv, BookInv, PolicyInv, PolicyTypeOK
  <1>3. sold.status = "Active" /\ TermsOf(sold) = deal
    BY DEF TermsOf
  <1>4. deal.end > now /\ deal.coverage > 0 /\ escrow' = escrow + deal.premium
    <2>1. days * DaySecs \in Nat \ {0} /\ now \in Nat
      BY DEF BookAssumption, Inv, BookInv, PolicyInv, PolicyTypeOK
    <2>2. QED
      BY <2>1 DEF BuyPolicy
  <1> HIDE DEF sold, deal
  <1>5. stageBar[p] = "unsold" /\ stageBar' = [stageBar EXCEPT ![p] = "covered"]
    <2>1. StageOf["None"] = "unsold" /\ StageOf["Active"] = "covered"
      BY DEF StageOf
    <2>2. QED
      BY <1>1, <1>2, <1>3, <2>1 DEF stageBar
  <1>6. termsBar' = [termsBar EXCEPT ![p] = deal] /\ termsBar'[p] = deal
    BY <1>1, <1>2, <1>3 DEF termsBar
  <1>7. Promise!Sell(p)
    BY <1>4, <1>5, <1>6 DEF Promise!Sell
  <1>8. QED
    BY <1>1, <1>7 DEF PromiseStep, Promise!PromiseNext

-----------------------------------------------------------------------------
(***************************************************************************)
(* The verdicts.                                                           *)
(***************************************************************************)

\* What a step leaves of confirmedBar when it writes record r of policy p.
OneVerdict(p, r) ==
    /\ r.paid # NoAmount => confirmedBar' = [confirmedBar EXCEPT ![p] = TRUE]
    /\ r.paid = NoAmount => confirmedBar' = confirmedBar

LEMMA VerdictReplaced ==
    ASSUME Inv, NEW c \in ClaimIds, claim[c].status # "None",
           NEW r \in Claims, r.policy = claim[c].policy,
           r.paid = NoAmount => claim[c].paid = NoAmount,
           claim' = [claim EXCEPT ![c] = r], policyClaim' = policyClaim
    PROVE  OneVerdict(r.policy, r)
  <1>1. r.policy \in PolicyIds /\ policyClaim[r.policy] = c /\ c # 0
    BY DEF Claims, Inv, ClaimsInv, ClaimIndexExact, ClaimIds
  <1>2. /\ claim'[c] = r
        /\ \A d \in ClaimIds \ {c} : claim'[d] = claim[d]
    BY DEF Inv, ClaimsInv, ClaimTypeOK, RecordTypeOK
  <1>3. \A q \in PolicyIds : policyClaim[q] # 0 => policyClaim[q] \in ClaimIds
    BY DEF Inv, ClaimsInv, ClaimTypeOK, RecordTypeOK, ClaimIds
  <1>4. \A q \in PolicyIds \ {r.policy} : policyClaim[q] # c
    BY DEF Inv, ClaimsInv, ClaimIndexExact
  <1>5. \A q \in PolicyIds \ {r.policy} : confirmedBar'[q] = confirmedBar[q]
    BY <1>2, <1>3, <1>4 DEF confirmedBar
  <1>6. /\ confirmedBar'[r.policy] = (r.paid # NoAmount)
        /\ confirmedBar[r.policy] = (claim[c].paid # NoAmount)
    BY <1>1, <1>2 DEF confirmedBar
  <1>7. QED
    BY <1>1, <1>5, <1>6 DEF OneVerdict, confirmedBar

LEMMA VerdictCreated ==
    ASSUME Inv, NEW p \in PolicyIds, nextClaimId \in ClaimIds, policyClaim[p] = 0,
           NEW r, claim' = [claim EXCEPT ![nextClaimId] = r],
           policyClaim' = [policyClaim EXCEPT ![p] = nextClaimId]
    PROVE  OneVerdict(p, r)
  <1>1. /\ claim'[nextClaimId] = r
        /\ \A d \in ClaimIds \ {nextClaimId} : claim'[d] = claim[d]
        /\ policyClaim'[p] = nextClaimId
        /\ \A q \in PolicyIds \ {p} : policyClaim'[q] = policyClaim[q]
    BY DEF Inv, ClaimsInv, ClaimTypeOK, RecordTypeOK
  <1>2. \A q \in PolicyIds : policyClaim[q] # 0 => policyClaim[q] \in ClaimIds
    BY DEF Inv, ClaimsInv, ClaimTypeOK, RecordTypeOK, ClaimIds
  <1>3. \A q \in PolicyIds : policyClaim[q] # nextClaimId
    BY DEF Inv, ClaimsInv, ClaimIndexExact, ClaimsInOrder, ClaimIds
  <1>4. \A q \in PolicyIds \ {p} : confirmedBar'[q] = confirmedBar[q]
    BY <1>1, <1>2, <1>3 DEF confirmedBar
  <1>5. nextClaimId # 0
    BY DEF ClaimIds
  <1>6. /\ confirmedBar'[p] = (r.paid # NoAmount)
        /\ confirmedBar[p] = FALSE
    BY <1>1, <1>5 DEF confirmedBar
  <1>7. QED
    BY <1>4, <1>6 DEF OneVerdict, confirmedBar

\* A step that keeps the paid amount of every claim keeps every verdict.
LEMMA VerdictsKept ==
    ASSUME Inv, policyClaim' = policyClaim,
           \A c \in ClaimIds : claim'[c].paid = claim[c].paid
    PROVE  confirmedBar' = confirmedBar
  <1>1. \A q \in PolicyIds : policyClaim[q] # 0 => policyClaim[q] \in ClaimIds
    BY DEF Inv, ClaimsInv, ClaimTypeOK, RecordTypeOK, ClaimIds
  <1>2. QED
    BY <1>1 DEF confirmedBar

LEMMA ConfirmPromise ==
    ASSUME NEW p \in PolicyIds, policy[p].status \in {"Active", "Claimed", "Cancelled", "Expired"},
           UNCHANGED <<now, policy, escrow>>,
           confirmedBar' = [confirmedBar EXCEPT ![p] = TRUE]
    PROVE  PromiseStep
  <1>1. stageBar[p] # "unsold"
    BY DEF stageBar, StageOf
  <1>2. stageBar' = stageBar /\ termsBar' = termsBar
    BY DEF stageBar, termsBar
  <1>3. Promise!Confirm(p)
    BY <1>1, <1>2 DEF Promise!Confirm
  <1>4. QED
    BY <1>3 DEF PromiseStep, Promise!PromiseNext

\* A positive verdict puts an amount on record.
LEMMA DecidedConfirms ==
    ASSUME LockAssumption, ClaimsAssumption, NEW cl \in Claims, NEW met,
           NEW bps \in PayoutBps, now \in Nat, payoutDelay \in Nat, met
    PROVE  Decided(cl, met, bps).paid # NoAmount
  <1> DEFINE amount == IF bps >= FullBps THEN cl.coverage
                       ELSE (cl.coverage * bps) \div FullBps
  <1>1. Decided(cl, met, bps).paid = amount
    BY DEF Decided, Claims
  <1>2. cl.coverage \in Nat /\ cl.coverage * bps \in Nat
    BY DEF Claims, ClaimsAssumption
  <1>3. (cl.coverage * bps) \div FullBps \in Nat
    BY <1>2, DivNat DEF LockAssumption
  <1>4. amount # NoAmount
    BY <1>2, <1>3 DEF NoAmount
  <1>5. QED
    BY <1>1, <1>4

LEMMA SettlePromise ==
    ASSUME Inv, ClaimsAssumption, LockAssumption,
           NEW c, NEW cl \in Claims, NEW queue, NEW met, NEW bps \in PayoutBps,
           Settle(c, cl, queue, met, bps), now' = now,
           policy[cl.policy].status # "None",
           OneVerdict(cl.policy, Decided(cl, met, bps))
    PROVE  PromiseStep
  <1> DEFINE r == Decided(cl, met, bps)
  <1>1. cl.policy \in PolicyIds
    BY DEF Claims
  <1>2. met => r.paid # NoAmount
    BY DecidedConfirms DEF Inv, BookInv, PolicyInv, PolicyTypeOK, ClaimsInv, ClaimTypeOK,
                           SettingTypeOK
  <1> HIDE DEF r
  <1>3. CASE met /\ payoutDelay = 0
    BY <1>1, <1>2, <1>3, PayPromise DEF Settle, PayOut, OneVerdict, r
  <1>4. CASE ~(met /\ payoutDelay = 0)
    <2>1. UNCHANGED <<now, policy, escrow>>
      BY <1>4 DEF Settle, policyVars
    <2>2. CASE r.paid # NoAmount
      <3>1. policy[cl.policy] \in Policies
        BY <1>1 DEF Inv, BookInv, PolicyInv, PolicyTypeOK, NoPolicy
      <3>2. policy[cl.policy].status \in {"Active", "Claimed", "Cancelled", "Expired"}
        BY <3>1 DEF Policies
      <3>3. QED
        BY <1>1, <2>1, <2>2, <3>2, ConfirmPromise DEF OneVerdict, r
    <2>3. CASE r.paid = NoAmount
      BY <2>1, <2>3, Unseen DEF OneVerdict, r
    <2>4. QED
      BY <2>2, <2>3
  <1>5. QED
    BY <1>3, <1>4

-----------------------------------------------------------------------------
(***************************************************************************)
(* The transactions.                                                       *)
(***************************************************************************)

LEMMA SubmitClaimPromise ==
    ASSUME Inv, NEW p \in PolicyIds, SubmitClaim(p)
    PROVE  PromiseStep
  <1>1. NewClaim(p).paid = NoAmount
    BY DEF NewClaim
  <1>2. confirmedBar' = confirmedBar
    BY <1>1, VerdictCreated DEF SubmitClaim, FileClaim, OneVerdict
  <1>3. QED
    BY <1>2, Unseen DEF SubmitClaim, bookVars, policyVars

\* A settlement of a claim on file.
LEMMA FiledPromise ==
    ASSUME Inv, ClaimsAssumption, LockAssumption,
           NEW c \in ClaimIds, NEW met, NEW bps \in PayoutBps,
           Settle(c, claim[c], queued, met, bps), now' = now, policyClaim' = policyClaim
    PROVE  PromiseStep
  <1> DEFINE r == Decided(claim[c], met, bps)
  <1>1. claim[c] \in Claims /\ claim[c].status = "Pending"
    BY ClaimOnFile DEF Settle, Inv, ClaimsInv
  <1>2. /\ r \in Claims /\ r.policy = claim[c].policy
        /\ r.paid = NoAmount => claim[c].paid = NoAmount
    BY <1>1, SettleFacts
  <1>3. claim' = [claim EXCEPT ![c] = r]
    BY DEF Settle
  <1> HIDE DEF r
  <1>4. OneVerdict(r.policy, r)
    BY <1>1, <1>2, <1>3, VerdictReplaced
  <1>5. policy[claim[c].policy].status # "None"
    BY <1>1 DEF Inv, ClaimsInv, ClaimIsForSold
  <1>6. OneVerdict(claim[c].policy, Decided(claim[c], met, bps))
    BY <1>2, <1>4 DEF r
  <1>7. QED
    BY <1>1, <1>5, <1>6, SettlePromise

LEMMA ProcessClaimPromise ==
    ASSUME Inv, ClaimsAssumption, LockAssumption,
           NEW c \in ClaimIds, NEW met, NEW bps \in PayoutBps, ProcessClaim(c, met, bps)
    PROVE  PromiseStep
  BY FiledPromise DEF ProcessClaim

LEMMA AutoProcessPromise ==
    ASSUME Inv, ClaimsAssumption, LockAssumption, NEW p \in PolicyIds, AutoProcess(p)
    PROVE  PromiseStep
  <1>1. CASE AutoProcessIdle(p)
    <2>1. confirmedBar' = confirmedBar
      BY <1>1 DEF AutoProcessIdle, confirmedBar
    <2>2. QED
      BY <1>1, <2>1, Unseen DEF AutoProcessIdle, bookVars, policyVars
  <1>2. CASE AutoProcessExpire(p)
    <2>1. confirmedBar' = confirmedBar
      BY <1>2 DEF AutoProcessExpire, confirmedBar
    <2>2. QED
      BY <1>2, <2>1, ExpirePromise DEF AutoProcessExpire
  <1>3. ASSUME NEW met \in BOOLEAN, NEW bps \in PayoutBps, AutoProcessSettle(p, met, bps)
        PROVE  PromiseStep
    <2>1. CASE policyClaim[p] # 0
      <3>1. policyClaim[p] \in ClaimIds
        BY <2>1 DEF Inv, ClaimsInv, ClaimTypeOK, RecordTypeOK, ClaimIds, ClaimsAssumption
      <3>2. QED
        BY <1>3, <2>1, <3>1, FiledPromise DEF AutoProcessSettle
    <2>2. CASE policyClaim[p] = 0
      <3>1. /\ policy[p].status = "Active" /\ nextClaimId \in ClaimIds /\ now' = now
            /\ policyClaim' = [policyClaim EXCEPT ![p] = nextClaimId]
            /\ Settle(nextClaimId, NewClaim(p), Push(queued, nextClaimId), met, bps)
        BY <1>3, <2>2 DEF AutoProcessSettle
      <3>2. NewClaim(p) \in Claims /\ NewClaim(p).policy = p
        BY <3>1, NewClaimType DEF Inv, NewClaim
      <3>3. claim' = [claim EXCEPT ![nextClaimId] = Decided(NewClaim(p), met, bps)]
        BY <3>1 DEF Settle
      <3>4. OneVerdict(p, Decided(NewClaim(p), met, bps))
        BY <2>2, <3>1, <3>3, VerdictCreated
      <3>5. QED
        BY <3>1, <3>2, <3>4, SettlePromise
    <2>3. QED
      BY <2>1, <2>2
  <1>4. QED
    BY <1>1, <1>2, <1>3 DEF AutoProcess

\* Disputes, rejections, escalations and installments write a record and keep
\* its paid amount.
LEMMA ReviewPromise ==
    ASSUME Inv, Review
    PROVE  PromiseStep
  <1>1. PICK c \in ClaimIds : \/ \E u \in Users : DisputeClaim(u, c)
                              \/ ResolveDispute(c)
                              \/ RejectClaim(c)
                              \/ EscalateClaim(c)
    BY DEF Review
  <1>2. PICK s : claim' = [claim EXCEPT ![c].status = s]
    BY <1>1 DEF DisputeClaim, ResolveDispute, RejectClaim, EscalateClaim
  <1>3. claim[c] \in Claims
    BY <1>1, ClaimOnFile DEF DisputeClaim, ResolveDispute, RejectClaim, EscalateClaim,
                             Inv, ClaimsInv
  <1>4. \A d \in ClaimIds : claim'[d].paid = claim[d].paid
    BY <1>2, <1>3 DEF Inv, ClaimsInv, ClaimTypeOK, RecordTypeOK, Claims
  <1>5. UNCHANGED <<policyClaim, now, policy, escrow>>
    BY <1>1 DEF DisputeClaim, ResolveDispute, RejectClaim, EscalateClaim,
                OnlyClaimAndQueue, bookVars, policyVars
  <1>6. QED
    BY <1>4, <1>5, VerdictsKept, Unseen

LEMMA PayoutsPromise ==
    ASSUME Inv, NEW c \in ClaimIds,
           \/ ClaimPayout(c)
           \/ \E plan \in InstallmentPlans : ScheduleInstallments(c, plan)
           \/ ClaimInstallment(c)
    PROVE  PromiseStep
  <1>1. claim[c] \in Claims /\ claim[c].status # "None" /\ claim[c].policy \in PolicyIds
    BY ClaimOnFile DEF ClaimPayout, ScheduleInstallments, ClaimInstallment, Inv, ClaimsInv
  <1>2. claim \in [ClaimIds -> Claims \cup {NoClaim}]
    BY DEF Inv, ClaimsInv, ClaimTypeOK, RecordTypeOK
  <1>3. CASE ClaimPayout(c)
    <2>1. \A d \in ClaimIds : claim'[d].paid = claim[d].paid
      BY <1>1, <1>2, <1>3 DEF ClaimPayout, Claims
    <2>2. confirmedBar' = confirmedBar
      BY <1>3, <2>1, VerdictsKept DEF ClaimPayout
    <2>3. confirmedBar[claim[c].policy] = TRUE
      <3>1. policyClaim[claim[c].policy] = c /\ c # 0
        BY <1>1 DEF Inv, ClaimsInv, ClaimIndexExact, ClaimIds
      <3>2. claim[c].paid # NoAmount
        BY <1>3 DEF ClaimPayout
      <3>3. QED
        BY <1>1, <3>1, <3>2 DEF confirmedBar
    <2>4. confirmedBar' = [confirmedBar EXCEPT ![claim[c].policy] = TRUE]
      BY <2>2, <2>3 DEF confirmedBar
    <2>5. QED
      BY <1>1, <1>3, <2>4, PayPromise DEF ClaimPayout, PayOut
  <1>4. ASSUME NEW plan \in InstallmentPlans, ScheduleInstallments(c, plan)
        PROVE  PromiseStep
    <2>1. \A d \in ClaimIds : claim'[d].paid = claim[d].paid
      BY <1>1, <1>2, <1>4 DEF ScheduleInstallments, Claims
    <2>2. UNCHANGED <<policyClaim, now, policy, escrow>>
      BY <1>4 DEF ScheduleInstallments, OnlyClaimAndQueue, bookVars, policyVars
    <2>3. QED
      BY <2>1, <2>2, VerdictsKept, Unseen
  <1>5. CASE ClaimInstallment(c)
    <2>1. \A d \in ClaimIds : claim'[d].paid = claim[d].paid
      BY <1>1, <1>2, <1>5 DEF ClaimInstallment, Claims
    <2>2. UNCHANGED <<policyClaim, now, policy, escrow>>
      BY <1>5 DEF ClaimInstallment, bookVars, policyVars
    <2>3. QED
      BY <2>1, <2>2, VerdictsKept, Unseen
  <1>6. QED
    BY <1>3, <1>4, <1>5

LEMMA BookStepPromise ==
    ASSUME BookAssumption, Inv, BookStep, UNCHANGED <<now, claimVars>>
    PROVE  PromiseStep
  <1>1. confirmedBar' = confirmedBar
    BY DEF claimVars, confirmedBar
  <1>2. CASE Purchase
    <2>1. PICK u \in Users, g \in ProductIds, coverage \in Coverages, days \in Durations,
               k \in OracleKeys, d \in StartDelays :
               BuyPolicy(u, g, coverage, days, k, now + d)
      BY <1>2 DEF Purchase
    <2>2. now + d \in Nat
      BY DEF Inv, BookInv, PolicyInv, PolicyTypeOK, BookAssumption
    <2>3. QED
      BY <1>1, <2>1, <2>2, BuyPromise
  <1>3. CASE HolderStep
    BY <1>1, <1>3, CancelPromise, TransferPromise DEF HolderStep
  <1>4. CASE BookSwitch
    BY <1>1, <1>4, Unseen DEF BookSwitch, EmergencyPause, EmergencyResume
  <1>5. QED
    BY <1>2, <1>3, <1>4 DEF BookStep

LEMMA NextPromise ==
    ASSUME BookAssumption, LockAssumption, ClaimsAssumption, Inv, Next
    PROVE  PromiseStep
  <1>1. CASE Submission
    BY <1>1, SubmitClaimPromise DEF Submission
  <1>2. CASE Processing \/ MultiReadingProcessing
    BY <1>2, ProcessClaimPromise
       DEF Processing, MultiReadingProcessing, ProcessMultiReadingClaim
  <1>3. CASE \E p \in PolicyIds : AutoProcess(p)
    BY <1>3, AutoProcessPromise
  <1>4. CASE Review
    BY <1>4, ReviewPromise
  <1>5. CASE Payouts
    BY <1>5, PayoutsPromise DEF Payouts
  <1>6. CASE Settings
    <2>1. UNCHANGED <<claim, policyClaim, now, policy, escrow>>
      BY <1>6 DEF Settings, SetPayoutDelay, SetWindows, SetDisputeDeadline,
                  SetProcessorPause, OnlySettings, bookVars, policyVars
    <2>2. QED
      BY <2>1, Unseen DEF confirmedBar
  <1>7. CASE \/ PoolStep /\ UNCHANGED <<bookVars, claimVars>>
             \/ CatalogueNext /\ UNCHANGED <<now, policyVars, claimVars, lockVars>>
    <2>1. UNCHANGED <<claim, policyClaim, now, policy, escrow>>
      BY <1>7 DEF claimVars, bookVars, policyVars
    <2>2. QED
      BY <2>1, Unseen DEF confirmedBar
  <1>8. CASE BookStep /\ UNCHANGED <<now, catalogueVars, claimVars, lockVars>>
    BY <1>8, BookStepPromise
  <1>9. CASE TimePasses
    <2>1. UNCHANGED <<stageBar, confirmedBar, termsBar, escrow>> /\ now' = now + 1
      BY <1>9 DEF TimePasses, Tick, policyVars, claimVars, stageBar, confirmedBar, termsBar
    <2>2. QED
      BY <2>1 DEF PromiseStep, Promise!PromiseNext
  <1>10. QED
    BY <1>1, <1>2, <1>3, <1>4, <1>5, <1>6, <1>7, <1>8, <1>9 DEF Next

\* The three contracts keep the promise of every policy, for any number of
\* policies, claims, customers and products and any amounts and times: it is paid
\* its exact coverage on a confirmed trigger, taken back for at most the premium
\* or lapses after its end, one of these once, and money moves in no other way.
THEOREM PromiseKept ==
    ASSUME CatalogueAssumption, BookAssumption, LockAssumption, ClaimsAssumption
    PROVE  Spec => KeepsPromise
  <1>1. Init => Promise!PromiseInit
    <2> SUFFICES ASSUME Init PROVE Promise!PromiseInit
      OBVIOUS
    <2>1. now = 0 /\ escrow \in Nat
      BY DEF Init, BookInit, BookAssumption
    <2>2. /\ stageBar = [p \in PolicyIds |-> "unsold"]
          /\ termsBar = [p \in PolicyIds |-> [coverage |-> 0, premium |-> 0, end |-> 0]]
      BY DEF Init, BookInit, NoPolicy, stageBar, StageOf, termsBar, TermsOf
    <2>3. confirmedBar = [p \in PolicyIds |-> FALSE]
      BY DEF Init, ClaimsInit, confirmedBar
    <2>4. QED
      BY <2>1, <2>2, <2>3 DEF Promise!PromiseInit
  <1>2. Inv /\ [Next]_vars => [Promise!PromiseNext]_(Promise!promiseVars)
    <2>1. CASE Next
      BY <2>1, NextPromise DEF PromiseStep
    <2>2. CASE UNCHANGED vars
      <3>1. UNCHANGED <<claim, policyClaim, now, policy, escrow>>
        BY <2>2 DEF vars, claimVars, bookVars, policyVars
      <3>2. QED
        BY <3>1 DEF Promise!promiseVars, stageBar, termsBar, confirmedBar
    <2>3. QED
      BY <2>1, <2>2
  <1>3. QED
    BY <1>1, <1>2, Invariance, PTL DEF Spec, KeepsPromise, Promise!PromiseSpec

=============================================================================
