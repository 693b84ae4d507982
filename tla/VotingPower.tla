----------------------------- MODULE VotingPower -----------------------------
(***************************************************************************)
(* What an address can vote with in the governance DAO: its governance     *)
(* tokens, the holders who delegated to it, and the checkpoint its voting  *)
(* weight ages from.                                                       *)
(*                                                                         *)
(* Abstracted: DelegationExpiry, which only the query get_delegate reads;  *)
(* the order of a Delegators list, over which the code only sums.          *)
(***************************************************************************)
EXTENDS AdaptiveQuorum, FiniteSets, FiniteSetsExt

CONSTANTS
    Holders,         \* addresses that hold governance tokens
    NoOne,           \* not a holder: the absent DelegateOf entry
    InitialBalance,  \* governance tokens of each holder at deployment
    MaxDelegators,   \* MAX_DELEGATORS
    TimeWeights,     \* settings the admin may choose with set_time_weight
    MaxTime          \* bound: the last ledger timestamp

ASSUME PowerAssumption ==
    /\ IsFiniteSet(Holders)
    /\ NoOne \notin Holders
    /\ TimeWeights \subseteq [enabled: BOOLEAN, ramp: Nat, min: Nat]
    /\ InitialBalance \in [Holders -> Nat]
    /\ MaxDelegators \in Nat
    /\ MaxTime \in Nat

VARIABLES
    now,         \* env.ledger().timestamp()
    balance,     \* the governance token's balance of each holder
    delegateOf,  \* DelegateOf(holder)
    delegators,  \* Delegators(holder)
    timeWeight,  \* TimeWeight
    checkpoint   \* WeightCheckpoint(holder)

delegationVars == <<delegateOf, delegators>>
weightVars == <<timeWeight, checkpoint>>
powerVars == <<now, balance, delegationVars, weightVars>>

NoWeighting == [enabled |-> FALSE, ramp |-> 0, min |-> FullBps]

\* A missing checkpoint ages nothing, as one of no tokens does.
NoCheckpoint == [amount |-> 0, since |-> 0]

PowerInit ==
    /\ now = 0
    /\ balance = InitialBalance
    /\ delegateOf = [h \in Holders |-> NoOne]
    /\ delegators = [h \in Holders |-> {}]
    /\ timeWeight = NoWeighting
    /\ checkpoint = [h \in Holders |-> NoCheckpoint]

Tick ==
    /\ now < MaxTime
    /\ now' = now + 1
    /\ UNCHANGED <<balance, delegationVars, weightVars>>

\* The governance token is an ordinary token: whoever holds it may send it on.
SendTokens(from, to) ==
    /\ from # to
    /\ balance[from] > 0
    /\ balance' = [balance EXCEPT ![from] = 0, ![to] = @ + balance[from]]
    /\ UNCHANGED <<now, delegationVars, weightVars>>

-----------------------------------------------------------------------------
\* delegate and delegate_with_expiry: one hop only, and re-pointing leaves the
\* old delegate's list.
Delegate(from, to) ==
    /\ from # to
    /\ delegateOf[to] = NoOne
    /\ delegators[from] = {}
    /\ delegateOf[from] # to
    /\ Cardinality(delegators[to]) < MaxDelegators
    /\ delegateOf' = [delegateOf EXCEPT ![from] = to]
    /\ delegators' = [h \in Holders |->
                        CASE h = to -> delegators[h] \cup {from}
                          [] h = delegateOf[from] -> delegators[h] \ {from}
                          [] OTHER -> delegators[h]]
    /\ UNCHANGED <<now, balance, weightVars>>

\* A bug: the delegate's list keeps the holder.
RevokeKeepingListed(from) ==
    /\ delegateOf[from] # NoOne
    /\ delegateOf' = [delegateOf EXCEPT ![from] = NoOne]
    /\ UNCHANGED <<now, balance, delegators, weightVars>>

RevokeDelegation(from) ==
    /\ delegateOf[from] # NoOne
    /\ delegateOf' = [delegateOf EXCEPT ![from] = NoOne]
    /\ delegators' = [delegators EXCEPT ![delegateOf[from]] = @ \ {from}]
    /\ UNCHANGED <<now, balance, weightVars>>

-----------------------------------------------------------------------------
\* A larger balance restarts the clock, a smaller one lowers the amount.
CheckpointVotingPower(h) ==
    LET kept == balance[h] <= checkpoint[h].amount IN
    /\ checkpoint' = [checkpoint EXCEPT ![h] =
                        [amount |-> balance[h],
                         since |-> IF kept THEN checkpoint[h].since ELSE now]]
    /\ UNCHANGED <<now, balance, delegationVars, timeWeight>>

SetTimeWeight(setting) ==
    /\ setting.enabled => setting.ramp > 0 /\ setting.min <= FullBps
    /\ timeWeight' = setting
    /\ UNCHANGED <<now, balance, delegationVars, checkpoint>>

\* A bug: the age is not capped at the ramp period.
TimeWeightedUncapped(h, amount) ==
    LET aged == Least(checkpoint[h].amount, amount)
        elapsed == now - checkpoint[h].since
        factor == timeWeight.min
                    + ((FullBps - timeWeight.min) * elapsed) \div timeWeight.ramp
    IN  IF ~timeWeight.enabled \/ amount <= 0 THEN amount
        ELSE (aged * factor) \div FullBps
               + ((amount - aged) * timeWeight.min) \div FullBps

\* time_weighted: the checkpointed part ramps up from min, the rest counts at min.
TimeWeighted(h, amount) ==
    LET aged == Least(checkpoint[h].amount, amount)
        elapsed == Least(now - checkpoint[h].since, timeWeight.ramp)
        factor == timeWeight.min
                    + ((FullBps - timeWeight.min) * elapsed) \div timeWeight.ramp
    IN  IF ~timeWeight.enabled \/ amount <= 0 THEN amount
        ELSE (aged * factor) \div FullBps
               + ((amount - aged) * timeWeight.min) \div FullBps

=============================================================================
