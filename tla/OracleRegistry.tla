--------------------------- MODULE OracleRegistry ---------------------------
(***************************************************************************)
(* Who reports to the oracle verifier: registrations per data type, the    *)
(* stake behind them, its withdrawal through a challenge period, slashing  *)
(* and the deactivation of silent oracles.  The stake token is fixed; the  *)
(* admin is whoever calls an admin operation.                              *)
(***************************************************************************)
EXTENDS Integers, FiniteSetsExt

CONSTANTS
    Oracles,           \* addresses that may be registered
    DataTypes,         \* data_type symbols
    Home,              \* the type the first oracles are registered for
    FounderWeight,     \* weight each oracle starts with at Home
    Weights,           \* weights the admin may set, up to MAX_WEIGHT
    MaxPerType,        \* MAX_ORACLES_PER_KEY
    InitialStake,      \* stake each oracle starts with at Home
    StakeAmounts,      \* amounts an oracle may stake and the admin may slash
    MinStakes,         \* minimum stakes the admin may set
    ChallengePeriods,  \* periods the admin may set
    InitialChallenge,  \* DEFAULT_CHALLENGE_PERIOD
    InactivityLimits,  \* limits the admin may set; 0 disables the detection
    StartTime          \* ledger timestamp at which the oracles are in place

ASSUME RegistryAssumption ==
    /\ IsFiniteSet(Oracles) /\ IsFiniteSet(DataTypes)
    /\ Home \in DataTypes
    /\ FounderWeight \in [Oracles -> Nat \ {0}]
    /\ Weights \subseteq Nat \ {0}
    /\ MaxPerType \in Nat
    /\ InitialStake \in Nat
    /\ StakeAmounts \subseteq Nat \ {0}
    /\ MinStakes \subseteq Nat
    /\ ChallengePeriods \cup {InitialChallenge} \subseteq Nat
    /\ InactivityLimits \subseteq Nat
    /\ StartTime \in Nat

VARIABLES
    entry,           \* Oracle(data_type, oracle)
    listed,          \* OracleList(data_type), as a set
    known,           \* GlobalOracle(oracle)
    stake,           \* OracleStakeAmt(data_type, oracle)
    request,         \* StakeWithdrawalReq(data_type, oracle)
    custody,         \* the verifier's balance of the stake token
    forfeited,       \* not in the code: slashed stake that stayed in custody
    minStake,        \* MinStake
    challenge,       \* ChallengePeriod
    treasury,        \* SlashTreasury is set
    inactivityLimit, \* OracleInactivityLimit
    lastSubmission,  \* LastSubmission(data_type, oracle)
    removedAgain,    \* not in the code: removed from a type they had left, while active in another
    clock            \* env.ledger().timestamp()

registryVars == <<entry, listed, known, removedAgain>>
stakeVars == <<stake, request, custody, forfeited>>
limitVars == <<minStake, challenge, treasury, inactivityLimit>>
oracleVars == <<registryVars, stakeVars, limitVars, lastSubmission, clock>>

Never == -1
NoEntry == [state |-> "none", weight |-> 0]
NoRequest == [amount |-> 0, asked |-> 0, unlock |-> 0, early |-> FALSE]

Active(t, o) == entry[t][o].state = "active"

RegistryInit ==
    /\ entry = [t \in DataTypes |-> [o \in Oracles |->
                  IF t = Home THEN [state |-> "active", weight |-> FounderWeight[o]] ELSE NoEntry]]
    /\ listed = [t \in DataTypes |-> IF t = Home THEN Oracles ELSE {}]
    /\ known = Oracles
    /\ stake = [t \in DataTypes |-> [o \in Oracles |-> IF t = Home THEN InitialStake ELSE 0]]
    /\ request = [t \in DataTypes |-> [o \in Oracles |-> NoRequest]]
    /\ custody = InitialStake * Cardinality(Oracles)
    /\ forfeited = 0
    /\ minStake = 0
    /\ challenge = InitialChallenge
    /\ treasury = FALSE
    /\ inactivityLimit = 0
    /\ lastSubmission = [t \in DataTypes |-> [o \in Oracles |-> Never]]
    /\ removedAgain = {}
    /\ clock = StartTime

-----------------------------------------------------------------------------
(* Registration. *)

Register(t, o, weight) ==
    /\ entry[t][o] = NoEntry
    /\ Cardinality(listed[t]) < MaxPerType
    /\ minStake > 0 => stake[t][o] >= minStake
    /\ entry' = [entry EXCEPT ![t][o] = [state |-> "active", weight |-> weight]]
    /\ listed' = [listed EXCEPT ![t] = @ \cup {o}]
    /\ known' = known \cup {o}
    /\ UNCHANGED <<removedAgain, stakeVars, limitVars, lastSubmission, clock>>

\* A bug: an address that reports for another type is registered once more.
RegisterAnywhere(t, o, weight) == Register(t, o, weight)

AddOracle(t, o, weight) == o \notin known /\ Register(t, o, weight)

UpdateOracleWeight(t, o, weight) ==
    /\ entry[t][o] # NoEntry
    /\ entry' = [entry EXCEPT ![t][o].weight = weight]
    /\ UNCHANGED <<listed, known, removedAgain, stakeVars, limitVars, lastSubmission, clock>>

\* deactivate_oracle of every member of `gone`; whether a registration was still
\* active is not looked at, and the address is free again everywhere.
Deactivate(t, gone) ==
    /\ entry' = [entry EXCEPT ![t] = [o \in Oracles |->
                   IF o \in gone THEN [@[o] EXCEPT !.state = "inactive"] ELSE @[o]]]
    /\ listed' = [listed EXCEPT ![t] = @ \ gone]
    /\ known' = known \ gone
    /\ removedAgain' = removedAgain \cup {o \in gone : ~Active(t, o) /\ \E u \in DataTypes : Active(u, o)}
    /\ UNCHANGED <<stakeVars, limitVars, lastSubmission, clock>>

RemoveOracle(t, o) ==
    /\ entry[t][o] # NoEntry
    /\ Deactivate(t, {o})

\* oracle_offline
Offline(t, o) ==
    /\ inactivityLimit > 0
    /\ lastSubmission[t][o] # Never
    /\ clock - lastSubmission[t][o] > inactivityLimit

\* Called by anybody.
DeactivateInactiveOracles(t) ==
    LET gone == {o \in listed[t] : Offline(t, o)}
    IN  gone # {} /\ Deactivate(t, gone)

SetOracleInactivityLimit(seconds) ==
    /\ inactivityLimit' = seconds
    /\ UNCHANGED <<registryVars, stakeVars, minStake, challenge, treasury, lastSubmission, clock>>

-----------------------------------------------------------------------------
(* Stake. *)

Stake(t, o, amount) ==
    /\ stake' = [stake EXCEPT ![t][o] = @ + amount]
    /\ custody' = custody + amount
    /\ UNCHANGED <<registryVars, request, forfeited, limitVars, lastSubmission, clock>>

AskForStake(t, o) ==
    /\ stake[t][o] > 0
    /\ request[t][o] = NoRequest
    /\ request' = [request EXCEPT ![t][o] =
                     [amount |-> stake[t][o], asked |-> clock, unlock |-> clock + challenge,
                      early |-> entry[t][o] = NoEntry]]
    /\ UNCHANGED <<registryVars, stake, custody, forfeited, limitVars, lastSubmission, clock>>

\* A bug: an oracle asks for its stake while it still reports.
AskAnytime(t, o) == AskForStake(t, o)

\* `early` is not in the code: asked for before the oracle was registered for the type,
\* which nothing refuses.
RequestStakeWithdrawal(t, o) == ~Active(t, o) /\ AskForStake(t, o)

CancelStakeWithdrawal(t, o) ==
    /\ request[t][o] # NoRequest
    /\ request' = [request EXCEPT ![t][o] = NoRequest]
    /\ UNCHANGED <<registryVars, stake, custody, forfeited, limitVars, lastSubmission, clock>>

\* What was slashed or deposited since the request is not paid.
WithdrawStake(t, o) ==
    LET paid == Min({stake[t][o], request[t][o].amount})
    IN  /\ ~Active(t, o)
        /\ request[t][o] # NoRequest
        /\ clock >= request[t][o].unlock
        /\ stake[t][o] > 0
        /\ stake' = [stake EXCEPT ![t][o] = @ - paid]
        /\ request' = [request EXCEPT ![t][o] = NoRequest]
        /\ custody' = custody - paid
        /\ UNCHANGED <<registryVars, forfeited, limitVars, lastSubmission, clock>>

\* Where slashed stake goes: to the treasury, or nowhere.
Forfeit(amount) ==
    IF treasury THEN custody' = custody - amount /\ UNCHANGED forfeited
    ELSE forfeited' = forfeited + amount /\ UNCHANGED custody

\* A pending request shrinks with the stake.
SlashedRequest(t, o, slashed) ==
    IF request[t][o].amount <= slashed THEN NoRequest
    ELSE [request[t][o] EXCEPT !.amount = @ - slashed]

\* Below the minimum stake an oracle stops reporting; its address stays known.
Slash(t, o, slashed) ==
    LET remaining == stake[t][o] - slashed
        out == minStake > 0 /\ remaining < minStake /\ Active(t, o)
    IN  /\ stake[t][o] > 0
        /\ stake' = [stake EXCEPT ![t][o] = remaining]
        /\ request' = [request EXCEPT ![t][o] = SlashedRequest(t, o, slashed)]
        /\ Forfeit(slashed)
        /\ entry' = [entry EXCEPT ![t][o].state = IF out THEN "inactive" ELSE @]
        /\ listed' = [listed EXCEPT ![t] = IF out THEN @ \ {o} ELSE @]
        /\ UNCHANGED <<known, removedAgain, limitVars, lastSubmission, clock>>

\* A bug: the amount asked for is taken, even when there is less.
SlashAll(t, o, amount) == Slash(t, o, amount)

SlashOracle(t, o, amount) == Slash(t, o, Min({amount, stake[t][o]}))

SetMinStake(amount) ==
    /\ minStake' = amount
    /\ UNCHANGED <<registryVars, stakeVars, challenge, treasury, inactivityLimit, lastSubmission, clock>>

SetChallengePeriod(seconds) ==
    /\ challenge' = seconds
    /\ UNCHANGED <<registryVars, stakeVars, minStake, treasury, inactivityLimit, lastSubmission, clock>>

\* Set once or again: to whom is not told apart.
SetSlashTreasury ==
    /\ treasury' = TRUE
    /\ UNCHANGED <<registryVars, stakeVars, minStake, challenge, inactivityLimit, lastSubmission, clock>>
=============================================================================
