---------------------------- MODULE MCGovernance ----------------------------
(***************************************************************************)
(* The governance DAO on a small instance.  Balances and configurations    *)
(* are functions and records, which a configuration file cannot write.     *)
(***************************************************************************)
EXTENDS Governance, TLC

CONSTANTS
    a, b,            \* holders
    t1, t2,          \* governance tokens
    pause,           \* a call whose name and arguments fit into their Vals
    send, approve,   \* calls of t1 with addresses among the arguments
    h1, h2, h3       \* hashes

\* One holder above the cap and one who can afford a deposit.
Balances == a :> 2 @@ b :> 1

SteepEscalation == {[standard |-> FullBps, selfTarget |-> 2 * FullBps, upgrade |-> 2 * FullBps]}

BaseConfig == [token |-> t1, threshold |-> 1, supply |-> 3, quorum |-> 6000, majority |-> 5000,
               voting |-> 1, timelock |-> 1, discussion |-> 0, cap |-> 0]

\* One holder who can afford two deposits, and one who can only vote.
TwoDeposits == a :> 4 @@ b :> 1

QuickConfig == [BaseConfig EXCEPT !.timelock = 0, !.threshold = 2, !.supply = 5, !.quorum = 4000]

\* A cap and a discussion period, or another governance token.
NewConfigs == {[InitialConfig EXCEPT !.cap = 1, !.discussion = 1],
               [InitialConfig EXCEPT !.token = t2]}

\* A holder of the old token may have some of the new one.
NewHoldings == {a :> 0 @@ b :> 1}

\* The hash of pause is its own; the others get any of the handles' hashes.
Hashing == [c \in Contents |-> IF c = pause THEN {h1} ELSE {h2, h3}]

NoCall == [method |-> "other", token |-> t1, to |-> a, amount |-> 0]

TokenCalls ==
    [c \in Contents |->
        CASE c = send -> [NoCall EXCEPT !.method = "transfer", !.amount = 1]
          [] c = approve -> [NoCall EXCEPT !.method = "approve", !.amount = 1]
          [] OTHER -> NoCall]

HashSymmetry == Permutations({h2, h3})

NoMultipliers == {}

OneDecay == {[enabled |-> TRUE, floor |-> 2000, step |-> 1000, window |-> 1]}

OneRamp == {[enabled |-> TRUE, ramp |-> 2, min |-> 5000]}

TwoRamps == OneRamp \cup {[enabled |-> TRUE, ramp |-> 1, min |-> 5000]}

=============================================================================
