------------------------------ MODULE PoolLocks ------------------------------
(***************************************************************************)
(* The capital-lock ledger of the risk pool: coverage earmarked per policy *)
(* id, the running total, and the two releases.  The callers are the admin *)
(* and the two protocol contracts (require_protocol_caller); the policy    *)
(* engine never calls it, so locks are taken by the admin.                 *)
(*                                                                         *)
(* total_deposited changes by deposits, withdrawals and liquidations,      *)
(* which are not modelled here: it keeps its initial value.                *)
(***************************************************************************)
EXTENDS Integers, FiniteSetsExt

CONSTANTS
    LockIds,       \* policy ids a lock may be asked for, sold or not
    LockAmounts,   \* amounts asked for
    InitialPool,   \* total_deposited
    UtilizationCaps, \* max_utilization_bps values the admin may set
    FullBps        \* 10_000: a whole, in basis points

ASSUME LockAssumption ==
    /\ IsFiniteSet(LockIds)
    /\ LockAmounts \subseteq Nat
    /\ InitialPool \in Nat
    /\ FullBps \in Nat \ {0}
    /\ UtilizationCaps \subseteq 1..FullBps

VARIABLES
    lock,           \* Lock(policy_id)
    totalLocked,    \* TotalLocked
    totalDeposited, \* TotalDeposited
    maxUtilization, \* Capacity.max_utilization_bps
    poolStatus      \* Status

lockVars == <<lock, totalLocked, totalDeposited, maxUtilization, poolStatus>>

\* No entry, an entry that is not released, an entry that is.
LockStates == {"none", "held", "released"}

LockInit ==
    /\ lock = [i \in LockIds |-> [state |-> "none", amount |-> 0]]
    /\ totalLocked = 0
    /\ totalDeposited = InitialPool
    /\ maxUtilization = FullBps
    /\ poolStatus = "Active"

-----------------------------------------------------------------------------
\* At 10_000 bps the ceiling is not looked at.
WithinUtilization(amount) ==
    maxUtilization < FullBps =>
        totalLocked + amount <= (totalDeposited * maxUtilization) \div FullBps

\* A bug: the solvency test forgets what is locked already.
LockForPolicyOverbooks(i, amount) ==
    /\ poolStatus = "Active"
    /\ amount > 0
    /\ totalDeposited >= amount
    /\ lock[i].state = "none"
    /\ lock' = [lock EXCEPT ![i] = [state |-> "held", amount |-> amount]]
    /\ totalLocked' = totalLocked + amount
    /\ UNCHANGED <<totalDeposited, maxUtilization, poolStatus>>

\* An entry stays when it is released: an id is locked at most once, ever.
LockForPolicy(i, amount) ==
    /\ poolStatus = "Active"
    /\ amount > 0
    /\ totalDeposited - totalLocked >= amount
    /\ WithinUtilization(amount)
    /\ lock[i].state = "none"
    /\ lock' = [lock EXCEPT ![i] = [state |-> "held", amount |-> amount]]
    /\ totalLocked' = totalLocked + amount
    /\ UNCHANGED <<totalDeposited, maxUtilization, poolStatus>>

\* A bug: AlreadyReleased is not tested, a second release subtracts again.
ReleaseTwice(i) ==
    /\ lock[i].state # "none"
    /\ lock' = [lock EXCEPT ![i].state = "released"]
    /\ totalLocked' = totalLocked - lock[i].amount
    /\ UNCHANGED <<totalDeposited, maxUtilization, poolStatus>>

\* release_for_claim and release_for_expiry change the same state; their guards
\* differ only in a test of the locked amount that lock_for_policy has made.
Release(i) ==
    /\ lock[i].state = "held"
    /\ lock' = [lock EXCEPT ![i].state = "released"]
    /\ totalLocked' = totalLocked - lock[i].amount
    /\ UNCHANGED <<totalDeposited, maxUtilization, poolStatus>>

SetCapacity(bps) ==
    /\ bps # maxUtilization
    /\ maxUtilization' = bps
    /\ UNCHANGED <<lock, totalLocked, totalDeposited, poolStatus>>

\* pause, resume and start_winding_down; only the last looks at the status.
SetPoolStatus(s) ==
    /\ s # poolStatus
    /\ s = "WindingDown" => poolStatus = "Active"
    /\ poolStatus' = s
    /\ UNCHANGED <<lock, totalLocked, totalDeposited, maxUtilization>>

\* Every change of the ledger, whoever asks for it.
LockNext ==
    \/ \E i \in LockIds, amount \in LockAmounts : LockForPolicy(i, amount)
    \/ \E i \in LockIds : Release(i)
    \/ \E bps \in UtilizationCaps : SetCapacity(bps)
    \/ \E s \in {"Active", "Paused", "WindingDown"} : SetPoolStatus(s)

LockSpec == LockInit /\ [][LockNext]_lockVars

-----------------------------------------------------------------------------
LockTypeOK ==
    /\ lock \in [LockIds -> [state: LockStates, amount: Nat]]
    /\ totalLocked \in Int
    /\ totalDeposited \in Nat
    /\ maxUtilization \in 1..FullBps
    /\ poolStatus \in {"Active", "Paused", "WindingDown"}

HeldIds == {i \in LockIds : lock[i].state = "held"}

\* total_locked over lock_for_policy and the two releases, from whichever caller
\* and in whatever order: it is the sum of the locks held, no more and no less.
LockedTotalExact ==
    totalLocked = SumFunctionOnSet([i \in LockIds |-> lock[i].amount], HeldIds)

\* lock_for_policy's Undercollateralized guard, over all interleavings with the
\* releases: the pool never has more locked than it holds.
NeverOverbooked == totalLocked <= totalDeposited

=============================================================================
