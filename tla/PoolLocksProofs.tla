--------------------------- MODULE PoolLocksProofs ---------------------------
(***************************************************************************)
(* Proofs about the lock ledger of the risk pool: whoever calls, and in    *)
(* whatever order, it never earmarks more than the pool holds, and the     *)
(* running total is the sum of the locks held.                             *)
(***************************************************************************)
EXTENDS PoolLocks, SumTheorems, TLAPS

LockInv == LockTypeOK /\ NeverOverbooked

LEMMA LockForPolicyInv ==
    ASSUME LockAssumption, LockInv, NEW i \in LockIds, NEW amount \in LockAmounts,
           LockForPolicy(i, amount)
    PROVE  LockInv'
  <1>1. amount \in Nat
    BY DEF LockAssumption
  <1>2. lock' \in [LockIds -> [state: LockStates, amount: Nat]]
    BY <1>1 DEF LockForPolicy, LockInv, LockTypeOK, LockStates
  <1>3. totalLocked' \in Int /\ totalLocked' <= totalDeposited'
    BY <1>1 DEF LockForPolicy, LockInv, LockTypeOK
  <1>4. QED
    BY <1>2, <1>3 DEF LockForPolicy, LockInv, LockTypeOK, NeverOverbooked

LEMMA ReleaseInv ==
    ASSUME LockInv, NEW i \in LockIds, Release(i)
    PROVE  LockInv'
  <1>1. lock[i] \in [state: LockStates, amount: Nat]
    BY DEF LockInv, LockTypeOK
  <1>2. lock' \in [LockIds -> [state: LockStates, amount: Nat]]
    BY <1>1 DEF Release, LockInv, LockTypeOK, LockStates
  <1>3. totalLocked' \in Int /\ totalLocked' <= totalDeposited'
    BY <1>1 DEF Release, LockInv, LockTypeOK, NeverOverbooked
  <1>4. QED
    BY <1>2, <1>3 DEF Release, LockInv, LockTypeOK, NeverOverbooked

LEMMA LockNextInv ==
    ASSUME LockAssumption, LockInv, [LockNext]_lockVars
    PROVE  LockInv'
  <1>1. ASSUME NEW bps \in UtilizationCaps, SetCapacity(bps)
        PROVE  LockInv'
    <2>1. bps \in 1..FullBps
      BY DEF LockAssumption
    <2>2. /\ lock' = lock /\ totalLocked' = totalLocked
          /\ totalDeposited' = totalDeposited /\ poolStatus' = poolStatus
          /\ maxUtilization' = bps
      BY <1>1 DEF SetCapacity
    <2>3. QED
      BY <2>1, <2>2 DEF LockInv, LockTypeOK, NeverOverbooked
  <1>2. ASSUME NEW s \in {"Active", "Paused", "WindingDown"}, SetPoolStatus(s)
        PROVE  LockInv'
    <2>1. /\ lock' = lock /\ totalLocked' = totalLocked
          /\ totalDeposited' = totalDeposited /\ maxUtilization' = maxUtilization
          /\ poolStatus' = s
      BY <1>2 DEF SetPoolStatus
    <2>2. QED
      BY <2>1 DEF LockInv, LockTypeOK, NeverOverbooked
  <1>3. CASE UNCHANGED lockVars
    BY <1>3 DEF lockVars, LockInv, LockTypeOK, NeverOverbooked
  <1>4. CASE \E i \in LockIds, amount \in LockAmounts : LockForPolicy(i, amount)
    BY <1>4, LockForPolicyInv
  <1>5. CASE \E i \in LockIds : Release(i)
    BY <1>5, ReleaseInv
  <1>6. QED
    BY <1>1, <1>2, <1>3, <1>4, <1>5 DEF LockNext

\* lock_for_policy's Undercollateralized guard against every order of locks and
\* releases, for any number of locks and any amounts: the total that is locked
\* never exceeds what is deposited.
THEOREM LocksAreBacked ==
    ASSUME LockAssumption
    PROVE  LockSpec => [](LockTypeOK /\ NeverOverbooked)
  <1>1. LockInit => LockInv
    BY DEF LockInit, LockInv, LockTypeOK, LockStates, NeverOverbooked, LockAssumption
  <1>2. LockInv /\ [LockNext]_lockVars => LockInv'
    BY LockNextInv
  <1>3. QED
    BY <1>1, <1>2, PTL DEF LockSpec, LockInv

-----------------------------------------------------------------------------
(* The running total. *)

\* The amount locked per id, released or not.
LockedAmount == [i \in LockIds |-> lock[i].amount]

LEMMA LockedAmountNat ==
    ASSUME LockTypeOK
    PROVE  /\ HeldIds \subseteq LockIds
           /\ \A i \in LockIds : LockedAmount[i] = lock[i].amount /\ lock[i].amount \in Nat
  <1>1. ASSUME NEW i \in LockIds
        PROVE  lock[i].amount \in Nat
    <2>1. lock[i] \in [state: LockStates, amount: Nat]
      BY DEF LockTypeOK
    <2>2. QED
      BY <2>1
  <1>2. QED
    BY <1>1 DEF LockedAmount, HeldIds

LEMMA LockForPolicyExact ==
    ASSUME LockAssumption, LockTypeOK, LockTypeOK', LockedTotalExact,
           NEW i \in LockIds, NEW amount \in LockAmounts, LockForPolicy(i, amount)
    PROVE  LockedTotalExact'
  <1>1. IsFiniteSet(HeldIds) /\ i \notin HeldIds
    BY LockedAmountNat, FS_Subset DEF LockAssumption, LockForPolicy, HeldIds
  <1>2. lock' = [lock EXCEPT ![i] = [state |-> "held", amount |-> amount]]
    BY DEF LockForPolicy
  <1>3. HeldIds' = HeldIds \cup {i}
    BY <1>2 DEF HeldIds, LockTypeOK
  <1>4. /\ LockedAmount'[i] = amount
        /\ \A h \in HeldIds : LockedAmount'[h] = LockedAmount[h]
    BY <1>1, <1>2, LockedAmountNat DEF LockedAmount, LockTypeOK
  <1>5. amount \in Int /\ \A h \in HeldIds : LockedAmount[h] \in Int
    BY LockedAmountNat DEF LockAssumption
  <1>6. SumFunctionOnSet(LockedAmount', HeldIds') =
            amount + SumFunctionOnSet(LockedAmount', HeldIds)
    BY <1>1, <1>3, <1>4, <1>5, SumPutIn
  <1>7. SumFunctionOnSet(LockedAmount', HeldIds) = SumFunctionOnSet(LockedAmount, HeldIds)
    BY <1>1, <1>4, SumSame
  <1>8. totalLocked' = totalLocked + amount /\ totalLocked \in Int
    BY DEF LockForPolicy, LockTypeOK
  <1>9. QED
    BY <1>5, <1>6, <1>7, <1>8 DEF LockedTotalExact, LockedAmount

LEMMA ReleaseExact ==
    ASSUME LockAssumption, LockTypeOK, LockTypeOK', LockedTotalExact,
           NEW i \in LockIds, Release(i)
    PROVE  LockedTotalExact'
  <1>1. IsFiniteSet(HeldIds) /\ i \in HeldIds
    BY LockedAmountNat, FS_Subset DEF LockAssumption, Release, HeldIds
  <1>2. /\ \A h \in LockIds : lock'[h].amount = lock[h].amount
        /\ HeldIds' = HeldIds \ {i}
    BY DEF Release, HeldIds, LockTypeOK
  <1>3. LockedAmount' = LockedAmount
    BY <1>2 DEF LockedAmount
  <1>4. /\ lock[i].amount \in Int
        /\ \A h \in HeldIds : LockedAmount[h] \in Int
        /\ LockedAmount[i] = lock[i].amount
    BY LockedAmountNat
  <1>5. SumFunctionOnSet(LockedAmount, HeldIds) =
            lock[i].amount + SumFunctionOnSet(LockedAmount, HeldIds \ {i})
    BY <1>1, <1>4, SumTakeOut
  <1>6. SumFunctionOnSet(LockedAmount, HeldIds \ {i}) \in Int
    <2>1. IsFiniteSet(HeldIds \ {i})
      BY <1>1, FS_Subset
    <2>2. QED
      BY <1>4, <2>1, SumInt
  <1>7. totalLocked' = totalLocked - lock[i].amount
    BY DEF Release
  <1>8. QED
    BY <1>2, <1>3, <1>4, <1>5, <1>6, <1>7 DEF LockedTotalExact, LockedAmount

LEMMA LockNextExact ==
    ASSUME LockAssumption, LockTypeOK, LockTypeOK', LockedTotalExact, [LockNext]_lockVars
    PROVE  LockedTotalExact'
  <1>1. CASE UNCHANGED <<lock, totalLocked>>
    BY <1>1 DEF LockedTotalExact, HeldIds
  <1>2. CASE \E i \in LockIds, amount \in LockAmounts : LockForPolicy(i, amount)
    BY <1>2, LockForPolicyExact
  <1>3. CASE \E i \in LockIds : Release(i)
    BY <1>3, ReleaseExact
  <1>4. QED
    BY <1>1, <1>2, <1>3 DEF LockNext, SetCapacity, SetPoolStatus, lockVars

LEMMA LockInitExact ==
    ASSUME LockInit
    PROVE  LockedTotalExact
  <1>1. HeldIds = {} /\ totalLocked = 0
    BY DEF LockInit, HeldIds
  <1>2. QED
    BY <1>1, SumEmpty DEF LockedTotalExact

\* lock_for_policy adds to total_locked and the two releases subtract: after any
\* number of locks and releases, in any order, the total is the sum of the locks
\* that are held, for any ids and amounts.
THEOREM LockedTotalIsTheLocksHeld ==
    ASSUME LockAssumption
    PROVE  LockSpec => []LockedTotalExact
  <1> DEFINE Exact == LockInv /\ LockedTotalExact
  <1>1. LockInit => Exact
    BY LockInitExact DEF LockInit, LockInv, LockTypeOK, LockStates, NeverOverbooked,
                         LockAssumption
  <1>2. Exact /\ [LockNext]_lockVars => Exact'
    BY LockNextInv, LockNextExact DEF LockInv
  <1>3. QED
    BY <1>1, <1>2, PTL DEF LockSpec

=============================================================================
