-------------------------- MODULE PoolSharesProofs --------------------------
(***************************************************************************)
(* Proofs about the liquidity of the risk pool, for every finite set of    *)
(* providers and every choice of amounts, precisions and settings: the     *)
(* shares add up, capital that covers a lock stays but for liquidations and *)
(* payments off the books, the USDC covers deposits and yield, and no step *)
(* of one provider lowers what a share of another is worth.                *)
(*                                                                         *)
(* A sweep makes several settlements in one transaction, so the invariant  *)
(* is stated of books, records of what a settlement may change, and proved *)
(* of each operation on books before it is proved of the steps.            *)
(***************************************************************************)
EXTENDS PoolShares, PoolLocksProofs

-----------------------------------------------------------------------------
(* What is invariant of the books. *)

Positions == [open: BOOLEAN, shares: Nat, deposited: Int, debt: Nat]
Exits == [shares: Nat, due: Nat]

BookRecords == [deposited: Nat, shares: Nat, position: [Providers -> Positions],
                exit: [Providers -> Exits], queued: Nat, balance: Int, slack: Nat,
                seized: Nat]

SharesHeld(b) == SumFunctionOnSet([l \in Providers |-> b.position[l].shares], Providers)
Reserved(b) == SumFunctionOnSet([l \in Providers |-> b.exit[l].shares], Providers)
Entitlements(b) == SumFunctionOnSet([l \in Providers |-> Entitled(b.position[l])], Providers)

SharesAdd(b) == b.shares = SharesHeld(b) + (IF b.shares > 0 THEN BurnShares ELSE 0)
ExitsAdd(b) == /\ b.queued = Reserved(b)
               /\ \A l \in Providers : b.exit[l] # NoExit => b.exit[l].shares > 0
Covered(b) == totalLocked <= b.deposited + b.seized
\* The money that is neither deposits nor seized; with the slack it is what backs the yield.
Free(b) == b.balance + b.slack - b.deposited - b.seized
YieldBacked(b) == AccPrecision * Free(b) >= Entitlements(b)

Sound(b) == /\ b \in BookRecords
            /\ SharesAdd(b)
            /\ ExitsAdd(b)
            /\ YieldBacked(b)

\* Nothing that happened between b and c lowered the worth of a share.
PriceHeld(b, c) ==
    b.shares > 0 => c.shares > 0 /\ c.deposited * b.shares >= b.deposited * c.shares

\* What the operations on books are told of the rest of the state.
Numbers == perShare \in Nat /\ totalLocked \in Nat /\ clock \in Nat

-----------------------------------------------------------------------------
(* Arithmetic. *)

LEMMA Floor ==
    ASSUME NEW x \in Nat, NEW n \in Nat \ {0}
    PROVE  /\ x \div n \in Nat
           /\ n * (x \div n) \in Nat
           /\ n * (x \div n) <= x
           /\ x < n * (x \div n) + n
  <1>1. \A y \in Nat : y \div n \in Nat /\ n * (y \div n) <= y /\ y < n * (y \div n) + n
    BY SMT
  <1>2. x \div n \in Nat
    BY <1>1
  <1>3. n * (x \div n) \in Nat
    BY <1>2
  <1>4. QED
    BY <1>1, <1>2, <1>3

\* What a settlement pays is never more than what the position is owed.
LEMMA SettledYield ==
    ASSUME SharesAssumption, Numbers, NEW b \in BookRecords, NEW l \in Providers
    PROVE  /\ Owed(b, l) \in Int
           /\ Entitled(b.position[l]) \in Nat
           /\ AccPrecision * NotNegative(Owed(b, l)) \in Nat
           /\ AccPrecision * NotNegative(Owed(b, l)) <= Entitled(b.position[l])
  <1> DEFINE pos == b.position[l]
             gained == perShare * pos.shares
             q == gained \div AccPrecision
  <1>1. pos \in Positions /\ AccPrecision \in Nat \ {0} /\ perShare \in Nat
    BY DEF BookRecords, SharesAssumption, Numbers
  <1>2. pos.shares \in Nat /\ pos.debt \in Nat
    BY <1>1 DEF Positions
  <1> HIDE DEF pos
  <1>3. gained \in Nat /\ AccPrecision * pos.debt \in Nat
    BY <1>1, <1>2
  <1>4. Owed(b, l) = q - pos.debt
    BY DEF Owed, Accrued, pos
  <1>5. Entitled(b.position[l]) = NotNegative(gained - AccPrecision * pos.debt)
    BY DEF Entitled, pos
  <1> HIDE DEF gained
  <1>6. q \in Nat /\ AccPrecision * q \in Nat /\ AccPrecision * q <= gained
    BY <1>1, <1>3, Floor
  <1> HIDE DEF q
  <1>7. AccPrecision * (q - pos.debt) = AccPrecision * q - AccPrecision * pos.debt
    BY <1>1, <1>2, <1>6, SMT
  <1>8. CASE q - pos.debt >= 0
    <2>1. NotNegative(Owed(b, l)) = q - pos.debt
      BY <1>4, <1>8 DEF NotNegative
    <2>2. gained - AccPrecision * pos.debt >= 0
      <3>1. q - pos.debt \in Nat
        BY <1>2, <1>6, <1>8
      <3>2. AccPrecision * (q - pos.debt) \in Nat
        BY <1>1, <3>1
      <3>3. QED
        BY <1>3, <1>6, <1>7, <3>2
    <2>3. QED
      BY <1>2, <1>3, <1>4, <1>5, <1>6, <1>7, <2>1, <2>2 DEF NotNegative
  <1>9. CASE q - pos.debt < 0
    <2>1. NotNegative(Owed(b, l)) = 0
      BY <1>2, <1>4, <1>6, <1>9 DEF NotNegative
    <2>2. AccPrecision * 0 = 0
      BY <1>1
    <2>3. QED
      BY <1>2, <1>3, <1>4, <1>5, <1>6, <2>1, <2>2 DEF NotNegative
  <1>10. QED
    BY <1>2, <1>6, <1>8, <1>9

\* A position whose debt was just set is owed less than a unit.
LEMMA FreshYield ==
    ASSUME SharesAssumption, Numbers, NEW shares \in Nat, NEW pos,
           pos.shares = shares, pos.debt = Accrued(shares)
    PROVE  /\ Accrued(shares) \in Nat
           /\ Entitled(pos) \in Nat
           /\ Entitled(pos) <= AccPrecision
  <1> DEFINE gained == perShare * shares
  <1>1. AccPrecision \in Nat \ {0} /\ gained \in Nat
    BY DEF SharesAssumption, Numbers
  <1>2. /\ gained \div AccPrecision \in Nat
        /\ AccPrecision * (gained \div AccPrecision) \in Nat
        /\ AccPrecision * (gained \div AccPrecision) <= gained
        /\ gained < AccPrecision * (gained \div AccPrecision) + AccPrecision
    BY <1>1, Floor
  <1>3. Accrued(shares) = gained \div AccPrecision
    BY DEF Accrued
  <1>4. Entitled(pos) = NotNegative(gained - AccPrecision * (gained \div AccPrecision))
    BY <1>3 DEF Entitled
  <1>5. QED
    BY <1>1, <1>2, <1>3, <1>4 DEF NotNegative

\* The worth of some shares is no more than the deposits and rounded down.
LEMMA WorthBounded ==
    ASSUME NEW b \in BookRecords, NEW shares \in Nat, shares <= b.shares, b.shares > 0
    PROVE  /\ Worth(b, shares) \in 0 .. b.deposited
           /\ b.shares * Worth(b, shares) \in Nat
           /\ b.shares * Worth(b, shares) <= shares * b.deposited
  <1>1. b.deposited \in Nat /\ b.shares \in Nat \ {0}
    BY DEF BookRecords
  <1>2. shares * b.deposited = b.deposited * shares /\ shares * b.deposited \in Nat
    BY <1>1
  <1>3. (b.deposited * shares) \div b.shares \in 0 .. b.deposited
    BY <1>1, DivShare
  <1>4. Worth(b, shares) = (shares * b.deposited) \div b.shares
    BY DEF Worth
  <1>5. /\ b.shares * ((shares * b.deposited) \div b.shares) \in Nat
        /\ b.shares * ((shares * b.deposited) \div b.shares) <= shares * b.deposited
    BY <1>1, <1>2, Floor
  <1>6. QED
    BY <1>2, <1>3, <1>4, <1>5

-----------------------------------------------------------------------------
(* One position changes. *)

LEMMA SumsTyped ==
    ASSUME SharesAssumption, Numbers, NEW b \in BookRecords
    PROVE  /\ SharesHeld(b) \in Nat /\ Reserved(b) \in Nat /\ Entitlements(b) \in Nat
           /\ \A l \in Providers : /\ b.position[l].shares \in Nat
                                   /\ b.position[l].shares <= SharesHeld(b)
                                   /\ b.exit[l].shares \in Nat
                                   /\ b.exit[l].shares <= Reserved(b)
  <1> DEFINE f == [l \in Providers |-> b.position[l].shares]
             g == [l \in Providers |-> b.exit[l].shares]
             h == [l \in Providers |-> Entitled(b.position[l])]
  <1>1. IsFiniteSet(Providers)
    BY DEF SharesAssumption
  <1>2. \A l \in Providers : f[l] = b.position[l].shares /\ f[l] \in Nat
    BY DEF BookRecords, Positions
  <1>3. \A l \in Providers : g[l] = b.exit[l].shares /\ g[l] \in Nat
    BY DEF BookRecords, Exits
  <1>4. \A l \in Providers : h[l] \in Nat
    BY SettledYield
  <1>5. /\ SharesHeld(b) = SumFunctionOnSet(f, Providers)
        /\ Reserved(b) = SumFunctionOnSet(g, Providers)
        /\ Entitlements(b) = SumFunctionOnSet(h, Providers)
    BY DEF SharesHeld, Reserved, Entitlements
  <1> HIDE DEF f, g, h
  <1>6. /\ SumFunctionOnSet(f, Providers) \in Nat
        /\ SumFunctionOnSet(g, Providers) \in Nat
        /\ SumFunctionOnSet(h, Providers) \in Nat
    BY <1>1, <1>2, <1>3, <1>4, SumNat
  <1>7. \A l \in Providers : f[l] <= SumFunctionOnSet(f, Providers)
    BY <1>1, <1>2, SumCovers
  <1>8. \A l \in Providers : g[l] <= SumFunctionOnSet(g, Providers)
    BY <1>1, <1>3, SumCovers
  <1>9. QED
    BY <1>2, <1>3, <1>5, <1>6, <1>7, <1>8

LEMMA PositionMoves ==
    ASSUME SharesAssumption, Numbers, NEW b \in BookRecords, NEW c \in BookRecords,
           NEW l \in Providers, NEW pos \in Positions,
           c.position = [b.position EXCEPT ![l] = pos]
    PROVE  /\ SharesHeld(c) = SharesHeld(b) - b.position[l].shares + pos.shares
           /\ Entitlements(c) = Entitlements(b) - Entitled(b.position[l]) + Entitled(pos)
  <1> DEFINE f == [k \in Providers |-> b.position[k].shares]
             g == [k \in Providers |-> c.position[k].shares]
             u == [k \in Providers |-> Entitled(b.position[k])]
             v == [k \in Providers |-> Entitled(c.position[k])]
  <1>1. IsFiniteSet(Providers)
    BY DEF SharesAssumption
  <1>2. c.position[l] = pos /\ \A k \in Providers \ {l} : c.position[k] = b.position[k]
    BY DEF BookRecords
  <1>3. /\ \A k \in Providers : f[k] \in Int
        /\ f[l] = b.position[l].shares /\ g[l] = pos.shares /\ g[l] \in Int
        /\ \A k \in Providers \ {l} : g[k] = f[k]
    BY <1>2 DEF BookRecords, Positions
  <1>4. /\ \A k \in Providers : u[k] \in Int
        /\ u[l] = Entitled(b.position[l]) /\ v[l] = Entitled(pos) /\ v[l] \in Int
        /\ \A k \in Providers \ {l} : v[k] = u[k]
    <2>1. \A k \in Providers : Entitled(b.position[k]) \in Nat /\ Entitled(c.position[k]) \in Nat
      BY SettledYield
    <2>2. QED
      BY <1>2, <2>1
  <1>5. /\ SharesHeld(b) = SumFunctionOnSet(f, Providers)
        /\ SharesHeld(c) = SumFunctionOnSet(g, Providers)
        /\ Entitlements(b) = SumFunctionOnSet(u, Providers)
        /\ Entitlements(c) = SumFunctionOnSet(v, Providers)
    BY DEF SharesHeld, Entitlements
  <1> HIDE DEF f, g, u, v
  <1>6. SumFunctionOnSet(g, Providers) = SumFunctionOnSet(f, Providers) - f[l] + g[l]
    BY <1>1, <1>3, SumUpdate
  <1>7. SumFunctionOnSet(v, Providers) = SumFunctionOnSet(u, Providers) - u[l] + v[l]
    BY <1>1, <1>4, SumUpdate
  <1>8. QED
    BY <1>3, <1>4, <1>5, <1>6, <1>7

\* Where shares exist, those nobody holds are among them.
LEMMA BurnedExist ==
    ASSUME SharesAssumption, Numbers, NEW b, Sound(b)
    PROVE  /\ b.shares > 0 => b.shares = SharesHeld(b) + BurnShares
           /\ \A l \in Providers : b.position[l].shares > 0 => b.shares > 0
           /\ b.shares > 0 => \A l \in Providers : b.position[l].shares < b.shares
  <1>1. b \in BookRecords /\ SharesAdd(b)
    BY DEF Sound
  <1>2. BurnShares \in Nat \ {0} /\ b.shares \in Nat
    BY <1>1 DEF SharesAssumption, BookRecords
  <1>3. SharesHeld(b) \in Nat
    BY <1>1, SumsTyped
  <1>4. \A l \in Providers : b.position[l].shares \in Nat /\ b.position[l].shares <= SharesHeld(b)
    BY <1>1, SumsTyped
  <1>5. QED
    BY <1>1, <1>2, <1>3, <1>4 DEF SharesAdd

\* Changing one position and the totals with it keeps the books sound.
LEMMA MoveSound ==
    ASSUME SharesAssumption, Numbers, NEW b, Sound(b), NEW c \in BookRecords,
           NEW l \in Providers, NEW pos \in Positions,
           c.position = [b.position EXCEPT ![l] = pos],
           c.exit = b.exit, c.queued = b.queued,
           c.shares > 0,
           c.shares = b.shares - b.position[l].shares + pos.shares
                        + (IF b.shares = 0 THEN BurnShares ELSE 0),
           AccPrecision * (Free(b) - Free(c)) <= Entitled(b.position[l]) - Entitled(pos)
    PROVE  Sound(c)
  <1>1. b \in BookRecords
    BY DEF Sound
  <1>2. /\ SharesHeld(c) = SharesHeld(b) - b.position[l].shares + pos.shares
        /\ Entitlements(c) = Entitlements(b) - Entitled(b.position[l]) + Entitled(pos)
    BY <1>1, PositionMoves
  <1>3. SharesHeld(b) \in Nat /\ Entitlements(b) \in Nat /\ b.position[l].shares \in Nat
    BY <1>1, SumsTyped
  <1>4. pos.shares \in Nat /\ b.shares \in Nat /\ BurnShares \in Nat \ {0}
    BY <1>1 DEF Positions, BookRecords, SharesAssumption
  <1>5. SharesAdd(c)
    BY <1>2, <1>3, <1>4 DEF SharesAdd, Sound
  <1>6. ExitsAdd(c)
    BY DEF ExitsAdd, Sound, Reserved
  <1>7. YieldBacked(c)
    <2>1. Entitled(b.position[l]) \in Nat
      BY <1>1, SettledYield
    <2>2. Entitled(c.position[l]) \in Nat /\ c.position[l] = pos
      BY <1>1, SettledYield DEF BookRecords
    <2>3. Entitled(pos) \in Nat
      BY <2>2
    <2>4. Free(b) \in Int /\ Free(c) \in Int /\ AccPrecision \in Nat
      BY <1>1 DEF Free, BookRecords, SharesAssumption
    <2>5. AccPrecision * Free(b) \in Int /\ AccPrecision * Free(c) \in Int
      BY <2>4
    <2>6. AccPrecision * (Free(b) - Free(c)) = AccPrecision * Free(b) - AccPrecision * Free(c)
      BY <2>4, SMT
    <2>7. AccPrecision * Free(b) >= Entitlements(b)
      BY DEF Sound, YieldBacked
    <2>8. AccPrecision * Free(c) >= Entitlements(c)
      BY <1>2, <1>3, <2>1, <2>3, <2>5, <2>6, <2>7
    <2>9. QED
      BY <2>8 DEF YieldBacked
  <1>8. QED
    BY <1>5, <1>6, <1>7 DEF Sound

-----------------------------------------------------------------------------
(* The operations on books. *)

LEMMA AccruedTyped ==
    ASSUME SharesAssumption, Numbers, NEW shares \in Nat
    PROVE  Accrued(shares) \in Nat
  <1>1. perShare * shares \in Nat /\ AccPrecision \in Nat \ {0}
    BY DEF Numbers, SharesAssumption
  <1>2. QED
    BY <1>1, Floor DEF Accrued

Fresh(shares, deposited) ==
    [open |-> TRUE, shares |-> shares, deposited |-> deposited, debt |-> Accrued(shares)]

LEMMA FreshTyped ==
    ASSUME SharesAssumption, Numbers, NEW shares \in Nat, NEW deposited \in Int
    PROVE  /\ Fresh(shares, deposited) \in Positions
           /\ Fresh(shares, deposited).shares = shares
           /\ Entitled(Fresh(shares, deposited)) \in Nat
           /\ Entitled(Fresh(shares, deposited)) <= AccPrecision
  <1> DEFINE pos == Fresh(shares, deposited)
  <1>1. pos.shares = shares /\ pos.debt = Accrued(shares)
    BY DEF Fresh
  <1>2. Accrued(shares) \in Nat
    BY <1>1, FreshYield
  <1>3. pos \in Positions
    BY <1>2 DEF Fresh, Positions
  <1> HIDE DEF pos
  <1>4. Entitled(pos) \in Nat /\ Entitled(pos) <= AccPrecision
    BY <1>1, FreshYield
  <1>5. QED
    BY <1>1, <1>3, <1>4 DEF pos

WithTotals(b, deposited, shares, money) ==
    [b EXCEPT !.deposited = deposited, !.shares = shares, !.balance = money]

HasTotals(b, c, deposited, shares, money) ==
    /\ c \in BookRecords
    /\ c.deposited = deposited /\ c.shares = shares /\ c.balance = money
    /\ c.position = b.position /\ c.exit = b.exit /\ c.queued = b.queued
    /\ c.slack = b.slack /\ c.seized = b.seized

LEMMA Updated ==
    ASSUME NEW b \in BookRecords, NEW deposited \in Nat, NEW shares \in Nat,
           NEW money \in Int
    PROVE  HasTotals(b, WithTotals(b, deposited, shares, money), deposited, shares, money)
  <1> DEFINE c == WithTotals(b, deposited, shares, money)
  <1>1. c = [b EXCEPT !.deposited = deposited, !.shares = shares, !.balance = money]
    BY DEF WithTotals
  <1> HIDE DEF c
  <1>2. HasTotals(b, c, deposited, shares, money)
    BY <1>1 DEF BookRecords, HasTotals
  <1>3. QED
    BY <1>2 DEF c

\* Reposition, field by field.
IsRepositioned(b, c, l, shares, deposited) ==
    /\ c \in BookRecords
    /\ c.deposited = b.deposited /\ c.shares = b.shares
    /\ c.position = [b.position EXCEPT ![l] = Fresh(shares, deposited)]
    /\ c.exit = b.exit /\ c.queued = b.queued
    /\ c.balance = b.balance /\ c.slack = b.slack + 1 /\ c.seized = b.seized

LEMMA Repositioned ==
    ASSUME SharesAssumption, Numbers, NEW b \in BookRecords, NEW l \in Providers,
           NEW shares \in Nat, NEW deposited \in Int
    PROVE  IsRepositioned(b, Reposition(b, l, shares, deposited), l, shares, deposited)
  <1> DEFINE c == Reposition(b, l, shares, deposited)
             pos == Fresh(shares, deposited)
             moved == [b.position EXCEPT ![l] = pos]
  <1>1. c = [b EXCEPT !.position[l] = pos, !.slack = b.slack + 1]
    BY DEF Reposition, Fresh
  <1>2. pos \in Positions
    BY FreshTyped
  <1> HIDE DEF pos, c
  <1>3. c = [b EXCEPT !.position = moved, !.slack = b.slack + 1]
    BY <1>1
  <1>4. moved \in [Providers -> Positions]
    BY <1>2 DEF BookRecords
  <1>5. b.slack + 1 \in Nat
    BY DEF BookRecords
  <1>6. c.position = moved /\ moved = [b.position EXCEPT ![l] = pos]
    BY <1>3 DEF BookRecords
  <1> HIDE DEF moved
  <1>7. /\ c \in BookRecords
        /\ c.deposited = b.deposited /\ c.shares = b.shares
        /\ c.exit = b.exit /\ c.queued = b.queued
        /\ c.balance = b.balance /\ c.slack = b.slack + 1 /\ c.seized = b.seized
    BY <1>3, <1>4, <1>5 DEF BookRecords
  <1>8. IsRepositioned(b, c, l, shares, deposited)
    BY <1>6, <1>7 DEF IsRepositioned, pos
  <1>9. QED
    BY <1>8 DEF c

LEMMA PriceHeldTransitive ==
    ASSUME NEW a \in BookRecords, NEW b \in BookRecords, NEW c \in BookRecords,
           PriceHeld(a, b), PriceHeld(b, c)
    PROVE  PriceHeld(a, c)
  <1> SUFFICES ASSUME a.shares > 0
               PROVE  c.shares > 0 /\ c.deposited * a.shares >= a.deposited * c.shares
    BY DEF PriceHeld
  <1> DEFINE D == a.deposited  E == b.deposited  F == c.deposited
             S == a.shares  T == b.shares  U == c.shares
  <1>1. /\ D \in Nat /\ E \in Nat /\ F \in Nat
        /\ S \in Nat \ {0} /\ T \in Nat \ {0} /\ U \in Nat \ {0}
        /\ E * S >= D * T /\ F * T >= E * U
    BY DEF PriceHeld, BookRecords
  <1> HIDE DEF D, E, F, S, T, U
  <1>2. E * S \in Nat /\ D * T \in Nat /\ F * T \in Nat /\ E * U \in Nat
    BY <1>1
  <1>3. (F * T) * S >= (E * U) * S
    <2>1. F * T - E * U \in Nat
      BY <1>1, <1>2
    <2>2. (F * T - E * U) * S \in Nat
      BY <1>1, <2>1
    <2>3. (F * T - E * U) * S = (F * T) * S - (E * U) * S
      BY <1>1, SMT
    <2>4. (F * T) * S \in Nat /\ (E * U) * S \in Nat
      BY <1>1, <1>2
    <2>5. QED
      BY <2>2, <2>3, <2>4
  <1>4. (E * S) * U >= (D * T) * U
    <2>1. E * S - D * T \in Nat
      BY <1>1, <1>2
    <2>2. (E * S - D * T) * U \in Nat
      BY <1>1, <2>1
    <2>3. (E * S - D * T) * U = (E * S) * U - (D * T) * U
      BY <1>1, SMT
    <2>4. (E * S) * U \in Nat /\ (D * T) * U \in Nat
      BY <1>1, <1>2
    <2>5. QED
      BY <2>2, <2>3, <2>4
  <1>5. F * S >= D * U
    <2>1. F * S \in Nat /\ D * U \in Nat
      BY <1>1
    <2>2. (F * S) * T >= (D * U) * T
      <3>1. /\ (F * T) * S = (F * S) * T
            /\ (E * U) * S = (E * S) * U
            /\ (D * T) * U = (D * U) * T
        BY <1>1, SMT
      <3>2. (F * T) * S \in Nat /\ (E * U) * S \in Nat /\ (D * T) * U \in Nat
        BY <1>1, <1>2
      <3>3. QED
        BY <1>3, <1>4, <3>1, <3>2
    <2>3. CASE F * S < D * U
      <3>1. D * U - F * S - 1 \in Nat
        BY <2>1, <2>3
      <3>2. (D * U - F * S - 1) * T \in Nat
        BY <1>1, <3>1
      <3>3. (D * U) * T = (F * S) * T + T + (D * U - F * S - 1) * T
        BY <1>1, SMT
      <3>4. (D * U) * T \in Nat /\ (F * S) * T \in Nat
        BY <1>1, <2>1
      <3>5. FALSE
        BY <1>1, <2>2, <3>2, <3>3, <3>4
      <3>6. QED
        BY <3>5
    <2>4. QED
      BY <2>1, <2>3
  <1>6. QED
    BY <1>1, <1>5 DEF D, F, S, U

-----------------------------------------------------------------------------
(* Money in and out of the books. *)

LEMMA Scaled ==
    ASSUME NEW a \in Nat, NEW x \in Int, NEW y \in Int, x <= y
    PROVE  a * x \in Int /\ a * y \in Int /\ a * x <= a * y
  <1>1. y - x \in Nat
    OBVIOUS
  <1>2. a * (y - x) \in Nat
    BY <1>1
  <1>3. a * (y - x) = a * y - a * x
    BY SMT
  <1>4. a * x \in Int /\ a * y \in Int
    OBVIOUS
  <1>5. QED
    BY <1>2, <1>3, <1>4

\* Redeemed and a payment, field by field.
LEMMA RedeemFields ==
    ASSUME SharesAssumption, Numbers, NEW b, Sound(b), NEW l \in Providers,
           NEW shares \in Nat \ {0}, Withdrawable(b, l, shares),
           NEW payment \in Int, NEW c, c = Paid(Redeemed(b, l, shares), payment)
    PROVE  /\ b \in BookRecords /\ c \in BookRecords
           /\ shares <= b.position[l].shares /\ b.position[l].shares < b.shares
           /\ Worth(b, shares) \in 0 .. b.deposited
           /\ b.shares * Worth(b, shares) \in Nat
           /\ b.shares * Worth(b, shares) <= shares * b.deposited
           /\ c.deposited = b.deposited - Worth(b, shares) /\ c.shares = b.shares - shares
           /\ c.position = [b.position EXCEPT ![l] =
                              Fresh(b.position[l].shares - shares,
                                    b.position[l].deposited - Worth(b, shares))]
           /\ c.exit = b.exit /\ c.queued = b.queued
           /\ c.balance = b.balance - payment /\ c.slack = b.slack + 1 /\ c.seized = b.seized
  <1> DEFINE w == Worth(b, shares)
             held == b.position[l].shares
             moved == Reposition(b, l, held - shares, b.position[l].deposited - w)
  <1>1. b \in BookRecords /\ shares <= held
    BY DEF Sound, Withdrawable
  <1>2. b.position[l] \in Positions /\ b.shares \in Nat /\ b.deposited \in Nat /\ b.balance \in Int
    BY <1>1 DEF BookRecords
  <1>3. held \in Nat /\ b.position[l].deposited \in Int
    BY <1>2 DEF Positions
  <1>4. held > 0 /\ held - shares \in Nat
    BY <1>1, <1>3
  <1>5. b.shares > 0 /\ held < b.shares
    BY <1>4, BurnedExist
  <1>6. /\ w \in 0 .. b.deposited
        /\ b.shares * w \in Nat /\ b.shares * w <= shares * b.deposited
    <2>1. shares <= b.shares
      BY <1>1, <1>2, <1>3, <1>5
    <2>2. QED
      BY <1>1, <1>5, <2>1, WorthBounded
  <1>7. Redeemed(b, l, shares) = [moved EXCEPT !.deposited = @ - w, !.shares = @ - shares]
    BY DEF Redeemed
  <1> HIDE DEF w, held
  <1>8. b.position[l].deposited - w \in Int
    BY <1>2, <1>3, <1>6
  <1>9. /\ moved \in BookRecords
        /\ moved.deposited = b.deposited /\ moved.shares = b.shares
        /\ moved.position = [b.position EXCEPT ![l] =
                               Fresh(held - shares, b.position[l].deposited - w)]
        /\ moved.exit = b.exit /\ moved.queued = b.queued
        /\ moved.balance = b.balance /\ moved.slack = b.slack + 1 /\ moved.seized = b.seized
    <2>1. IsRepositioned(b, moved, l, held - shares, b.position[l].deposited - w)
      BY <1>1, <1>4, <1>8, Repositioned
    <2> HIDE DEF moved
    <2>2. QED
      BY <2>1 DEF IsRepositioned
  <1> HIDE DEF moved
  <1>10. c = [[moved EXCEPT !.deposited = @ - w, !.shares = @ - shares]
                EXCEPT !.balance = @ - payment]
    BY <1>7 DEF Paid
  <1>11. b.deposited - w \in Nat /\ b.shares - shares \in Nat /\ b.balance - payment \in Int
    BY <1>1, <1>2, <1>3, <1>5, <1>6
  <1>12. /\ c \in BookRecords
         /\ c.deposited = b.deposited - w /\ c.shares = b.shares - shares
         /\ c.position = moved.position
         /\ c.exit = b.exit /\ c.queued = b.queued
         /\ c.balance = b.balance - payment /\ c.slack = b.slack + 1 /\ c.seized = b.seized
    <2> DEFINE taken == [moved EXCEPT !.deposited = @ - w, !.shares = @ - shares]
    <2>1. taken = [moved EXCEPT !.deposited = b.deposited - w, !.shares = b.shares - shares]
      BY <1>9
    <2>2. /\ taken \in BookRecords
          /\ taken.deposited = b.deposited - w /\ taken.shares = b.shares - shares
          /\ taken.position = moved.position
          /\ taken.exit = b.exit /\ taken.queued = b.queued
          /\ taken.balance = b.balance /\ taken.slack = b.slack + 1 /\ taken.seized = b.seized
      BY <1>9, <1>11, <2>1 DEF BookRecords
    <2>3. c = [taken EXCEPT !.balance = @ - payment]
      BY <1>10
    <2> HIDE DEF taken
    <2>4. c = [taken EXCEPT !.balance = b.balance - payment]
      BY <2>2, <2>3
    <2>5. QED
      BY <1>11, <2>2, <2>4 DEF BookRecords
  <1>13. QED
    BY <1>1, <1>5, <1>6, <1>9, <1>12 DEF w, held

\* Shares that leave with no more than their worth do not lower the price of the rest.
LEMMA PriceOfTheRest ==
    ASSUME NEW b \in BookRecords, NEW shares \in Nat, shares < b.shares,
           NEW w \in Int, b.shares * w \in Nat, b.shares * w <= shares * b.deposited,
           NEW c, c.deposited = b.deposited - w, c.shares = b.shares - shares
    PROVE  PriceHeld(b, c)
  <1>1. b.shares \in Nat /\ b.deposited \in Nat
    BY DEF BookRecords
  <1>2. /\ (b.deposited - w) * b.shares = b.deposited * b.shares - b.shares * w
        /\ b.deposited * (b.shares - shares) = b.deposited * b.shares - shares * b.deposited
    BY <1>1, SMT
  <1>3. b.deposited * b.shares \in Nat /\ shares * b.deposited \in Nat
    BY <1>1
  <1>4. c.deposited * b.shares >= b.deposited * c.shares
    BY <1>2, <1>3
  <1>5. c.shares > 0
    BY <1>1
  <1>6. QED
    BY <1>4, <1>5 DEF PriceHeld

\* Redeeming shares at their worth and paying no more than that and the yield owed
\* keeps the books sound, the locks covered and the price of the other shares.
LEMMA RedeemSound ==
    ASSUME SharesAssumption, Numbers, NEW b, Sound(b), NEW l \in Providers,
           NEW shares \in Nat \ {0}, Withdrawable(b, l, shares),
           NEW payment \in Int, payment <= Worth(b, shares) + NotNegative(Owed(b, l)),
           NEW c, c = Paid(Redeemed(b, l, shares), payment)
    PROVE  /\ Sound(c)
           /\ Covered(b) => Covered(c)
           /\ PriceHeld(b, c)
  <1> DEFINE w == Worth(b, shares)
             old == b.position[l]
             new == Fresh(old.shares - shares, old.deposited - w)
             owed == NotNegative(Owed(b, l))
  <1>1. /\ b \in BookRecords /\ c \in BookRecords
        /\ shares <= old.shares /\ old.shares < b.shares
        /\ w \in 0 .. b.deposited
        /\ b.shares * w \in Nat /\ b.shares * w <= shares * b.deposited
        /\ c.deposited = b.deposited - w /\ c.shares = b.shares - shares
        /\ c.position = [b.position EXCEPT ![l] = new]
        /\ c.exit = b.exit /\ c.queued = b.queued
        /\ c.balance = b.balance - payment /\ c.slack = b.slack + 1 /\ c.seized = b.seized
    BY RedeemFields
  <1>2. old.shares \in Nat /\ old.deposited \in Int
    BY <1>1 DEF BookRecords, Positions
  <1>3. /\ b.shares \in Nat /\ b.deposited \in Nat /\ b.balance \in Int /\ b.slack \in Nat /\ b.seized \in Nat
        /\ c.shares \in Nat /\ c.deposited \in Nat /\ c.balance \in Int /\ c.slack \in Nat /\ c.seized \in Nat
    BY <1>1 DEF BookRecords
  <1>4. /\ AccPrecision \in Nat /\ Owed(b, l) \in Int
        /\ Entitled(old) \in Nat
        /\ AccPrecision * owed \in Nat /\ AccPrecision * owed <= Entitled(old)
    BY <1>1, SettledYield DEF SharesAssumption
  <1>5. w \in Int /\ owed \in Int /\ payment <= w + owed
    BY <1>1, <1>4 DEF NotNegative
  <1>6. old.shares - shares \in Nat /\ old.deposited - w \in Int
    BY <1>1, <1>2
  <1>7. /\ new \in Positions /\ new.shares = old.shares - shares
        /\ Entitled(new) \in Nat /\ Entitled(new) <= AccPrecision
    BY <1>6, FreshTyped
  <1>8. Covered(b) => Covered(c)
    BY <1>1, <1>3 DEF Covered, Withdrawable, Available, Numbers
  <1> HIDE DEF w, old, new, owed
  <1>9. PriceHeld(b, c)
    <2>1. shares < b.shares
      BY <1>1, <1>2, <1>3
    <2>2. QED
      BY <1>1, <1>5, <2>1, PriceOfTheRest
  <1>10. AccPrecision * (Free(b) - Free(c)) <= Entitled(old) - Entitled(new)
    <2>1. Free(b) - Free(c) = payment - w - 1
      BY <1>1, <1>3, <1>5 DEF Free
    <2>2. payment - w - 1 <= owed - 1 /\ payment - w - 1 \in Int /\ owed - 1 \in Int
      BY <1>5
    <2>3. /\ AccPrecision * (payment - w - 1) \in Int
          /\ AccPrecision * (payment - w - 1) <= AccPrecision * (owed - 1)
      BY <1>4, <2>2, Scaled
    <2>4. AccPrecision * (owed - 1) = AccPrecision * owed - AccPrecision
      BY <1>4, <1>5, SMT
    <2>5. AccPrecision * (payment - w - 1) <= Entitled(old) - Entitled(new)
      BY <1>4, <1>7, <2>3, <2>4
    <2>6. QED
      BY <2>1, <2>5
  <1>11. /\ c.shares > 0
         /\ c.shares = b.shares - old.shares + new.shares + (IF b.shares = 0 THEN BurnShares ELSE 0)
    BY <1>1, <1>2, <1>3, <1>7
  <1>12. Sound(c)
    BY <1>1, <1>7, <1>10, <1>11, MoveSound DEF old
  <1>13. QED
    BY <1>8, <1>9, <1>12

-----------------------------------------------------------------------------
(* The exit queue. *)

LEMMA PriceSame ==
    ASSUME NEW b \in BookRecords, NEW c,
           c.shares = b.shares, c.deposited = b.deposited, c.seized = b.seized
    PROVE  PriceHeld(b, c) /\ (Covered(b) => Covered(c))
  <1>1. b.shares \in Nat /\ b.deposited \in Nat
    BY DEF BookRecords
  <1>2. b.deposited * b.shares \in Nat
    BY <1>1
  <1>3. QED
    BY <1>2 DEF PriceHeld, Covered

\* Changing one reservation and the total with it keeps the books sound.
LEMMA ExitMoves ==
    ASSUME SharesAssumption, Numbers, NEW b, Sound(b), NEW c \in BookRecords,
           NEW l \in Providers, NEW req \in Exits, req # NoExit => req.shares > 0,
           c.exit = [b.exit EXCEPT ![l] = req],
           c.queued = b.queued - b.exit[l].shares + req.shares,
           c.position = b.position, c.shares = b.shares, c.deposited = b.deposited,
           c.balance = b.balance, c.slack = b.slack, c.seized = b.seized
    PROVE  Sound(c) /\ PriceHeld(b, c) /\ (Covered(b) => Covered(c))
  <1> DEFINE f == [k \in Providers |-> b.exit[k].shares]
             g == [k \in Providers |-> c.exit[k].shares]
  <1>1. IsFiniteSet(Providers)
    BY DEF SharesAssumption
  <1>2. b \in BookRecords
    BY DEF Sound
  <1>3. c.exit[l] = req /\ \A k \in Providers \ {l} : c.exit[k] = b.exit[k]
    BY <1>2 DEF BookRecords
  <1>4. /\ \A k \in Providers : f[k] \in Int
        /\ f[l] = b.exit[l].shares /\ g[l] = req.shares /\ g[l] \in Int
        /\ \A k \in Providers \ {l} : g[k] = f[k]
    BY <1>2, <1>3 DEF BookRecords, Exits
  <1>5. Reserved(b) = SumFunctionOnSet(f, Providers) /\ Reserved(c) = SumFunctionOnSet(g, Providers)
    BY DEF Reserved
  <1> HIDE DEF f, g
  <1>6. SumFunctionOnSet(g, Providers) = SumFunctionOnSet(f, Providers) - f[l] + g[l]
    BY <1>1, <1>4, SumUpdate
  <1>7. b.queued = Reserved(b)
    BY DEF Sound, ExitsAdd
  <1>8. c.queued = Reserved(c)
    BY <1>4, <1>5, <1>6, <1>7
  <1>9. \A k \in Providers : c.exit[k] # NoExit => c.exit[k].shares > 0
    <2>1. \A k \in Providers : b.exit[k] # NoExit => b.exit[k].shares > 0
      BY DEF Sound, ExitsAdd
    <2>2. QED
      BY <1>3, <2>1
  <1>10. SharesAdd(c)
    BY DEF Sound, SharesAdd, SharesHeld
  <1>11. YieldBacked(c)
    BY DEF Sound, YieldBacked, Free, Entitlements
  <1>12. QED
    BY <1>2, <1>8, <1>9, <1>10, <1>11, PriceSame DEF Sound, ExitsAdd

LEMMA UnreservedSound ==
    ASSUME SharesAssumption, Numbers, NEW b, Sound(b), NEW l \in Providers,
           NEW c, c = Unreserved(b, l)
    PROVE  /\ Sound(c) /\ PriceHeld(b, c) /\ (Covered(b) => Covered(c))
           /\ b \in BookRecords /\ c \in BookRecords
           /\ c.position = b.position /\ c.shares = b.shares /\ c.deposited = b.deposited
           /\ c.balance = b.balance
  <1>1. b \in BookRecords
    BY DEF Sound
  <1>2. b.exit[l].shares \in Nat /\ b.exit[l].shares <= Reserved(b) /\ Reserved(b) \in Nat
    BY <1>1, SumsTyped
  <1>3. b.queued = Reserved(b)
    BY DEF Sound, ExitsAdd
  <1>4. b.queued - b.exit[l].shares \in Nat
    BY <1>2, <1>3
  <1>5. NotNegative(b.queued - b.exit[l].shares) = b.queued - b.exit[l].shares
    BY <1>4 DEF NotNegative
  <1> DEFINE left == b.queued - b.exit[l].shares
             exits == [b.exit EXCEPT ![l] = NoExit]
  <1>6. c = [b EXCEPT !.exit = exits, !.queued = left]
    BY <1>1, <1>5 DEF Unreserved, BookRecords
  <1>7. NoExit \in Exits /\ NoExit.shares = 0
    BY DEF NoExit, Exits
  <1>8. exits \in [Providers -> Exits]
    BY <1>1, <1>7 DEF BookRecords
  <1> HIDE DEF left, exits
  <1>9. /\ c \in BookRecords
        /\ c.exit = exits /\ c.queued = left
        /\ c.position = b.position /\ c.shares = b.shares /\ c.deposited = b.deposited
        /\ c.balance = b.balance /\ c.slack = b.slack /\ c.seized = b.seized
    BY <1>1, <1>4, <1>6, <1>8 DEF BookRecords, left
  <1>10. c.exit = [b.exit EXCEPT ![l] = NoExit]
    BY <1>9 DEF exits
  <1>11. c.queued = b.queued - b.exit[l].shares + NoExit.shares
    BY <1>4, <1>7, <1>9 DEF left
  <1>12. Sound(c) /\ PriceHeld(b, c) /\ (Covered(b) => Covered(c))
    BY <1>7, <1>9, <1>10, <1>11, ExitMoves
  <1>13. QED
    BY <1>1, <1>9, <1>12

\* withdraw_inner is one redemption.
LEMMA WithdrawnSound ==
    ASSUME SharesAssumption, Numbers, NEW b, Sound(b), NEW l \in Providers,
           NEW shares \in Nat \ {0}, Withdrawable(b, l, shares),
           NEW c, c = Withdrawn(b, l, shares)
    PROVE  Sound(c) /\ PriceHeld(b, c) /\ (Covered(b) => Covered(c))
  <1> DEFINE payment == Worth(b, shares) + NotNegative(Owed(b, l))
  <1>1. b \in BookRecords
    BY DEF Sound
  <1>2. Owed(b, l) \in Int
    BY <1>1, SettledYield
  <1>3. Worth(b, shares) \in Int
    BY DEF Withdrawable
  <1>4. payment \in Int /\ payment <= payment
    BY <1>2, <1>3 DEF NotNegative
  <1>5. c = Paid(Redeemed(b, l, shares), payment)
    BY DEF Withdrawn
  <1>6. QED
    BY <1>4, <1>5, RedeemSound

\* The settlement of one slot of a sweep.
LEMMA SlotSound ==
    ASSUME SharesAssumption, Numbers, NEW b, Sound(b), NEW l \in Providers, NEW skip,
           NEW c, c = SlotSettled(b, l, skip)
    PROVE  Sound(c) /\ PriceHeld(b, c) /\ (Covered(b) => Covered(c))
  <1> DEFINE shares == Lower(b.exit[l].shares, b.position[l].shares)
             due == l \notin skip /\ b.exit[l] # NoExit /\ clock >= b.exit[l].due
             u == Unreserved(b, l)
  <1>1. b \in BookRecords
    BY DEF Sound
  <1>2. shares \in Nat
    BY <1>1, SumsTyped DEF Lower
  <1>3. c = CASE due /\ shares = 0 -> u
              [] due /\ shares > 0 /\ Withdrawable(b, l, shares) -> Withdrawn(u, l, shares)
              [] OTHER -> b
    BY DEF SlotSettled
  <1>4. /\ Sound(u) /\ PriceHeld(b, u) /\ (Covered(b) => Covered(u)) /\ u \in BookRecords
        /\ u.position = b.position /\ u.shares = b.shares /\ u.deposited = b.deposited
    BY UnreservedSound
  <1> HIDE DEF shares, due, u
  <1>5. CASE due /\ shares = 0
    <2>1. c = u
      BY <1>3, <1>5
    <2>2. QED
      BY <1>4, <2>1
  <1>6. CASE due /\ shares > 0 /\ Withdrawable(b, l, shares)
    <2>1. c = Withdrawn(u, l, shares)
      BY <1>3, <1>6
    <2>2. Withdrawable(u, l, shares)
      BY <1>4, <1>6 DEF Withdrawable, Worth, Available
    <2>3. Sound(c) /\ PriceHeld(u, c) /\ (Covered(u) => Covered(c))
      BY <1>2, <1>4, <1>6, <2>1, <2>2, WithdrawnSound
    <2>4. c \in BookRecords
      BY <2>3 DEF Sound
    <2>5. PriceHeld(b, c)
      BY <1>1, <1>4, <2>3, <2>4, PriceHeldTransitive
    <2>6. QED
      BY <1>4, <2>3, <2>5
  <1>7. CASE ~(due /\ shares = 0) /\ ~(due /\ shares > 0 /\ Withdrawable(b, l, shares))
    <2>1. c = b
      BY <1>3, <1>7
    <2>2. QED
      BY <1>1, <2>1, PriceSame
  <1>8. QED
    BY <1>5, <1>6, <1>7

-----------------------------------------------------------------------------
(* The sweep: a settlement after another, up to the last slot it looks at. *)

\* g is what the recursion of Swept computes for the first n slots.
Settles(skip, n, g) ==
    g = [k \in 0 .. n |-> IF k = 0 THEN Books ELSE SlotSettled(g[k - 1], Scanned(k), skip)]

SettledThrough(skip, n) == CHOOSE g : Settles(skip, n, g)

LEMMA SweptIsSettled ==
    ASSUME NEW skip, NEW max, ~SweepIdle
    PROVE  Swept(skip, max) = SettledThrough(skip, ScanLength(max))[ScanLength(max)]
  BY DEF Swept, SettledThrough, Settles

LEMMA SettlesExists ==
    ASSUME NEW skip, NEW n \in Nat
    PROVE  Settles(skip, n, SettledThrough(skip, n))
  <1> DEFINE Bad == {m \in 0 .. n : \A g : ~Settles(skip, m, g)}
  <1>1. SUFFICES n \notin Bad
    BY DEF SettledThrough
  <1> SUFFICES ASSUME Bad # {} PROVE FALSE
    OBVIOUS
  <1>2. PICK m \in Bad : \A k \in Bad : m <= k
    <2>1. Bad \in SUBSET (0 .. n)
      OBVIOUS
    <2> HIDE DEF Bad
    <2>2. QED
      BY <2>1, LeastIndex
  <1>3. m \in Nat /\ m <= n
    OBVIOUS
  <1>4. CASE m = 0
    <2> DEFINE g == [k \in 0 .. 0 |-> Books]
    <2>1. g = [k \in 0 .. 0 |->
                 IF k = 0 THEN Books ELSE SlotSettled(g[k - 1], Scanned(k), skip)]
      OBVIOUS
    <2>2. Settles(skip, 0, g)
      BY <2>1 DEF Settles
    <2>3. QED
      BY <1>4, <2>2
  <1>5. CASE m > 0
    <2>1. m - 1 \in 0 .. n /\ m - 1 \notin Bad
      BY <1>2, <1>3, <1>5
    <2>2. PICK g : Settles(skip, m - 1, g)
      BY <2>1
    <2> DEFINE Final == SlotSettled(g[m - 1], Scanned(m), skip)
               h == [k \in 0 .. m |-> IF k = m THEN Final ELSE g[k]]
    <2>3. \A k \in 0 .. (m - 1) :
             g[k] = IF k = 0 THEN Books ELSE SlotSettled(g[k - 1], Scanned(k), skip)
      BY <2>2 DEF Settles
    <2>4. ASSUME NEW k \in 0 .. m
          PROVE  h[k] = IF k = 0 THEN Books ELSE SlotSettled(h[k - 1], Scanned(k), skip)
      <3>1. CASE k = m
        <4>1. h[k] = SlotSettled(g[m - 1], Scanned(m), skip)
          BY <3>1
        <4>2. h[m - 1] = g[m - 1]
          BY <1>3, <1>5
        <4>3. QED
          BY <1>5, <3>1, <4>1, <4>2
      <3>2. CASE k # m
        <4>1. k \in 0 .. (m - 1) /\ h[k] = g[k]
          BY <1>3, <3>2
        <4>2. k # 0 => h[k - 1] = g[k - 1]
          BY <1>3, <3>2
        <4>3. QED
          BY <2>3, <4>1, <4>2
      <3>3. QED
        BY <3>1, <3>2
    <2>5. h = [k \in 0 .. m |-> h[k]]
      OBVIOUS
    <2> HIDE DEF h
    <2>6. Settles(skip, m, h)
      BY <2>4, <2>5 DEF Settles
    <2>7. QED
      BY <2>6
  <1>6. QED
    BY <1>3, <1>4, <1>5

QueueTyped == slots \in Seq(Providers) /\ cursor \in Nat

LEMMA ScannedIsProvider ==
    ASSUME QueueTyped, slots # <<>>, NEW k \in Nat \ {0}
    PROVE  Scanned(k) \in Providers
  <1>1. Len(slots) \in Nat \ {0} /\ cursor \in Nat
    BY DEF QueueTyped
  <1>2. cursor + k - 1 \in Nat
    BY <1>1
  <1>3. ((cursor + k - 1) % Len(slots)) + 1 \in 1 .. Len(slots)
    BY <1>1, <1>2
  <1>4. QED
    BY <1>3 DEF QueueTyped, Scanned

\* What holds of the books after a settlement holds after a sweep.
Kept(b) == Sound(b) /\ PriceHeld(Books, b) /\ (Covered(Books) => Covered(b))

LEMMA SweptSound ==
    ASSUME SharesAssumption, Numbers, QueueTyped, Sound(Books), NEW skip, NEW max \in Nat
    PROVE  Kept(Swept(skip, max))
  <1>1. Books \in BookRecords
    BY DEF Sound
  <1>2. Kept(Books)
    BY <1>1, PriceSame DEF Kept
  <1>3. CASE SweepIdle
    BY <1>2, <1>3 DEF Swept
  <1>4. CASE ~SweepIdle
    <2> DEFINE n == ScanLength(max)
               after == SettledThrough(skip, n)
               Bad == {k \in 0 .. n : ~Kept(after[k])}
    <2>1. n \in Nat /\ slots # <<>>
      BY <1>4 DEF ScanLength, Lower, QueueTyped, SweepIdle
    <2>2. Swept(skip, max) = after[n]
      BY <1>4, SweptIsSettled
    <2> HIDE DEF n
    <2>3. Settles(skip, n, after)
      BY <2>1, SettlesExists
    <2> HIDE DEF after
    <2>4. \A k \in 0 .. n :
             after[k] = IF k = 0 THEN Books ELSE SlotSettled(after[k - 1], Scanned(k), skip)
      BY <2>3 DEF Settles
    <2>5. ASSUME Bad # {}
          PROVE  FALSE
      <3>1. PICK m \in Bad : \A k \in Bad : m <= k
        <4>1. Bad \in SUBSET (0 .. n)
          OBVIOUS
        <4> HIDE DEF Bad
        <4>2. QED
          BY <2>1, <2>5, <4>1, LeastIndex
      <3>2. m \in 0 .. n /\ m \in Nat /\ ~Kept(after[m])
        BY <2>1
      <3>3. m # 0
        BY <1>2, <2>4, <3>2
      <3>4. m - 1 \in 0 .. n /\ Kept(after[m - 1])
        BY <2>1, <3>1, <3>2, <3>3
      <3> DEFINE b == after[m - 1]
                 c == after[m]
      <3>5. c = SlotSettled(b, Scanned(m), skip)
        BY <2>4, <3>2, <3>3
      <3>6. Scanned(m) \in Providers
        BY <2>1, <3>2, <3>3, ScannedIsProvider
      <3>7. Sound(b) /\ PriceHeld(Books, b) /\ (Covered(Books) => Covered(b))
        BY <3>4 DEF Kept
      <3> HIDE DEF b, c
      <3>8. Sound(c) /\ PriceHeld(b, c) /\ (Covered(b) => Covered(c))
        BY <3>5, <3>6, <3>7, SlotSound
      <3>9. b \in BookRecords /\ c \in BookRecords
        BY <3>7, <3>8 DEF Sound
      <3>10. PriceHeld(Books, c)
        BY <1>1, <3>7, <3>8, <3>9, PriceHeldTransitive
      <3>11. Kept(c)
        BY <3>7, <3>8, <3>10 DEF Kept
      <3>12. QED
        BY <3>2, <3>11 DEF c
    <2>6. Kept(after[n])
      BY <2>1, <2>5
    <2>7. QED
      BY <2>2, <2>6 DEF after
  <1>5. QED
    BY <1>3, <1>4

-----------------------------------------------------------------------------
(* Deposits, transfers, claims of yield and liquidations. *)

\* A new position owed less than a unit, and a payment below the yield of the old one.
LEMMA FreshBacked ==
    ASSUME SharesAssumption, Numbers, NEW b \in BookRecords, NEW l \in Providers,
           NEW new, Entitled(new) \in Nat, Entitled(new) <= AccPrecision,
           NEW gap \in Int, gap <= NotNegative(Owed(b, l)) - 1
    PROVE  AccPrecision * gap <= Entitled(b.position[l]) - Entitled(new)
  <1> DEFINE owed == NotNegative(Owed(b, l))
             old == b.position[l]
  <1>1. /\ AccPrecision \in Nat /\ Owed(b, l) \in Int
        /\ Entitled(old) \in Nat
        /\ AccPrecision * owed \in Nat /\ AccPrecision * owed <= Entitled(old)
    BY SettledYield DEF SharesAssumption
  <1>2. owed \in Int
    BY <1>1 DEF NotNegative
  <1> HIDE DEF owed, old
  <1>3. gap <= owed - 1 /\ owed - 1 \in Int
    BY <1>2 DEF owed
  <1>4. AccPrecision * gap \in Int /\ AccPrecision * gap <= AccPrecision * (owed - 1)
    BY <1>1, <1>3, Scaled
  <1>5. AccPrecision * (owed - 1) = AccPrecision * owed - AccPrecision
    BY <1>1, <1>2, SMT
  <1>6. AccPrecision * gap <= Entitled(old) - Entitled(new)
    BY <1>1, <1>4, <1>5
  <1>7. QED
    BY <1>6 DEF old

\* What a deposit mints is worth no more than it.
LEMMA MintedBounded ==
    ASSUME SharesAssumption, NEW b \in BookRecords, NEW amount \in Nat,
           b.shares > 0 => b.deposited > 0, Minted(b, amount) >= MinShares
    PROVE  /\ Minted(b, amount) \in Nat \ {0}
           /\ b.shares > 0 => /\ b.deposited * Minted(b, amount) \in Nat
                              /\ b.deposited * Minted(b, amount) <= amount * b.shares
  <1>1. MinShares \in Nat \ {0} /\ b.shares \in Nat /\ b.deposited \in Nat
    BY DEF SharesAssumption, BookRecords
  <1>2. CASE b.shares = 0
    <2>1. Minted(b, amount) = amount * SharePrecision - BurnShares
      BY <1>2 DEF Minted
    <2>2. SharePrecision \in Nat /\ BurnShares \in Nat
      BY DEF SharesAssumption
    <2>3. amount * SharePrecision \in Nat
      BY <2>2
    <2>4. QED
      BY <1>1, <1>2, <2>1, <2>2, <2>3
  <1>3. CASE b.shares > 0
    <2>1. Minted(b, amount) = (amount * b.shares) \div b.deposited
      BY <1>3 DEF Minted
    <2>2. amount * b.shares \in Nat /\ b.deposited \in Nat \ {0}
      BY <1>1, <1>3
    <2>3. /\ (amount * b.shares) \div b.deposited \in Nat
          /\ b.deposited * ((amount * b.shares) \div b.deposited) \in Nat
          /\ b.deposited * ((amount * b.shares) \div b.deposited) <= amount * b.shares
      BY <2>2, Floor
    <2>4. QED
      BY <1>1, <2>1, <2>3
  <1>4. QED
    BY <1>1, <1>2, <1>3

\* The shares the first depositor gives up.
Burned(b) == IF b.shares = 0 THEN BurnShares ELSE 0

\* Deposited and a payment, field by field.
HasDeposited(b, c, l, amount, minted, payment) ==
    /\ c \in BookRecords
    /\ c.deposited = b.deposited + amount
    /\ c.shares = b.shares + minted + Burned(b)
    /\ c.position = [b.position EXCEPT ![l] = Fresh(b.position[l].shares + minted,
                                                    b.position[l].deposited + amount)]
    /\ c.exit = b.exit /\ c.queued = b.queued
    /\ c.balance = b.balance + amount - payment /\ c.slack = b.slack + 1 /\ c.seized = b.seized

LEMMA DepositFields ==
    ASSUME SharesAssumption, Numbers, NEW b, Sound(b), NEW l \in Providers,
           NEW amount \in Nat, NEW minted \in Nat \ {0},
           NEW payment \in Int, NEW c, c = Paid(Deposited(b, l, amount, minted), payment)
    PROVE  HasDeposited(b, c, l, amount, minted, payment)
  <1> DEFINE old == b.position[l]
             moved == Reposition(b, l, old.shares + minted, old.deposited + amount)
             more == b.deposited + amount
             total == b.shares + minted + Burned(b)
             money == b.balance + amount
             rest == b.balance + amount - payment
             after == WithTotals(moved, more, total, money)
  <1>1. b \in BookRecords
    BY DEF Sound
  <1>2. old.shares \in Nat /\ old.deposited \in Int
    BY <1>1 DEF BookRecords, Positions
  <1>3. /\ b.shares \in Nat /\ b.deposited \in Nat /\ b.balance \in Int
        /\ Burned(b) \in Nat
    BY <1>1 DEF BookRecords, SharesAssumption, Burned
  <1>4. old.shares + minted \in Nat /\ old.deposited + amount \in Int
    BY <1>2
  <1>5. more \in Nat /\ total \in Nat /\ money \in Int /\ rest \in Int /\ money - payment = rest
    BY <1>3
  <1>6. c = Paid([moved EXCEPT !.deposited = @ + amount, !.shares = @ + minted + Burned(b),
                               !.balance = @ + amount], payment)
    BY DEF Deposited, Burned
  <1> HIDE DEF old
  <1>7. /\ moved \in BookRecords
        /\ moved.deposited = b.deposited /\ moved.shares = b.shares
        /\ moved.position = [b.position EXCEPT ![l] =
                               Fresh(old.shares + minted, old.deposited + amount)]
        /\ moved.exit = b.exit /\ moved.queued = b.queued
        /\ moved.balance = b.balance /\ moved.slack = b.slack + 1 /\ moved.seized = b.seized
    <2>1. IsRepositioned(b, moved, l, old.shares + minted, old.deposited + amount)
      BY <1>1, <1>4, Repositioned
    <2> HIDE DEF moved
    <2>2. QED
      BY <2>1 DEF IsRepositioned
  <1> HIDE DEF moved
  <1>8. c = Paid(after, payment)
    BY <1>6, <1>7 DEF WithTotals
  <1> HIDE DEF more, total, money, rest
  <1>9. /\ after \in BookRecords
        /\ after.deposited = more /\ after.shares = total /\ after.balance = money
        /\ after.position = moved.position /\ after.exit = moved.exit
        /\ after.queued = moved.queued /\ after.slack = moved.slack /\ after.seized = moved.seized
    <2>1. HasTotals(moved, after, more, total, money)
      BY <1>5, <1>7, Updated
    <2> HIDE DEF after
    <2>2. QED
      BY <2>1 DEF HasTotals
  <1> HIDE DEF after
  <1>10. c = [after EXCEPT !.balance = rest]
    BY <1>5, <1>8, <1>9 DEF Paid
  <1>11. /\ c \in BookRecords
         /\ c.deposited = after.deposited /\ c.shares = after.shares
         /\ c.position = after.position
         /\ c.exit = after.exit /\ c.queued = after.queued
         /\ c.balance = rest /\ c.slack = after.slack /\ c.seized = after.seized
    BY <1>5, <1>9, <1>10 DEF BookRecords
  <1>12. QED
    BY <1>1, <1>7, <1>9, <1>11 DEF HasDeposited, old, more, total, rest

LEMMA DepositSound ==
    ASSUME SharesAssumption, Numbers, NEW b, Sound(b), NEW l \in Providers,
           NEW amount \in Nat, b.shares > 0 => b.deposited > 0,
           Minted(b, amount) >= MinShares,
           NEW payment \in Int, payment <= NotNegative(Owed(b, l)),
           NEW c, c = Paid(Deposited(b, l, amount, Minted(b, amount)), payment)
    PROVE  Sound(c) /\ PriceHeld(b, c) /\ (Covered(b) => Covered(c))
  <1> DEFINE minted == Minted(b, amount)
             old == b.position[l]
             new == Fresh(old.shares + minted, old.deposited + amount)
  <1>1. b \in BookRecords
    BY DEF Sound
  <1>2. /\ minted \in Nat \ {0}
        /\ b.shares > 0 => b.deposited * minted \in Nat /\ b.deposited * minted <= amount * b.shares
    BY <1>1, MintedBounded
  <1>3. /\ c \in BookRecords
        /\ c.deposited = b.deposited + amount
        /\ c.shares = b.shares + minted + Burned(b)
        /\ c.position = [b.position EXCEPT ![l] = new]
        /\ c.exit = b.exit /\ c.queued = b.queued
        /\ c.balance = b.balance + amount - payment /\ c.slack = b.slack + 1 /\ c.seized = b.seized
    <2>1. minted \in Nat \ {0}
      BY <1>2
    <2>2. c = Paid(Deposited(b, l, amount, minted), payment)
      OBVIOUS
    <2> HIDE DEF minted
    <2>3. HasDeposited(b, c, l, amount, minted, payment)
      BY <2>1, <2>2, DepositFields
    <2>4. QED
      BY <2>3 DEF HasDeposited
  <1>4. old.shares \in Nat /\ old.deposited \in Int
    BY <1>1 DEF BookRecords, Positions
  <1>5. /\ b.shares \in Nat /\ b.deposited \in Nat /\ b.balance \in Int /\ b.slack \in Nat /\ b.seized \in Nat
        /\ BurnShares \in Nat \ {0}
    BY <1>1 DEF BookRecords, SharesAssumption
  <1>6. old.shares + minted \in Nat /\ old.deposited + amount \in Int
    BY <1>2, <1>4
  <1> HIDE DEF minted, old
  <1>7. /\ new \in Positions /\ new.shares = old.shares + minted
        /\ Entitled(new) \in Nat /\ Entitled(new) <= AccPrecision
    BY <1>6, FreshTyped
  <1> HIDE DEF new
  <1>8. Covered(b) => Covered(c)
    BY <1>3, <1>5 DEF Covered, Numbers
  <1>9. PriceHeld(b, c)
    <2>1. CASE b.shares > 0
      <3>1. /\ (b.deposited + amount) * b.shares = b.deposited * b.shares + amount * b.shares
            /\ b.deposited * (b.shares + minted) = b.deposited * b.shares + b.deposited * minted
        BY <1>2, <1>5, SMT
      <3>2. b.deposited * b.shares \in Nat /\ amount * b.shares \in Nat
        BY <1>5
      <3>3. c.shares = b.shares + minted
        BY <1>2, <1>3, <1>5, <2>1 DEF Burned
      <3>4. c.deposited * b.shares >= b.deposited * c.shares
        BY <1>2, <1>3, <2>1, <3>1, <3>2, <3>3
      <3>5. QED
        BY <1>2, <1>5, <3>3, <3>4 DEF PriceHeld
    <2>2. QED
      BY <2>1 DEF PriceHeld
  <1>10. Free(b) - Free(c) = payment - 1
    BY <1>3, <1>5 DEF Free
  <1>11. NotNegative(Owed(b, l)) \in Int
    BY <1>1, SettledYield DEF NotNegative
  <1>12. payment - 1 \in Int /\ payment - 1 <= NotNegative(Owed(b, l)) - 1
    BY <1>11
  <1>13. AccPrecision * (payment - 1) <= Entitled(old) - Entitled(new)
    BY <1>1, <1>7, <1>12, FreshBacked DEF old
  <1>14. AccPrecision * (Free(b) - Free(c)) <= Entitled(old) - Entitled(new)
    BY <1>10, <1>13
  <1>15. /\ c.shares > 0
         /\ c.shares = b.shares - old.shares + new.shares + (IF b.shares = 0 THEN BurnShares ELSE 0)
    BY <1>2, <1>3, <1>4, <1>5, <1>7 DEF Burned
  <1>16. Sound(c)
    BY <1>3, <1>7, <1>14, <1>15, MoveSound DEF old
  <1>17. QED
    BY <1>8, <1>9, <1>16

\* transfer_position is a loss of shares on one side and a gain on the other.
Transferred(b, from, to, shares, amount) ==
    LET left == Reposition(b, from, b.position[from].shares - shares,
                           b.position[from].deposited - amount)
    IN  Reposition(left, to, b.position[to].shares + shares, b.position[to].deposited + amount)

LEMMA TransferSound ==
    ASSUME SharesAssumption, Numbers, NEW b, Sound(b),
           NEW from \in Providers, NEW to \in Providers, from # to,
           NEW shares \in Nat \ {0}, shares <= b.position[from].shares, NEW amount \in Int,
           NEW c, c = Paid(Transferred(b, from, to, shares, amount),
                           NotNegative(Owed(b, from)) + NotNegative(Owed(b, to)))
    PROVE  Sound(c) /\ PriceHeld(b, c) /\ (Covered(b) => Covered(c))
  <1> DEFINE giver == b.position[from]
             taker == b.position[to]
             y == NotNegative(Owed(b, from))
             z == NotNegative(Owed(b, to))
             less == Fresh(giver.shares - shares, giver.deposited - amount)
             more == Fresh(taker.shares + shares, taker.deposited + amount)
             left == Reposition(b, from, giver.shares - shares, giver.deposited - amount)
             moved == Reposition(left, to, taker.shares + shares, taker.deposited + amount)
             mid == WithTotals(left, b.deposited, b.shares - shares, b.balance - y)
  <1>1. b \in BookRecords
    BY DEF Sound
  <1>2. /\ giver.shares \in Nat /\ giver.deposited \in Int
        /\ taker.shares \in Nat /\ taker.deposited \in Int
    BY <1>1 DEF BookRecords, Positions
  <1>3. /\ b.shares \in Nat /\ b.deposited \in Nat /\ b.balance \in Int /\ b.slack \in Nat /\ b.seized \in Nat
    BY <1>1 DEF BookRecords
  <1>4. giver.shares > 0 /\ b.shares > 0 /\ giver.shares < b.shares
    <2>1. giver.shares > 0
      BY <1>2
    <2>2. QED
      BY <2>1, BurnedExist
  <1>5. y \in Int /\ z \in Int
    BY <1>1, SettledYield DEF NotNegative
  <1>6. c = Paid(moved, y + z)
    BY DEF Transferred
  <1> HIDE DEF y, z, giver, taker
  <1>7. /\ giver.shares - shares \in Nat /\ giver.deposited - amount \in Int
        /\ taker.shares + shares \in Nat /\ taker.deposited + amount \in Int
        /\ b.shares - shares \in Nat /\ b.balance - y \in Int
    BY <1>2, <1>3, <1>4, <1>5 DEF giver
  <1>8. /\ less \in Positions /\ less.shares = giver.shares - shares
        /\ Entitled(less) \in Nat /\ Entitled(less) <= AccPrecision
    BY <1>7, FreshTyped
  <1>9. /\ more \in Positions /\ more.shares = taker.shares + shares
        /\ Entitled(more) \in Nat /\ Entitled(more) <= AccPrecision
    BY <1>7, FreshTyped
  <1>10. /\ left \in BookRecords
         /\ left.deposited = b.deposited /\ left.shares = b.shares
         /\ left.position = [b.position EXCEPT ![from] = less]
         /\ left.exit = b.exit /\ left.queued = b.queued
         /\ left.balance = b.balance /\ left.slack = b.slack + 1 /\ left.seized = b.seized
    <2>1. IsRepositioned(b, left, from, giver.shares - shares, giver.deposited - amount)
      BY <1>1, <1>7, Repositioned
    <2> HIDE DEF left
    <2>2. QED
      BY <2>1 DEF IsRepositioned
  <1> HIDE DEF left
  <1>11. /\ moved \in BookRecords
         /\ moved.deposited = left.deposited /\ moved.shares = left.shares
         /\ moved.position = [left.position EXCEPT ![to] = more]
         /\ moved.exit = left.exit /\ moved.queued = left.queued
         /\ moved.balance = left.balance /\ moved.slack = left.slack + 1 /\ moved.seized = left.seized
    <2>1. IsRepositioned(left, moved, to, taker.shares + shares, taker.deposited + amount)
      BY <1>7, <1>10, Repositioned
    <2> HIDE DEF moved
    <2>2. QED
      BY <2>1 DEF IsRepositioned
  <1> HIDE DEF moved, less, more
  <1>12. /\ c \in BookRecords
         /\ c.deposited = b.deposited /\ c.shares = b.shares
         /\ c.position = [left.position EXCEPT ![to] = more]
         /\ c.exit = b.exit /\ c.queued = b.queued
         /\ c.balance = b.balance - (y + z) /\ c.slack = b.slack + 2 /\ c.seized = b.seized
    <2>1. c = [moved EXCEPT !.balance = b.balance - (y + z)]
      BY <1>6, <1>10, <1>11 DEF Paid
    <2>2. b.balance - (y + z) \in Int /\ moved.slack = b.slack + 2 /\ moved.seized = b.seized
      BY <1>3, <1>5, <1>10, <1>11
    <2>3. /\ c \in BookRecords
          /\ c.deposited = moved.deposited /\ c.shares = moved.shares
          /\ c.position = moved.position /\ c.exit = moved.exit /\ c.queued = moved.queued
          /\ c.balance = b.balance - (y + z) /\ c.slack = moved.slack /\ c.seized = moved.seized
      BY <1>11, <2>1, <2>2 DEF BookRecords
    <2>4. QED
      BY <1>10, <1>11, <2>2, <2>3
  <1>13. HasTotals(left, mid, b.deposited, b.shares - shares, b.balance - y)
    BY <1>3, <1>7, <1>10, Updated
  <1> HIDE DEF mid
  <1>14. /\ mid \in BookRecords
         /\ mid.deposited = b.deposited /\ mid.shares = b.shares - shares
         /\ mid.position = [b.position EXCEPT ![from] = less] /\ mid.position = left.position
         /\ mid.exit = b.exit /\ mid.queued = b.queued
         /\ mid.balance = b.balance - y /\ mid.slack = b.slack + 1 /\ mid.seized = b.seized
    BY <1>10, <1>13 DEF HasTotals
  <1>15. Sound(mid)
    <2>1. Free(b) - Free(mid) = y - 1
      BY <1>3, <1>5, <1>14 DEF Free
    <2>2. y - 1 \in Int /\ y - 1 <= NotNegative(Owed(b, from)) - 1
      BY <1>5 DEF y
    <2>3. AccPrecision * (y - 1) <= Entitled(giver) - Entitled(less)
      BY <1>1, <1>8, <2>2, FreshBacked DEF giver
    <2>4. AccPrecision * (Free(b) - Free(mid)) <= Entitled(giver) - Entitled(less)
      BY <2>1, <2>3
    <2>5. /\ mid.shares > 0
          /\ mid.shares = b.shares - giver.shares + less.shares
                            + (IF b.shares = 0 THEN BurnShares ELSE 0)
      BY <1>2, <1>3, <1>4, <1>8, <1>14 DEF giver
    <2>6. QED
      BY <1>8, <1>14, <2>4, <2>5, MoveSound DEF giver
  <1>16. mid.position[to] = taker
    BY <1>1, <1>14 DEF BookRecords, taker
  <1>17. Sound(c)
    <2>1. Free(mid) - Free(c) = z - 1
      BY <1>3, <1>5, <1>12, <1>14 DEF Free
    <2>2. Owed(mid, to) = Owed(b, to)
      BY <1>16 DEF Owed, taker
    <2>3. z - 1 \in Int /\ z - 1 <= NotNegative(Owed(mid, to)) - 1
      BY <1>5, <2>2 DEF z
    <2>4. AccPrecision * (z - 1) <= Entitled(mid.position[to]) - Entitled(more)
      BY <1>9, <1>14, <2>3, FreshBacked
    <2>5. AccPrecision * (Free(mid) - Free(c)) <= Entitled(mid.position[to]) - Entitled(more)
      BY <2>1, <2>4
    <2>6. /\ c.shares > 0 /\ mid.shares > 0
          /\ c.shares = mid.shares - mid.position[to].shares + more.shares
                            + (IF mid.shares = 0 THEN BurnShares ELSE 0)
      BY <1>2, <1>3, <1>4, <1>9, <1>12, <1>14, <1>16 DEF giver, taker
    <2>7. /\ c.position = [mid.position EXCEPT ![to] = more]
          /\ c.exit = mid.exit /\ c.queued = mid.queued
      BY <1>12, <1>14
    <2>8. QED
      BY <1>9, <1>12, <1>15, <2>5, <2>6, <2>7, MoveSound
  <1>18. QED
    BY <1>1, <1>12, <1>17, PriceSame

\* claim_yield pays exactly what the debt rises by.
YieldClaimed(b, l) ==
    [Paid(b, Owed(b, l)) EXCEPT !.position[l].debt = Accrued(b.position[l].shares)]

LEMMA ClaimYieldSound ==
    ASSUME SharesAssumption, Numbers, NEW b, Sound(b), NEW l \in Providers, Owed(b, l) > 0,
           NEW c, c = YieldClaimed(b, l)
    PROVE  Sound(c) /\ PriceHeld(b, c) /\ (Covered(b) => Covered(c))
  <1> DEFINE old == b.position[l]
             q == Accrued(old.shares)
             new == [old EXCEPT !.debt = q]
             posn == [b.position EXCEPT ![l] = new]
             paid == b.balance - Owed(b, l)
  <1>1. b \in BookRecords
    BY DEF Sound
  <1>2. old \in Positions /\ old.shares \in Nat /\ old.debt \in Nat
    BY <1>1 DEF BookRecords, Positions
  <1>3. /\ b.shares \in Nat /\ b.deposited \in Nat /\ b.balance \in Int /\ b.slack \in Nat /\ b.seized \in Nat
    BY <1>1 DEF BookRecords
  <1>4. Owed(b, l) = q - old.debt
    BY DEF Owed
  <1>5. c = [b EXCEPT !.position = posn, !.balance = paid]
    BY <1>1 DEF Paid, BookRecords, YieldClaimed
  <1>6. q \in Nat
    BY <1>2, AccruedTyped
  <1> HIDE DEF q, old
  <1>7. new \in Positions /\ new.shares = old.shares /\ new.debt = q
    BY <1>2, <1>6 DEF Positions
  <1> HIDE DEF new
  <1>8. posn \in [Providers -> Positions]
    BY <1>1, <1>7 DEF BookRecords
  <1>9. paid \in Int
    BY <1>2, <1>3, <1>4, <1>6
  <1> HIDE DEF posn, paid
  <1>10. /\ c \in BookRecords
         /\ c.deposited = b.deposited /\ c.shares = b.shares /\ c.position = posn
         /\ c.exit = b.exit /\ c.queued = b.queued
         /\ c.balance = paid /\ c.slack = b.slack /\ c.seized = b.seized
    BY <1>1, <1>5, <1>8, <1>9 DEF BookRecords
  <1>11. Free(b) - Free(c) = q - old.debt
    BY <1>2, <1>3, <1>4, <1>6, <1>10 DEF Free, paid
  <1>12. AccPrecision * (q - old.debt) = Entitled(old) - Entitled(new)
    <2> DEFINE gained == perShare * old.shares
    <2>1. AccPrecision \in Nat \ {0} /\ perShare \in Nat
      BY DEF SharesAssumption, Numbers
    <2>2. gained \in Nat
      BY <1>2, <2>1
    <2>3. q = gained \div AccPrecision
      BY DEF q, Accrued
    <2>4. Entitled(old) = NotNegative(gained - AccPrecision * old.debt)
      BY DEF Entitled
    <2>5. Entitled(new) = NotNegative(gained - AccPrecision * q)
      BY <1>7 DEF Entitled
    <2> HIDE DEF gained
    <2>6. AccPrecision * q \in Nat /\ AccPrecision * q <= gained
      BY <2>1, <2>2, <2>3, Floor
    <2>7. AccPrecision * (q - old.debt) = AccPrecision * q - AccPrecision * old.debt
      BY <1>2, <1>6, <2>1, SMT
    <2>8. AccPrecision * old.debt \in Nat
      BY <1>2, <2>1
    <2>9. q - old.debt \in Nat
      BY <1>2, <1>4, <1>6
    <2>10. AccPrecision * (q - old.debt) \in Nat
      BY <2>1, <2>9
    <2>11. /\ Entitled(old) = gained - AccPrecision * old.debt
           /\ Entitled(new) = gained - AccPrecision * q
      BY <2>2, <2>4, <2>5, <2>6, <2>7, <2>8, <2>10 DEF NotNegative
    <2>12. QED
      BY <2>2, <2>6, <2>7, <2>8, <2>11
  <1>13. AccPrecision * (Free(b) - Free(c)) <= Entitled(old) - Entitled(new)
    <2>1. Entitled(old) \in Int /\ Entitled(new) \in Int
      <3>1. Entitled(old) \in Nat
        BY <1>1, SettledYield DEF old
      <3>2. c.position[l] = new
        BY <1>1, <1>10 DEF posn, BookRecords
      <3>3. Entitled(new) \in Nat
        BY <1>10, <3>2, SettledYield
      <3>4. QED
        BY <3>1, <3>3
    <2>2. QED
      BY <1>11, <1>12, <2>1
  <1>14. b.shares > 0
    <2>1. old.shares > 0
      <3>1. CASE old.shares = 0
        <4>1. perShare * 0 = 0 /\ AccPrecision \in Nat \ {0} /\ 0 \div AccPrecision = 0
          BY DEF Numbers, SharesAssumption
        <4>2. q = 0
          BY <3>1, <4>1 DEF q, Accrued
        <4>3. QED
          BY <1>2, <1>4, <4>2
      <3>2. QED
        BY <1>2, <3>1
    <2>2. QED
      BY <2>1, BurnedExist DEF old
  <1>15. /\ c.shares > 0
         /\ c.shares = b.shares - old.shares + new.shares + (IF b.shares = 0 THEN BurnShares ELSE 0)
    BY <1>2, <1>3, <1>7, <1>10, <1>14
  <1>16. c.position = [b.position EXCEPT ![l] = new]
    BY <1>10 DEF posn
  <1>17. Sound(c)
    BY <1>7, <1>10, <1>13, <1>15, <1>16, MoveSound DEF old
  <1>18. c.shares = b.shares /\ c.deposited = b.deposited /\ c.seized = b.seized
    BY <1>10
  <1>19. PriceHeld(b, c) /\ (Covered(b) => Covered(c))
    BY <1>1, <1>18, PriceSame
  <1>20. QED
    BY <1>17, <1>19

\* request_exit reserves more of a provider's shares.
ExitRequested(b, l, shares, due) ==
    [b EXCEPT !.exit[l] = [shares |-> b.exit[l].shares + shares, due |-> due],
              !.queued = @ + shares]

LEMMA RequestExitSound ==
    ASSUME SharesAssumption, Numbers, NEW b, Sound(b), NEW l \in Providers,
           NEW shares \in Nat \ {0}, NEW due \in Nat,
           NEW c, c = ExitRequested(b, l, shares, due)
    PROVE  Sound(c) /\ PriceHeld(b, c) /\ (Covered(b) => Covered(c))
  <1> DEFINE req == [shares |-> b.exit[l].shares + shares, due |-> due]
             exits == [b.exit EXCEPT ![l] = req]
             total == b.queued + shares
  <1>1. b \in BookRecords
    BY DEF Sound
  <1>2. b.exit[l].shares \in Nat /\ b.queued \in Nat
    BY <1>1 DEF BookRecords, Exits
  <1>3. c = [b EXCEPT !.exit = exits, !.queued = total]
    BY <1>1 DEF ExitRequested, BookRecords
  <1>4. /\ req \in Exits /\ req.shares > 0 /\ req.shares = b.exit[l].shares + shares
        /\ total \in Nat
    BY <1>2 DEF Exits
  <1> HIDE DEF req
  <1>5. exits \in [Providers -> Exits]
    BY <1>1, <1>4 DEF BookRecords
  <1> HIDE DEF exits, total
  <1>6. /\ c \in BookRecords
        /\ c.exit = exits /\ c.queued = total
        /\ c.position = b.position /\ c.shares = b.shares /\ c.deposited = b.deposited
        /\ c.balance = b.balance /\ c.slack = b.slack /\ c.seized = b.seized
    BY <1>1, <1>3, <1>4, <1>5 DEF BookRecords
  <1>7. c.exit = [b.exit EXCEPT ![l] = req]
    BY <1>6 DEF exits
  <1>8. c.queued = b.queued - b.exit[l].shares + req.shares
    BY <1>2, <1>4, <1>6 DEF total
  <1>9. QED
    BY <1>4, <1>6, <1>7, <1>8, ExitMoves

\* liquidate_position seizes shares with no more than their worth and leaves the debt.
Seized(b, l, taken) ==
    LET pos == b.position[l]
        worth == Worth(b, taken)
    IN  [b EXCEPT !.position[l] = IF taken = pos.shares THEN NoPosition
                                  ELSE [pos EXCEPT !.shares = @ - taken,
                                                   !.deposited = @ - worth],
                  !.shares = @ - taken,
                  !.deposited = @ - worth,
                  !.seized = @ + worth]

LEMMA LiquidateSound ==
    ASSUME SharesAssumption, Numbers, NEW b, Sound(b), NEW l \in Providers,
           NEW taken \in Nat \ {0}, taken <= b.position[l].shares,
           NEW c, c = Seized(b, l, taken)
    PROVE  Sound(c) /\ PriceHeld(b, c) /\ (Covered(b) => Covered(c))
  <1> DEFINE old == b.position[l]
             w == Worth(b, taken)
             new == IF taken = old.shares THEN NoPosition
                    ELSE [old EXCEPT !.shares = @ - taken, !.deposited = @ - w]
             posn == [b.position EXCEPT ![l] = new]
             total == b.shares - taken
             less == b.deposited - w
             gone == b.seized + w
  <1>1. b \in BookRecords
    BY DEF Sound
  <1>2. /\ old \in Positions
        /\ old.shares \in Nat /\ old.debt \in Nat /\ old.deposited \in Int
    BY <1>1 DEF BookRecords, Positions
  <1>3. b.shares \in Nat /\ b.deposited \in Nat /\ b.balance \in Int /\ b.slack \in Nat /\ b.seized \in Nat
    BY <1>1 DEF BookRecords
  <1>4. b.shares > 0 /\ old.shares < b.shares
    <2>1. old.shares > 0
      BY <1>2
    <2>2. QED
      BY <2>1, BurnedExist
  <1>5. w \in 0 .. b.deposited /\ b.shares * w \in Nat /\ b.shares * w <= taken * b.deposited
    <2>1. taken <= b.shares
      BY <1>2, <1>3, <1>4
    <2>2. QED
      BY <1>1, <1>4, <2>1, WorthBounded
  <1>6. c = [b EXCEPT !.position = posn, !.shares = total, !.deposited = less, !.seized = gone]
    BY <1>1 DEF Seized, BookRecords
  <1> HIDE DEF w, old
  <1>7. w \in Int
    BY <1>5
  <1>8. /\ new \in Positions /\ new.shares = old.shares - taken
        /\ new.debt <= old.debt /\ (new.shares > 0 => new.debt = old.debt)
    <2>1. CASE taken = old.shares
      <3>1. new = NoPosition
        BY <2>1
      <3>2. QED
        BY <1>2, <2>1, <3>1 DEF Positions, NoPosition
    <2>2. CASE taken # old.shares
      <3>1. new = [old EXCEPT !.shares = @ - taken, !.deposited = @ - w]
        BY <2>2
      <3> DEFINE kept == old.shares - taken
                 value == old.deposited - w
      <3>2. kept \in Nat /\ value \in Int
        BY <1>2, <1>7 DEF old
      <3>3. new = [old EXCEPT !.shares = kept, !.deposited = value]
        BY <1>2, <3>1 DEF Positions
      <3> HIDE DEF new, kept, value
      <3>4. new \in Positions /\ new.shares = kept /\ new.debt = old.debt
        BY <1>2, <3>2, <3>3 DEF Positions
      <3>5. QED
        BY <1>2, <3>4 DEF kept
    <2>3. QED
      BY <2>1, <2>2
  <1> HIDE DEF new
  <1>9. posn \in [Providers -> Positions]
    BY <1>1, <1>8 DEF BookRecords
  <1>10. total \in Nat /\ less \in Nat /\ gone \in Nat /\ total > 0
    BY <1>2, <1>3, <1>4, <1>5 DEF old
  <1> HIDE DEF posn, total, less, gone
  <1>11. /\ c \in BookRecords
         /\ c.deposited = less /\ c.shares = total /\ c.position = posn
         /\ c.exit = b.exit /\ c.queued = b.queued
         /\ c.balance = b.balance /\ c.slack = b.slack /\ c.seized = gone
    BY <1>1, <1>6, <1>9, <1>10 DEF BookRecords
  <1>12. PriceHeld(b, c)
    <2>1. taken < b.shares /\ c.deposited = b.deposited - w /\ c.shares = b.shares - taken
      BY <1>2, <1>3, <1>4, <1>11 DEF total, less, old
    <2>2. QED
      BY <1>1, <1>5, <1>7, <2>1, PriceOfTheRest
  <1>13. Entitled(new) \in Nat /\ Entitled(old) \in Nat
    <2>1. c.position[l] = new
      BY <1>1, <1>11 DEF posn, BookRecords
    <2>2. Entitled(new) \in Nat
      BY <1>11, <2>1, SettledYield
    <2>3. QED
      BY <1>1, <2>2, SettledYield DEF old
  <1>14. Entitled(new) <= Entitled(old)
    <2>1. new.shares \in Nat /\ new.debt \in Nat /\ perShare \in Nat /\ AccPrecision \in Nat
      BY <1>8 DEF Positions, Numbers, SharesAssumption
    <2>2. CASE new.shares = 0
      <3>1. perShare * 0 = 0 /\ AccPrecision * new.debt \in Nat
        BY <2>1
      <3>2. Entitled(new) = 0
        BY <2>2, <3>1 DEF Entitled, NotNegative
      <3>3. QED
        BY <1>13, <3>2
    <2>3. CASE new.shares > 0
      <3>1. new.debt = old.debt
        BY <1>8, <2>3
      <3>2. perShare * new.shares <= perShare * old.shares
        BY <1>2, <1>8, <2>1, Scaled
      <3>3. /\ perShare * new.shares \in Nat /\ perShare * old.shares \in Nat
            /\ AccPrecision * old.debt \in Nat
        BY <1>2, <2>1
      <3>4. QED
        BY <3>1, <3>2, <3>3 DEF Entitled, NotNegative
    <2>4. QED
      BY <2>1, <2>2, <2>3
  <1>15. AccPrecision * (Free(b) - Free(c)) <= Entitled(old) - Entitled(new)
    <2>1. Free(b) - Free(c) = 0
      BY <1>3, <1>7, <1>11 DEF Free, less, gone
    <2>2. AccPrecision * 0 = 0
      BY DEF SharesAssumption
    <2>3. QED
      BY <1>13, <1>14, <2>1, <2>2
  <1>16. /\ c.shares > 0
         /\ c.shares = b.shares - old.shares + new.shares + (IF b.shares = 0 THEN BurnShares ELSE 0)
    BY <1>2, <1>3, <1>4, <1>8, <1>10, <1>11 DEF total
  <1>17. c.position = [b.position EXCEPT ![l] = new]
    BY <1>11 DEF posn
  <1>18. Sound(c)
    BY <1>8, <1>11, <1>15, <1>16, <1>17, MoveSound DEF old
  <1>19. Covered(b) => Covered(c)
    <2>1. c.deposited + c.seized = b.deposited + b.seized
      BY <1>3, <1>7, <1>11 DEF less, gone
    <2>2. QED
      BY <2>1 DEF Covered
  <1>20. QED
    BY <1>12, <1>18, <1>19

-----------------------------------------------------------------------------
(* The inductive invariant, and the steps that rewrite the books. *)

SettingsTyped ==
    /\ maxDeposited \in Nat /\ exitDelay \in Nat
    /\ split \in SplitRecords
    /\ terms \in [active: BOOLEAN, attachment: Nat, limit: Nat]
    /\ recovered \in Nat

PoolInv ==
    /\ LockTypeOK
    /\ LockedTotalExact
    /\ Sound(Books)
    /\ Covered(Books)
    /\ QueueTyped
    /\ SettingsTyped
    /\ perShare \in Nat
    /\ clock \in Nat

\* What a step may not do to the worth of a share.
PriceStep == totalShares > 0 => totalDeposited' * totalShares >= totalDeposited * totalShares'

LEMMA NumbersHold ==
    ASSUME LockAssumption, PoolInv
    PROVE  Numbers
  <1>1. LockTypeOK /\ LockedTotalExact /\ perShare \in Nat /\ clock \in Nat
    BY DEF PoolInv
  <1>2. IsFiniteSet(HeldIds)
    BY <1>1, LockedAmountNat, FS_Subset DEF LockAssumption
  <1>3. \A i \in HeldIds : LockedAmount[i] \in Nat
    BY <1>1, LockedAmountNat
  <1>4. SumFunctionOnSet(LockedAmount, HeldIds) \in Nat
    BY <1>2, <1>3, SumNat
  <1>5. totalLocked \in Nat
    BY <1>1, <1>4 DEF LockedTotalExact, LockedAmount
  <1>6. QED
    BY <1>1, <1>5 DEF Numbers

LEMMA BooksFields ==
    /\ Books.deposited = totalDeposited /\ Books.shares = totalShares
    /\ Books.position = position /\ Books.exit = exit /\ Books.queued = queued
    /\ Books.balance = balance /\ Books.slack = slack /\ Books.seized = seized
  BY DEF Books

\* The books after a step are the books it became.
LEMMA BecomeBooks ==
    ASSUME NEW c \in BookRecords, Become(c)
    PROVE  Books' = c
  <1>1. c = [deposited |-> c.deposited, shares |-> c.shares, position |-> c.position,
             exit |-> c.exit, queued |-> c.queued, balance |-> c.balance, slack |-> c.slack,
             seized |-> c.seized]
    BY DEF BookRecords
  <1>2. QED
    BY <1>1 DEF Become, Books

\* A step that settles, in one transaction, whatever it settles.
LEMMA BookStep ==
    ASSUME SharesAssumption, LockAssumption, PoolInv, NEW c, Become(c),
           Sound(c), PriceHeld(Books, c),
           UNCHANGED <<lock, totalLocked, maxUtilization, poolStatus, perShare, settingVars,
                       recovered, clock>>,
           QueueTyped', Covered(Books)'
    PROVE  PoolInv' /\ PriceStep
  <1>1. c \in BookRecords
    BY DEF Sound
  <1>2. Books' = c
    BY <1>1, BecomeBooks
  <1>3. totalDeposited' = c.deposited /\ totalShares' = c.shares
    BY DEF Become
  <1>4. LockTypeOK'
    <2>1. totalDeposited' \in Nat
      BY <1>1, <1>3 DEF BookRecords
    <2>2. QED
      BY <2>1 DEF PoolInv, LockTypeOK
  <1>5. LockedTotalExact'
    BY DEF PoolInv, LockedTotalExact, HeldIds
  <1>6. Sound(Books)'
    <2>1. SharesAdd(Books)' /\ ExitsAdd(Books)'
      BY <1>2 DEF Sound, SharesAdd, SharesHeld, ExitsAdd, Reserved
    <2>2. YieldBacked(Books)'
      BY <1>2 DEF Sound, YieldBacked, Entitlements, Entitled, Free
    <2>3. Books' \in BookRecords
      BY <1>1, <1>2
    <2>4. QED
      BY <2>1, <2>2, <2>3 DEF Sound
  <1>7. SettingsTyped' /\ perShare' \in Nat /\ clock' \in Nat
    BY DEF PoolInv, SettingsTyped, settingVars
  <1>8. PriceStep
    BY <1>3, BooksFields DEF PriceStep, PriceHeld
  <1>9. QED
    BY <1>4, <1>5, <1>6, <1>7, <1>8 DEF PoolInv

\* The same, for a step of LedgerStep.
LEMMA LedgerBookStep ==
    ASSUME SharesAssumption, LockAssumption, PoolInv, NEW c, Become(c), LedgerStep,
           Sound(c), PriceHeld(Books, c), Covered(Books) => Covered(c),
           QueueTyped'
    PROVE  PoolInv' /\ PriceStep
  <1>1. UNCHANGED <<lock, totalLocked, maxUtilization, poolStatus, perShare, settingVars,
                    recovered, clock>>
    BY DEF LedgerStep
  <1>2. Covered(c)
    BY DEF PoolInv
  <1>3. Books' = c
    <2>1. c \in BookRecords
      BY DEF Sound
    <2>2. QED
      BY <2>1, BecomeBooks
  <1>4. Covered(Books)'
    BY <1>1, <1>2, <1>3 DEF Covered
  <1>5. QED
    BY <1>1, <1>4, BookStep

LEMMA CursorMoves ==
    ASSUME QueueTyped, NEW max \in Nat, MoveCursor(max)
    PROVE  cursor' \in Nat
  <1>1. CASE SweepIdle
    BY <1>1 DEF MoveCursor, QueueTyped
  <1>2. CASE ~SweepIdle
    <2>1. slots # <<>> /\ cursor' = (cursor + ScanLength(max)) % Len(slots)
      BY <1>2 DEF MoveCursor, SweepIdle
    <2>2. Len(slots) \in Nat \ {0} /\ ScanLength(max) \in Nat /\ cursor \in Nat
      BY <2>1 DEF QueueTyped, ScanLength, Lower
    <2>3. QED
      BY <2>1, <2>2
  <1>3. QED
    BY <1>1, <1>2

LEMMA SlotsMove ==
    ASSUME QueueTyped, NEW l \in Providers, NEW b, Enlist(b, l)
    PROVE  slots' \in Seq(Providers)
  BY DEF Enlist, QueueTyped

\* What a sweep leaves at the start of an operation.
LEMMA SweepStep ==
    ASSUME SharesAssumption, LockAssumption, PoolInv, NEW skip, NEW max \in Nat
    PROVE  /\ Sound(Swept(skip, max))
           /\ PriceHeld(Books, Swept(skip, max))
           /\ Covered(Books) => Covered(Swept(skip, max))
  <1>1. Numbers
    BY NumbersHold
  <1>2. Kept(Swept(skip, max))
    BY <1>1, SweptSound DEF PoolInv
  <1>3. QED
    BY <1>2 DEF Kept

\* An operation on the books a sweep left.
LEMMA AfterSweep ==
    ASSUME SharesAssumption, LockAssumption, PoolInv, NEW skip, NEW max \in Nat,
           NEW b, b = Swept(skip, max), NEW c, Become(c), Sound(c),
           PriceHeld(b, c), Covered(b) => Covered(c),
           LedgerStep, MoveCursor(max), slots' \in Seq(Providers)
    PROVE  PoolInv' /\ PriceStep
  <1>1. Sound(b) /\ PriceHeld(Books, b) /\ (Covered(Books) => Covered(b))
    BY SweepStep
  <1>2. Books \in BookRecords /\ b \in BookRecords /\ c \in BookRecords
    BY <1>1 DEF PoolInv, Sound
  <1>3. PriceHeld(Books, c)
    BY <1>1, <1>2, PriceHeldTransitive
  <1>4. QueueTyped'
    BY CursorMoves DEF PoolInv, QueueTyped
  <1>5. QED
    BY <1>1, <1>3, <1>4, LedgerBookStep

LEMMA DepositStep ==
    ASSUME SharesAssumption, LockAssumption, PoolInv,
           NEW l \in Providers, NEW amount \in DepositAmounts, NEW compound \in BOOLEAN,
           Deposit(l, amount, compound)
    PROVE  PoolInv' /\ PriceStep
  <1> DEFINE b == Swept({l}, MaxScan)
             payment == IF compound THEN 0 ELSE NotNegative(Owed(b, l))
             c == Paid(Deposited(b, l, amount, Minted(b, amount)), payment)
  <1>1. /\ b.shares > 0 => b.deposited > 0
        /\ Minted(b, amount) >= MinShares
        /\ Become(c)
        /\ Enlist(b, l) /\ MoveCursor(MaxScan) /\ LedgerStep
    BY DEF Deposit
  <1>2. amount \in Nat /\ MaxScan \in Nat /\ Numbers
    BY NumbersHold DEF SharesAssumption
  <1>3. Sound(b)
    BY <1>2, SweepStep
  <1>4. payment \in Int /\ payment <= NotNegative(Owed(b, l))
    <2>1. Owed(b, l) \in Int
      BY <1>2, <1>3, SettledYield DEF Sound
    <2>2. QED
      BY <2>1 DEF NotNegative
  <1> HIDE DEF b, payment
  <1>5. Sound(c) /\ PriceHeld(b, c) /\ (Covered(b) => Covered(c))
    <2>1. c = Paid(Deposited(b, l, amount, Minted(b, amount)), payment)
      OBVIOUS
    <2> HIDE DEF c
    <2>2. QED
      BY <1>1, <1>2, <1>3, <1>4, <2>1, DepositSound
  <1> HIDE DEF c
  <1>6. slots' \in Seq(Providers)
    BY <1>1, SlotsMove DEF PoolInv
  <1>7. b = Swept({l}, MaxScan)
    BY DEF b
  <1>8. QED
    BY <1>1, <1>2, <1>5, <1>6, <1>7, AfterSweep

LEMMA WithdrawStep ==
    ASSUME SharesAssumption, LockAssumption, PoolInv,
           NEW l \in Providers, NEW shares \in ShareAmounts, Withdraw(l, shares)
    PROVE  PoolInv' /\ PriceStep
  <1> DEFINE b == Swept({l}, MaxScan)
             c == Withdrawn(b, l, shares)
  <1>1. /\ Withdrawable(b, l, shares) /\ Become(c)
        /\ MoveCursor(MaxScan) /\ LedgerStep /\ slots' = slots
    BY DEF Withdraw
  <1>2. shares \in Nat \ {0} /\ MaxScan \in Nat /\ Numbers
    BY NumbersHold DEF SharesAssumption
  <1>3. Sound(b) /\ b = Swept({l}, MaxScan) /\ c = Withdrawn(b, l, shares)
    BY <1>2, SweepStep
  <1> HIDE DEF b, c
  <1>4. Sound(c) /\ PriceHeld(b, c) /\ (Covered(b) => Covered(c))
    BY <1>1, <1>2, <1>3, WithdrawnSound
  <1>5. slots' \in Seq(Providers)
    BY <1>1 DEF PoolInv, QueueTyped
  <1>6. QED
    BY <1>1, <1>2, <1>3, <1>4, <1>5, AfterSweep

LEMMA EmergencyWithdrawStep ==
    ASSUME SharesAssumption, LockAssumption, PoolInv,
           NEW l \in Providers, NEW shares \in ShareAmounts, EmergencyWithdraw(l, shares)
    PROVE  PoolInv' /\ PriceStep
  <1> DEFINE payment == Worth(Books, shares) + Owed(Books, l)
             c == Paid(Redeemed(Books, l, shares), payment)
  <1>1. /\ Withdrawable(Books, l, shares) /\ Become(c)
        /\ LedgerStep /\ UNCHANGED queueVars
    BY DEF EmergencyWithdraw
  <1>2. shares \in Nat \ {0} /\ Numbers /\ Sound(Books)
    BY NumbersHold DEF SharesAssumption, PoolInv
  <1>3. Owed(Books, l) \in Int
    BY <1>2, SettledYield DEF Sound
  <1>4. Worth(Books, shares) \in Int
    BY <1>1 DEF Withdrawable
  <1>5. /\ payment \in Int
        /\ payment <= Worth(Books, shares) + NotNegative(Owed(Books, l))
    BY <1>3, <1>4 DEF NotNegative
  <1>6. c = Paid(Redeemed(Books, l, shares), payment)
    OBVIOUS
  <1> HIDE DEF payment, c
  <1>7. Sound(c) /\ (Covered(Books) => Covered(c)) /\ PriceHeld(Books, c)
    BY <1>1, <1>2, <1>5, <1>6, RedeemSound
  <1>8. QueueTyped'
    BY <1>1 DEF PoolInv, QueueTyped, queueVars
  <1>9. QED
    BY <1>1, <1>7, <1>8, LedgerBookStep

LEMMA TransferStep ==
    ASSUME SharesAssumption, LockAssumption, PoolInv,
           NEW from \in Providers, NEW to \in Providers, NEW shares \in ShareAmounts,
           TransferPosition(from, to, shares)
    PROVE  PoolInv' /\ PriceStep
  <1> DEFINE sender == position[from]
             amount == Quotient(shares * sender.deposited, sender.shares)
             paid == NotNegative(Owed(Books, from)) + NotNegative(Owed(Books, to))
             c == Paid(Transferred(Books, from, to, shares, amount), paid)
  <1>1. /\ from # to /\ shares <= sender.shares
        /\ Become(c)
        /\ Enlist(Books, to) /\ LedgerStep /\ cursor' = cursor
    BY BooksFields DEF TransferPosition, Transferred
  <1>2. shares \in Nat \ {0} /\ Numbers /\ Sound(Books) /\ Books \in BookRecords
    BY NumbersHold DEF SharesAssumption, PoolInv, Sound
  <1>3. sender.shares \in Nat /\ sender.deposited \in Int
    BY <1>2, BooksFields DEF BookRecords, Positions
  <1> HIDE DEF sender
  <1>4. amount \in Int
    <2> DEFINE a == shares * sender.deposited
    <2>1. a \in Int /\ sender.shares \in Nat \ {0}
      BY <1>1, <1>2, <1>3
    <2>2. \A x \in Int, n \in Nat \ {0} : x \div n \in Int
      BY SMT
    <2> HIDE DEF a
    <2>3. -a \in Int
      BY <2>1
    <2>4. a \div sender.shares \in Int /\ (-a) \div sender.shares \in Int
      BY <2>1, <2>2, <2>3
    <2>5. QED
      BY <2>1, <2>4 DEF Quotient, a
  <1>5. shares <= Books.position[from].shares
    BY <1>1, BooksFields DEF sender
  <1>6. c = Paid(Transferred(Books, from, to, shares, amount),
                 NotNegative(Owed(Books, from)) + NotNegative(Owed(Books, to)))
    OBVIOUS
  <1> HIDE DEF amount, paid, c
  <1>7. Sound(c) /\ PriceHeld(Books, c) /\ (Covered(Books) => Covered(c))
    BY <1>1, <1>2, <1>4, <1>5, <1>6, TransferSound
  <1>8. QueueTyped'
    BY <1>1, SlotsMove DEF PoolInv, QueueTyped
  <1>9. QED
    BY <1>1, <1>7, <1>8, LedgerBookStep

LEMMA ClaimYieldStep ==
    ASSUME SharesAssumption, LockAssumption, PoolInv, NEW l \in Providers, ClaimYield(l)
    PROVE  PoolInv' /\ PriceStep
  <1> DEFINE c == YieldClaimed(Books, l)
  <1>1. /\ Owed(Books, l) > 0 /\ Become(c)
        /\ LedgerStep /\ UNCHANGED queueVars
    BY BooksFields DEF ClaimYield, YieldClaimed
  <1>2. Numbers /\ Sound(Books) /\ c = YieldClaimed(Books, l)
    BY NumbersHold DEF PoolInv
  <1> HIDE DEF c
  <1>3. Sound(c) /\ PriceHeld(Books, c) /\ (Covered(Books) => Covered(c))
    BY <1>1, <1>2, ClaimYieldSound
  <1>4. QueueTyped'
    BY <1>1 DEF PoolInv, QueueTyped, queueVars
  <1>5. QED
    BY <1>1, <1>3, <1>4, LedgerBookStep

LEMMA RequestExitStep ==
    ASSUME SharesAssumption, LockAssumption, PoolInv,
           NEW l \in Providers, NEW shares \in ShareAmounts, RequestExit(l, shares)
    PROVE  PoolInv' /\ PriceStep
  <1> DEFINE b == Swept({l}, MaxScan)
             due == IF b.exit[l] = NoExit THEN clock + exitDelay ELSE b.exit[l].due
             c == ExitRequested(b, l, shares, due)
  <1>1. /\ Become(c) /\ MoveCursor(MaxScan) /\ LedgerStep
        /\ slots' = slots
    BY DEF RequestExit, ExitRequested
  <1>2. shares \in Nat \ {0} /\ MaxScan \in Nat /\ Numbers
    BY NumbersHold DEF SharesAssumption
  <1>3. Sound(b) /\ b = Swept({l}, MaxScan) /\ c = ExitRequested(b, l, shares, due)
    BY <1>2, SweepStep
  <1> HIDE DEF b
  <1>4. due \in Nat
    <2>1. b.exit[l].due \in Nat
      BY <1>3 DEF Sound, BookRecords, Exits
    <2>2. clock + exitDelay \in Nat
      BY DEF PoolInv, SettingsTyped
    <2>3. QED
      BY <2>1, <2>2
  <1> HIDE DEF due, c
  <1>5. Sound(c) /\ PriceHeld(b, c) /\ (Covered(b) => Covered(c))
    BY <1>2, <1>3, <1>4, RequestExitSound
  <1>6. slots' \in Seq(Providers)
    BY <1>1 DEF PoolInv, QueueTyped
  <1>7. QED
    BY <1>1, <1>2, <1>3, <1>5, <1>6, AfterSweep

LEMMA ClaimExitStep ==
    ASSUME SharesAssumption, LockAssumption, PoolInv, NEW l \in Providers, ClaimExit(l)
    PROVE  PoolInv' /\ PriceStep
  <1> DEFINE b == Unreserved(Books, l)
             shares == exit[l].shares
             c == Withdrawn(b, l, shares)
  <1>1. /\ exit[l] # NoExit /\ Withdrawable(b, l, shares) /\ Become(c)
        /\ LedgerStep /\ UNCHANGED queueVars
    BY DEF ClaimExit
  <1>2. Numbers /\ Sound(Books) /\ b = Unreserved(Books, l) /\ c = Withdrawn(b, l, shares)
    BY NumbersHold DEF PoolInv
  <1>3. shares \in Nat \ {0}
    <2>1. exit[l].shares \in Nat /\ exit[l].shares > 0
      BY <1>1, <1>2, BooksFields DEF Sound, ExitsAdd, BookRecords, Exits
    <2>2. QED
      BY <2>1
  <1> HIDE DEF b, c, shares
  <1>4. /\ Sound(b) /\ PriceHeld(Books, b) /\ (Covered(Books) => Covered(b))
        /\ Books \in BookRecords /\ b \in BookRecords
    BY <1>2, UnreservedSound
  <1>5. Sound(c) /\ PriceHeld(b, c) /\ (Covered(b) => Covered(c))
    BY <1>1, <1>2, <1>3, <1>4, WithdrawnSound
  <1>6. PriceHeld(Books, c)
    <2>1. c \in BookRecords
      BY <1>5 DEF Sound
    <2>2. QED
      BY <1>4, <1>5, <2>1, PriceHeldTransitive
  <1>7. QueueTyped'
    BY <1>1 DEF PoolInv, QueueTyped, queueVars
  <1>8. QED
    BY <1>1, <1>4, <1>5, <1>6, <1>7, LedgerBookStep

LEMMA CancelExitStep ==
    ASSUME SharesAssumption, LockAssumption, PoolInv, NEW l \in Providers, CancelExit(l)
    PROVE  PoolInv' /\ PriceStep
  <1> DEFINE c == Unreserved(Books, l)
  <1>1. Become(c) /\ LedgerStep /\ UNCHANGED queueVars
    BY DEF CancelExit
  <1>2. Numbers /\ Sound(Books) /\ c = Unreserved(Books, l)
    BY NumbersHold DEF PoolInv
  <1> HIDE DEF c
  <1>3. Sound(c) /\ PriceHeld(Books, c) /\ (Covered(Books) => Covered(c))
    BY <1>2, UnreservedSound
  <1>4. QueueTyped'
    BY <1>1 DEF PoolInv, QueueTyped, queueVars
  <1>5. QED
    BY <1>1, <1>3, <1>4, LedgerBookStep

LEMMA ProcessExpiredExitsStep ==
    ASSUME SharesAssumption, LockAssumption, PoolInv,
           NEW max \in 1 .. MaxScan, ProcessExpiredExits(max)
    PROVE  PoolInv' /\ PriceStep
  <1> DEFINE c == Swept({}, max)
  <1>1. /\ Become(c) /\ MoveCursor(max) /\ LedgerStep
        /\ slots' = slots
    BY DEF ProcessExpiredExits
  <1>2. max \in Nat
    BY DEF SharesAssumption
  <1>3. Sound(c) /\ PriceHeld(Books, c) /\ (Covered(Books) => Covered(c))
    BY <1>2, SweepStep
  <1> HIDE DEF c
  <1>4. QueueTyped'
    BY <1>1, <1>2, CursorMoves DEF PoolInv, QueueTyped
  <1>5. QED
    BY <1>1, <1>3, <1>4, LedgerBookStep

LEMMA LiquidatePositionStep ==
    ASSUME SharesAssumption, LockAssumption, PoolInv, NEW l \in Providers, LiquidatePosition(l)
    PROVE  PoolInv' /\ PriceStep
  <1> DEFINE pos == position[l]
             part == FullBps - Ratio(l)
             taken == (pos.shares * part) \div FullBps
             c == Seized(Books, l, taken)
  <1>1. /\ pos.shares > 0 /\ Ratio(l) \in 0 .. FullBps - 1 /\ taken > 0
        /\ LedgerStep /\ UNCHANGED queueVars
    BY DEF LiquidatePosition
  <1>2. Become(c)
    BY BooksFields DEF LiquidatePosition, Seized
  <1>3. Numbers /\ Sound(Books) /\ c = Seized(Books, l, taken) /\ pos = Books.position[l]
    BY NumbersHold, BooksFields DEF PoolInv
  <1>4. pos.shares \in Nat
    BY <1>3 DEF Sound, BookRecords, Positions
  <1>5. part \in Nat /\ part <= FullBps /\ FullBps \in Nat \ {0}
    BY <1>1 DEF LockAssumption
  <1> HIDE DEF part, pos
  <1>6. taken \in 0 .. pos.shares
    BY <1>4, <1>5, DivShare
  <1> HIDE DEF taken, c
  <1>7. taken \in Nat \ {0} /\ taken <= Books.position[l].shares
    BY <1>1, <1>3, <1>4, <1>6
  <1>8. Sound(c) /\ PriceHeld(Books, c) /\ (Covered(Books) => Covered(c))
    BY <1>3, <1>7, LiquidateSound
  <1>9. QueueTyped'
    BY <1>1 DEF PoolInv, QueueTyped, queueVars
  <1>10. QED
    BY <1>1, <1>2, <1>8, <1>9, LedgerBookStep

-----------------------------------------------------------------------------
(* The steps that move money and no share. *)

\* What a step of MoneyStep leaves to be shown.
LEMMA MoneyBooks ==
    ASSUME SharesAssumption, LockAssumption, PoolInv,
           NEW deposited \in Nat, NEW money \in Int, NEW excess \in Nat,
           MoneyStep(deposited, money, excess),
           perShare' \in Nat, recovered' \in Nat,
           YieldBacked(Books)', totalLocked <= deposited + seized
    PROVE  PoolInv'
  <1>1. /\ totalDeposited' = deposited /\ balance' = money /\ slack' = slack + excess
        /\ UNCHANGED <<totalShares, position, exit, queued, seized>> /\ UNCHANGED queueVars
       
        /\ UNCHANGED <<lock, totalLocked, maxUtilization, poolStatus>>
        /\ UNCHANGED settingVars /\ clock' = clock
    BY DEF MoneyStep
  <1>2. /\ Books \in BookRecords /\ SharesAdd(Books) /\ ExitsAdd(Books)
    BY DEF PoolInv, Sound
  <1>3. Books' \in BookRecords
    <2>1. slack + excess \in Nat /\ seized \in Nat /\ queued \in Nat /\ totalShares \in Nat
          /\ position \in [Providers -> Positions] /\ exit \in [Providers -> Exits]
      BY <1>2, BooksFields DEF BookRecords
    <2>2. Books' = [deposited |-> deposited, shares |-> totalShares, position |-> position,
                    exit |-> exit, queued |-> queued, balance |-> money,
                    slack |-> slack + excess, seized |-> seized]
      BY <1>1 DEF Books
    <2>3. QED
      BY <2>1, <2>2 DEF BookRecords
  <1>4. /\ Books'.shares = Books.shares /\ Books'.position = Books.position
        /\ Books'.exit = Books.exit /\ Books'.queued = Books.queued
    BY <1>1 DEF Books
  <1>5. SharesAdd(Books)' /\ ExitsAdd(Books)'
    BY <1>2, <1>4 DEF SharesAdd, SharesHeld, ExitsAdd, Reserved
  <1>6. Sound(Books)'
    BY <1>3, <1>5 DEF Sound
  <1>7. Covered(Books)'
    BY <1>1 DEF Covered, Books
  <1>8. LockTypeOK' /\ LockedTotalExact'
    BY <1>1 DEF PoolInv, LockTypeOK, LockedTotalExact, HeldIds
  <1>9. QueueTyped' /\ SettingsTyped'
    BY <1>1 DEF PoolInv, QueueTyped, SettingsTyped, queueVars, settingVars
  <1>10. clock' \in Nat
    BY <1>1 DEF PoolInv
  <1>11. QED
    BY <1>6, <1>7, <1>8, <1>9, <1>10 DEF PoolInv

\* Where no yield accrues, it is enough that the money left over does not shrink.
LEMMA MoneyKept ==
    ASSUME SharesAssumption, LockAssumption, PoolInv,
           NEW deposited \in Nat, NEW money \in Int, NEW excess \in Nat,
           MoneyStep(deposited, money, excess), perShare' = perShare, recovered' \in Nat,
           balance + slack - totalDeposited <= money + (slack + excess) - deposited,
           totalLocked <= deposited + seized
    PROVE  PoolInv'
  <1>1. /\ totalDeposited' = deposited /\ balance' = money /\ slack' = slack + excess
        /\ UNCHANGED <<totalShares, position, exit, queued, seized>>
    BY DEF MoneyStep
  <1>2. Books \in BookRecords /\ YieldBacked(Books)
    BY DEF PoolInv, Sound
  <1>3. slack \in Int /\ seized \in Int /\ balance \in Int /\ totalDeposited \in Int /\ AccPrecision \in Nat
    BY <1>2, BooksFields DEF BookRecords, SharesAssumption
  <1>4. Free(Books) = balance + slack - totalDeposited - seized
    BY DEF Free, Books
  <1>5. Free(Books)' = money + (slack + excess) - deposited - seized
    BY <1>1 DEF Free, Books
  <1>6. Entitlements(Books)' = Entitlements(Books)
    BY <1>1 DEF Entitlements, Entitled, Books
  <1> DEFINE x == balance + slack - totalDeposited - seized
             y == money + (slack + excess) - deposited - seized
  <1>7. x \in Int /\ y \in Int /\ x <= y
    BY <1>3
  <1> HIDE DEF x, y
  <1>8. AccPrecision * x \in Int /\ AccPrecision * y \in Int /\ AccPrecision * x <= AccPrecision * y
    BY <1>3, <1>7, Scaled
  <1>9. Entitlements(Books) \in Nat
    <2>1. Numbers
      BY NumbersHold
    <2>2. QED
      BY <1>2, <2>1, SumsTyped
  <1>10. AccPrecision * x >= Entitlements(Books)
    BY <1>2, <1>4 DEF YieldBacked, x
  <1>11. AccPrecision * y >= Entitlements(Books)'
    BY <1>6, <1>8, <1>9, <1>10
  <1>12. YieldBacked(Books)'
    BY <1>5, <1>11 DEF YieldBacked, y
  <1>13. perShare' \in Nat
    BY DEF PoolInv
  <1>14. QED
    BY <1>12, <1>13, MoneyBooks

LEMMA SendPremiumStep ==
    ASSUME SharesAssumption, LockAssumption, PoolInv, NEW amount \in Draws,
           SendPremium(amount) \/ SendPremiumToReinsurer(amount)
    PROVE  PoolInv' /\ PriceStep
  <1>1. amount \in Nat /\ Books \in BookRecords
    BY DEF SharesAssumption, PoolInv, Sound
  <1>2. /\ totalDeposited \in Nat /\ balance \in Int /\ slack \in Nat /\ totalShares \in Nat
    BY <1>1, BooksFields DEF BookRecords
  <1>3. /\ MoneyStep(totalDeposited, balance - amount, amount)
        /\ perShare' = perShare /\ recovered' = recovered
    BY DEF SendPremium, SendPremiumToReinsurer
  <1>4. balance - amount \in Int
        /\ balance + slack - totalDeposited <= (balance - amount) + (slack + amount) - totalDeposited
    BY <1>1, <1>2
  <1>5. totalLocked <= totalDeposited + seized
    BY BooksFields DEF PoolInv, Covered
  <1>6. recovered' \in Nat
    BY <1>3 DEF PoolInv, SettingsTyped
  <1>7. PoolInv'
    BY <1>1, <1>2, <1>3, <1>4, <1>5, <1>6, MoneyKept
  <1>8. PriceStep
    <2>1. totalDeposited' = totalDeposited /\ totalShares' = totalShares
      BY <1>3 DEF MoneyStep
    <2>2. totalDeposited * totalShares \in Nat
      BY <1>2
    <2>3. QED
      BY <2>1, <2>2 DEF PriceStep
  <1>9. QED
    BY <1>7, <1>8

\* execute_admin_withdrawal takes nothing that covers a lock; it lowers the price.
LEMMA AdminWithdrawalStep ==
    ASSUME SharesAssumption, LockAssumption, PoolInv, NEW amount \in Draws,
           AdminWithdrawal(amount)
    PROVE  PoolInv'
  <1>1. amount \in Nat /\ Books \in BookRecords /\ Numbers
    BY NumbersHold DEF SharesAssumption, PoolInv, Sound
  <1>2. /\ totalDeposited \in Nat /\ balance \in Int /\ slack \in Nat /\ seized \in Nat /\ totalLocked \in Nat
    BY <1>1, BooksFields DEF BookRecords, Numbers
  <1>3. /\ MoneyStep(totalDeposited - amount, balance - amount, 0)
        /\ perShare' = perShare /\ recovered' = recovered
        /\ amount <= totalDeposited - totalLocked
    BY BooksFields DEF AdminWithdrawal, Available
  <1>4. /\ totalDeposited - amount \in Nat /\ balance - amount \in Int
        /\ balance + slack - totalDeposited
             <= (balance - amount) + (slack + 0) - (totalDeposited - amount)
        /\ totalLocked <= totalDeposited - amount + seized
    BY <1>1, <1>2, <1>3
  <1>5. recovered' \in Nat
    BY <1>3 DEF PoolInv, SettingsTyped
  <1>6. QED
    BY <1>3, <1>4, <1>5, MoneyKept

LEMMA RecoverReinsuranceStep ==
    ASSUME SharesAssumption, LockAssumption, PoolInv, NEW loss \in LockAmounts,
           NEW report \in Recoveries, NEW paid \in Recoveries,
           RecoverReinsurance(loss, report, paid)
    PROVE  PoolInv' /\ PriceStep
  <1> DEFINE asked == Lower(loss - terms.attachment, NotNegative(terms.limit - recovered))
             credited == Lower(report, asked)
             excess == NotNegative(credited - paid)
  <1>1. report \in Nat /\ paid \in Nat /\ loss \in Nat /\ Books \in BookRecords
    BY DEF SharesAssumption, LockAssumption, PoolInv, Sound
  <1>2. /\ totalDeposited \in Nat /\ balance \in Int /\ slack \in Nat /\ totalShares \in Nat
    BY <1>1, BooksFields DEF BookRecords
  <1>3. terms.attachment \in Nat /\ terms.limit \in Nat /\ recovered \in Nat
    BY DEF PoolInv, SettingsTyped
  <1>4. /\ asked > 0 /\ recovered' = recovered + credited
        /\ MoneyStep(totalDeposited + credited, balance + paid, excess)
        /\ perShare' = perShare
    BY DEF RecoverReinsurance
  <1>5. asked \in Int
    BY <1>1, <1>3 DEF Lower, NotNegative
  <1> HIDE DEF asked
  <1>6. credited \in Nat
    BY <1>1, <1>4, <1>5 DEF Lower
  <1> HIDE DEF credited
  <1>7. excess \in Nat /\ credited <= paid + excess
    BY <1>1, <1>6 DEF NotNegative
  <1> HIDE DEF excess
  <1>8. /\ totalDeposited + credited \in Nat /\ balance + paid \in Int
        /\ balance + slack - totalDeposited
             <= (balance + paid) + (slack + excess) - (totalDeposited + credited)
        /\ recovered' \in Nat
    BY <1>1, <1>2, <1>3, <1>4, <1>6, <1>7
  <1>9. totalLocked <= totalDeposited + credited + seized
    <2>1. totalLocked \in Nat /\ seized \in Nat /\ totalLocked <= totalDeposited + seized
      BY <1>1, NumbersHold, BooksFields DEF PoolInv, Covered, Numbers, BookRecords
    <2>2. QED
      BY <1>2, <1>6, <2>1
  <1>10. PoolInv'
    BY <1>4, <1>7, <1>8, <1>9, MoneyKept
  <1>11. PriceStep
    <2>1. totalDeposited' = totalDeposited + credited /\ totalShares' = totalShares
      BY <1>4 DEF MoneyStep
    <2>2. (totalDeposited + credited) * totalShares
             = totalDeposited * totalShares + credited * totalShares
      BY <1>2, <1>6, SMT
    <2>3. totalDeposited * totalShares \in Nat /\ credited * totalShares \in Nat
      BY <1>2, <1>6
    <2>4. QED
      BY <2>1, <2>2, <2>3 DEF PriceStep
  <1>12. QED
    BY <1>10, <1>11

\* The parts of a premium are no more than it.
LEMMA PremiumParts ==
    ASSUME LockAssumption, NEW amount \in Nat, NEW s \in SplitRecords
    PROVE  /\ (amount * s.lp) \div FullBps \in Nat
           /\ (amount * s.treasury) \div FullBps \in Nat
           /\ (amount * s.backstop) \div FullBps \in Nat
           /\ (amount * s.lp) \div FullBps + (amount * s.treasury) \div FullBps
                + (amount * s.backstop) \div FullBps <= amount
  <1> DEFINE x == s.lp  y == s.treasury  z == s.backstop
             p == (amount * x) \div FullBps
             q == (amount * y) \div FullBps
             r == (amount * z) \div FullBps
  <1>1. /\ FullBps \in Nat \ {0} /\ x \in Nat /\ y \in Nat /\ z \in Nat
        /\ x + y + z = FullBps
    BY DEF LockAssumption, SplitRecords
  <1> HIDE DEF x, y, z
  <1>2. amount * x \in Nat /\ amount * y \in Nat /\ amount * z \in Nat
    BY <1>1
  <1>3. p \in Nat /\ FullBps * p \in Nat /\ FullBps * p <= amount * x
    BY <1>1, <1>2, Floor
  <1>4. q \in Nat /\ FullBps * q \in Nat /\ FullBps * q <= amount * y
    BY <1>1, <1>2, Floor
  <1>5. r \in Nat /\ FullBps * r \in Nat /\ FullBps * r <= amount * z
    BY <1>1, <1>2, Floor
  <1> HIDE DEF p, q, r
  <1>6. amount * x + amount * y + amount * z = FullBps * amount
    <2>1. amount * (x + y + z) = amount * x + amount * y + amount * z
      BY <1>1, SMT
    <2>2. amount * FullBps = FullBps * amount
      BY <1>1
    <2>3. QED
      BY <1>1, <2>1, <2>2
  <1>7. FullBps * (p + q + r) = FullBps * p + FullBps * q + FullBps * r
    BY <1>1, <1>3, <1>4, <1>5, SMT
  <1>8. p + q + r <= amount
    <2>1. CASE p + q + r > amount
      <3>1. p + q + r - amount - 1 \in Nat
        BY <1>3, <1>4, <1>5, <2>1
      <3>2. FullBps * (p + q + r - amount - 1) \in Nat
        BY <1>1, <3>1
      <3>3. FullBps * (p + q + r - amount - 1) = FullBps * (p + q + r) - FullBps * amount - FullBps
        BY <1>1, <1>3, <1>4, <1>5, SMT
      <3>4. FullBps * (p + q + r) \in Nat /\ FullBps * amount \in Nat
        BY <1>1, <1>3, <1>4, <1>5
      <3>5. QED
        BY <1>1, <1>2, <1>3, <1>4, <1>5, <1>6, <1>7, <3>2, <3>3, <3>4
    <2>2. QED
      BY <1>3, <1>4, <1>5, <2>1
  <1>9. QED
    BY <1>3, <1>4, <1>5, <1>8 DEF p, q, r, x, y, z

\* A rise of AccumulatedPerShare entitles the providers together to no more than the
\* rise for each of their shares.
LEMMA PremiumAccrues ==
    ASSUME SharesAssumption, LockAssumption, PoolInv, NEW gain \in Nat,
           perShare' = perShare + gain, position' = position
    PROVE  /\ Entitlements(Books)' \in Nat
           /\ Entitlements(Books)' <= Entitlements(Books) + gain * SharesHeld(Books)
  <1> DEFINE f == [l \in Providers |-> Books.position[l].shares]
             k == [l \in Providers |-> gain * f[l]]
             u == [l \in Providers |-> Entitled(Books.position[l])]
             w == [l \in Providers |-> u[l] + k[l]]
             v == [l \in Providers |-> Entitled(Books.position[l])']
  <1>1. /\ Books \in BookRecords /\ Numbers /\ IsFiniteSet(Providers)
        /\ perShare \in Nat /\ AccPrecision \in Nat
    BY NumbersHold DEF PoolInv, Sound, SharesAssumption
  <1>2. Books'.position = Books.position
    BY DEF Books
  <1>3. ASSUME NEW l \in Providers
        PROVE  /\ f[l] \in Nat /\ k[l] = gain * f[l] /\ k[l] \in Nat
               /\ u[l] \in Nat /\ w[l] = u[l] + k[l] /\ w[l] \in Nat
               /\ v[l] \in Nat /\ v[l] <= w[l]
    <2> DEFINE pos == Books.position[l]
               a == perShare * pos.shares
               d == AccPrecision * pos.debt
    <2>1. pos \in Positions /\ pos.shares \in Nat /\ pos.debt \in Nat
      BY <1>1 DEF BookRecords, Positions
    <2>2. f[l] = pos.shares /\ u[l] = NotNegative(a - d)
      BY DEF Entitled
    <2>3. v[l] = NotNegative((perShare + gain) * pos.shares - d)
      BY <1>2 DEF Entitled
    <2> HIDE DEF pos
    <2>4. (perShare + gain) * pos.shares = a + gain * pos.shares
      BY <1>1, <2>1, SMT
    <2>5. a \in Nat /\ d \in Nat /\ gain * pos.shares \in Nat
      BY <1>1, <2>1
    <2> HIDE DEF a, d
    <2>6. k[l] = gain * pos.shares /\ w[l] = u[l] + k[l]
      BY <2>2
    <2>7. u[l] \in Nat /\ v[l] \in Nat /\ v[l] <= u[l] + gain * pos.shares
      BY <2>2, <2>3, <2>4, <2>5 DEF NotNegative
    <2> HIDE DEF f, k, u, v, w
    <2>8. QED
      BY <2>1, <2>2, <2>5, <2>6, <2>7
  <1>4. /\ SharesHeld(Books) = SumFunctionOnSet(f, Providers)
        /\ Entitlements(Books) = SumFunctionOnSet(u, Providers)
    BY DEF SharesHeld, Entitlements
  <1>5. Entitlements(Books)' = SumFunctionOnSet(v, Providers)
    BY DEF Entitlements
  <1> HIDE DEF f, k, u, v, w
  <1>6. SumFunctionOnSet(k, Providers) = gain * SumFunctionOnSet(f, Providers)
    <2>1. \A l \in Providers : f[l] \in Int
      BY <1>3
    <2>2. \A l \in Providers : k[l] = gain * f[l]
      BY <1>3
    <2>3. QED
      BY <1>1, <2>1, <2>2, SumScale
  <1>7. SumFunctionOnSet(w, Providers)
          = SumFunctionOnSet(u, Providers) + SumFunctionOnSet(k, Providers)
    BY <1>1, <1>3, SumAdd
  <1>8. SumFunctionOnSet(v, Providers) <= SumFunctionOnSet(w, Providers)
    BY <1>1, <1>3, SumMonotone
  <1>9. SumFunctionOnSet(v, Providers) \in Nat
    BY <1>1, <1>3, SumNat
  <1>10. QED
    BY <1>4, <1>5, <1>6, <1>7, <1>8, <1>9

\* receive_premium backs what it lets accrue, the shares nobody holds included.
LEMMA ReceivePremiumStep ==
    ASSUME SharesAssumption, LockAssumption, PoolInv, NEW amount \in Premiums,
           ReceivePremium(amount)
    PROVE  PoolInv' /\ PriceStep
  <1> DEFINE p == (amount * split.lp) \div FullBps
             q == (amount * split.treasury) \div FullBps
             r == (amount * split.backstop) \div FullBps
             gain == IF totalShares > 0 THEN (p * AccPrecision) \div totalShares ELSE 0
             money == balance + amount - q - r
  <1>1. /\ amount \in Nat /\ Books \in BookRecords /\ Sound(Books) /\ Numbers
        /\ AccPrecision \in Nat /\ split \in SplitRecords
    BY NumbersHold DEF SharesAssumption, PoolInv, Sound, SettingsTyped
  <1>2. /\ totalDeposited \in Nat /\ balance \in Int /\ slack \in Nat /\ seized \in Nat
        /\ totalShares \in Nat
    BY <1>1, BooksFields DEF BookRecords
  <1>3. /\ perShare' = perShare + gain /\ MoneyStep(totalDeposited, money, 0)
        /\ recovered' = recovered
    BY DEF ReceivePremium
  <1>4. p \in Nat /\ q \in Nat /\ r \in Nat /\ p + q + r <= amount
    BY <1>1, PremiumParts
  <1> HIDE DEF p, q, r
  <1>5. money \in Int /\ money >= balance + p
    BY <1>1, <1>2, <1>4
  <1>6. SharesHeld(Books) \in Nat /\ SharesHeld(Books) <= totalShares
    <2>1. SharesHeld(Books) \in Nat
      BY <1>1, SumsTyped
    <2>2. totalShares = SharesHeld(Books) + (IF totalShares > 0 THEN BurnShares ELSE 0)
      BY <1>1, BooksFields DEF Sound, SharesAdd
    <2>3. BurnShares \in Nat
      BY DEF SharesAssumption
    <2>4. QED
      BY <1>2, <2>1, <2>2, <2>3
  <1>7. /\ gain \in Nat /\ gain * SharesHeld(Books) \in Nat
        /\ gain * SharesHeld(Books) <= AccPrecision * p
    <2>1. p * AccPrecision \in Nat /\ p * AccPrecision = AccPrecision * p
      BY <1>1, <1>4
    <2>2. CASE totalShares = 0
      <3>1. gain = 0
        BY <2>2
      <3> HIDE DEF gain
      <3>2. 0 * SharesHeld(Books) = 0
        BY <1>6
      <3>3. QED
        BY <2>1, <3>1, <3>2
    <2>3. CASE totalShares > 0
      <3>1. gain = (p * AccPrecision) \div totalShares
        BY <2>3
      <3>2. totalShares \in Nat \ {0}
        BY <1>2, <2>3
      <3> HIDE DEF gain
      <3>3. gain \in Nat /\ totalShares * gain <= p * AccPrecision
        BY <2>1, <3>1, <3>2, Floor
      <3>4. gain * SharesHeld(Books) <= gain * totalShares
        BY <1>2, <1>6, <3>3, Scaled
      <3>5. gain * totalShares = totalShares * gain
        BY <1>2, <3>3
      <3>6. gain * SharesHeld(Books) \in Nat /\ gain * totalShares \in Nat
        BY <1>2, <1>6, <3>3
      <3>7. QED
        BY <2>1, <3>3, <3>4, <3>5, <3>6
    <2>4. QED
      BY <1>2, <2>2, <2>3
  <1> HIDE DEF gain
  <1>8. /\ position' = position /\ totalDeposited' = totalDeposited
        /\ balance' = money /\ slack' = slack + 0 /\ seized' = seized /\ totalShares' = totalShares
    BY <1>3 DEF MoneyStep
  <1>9. /\ Entitlements(Books)' \in Nat
        /\ Entitlements(Books)' <= Entitlements(Books) + gain * SharesHeld(Books)
    BY <1>3, <1>7, <1>8, PremiumAccrues
  <1>10. YieldBacked(Books)'
    <2> DEFINE x == balance + slack - totalDeposited - seized
               y == money + slack - totalDeposited - seized
    <2>1. x \in Int /\ y \in Int /\ x + p <= y
      BY <1>2, <1>4, <1>5
    <2>2. Free(Books) = x
      BY DEF Free, Books
    <2>3. Free(Books)' = y
      BY <1>2, <1>8 DEF Free, Books
    <2> HIDE DEF x, y
    <2>4. AccPrecision * x >= Entitlements(Books)
      BY <1>1, <2>2 DEF Sound, YieldBacked
    <2>5. x + p \in Int
      BY <1>4, <2>1
    <2>6. AccPrecision * (x + p) \in Int /\ AccPrecision * y \in Int
          /\ AccPrecision * (x + p) <= AccPrecision * y
      BY <1>1, <2>1, <2>5, Scaled
    <2>7. AccPrecision * (x + p) = AccPrecision * x + AccPrecision * p
      BY <1>1, <1>4, <2>1, SMT
    <2>8. AccPrecision * x \in Int /\ AccPrecision * p \in Int
      BY <1>1, <1>4, <2>1
    <2>9. Entitlements(Books) \in Nat
      BY <1>1, SumsTyped
    <2>10. AccPrecision * y >= Entitlements(Books)'
      BY <1>7, <1>9, <2>4, <2>6, <2>7, <2>8, <2>9
    <2>11. QED
      BY <2>3, <2>10 DEF YieldBacked
  <1>11. perShare' \in Nat /\ recovered' \in Nat
    BY <1>3, <1>7 DEF PoolInv, SettingsTyped
  <1>12. totalLocked <= totalDeposited + seized
    BY BooksFields DEF PoolInv, Covered
  <1>13. PoolInv'
    <2> HIDE DEF money
    <2>1. 0 \in Nat
      OBVIOUS
    <2>2. QED
      BY <1>2, <1>3, <1>5, <1>10, <1>11, <1>12, <2>1, MoneyBooks
  <1>14. PriceStep
    <2>1. totalDeposited * totalShares \in Nat
      BY <1>2
    <2>2. QED
      BY <1>8, <2>1 DEF PriceStep
  <1>15. QED
    BY <1>13, <1>14

-----------------------------------------------------------------------------
(* The steps that move neither money nor shares. *)

LEMMA QuietBooks ==
    ASSUME SharesAssumption, LockAssumption, PoolInv,
           UNCHANGED bookVars, totalDeposited' = totalDeposited, perShare' = perShare,
           UNCHANGED queueVars, recovered' = recovered,
           LockTypeOK', LockedTotalExact', SettingsTyped', clock' \in Nat,
           totalLocked' <= totalLocked \/ totalLocked' <= totalDeposited
    PROVE  PoolInv' /\ PriceStep
  <1>1. Books' = Books /\ totalShares' = totalShares
    BY DEF Books, bookVars
  <1>2. Sound(Books)'
    BY <1>1 DEF PoolInv, Sound, SharesAdd, SharesHeld, ExitsAdd, Reserved, YieldBacked,
                Entitlements, Entitled, Free
  <1>3. Covered(Books)'
    <2>1. /\ Books'.deposited = totalDeposited /\ Books.deposited = totalDeposited
          /\ Books'.seized = seized /\ Books.seized = seized /\ seized \in Nat
          /\ totalLocked \in Int /\ totalLocked' \in Int /\ totalDeposited \in Int
      BY <1>1, BooksFields DEF PoolInv, LockTypeOK, Sound, BookRecords
    <2>2. totalLocked <= totalDeposited + seized
      BY <2>1 DEF PoolInv, Covered
    <2>3. totalLocked' <= totalDeposited + seized
      BY <2>1, <2>2
    <2>4. QED
      BY <1>1, <2>1, <2>3 DEF Covered
  <1>4. QueueTyped' /\ perShare' \in Nat
    BY DEF PoolInv, QueueTyped, queueVars
  <1>5. PriceStep
    <2>1. totalDeposited \in Nat /\ totalShares \in Nat
      BY BooksFields DEF PoolInv, Sound, BookRecords
    <2>2. totalDeposited * totalShares \in Nat
      BY <2>1
    <2>3. QED
      BY <1>1, <2>2 DEF PriceStep
  <1>6. QED
    BY <1>2, <1>3, <1>4, <1>5 DEF PoolInv

\* A setting of the admin.
LEMMA SettingStep ==
    ASSUME SharesAssumption, LockAssumption, PoolInv, QuietStep,
           lock' = lock, totalLocked' = totalLocked, totalDeposited' = totalDeposited,
           poolStatus' = poolStatus, maxUtilization' \in 1 .. FullBps,
           maxDeposited' \in Nat, exitDelay' \in Nat, split' \in SplitRecords,
           terms' \in [active: BOOLEAN, attachment: Nat, limit: Nat]
    PROVE  PoolInv' /\ PriceStep
  <1>1. /\ UNCHANGED bookVars /\ perShare' = perShare /\ UNCHANGED queueVars
        /\ recovered' = recovered /\ clock' = clock
    BY DEF QuietStep
  <1>2. LockTypeOK' /\ LockedTotalExact'
    BY DEF PoolInv, LockTypeOK, LockedTotalExact, HeldIds
  <1>3. SettingsTyped' /\ clock' \in Nat
    BY <1>1 DEF PoolInv, SettingsTyped
  <1>4. totalLocked' <= totalLocked
    BY DEF PoolInv, LockTypeOK
  <1>5. QED
    BY <1>1, <1>2, <1>3, <1>4, QuietBooks

LEMMA LockStepKeeps ==
    ASSUME SharesAssumption, LockAssumption, PoolInv, LockStep
    PROVE  PoolInv' /\ PriceStep
  <1>1. /\ UNCHANGED bookVars /\ perShare' = perShare /\ UNCHANGED queueVars
        /\ recovered' = recovered /\ clock' = clock /\ UNCHANGED settingVars
    BY DEF LockStep, QuietStep
  <1>2. SettingsTyped' /\ clock' \in Nat
    BY <1>1 DEF PoolInv, SettingsTyped, settingVars
  <1>3. LockTypeOK /\ LockedTotalExact /\ Numbers
    BY NumbersHold DEF PoolInv
  <1>4. ASSUME NEW i \in LockIds, NEW amount \in LockAmounts, LockForPolicy(i, amount)
        PROVE  PoolInv' /\ PriceStep
    <2>1. amount \in Nat
      BY DEF LockAssumption
    <2>2. /\ totalDeposited' = totalDeposited /\ totalLocked' = totalLocked + amount
          /\ totalDeposited - totalLocked >= amount
      BY <1>4 DEF LockForPolicy
    <2>3. LockTypeOK'
      <3>1. lock' \in [LockIds -> [state: LockStates, amount: Nat]]
        BY <1>3, <1>4, <2>1 DEF LockForPolicy, LockTypeOK, LockStates
      <3>2. QED
        BY <1>3, <1>4, <2>1, <2>2, <3>1 DEF LockTypeOK, LockForPolicy
    <2>4. LockedTotalExact'
      BY <1>3, <1>4, <2>3, LockForPolicyExact
    <2>5. totalLocked' <= totalDeposited
      BY <1>3, <2>1, <2>2 DEF LockTypeOK, Numbers
    <2>6. QED
      BY <1>1, <1>2, <2>2, <2>3, <2>4, <2>5, QuietBooks
  <1>5. ASSUME NEW i \in LockIds, Release(i)
        PROVE  PoolInv' /\ PriceStep
    <2>1. /\ totalDeposited' = totalDeposited /\ totalLocked' = totalLocked - lock[i].amount
          /\ lock' = [lock EXCEPT ![i].state = "released"]
          /\ maxUtilization' = maxUtilization /\ poolStatus' = poolStatus
      BY <1>5 DEF Release
    <2>2. lock[i] \in [state: LockStates, amount: Nat]
      BY <1>3 DEF LockTypeOK
    <2>3. LockTypeOK'
      <3>1. lock' \in [LockIds -> [state: LockStates, amount: Nat]]
        BY <1>3, <2>1, <2>2 DEF LockTypeOK, LockStates
      <3>2. QED
        BY <1>3, <2>1, <2>2, <3>1 DEF LockTypeOK
    <2>4. LockedTotalExact'
      BY <1>3, <1>5, <2>3, ReleaseExact
    <2>5. totalLocked' <= totalLocked
      BY <1>3, <2>1, <2>2 DEF Numbers
    <2>6. QED
      BY <1>1, <1>2, <2>1, <2>3, <2>4, <2>5, QuietBooks
  <1>6. ASSUME NEW s \in {"Active", "Paused", "WindingDown"}, SetPoolStatus(s)
        PROVE  PoolInv' /\ PriceStep
    <2>1. /\ lock' = lock /\ totalLocked' = totalLocked /\ totalDeposited' = totalDeposited
          /\ maxUtilization' = maxUtilization /\ poolStatus' = s
      BY <1>6 DEF SetPoolStatus
    <2>2. LockTypeOK' /\ LockedTotalExact'
      BY <1>3, <2>1 DEF LockTypeOK, LockedTotalExact, HeldIds
    <2>3. totalLocked' <= totalLocked
      BY <1>3, <2>1 DEF LockTypeOK
    <2>4. QED
      BY <1>1, <1>2, <2>1, <2>2, <2>3, QuietBooks
  <1>7. QED
    BY <1>4, <1>5, <1>6 DEF LockStep

LEMMA IdleStep ==
    ASSUME SharesAssumption, LockAssumption, PoolInv, Tick \/ UNCHANGED vars
    PROVE  PoolInv' /\ PriceStep
  <1>1. /\ UNCHANGED lockVars /\ UNCHANGED bookVars /\ perShare' = perShare
        /\ UNCHANGED queueVars /\ recovered' = recovered /\ UNCHANGED settingVars
        /\ clock' = clock \/ clock' = clock + 1
    BY DEF Tick, vars, shareVars
  <1>2. LockTypeOK' /\ LockedTotalExact' /\ totalDeposited' = totalDeposited
    BY <1>1 DEF PoolInv, LockTypeOK, LockedTotalExact, HeldIds, lockVars
  <1>3. SettingsTyped' /\ clock' \in Nat
    BY <1>1 DEF PoolInv, SettingsTyped, settingVars
  <1>4. totalLocked' <= totalLocked
    BY <1>1 DEF PoolInv, LockTypeOK, lockVars
  <1>5. QED
    BY <1>1, <1>2, <1>3, <1>4, QuietBooks

-----------------------------------------------------------------------------
(* The theorems. *)

LEMMA PoolInit ==
    ASSUME SharesAssumption, LockAssumption, Init
    PROVE  PoolInv
  <1>1. LockInit /\ totalShares = 0 /\ queued = 0 /\ balance = totalDeposited /\ slack = 0
        /\ seized = 0 /\ position = [l \in Providers |-> NoPosition]
        /\ exit = [l \in Providers |-> NoExit]
    BY DEF Init
  <1>2. LockTypeOK /\ LockedTotalExact /\ totalDeposited \in Nat /\ totalLocked = 0
    BY <1>1, LockInitExact DEF LockInit, LockTypeOK, LockStates, LockAssumption
  <1>3. QueueTyped /\ perShare = 0 /\ clock = 0
    BY DEF Init, QueueTyped
  <1>4. SettingsTyped
    BY DEF Init, SettingsTyped, SharesAssumption, NoTerms
  <1>5. Numbers
    BY <1>2, <1>3 DEF Numbers
  <1>6. NoPosition \in Positions /\ NoExit \in Exits
    BY DEF NoPosition, Positions, NoExit, Exits
  <1>7. /\ Books.deposited = totalDeposited /\ Books.shares = 0 /\ Books.queued = 0
        /\ Books.balance = totalDeposited /\ Books.slack = 0 /\ Books.seized = 0
        /\ \A l \in Providers : Books.position[l] = NoPosition /\ Books.exit[l] = NoExit
    BY <1>1 DEF Books
  <1>8. Books \in BookRecords
    BY <1>1, <1>2, <1>6 DEF Books, BookRecords
  <1>9. IsFiniteSet(Providers)
    BY DEF SharesAssumption
  <1>10. SharesHeld(Books) = 0
    <2> DEFINE f == [l \in Providers |-> Books.position[l].shares]
    <2>1. \A l \in Providers : f[l] = 0
      BY <1>7 DEF NoPosition
    <2>2. SharesHeld(Books) = SumFunctionOnSet(f, Providers)
      BY DEF SharesHeld
    <2> HIDE DEF f
    <2>3. QED
      BY <1>9, <2>1, <2>2, SumZero
  <1>11. Reserved(Books) = 0
    <2> DEFINE f == [l \in Providers |-> Books.exit[l].shares]
    <2>1. \A l \in Providers : f[l] = 0
      BY <1>7 DEF NoExit
    <2>2. Reserved(Books) = SumFunctionOnSet(f, Providers)
      BY DEF Reserved
    <2> HIDE DEF f
    <2>3. QED
      BY <1>9, <2>1, <2>2, SumZero
  <1>12. Entitlements(Books) = 0
    <2> DEFINE f == [l \in Providers |-> Entitled(Books.position[l])]
    <2>1. AccPrecision \in Nat /\ AccPrecision * 0 = 0
      BY DEF SharesAssumption
    <2>2. Entitled(NoPosition) = 0
      BY <1>3, <2>1 DEF Entitled, NoPosition, NotNegative
    <2>3. \A l \in Providers : f[l] = 0
      BY <1>7, <2>2
    <2>4. Entitlements(Books) = SumFunctionOnSet(f, Providers)
      BY DEF Entitlements
    <2> HIDE DEF f
    <2>5. QED
      BY <1>9, <2>3, <2>4, SumZero
  <1>13. SharesAdd(Books) /\ ExitsAdd(Books)
    BY <1>7, <1>10, <1>11 DEF SharesAdd, ExitsAdd
  <1>14. YieldBacked(Books)
    <2>1. Free(Books) = 0
      BY <1>2, <1>7 DEF Free
    <2>2. AccPrecision * 0 = 0
      BY DEF SharesAssumption
    <2>3. QED
      BY <1>12, <2>1, <2>2 DEF YieldBacked
  <1>15. Covered(Books)
    BY <1>2, <1>7 DEF Covered
  <1>16. QED
    BY <1>2, <1>3, <1>4, <1>8, <1>13, <1>14, <1>15 DEF PoolInv, Sound

LEMMA ProviderStepKeeps ==
    ASSUME SharesAssumption, LockAssumption, PoolInv, NEW l \in Providers, ProviderStep(l)
    PROVE  PoolInv' /\ PriceStep
  <1>1. CASE \E amount \in DepositAmounts, compound \in BOOLEAN : Deposit(l, amount, compound)
    BY <1>1, DepositStep
  <1>2. CASE \E shares \in ShareAmounts : Withdraw(l, shares)
    BY <1>2, WithdrawStep
  <1>3. CASE \E shares \in ShareAmounts : EmergencyWithdraw(l, shares)
    BY <1>3, EmergencyWithdrawStep
  <1>4. CASE \E shares \in ShareAmounts : RequestExit(l, shares)
    BY <1>4, RequestExitStep
  <1>5. CASE \E shares \in ShareAmounts : \E to \in Providers : TransferPosition(l, to, shares)
    BY <1>5, TransferStep
  <1>6. CASE ClaimYield(l)
    BY <1>6, ClaimYieldStep
  <1>7. CASE ClaimExit(l)
    BY <1>7, ClaimExitStep
  <1>8. CASE CancelExit(l)
    BY <1>8, CancelExitStep
  <1>9. CASE LiquidatePosition(l)
    BY <1>9, LiquidatePositionStep
  <1>10. QED
    BY <1>1, <1>2, <1>3, <1>4, <1>5, <1>6, <1>7, <1>8, <1>9 DEF ProviderStep

\* The settings an admin may choose are settings.
LEMMA AdminSettingStep ==
    ASSUME SharesAssumption, LockAssumption, PoolInv,
           \/ \E cap \in DepositCaps, bps \in UtilizationCaps : SetLimits(cap, bps)
           \/ \E delay \in ExitDelays : SetExitDelay(delay)
           \/ \E new \in Splits : SetSplit(new)
           \/ \E new \in Terms : SetReinsurance(new)
           \/ \E active \in BOOLEAN : SetReinsuranceActive(active)
    PROVE  PoolInv' /\ PriceStep
  <1>1. /\ maxUtilization \in 1 .. FullBps /\ maxDeposited \in Nat /\ exitDelay \in Nat
        /\ split \in SplitRecords
        /\ terms \in [active: BOOLEAN, attachment: Nat, limit: Nat]
    BY DEF PoolInv, LockTypeOK, SettingsTyped
  <1>2. CASE \E cap \in DepositCaps, bps \in UtilizationCaps : SetLimits(cap, bps)
    <2>1. PICK cap \in DepositCaps, bps \in UtilizationCaps : SetLimits(cap, bps)
      BY <1>2
    <2>2. cap \in Nat /\ bps \in 1 .. FullBps
      BY DEF SharesAssumption, LockAssumption
    <2>3. QED
      BY <1>1, <2>1, <2>2, SettingStep DEF SetLimits
  <1>3. CASE \E delay \in ExitDelays : SetExitDelay(delay)
    <2>1. PICK delay \in ExitDelays : SetExitDelay(delay)
      BY <1>3
    <2>2. delay \in Nat
      BY DEF SharesAssumption
    <2>3. QED
      BY <1>1, <2>1, <2>2, SettingStep DEF SetExitDelay, lockVars
  <1>4. CASE \E new \in Splits : SetSplit(new)
    <2>1. PICK new \in Splits : SetSplit(new)
      BY <1>4
    <2>2. new \in SplitRecords
      BY DEF SharesAssumption
    <2>3. QED
      BY <1>1, <2>1, <2>2, SettingStep DEF SetSplit, lockVars
  <1>5. CASE \E new \in Terms : SetReinsurance(new)
    <2>1. PICK new \in Terms : SetReinsurance(new)
      BY <1>5
    <2>2. new \in [active: BOOLEAN, attachment: Nat, limit: Nat]
      BY DEF SharesAssumption
    <2>3. QED
      BY <1>1, <2>1, <2>2, SettingStep DEF SetReinsurance, lockVars
  <1>6. CASE \E active \in BOOLEAN : SetReinsuranceActive(active)
    <2>1. PICK active \in BOOLEAN : SetReinsuranceActive(active)
      BY <1>6
    <2>2. terms' \in [active: BOOLEAN, attachment: Nat, limit: Nat]
      BY <1>1, <2>1 DEF SetReinsuranceActive
    <2>3. QED
      BY <1>1, <2>1, <2>2, SettingStep DEF SetReinsuranceActive, lockVars
  <1>7. QED
    BY <1>2, <1>3, <1>4, <1>5, <1>6

LEMMA PoolStep ==
    ASSUME SharesAssumption, LockAssumption, PoolInv, [Next]_vars
    PROVE  /\ PoolInv'
           /\ PriceStep \/ \E amount \in Draws : AdminWithdrawal(amount)
  <1>1. CASE \E l \in Providers : ProviderStep(l)
    BY <1>1, ProviderStepKeeps
  <1>2. CASE \E max \in 1 .. MaxScan : ProcessExpiredExits(max)
    BY <1>2, ProcessExpiredExitsStep
  <1>3. CASE \E amount \in Premiums : ReceivePremium(amount)
    BY <1>3, ReceivePremiumStep
  <1>4. CASE \E amount \in Draws : SendPremium(amount) \/ SendPremiumToReinsurer(amount)
    BY <1>4, SendPremiumStep
  <1>5. CASE \E amount \in Draws : AdminWithdrawal(amount)
    BY <1>5, AdminWithdrawalStep
  <1>6. CASE \E loss \in LockAmounts, report, paid \in Recoveries :
               RecoverReinsurance(loss, report, paid)
    BY <1>6, RecoverReinsuranceStep
  <1>7. CASE \/ \E cap \in DepositCaps, bps \in UtilizationCaps : SetLimits(cap, bps)
             \/ \E delay \in ExitDelays : SetExitDelay(delay)
             \/ \E new \in Splits : SetSplit(new)
             \/ \E new \in Terms : SetReinsurance(new)
             \/ \E active \in BOOLEAN : SetReinsuranceActive(active)
    BY <1>7, AdminSettingStep
  <1>8. CASE LockStep
    BY <1>8, LockStepKeeps
  <1>9. CASE Tick \/ UNCHANGED vars
    BY <1>9, IdleStep
  <1>10. QED
    BY <1>1, <1>2, <1>3, <1>4, <1>5, <1>6, <1>7, <1>8, <1>9 DEF Next

\* The inductive invariant of the pool's liquidity.
THEOREM PoolInvariant ==
    ASSUME SharesAssumption, LockAssumption
    PROVE  Spec => []PoolInv
  <1>1. Init => PoolInv
    BY PoolInit
  <1>2. PoolInv /\ [Next]_vars => PoolInv'
    BY PoolStep
  <1>3. QED
    BY <1>1, <1>2, PTL DEF Spec

\* Deposits, withdrawals, transfers, sweeps and liquidations rewrite positions and two
\* totals: TotalShares is always the shares of the positions and those nobody holds,
\* and QueuedExitShares what the requests say, whatever one transaction settles.
THEOREM SharesAddUp ==
    ASSUME SharesAssumption, LockAssumption
    PROVE  Spec => []SharesExact
  <1>1. PoolInv => SharesExact
    BY BooksFields DEF PoolInv, Sound, SharesAdd, ExitsAdd, SharesHeld, Reserved, SharesExact
  <1>2. QED
    BY <1>1, PoolInvariant, PTL

\* What SumsTyped and YieldBacked say of the whole pool.
LEMMA FreeMoney ==
    ASSUME SharesAssumption, LockAssumption, PoolInv
    PROVE  /\ AccPrecision * Free(Books) >= Entitlements(Books) /\ Entitlements(Books) \in Nat
           /\ balance \in Int /\ slack \in Nat /\ seized \in Nat /\ totalDeposited \in Nat
           /\ AccPrecision \in Nat \ {0}
           /\ Free(Books) = (balance + slack) - (totalDeposited + seized)
  <1>1. AccPrecision * Free(Books) >= Entitlements(Books) /\ Books \in BookRecords
    BY DEF PoolInv, Sound, YieldBacked
  <1>2. Entitlements(Books) \in Nat
    BY <1>1, NumbersHold, SumsTyped
  <1>3. /\ balance \in Int /\ slack \in Nat /\ seized \in Nat /\ totalDeposited \in Nat
        /\ AccPrecision \in Nat \ {0}
    BY <1>1, BooksFields DEF BookRecords, SharesAssumption
  <1>4. Free(Books) = balance + slack - totalDeposited - seized
    BY DEF Free, Books
  <1>5. QED
    BY <1>1, <1>2, <1>3, <1>4

\* withdraw, emergency_withdraw, the exits and the admin's withdrawal each compare with
\* what is not locked: no interleaving of them leaves a lock without capital on the books
\* but for what liquidate_position wrote off, and, since the USDC is at least the books,
\* none without USDC but for what send_premium_* paid out off them.
THEOREM LocksStayCovered ==
    ASSUME SharesAssumption, LockAssumption
    PROVE  Spec => []LocksCovered
  <1>1. PoolInv => LocksCovered
    <2> SUFFICES ASSUME PoolInv PROVE LocksCovered
      OBVIOUS
    <2> DEFINE free == Free(Books)
    <2>1. /\ AccPrecision * free >= Entitlements(Books) /\ Entitlements(Books) \in Nat
          /\ balance \in Int /\ slack \in Nat /\ seized \in Nat /\ totalDeposited \in Nat
          /\ AccPrecision \in Nat \ {0}
          /\ free = (balance + slack) - (totalDeposited + seized)
      BY FreeMoney
    <2>2. totalLocked <= totalDeposited + seized /\ totalLocked \in Nat
      BY BooksFields, NumbersHold DEF PoolInv, Covered, Numbers
    <2> HIDE DEF free
    <2>3. free \in Int
      BY <2>1
    <2>4. CASE free < 0
      <3>1. -free - 1 \in Nat
        BY <2>3, <2>4
      <3>2. AccPrecision * (-free - 1) \in Nat
        BY <2>1, <3>1
      <3>3. AccPrecision * (-free - 1) = -(AccPrecision * free) - AccPrecision
        BY <2>1, <2>3, SMT
      <3>4. AccPrecision * free \in Int
        BY <2>1, <2>3
      <3>5. FALSE
        BY <2>1, <3>2, <3>3, <3>4
      <3>6. QED
        BY <3>5
    <2>5. totalDeposited + seized <= balance + slack
      BY <2>1, <2>3, <2>4
    <2>6. QED
      BY <2>1, <2>2, <2>5 DEF LocksCovered
  <1>2. QED
    BY <1>1, PoolInvariant, PTL

\* The USDC covers the deposits, what liquidations wrote off and all yield that accrued,
\* up to what left off the books and one unit for each debt that was rounded.
THEOREM DepositsAndYieldAreBacked ==
    ASSUME SharesAssumption, LockAssumption
    PROVE  Spec => []Solvent
  <1>1. PoolInv => Solvent
    <2> SUFFICES ASSUME PoolInv PROVE Solvent
      OBVIOUS
    <2> DEFINE owed == SumFunctionOnSet([l \in Providers |-> Entitled(position[l])], Providers)
               money == balance + slack
               due == totalDeposited + seized
    <2>1. /\ AccPrecision * Free(Books) >= owed /\ owed \in Nat
          /\ money \in Int /\ due \in Int /\ AccPrecision \in Nat
          /\ Free(Books) = money - due
      BY FreeMoney, BooksFields DEF Entitlements
    <2> HIDE DEF owed, money, due
    <2>2. AccPrecision * (money - due) = AccPrecision * money - AccPrecision * due
      BY <2>1, SMT
    <2>3. AccPrecision * money \in Int /\ AccPrecision * due \in Int
      BY <2>1
    <2>4. AccPrecision * money >= AccPrecision * due + owed
      BY <2>1, <2>2, <2>3
    <2>5. QED
      BY <2>4 DEF Solvent, owed, money, due
  <1>2. QED
    BY <1>1, PoolInvariant, PTL

\* No transaction of one provider, no sweep of others' exits, no liquidation and no
\* release of a lock, paid claim or not, lowers the worth of a share, roundings included;
\* only the admin's withdrawal does.
THEOREM PriceOnlyFallsToTheAdmin ==
    ASSUME SharesAssumption, LockAssumption
    PROVE  Spec => PriceKept
  <1>1. PoolInv /\ [Next]_vars => PriceStep \/ \E amount \in Draws : AdminWithdrawal(amount)
    BY PoolStep
  <1>2. PoolInv /\ [Next]_vars =>
          [totalShares > 0 =>
             \/ totalDeposited' * totalShares >= totalDeposited * totalShares'
             \/ \E amount \in Draws : AdminWithdrawal(amount)]_vars
    BY <1>1 DEF PriceStep
  <1>3. QED
    BY <1>2, PoolInvariant, PTL DEF Spec, PriceKept

=============================================================================
