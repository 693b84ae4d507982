---------------------------- MODULE OracleProofs ----------------------------
(***************************************************************************)
(* What holds of the oracle verifier for every set of oracles, types, keys *)
(* and settings: its types, its registrations, the challenge period of a   *)
(* withdrawal asked for after registration, the one reading an oracle has  *)
(* of a key, the stake that the verifier's balance is made of, and that an *)
(* aggregation stays between the readings it combines, or those of any     *)
(* majority of the weight, as long as the sums of an average fit in i128.  *)
(***************************************************************************)
EXTENDS OracleVerifier, SumTheorems, TLAPS

Entries == [state: {"none", "active", "inactive"}, weight: Nat]

Requests == [amount: Nat, asked: Nat, unlock: Nat, early: BOOLEAN]

\* An entry that was never made is NoEntry, which AddOracle looks for.
RegistryInv ==
    /\ entry \in [DataTypes -> [Oracles -> Entries]]
    /\ \A t \in DataTypes, o \in Oracles : entry[t][o].state = "none" => entry[t][o] = NoEntry
    /\ listed \in [DataTypes -> SUBSET Oracles]
    /\ RegistryExact

NumbersOK ==
    /\ stake \in [DataTypes -> [Oracles -> Nat]]
    /\ request \in [DataTypes -> [Oracles -> Requests]]
    /\ lastSubmission \in [DataTypes -> [Oracles -> Nat \cup {Never}]]
    /\ clock \in Nat /\ challenge \in Nat
    /\ rules.staleSlash \in Nat

\* Whoever waits for its stake left its type for good: an entry is made once.
WaitingInv ==
    /\ \A t \in DataTypes, o \in Oracles : lastSubmission[t][o] <= clock
    /\ \A t \in DataTypes, o \in Oracles :
          LET r == request[t][o]
          IN  r # NoRequest /\ ~r.early =>
                entry[t][o].state = "inactive" /\ lastSubmission[t][o] <= r.asked

\* The readings of one key and the marks of the oracles: in a batch too.
VoiceOf(stored, marks) ==
    \A p, q \in stored :
        /\ p.oracle \in Oracles
        /\ p.ts = marks[p.oracle]
        /\ p.oracle = q.oracle => p = q

Marks == [Keys -> [Oracles -> Nat \cup {Never}]]

DeskOK(stored, marks) ==
    /\ stored = [k \in Keys |-> stored[k]]
    /\ marks \in Marks
    /\ \A k \in Keys : VoiceOf(stored[k], marks[k])

ReadingInv ==
    /\ points = [t \in DataTypes |-> points[t]]
    /\ newest = [t \in DataTypes |-> newest[t]]
    /\ \A t \in DataTypes : DeskOK(points[t], newest[t])

IInv == RegistryInv /\ NumbersOK /\ WaitingInv /\ ReadingInv

-----------------------------------------------------------------------------
(* Numbers and averages. *)

(***************************************************************************)
(* A finite set has a member at which a function is least, and one at      *)
(* which it is greatest.                                                   *)
(***************************************************************************)
LEMMA LeastAt ==
    ASSUME NEW S, IsFiniteSet(S), S # {}, NEW f, \A x \in S : f[x] \in Int
    PROVE  \E m \in S : \A x \in S : f[m] <= f[x]
<1> DEFINE HasLeast(t) == \E m \in t : \A x \in t : f[m] <= f[x]
           Bad == {t \in SUBSET S : t # {} /\ ~HasLeast(t)}
<1> SUFFICES ASSUME Bad # {} PROVE FALSE
  OBVIOUS
<1>1. PICK t \in Bad : \A u \in SUBSET t : u \in Bad => u = t
  <2>1. Bad \in SUBSET (SUBSET S)
    OBVIOUS
  <2> HIDE DEF Bad
  <2> QED BY <2>1, SmallestSubset
<1>2. PICK a \in t : TRUE
  OBVIOUS
<1> DEFINE u == t \ {a}
<1>3. u \in SUBSET t /\ u # t
  BY <1>2
<1>4. u = {} => HasLeast(t)
  BY <1>2
<1>5. CASE u # {}
  <2>1. HasLeast(u)
    <3>1. u \notin Bad
      BY <1>1, <1>3
    <3>2. u \in SUBSET S
      BY <1>1
    <3> HIDE DEF u, HasLeast
    <3> QED BY <3>1, <3>2, <1>5
  <2>2. PICK m \in u : \A x \in u : f[m] <= f[x]
    BY <2>1
  <2>3. f[m] \in Int /\ f[a] \in Int /\ \A x \in u : f[x] \in Int
    BY <1>2
  <2>4. CASE f[a] <= f[m]
    <3>1. \A x \in t : f[a] <= f[x]
      BY <2>2, <2>3, <2>4
    <3> QED BY <3>1, <1>2
  <2>5. CASE f[m] <= f[a]
    <3>1. \A x \in t : f[m] <= f[x]
      BY <2>2, <2>5
    <3> QED BY <3>1
  <2> QED BY <2>3, <2>4, <2>5
<1> QED BY <1>4, <1>5

LEMMA GreatestAt ==
    ASSUME NEW S, IsFiniteSet(S), S # {}, NEW f, \A x \in S : f[x] \in Int
    PROVE  \E m \in S : \A x \in S : f[x] <= f[m]
<1> DEFINE g == [x \in S |-> -f[x]]
<1>1. \A x \in S : g[x] \in Int
  OBVIOUS
<1>2. PICK m \in S : \A x \in S : g[m] <= g[x]
  <2> HIDE DEF g
  <2> QED BY <1>1, LeastAt
<1> QED BY <1>2

LEMMA MinIsLeast ==
    ASSUME NEW T \in SUBSET Int, IsFiniteSet(T), T # {}
    PROVE  Min(T) \in T /\ \A x \in T : Min(T) <= x
<1> DEFINE f == [x \in T |-> x]
<1>1. \E m \in T : \A x \in T : f[m] <= f[x]
  <2>1. \A x \in T : f[x] \in Int
    OBVIOUS
  <2> HIDE DEF f
  <2> QED BY <2>1, LeastAt
<1>2. \E m \in T : \A x \in T : m <= x
  BY <1>1
<1> QED BY <1>2 DEF Min

(***************************************************************************)
(* Division towards zero stays between the integers its quotient is        *)
(* between.                                                                *)
(***************************************************************************)
LEMMA Cancel ==
    ASSUME NEW a \in Int, NEW b \in Int, NEW w \in Nat \ {0}, a * w < b * w
    PROVE  a < b
<1> SUFFICES ASSUME b <= a PROVE FALSE
  OBVIOUS
<1>1. (a - b) * w \in Nat
  <2>1. a - b \in Nat
    OBVIOUS
  <2> QED BY <2>1
<1>2. (a - b) * w = a * w - b * w
  OBVIOUS
<1> QED BY <1>1, <1>2

LEMMA FloorBetween ==
    ASSUME NEW p \in Nat, NEW w \in Nat \ {0}, NEW lo \in Int, NEW hi \in Int,
           lo * w <= p, p <= hi * w
    PROVE  p \div w \in Nat /\ lo <= p \div w /\ p \div w <= hi
<1> DEFINE q == p \div w
<1>1. q \in Nat /\ q * w <= p /\ p < (q + 1) * w
  OBVIOUS
<1> HIDE DEF q
<1>2. lo * w < (q + 1) * w
  BY <1>1
<1>3. lo < q + 1
  BY <1>1, <1>2, Cancel
<1>4. (hi + 1) * w = hi * w + w
  OBVIOUS
<1>5. q * w < (hi + 1) * w
  BY <1>1, <1>4
<1>6. q < hi + 1
  BY <1>1, <1>5, Cancel
<1> QED BY <1>1, <1>3, <1>6 DEF q

LEMMA QuotientBetween ==
    ASSUME NEW p \in Int, NEW w \in Nat \ {0}, NEW lo \in Int, NEW hi \in Int,
           lo * w <= p, p <= hi * w
    PROVE  Quotient(p, w) \in Int /\ lo <= Quotient(p, w) /\ Quotient(p, w) <= hi
<1>1. CASE p >= 0
  BY <1>1, FloorBetween DEF Quotient
<1>2. CASE p < 0
  <2>1. -p \in Nat /\ -lo \in Int /\ -hi \in Int
    BY <1>2
  <2>2. (-hi) * w <= -p /\ -p <= (-lo) * w
    OBVIOUS
  <2>3. /\ (-p) \div w \in Nat
        /\ -hi <= (-p) \div w
        /\ (-p) \div w <= -lo
    BY <2>1, <2>2, FloorBetween
  <2> QED BY <1>2, <2>3 DEF Quotient
<1> QED BY <1>1, <1>2

(***************************************************************************)
(* A weighted average lies between two of the values it is made of.        *)
(***************************************************************************)
LEMMA ProductsOrdered ==
    ASSUME NEW a \in Int, NEW b \in Int, NEW w \in Nat, a <= b
    PROVE  a * w <= b * w
<1>1. (b - a) * w \in Nat
  <2>1. b - a \in Nat
    OBVIOUS
  <2> QED BY <2>1
<1>2. (b - a) * w = b * w - a * w
  OBVIOUS
<1> QED BY <1>1, <1>2

LEMMA AverageBetween ==
    ASSUME NEW S, IsFiniteSet(S), S # {}, NEW v, NEW w, NEW p,
           \A x \in S : v[x] \in Int, \A x \in S : w[x] \in Nat \ {0},
           \A x \in S : p[x] = v[x] * w[x]
    PROVE  LET q == Quotient(SumFunctionOnSet(p, S), SumFunctionOnSet(w, S))
           IN  q \in Int /\ \E a, b \in S : v[a] <= q /\ q <= v[b]
<1> DEFINE P == SumFunctionOnSet(p, S)
           W == SumFunctionOnSet(w, S)
<1>1. PICK a \in S : \A x \in S : v[a] <= v[x]
  BY LeastAt
<1>2. PICK b \in S : \A x \in S : v[x] <= v[b]
  BY GreatestAt
<1>3. \A x \in S : w[x] \in Nat /\ w[x] \in Int /\ w[x] > 0
  OBVIOUS
<1>4. W \in Nat \ {0}
  <2>1. W \in Nat
    BY <1>3, SumNat
  <2>2. w[a] <= W
    BY <1>3, SumCovers
  <2> HIDE DEF W
  <2> QED BY <1>3, <2>1, <2>2
<1>5. \A x \in S : p[x] \in Int
  OBVIOUS
<1>6. P \in Int
  BY <1>5, SumInt
<1>7. v[a] * W <= P
  <2> DEFINE l == [x \in S |-> v[a] * w[x]]
  <2>1. \A x \in S : l[x] = v[a] * w[x] /\ l[x] \in Int
    BY <1>3
  <2>2. \A x \in S : l[x] <= p[x]
    BY <1>1, <1>3, <2>1, ProductsOrdered
  <2> HIDE DEF l
  <2>3. SumFunctionOnSet(l, S) <= P
    BY <2>1, <2>2, <1>5, SumMonotone
  <2>4. SumFunctionOnSet(l, S) = v[a] * W
    BY <2>1, <1>3, SumScale
  <2> QED BY <2>3, <2>4
<1>8. P <= v[b] * W
  <2> DEFINE l == [x \in S |-> v[b] * w[x]]
  <2>1. \A x \in S : l[x] = v[b] * w[x] /\ l[x] \in Int
    BY <1>3
  <2>2. \A x \in S : p[x] <= l[x]
    BY <1>2, <1>3, <2>1, ProductsOrdered
  <2> HIDE DEF l
  <2>3. P <= SumFunctionOnSet(l, S)
    BY <2>1, <2>2, <1>5, SumMonotone
  <2>4. SumFunctionOnSet(l, S) = v[b] * W
    BY <2>1, <1>3, SumScale
  <2> QED BY <2>3, <2>4
<1> HIDE DEF P, W
<1>9. /\ Quotient(P, W) \in Int
      /\ v[a] <= Quotient(P, W)
      /\ Quotient(P, W) <= v[b]
  BY <1>4, <1>6, <1>7, <1>8, QuotientBetween
<1> QED BY <1>9 DEF P, W

-----------------------------------------------------------------------------
(* The aggregation methods. *)

\* What get_median_value combines: weights are at least 1.
IsSample(S) ==
    /\ IsFiniteSet(S) /\ S # {}
    /\ \A r \in S : r.value \in Int /\ r.weight \in Nat \ {0} /\ r.ts \in Nat

\* The value v is an integer between two of the readings.
Between(S, v) == v \in Int /\ \E p, q \in S : p.value <= v /\ v <= q.value

LEMMA I128Int == \A x \in I128 : x \in Int
BY SampleAssumption DEF SampleAssumption, I128

LEMMA SaturatedIs ==
    ASSUME SampleAssumption, NEW x \in I128
    PROVE  x \in Int /\ Saturated(x) = x
BY DEF SampleAssumption, I128, Saturated

\* No saturation, no difference: where every product and every partial sum is an i128,
\* the loop computes the sum.
LEMMA AccumulatedExact ==
    ASSUME SampleAssumption, NEW n \in Nat, NEW f, \A i \in 1 .. n : f[i] \in I128,
           \A i \in 0 .. n : SumFunctionOnSet(f, 1 .. i) \in I128
    PROVE  Accumulated(f, n) = SumFunctionOnSet(f, 1 .. n)
<1> DEFINE Loops(g) == g = [i \in 0 .. n |-> IF i = 0 THEN 0 ELSE Saturated(g[i - 1] + Saturated(f[i]))]
           prefix == [i \in 0 .. n |-> SumFunctionOnSet(f, 1 .. i)]
           sum == CHOOSE g : Loops(g)
<1>1. \A i \in 1 .. n : f[i] \in Int /\ Saturated(f[i]) = f[i]
  BY SaturatedIs
<1>2. \A i \in 0 .. n : prefix[i] \in Int /\ Saturated(prefix[i]) = prefix[i]
  BY SaturatedIs
<1>3. prefix[0] = 0
  <2>1. 1 .. 0 = {}
    OBVIOUS
  <2> QED BY <2>1, SumEmpty
<1>4. ASSUME NEW i \in 1 .. n
      PROVE  /\ i - 1 \in 0 .. n
             /\ prefix[i] = Saturated(prefix[i - 1] + Saturated(f[i]))
  <2>1. IsFiniteSet(1 .. i) /\ \A j \in 1 .. i : f[j] \in Int
    BY <1>1, FS_Interval
  <2>2. i \in 1 .. i /\ (1 .. i) \ {i} = 1 .. (i - 1)
    OBVIOUS
  <2>3. SumFunctionOnSet(f, 1 .. i) = f[i] + SumFunctionOnSet(f, (1 .. i) \ {i})
    <3>1. i \in 1 .. i
      BY <2>2
    <3> QED BY <2>1, <3>1, SumTakeOut
  <2>4. i - 1 \in 0 .. n
    OBVIOUS
  <2>5. /\ prefix[i] = SumFunctionOnSet(f, 1 .. i)
        /\ prefix[i - 1] = SumFunctionOnSet(f, 1 .. (i - 1))
    BY <2>4
  <2> HIDE DEF prefix
  <2>6. prefix[i] = f[i] + prefix[i - 1]
    BY <2>2, <2>3, <2>5
  <2> QED BY <1>1, <1>2, <2>4, <2>6
<1>5. Loops(prefix)
  <2> DEFINE loop == [i \in 0 .. n |-> IF i = 0 THEN 0 ELSE Saturated(prefix[i - 1] + Saturated(f[i]))]
  <2>1. \A i \in 0 .. n : prefix[i] = loop[i]
    <3> HIDE DEF prefix
    <3> QED BY <1>3, <1>4
  <2>2. prefix = [i \in 0 .. n |-> prefix[i]] /\ loop = [i \in 0 .. n |-> loop[i]]
    OBVIOUS
  <2> HIDE DEF prefix, loop
  <2>3. prefix = loop
    BY <2>1, <2>2
  <2> QED BY <2>3 DEF loop
<1>6. Loops(sum)
  <2> HIDE DEF prefix, Loops
  <2> QED BY <1>5
<1>7. /\ sum[0] = 0
      /\ \A i \in 1 .. n : sum[i] = Saturated(sum[i - 1] + Saturated(f[i]))
  <2> HIDE DEF sum
  <2> QED BY <1>6
<1> HIDE DEF sum, prefix, Loops
<1> DEFINE Good == {i \in 0 .. n : sum[i] = prefix[i]}
<1>8. Good = 0 .. n
  <2>1. 0 \in Good
    BY <1>3, <1>7
  <2>2. \A m \in 1 .. n : m - 1 \in Good => m \in Good
    BY <1>4, <1>7
  <2>3. Good \in SUBSET (0 .. n)
    OBVIOUS
  <2> HIDE DEF Good
  <2> QED BY <2>1, <2>2, <2>3, StepByStep
<1>9. n \in Good
  BY <1>8
<1> QED BY <1>9 DEF Accumulated, sum, Loops, prefix

\* Part of a sum of shares is at most the whole.
LEMMA PrefixWeighs ==
    ASSUME NEW n \in Nat, NEW w, \A j \in 1 .. n : w[j] \in Nat, NEW i \in 0 .. n
    PROVE  /\ SumFunctionOnSet(w, 1 .. i) \in Nat
           /\ SumFunctionOnSet(w, 1 .. n) \in Nat
           /\ SumFunctionOnSet(w, 1 .. i) <= SumFunctionOnSet(w, 1 .. n)
<1> DEFINE S == 1 .. n
           T == 1 .. i
           g == [j \in S |-> IF j \in T THEN w[j] ELSE 0]
<1>1. T \in SUBSET S
  OBVIOUS
<1>2. IsFiniteSet(S) /\ IsFiniteSet(T)
  BY FS_Interval
<1>3. \A j \in S : w[j] \in Nat
  OBVIOUS
<1> HIDE DEF S, T
<1>4. /\ \A j \in T : w[j] \in Int /\ g[j] = w[j]
      /\ \A j \in S \ T : g[j] = 0
      /\ \A j \in S : w[j] \in Int /\ g[j] \in Int /\ g[j] <= w[j]
  BY <1>1, <1>3
<1> HIDE DEF g
<1>5. SumFunctionOnSet(w, T) = SumFunctionOnSet(g, S)
  BY <1>1, <1>2, <1>4, SumWhere
<1>6. SumFunctionOnSet(g, S) <= SumFunctionOnSet(w, S)
  BY <1>2, <1>4, SumMonotone
<1>7. SumFunctionOnSet(w, T) \in Nat /\ SumFunctionOnSet(w, S) \in Nat
  BY <1>1, <1>2, <1>3, SumNat
<1> QED BY <1>5, <1>6, <1>7 DEF S, T

\* Numbers of a size of at most a, each in proportion to its share.
LEMMA ProductsBound ==
    ASSUME NEW T, IsFiniteSet(T), NEW v, NEW w, NEW p, NEW a \in Nat,
           \A x \in T : v[x] \in Int /\ -a <= v[x] /\ v[x] <= a,
           \A x \in T : w[x] \in Nat, \A x \in T : p[x] = v[x] * w[x]
    PROVE  /\ SumFunctionOnSet(p, T) \in Int
           /\ (-a) * SumFunctionOnSet(w, T) <= SumFunctionOnSet(p, T)
           /\ SumFunctionOnSet(p, T) <= a * SumFunctionOnSet(w, T)
<1> DEFINE low == [x \in T |-> (-a) * w[x]]
           high == [x \in T |-> a * w[x]]
<1>1. \A x \in T : /\ low[x] = (-a) * w[x] /\ low[x] \in Int
                   /\ high[x] = a * w[x] /\ high[x] \in Int
                   /\ w[x] \in Int
  OBVIOUS
<1> HIDE DEF low, high
<1>2. \A x \in T : p[x] \in Int /\ low[x] <= p[x] /\ p[x] <= high[x]
  <2>1. -a \in Int /\ a \in Int
    OBVIOUS
  <2> QED BY <1>1, <2>1, ProductsOrdered
<1>3. SumFunctionOnSet(p, T) \in Int
  BY <1>2, SumInt
<1>4. SumFunctionOnSet(low, T) <= SumFunctionOnSet(p, T)
  BY <1>1, <1>2, SumMonotone
<1>5. SumFunctionOnSet(p, T) <= SumFunctionOnSet(high, T)
  BY <1>1, <1>2, SumMonotone
<1>6. SumFunctionOnSet(low, T) = (-a) * SumFunctionOnSet(w, T)
  <2>1. -a \in Int
    OBVIOUS
  <2> QED BY <1>1, <2>1, SumScale
<1>7. SumFunctionOnSet(high, T) = a * SumFunctionOnSet(w, T)
  <2>1. a \in Int
    OBVIOUS
  <2> QED BY <1>1, <2>1, SumScale
<1> QED BY <1>3, <1>4, <1>5, <1>6, <1>7

\* A positive number of readings in their order, with positive shares, whose products
\* and partial sums cannot leave an i128: the average is between two of their values.
LEMMA AveragedBetween ==
    ASSUME SampleAssumption, NEW n \in Nat \ {0}, NEW order, DOMAIN order = 1 .. n, Len(order) = n,
           NEW share, \A i \in 1 .. n : order[i].value \in Int /\ share[i] \in Nat \ {0},
           \A i \in 1 .. n : Distance(order[i].value, 0) * SumFunctionOnSet(share, 1 .. n) <= Limit
    PROVE  /\ Averaged(order, share) \in Int
           /\ \E i, j \in 1 .. n : /\ order[i].value <= Averaged(order, share)
                                   /\ Averaged(order, share) <= order[j].value
<1> DEFINE v == [i \in 1 .. n |-> order[i].value]
           size == [i \in 1 .. n |-> Distance(order[i].value, 0)]
           p == [i \in 1 .. n |-> order[i].value * share[i]]
           W == SumFunctionOnSet(share, 1 .. n)
<1>1. Limit \in Nat /\ IsFiniteSet(1 .. n) /\ 1 .. n # {}
  <2>1. IsFiniteSet(1 .. n)
    BY FS_Interval
  <2>2. 1 \in 1 .. n
    OBVIOUS
  <2> QED BY <2>1, <2>2 DEF SampleAssumption
<1>2. /\ \A i \in 1 .. n : v[i] = order[i].value /\ v[i] \in Int
      /\ \A i \in 1 .. n : share[i] \in Nat \ {0} /\ share[i] \in Nat
      /\ \A i \in 1 .. n : p[i] = v[i] * share[i]
      /\ \A i \in 1 .. n : size[i] \in Nat /\ size[i] \in Int /\ -size[i] <= v[i] /\ v[i] <= size[i]
      /\ \A i \in 1 .. n : size[i] * W <= Limit
  BY DEF Distance
<1>3. Averaged(order, share) = Quotient(Accumulated(p, n), W)
  BY DEF Averaged
<1> HIDE DEF v, size, p
<1>4. PICK m \in 1 .. n : \A i \in 1 .. n : size[i] <= size[m]
  BY <1>1, <1>2, GreatestAt
<1>5. \A i \in 0 .. n : /\ SumFunctionOnSet(share, 1 .. i) \in Nat
                        /\ W \in Nat
                        /\ SumFunctionOnSet(share, 1 .. i) <= W
  BY <1>2, PrefixWeighs
<1> DEFINE a == size[m]
<1>6. a \in Nat /\ a * W <= Limit /\ \A i \in 1 .. n : v[i] \in Int /\ -a <= v[i] /\ v[i] <= a
  BY <1>2, <1>4
<1> HIDE DEF a
<1>7. \A x, total \in Int, part \in Nat : /\ part <= total /\ a * total <= Limit
                                          /\ (-a) * part <= x /\ x <= a * part
                                          => x \in I128
  <2> TAKE x, total \in Int, part \in Nat
  <2> HAVE /\ part <= total /\ a * total <= Limit
           /\ (-a) * part <= x /\ x <= a * part
  <2>1. part * a <= total * a
    <3>1. part \in Int
      OBVIOUS
    <3> QED BY <3>1, <1>6, ProductsOrdered
  <2>2. /\ a * part = part * a /\ a * total = total * a /\ (-a) * part = -(part * a)
        /\ part * a \in Int /\ total * a \in Int
    BY <1>6
  <2>3. \A y, z \in Int : y <= z /\ z <= Limit /\ -y <= x /\ x <= y => -Limit <= x /\ x <= Limit
    BY <1>1
  <2>4. part * a <= total * a /\ total * a <= Limit /\ -(part * a) <= x /\ x <= part * a
    BY <2>1, <2>2
  <2>5. -Limit <= x /\ x <= Limit
    BY <2>2, <2>3, <2>4, Zenon
  <2> QED BY <2>5, <1>1 DEF I128
<1>8. \A i \in 0 .. n : SumFunctionOnSet(p, 1 .. i) \in I128
  <2> TAKE i \in 0 .. n
  <2>1. IsFiniteSet(1 .. i) /\ 1 .. i \in SUBSET (1 .. n)
    BY FS_Interval
  <2> DEFINE x == SumFunctionOnSet(p, 1 .. i)
             part == SumFunctionOnSet(share, 1 .. i)
  <2>2. x \in Int /\ (-a) * part <= x /\ x <= a * part
    <3>1. /\ \A j \in 1 .. i : v[j] \in Int /\ -a <= v[j] /\ v[j] <= a
          /\ \A j \in 1 .. i : share[j] \in Nat
          /\ \A j \in 1 .. i : p[j] = v[j] * share[j]
      BY <1>2, <1>6, <2>1
    <3> QED BY <3>1, <2>1, <1>6, ProductsBound
  <2>3. part \in Nat /\ W \in Int /\ part <= W /\ a * W <= Limit
    BY <1>5, <1>6
  <2> HIDE DEF x, part, W
  <2>4. x \in I128
    BY <1>7, <2>2, <2>3
  <2> QED BY <2>4 DEF x
<1>9. \A i \in 1 .. n : p[i] \in I128
  <2> TAKE i \in 1 .. n
  <2>1. share[i] <= W /\ W \in Int
    <3> DEFINE S == 1 .. n
    <3>1. IsFiniteSet(S) /\ i \in S /\ \A j \in S : share[j] \in Nat
      BY <1>1, <1>2
    <3>2. SumFunctionOnSet(share, S) = W /\ W \in Nat
      BY <1>5
    <3> HIDE DEF S, W
    <3>3. share[i] <= SumFunctionOnSet(share, S)
      BY <3>1, SumCovers
    <3> QED BY <3>2, <3>3
  <2>2. (-a) * share[i] <= v[i] * share[i] /\ v[i] * share[i] <= a * share[i]
    <3>1. -a \in Int /\ a \in Int /\ v[i] \in Int /\ share[i] \in Nat /\ -a <= v[i] /\ v[i] <= a
      BY <1>2, <1>6
    <3> QED BY <3>1, ProductsOrdered
  <2>3. v[i] * share[i] \in Int /\ share[i] \in Nat
    BY <1>2
  <2> HIDE DEF W
  <2>4. v[i] * share[i] \in I128
    BY <1>6, <1>7, <2>1, <2>2, <2>3
  <2> QED BY <2>4, <1>2
<1>10. Accumulated(p, n) = SumFunctionOnSet(p, 1 .. n)
  BY <1>8, <1>9, AccumulatedExact
<1>11. LET q == Quotient(SumFunctionOnSet(p, 1 .. n), W)
       IN  q \in Int /\ \E i, j \in 1 .. n : v[i] <= q /\ q <= v[j]
  <2>1. \A i \in 1 .. n : v[i] \in Int
    BY <1>2
  <2>2. \A i \in 1 .. n : share[i] \in Nat \ {0}
    BY <1>2
  <2>3. \A i \in 1 .. n : p[i] = v[i] * share[i]
    BY <1>2
  <2> QED BY <1>1, <2>1, <2>2, <2>3, AverageBetween
<1> HIDE DEF W
<1> QED BY <1>2, <1>3, <1>10, <1>11

LEMMA ImageFinite ==
    ASSUME NEW S, IsFiniteSet(S), NEW f
    PROVE  IsFiniteSet({f[x] : x \in S})
<1> DEFINE g == [x \in S |-> f[x]]
           T == {f[x] : x \in S}
<1>1. g \in Surjection(S, T)
  BY DEF Surjection
<1> QED BY <1>1, FS_Surjection

LEMMA MinOfTwo ==
    ASSUME NEW a \in Nat, NEW b \in Nat
    PROVE  Min({a, b}) \in Nat /\ Min({a, b}) <= a /\ Min({a, b}) <= b
<1>1. \E x \in {a, b} : \A y \in {a, b} : x <= y
  OBVIOUS
<1>2. Min({a, b}) \in {a, b} /\ \A y \in {a, b} : Min({a, b}) <= y
  BY <1>1 DEF Min
<1> QED BY <1>2

LEMMA MaxOfTwo ==
    ASSUME NEW a \in Int, NEW b \in Int
    PROVE  Max({a, b}) \in Int /\ Max({a, b}) >= a
<1>1. \E x \in {a, b} : \A y \in {a, b} : x >= y
  OBVIOUS
<1> QED BY <1>1 DEF Max

LEMMA HeldPositive ==
    ASSUME NEW order, NEW n \in Nat, DOMAIN order = 1 .. n, Len(order) = n,
           \A i \in 1 .. n : order[i].ts \in Nat, NEW i \in 1 .. n, NEW now \in Nat
    PROVE  Held(order, i, now) \in Nat \ {0}
<1> DEFINE end == IF i < Len(order) THEN order[i + 1].ts ELSE Max({now, order[i].ts})
<1>1. end \in Int
  <2>1. CASE i < n
    <3>1. i + 1 \in 1 .. n
      BY <2>1
    <3> QED BY <2>1, <3>1
  <2>2. CASE ~(i < n)
    <3>1. now \in Int /\ order[i].ts \in Int
      OBVIOUS
    <3>2. Max({now, order[i].ts}) \in Int
      BY <3>1, MaxOfTwo, Zenon
    <3> QED BY <2>2, <3>2
  <2> QED BY <2>1, <2>2
<1>2. Held(order, i, now) = Max({1, end - order[i].ts})
  BY DEF Held
<1> HIDE DEF end
<1>3. end - order[i].ts \in Int /\ 1 \in Int
  BY <1>1
<1>4. Max({1, end - order[i].ts}) \in Int /\ Max({1, end - order[i].ts}) >= 1
  BY <1>3, MaxOfTwo, Zenon
<1> QED BY <1>2, <1>4

\* In each order its readings may be combined in, a sample is a sequence.
LEMMA OrderIs ==
    ASSUME NEW S, IsSample(S), NEW method, NEW order \in Orders(S, method)
    PROVE  \E n \in Nat \ {0} : /\ DOMAIN order = 1 .. n /\ Len(order) = n
                                /\ \A i \in 1 .. n : order[i] \in S
<1> DEFINE n == Cardinality(S)
<1>1. n \in Nat \ {0}
  BY FS_CardinalityType, FS_EmptySet DEF IsSample
<1>2. order \in [1 .. n -> S]
  BY DEF Orders, SetToSeqs
<1> HIDE DEF n
<1>3. DOMAIN order = 1 .. n /\ Len(order) = n /\ \A i \in 1 .. n : order[i] \in S
  BY <1>1, <1>2
<1> QED BY <1>1, <1>3

LEMMA AverageBetweenReadings ==
    ASSUME SampleAssumption, NEW S, IsSample(S), NEW method \in Methods, method # "WeightedMedian",
           NEW now \in Nat, NEW order \in Orders(S, method), SumsFit(S, method, now)
    PROVE  Between(S, Average(order, method, now))
<1>1. PICK n \in Nat \ {0} : /\ DOMAIN order = 1 .. n /\ Len(order) = n
                             /\ \A i \in 1 .. n : order[i] \in S
  BY OrderIs
<1>2. \A i \in 1 .. n : order[i].value \in Int /\ order[i].ts \in Nat /\ order[i].weight \in Nat \ {0}
  BY <1>1 DEF IsSample
<1> DEFINE share == Share(order, method, now)
<1>3. \A i \in 1 .. n : share[i] \in Nat \ {0}
  <2> TAKE i \in 1 .. n
  <2>1. CASE method = "WeightedAverage"
    BY <1>1, <1>2, <2>1 DEF Share
  <2>2. CASE method = "Mean"
    BY <1>1, <2>2 DEF Share
  <2>3. CASE method = "TimeWeightedAverage"
    <3>1. Held(order, i, now) \in Nat \ {0}
      BY <1>1, <1>2, HeldPositive
    <3>2. order[i].weight * Held(order, i, now) \in Nat \ {0}
      BY <1>2, <3>1
    <3>3. share[i] = order[i].weight * Held(order, i, now)
      BY <1>1, <2>3 DEF Share
    <3> QED BY <3>2, <3>3
  <2> QED BY <2>1, <2>2, <2>3 DEF Methods
<1>4. \A i \in 1 .. n : Distance(order[i].value, 0) * SumFunctionOnSet(share, 1 .. n) <= Limit
  BY <1>1 DEF SumsFit
<1> HIDE DEF share
<1>5. /\ Averaged(order, share) \in Int
      /\ \E i, j \in 1 .. n : /\ order[i].value <= Averaged(order, share)
                              /\ Averaged(order, share) <= order[j].value
  BY <1>1, <1>2, <1>3, <1>4, AveragedBetween
<1>6. CASE method = "TimeWeightedAverage" /\ n = 1
  <2>1. Average(order, method, now) = order[1].value
    BY <1>1, <1>6 DEF Average
  <2>2. order[1] \in S /\ order[1].value \in Int
    BY <1>1, <1>2
  <2>3. order[1].value <= order[1].value
    BY <2>2
  <2> QED BY <2>1, <2>2, <2>3 DEF Between
<1>7. CASE ~(method = "TimeWeightedAverage" /\ n = 1)
  <2>1. Average(order, method, now) = Averaged(order, share)
    BY <1>1, <1>7 DEF Average, share
  <2> QED BY <1>1, <1>5, <2>1 DEF Between
<1> QED BY <1>6, <1>7

-----------------------------------------------------------------------------
(* The weighted median. *)

LEMMA WeightOf ==
    ASSUME NEW S, IsSample(S), NEW T \in SUBSET S
    PROVE  /\ TotalWeight(T) \in Nat
           /\ TotalWeight(T) = SumFunctionOnSet([r \in S |-> IF r \in T THEN r.weight ELSE 0], S)
<1> DEFINE f == [r \in T |-> r.weight]
           g == [r \in S |-> IF r \in T THEN r.weight ELSE 0]
<1>1. IsFiniteSet(S) /\ IsFiniteSet(T)
  BY FS_Subset DEF IsSample
<1>2. /\ \A r \in T : f[r] \in Nat /\ f[r] \in Int /\ g[r] = f[r]
      /\ \A r \in S \ T : g[r] = 0
  BY DEF IsSample
<1>3. TotalWeight(T) = SumFunctionOnSet(f, T)
  BY DEF TotalWeight
<1> HIDE DEF f, g
<1>4. SumFunctionOnSet(f, T) = SumFunctionOnSet(g, S)
  BY <1>1, <1>2, SumWhere
<1>5. SumFunctionOnSet(f, T) \in Nat
  BY <1>1, <1>2, SumNat
<1> QED BY <1>3, <1>4, <1>5 DEF g

LEMMA WeightGrows ==
    ASSUME NEW S, IsSample(S), NEW U \in SUBSET S, NEW T \in SUBSET U
    PROVE  TotalWeight(T) <= TotalWeight(U)
<1> DEFINE f == [r \in S |-> IF r \in T THEN r.weight ELSE 0]
           g == [r \in S |-> IF r \in U THEN r.weight ELSE 0]
<1>1. \A r \in S : f[r] \in Int /\ g[r] \in Int /\ f[r] <= g[r]
  BY DEF IsSample
<1>2. TotalWeight(T) = SumFunctionOnSet(f, S) /\ TotalWeight(U) = SumFunctionOnSet(g, S)
  BY WeightOf
<1>3. IsFiniteSet(S)
  BY DEF IsSample
<1> HIDE DEF f, g
<1> QED BY <1>1, <1>2, <1>3, SumMonotone

LEMMA WeightsDisjoint ==
    ASSUME NEW S, IsSample(S), NEW T \in SUBSET S, NEW U \in SUBSET S, T \cap U = {}
    PROVE  TotalWeight(T) + TotalWeight(U) <= TotalWeight(S)
<1> DEFINE f == [r \in S |-> IF r \in T THEN r.weight ELSE 0]
           g == [r \in S |-> IF r \in U THEN r.weight ELSE 0]
           h == [r \in S |-> IF r \in T \cup U THEN r.weight ELSE 0]
<1>1. \A r \in S : f[r] \in Int /\ g[r] \in Int /\ h[r] = f[r] + g[r]
  BY DEF IsSample
<1>2. /\ TotalWeight(T) = SumFunctionOnSet(f, S)
      /\ TotalWeight(U) = SumFunctionOnSet(g, S)
      /\ TotalWeight(T \cup U) = SumFunctionOnSet(h, S)
  <2>1. T \cup U \in SUBSET S
    OBVIOUS
  <2> QED BY <2>1, WeightOf
<1>3. IsFiniteSet(S)
  BY DEF IsSample
<1> HIDE DEF f, g, h
<1>4. TotalWeight(T \cup U) = TotalWeight(T) + TotalWeight(U)
  BY <1>1, <1>2, <1>3, SumAdd
<1>5. TotalWeight(T \cup U) <= TotalWeight(S)
  BY WeightGrows
<1> QED BY <1>4, <1>5

LEMMA ValuesFinite ==
    ASSUME NEW S, IsSample(S)
    PROVE  ValuesOf(S) \in SUBSET Int /\ IsFiniteSet(ValuesOf(S))
<1> DEFINE f == [r \in S |-> r.value]
<1>1. ValuesOf(S) = {f[r] : r \in S}
  BY DEF ValuesOf
<1>2. IsFiniteSet(S)
  BY DEF IsSample
<1> HIDE DEF f
<1>3. IsFiniteSet(ValuesOf(S))
  BY <1>1, <1>2, ImageFinite
<1> QED BY <1>3 DEF IsSample, ValuesOf

(***************************************************************************)
(* The first value at which half of the weight is reached, and where the   *)
(* median lies from there.                                                 *)
(***************************************************************************)
LEMMA MedianPlace ==
    ASSUME NEW S, IsSample(S)
    PROVE  \E first, next \in ValuesOf(S) :
             /\ first <= next
             /\ 2 * WeightUpTo(S, first) >= TotalWeight(S)
             /\ \A u \in ValuesOf(S) : u < first => 2 * WeightUpTo(S, u) < TotalWeight(S)
             /\ \A u \in ValuesOf(S) : u < next => u <= first
             /\ first < next => 2 * WeightUpTo(S, first) = TotalWeight(S)
             /\ WeightedMedian(S) \in Int
             /\ first <= WeightedMedian(S) /\ WeightedMedian(S) <= next
<1> DEFINE values == ValuesOf(S)
           half == {v \in values : 2 * WeightUpTo(S, v) >= TotalWeight(S)}
           first == Min(half)
           larger == {v \in values : v > first}
<1>1. values \in SUBSET Int /\ IsFiniteSet(values)
  BY ValuesFinite
<1>2. \A v : WeightUpTo(S, v) \in Nat
  <2> TAKE v
  <2>1. {r \in S : r.value <= v} \in SUBSET S
    OBVIOUS
  <2> QED BY <2>1, WeightOf DEF WeightUpTo
<1>3. TotalWeight(S) \in Nat
  BY WeightOf
<1>4. half # {}
  <2> DEFINE f == [r \in S |-> r.value]
  <2>1. IsFiniteSet(S) /\ S # {} /\ \A r \in S : f[r] = r.value /\ f[r] \in Int
    BY DEF IsSample
  <2>2. \E m \in S : \A r \in S : f[r] <= f[m]
    <3> HIDE DEF f
    <3> QED BY <2>1, GreatestAt
  <2>3. PICK m \in S : \A r \in S : r.value <= m.value
    BY <2>2
  <2>4. {r \in S : r.value <= m.value} = S
    BY <2>3
  <2>5. WeightUpTo(S, m.value) = TotalWeight(S)
    BY <2>4 DEF WeightUpTo
  <2>6. m.value \in values
    BY DEF ValuesOf
  <2> QED BY <2>5, <2>6, <1>3
<1>5. first \in half /\ \A v \in half : first <= v
  <2>1. half \in SUBSET Int /\ IsFiniteSet(half)
    BY <1>1, FS_Subset
  <2> HIDE DEF half
  <2> QED BY <2>1, <1>4, MinIsLeast
<1>6. /\ first \in values /\ first \in Int
      /\ 2 * WeightUpTo(S, first) >= TotalWeight(S)
      /\ \A u \in values : u < first => 2 * WeightUpTo(S, u) < TotalWeight(S)
  <2>1. first \in values /\ first \in Int
    BY <1>1, <1>5
  <2>2. 2 * WeightUpTo(S, first) >= TotalWeight(S)
    BY <1>5
  <2>3. ASSUME NEW u \in values, u < first
        PROVE  2 * WeightUpTo(S, u) < TotalWeight(S)
    <3>1. u \notin half
      <4> HIDE DEF half
      <4> QED BY <1>1, <1>5, <2>1, <2>3
    <3>2. ~(2 * WeightUpTo(S, u) >= TotalWeight(S))
      BY <3>1
    <3> QED BY <3>2, <1>2, <1>3
  <2> QED BY <2>1, <2>2, <2>3
<1>7. WeightedMedian(S) = IF 2 * WeightUpTo(S, first) = TotalWeight(S) /\ larger # {}
                          THEN Quotient(first + Min(larger), 2) ELSE first
  BY DEF WeightedMedian
<1>8. CASE 2 * WeightUpTo(S, first) = TotalWeight(S) /\ larger # {}
  <2> DEFINE next == Min(larger)
  <2>1. next \in larger /\ \A v \in larger : next <= v
    <3>1. larger \in SUBSET Int /\ IsFiniteSet(larger)
      BY <1>1, FS_Subset
    <3> HIDE DEF larger
    <3> QED BY <3>1, <1>8, MinIsLeast
  <2> HIDE DEF next, first
  <2>2. next \in values /\ next \in Int /\ first < next
    BY <1>1, <2>1
  <2>3. first * 2 <= first + next /\ first + next <= next * 2 /\ first + next \in Int
    BY <1>6, <2>2
  <2>4. /\ Quotient(first + next, 2) \in Int
        /\ first <= Quotient(first + next, 2)
        /\ Quotient(first + next, 2) <= next
    BY <1>6, <2>2, <2>3, QuotientBetween
  <2>5. \A u \in values : u < next => u <= first
    <3> TAKE u \in values
    <3>1. u \in Int
      BY <1>1
    <3>2. u > first => u \in larger
      OBVIOUS
    <3> QED BY <3>1, <3>2, <2>1, <2>2, <1>6
  <2>6. WeightedMedian(S) = Quotient(first + next, 2)
    BY <1>7, <1>8 DEF next
  <2>7. first <= next
    BY <2>2, <1>6
  <2> HIDE DEF values, larger
  <2> QED BY <1>6, <1>8, <2>2, <2>4, <2>5, <2>6, <2>7 DEF values
<1>9. CASE ~(2 * WeightUpTo(S, first) = TotalWeight(S) /\ larger # {})
  <2>1. WeightedMedian(S) = first
    BY <1>7, <1>9
  <2> HIDE DEF first
  <2>2. first <= first /\ \A u \in values : u < first => u <= first
    BY <1>1, <1>6
  <2> QED BY <1>6, <2>1, <2>2
<1> QED BY <1>8, <1>9

(***************************************************************************)
(* Readings with more than half of the weight have the median between      *)
(* them.                                                                   *)
(***************************************************************************)
LEMMA MedianBetween ==
    ASSUME NEW S, IsSample(S), NEW M \in SUBSET S, 2 * TotalWeight(M) > TotalWeight(S)
    PROVE  Between(M, WeightedMedian(S))
<1> DEFINE m == WeightedMedian(S)
<1>1. PICK first, next \in ValuesOf(S) :
             /\ first <= next
             /\ 2 * WeightUpTo(S, first) >= TotalWeight(S)
             /\ \A u \in ValuesOf(S) : u < first => 2 * WeightUpTo(S, u) < TotalWeight(S)
             /\ \A u \in ValuesOf(S) : u < next => u <= first
             /\ first < next => 2 * WeightUpTo(S, first) = TotalWeight(S)
             /\ m \in Int
             /\ first <= m /\ m <= next
  BY MedianPlace
<1> HIDE DEF m
<1>2. /\ TotalWeight(M) \in Nat /\ TotalWeight(S) \in Nat
      /\ first \in Int /\ next \in Int
      /\ \A r \in S : r.value \in Int /\ r.value \in ValuesOf(S)
  <2>1. ValuesOf(S) \in SUBSET Int
    BY ValuesFinite
  <2> QED BY <2>1, WeightOf DEF IsSample, ValuesOf
<1>3. \A v \in Int : /\ {r \in S : r.value <= v} \in SUBSET S
                     /\ WeightUpTo(S, v) = TotalWeight({r \in S : r.value <= v})
                     /\ WeightUpTo(S, v) \in Nat
  <2> TAKE v \in Int
  <2>1. {r \in S : r.value <= v} \in SUBSET S
    OBVIOUS
  <2> QED BY <2>1, WeightOf DEF WeightUpTo
<1>4. \E p \in M : p.value <= m
  <2> SUFFICES ASSUME \A p \in M : ~(p.value <= m) PROVE FALSE
    OBVIOUS
  <2> DEFINE low == {r \in S : r.value <= first}
  <2>1. \A p \in M : ~(p.value <= first)
    BY <1>1, <1>2
  <2>2. low \in SUBSET S /\ M \cap low = {}
    BY <2>1
  <2>3. TotalWeight(M) + TotalWeight(low) <= TotalWeight(S)
    BY <2>2, WeightsDisjoint
  <2>4. WeightUpTo(S, first) = TotalWeight(low) /\ WeightUpTo(S, first) \in Nat
    BY <1>2, <1>3
  <2>5. 2 * WeightUpTo(S, first) >= TotalWeight(S)
    BY <1>1
  <2> HIDE DEF low
  <2> QED BY <2>3, <2>4, <2>5, <1>2
<1>5. \E q \in M : m <= q.value
  <2> SUFFICES ASSUME \A q \in M : ~(m <= q.value) PROVE FALSE
    OBVIOUS
  <2>1. \A q \in M : q.value < next
    BY <1>1, <1>2
  <2>2. \A q \in M : q.value <= first
    BY <2>1, <1>1, <1>2
  <2>3. ASSUME NEW v \in Int, \A q \in M : q.value <= v
        PROVE  2 * WeightUpTo(S, v) > TotalWeight(S)
    <3> DEFINE low == {r \in S : r.value <= v}
    <3>1. low \in SUBSET S /\ M \in SUBSET low
      BY <2>3
    <3>2. TotalWeight(M) <= TotalWeight(low)
      BY <3>1, WeightGrows
    <3>3. WeightUpTo(S, v) = TotalWeight(low) /\ WeightUpTo(S, v) \in Nat
      BY <1>3
    <3> HIDE DEF low
    <3> QED BY <3>2, <3>3, <1>2
  <2>4. first = next
    <3>1. 2 * WeightUpTo(S, first) > TotalWeight(S)
      BY <2>2, <2>3, <1>2
    <3> QED BY <3>1, <1>1, <1>2, <1>3
  <2>5. M # {}
    <3>1. SUFFICES ASSUME M = {} PROVE FALSE
      OBVIOUS
    <3>2. {} \in SUBSET S /\ {} \cap {} = {}
      OBVIOUS
    <3>3. TotalWeight(M) + TotalWeight(M) <= TotalWeight(S)
      BY <3>1, <3>2, WeightsDisjoint
    <3> QED BY <3>3, <1>2
  <2> DEFINE f == [r \in M |-> r.value]
  <2>6. PICK top \in M : \A q \in M : q.value <= top.value
    <3>1. IsFiniteSet(M) /\ \A r \in M : f[r] = r.value /\ f[r] \in Int
      BY FS_Subset, <1>2 DEF IsSample
    <3>2. \E t \in M : \A r \in M : f[r] <= f[t]
      <4> HIDE DEF f
      <4> QED BY <3>1, <2>5, GreatestAt
    <3> QED BY <3>1, <3>2
  <2>7. 2 * WeightUpTo(S, top.value) > TotalWeight(S)
    BY <2>3, <2>6, <1>2
  <2>8. top.value < first /\ top.value \in ValuesOf(S)
    BY <2>1, <2>4, <1>2
  <2>9. 2 * WeightUpTo(S, top.value) < TotalWeight(S)
    BY <2>8, <1>1
  <2>10. top.value \in Int /\ WeightUpTo(S, top.value) \in Nat
    BY <1>2, <1>3
  <2> QED BY <2>7, <2>9, <2>10, <1>2
<1> QED BY <1>1, <1>4, <1>5 DEF Between, m

(***************************************************************************)
(* Every aggregation method gives a value between the readings, unless a   *)
(* sum it is made of saturates.                                            *)
(***************************************************************************)
LEMMA AggregatesBetween ==
    ASSUME SampleAssumption, NEW S, IsSample(S), NEW method \in Methods, NEW now \in Nat,
           NEW v \in Aggregates(S, method, now),
           method = "WeightedMedian" \/ SumsFit(S, method, now)
    PROVE  Between(S, v)
<1>1. CASE method = "WeightedMedian"
  <2>1. v = WeightedMedian(S)
    BY <1>1 DEF Aggregates
  <2>2. TotalWeight(S) \in Nat \ {0}
    <3>1. \A r \in S : r.weight \in Nat /\ r.weight > 0
      BY DEF IsSample
    <3>2. PICK r \in S : TRUE
      BY DEF IsSample
    <3> DEFINE f == [x \in S |-> x.weight]
    <3>3. f[r] <= SumFunctionOnSet(f, S) /\ TotalWeight(S) = SumFunctionOnSet(f, S)
      <4>1. IsFiniteSet(S) /\ \A x \in S : f[x] \in Nat
        BY <3>1 DEF IsSample
      <4>2. TotalWeight(S) = SumFunctionOnSet(f, S)
        BY DEF TotalWeight
      <4> HIDE DEF f
      <4> QED BY <4>1, <4>2, SumCovers
    <3>4. TotalWeight(S) \in Nat
      BY WeightOf
    <3> QED BY <3>1, <3>3, <3>4
  <2>3. 2 * TotalWeight(S) > TotalWeight(S)
    BY <2>2
  <2> QED BY <2>1, <2>3, MedianBetween
<1>2. CASE method # "WeightedMedian"
  <2>1. PICK order \in Orders(S, method) : v = Average(order, method, now)
    BY <1>2 DEF Aggregates
  <2> QED BY <1>2, <2>1, AverageBetweenReadings
<1> QED BY <1>1, <1>2

-----------------------------------------------------------------------------
(* The outlier filter. *)

LEMMA RankedIsValue ==
    ASSUME NEW S, IsFiniteSet(S), S # {}, NEW f \in [S -> Int], NEW k \in 1 .. Cardinality(S)
    PROVE  Ranked(f, k) \in Int
<1> DEFINE T == {v \in Range(f) : Cardinality({r \in DOMAIN f : f[r] <= v}) >= k}
<1>1. PICK m \in S : \A x \in S : f[x] <= f[m]
  BY GreatestAt
<1>2. {r \in DOMAIN f : f[r] <= f[m]} = S
  BY <1>1
<1>3. f[m] \in T
  BY <1>2 DEF Range
<1>4. T \in SUBSET Int /\ IsFiniteSet(T)
  <2>1. Range(f) = {f[x] : x \in S}
    BY DEF Range
  <2>2. IsFiniteSet(Range(f))
    BY <2>1, ImageFinite
  <2>3. Range(f) \in SUBSET Int
    BY <2>1
  <2> QED BY <2>2, <2>3, FS_Subset
<1> HIDE DEF T
<1>5. Min(T) \in T
  BY <1>3, <1>4, MinIsLeast
<1> QED BY <1>4, <1>5 DEF Ranked, T

LEMMA QuotientIsInt ==
    ASSUME NEW a \in Int, NEW b \in Nat \ {0}
    PROVE  Quotient(a, b) \in Int
BY DEF Quotient

LEMMA PlainMedianIsInt ==
    ASSUME NEW S, IsFiniteSet(S), S # {}, NEW f \in [S -> Int]
    PROVE  PlainMedian(f) \in Int
<1> DEFINE n == Cardinality(S)
<1>1. n \in Nat \ {0} /\ DOMAIN f = S
  BY FS_CardinalityType, FS_EmptySet
<1> HIDE DEF n
<1>2. n \div 2 + 1 \in 1 .. n /\ (n % 2 # 1 => n \div 2 \in 1 .. n)
  BY <1>1
<1>3. CASE n % 2 = 1
  <2>1. Ranked(f, n \div 2 + 1) \in Int
    BY <1>2, RankedIsValue DEF n
  <2> QED BY <2>1, <1>1, <1>3 DEF PlainMedian, n
<1>4. CASE n % 2 # 1
  <2>1. Ranked(f, n \div 2) \in Int /\ Ranked(f, n \div 2 + 1) \in Int
    BY <1>2, <1>4, RankedIsValue DEF n
  <2>2. Quotient(Ranked(f, n \div 2) + Ranked(f, n \div 2 + 1), 2) \in Int
    BY <2>1, QuotientIsInt
  <2> QED BY <2>2, <1>1, <1>4 DEF PlainMedian, n
<1> QED BY <1>3, <1>4

LEMMA FarthestOne ==
    ASSUME NEW T, IsFiniteSet(T), T # {}, NEW dev, \A r \in T : dev[r] \in Int,
           \A r \in T : r.value \in Int /\ r.weight \in Int
    PROVE  \E x \in T : \A r \in T : ~Farther(r, x, dev)
<1>1. PICK x1 \in T : \A r \in T : dev[r] <= dev[x1]
  BY GreatestAt
<1> DEFINE T1 == {r \in T : dev[r] = dev[x1]}
           f == [r \in T1 |-> r.value]
<1>2. PICK x2 \in T1 : \A r \in T1 : x2.value <= r.value
  <2>1. IsFiniteSet(T1) /\ T1 # {} /\ \A r \in T1 : f[r] = r.value /\ f[r] \in Int
    BY FS_Subset
  <2>2. \E m \in T1 : \A r \in T1 : f[m] <= f[r]
    <3> HIDE DEF f, T1
    <3> QED BY <2>1, LeastAt
  <2> QED BY <2>1, <2>2
<1> DEFINE T2 == {r \in T1 : r.value = x2.value}
           g == [r \in T2 |-> r.weight]
<1>3. PICK x3 \in T2 : \A r \in T2 : x3.weight <= r.weight
  <2>1. IsFiniteSet(T2) /\ T2 # {} /\ \A r \in T2 : g[r] = r.weight /\ g[r] \in Int
    BY FS_Subset
  <2>2. \E m \in T2 : \A r \in T2 : g[m] <= g[r]
    <3> HIDE DEF g, T2
    <3> QED BY <2>1, LeastAt
  <2> QED BY <2>1, <2>2
<1>4. ASSUME NEW r \in T, Farther(r, x3, dev)
      PROVE  FALSE
  <2>1. dev[r] \in Int /\ dev[x3] \in Int /\ dev[r] <= dev[x3]
    BY <1>1
  <2>2. dev[r] = dev[x3] /\ r \in T1
    BY <2>1, <1>4 DEF Farther
  <2>3. x3.value <= r.value /\ r.value \in Int /\ x3.value \in Int
    BY <2>2, <1>2
  <2>4. r.value = x3.value /\ r \in T2
    BY <2>1, <2>2, <2>3, <1>4 DEF Farther
  <2> QED BY <2>1, <2>3, <2>4, <1>3, <1>4 DEF Farther
<1> QED BY <1>4

LEMMA FarthestExist ==
    ASSUME NEW S, IsFiniteSet(S), NEW dev, \A r \in S : dev[r] \in Int,
           \A r \in S : r.value \in Int /\ r.weight \in Int, NEW k \in 0 .. Cardinality(S)
    PROVE  Farthest(S, k, dev) \in SUBSET S /\ Cardinality(Farthest(S, k, dev)) = k
<1> DEFINE First(j, D) == Cardinality(D) = j /\ \A d \in D, r \in S \ D : ~Farther(r, d, dev)
           B == {j \in 0 .. Cardinality(S) : ~ \E D \in SUBSET S : First(j, D)}
<1>1. B = {}
  <2> SUFFICES ASSUME B # {} PROVE FALSE
    OBVIOUS
  <2>1. PICK j \in B : \A i \in B : j <= i
    <3>1. Cardinality(S) \in Nat /\ B \in SUBSET (0 .. Cardinality(S))
      BY FS_CardinalityType
    <3> HIDE DEF B
    <3> QED BY <3>1, LeastIndex
  <2>2. Cardinality(S) \in Nat /\ j \in 0 .. Cardinality(S)
    BY FS_CardinalityType
  <2>3. j # 0
    <3>1. First(0, {})
      BY FS_EmptySet
    <3> HIDE DEF First
    <3> QED BY <3>1
  <2>4. j - 1 \in 0 .. Cardinality(S) /\ j - 1 \notin B
    <3> HIDE DEF B
    <3> QED BY <2>1, <2>2, <2>3
  <2>5. PICK D \in SUBSET S : First(j - 1, D)
    <3> HIDE DEF First
    <3> QED BY <2>4
  <2>6. IsFiniteSet(D) /\ IsFiniteSet(S \ D)
    BY FS_Subset
  <2>7. S \ D # {}
    <3> SUFFICES ASSUME S = D PROVE FALSE
      OBVIOUS
    <3> QED BY <2>2, <2>5
  <2>8. PICK x \in S \ D : \A r \in S \ D : ~Farther(r, x, dev)
    BY <2>6, <2>7, FarthestOne
  <2> DEFINE E == D \cup {x}
  <2>9. Cardinality(E) = j
    <3>1. Cardinality(E) = Cardinality(D) + 1
      BY <2>6, FS_AddElement
    <3> QED BY <3>1, <2>2, <2>5
  <2>10. \A d \in E, r \in S \ E : ~Farther(r, d, dev)
    BY <2>5, <2>8
  <2> QED BY <2>1, <2>9, <2>10
<1>2. \E D \in SUBSET S : First(k, D)
  <2> HIDE DEF First
  <2> QED BY <1>1
<1> QED BY <1>2 DEF Farthest

LEMMA OutliersLeaveSome ==
    ASSUME SampleAssumption, NEW S, IsSample(S), NEW limits \in OutlierConfigs
    PROVE  WithoutOutliers(S, limits) \in SUBSET S /\ WithoutOutliers(S, limits) # {}
<1> DEFINE n == Cardinality(S)
           middle == PlainMedian([r \in S |-> r.value])
           deviation == [r \in S |-> Distance(r.value, middle)]
           odd == {r \in S : Saturated(deviation[r] * FullOdds)
                               > Saturated(limits.threshold * PlainMedian(deviation))}
           k == Min({Cardinality(odd), n - limits.sample})
<1>1. IsFiniteSet(S) /\ S # {} /\ \A r \in S : r.value \in Int /\ r.weight \in Int
  BY DEF IsSample
<1>2. middle \in Int
  <2> DEFINE f == [r \in S |-> r.value]
  <2>1. f \in [S -> Int]
    BY <1>1
  <2> HIDE DEF f
  <2>2. PlainMedian(f) \in Int
    BY <1>1, <2>1, PlainMedianIsInt
  <2> QED BY <2>2 DEF f
<1> HIDE DEF middle
<1>3. \A r \in S : deviation[r] \in Int
  BY <1>1, <1>2 DEF Distance
<1>4. odd \in SUBSET S /\ IsFiniteSet(odd)
  BY <1>1, FS_Subset
<1>5. n \in Nat /\ Cardinality(odd) \in Nat
  BY <1>1, <1>4, FS_CardinalityType
<1>6. limits.sample \in Nat /\ limits.sample > 0
  BY DEF OutlierConfigs, SampleAssumption
<1>7. CASE ~Filters(S, limits)
  BY <1>1, <1>7 DEF WithoutOutliers
<1>8. CASE Filters(S, limits)
  <2>0. n >= limits.sample
    BY <1>8 DEF Filters
  <2>1. WithoutOutliers(S, limits) = S \ Farthest(odd, k, deviation)
    BY <1>8 DEF WithoutOutliers, Deviations, middle
  <2> HIDE DEF odd, deviation, n
  <2>2. n - limits.sample \in Nat /\ n - limits.sample < n
    BY <1>5, <1>6, <2>0
  <2>3. k \in Nat /\ k <= Cardinality(odd) /\ k <= n - limits.sample
    BY <2>2, <1>5, MinOfTwo
  <2> HIDE DEF k
  <2>4. k \in 0 .. Cardinality(odd)
    BY <2>3, <1>5
  <2>5. Farthest(odd, k, deviation) \in SUBSET odd /\ Cardinality(Farthest(odd, k, deviation)) = k
    <3>1. \A r \in odd : deviation[r] \in Int /\ r.value \in Int /\ r.weight \in Int
      BY <1>1, <1>3, <1>4
    <3> QED BY <3>1, <2>4, <1>4, FarthestExist
  <2>6. S # Farthest(odd, k, deviation)
    <3> SUFFICES ASSUME S = Farthest(odd, k, deviation) PROVE FALSE
      OBVIOUS
    <3>1. Cardinality(S) = k
      BY <2>5
    <3> QED BY <3>1, <2>2, <2>3, <1>5, <1>6 DEF n
  <2> QED BY <2>1, <2>5, <2>6, <1>4
<1> QED BY <1>7, <1>8

-----------------------------------------------------------------------------
(* The start. *)

LEMMA InitOK ==
    ASSUME RegistryAssumption, VerifierAssumption, Init
    PROVE  IInv
<1>1. RegistryInv
  <2>1. \A t \in DataTypes, o \in Oracles :
          entry[t][o] = IF t = Home THEN [state |-> "active", weight |-> FounderWeight[o]] ELSE NoEntry
    BY DEF Init, RegistryInit
  <2>2. entry \in [DataTypes -> [Oracles -> Entries]]
    BY DEF Init, RegistryInit, RegistryAssumption, Entries, NoEntry
  <2>3. RegistryExact
    BY <2>1 DEF Init, RegistryInit, RegistryExact, Active, NoEntry
  <2> QED BY <2>1, <2>2, <2>3 DEF Init, RegistryInit, RegistryInv, NoEntry
<1>2. NumbersOK
  <2>1. NoRequest \in Requests
    BY DEF NoRequest, Requests
  <2>2. InitialStake \in Nat /\ StartTime \in Nat /\ InitialChallenge \in Nat
    BY DEF RegistryAssumption
  <2>3. rules.staleSlash \in Nat
    BY DEF Init, VerifierAssumption, GlobalSettings
  <2> QED BY <2>1, <2>2, <2>3 DEF Init, RegistryInit, NumbersOK
<1>3. WaitingInv
  BY DEF Init, RegistryInit, RegistryAssumption, WaitingInv, Never
<1>4. ReadingInv
  BY DEF Init, ReadingInv, DeskOK, VoiceOf, Marks
<1> QED BY <1>1, <1>2, <1>3, <1>4 DEF IInv

-----------------------------------------------------------------------------
(* Registration. *)

\* What the actions of the registry leave alone.
ReadingsStay == UNCHANGED <<readingVars, ruleVars>>

\* An oracle that left a type does not come back to it.
NoReturn ==
    \A t \in DataTypes, o \in Oracles :
        entry[t][o].state = "inactive" => entry'[t][o].state = "inactive"

LEMMA ReadingsKept ==
    ASSUME ReadingInv, UNCHANGED <<points, newest>>
    PROVE  ReadingInv'
BY DEF ReadingInv, DeskOK, VoiceOf, Marks

LEMMA RegistryKept ==
    ASSUME RegistryInv, UNCHANGED registryVars
    PROVE  RegistryInv' /\ NoReturn
BY DEF RegistryInv, registryVars, RegistryExact, Active, NoReturn

LEMMA WaitingKept ==
    ASSUME WaitingInv, NoReturn, UNCHANGED <<request, lastSubmission, clock>>
    PROVE  WaitingInv'
BY DEF WaitingInv, NoReturn

LEMMA NumbersKept ==
    ASSUME NumbersOK, UNCHANGED <<stake, request, lastSubmission, clock, challenge, rules>>
    PROVE  NumbersOK'
BY DEF NumbersOK

LEMMA AddOracleKeeps ==
    ASSUME RegistryAssumption, RegistryInv, NEW t \in DataTypes, NEW o \in Oracles,
           NEW w \in Weights, AddOracle(t, o, w)
    PROVE  RegistryInv' /\ NoReturn
<1>1. entry' = [entry EXCEPT ![t][o] = [state |-> "active", weight |-> w]]
  BY DEF AddOracle, Register
<1>2. /\ entry' \in [DataTypes -> [Oracles -> Entries]]
      /\ \A u \in DataTypes, x \in Oracles :
            entry'[u][x] = IF u = t /\ x = o THEN [state |-> "active", weight |-> w] ELSE entry[u][x]
  BY <1>1 DEF RegistryInv, Entries, RegistryAssumption
<1>3. entry[t][o].state = "none"
  BY DEF AddOracle, Register, NoEntry
<1>4. RegistryExact'
  <2>1. ASSUME NEW u \in DataTypes
        PROVE  listed'[u] = {x \in Oracles : entry'[u][x].state = "active"}
    BY <1>2 DEF RegistryInv, RegistryExact, Active, AddOracle, Register
  <2>2. ASSUME NEW x \in Oracles \ removedAgain', NEW u \in DataTypes, entry'[u][x].state = "active"
        PROVE  x \in known' /\ \A v \in DataTypes \ {u} : entry'[v][x].state # "active"
    <3>1. CASE x = o
      <4>1. \A v \in DataTypes : entry[v][o].state # "active"
        BY <3>1, <2>2 DEF RegistryInv, RegistryExact, Active, AddOracle, Register
      <4> QED BY <3>1, <4>1, <2>2, <1>2 DEF AddOracle, Register
    <3>2. CASE x # o
      BY <3>2, <2>2, <1>2 DEF RegistryInv, RegistryExact, Active, AddOracle, Register
    <3> QED BY <3>1, <3>2
  <2> QED BY <2>1, <2>2 DEF RegistryExact, Active
<1>5. listed' \in [DataTypes -> SUBSET Oracles]
  BY DEF RegistryInv, AddOracle, Register
<1>6. NoReturn
  BY <1>2, <1>3 DEF NoReturn
<1> QED BY <1>2, <1>4, <1>5, <1>6 DEF RegistryInv

LEMMA UpdateOracleWeightKeeps ==
    ASSUME RegistryAssumption, RegistryInv, NEW t \in DataTypes, NEW o \in Oracles,
           NEW w \in Weights, UpdateOracleWeight(t, o, w)
    PROVE  RegistryInv' /\ NoReturn
<1>1. /\ entry' \in [DataTypes -> [Oracles -> Entries]]
      /\ \A u \in DataTypes, x \in Oracles :
            /\ entry'[u][x].state = entry[u][x].state
            /\ u # t \/ x # o => entry'[u][x] = entry[u][x]
  <2>1. entry[t][o] \in Entries /\ w \in Nat
    BY DEF RegistryInv, RegistryAssumption
  <2>2. [entry[t][o] EXCEPT !.weight = w] = [state |-> entry[t][o].state, weight |-> w]
    BY <2>1 DEF Entries
  <2>3. entry' = [entry EXCEPT ![t] = [entry[t] EXCEPT ![o] = [state |-> entry[t][o].state, weight |-> w]]]
    BY <2>2 DEF UpdateOracleWeight
  <2>4. [state |-> entry[t][o].state, weight |-> w] \in Entries
    BY <2>1 DEF Entries
  <2> QED BY <2>3, <2>4 DEF RegistryInv
<1>2. entry[t][o].state # "none"
  BY DEF RegistryInv, UpdateOracleWeight
<1>3. RegistryExact'
  BY <1>1 DEF RegistryInv, RegistryExact, Active, UpdateOracleWeight
<1> QED BY <1>1, <1>2, <1>3 DEF RegistryInv, NoReturn, UpdateOracleWeight

LEMMA DeactivateKeeps ==
    ASSUME RegistryInv, NEW t \in DataTypes, NEW gone \in SUBSET Oracles, Deactivate(t, gone),
           \A o \in gone : entry[t][o].state # "none"
    PROVE  RegistryInv' /\ NoReturn
<1>1. /\ entry' \in [DataTypes -> [Oracles -> Entries]]
      /\ \A u \in DataTypes, x \in Oracles :
            entry'[u][x] = IF u = t /\ x \in gone
                           THEN [state |-> "inactive", weight |-> entry[t][x].weight]
                           ELSE entry[u][x]
  <2>1. \A x \in Oracles :
          /\ entry[t][x] \in Entries
          /\ [state |-> "inactive", weight |-> entry[t][x].weight] \in Entries
          /\ [entry[t][x] EXCEPT !.state = "inactive"] = [state |-> "inactive", weight |-> entry[t][x].weight]
    BY DEF RegistryInv, Entries
  <2>2. entry' = [entry EXCEPT ![t] = [x \in Oracles |->
                    IF x \in gone THEN [state |-> "inactive", weight |-> entry[t][x].weight] ELSE entry[t][x]]]
    BY <2>1 DEF Deactivate
  <2> QED BY <2>1, <2>2 DEF RegistryInv
<1>2. \A u \in DataTypes, x \in Oracles :
         entry'[u][x].state = IF u = t /\ x \in gone THEN "inactive" ELSE entry[u][x].state
  <2> TAKE u \in DataTypes, x \in Oracles
  <2>1. CASE u = t /\ x \in gone
    <3>1. entry'[u][x] = [state |-> "inactive", weight |-> entry[t][x].weight]
      BY <1>1, <2>1
    <3> QED BY <3>1, <2>1
  <2>2. CASE ~(u = t /\ x \in gone)
    BY <1>1, <2>2
  <2> QED BY <2>1, <2>2
<1>3. RegistryExact'
  <2>1. ASSUME NEW u \in DataTypes
        PROVE  listed'[u] = {x \in Oracles : entry'[u][x].state = "active"}
    BY <1>2 DEF RegistryInv, RegistryExact, Active, Deactivate
  <2>2. ASSUME NEW x \in Oracles \ removedAgain', NEW u \in DataTypes, entry'[u][x].state = "active"
        PROVE  x \in known' /\ \A v \in DataTypes \ {u} : entry'[v][x].state # "active"
    <3>1. entry[u][x].state = "active" /\ x \notin removedAgain
      BY <2>2, <1>2 DEF Deactivate
    <3>2. x \in known /\ \A v \in DataTypes \ {u} : entry[v][x].state # "active"
      BY <3>1 DEF RegistryInv, RegistryExact, Active
    <3>3. x \notin gone
      <4>1. SUFFICES ASSUME x \in gone PROVE FALSE
        OBVIOUS
      <4>2. u # t
        BY <4>1, <2>2, <1>2
      <4>3. x \in removedAgain'
        BY <4>1, <4>2, <3>1, <3>2 DEF Deactivate, Active
      <4> QED BY <4>3, <2>2
    <3> QED BY <3>2, <3>3, <1>2 DEF Deactivate
  <2> QED BY <2>1, <2>2 DEF RegistryExact, Active
<1>4. listed' \in [DataTypes -> SUBSET Oracles]
  BY DEF RegistryInv, Deactivate
<1>5. \A u \in DataTypes, x \in Oracles : entry'[u][x].state = "none" => entry'[u][x] = NoEntry
  <2> TAKE u \in DataTypes, x \in Oracles
  <2>1. CASE u = t /\ x \in gone
    BY <1>2, <2>1
  <2>2. CASE ~(u = t /\ x \in gone)
    BY <1>1, <2>2 DEF RegistryInv
  <2> QED BY <2>1, <2>2
<1>6. NoReturn
  BY <1>2 DEF NoReturn
<1> QED BY <1>1, <1>3, <1>4, <1>5, <1>6 DEF RegistryInv

-----------------------------------------------------------------------------
(* Stake. *)

LEMMA StakeKeeps ==
    ASSUME RegistryAssumption, NumbersOK, WaitingInv, RegistryInv, NEW t \in DataTypes,
           NEW o \in Oracles, NEW amount \in StakeAmounts, Stake(t, o, amount), ReadingsStay
    PROVE  RegistryInv' /\ NumbersOK' /\ WaitingInv'
<1>1. amount \in Nat
  BY DEF RegistryAssumption
<1>2. stake' \in [DataTypes -> [Oracles -> Nat]]
  BY <1>1 DEF NumbersOK, Stake
<1>3. NumbersOK'
  BY <1>2 DEF NumbersOK, Stake, limitVars, ReadingsStay, ruleVars
<1> QED BY <1>3, RegistryKept, WaitingKept DEF Stake

LEMMA RequestKeeps ==
    ASSUME NumbersOK, WaitingInv, RegistryInv, NEW t \in DataTypes, NEW o \in Oracles,
           RequestStakeWithdrawal(t, o), ReadingsStay
    PROVE  RegistryInv' /\ NumbersOK' /\ WaitingInv'
<1> DEFINE new == [amount |-> stake[t][o], asked |-> clock, unlock |-> clock + challenge,
                   early |-> entry[t][o] = NoEntry]
<1>1. new \in Requests /\ request' = [request EXCEPT ![t][o] = new]
  BY DEF NumbersOK, Requests, RequestStakeWithdrawal, AskForStake
<1>2. /\ request' \in [DataTypes -> [Oracles -> Requests]]
      /\ request'[t][o] = new
      /\ \A u \in DataTypes, x \in Oracles : u # t \/ x # o => request'[u][x] = request[u][x]
  BY <1>1 DEF NumbersOK
<1>3. NumbersOK'
  BY <1>2 DEF NumbersOK, RequestStakeWithdrawal, AskForStake, limitVars, ReadingsStay, ruleVars
<1>4. UNCHANGED <<registryVars, lastSubmission, clock>>
  BY DEF RequestStakeWithdrawal, AskForStake
<1>5. ASSUME ~new.early
      PROVE  entry[t][o].state = "inactive" /\ lastSubmission[t][o] <= new.asked
  <2>1. entry[t][o] # NoEntry /\ entry[t][o].state # "active" /\ entry[t][o] \in Entries
    BY <1>5 DEF RegistryInv, RequestStakeWithdrawal, Active
  <2>2. entry[t][o].state # "none"
    BY <2>1 DEF RegistryInv
  <2> QED BY <2>1, <2>2 DEF Entries, WaitingInv
<1>6. WaitingInv'
  <2>1. ASSUME NEW u \in DataTypes, NEW x \in Oracles,
               request'[u][x] # NoRequest, ~request'[u][x].early
        PROVE  entry[u][x].state = "inactive" /\ lastSubmission[u][x] <= request'[u][x].asked
    <3>1. CASE u = t /\ x = o
      BY <3>1, <2>1, <1>2, <1>5
    <3>2. CASE ~(u = t /\ x = o)
      BY <3>2, <2>1, <1>2 DEF WaitingInv
    <3> QED BY <3>1, <3>2
  <2> QED BY <2>1, <1>4 DEF WaitingInv, registryVars
<1> QED BY <1>3, <1>4, <1>6, RegistryKept

LEMMA RequestGone ==
    ASSUME NumbersOK, WaitingInv, RegistryInv, NEW t \in DataTypes, NEW o \in Oracles,
           request' = [request EXCEPT ![t][o] = NoRequest], NoReturn,
           UNCHANGED <<lastSubmission, clock>>
    PROVE  /\ WaitingInv'
           /\ request' \in [DataTypes -> [Oracles -> Requests]]
<1>1. NoRequest \in Requests
  BY DEF NoRequest, Requests
<1> QED BY <1>1 DEF NumbersOK, WaitingInv, NoReturn

LEMMA CancelKeeps ==
    ASSUME NumbersOK, WaitingInv, RegistryInv, NEW t \in DataTypes, NEW o \in Oracles,
           CancelStakeWithdrawal(t, o), ReadingsStay
    PROVE  RegistryInv' /\ NumbersOK' /\ WaitingInv'
<1>1. RegistryInv' /\ NoReturn
  BY RegistryKept DEF CancelStakeWithdrawal
<1>2. WaitingInv' /\ request' \in [DataTypes -> [Oracles -> Requests]]
  BY <1>1, RequestGone DEF CancelStakeWithdrawal
<1> QED BY <1>1, <1>2 DEF NumbersOK, CancelStakeWithdrawal, limitVars, ReadingsStay, ruleVars

LEMMA WithdrawKeeps ==
    ASSUME NumbersOK, WaitingInv, RegistryInv, NEW t \in DataTypes, NEW o \in Oracles,
           WithdrawStake(t, o), ReadingsStay
    PROVE  RegistryInv' /\ NumbersOK' /\ WaitingInv'
<1> DEFINE paid == Min({stake[t][o], request[t][o].amount})
<1>1. RegistryInv' /\ NoReturn
  BY RegistryKept DEF WithdrawStake
<1>2. WaitingInv' /\ request' \in [DataTypes -> [Oracles -> Requests]]
  BY <1>1, RequestGone DEF WithdrawStake
<1>3. stake[t][o] \in Nat /\ request[t][o].amount \in Nat
  BY DEF NumbersOK, Requests
<1>4. stake[t][o] - paid \in Nat
  BY <1>3, MinOfTwo
<1>5. stake' = [stake EXCEPT ![t][o] = stake[t][o] - paid]
  BY DEF WithdrawStake
<1>6. stake' \in [DataTypes -> [Oracles -> Nat]]
  <2> HIDE DEF paid
  <2> QED BY <1>4, <1>5 DEF NumbersOK
<1> QED BY <1>1, <1>2, <1>6 DEF NumbersOK, WithdrawStake, limitVars, ReadingsStay, ruleVars

\* Slashing takes no more than there is, and at most ends the registration.
LEMMA SlashEntry ==
    ASSUME RegistryInv, NEW t \in DataTypes, NEW o \in Oracles, NEW slashed, Slash(t, o, slashed)
    PROVE  RegistryInv' /\ NoReturn
<1> DEFINE out == minStake > 0 /\ stake[t][o] - slashed < minStake /\ Active(t, o)
<1>1. CASE out
  <2>1. entry[t][o] \in Entries
    BY DEF RegistryInv
  <2>2. [entry[t][o] EXCEPT !.state = "inactive"] = [state |-> "inactive", weight |-> entry[t][o].weight]
    BY <2>1 DEF Entries
  <2>3. [state |-> "inactive", weight |-> entry[t][o].weight] \in Entries
    BY <2>1 DEF Entries
  <2>4. /\ entry' = [entry EXCEPT ![t] = [entry[t] EXCEPT ![o] =
                       [state |-> "inactive", weight |-> entry[t][o].weight]]]
        /\ listed' = [listed EXCEPT ![t] = listed[t] \ {o}]
        /\ UNCHANGED <<known, removedAgain>>
    BY <1>1, <2>2 DEF Slash
  <2>5. /\ entry' \in [DataTypes -> [Oracles -> Entries]]
        /\ entry'[t][o] = [state |-> "inactive", weight |-> entry[t][o].weight]
        /\ \A u \in DataTypes, x \in Oracles : u # t \/ x # o => entry'[u][x] = entry[u][x]
    BY <2>3, <2>4 DEF RegistryInv
  <2>6. entry'[t][o].state = "inactive"
    BY <2>5
  <2>7. listed' \in [DataTypes -> SUBSET Oracles]
    BY <2>4 DEF RegistryInv
  <2>8. RegistryExact'
    <3>1. ASSUME NEW u \in DataTypes
          PROVE  listed'[u] = {x \in Oracles : entry'[u][x].state = "active"}
      <4>1. listed[u] = {x \in Oracles : entry[u][x].state = "active"}
        BY DEF RegistryInv, RegistryExact, Active
      <4>2. CASE u = t
        <5>1. listed'[u] = listed[u] \ {o}
          BY <4>2, <2>4 DEF RegistryInv
        <5> QED BY <4>1, <4>2, <5>1, <2>5, <2>6
      <4>3. CASE u # t
        BY <4>1, <4>3, <2>4, <2>5 DEF RegistryInv
      <4> QED BY <4>2, <4>3
    <3>2. ASSUME NEW x \in Oracles \ removedAgain', NEW u \in DataTypes, entry'[u][x].state = "active"
          PROVE  x \in known' /\ \A v \in DataTypes \ {u} : entry'[v][x].state # "active"
      <4>1. entry[u][x].state = "active"
        BY <3>2, <2>5, <2>6
      <4>2. x \in known /\ \A v \in DataTypes \ {u} : entry[v][x].state # "active"
        BY <4>1, <3>2, <2>4 DEF RegistryInv, RegistryExact, Active
      <4>3. \A v \in DataTypes \ {u} : entry'[v][x].state # "active"
        BY <4>2, <2>5, <2>6
      <4> QED BY <4>2, <4>3, <2>4
    <3> QED BY <3>1, <3>2 DEF RegistryExact, Active
  <2>9. \A u \in DataTypes, x \in Oracles : entry'[u][x].state = "none" => entry'[u][x] = NoEntry
    BY <2>5, <2>6 DEF RegistryInv
  <2>10. NoReturn
    BY <2>5, <2>6 DEF NoReturn
  <2> QED BY <2>5, <2>7, <2>8, <2>9, <2>10 DEF RegistryInv
<1>2. CASE ~out
  <2>1. entry[t][o] \in Entries
    BY DEF RegistryInv
  <2>2. [entry[t][o] EXCEPT !.state = entry[t][o].state] = entry[t][o]
    BY <2>1 DEF Entries
  <2>3. entry' = [entry EXCEPT ![t] = [entry[t] EXCEPT ![o] = entry[t][o]]]
    BY <1>2, <2>2 DEF Slash
  <2>4. entry' = entry
    BY <2>3 DEF RegistryInv
  <2>5. listed' = listed
    BY <1>2 DEF Slash, RegistryInv
  <2>6. UNCHANGED registryVars
    BY <2>4, <2>5 DEF Slash, registryVars
  <2> QED BY <2>6, RegistryKept
<1> QED BY <1>1, <1>2

LEMMA SlashKeeps ==
    ASSUME NumbersOK, WaitingInv, RegistryInv, RegistryAssumption, NEW t \in DataTypes,
           NEW o \in Oracles, NEW amount \in StakeAmounts, SlashOracle(t, o, amount), ReadingsStay
    PROVE  RegistryInv' /\ NumbersOK' /\ WaitingInv'
<1> DEFINE slashed == Min({amount, stake[t][o]})
<1>1. amount \in Nat /\ stake[t][o] \in Nat
  BY DEF RegistryAssumption, NumbersOK
<1>2. slashed \in Nat /\ stake[t][o] - slashed \in Nat
  BY <1>1, MinOfTwo
<1>3. Slash(t, o, slashed)
  BY DEF SlashOracle
<1> HIDE DEF slashed
<1>4. RegistryInv' /\ NoReturn
  BY <1>3, SlashEntry
<1>5. stake' \in [DataTypes -> [Oracles -> Nat]]
  BY <1>2, <1>3 DEF Slash, NumbersOK
<1>6. request[t][o] \in Requests
  BY DEF NumbersOK
<1>7. CASE request[t][o].amount <= slashed
  <2>1. request' = [request EXCEPT ![t][o] = NoRequest]
    BY <1>3, <1>7 DEF Slash, SlashedRequest
  <2>2. UNCHANGED <<lastSubmission, clock, challenge, rules>>
    BY <1>3 DEF Slash, limitVars, ReadingsStay, ruleVars
  <2>3. WaitingInv' /\ request' \in [DataTypes -> [Oracles -> Requests]]
    BY <1>4, <2>1, <2>2, RequestGone
  <2> QED BY <1>4, <1>5, <2>2, <2>3 DEF NumbersOK
<1>8. CASE ~(request[t][o].amount <= slashed)
  <2> DEFINE less == [request[t][o] EXCEPT !.amount = request[t][o].amount - slashed]
  <2>1. /\ less \in Requests
        /\ less.early = request[t][o].early /\ less.asked = request[t][o].asked
    BY <1>2, <1>6, <1>8 DEF Requests
  <2>2. request' = [request EXCEPT ![t][o] = less]
    BY <1>3, <1>8 DEF Slash, SlashedRequest
  <2> HIDE DEF less
  <2>3. /\ request' \in [DataTypes -> [Oracles -> Requests]]
        /\ request'[t][o] = less
        /\ \A u \in DataTypes, x \in Oracles : u # t \/ x # o => request'[u][x] = request[u][x]
    BY <2>1, <2>2 DEF NumbersOK
  <2>4. UNCHANGED <<lastSubmission, clock, challenge, rules>>
    BY <1>3 DEF Slash, limitVars, ReadingsStay, ruleVars
  <2>5. request[t][o] # NoRequest
    BY <1>2, <1>6, <1>8 DEF NoRequest, Requests
  <2>6. ASSUME NEW u \in DataTypes, NEW x \in Oracles,
               request'[u][x] # NoRequest, ~request'[u][x].early
        PROVE  entry'[u][x].state = "inactive" /\ lastSubmission[u][x] <= request'[u][x].asked
    <3>1. CASE u = t /\ x = o
      <4>1. entry[t][o].state = "inactive" /\ lastSubmission[t][o] <= request[t][o].asked
        BY <3>1, <2>1, <2>3, <2>5, <2>6 DEF WaitingInv
      <4> QED BY <3>1, <4>1, <2>1, <2>3, <1>4 DEF NoReturn
    <3>2. CASE ~(u = t /\ x = o)
      BY <3>2, <2>3, <2>6, <1>4 DEF WaitingInv, NoReturn
    <3> QED BY <3>1, <3>2
  <2>7. WaitingInv'
    BY <2>4, <2>6 DEF WaitingInv
  <2> QED BY <1>4, <1>5, <2>3, <2>4, <2>7 DEF NumbersOK
<1> QED BY <1>7, <1>8

-----------------------------------------------------------------------------
(* Readings. *)

DeskInv(d) ==
    /\ d = [points |-> d.points, newest |-> d.newest, stale |-> d.stale, stake |-> d.stake,
            score |-> d.score, gone |-> d.gone]
    /\ DeskOK(d.points, d.newest)
    /\ d.stake \in [Oracles -> Nat]

LEMMA DeskStart ==
    ASSUME NumbersOK, ReadingInv, NEW t \in DataTypes
    PROVE  DeskInv(Desk(t))
BY DEF DeskInv, Desk, NumbersOK, ReadingInv

LEMMA VoiceStep ==
    ASSUME NEW t, NEW o \in Oracles, NEW r, r.ts \in Nat, NEW stored, NEW marks,
           marks \in [Oracles -> Nat \cup {Never}], VoiceOf(stored, marks)
    PROVE  VoiceOf(Retained(t, o, stored) \cup {Point(o, r)}, [marks EXCEPT ![o] = r.ts])
<1>1. Point(o, r).oracle = o /\ Point(o, r).ts = r.ts
  BY DEF Point
<1>2. \A p \in Retained(t, o, stored) : p \in stored /\ p.oracle # o
  BY DEF Retained
<1> QED BY <1>1, <1>2 DEF VoiceOf

LEMMA FreshDesk ==
    ASSUME NEW d, DeskInv(d), NEW t, NEW k \in Keys, NEW o \in Oracles, NEW r, r.ts \in Nat
    PROVE  DeskInv(AfterFresh(d, t, k, o, r))
<1> DEFINE new == Retained(t, o, d.points[k]) \cup {Point(o, r)}
           stored == [d.points EXCEPT ![k] = new]
           marks == [d.newest EXCEPT ![k] = [d.newest[k] EXCEPT ![o] = r.ts]]
<1>1. AfterFresh(d, t, k, o, r) =
        [points |-> stored, newest |-> marks, stale |-> d.stale, stake |-> d.stake,
         score |-> d.score, gone |-> d.gone]
  <2>1. AfterFresh(d, t, k, o, r) = [d EXCEPT !.points[k] = new, !.newest[k][o] = r.ts]
    BY DEF AfterFresh
  <2> HIDE DEF new
  <2> QED BY <2>1 DEF DeskInv
<1>2. VoiceOf(new, [d.newest[k] EXCEPT ![o] = r.ts])
  BY VoiceStep DEF DeskInv, DeskOK, Marks
<1>3. marks \in Marks
  BY DEF DeskInv, DeskOK, Marks
<1>4. /\ stored = [x \in Keys |-> stored[x]]
      /\ stored[k] = new
      /\ \A x \in Keys \ {k} : stored[x] = d.points[x]
  <2> HIDE DEF new
  <2> QED BY DEF DeskInv, DeskOK
<1>5. /\ marks[k] = [d.newest[k] EXCEPT ![o] = r.ts]
      /\ \A x \in Keys \ {k} : marks[x] = d.newest[x]
  BY DEF DeskInv, DeskOK, Marks
<1> HIDE DEF new, stored, marks
<1>6. DeskOK(stored, marks)
  BY <1>2, <1>3, <1>4, <1>5 DEF DeskInv, DeskOK
<1> QED BY <1>1, <1>6 DEF DeskInv

LEMMA StaleDesk ==
    ASSUME NEW d, DeskInv(d), rules.staleSlash \in Nat, NEW o \in Oracles
    PROVE  DeskInv(AfterStale(d, o))
<1> DEFINE count == d.stale[o] + 1
           penal == rules.staleThreshold > 0 /\ count >= rules.staleThreshold
           slashed == Min({rules.staleSlash, d.stake[o]})
           score == Max({0, d.score[o].score - rules.stalePenalty})
           less == [d.stake EXCEPT ![o] = d.stake[o] - slashed]
<1>1. d.stake[o] \in Nat
  BY DEF DeskInv
<1>2. slashed \in Nat /\ d.stake[o] - slashed \in Nat
  BY <1>1, MinOfTwo
<1>3. less \in [Oracles -> Nat]
  <2> HIDE DEF slashed
  <2> QED BY <1>2 DEF DeskInv
<1>4. CASE ~penal
  <2>1. AfterStale(d, o) = [d EXCEPT !.stale = [d.stale EXCEPT ![o] = count]]
    BY <1>4 DEF AfterStale
  <2>2. AfterStale(d, o) =
          [points |-> d.points, newest |-> d.newest, stale |-> [d.stale EXCEPT ![o] = count],
           stake |-> d.stake, score |-> d.score, gone |-> d.gone]
    BY <2>1 DEF DeskInv
  <2> QED BY <2>2 DEF DeskInv
<1>5. CASE penal
  <2>1. AfterStale(d, o) =
          [d EXCEPT !.stale[o] = 0, !.stake[o] = d.stake[o] - slashed, !.gone = d.gone + slashed,
                    !.score[o].score = score]
    BY <1>5 DEF AfterStale
  <2> HIDE DEF slashed, score
  <2>2. AfterStale(d, o) =
          [points |-> d.points, newest |-> d.newest, stale |-> [d.stale EXCEPT ![o] = 0],
           stake |-> less,
           score |-> [d.score EXCEPT ![o] = [d.score[o] EXCEPT !.score = score]],
           gone |-> d.gone + slashed]
    BY <2>1 DEF DeskInv
  <2> HIDE DEF less
  <2> QED BY <1>3, <2>2 DEF DeskInv
<1> QED BY <1>4, <1>5

LEMMA ReadingDesk ==
    ASSUME NEW d, DeskInv(d), rules.staleSlash \in Nat, NEW t, NEW k \in Keys, NEW o \in Oracles,
           NEW r, r.ts \in Nat
    PROVE  DeskInv(AfterReading(d, t, k, o, r))
BY FreshDesk, StaleDesk DEF AfterReading

LEMMA ResetDesk ==
    ASSUME NEW d, DeskInv(d), NEW o
    PROVE  DeskInv(Reset(d, o))
<1>1. Reset(d, o) = [points |-> d.points, newest |-> d.newest, stale |-> [d.stale EXCEPT ![o] = 0],
                     stake |-> d.stake, score |-> d.score, gone |-> d.gone]
  BY DEF Reset, DeskInv
<1> QED BY <1>1 DEF DeskInv

\* Only an active oracle submits, so none whose stake waits.
LEMMA ReportKeeps ==
    ASSUME IInv, NEW t \in DataTypes, NEW o \in Oracles, Active(t, o), NEW d, DeskInv(d),
           Become(t, d), Reported(t, o)
    PROVE  IInv'
<1>1. RegistryInv' /\ NoReturn
  BY RegistryKept DEF IInv, Reported
<1>2. NumbersOK'
  <2>1. stake' \in [DataTypes -> [Oracles -> Nat]]
    BY DEF IInv, NumbersOK, Become, DeskInv
  <2>2. lastSubmission' \in [DataTypes -> [Oracles -> Nat \cup {Never}]]
    BY DEF IInv, NumbersOK, Reported
  <2> QED BY <2>1, <2>2 DEF IInv, NumbersOK, Reported, limitVars, ruleVars
<1>3. /\ lastSubmission'[t][o] = clock
      /\ \A u \in DataTypes, x \in Oracles : u # t \/ x # o => lastSubmission'[u][x] = lastSubmission[u][x]
  BY DEF IInv, NumbersOK, Reported
<1>4. WaitingInv'
  <2>1. \A u \in DataTypes, x \in Oracles : lastSubmission'[u][x] <= clock
    BY <1>3 DEF IInv, WaitingInv, NumbersOK
  <2>2. ASSUME NEW u \in DataTypes, NEW x \in Oracles, request[u][x] # NoRequest, ~request[u][x].early
        PROVE  entry'[u][x].state = "inactive" /\ lastSubmission'[u][x] <= request[u][x].asked
    <3>1. entry[u][x].state = "inactive" /\ lastSubmission[u][x] <= request[u][x].asked
      BY <2>2 DEF IInv, WaitingInv
    <3>2. u # t \/ x # o
      BY <3>1 DEF Active
    <3> QED BY <3>1, <3>2, <1>1, <1>3 DEF NoReturn
  <2> QED BY <2>1, <2>2 DEF WaitingInv, Reported
<1>5. ReadingInv'
  <2>1. /\ points' = [points EXCEPT ![t] = d.points]
        /\ newest' = [newest EXCEPT ![t] = d.newest]
    BY DEF Become
  <2>2. ASSUME NEW u \in DataTypes
        PROVE  DeskOK(points'[u], newest'[u])
    <3>1. CASE u = t
      <4>1. points'[u] = d.points /\ newest'[u] = d.newest
        BY <2>1, <3>1 DEF IInv, ReadingInv
      <4> QED BY <4>1 DEF DeskInv
    <3>2. CASE u # t
      <4>1. points'[u] = points[u] /\ newest'[u] = newest[u]
        BY <2>1, <3>2 DEF IInv, ReadingInv
      <4> QED BY <4>1 DEF IInv, ReadingInv
    <3> QED BY <3>1, <3>2
  <2>3. points' = [u \in DataTypes |-> points'[u]] /\ newest' = [u \in DataTypes |-> newest'[u]]
    BY <2>1 DEF IInv, ReadingInv
  <2> HIDE DEF DeskOK
  <2>4. \A u \in DataTypes : DeskOK(points'[u], newest'[u])
    BY <2>2
  <2> QED BY <2>3, <2>4 DEF ReadingInv, DeskOK, VoiceOf, Marks
<1> QED BY <1>1, <1>2, <1>4, <1>5 DEF IInv

LEMMA SubmitDataKeeps ==
    ASSUME IInv, VerifierAssumption, NEW t \in DataTypes, NEW k \in Keys, NEW o \in Oracles,
           NEW r \in Readings, SubmitData(t, k, o, r)
    PROVE  IInv'
<1> DEFINE d == AfterReading(Desk(t), t, k, o, r)
           isFresh == Age(r.ts) <= MaxAge(t)
           new == IF isFresh THEN Reset(d, o) ELSE d
<1>1. r.ts \in Nat
  BY DEF VerifierAssumption
<1>2. DeskInv(d)
  BY <1>1, DeskStart, ReadingDesk DEF IInv, NumbersOK
<1>3. DeskInv(new)
  <2> HIDE DEF d
  <2> QED BY <1>2, ResetDesk
<1>4. Active(t, o) /\ Become(t, new) /\ Reported(t, o)
  BY DEF SubmitData, MayReport
<1> HIDE DEF new
<1> QED BY <1>3, <1>4, ReportKeeps

\* g is what the recursion of DeskAfter computes for the first n readings.
BatchSolves(t, o, batch, n, g) ==
    g = [i \in 0 .. n |-> IF i = 0 THEN Desk(t)
                          ELSE AfterReading(g[i - 1], t, batch[i].key, o, batch[i])]

\* The recursion has a solution, so DeskAfter is one.
LEMMA BatchStates ==
    ASSUME NEW t, NEW o, NEW batch, Len(batch) \in Nat
    PROVE  /\ DeskAfter(t, o, batch)[0] = Desk(t)
           /\ \A i \in 1 .. Len(batch) :
                 DeskAfter(t, o, batch)[i] =
                   AfterReading(DeskAfter(t, o, batch)[i - 1], t, batch[i].key, o, batch[i])
<1> DEFINE n == Len(batch)
           Later(d, i) == AfterReading(d, t, batch[i].key, o, batch[i])
           Good == {m \in 0 .. n : \E g : BatchSolves(t, o, batch, m, g)}
<1>1. n \in Nat
  OBVIOUS
<1>2. 0 \in Good
  <2> DEFINE g == [i \in 0 .. 0 |-> Desk(t)]
  <2>1. BatchSolves(t, o, batch, 0, g)
    <3>1. g = [i \in 0 .. 0 |-> IF i = 0 THEN Desk(t) ELSE Later(g[i - 1], i)]
      OBVIOUS
    <3> QED BY <3>1 DEF BatchSolves
  <2> QED BY <1>1, <2>1
<1>3. ASSUME NEW m \in 1 .. n, m - 1 \in Good
      PROVE  m \in Good
  <2>1. PICK g : BatchSolves(t, o, batch, m - 1, g)
    BY <1>3
  <2> DEFINE new == Later(g[m - 1], m)
             h == [i \in 0 .. m |-> IF i = m THEN new ELSE g[i]]
  <2>2. \A i \in 0 .. (m - 1) : g[i] = IF i = 0 THEN Desk(t) ELSE Later(g[i - 1], i)
    BY <2>1 DEF BatchSolves
  <2> HIDE DEF Later
  <2>3. ASSUME NEW i \in 0 .. m
        PROVE  h[i] = IF i = 0 THEN Desk(t) ELSE Later(h[i - 1], i)
    <3>1. CASE i = m
      <4>1. h[i] = Later(g[m - 1], m) /\ h[m - 1] = g[m - 1] /\ i # 0
        BY <3>1
      <4> QED BY <3>1, <4>1
    <3>2. CASE i # m
      <4>1. i \in 0 .. (m - 1) /\ h[i] = g[i] /\ (i # 0 => h[i - 1] = g[i - 1])
        BY <3>2
      <4> QED BY <2>2, <4>1
    <3> QED BY <3>1, <3>2
  <2>4. h = [i \in 0 .. m |-> h[i]]
    OBVIOUS
  <2> HIDE DEF h
  <2>5. h = [i \in 0 .. m |-> IF i = 0 THEN Desk(t) ELSE Later(h[i - 1], i)]
    BY <2>3, <2>4
  <2>6. BatchSolves(t, o, batch, m, h)
    BY <2>5 DEF BatchSolves, Later
  <2> QED BY <2>6
<1>4. n \in Good
  <2>1. Good \in SUBSET (0 .. n)
    OBVIOUS
  <2> HIDE DEF Good, n
  <2>2. Good = 0 .. n
    BY <1>1, <1>2, <1>3, <2>1, StepByStep
  <2> QED BY <1>1, <2>2
<1>5. DeskAfter(t, o, batch) = CHOOSE g : BatchSolves(t, o, batch, n, g)
  BY DEF DeskAfter, BatchSolves
<1>6. BatchSolves(t, o, batch, n, DeskAfter(t, o, batch))
  BY <1>4, <1>5
<1> DEFINE after == DeskAfter(t, o, batch)
<1>7. after = [i \in 0 .. n |-> IF i = 0 THEN Desk(t) ELSE Later(after[i - 1], i)]
  BY <1>6 DEF BatchSolves
<1> HIDE DEF after, Later, n
<1>8. /\ after[0] = Desk(t)
      /\ \A i \in 1 .. n : after[i] = Later(after[i - 1], i)
  BY <1>1, <1>7
<1> QED BY <1>8 DEF after, Later, n

LEMMA BatchReadings ==
    ASSUME VerifierAssumption, NEW batch \in Batches
    PROVE  /\ Len(batch) \in Nat
           /\ \A i \in 1 .. Len(batch) :
                 batch[i].key \in Keys /\ batch[i].value \in Int /\ batch[i].ts \in Nat
<1> DEFINE Reading == [key: Keys, value: I128, confidence: 1..100, ts: Nat]
<1>1. batch \in Seq(Reading)
  BY DEF VerifierAssumption
<1>2. ASSUME NEW i \in 1..Len(batch)
      PROVE  batch[i] \in Reading
  <2> HIDE DEF Reading
  <2> QED BY <1>1
<1> QED BY <1>1, <1>2, I128Int

LEMMA BatchDesk ==
    ASSUME IInv, VerifierAssumption, NEW t \in DataTypes, NEW o \in Oracles, NEW batch \in Batches
    PROVE  \A i \in 0 .. Len(batch) : DeskInv(DeskAfter(t, o, batch)[i])
<1> DEFINE n == Len(batch)
           after == DeskAfter(t, o, batch)
           Good == {i \in 0 .. n : DeskInv(after[i])}
<1>1. n \in Nat /\ \A i \in 1 .. n : batch[i].key \in Keys /\ batch[i].ts \in Nat
  BY BatchReadings
<1>2. /\ after[0] = Desk(t)
      /\ \A i \in 1 .. n : after[i] = AfterReading(after[i - 1], t, batch[i].key, o, batch[i])
  BY <1>1, BatchStates
<1>3. DeskInv(Desk(t)) /\ rules.staleSlash \in Nat
  BY DeskStart DEF IInv, NumbersOK
<1> HIDE DEF after, n
<1>4. 0 \in Good
  BY <1>1, <1>2, <1>3
<1>5. ASSUME NEW m \in 1 .. n, m - 1 \in Good
      PROVE  m \in Good
  <2>1. DeskInv(after[m - 1])
    BY <1>5
  <2>2. DeskInv(AfterReading(after[m - 1], t, batch[m].key, o, batch[m]))
    BY <1>1, <1>3, <2>1, ReadingDesk
  <2> QED BY <1>1, <1>2, <2>2
<1>6. Good = 0 .. n
  <2>1. Good \in SUBSET (0 .. n)
    OBVIOUS
  <2> HIDE DEF Good
  <2> QED BY <1>1, <1>4, <1>5, <2>1, StepByStep
<1> QED BY <1>6 DEF n, after

LEMMA SubmitBatchKeeps ==
    ASSUME IInv, NEW t \in DataTypes, NEW o \in Oracles, NEW batch, NEW d, DeskInv(d),
           SubmitBatch(t, o, batch, d)
    PROVE  IInv'
<1>1. Active(t, o) /\ Become(t, d) /\ Reported(t, o)
  BY DEF SubmitBatch, MayReport
<1> QED BY <1>1, ReportKeeps

LEMMA BatchesKeep ==
    ASSUME IInv, VerifierAssumption, NEW t \in DataTypes, NEW o \in Oracles,
           NEW batch \in Batches, BatchSubmitData(t, o, batch) \/ SubmitDataBatch(t, o, batch)
    PROVE  IInv'
<1> DEFINE d == AfterBatch(t, o, batch)
<1>1. DeskInv(d)
  <2>1. Len(batch) \in 0 .. Len(batch)
    BY BatchReadings
  <2>2. \A i \in 0 .. Len(batch) : DeskInv(DeskAfter(t, o, batch)[i])
    BY BatchDesk
  <2>3. DeskInv(DeskAfter(t, o, batch)[Len(batch)])
    BY <2>1, <2>2
  <2> QED BY <2>3 DEF AfterBatch
<1>2. SubmitBatch(t, o, batch, d) \/ SubmitBatch(t, o, batch, Reset(d, o))
  BY DEF BatchSubmitData, SubmitDataBatch
<1> HIDE DEF d
<1>3. DeskInv(Reset(d, o))
  BY <1>1, ResetDesk
<1> QED BY <1>1, <1>2, <1>3, SubmitBatchKeeps

LEMMA SubmitEncryptedDataKeeps ==
    ASSUME IInv, NEW t \in DataTypes, NEW k \in Keys, NEW o \in Oracles, NEW r,
           SubmitEncryptedData(t, k, o, r)
    PROVE  IInv'
<1> DEFINE d == IF Age(r.ts) <= MaxAge(t) THEN Reset(Desk(t), o) ELSE AfterStale(Desk(t), o)
<1>1. DeskInv(d)
  <2>1. DeskInv(Desk(t)) /\ rules.staleSlash \in Nat
    BY DeskStart DEF IInv, NumbersOK
  <2> QED BY <2>1, ResetDesk, StaleDesk
<1>2. Active(t, o) /\ Become(t, d) /\ Reported(t, o)
  BY DEF SubmitEncryptedData, MayReport
<1> HIDE DEF d
<1> QED BY <1>1, <1>2, ReportKeeps

LEMMA InvalidateDataKeeps ==
    ASSUME IInv, NEW t \in DataTypes, NEW k \in Keys, InvalidateData(t, k)
    PROVE  IInv'
<1>1. RegistryInv' /\ NoReturn
  BY RegistryKept DEF IInv, InvalidateData, oracleVars
<1>2. NumbersOK' /\ WaitingInv'
  BY <1>1, NumbersKept, WaitingKept
     DEF IInv, InvalidateData, oracleVars, stakeVars, limitVars, ruleVars
<1>3. points' = [points EXCEPT ![t][k] = {}] /\ newest' = newest
  BY DEF InvalidateData
<1>4. ReadingInv'
  <2>1. ASSUME NEW u \in DataTypes
        PROVE  DeskOK(points'[u], newest'[u])
    <3>1. CASE u = t
      <4>1. /\ points'[u] = [x \in Keys |-> points'[u][x]]
            /\ \A x \in Keys : points'[u][x] = IF x = k THEN {} ELSE points[u][x]
        BY <1>3, <3>1 DEF IInv, ReadingInv, DeskOK
      <4>2. DeskOK(points[u], newest[u])
        BY DEF IInv, ReadingInv
      <4> QED BY <1>3, <4>1, <4>2 DEF DeskOK, VoiceOf
    <3>2. CASE u # t
      <4>1. points'[u] = points[u] /\ newest'[u] = newest[u]
        BY <1>3, <3>2 DEF IInv, ReadingInv
      <4> QED BY <4>1 DEF IInv, ReadingInv
    <3> QED BY <3>1, <3>2
  <2>2. points' = [u \in DataTypes |-> points'[u]] /\ newest' = [u \in DataTypes |-> newest'[u]]
    BY <1>3 DEF IInv, ReadingInv
  <2> QED BY <2>1, <2>2 DEF ReadingInv, DeskOK, VoiceOf, Marks
<1> QED BY <1>1, <1>2, <1>4 DEF IInv

LEMMA QuietKeeps ==
    ASSUME IInv, UNCHANGED <<registryVars, stake, request, lastSubmission, clock, points, newest>>,
           challenge' \in Nat, rules'.staleSlash \in Nat
    PROVE  IInv'
<1>1. RegistryInv' /\ NoReturn
  BY RegistryKept DEF IInv
<1>2. WaitingInv'
  BY <1>1, WaitingKept DEF IInv
<1>3. ReadingInv'
  BY ReadingsKept DEF IInv
<1>4. NumbersOK'
  BY DEF IInv, NumbersOK
<1> QED BY <1>1, <1>2, <1>3, <1>4 DEF IInv

LEMMA RuleNumber ==
    ASSUME VerifierAssumption, NEW new \in GlobalRules
    PROVE  new.staleSlash \in Nat
BY DEF VerifierAssumption, GlobalSettings

-----------------------------------------------------------------------------
(* The specification. *)

LEMMA RegisteringKeeps ==
    ASSUME IInv, RegistryAssumption, Registering
    PROVE  IInv'
<1> USE DEF IInv
<1>1. ReadingsStay
  BY DEF Registering, ReadingsStay
<1>2. ReadingInv'
  BY <1>1, ReadingsKept DEF ReadingsStay, readingVars
<1>3. CASE \E t \in DataTypes : DeactivateInactiveOracles(t)
  <2>1. PICK t \in DataTypes : DeactivateInactiveOracles(t)
    BY <1>3
  <2> DEFINE gone == {o \in listed[t] : Offline(t, o)}
  <2>2. Deactivate(t, gone)
    BY <2>1 DEF DeactivateInactiveOracles
  <2>3. gone \in SUBSET Oracles /\ \A o \in gone : entry[t][o].state # "none"
    BY DEF RegistryInv, RegistryExact, Active
  <2> HIDE DEF gone
  <2>4. RegistryInv' /\ NoReturn
    BY <2>2, <2>3, DeactivateKeeps
  <2>5. UNCHANGED <<stake, request, lastSubmission, clock, challenge, rules>>
    BY <1>1, <2>2 DEF Deactivate, stakeVars, limitVars, ReadingsStay, ruleVars
  <2> QED BY <1>2, <2>4, <2>5, NumbersKept, WaitingKept
<1>4. CASE \E t \in DataTypes, o \in Oracles : Registration(t, o)
  <2>1. PICK t \in DataTypes, o \in Oracles : Registration(t, o)
    BY <1>4
  <2>2. CASE \E weight \in Weights : AddOracle(t, o, weight)
    <3>1. PICK weight \in Weights : AddOracle(t, o, weight)
      BY <2>2
    <3>2. RegistryInv' /\ NoReturn
      BY <3>1, AddOracleKeeps
    <3>3. UNCHANGED <<stake, request, lastSubmission, clock, challenge, rules>>
      BY <1>1, <3>1 DEF AddOracle, Register, stakeVars, limitVars, ReadingsStay, ruleVars
    <3> QED BY <1>2, <3>2, <3>3, NumbersKept, WaitingKept
  <2>3. CASE \E weight \in Weights : UpdateOracleWeight(t, o, weight)
    <3>1. PICK weight \in Weights : UpdateOracleWeight(t, o, weight)
      BY <2>3
    <3>2. RegistryInv' /\ NoReturn
      BY <3>1, UpdateOracleWeightKeeps
    <3>3. UNCHANGED <<stake, request, lastSubmission, clock, challenge, rules>>
      BY <1>1, <3>1 DEF UpdateOracleWeight, stakeVars, limitVars, ReadingsStay, ruleVars
    <3> QED BY <1>2, <3>2, <3>3, NumbersKept, WaitingKept
  <2>4. CASE RemoveOracle(t, o)
    <3>1. Deactivate(t, {o}) /\ entry[t][o] # NoEntry
      BY <2>4 DEF RemoveOracle
    <3>2. RegistryInv' /\ NoReturn
      BY <3>1, DeactivateKeeps DEF RegistryInv
    <3>3. UNCHANGED <<stake, request, lastSubmission, clock, challenge, rules>>
      BY <1>1, <3>1 DEF Deactivate, stakeVars, limitVars, ReadingsStay, ruleVars
    <3> QED BY <1>2, <3>2, <3>3, NumbersKept, WaitingKept
  <2> QED BY <2>1, <2>2, <2>3, <2>4 DEF Registration
<1>5. CASE \E t \in DataTypes, o \in Oracles : Staking(t, o)
  <2>1. PICK t \in DataTypes, o \in Oracles : Staking(t, o)
    BY <1>5
  <2>2. RegistryInv' /\ NumbersOK' /\ WaitingInv'
    BY <1>1, <2>1, StakeKeeps, SlashKeeps, RequestKeeps, CancelKeeps, WithdrawKeeps DEF Staking
  <2> QED BY <1>2, <2>2
<1> QED BY <1>3, <1>4, <1>5 DEF Registering

LEMMA LimitsKeep ==
    ASSUME IInv, RegistryAssumption, Limits, ReadingsStay
    PROVE  IInv'
<1>1. UNCHANGED <<registryVars, stake, request, lastSubmission, clock>>
  BY DEF Limits, SetOracleInactivityLimit, SetMinStake, SetChallengePeriod, SetSlashTreasury, stakeVars
<1>2. challenge' \in Nat
  BY DEF Limits, SetOracleInactivityLimit, SetMinStake, SetChallengePeriod, SetSlashTreasury,
         IInv, NumbersOK, RegistryAssumption
<1>3. UNCHANGED <<points, newest>> /\ rules'.staleSlash \in Nat
  BY DEF ReadingsStay, readingVars, ruleVars, IInv, NumbersOK
<1> QED BY <1>1, <1>2, <1>3, QuietKeeps

LEMMA SettingsKeep ==
    ASSUME IInv, VerifierAssumption, Settings
    PROVE  IInv'
<1>1. /\ UNCHANGED <<registryVars, stake, request, lastSubmission, clock, challenge>>
      /\ UNCHANGED <<points, newest>>
  BY DEF Settings, SetGlobalRule, SetTypeRule, SetCrossValidationRule, oracleVars, stakeVars,
         limitVars, readingVars
<1>2. rules'.staleSlash \in Nat
  <2>1. CASE \E new \in GlobalRules : SetGlobalRule(new)
    BY <2>1, RuleNumber DEF SetGlobalRule
  <2>2. CASE ~(\E new \in GlobalRules : SetGlobalRule(new))
    <3>1. UNCHANGED rules
      BY <2>2 DEF Settings, SetTypeRule, SetCrossValidationRule
    <3> QED BY <3>1 DEF IInv, NumbersOK
  <2> QED BY <2>1, <2>2
<1>3. challenge' \in Nat
  BY <1>1 DEF IInv, NumbersOK
<1> QED BY <1>1, <1>2, <1>3, QuietKeeps

LEMMA ReportingKeeps ==
    ASSUME IInv, VerifierAssumption, Reporting
    PROVE  IInv'
<1> DEFINE Quiet == UNCHANGED <<registryVars, stake, request, lastSubmission, clock, challenge,
                                points, newest, rules>>
<1>1. Quiet => IInv'
  BY QuietKeeps DEF IInv, NumbersOK
<1> HIDE DEF Quiet
<1>2. ASSUME NEW t \in DataTypes, NEW o \in Oracles, Submission(t, o)
      PROVE  IInv'
  <2>1. CASE \E k \in Keys, r \in Readings : SubmitData(t, k, o, r) \/ SubmitEncryptedData(t, k, o, r)
    BY <2>1, SubmitDataKeeps, SubmitEncryptedDataKeeps
  <2>2. CASE \E batch \in Batches : BatchSubmitData(t, o, batch) \/ SubmitDataBatch(t, o, batch)
    BY <2>2, BatchesKeep
  <2> QED BY <1>2, <2>1, <2>2 DEF Submission
<1>3. ASSUME NEW t \in DataTypes, NEW o \in Oracles, NEW score, SetReputation(t, o, score)
      PROVE  IInv'
  <2>1. Quiet
    BY <1>3 DEF SetReputation, Quiet, oracleVars, stakeVars, limitVars, ruleVars
  <2> QED BY <1>1, <2>1
<1>4. ASSUME NEW t \in DataTypes, NEW k \in Keys, Verification(t, k)
      PROVE  IInv'
  <2>1. PICK condition \in Conditions : VerifyTrigger(t, k, condition)
    BY <1>4 DEF Verification, VerifyTriggerFresh
  <2>2. Quiet
    BY <2>1 DEF VerifyTrigger, Judge, Quiet, oracleVars, stakeVars, limitVars, ruleVars
  <2> QED BY <1>1, <2>2
<1>5. ASSUME NEW source, NEW target, RemoveCrossValidationRule(source, target)
      PROVE  IInv'
  <2>1. Quiet
    BY <1>5 DEF RemoveCrossValidationRule, Quiet, oracleVars, stakeVars, limitVars, readingVars
  <2> QED BY <1>1, <2>1
<1>6. CASE \E t \in DataTypes, o \in Oracles :
               Submission(t, o) \/ \E score \in Scores : SetReputation(t, o, score)
  BY <1>6, <1>2, <1>3
<1>7. CASE \E t \in DataTypes, k \in Keys : Verification(t, k) \/ InvalidateData(t, k)
  BY <1>7, <1>4, InvalidateDataKeeps
<1>8. CASE \E pair \in Correlations : RemoveCrossValidationRule(pair[1], pair[2])
  BY <1>8, <1>5
<1> QED BY <1>6, <1>7, <1>8 DEF Reporting

LEMMA TickKeeps ==
    ASSUME IInv, Tick
    PROVE  IInv'
<1>1. clock \in Nat /\ clock' = clock + 1
  BY DEF IInv, NumbersOK, Tick
<1>2. RegistryInv' /\ NoReturn
  BY RegistryKept DEF IInv, Tick
<1>3. ReadingInv'
  BY ReadingsKept DEF IInv, Tick, readingVars
<1>4. NumbersOK'
  BY <1>1 DEF IInv, NumbersOK, Tick, stakeVars, limitVars, ruleVars
<1>5. \A t \in DataTypes, o \in Oracles : lastSubmission[t][o] \in Int
  BY DEF IInv, NumbersOK, Never
<1>6. WaitingInv'
  BY <1>1, <1>2, <1>5 DEF IInv, WaitingInv, Tick, stakeVars, NoReturn
<1> QED BY <1>2, <1>3, <1>4, <1>6 DEF IInv

LEMMA Step ==
    ASSUME IInv, RegistryAssumption, VerifierAssumption, [Next]_vars
    PROVE  IInv'
<1>1. CASE Act /\ (Registering \/ Reporting)
  BY <1>1, RegisteringKeeps, ReportingKeeps
<1>2. CASE Setting /\ (Settings \/ (Limits /\ UNCHANGED <<readingVars, ruleVars>>))
  BY <1>2, SettingsKeep, LimitsKeep DEF ReadingsStay
<1>3. CASE Tick
  BY <1>3, TickKeeps
<1>4. CASE UNCHANGED vars
  <2>1. UNCHANGED <<registryVars, stake, request, lastSubmission, clock, challenge, points, newest, rules>>
    BY <1>4 DEF vars, oracleVars, stakeVars, limitVars, readingVars, ruleVars
  <2> QED BY <2>1, QuietKeeps DEF IInv, NumbersOK
<1> QED BY <1>1, <1>2, <1>3, <1>4 DEF Next

-----------------------------------------------------------------------------
(* The custody of the stake. *)

Staked(t) == SumFunctionOnSet(stake[t], Oracles)

StakeOfType == [t \in DataTypes |-> Staked(t)]

MoneyInv ==
    /\ custody \in Int /\ forfeited \in Int
    /\ StakeBacked

\* What a submission took from the stakes of a type is what it forfeits.
DeskMoney(t, d) ==
    /\ d.gone \in Int
    /\ SumFunctionOnSet(d.stake, Oracles) + d.gone = Staked(t)

LEMMA StakedInt ==
    ASSUME RegistryAssumption, NumbersOK
    PROVE  /\ \A t \in DataTypes : Staked(t) \in Int /\ StakeOfType[t] = Staked(t)
           /\ SumFunctionOnSet(StakeOfType, DataTypes) \in Int
<1>1. ASSUME NEW t \in DataTypes
      PROVE  Staked(t) \in Int
  <2>1. \A o \in Oracles : stake[t][o] \in Int
    BY DEF NumbersOK
  <2> QED BY <2>1, SumInt DEF RegistryAssumption, Staked
<1>2. \A t \in DataTypes : StakeOfType[t] = Staked(t)
  BY DEF StakeOfType
<1> QED BY <1>1, <1>2, SumInt DEF RegistryAssumption

\* The stakes of one type move, and the books with them.
LEMMA TypeMoves ==
    ASSUME RegistryAssumption, NumbersOK, NumbersOK', MoneyInv, NEW t \in DataTypes, NEW new,
           stake' = [stake EXCEPT ![t] = new], custody' \in Int, forfeited' \in Int,
           custody' - forfeited' =
             custody - forfeited - Staked(t) + SumFunctionOnSet(new, Oracles)
    PROVE  MoneyInv'
<1>1. stake'[t] = new /\ \A u \in DataTypes \ {t} : stake'[u] = stake[u]
  BY DEF NumbersOK
<1>2. /\ StakeOfType'[t] = SumFunctionOnSet(new, Oracles)
      /\ \A u \in DataTypes \ {t} : StakeOfType'[u] = StakeOfType[u]
  BY <1>1 DEF StakeOfType, Staked
<1>3. /\ \A u \in DataTypes : StakeOfType[u] \in Int /\ StakeOfType[u] = Staked(u)
      /\ SumFunctionOnSet(StakeOfType, DataTypes) \in Int
  BY StakedInt
<1>4. StakeOfType'[t] \in Int
  <2>1. \A o \in Oracles : new[o] \in Int
    BY <1>1 DEF NumbersOK
  <2> QED BY <1>2, <2>1, SumInt DEF RegistryAssumption
<1>5. SumFunctionOnSet(StakeOfType', DataTypes) =
        SumFunctionOnSet(StakeOfType, DataTypes) - StakeOfType[t] + StakeOfType'[t]
  BY <1>2, <1>3, <1>4, SumUpdate DEF RegistryAssumption
<1>6. custody = forfeited + SumFunctionOnSet(StakeOfType, DataTypes)
  BY DEF MoneyInv, StakeBacked, StakeOfType, Staked
<1>7. custody' = forfeited' + SumFunctionOnSet(StakeOfType', DataTypes)
  BY <1>2, <1>3, <1>4, <1>5, <1>6 DEF MoneyInv
<1> QED BY <1>7 DEF MoneyInv, StakeBacked, StakeOfType, Staked

\* One stake moves, and the books with it.
LEMMA StakeMoves ==
    ASSUME RegistryAssumption, NumbersOK, NumbersOK', MoneyInv, NEW t \in DataTypes,
           NEW o \in Oracles, NEW amount \in Int, custody' \in Int, forfeited' \in Int,
           stake' = [stake EXCEPT ![t] = [stake[t] EXCEPT ![o] = amount]],
           custody' - forfeited' = custody - forfeited - stake[t][o] + amount
    PROVE  MoneyInv'
<1> DEFINE new == [stake[t] EXCEPT ![o] = amount]
<1>1. /\ \A x \in Oracles : stake[t][x] \in Int
      /\ new[o] = amount
      /\ \A x \in Oracles \ {o} : new[x] = stake[t][x]
  BY DEF NumbersOK
<1>2. stake' = [stake EXCEPT ![t] = new]
  OBVIOUS
<1> HIDE DEF new
<1>3. SumFunctionOnSet(new, Oracles) = Staked(t) - stake[t][o] + amount
  BY <1>1, SumUpdate DEF RegistryAssumption, Staked
<1>4. Staked(t) \in Int /\ stake[t][o] \in Int /\ custody \in Int /\ forfeited \in Int
  BY <1>1, StakedInt DEF MoneyInv
<1>5. custody' - forfeited' = custody - forfeited - Staked(t) + SumFunctionOnSet(new, Oracles)
  BY <1>3, <1>4
<1> QED BY <1>2, <1>5, TypeMoves

LEMMA StakeMoney ==
    ASSUME RegistryAssumption, NumbersOK, NumbersOK', MoneyInv, NEW t \in DataTypes,
           NEW o \in Oracles, NEW amount \in StakeAmounts, Stake(t, o, amount)
    PROVE  MoneyInv'
<1>1. /\ stake' = [stake EXCEPT ![t] = [stake[t] EXCEPT ![o] = stake[t][o] + amount]]
      /\ custody' = custody + amount /\ forfeited' = forfeited
  BY DEF Stake
<1>2. amount \in Int /\ stake[t][o] \in Int /\ custody \in Int /\ forfeited \in Int
  BY DEF RegistryAssumption, NumbersOK, MoneyInv
<1>3. /\ stake[t][o] + amount \in Int /\ custody' \in Int /\ forfeited' \in Int
      /\ custody' - forfeited' = custody - forfeited - stake[t][o] + (stake[t][o] + amount)
  BY <1>1, <1>2
<1> QED BY <1>1, <1>3, StakeMoves

LEMMA WithdrawMoney ==
    ASSUME RegistryAssumption, NumbersOK, NumbersOK', MoneyInv, NEW t \in DataTypes,
           NEW o \in Oracles, WithdrawStake(t, o)
    PROVE  MoneyInv'
<1> DEFINE paid == Min({stake[t][o], request[t][o].amount})
<1>1. /\ stake' = [stake EXCEPT ![t] = [stake[t] EXCEPT ![o] = stake[t][o] - paid]]
      /\ custody' = custody - paid /\ forfeited' = forfeited
  BY DEF WithdrawStake
<1>2. paid \in Int
  <2>1. stake[t][o] \in Nat /\ request[t][o].amount \in Nat
    BY DEF NumbersOK, Requests
  <2>2. paid \in Nat
    BY <2>1, MinOfTwo
  <2> QED BY <2>2
<1> HIDE DEF paid
<1>3. stake[t][o] \in Int /\ custody \in Int /\ forfeited \in Int
  BY DEF NumbersOK, MoneyInv
<1>4. /\ stake[t][o] - paid \in Int /\ custody' \in Int /\ forfeited' \in Int
      /\ custody' - forfeited' = custody - forfeited - stake[t][o] + (stake[t][o] - paid)
  BY <1>1, <1>2, <1>3
<1> QED BY <1>1, <1>4, StakeMoves

\* With a treasury the money leaves, without one it becomes nobody's: either way.
LEMMA ForfeitBooks ==
    ASSUME MoneyInv, NEW amount \in Int, Forfeit(amount)
    PROVE  /\ custody' \in Int /\ forfeited' \in Int
           /\ custody' - forfeited' = custody - forfeited - amount
BY DEF MoneyInv, Forfeit

LEMMA SlashMoney ==
    ASSUME RegistryAssumption, NumbersOK, NumbersOK', MoneyInv, NEW t \in DataTypes,
           NEW o \in Oracles, NEW amount \in StakeAmounts, SlashOracle(t, o, amount)
    PROVE  MoneyInv'
<1> DEFINE slashed == Min({amount, stake[t][o]})
<1>1. /\ stake' = [stake EXCEPT ![t] = [stake[t] EXCEPT ![o] = stake[t][o] - slashed]]
      /\ Forfeit(slashed)
  BY DEF SlashOracle, Slash
<1>2. slashed \in Int
  <2>1. amount \in Nat /\ stake[t][o] \in Nat
    BY DEF RegistryAssumption, NumbersOK
  <2>2. slashed \in Nat
    BY <2>1, MinOfTwo
  <2> QED BY <2>2
<1> HIDE DEF slashed
<1>3. stake[t][o] \in Int /\ custody \in Int /\ forfeited \in Int
  BY DEF NumbersOK, MoneyInv
<1>4. /\ custody' \in Int /\ forfeited' \in Int
      /\ custody' - forfeited' = custody - forfeited - slashed
  BY <1>1, <1>2, ForfeitBooks
<1>5. /\ stake[t][o] - slashed \in Int
      /\ custody' - forfeited' = custody - forfeited - stake[t][o] + (stake[t][o] - slashed)
  BY <1>2, <1>3, <1>4
<1> QED BY <1>1, <1>4, <1>5, StakeMoves

LEMMA DeskStartMoney ==
    ASSUME NEW t
    PROVE  Desk(t).gone = 0 /\ Desk(t).stake = stake[t]
BY DEF Desk

LEMMA StartBalanced ==
    ASSUME RegistryAssumption, NumbersOK, NEW t \in DataTypes
    PROVE  DeskMoney(t, Desk(t))
<1>1. Staked(t) \in Int
  BY StakedInt
<1> QED BY <1>1, DeskStartMoney DEF DeskMoney, Staked

LEMMA ResetMoney ==
    ASSUME NEW d, DeskInv(d), NEW t, NEW o, DeskMoney(t, d)
    PROVE  DeskMoney(t, Reset(d, o))
<1>1. Reset(d, o).stake = d.stake /\ Reset(d, o).gone = d.gone
  BY DEF Reset, DeskInv
<1> QED BY <1>1 DEF DeskMoney

\* The penalty for stale readings forfeits what it takes from the one stake.
LEMMA StaleMoney ==
    ASSUME RegistryAssumption, NEW d, DeskInv(d), rules.staleSlash \in Nat, NEW t,
           NEW o \in Oracles, DeskMoney(t, d)
    PROVE  DeskMoney(t, AfterStale(d, o))
<1> DEFINE penal == rules.staleThreshold > 0 /\ d.stale[o] + 1 >= rules.staleThreshold
           slashed == Min({rules.staleSlash, d.stake[o]})
           less == [d.stake EXCEPT ![o] = d.stake[o] - slashed]
<1>1. d.stake[o] \in Nat
  BY DEF DeskInv
<1>2. slashed \in Nat
  BY <1>1, MinOfTwo
<1>3. CASE ~penal
  <2>1. AfterStale(d, o).stake = d.stake /\ AfterStale(d, o).gone = d.gone
    BY <1>3 DEF AfterStale, DeskInv
  <2> QED BY <2>1 DEF DeskMoney
<1>4. CASE penal
  <2>1. AfterStale(d, o).stake = less /\ AfterStale(d, o).gone = d.gone + slashed
    <3> DEFINE score == Max({0, d.score[o].score - rules.stalePenalty})
    <3>1. AfterStale(d, o) =
            [d EXCEPT !.stale[o] = 0, !.stake[o] = d.stake[o] - slashed,
                      !.gone = d.gone + slashed, !.score[o].score = score]
      BY <1>4 DEF AfterStale
    <3> HIDE DEF slashed, score
    <3> QED BY <3>1 DEF DeskInv
  <2> HIDE DEF slashed
  <2>2. /\ \A x \in Oracles : d.stake[x] \in Int
        /\ less[o] = d.stake[o] - slashed
        /\ \A x \in Oracles \ {o} : less[x] = d.stake[x]
    BY DEF DeskInv
  <2>3. less[o] \in Int
    BY <1>1, <1>2, <2>2
  <2> HIDE DEF less
  <2>4. SumFunctionOnSet(less, Oracles) =
          SumFunctionOnSet(d.stake, Oracles) - d.stake[o] + less[o]
    BY <2>2, <2>3, SumUpdate DEF RegistryAssumption
  <2>5. SumFunctionOnSet(d.stake, Oracles) \in Int
    BY <2>2, SumInt DEF RegistryAssumption
  <2> QED BY <1>1, <1>2, <2>1, <2>2, <2>4, <2>5 DEF DeskMoney
<1> QED BY <1>3, <1>4

LEMMA ReadingMoney ==
    ASSUME RegistryAssumption, NEW d, DeskInv(d), rules.staleSlash \in Nat, NEW t, NEW k, NEW o,
           NEW r, o \in Oracles, DeskMoney(t, d)
    PROVE  DeskMoney(t, AfterReading(d, t, k, o, r))
<1>1. DeskMoney(t, AfterStale(d, o))
  BY StaleMoney
<1>2. DeskMoney(t, AfterFresh(d, t, k, o, r))
  <2> DEFINE new == Retained(t, o, d.points[k]) \cup {Point(o, r)}
  <2>1. AfterFresh(d, t, k, o, r) = [d EXCEPT !.points[k] = new, !.newest[k][o] = r.ts]
    BY DEF AfterFresh
  <2> HIDE DEF new
  <2>2. /\ AfterFresh(d, t, k, o, r).stake = d.stake
        /\ AfterFresh(d, t, k, o, r).gone = d.gone
    BY <2>1 DEF DeskInv
  <2> QED BY <2>2 DEF DeskMoney
<1> QED BY <1>1, <1>2 DEF AfterReading

LEMMA BatchMoney ==
    ASSUME RegistryAssumption, IInv, VerifierAssumption, NEW t \in DataTypes, NEW o \in Oracles,
           NEW batch \in Batches
    PROVE  DeskInv(AfterBatch(t, o, batch)) /\ DeskMoney(t, AfterBatch(t, o, batch))
<1> DEFINE n == Len(batch)
           after == DeskAfter(t, o, batch)
           Good == {i \in 0 .. n : DeskMoney(t, after[i])}
<1>1. n \in Nat
  BY BatchReadings
<1>2. /\ after[0] = Desk(t)
      /\ \A i \in 1 .. n : after[i] = AfterReading(after[i - 1], t, batch[i].key, o, batch[i])
  BY <1>1, BatchStates
<1>3. DeskMoney(t, Desk(t)) /\ rules.staleSlash \in Nat
  BY StartBalanced DEF IInv, NumbersOK
<1>4. \A i \in 0 .. n : DeskInv(after[i])
  BY BatchDesk
<1> HIDE DEF after, n
<1>5. 0 \in Good
  BY <1>1, <1>2, <1>3
<1>6. ASSUME NEW m \in 1 .. n, m - 1 \in Good
      PROVE  m \in Good
  <2>1. DeskMoney(t, after[m - 1]) /\ DeskInv(after[m - 1])
    BY <1>1, <1>4, <1>6
  <2>2. DeskMoney(t, AfterReading(after[m - 1], t, batch[m].key, o, batch[m]))
    BY <1>3, <2>1, ReadingMoney
  <2> QED BY <1>1, <1>2, <2>2
<1>7. Good = 0 .. n
  <2>1. Good \in SUBSET (0 .. n)
    OBVIOUS
  <2> HIDE DEF Good
  <2> QED BY <1>1, <1>5, <1>6, <2>1, StepByStep
<1>8. DeskInv(after[n]) /\ DeskMoney(t, after[n])
  <2>1. n \in 0 .. n
    BY <1>1
  <2>2. n \in Good
    BY <1>7, <2>1, Zenon
  <2>3. DeskMoney(t, after[n])
    BY <2>2, Zenon
  <2> QED BY <1>4, <2>1, <2>3, Zenon
<1> QED BY <1>8 DEF n, after, AfterBatch

\* The desk's stakes replace those of the type, and its forfeit is booked.
LEMMA BecomeMoney ==
    ASSUME RegistryAssumption, NumbersOK, NumbersOK', MoneyInv, NEW t \in DataTypes, NEW d,
           DeskMoney(t, d), DeskInv(d), Become(t, d)
    PROVE  MoneyInv'
<1>1. stake' = [stake EXCEPT ![t] = d.stake] /\ Forfeit(d.gone) /\ d.gone \in Int
  BY DEF Become, DeskMoney
<1>2. /\ custody' \in Int /\ forfeited' \in Int
      /\ custody' - forfeited' = custody - forfeited - d.gone
  BY <1>1, ForfeitBooks
<1>3. SumFunctionOnSet(d.stake, Oracles) \in Int /\ Staked(t) \in Int
  <2>1. \A x \in Oracles : d.stake[x] \in Int
    BY DEF DeskInv
  <2> QED BY <2>1, SumInt, StakedInt DEF RegistryAssumption
<1>4. custody' - forfeited' =
        custody - forfeited - Staked(t) + SumFunctionOnSet(d.stake, Oracles)
  BY <1>1, <1>2, <1>3 DEF DeskMoney, MoneyInv
<1> QED BY <1>1, <1>2, <1>4, TypeMoves

LEMMA SubmissionMoney ==
    ASSUME RegistryAssumption, VerifierAssumption, IInv, NumbersOK', MoneyInv,
           NEW t \in DataTypes, NEW o \in Oracles, Submission(t, o)
    PROVE  MoneyInv'
<1>1. NumbersOK /\ rules.staleSlash \in Nat
  BY DEF IInv, NumbersOK
<1>2. DeskInv(Desk(t)) /\ DeskMoney(t, Desk(t))
  BY <1>1, DeskStart, StartBalanced DEF IInv
<1>3. ASSUME NEW k \in Keys, NEW r \in Readings, SubmitData(t, k, o, r)
      PROVE  MoneyInv'
  <2> DEFINE d == AfterReading(Desk(t), t, k, o, r)
  <2>1. r.ts \in Nat
    BY DEF VerifierAssumption
  <2>2. DeskInv(d) /\ DeskMoney(t, d)
    BY <1>1, <1>2, <2>1, ReadingDesk, ReadingMoney
  <2>3. Become(t, d) \/ Become(t, Reset(d, o))
    BY <1>3 DEF SubmitData
  <2> HIDE DEF d
  <2>4. DeskInv(Reset(d, o)) /\ DeskMoney(t, Reset(d, o))
    BY <2>2, ResetDesk, ResetMoney
  <2> QED BY <1>1, <2>2, <2>3, <2>4, BecomeMoney
<1>4. ASSUME NEW k \in Keys, NEW r, SubmitEncryptedData(t, k, o, r)
      PROVE  MoneyInv'
  <2>1. DeskInv(Reset(Desk(t), o)) /\ DeskMoney(t, Reset(Desk(t), o))
    BY <1>2, ResetDesk, ResetMoney
  <2>2. DeskInv(AfterStale(Desk(t), o)) /\ DeskMoney(t, AfterStale(Desk(t), o))
    BY <1>1, <1>2, StaleDesk, StaleMoney
  <2>3. Become(t, Reset(Desk(t), o)) \/ Become(t, AfterStale(Desk(t), o))
    BY <1>4 DEF SubmitEncryptedData
  <2> QED BY <1>1, <2>1, <2>2, <2>3, BecomeMoney
<1>5. ASSUME NEW batch \in Batches, BatchSubmitData(t, o, batch) \/ SubmitDataBatch(t, o, batch)
      PROVE  MoneyInv'
  <2> DEFINE d == AfterBatch(t, o, batch)
  <2>1. DeskInv(d) /\ DeskMoney(t, d)
    BY BatchMoney
  <2>2. Become(t, d) \/ Become(t, Reset(d, o))
    BY <1>5 DEF BatchSubmitData, SubmitDataBatch, SubmitBatch
  <2> HIDE DEF d
  <2>3. DeskInv(Reset(d, o)) /\ DeskMoney(t, Reset(d, o))
    BY <2>1, ResetDesk, ResetMoney
  <2> QED BY <1>1, <2>1, <2>2, <2>3, BecomeMoney
<1> QED BY <1>3, <1>4, <1>5 DEF Submission

LEMMA MoneyStep ==
    ASSUME RegistryAssumption, VerifierAssumption, IInv, NumbersOK', MoneyInv, [Next]_vars
    PROVE  MoneyInv'
<1> DEFINE Still == UNCHANGED <<stake, custody, forfeited>>
<1>1. ASSUME Still
      PROVE  MoneyInv'
  BY <1>1 DEF MoneyInv, StakeBacked
<1>2. ASSUME NEW t \in DataTypes, NEW o \in Oracles, Staking(t, o)
      PROVE  MoneyInv'
  <2>1. CASE \E amount \in StakeAmounts : Stake(t, o, amount) \/ SlashOracle(t, o, amount)
    BY <2>1, StakeMoney, SlashMoney DEF IInv
  <2>2. CASE WithdrawStake(t, o)
    BY <2>2, WithdrawMoney DEF IInv
  <2>3. CASE RequestStakeWithdrawal(t, o) \/ CancelStakeWithdrawal(t, o)
    BY <1>1, <2>3 DEF RequestStakeWithdrawal, AskForStake, CancelStakeWithdrawal
  <2> QED BY <1>2, <2>1, <2>2, <2>3 DEF Staking
<1>3. CASE Registering
  <2>1. ASSUME NEW t, NEW o, Registration(t, o)
        PROVE  Still
    BY <2>1 DEF Registration, AddOracle, Register, UpdateOracleWeight, RemoveOracle, Deactivate,
                stakeVars
  <2>2. ASSUME NEW t, DeactivateInactiveOracles(t)
        PROVE  Still
    BY <2>2 DEF DeactivateInactiveOracles, Deactivate, stakeVars
  <2> QED BY <1>1, <1>2, <1>3, <2>1, <2>2 DEF Registering
<1>4. CASE Reporting
  <2>1. ASSUME NEW t, NEW o, NEW score, SetReputation(t, o, score)
        PROVE  Still
    BY <2>1 DEF SetReputation, oracleVars, stakeVars
  <2>2. ASSUME NEW t, NEW k, Verification(t, k)
        PROVE  Still
    BY <2>2 DEF Verification, VerifyTriggerFresh, VerifyTrigger, Judge, oracleVars, stakeVars
  <2>3. ASSUME NEW t, NEW k, InvalidateData(t, k)
        PROVE  Still
    BY <2>3 DEF InvalidateData, oracleVars, stakeVars
  <2>4. ASSUME NEW source, NEW target, RemoveCrossValidationRule(source, target)
        PROVE  Still
    BY <2>4 DEF RemoveCrossValidationRule, oracleVars, stakeVars
  <2>5. ASSUME NEW t \in DataTypes, NEW o \in Oracles, Submission(t, o)
        PROVE  MoneyInv'
    BY <2>5, SubmissionMoney
  <2> HIDE DEF Still
  <2> QED BY <1>1, <1>4, <2>1, <2>2, <2>3, <2>4, <2>5 DEF Reporting
<1>5. CASE Settings
  <2>1. Still
    BY <1>5 DEF Settings, SetGlobalRule, SetTypeRule, SetCrossValidationRule, oracleVars, stakeVars
  <2> QED BY <1>1, <2>1
<1>6. CASE Limits
  <2>1. Still
    BY <1>6 DEF Limits, SetOracleInactivityLimit, SetMinStake, SetChallengePeriod,
                SetSlashTreasury, stakeVars
  <2> QED BY <1>1, <2>1
<1>7. CASE Tick
  BY <1>1, <1>7 DEF Tick, stakeVars
<1>8. CASE UNCHANGED vars
  BY <1>1, <1>8 DEF vars, oracleVars, stakeVars
<1> QED BY <1>3, <1>4, <1>5, <1>6, <1>7, <1>8 DEF Next

\* The first oracles have paid their stake in.
LEMMA InitMoney ==
    ASSUME RegistryAssumption, Init
    PROVE  MoneyInv
<1>1. Home \in DataTypes /\ InitialStake \in Nat /\ IsFiniteSet(Oracles) /\ IsFiniteSet(DataTypes)
  BY DEF RegistryAssumption
<1>2. /\ custody = InitialStake * Cardinality(Oracles) /\ forfeited = 0
      /\ stake = [t \in DataTypes |-> [o \in Oracles |-> IF t = Home THEN InitialStake ELSE 0]]
  BY DEF Init, RegistryInit
<1>3. Staked(Home) = InitialStake * Cardinality(Oracles)
  <2>1. \A o \in Oracles : stake[Home][o] = InitialStake
    BY <1>1, <1>2
  <2> QED BY <1>1, <2>1, SumConstant DEF Staked
<1>4. ASSUME NEW t \in DataTypes \ {Home}
      PROVE  Staked(t) = 0
  <2>1. \A o \in Oracles : stake[t][o] = 0
    BY <1>2
  <2> QED BY <1>1, <2>1, SumZero DEF Staked
<1>5. Cardinality(Oracles) \in Nat
  BY <1>1, FS_CardinalityType
<1>6. custody \in Int /\ Staked(Home) \in Int
  BY <1>1, <1>2, <1>3, <1>5
<1>7. /\ StakeOfType[Home] = Staked(Home)
      /\ \A t \in DataTypes \ {Home} : StakeOfType[t] = 0
  BY <1>1, <1>4 DEF StakeOfType
<1>8. SumFunctionOnSet(StakeOfType, DataTypes) = Staked(Home)
  <2>1. IsFiniteSet(DataTypes \ {Home})
    BY <1>1, FS_Subset
  <2>2. SumFunctionOnSet(StakeOfType, DataTypes \ {Home}) = 0
    BY <2>1, <1>7, SumZero
  <2>3. \A t \in DataTypes : StakeOfType[t] \in Int
    BY <1>6, <1>7
  <2>4. SumFunctionOnSet(StakeOfType, DataTypes) =
          StakeOfType[Home] + SumFunctionOnSet(StakeOfType, DataTypes \ {Home})
    BY <1>1, <2>3, SumTakeOut
  <2> QED BY <1>6, <1>7, <2>2, <2>4
<1>9. custody = forfeited + SumFunctionOnSet(StakeOfType, DataTypes)
  BY <1>2, <1>3, <1>6, <1>8
<1> QED BY <1>2, <1>6, <1>9 DEF MoneyInv, StakeBacked, StakeOfType, Staked

-----------------------------------------------------------------------------
(* What is combined: the types the aggregation needs beyond IInv. *)

Standings == [total: Nat, accurate: Nat, score: Nat]

NumbersIn(stored) == \A p \in stored : p.value \in Int /\ p.ts \in Nat

\* No active registration has a weight of zero.
WeightsOK == \A t \in DataTypes, o \in Oracles : Active(t, o) => entry[t][o].weight > 0

RulesOK ==
    /\ rules \in GlobalSettings
    /\ config \in [DataTypes -> TypeSettings]

ReportsOK ==
    /\ reputation \in [DataTypes -> [Oracles -> Standings]]
    /\ \A t \in DataTypes, k \in Keys : NumbersIn(points[t][k])

SampleInv == WeightsOK /\ RulesOK /\ ReportsOK

LEMMA InitSamples ==
    ASSUME RegistryAssumption, SampleAssumption, VerifierAssumption, Init
    PROVE  SampleInv
<1>1. WeightsOK
  <2>1. /\ \A o \in Oracles : entry[Home][o] = [state |-> "active", weight |-> FounderWeight[o]]
        /\ \A t \in DataTypes \ {Home}, o \in Oracles : entry[t][o] = [state |-> "none", weight |-> 0]
    BY DEF Init, RegistryInit, RegistryAssumption, NoEntry
  <2>2. \A o \in Oracles : FounderWeight[o] \in Nat /\ FounderWeight[o] > 0
    BY DEF RegistryAssumption
  <2>3. ASSUME NEW t \in DataTypes, NEW o \in Oracles, Active(t, o)
        PROVE  entry[t][o].weight > 0
    <3>1. t = Home
      BY <2>1, <2>3 DEF Active
    <3>2. entry[Home][o] = [state |-> "active", weight |-> FounderWeight[o]]
      BY <2>1
    <3>3. entry[t][o].weight = FounderWeight[o]
      BY <3>1, <3>2
    <3> QED BY <2>2, <3>3
  <2> QED BY <2>3 DEF WeightsOK
<1>2. RulesOK
  <2>1. NoOutliers \in OutlierConfigs
    BY DEF NoOutliers, OutlierConfigs, SampleAssumption, FullOdds
  <2>2. DefaultConfig \in TypeSettings
    BY <2>1 DEF DefaultConfig, TypeSettings, Methods
  <2> QED BY <2>2 DEF Init, RulesOK, VerifierAssumption
<1>3. ReportsOK
  <2>1. FullScore \div 2 \in Nat
    BY DEF VerifierAssumption
  <2>2. Novice \in Standings
    BY <2>1 DEF Novice, Standings
  <2> QED BY <2>2 DEF Init, ReportsOK, NumbersIn
<1> QED BY <1>1, <1>2, <1>3 DEF SampleInv

\* What a submission puts into its desk.
DeskReports(d) ==
    /\ d.score \in [Oracles -> Standings]
    /\ \A k \in Keys : NumbersIn(d.points[k])

LEMMA StartReports ==
    ASSUME ReportsOK, NEW t \in DataTypes
    PROVE  DeskReports(Desk(t))
BY DEF ReportsOK, DeskReports, Desk

LEMMA FreshReports ==
    ASSUME NEW d, DeskInv(d), DeskReports(d), NEW t, NEW k \in Keys, NEW o, NEW r,
           r.value \in Int, r.ts \in Nat
    PROVE  DeskReports(AfterFresh(d, t, k, o, r))
<1> DEFINE new == Retained(t, o, d.points[k]) \cup {Point(o, r)}
           stored == [d.points EXCEPT ![k] = new]
<1>1. AfterFresh(d, t, k, o, r).points = stored /\ AfterFresh(d, t, k, o, r).score = d.score
  <2>1. AfterFresh(d, t, k, o, r) = [d EXCEPT !.points[k] = new, !.newest[k][o] = r.ts]
    BY DEF AfterFresh
  <2> HIDE DEF new
  <2> QED BY <2>1 DEF DeskInv
<1>2. NumbersIn(new)
  <2>1. Point(o, r).value = r.value /\ Point(o, r).ts = r.ts
    BY DEF Point
  <2>2. \A p \in Retained(t, o, d.points[k]) : p \in d.points[k]
    BY DEF Retained
  <2> QED BY <2>1, <2>2 DEF NumbersIn, DeskReports
<1>3. stored[k] = new /\ \A x \in Keys \ {k} : stored[x] = d.points[x]
  <2> HIDE DEF new
  <2> QED BY DEF DeskInv, DeskOK
<1> HIDE DEF new, stored
<1> QED BY <1>1, <1>2, <1>3 DEF DeskReports

LEMMA StaleReports ==
    ASSUME NEW d, DeskInv(d), DeskReports(d), RulesOK, NEW o \in Oracles
    PROVE  DeskReports(AfterStale(d, o))
<1> DEFINE count == d.stale[o] + 1
           penal == rules.staleThreshold > 0 /\ count >= rules.staleThreshold
           slashed == Min({rules.staleSlash, d.stake[o]})
           score == Max({0, d.score[o].score - rules.stalePenalty})
<1>1. score \in Nat
  <2> DEFINE left == d.score[o].score - rules.stalePenalty
  <2>1. left \in Int /\ 0 \in Int
    BY DEF DeskReports, Standings, RulesOK, GlobalSettings
  <2> HIDE DEF left
  <2>2. Max({0, left}) \in Int /\ Max({0, left}) >= 0
    BY <2>1, MaxOfTwo, Zenon
  <2> QED BY <2>2 DEF left
<1>2. CASE ~penal
  <2>1. AfterStale(d, o) = [d EXCEPT !.stale = [d.stale EXCEPT ![o] = count]]
    BY <1>2 DEF AfterStale
  <2>2. AfterStale(d, o).points = d.points /\ AfterStale(d, o).score = d.score
    BY <2>1 DEF DeskInv
  <2> QED BY <2>2 DEF DeskReports
<1>3. CASE penal
  <2>1. AfterStale(d, o) =
          [d EXCEPT !.stale[o] = 0, !.stake[o] = d.stake[o] - slashed, !.gone = d.gone + slashed,
                    !.score[o].score = score]
    BY <1>3 DEF AfterStale
  <2> HIDE DEF slashed, score
  <2>2. /\ AfterStale(d, o).points = d.points
        /\ AfterStale(d, o).score = [d.score EXCEPT ![o] = [d.score[o] EXCEPT !.score = score]]
    BY <2>1 DEF DeskInv
  <2>3. [d.score[o] EXCEPT !.score = score] \in Standings
    BY <1>1 DEF DeskReports, Standings
  <2> QED BY <2>2, <2>3 DEF DeskReports
<1> QED BY <1>2, <1>3

LEMMA ReadingReports ==
    ASSUME NEW d, DeskInv(d), DeskReports(d), RulesOK, NEW t, NEW k \in Keys, NEW o \in Oracles,
           NEW r, r.value \in Int, r.ts \in Nat
    PROVE  DeskInv(AfterReading(d, t, k, o, r)) /\ DeskReports(AfterReading(d, t, k, o, r))
<1>1. rules.staleSlash \in Nat
  BY DEF RulesOK, GlobalSettings
<1> QED BY <1>1, FreshReports, StaleReports, ReadingDesk DEF AfterReading

LEMMA ResetReports ==
    ASSUME NEW d, DeskInv(d), DeskReports(d), NEW o
    PROVE  DeskReports(Reset(d, o))
<1>1. Reset(d, o).points = d.points /\ Reset(d, o).score = d.score
  BY DEF Reset, DeskInv
<1> QED BY <1>1 DEF DeskReports

LEMMA BatchReports ==
    ASSUME IInv, SampleInv, VerifierAssumption, NEW t \in DataTypes, NEW o \in Oracles,
           NEW batch \in Batches
    PROVE  DeskInv(AfterBatch(t, o, batch)) /\ DeskReports(AfterBatch(t, o, batch))
<1> DEFINE n == Len(batch)
           after == DeskAfter(t, o, batch)
           Good == {i \in 0 .. n : DeskReports(after[i])}
<1>1. /\ n \in Nat
      /\ \A i \in 1 .. n : batch[i].key \in Keys /\ batch[i].value \in Int /\ batch[i].ts \in Nat
  BY BatchReadings
<1>2. /\ after[0] = Desk(t)
      /\ \A i \in 1 .. n : after[i] = AfterReading(after[i - 1], t, batch[i].key, o, batch[i])
  BY <1>1, BatchStates
<1>3. DeskReports(Desk(t)) /\ RulesOK
  BY StartReports DEF SampleInv
<1>4. \A i \in 0 .. n : DeskInv(after[i])
  BY BatchDesk
<1> HIDE DEF after, n
<1>5. 0 \in Good
  BY <1>1, <1>2, <1>3
<1>6. ASSUME NEW m \in 1 .. n, m - 1 \in Good
      PROVE  m \in Good
  <2>1. DeskReports(after[m - 1]) /\ DeskInv(after[m - 1])
    BY <1>1, <1>4, <1>6
  <2>2. DeskReports(AfterReading(after[m - 1], t, batch[m].key, o, batch[m]))
    BY <1>1, <1>3, <2>1, ReadingReports
  <2> QED BY <1>1, <1>2, <2>2
<1>7. Good = 0 .. n
  <2>1. Good \in SUBSET (0 .. n)
    OBVIOUS
  <2> HIDE DEF Good
  <2> QED BY <1>1, <1>5, <1>6, <2>1, StepByStep
<1>8. DeskInv(after[n]) /\ DeskReports(after[n])
  BY <1>1, <1>4, <1>7
<1> QED BY <1>8 DEF n, after, AfterBatch

LEMMA BecomeReports ==
    ASSUME IInv, ReportsOK, NEW t \in DataTypes, NEW d, DeskReports(d), Become(t, d)
    PROVE  ReportsOK'
<1>1. /\ points' = [points EXCEPT ![t] = d.points]
      /\ reputation' = [reputation EXCEPT ![t] = d.score]
  BY DEF Become
<1>2. /\ points'[t] = d.points
      /\ \A u \in DataTypes \ {t} : points'[u] = points[u]
  BY <1>1 DEF IInv, ReadingInv
<1>3. reputation' \in [DataTypes -> [Oracles -> Standings]]
  BY <1>1 DEF ReportsOK, DeskReports
<1> QED BY <1>2, <1>3 DEF ReportsOK, DeskReports

LEMMA SubmissionReports ==
    ASSUME IInv, SampleInv, VerifierAssumption, NEW t \in DataTypes, NEW o \in Oracles,
           Submission(t, o)
    PROVE  ReportsOK'
<1>1. DeskInv(Desk(t)) /\ DeskReports(Desk(t)) /\ RulesOK /\ ReportsOK
  BY DeskStart, StartReports DEF IInv, SampleInv
<1>2. ASSUME NEW k \in Keys, NEW r \in Readings, SubmitData(t, k, o, r)
      PROVE  ReportsOK'
  <2> DEFINE d == AfterReading(Desk(t), t, k, o, r)
  <2>1. DeskInv(d) /\ DeskReports(d)
    <3>1. r.value \in Int /\ r.ts \in Nat
      BY I128Int DEF VerifierAssumption
    <3> QED BY <3>1, <1>1, ReadingReports
  <2>2. Become(t, d) \/ Become(t, Reset(d, o))
    BY <1>2 DEF SubmitData
  <2> HIDE DEF d
  <2> QED BY <1>1, <2>1, <2>2, ResetReports, BecomeReports
<1>3. ASSUME NEW k \in Keys, NEW r \in Readings, SubmitEncryptedData(t, k, o, r)
      PROVE  ReportsOK'
  <2>1. Become(t, Reset(Desk(t), o)) \/ Become(t, AfterStale(Desk(t), o))
    BY <1>3 DEF SubmitEncryptedData
  <2> QED BY <1>1, <2>1, ResetReports, StaleReports, BecomeReports
<1>4. ASSUME NEW batch \in Batches, BatchSubmitData(t, o, batch) \/ SubmitDataBatch(t, o, batch)
      PROVE  ReportsOK'
  <2> DEFINE d == AfterBatch(t, o, batch)
  <2>1. DeskInv(d) /\ DeskReports(d)
    BY BatchReports
  <2>2. Become(t, d) \/ Become(t, Reset(d, o))
    BY <1>4 DEF BatchSubmitData, SubmitDataBatch, SubmitBatch
  <2> HIDE DEF d
  <2> QED BY <1>1, <2>1, <2>2, ResetReports, BecomeReports
<1> QED BY <1>2, <1>3, <1>4 DEF Submission

LEMMA JudgeReports ==
    ASSUME ReportsOK, VerifierAssumption, NEW t \in DataTypes, NEW k, NEW value, NEW condition,
           Judge(t, k, value, condition)
    PROVE  ReportsOK'
<1>1. \A rep \in Standings, accurate \in BOOLEAN : Scored(rep, accurate) \in Standings
  <2> TAKE rep \in Standings, accurate \in BOOLEAN
  <2> DEFINE total == rep.total + 1
             right == rep.accurate + IF accurate THEN 1 ELSE 0
  <2>1. total \in Nat \ {0} /\ right \in Nat
    BY DEF Standings
  <2> HIDE DEF total, right
  <2>2. right * FullScore \in Nat
    BY <2>1 DEF VerifierAssumption
  <2>3. (right * FullScore) \div total \in Nat
    BY <2>1, <2>2
  <2> QED BY <2>1, <2>3 DEF Scored, Standings, total, right
<1> DEFINE judged == Fresh(t, points[t][k])
           accurate(o) == \E p \in judged : p.oracle = o /\ Distance(p.value, value) <= condition.tolerance
           new == [o \in Oracles |-> IF o \in {p.oracle : p \in judged}
                                     THEN Scored(reputation[t][o], accurate(o)) ELSE reputation[t][o]]
<1>2. reputation' = [reputation EXCEPT ![t] = new] /\ points' = points
  BY DEF Judge
<1>3. new \in [Oracles -> Standings]
  <2>1. \A o \in Oracles : reputation[t][o] \in Standings /\ accurate(o) \in BOOLEAN
    BY DEF ReportsOK
  <2> HIDE DEF accurate, judged
  <2> QED BY <1>1, <2>1
<1> HIDE DEF new
<1> QED BY <1>2, <1>3 DEF ReportsOK

LEMMA ReportingReports ==
    ASSUME IInv, SampleInv, VerifierAssumption, Reporting
    PROVE  ReportsOK'
<1>0. ReportsOK
  BY DEF SampleInv
<1>1. CASE \E t \in DataTypes, o \in Oracles : Submission(t, o)
  BY <1>1, SubmissionReports
<1>2. CASE \E t \in DataTypes, o \in Oracles, score \in Scores : SetReputation(t, o, score)
  <2>1. PICK t \in DataTypes, o \in Oracles, score \in Scores : SetReputation(t, o, score)
    BY <1>2
  <2>2. score \in Nat
    BY DEF VerifierAssumption
  <2>3. [reputation[t][o] EXCEPT !.score = score] \in Standings
    <3>1. reputation[t][o] \in Standings
      BY <1>0 DEF ReportsOK
    <3> QED BY <2>2, <3>1 DEF Standings
  <2>4. /\ reputation' = [reputation EXCEPT ![t] = [reputation[t] EXCEPT ![o] =
                            [reputation[t][o] EXCEPT !.score = score]]]
        /\ points' = points
    BY <2>1 DEF SetReputation
  <2> QED BY <1>0, <2>3, <2>4 DEF ReportsOK
<1>3. CASE \E t \in DataTypes, k \in Keys : Verification(t, k)
  <2>1. PICK t \in DataTypes, k \in Keys, condition \in Conditions : VerifyTrigger(t, k, condition)
    BY <1>3 DEF Verification, VerifyTriggerFresh
  <2> QED BY <1>0, <2>1, JudgeReports DEF VerifyTrigger
<1>4. CASE \E t \in DataTypes, k \in Keys : InvalidateData(t, k)
  <2>1. PICK t \in DataTypes, k \in Keys : InvalidateData(t, k)
    BY <1>4
  <2>2. points' = [points EXCEPT ![t][k] = {}] /\ reputation' = reputation
    BY <2>1 DEF InvalidateData
  <2>3. \A u \in DataTypes, j \in Keys : points'[u][j] = points[u][j] \/ points'[u][j] = {}
    BY <2>2 DEF IInv, ReadingInv, DeskOK
  <2> QED BY <1>0, <2>2, <2>3 DEF ReportsOK, NumbersIn
<1>5. CASE \E pair \in Correlations : RemoveCrossValidationRule(pair[1], pair[2])
  <2>1. UNCHANGED <<points, reputation>>
    BY <1>5 DEF RemoveCrossValidationRule, readingVars
  <2> QED BY <1>0, <2>1 DEF ReportsOK
<1> QED BY <1>1, <1>2, <1>3, <1>4, <1>5 DEF Reporting

LEMMA RegisteringWeights ==
    ASSUME IInv, WeightsOK, RegistryAssumption, Registering
    PROVE  WeightsOK'
<1>1. \A t \in DataTypes, o \in Oracles : entry[t][o] \in Entries
  BY DEF IInv, RegistryInv
<1>2. \A w \in Weights : w > 0
  BY DEF RegistryAssumption
<1>3. ASSUME NEW t \in DataTypes, NEW gone \in SUBSET Oracles, Deactivate(t, gone)
      PROVE  WeightsOK'
  <2>1. \A u \in DataTypes, x \in Oracles :
          entry'[u][x] = entry[u][x] \/ entry'[u][x].state = "inactive"
    BY <1>1, <1>3 DEF Deactivate, IInv, RegistryInv, Entries
  <2> QED BY <2>1 DEF WeightsOK, Active
<1>4. ASSUME NEW t \in DataTypes, NEW o \in Oracles, NEW w \in Weights, NEW state,
             entry' = [entry EXCEPT ![t] = [entry[t] EXCEPT ![o] = [state |-> state, weight |-> w]]]
      PROVE  WeightsOK'
  <2>1. \A u \in DataTypes, x \in Oracles : entry'[u][x] = entry[u][x] \/ entry'[u][x].weight = w
    BY <1>4 DEF IInv, RegistryInv
  <2> QED BY <1>2, <2>1 DEF WeightsOK, Active
<1>5. CASE \E t \in DataTypes : DeactivateInactiveOracles(t)
  <2>1. PICK t \in DataTypes : Deactivate(t, {o \in listed[t] : Offline(t, o)})
    BY <1>5 DEF DeactivateInactiveOracles
  <2>2. {o \in listed[t] : Offline(t, o)} \in SUBSET Oracles
    BY DEF IInv, RegistryInv
  <2> QED BY <1>3, <2>1, <2>2
<1>6. ASSUME NEW t \in DataTypes, NEW o \in Oracles, NEW w \in Weights, AddOracle(t, o, w)
      PROVE  WeightsOK'
  <2>1. entry' = [entry EXCEPT ![t] = [entry[t] EXCEPT ![o] = [state |-> "active", weight |-> w]]]
    BY <1>6 DEF AddOracle, Register
  <2> QED BY <1>4, <2>1
<1>7. ASSUME NEW t \in DataTypes, NEW o \in Oracles, NEW w \in Weights, UpdateOracleWeight(t, o, w)
      PROVE  WeightsOK'
  <2>1. [entry[t][o] EXCEPT !.weight = w] = [state |-> entry[t][o].state, weight |-> w]
    BY <1>1 DEF Entries
  <2>2. entry' = [entry EXCEPT ![t] = [entry[t] EXCEPT ![o] =
                    [state |-> entry[t][o].state, weight |-> w]]]
    BY <1>7, <2>1 DEF UpdateOracleWeight
  <2> QED BY <1>4, <2>2
<1>8. ASSUME NEW t \in DataTypes, NEW o \in Oracles, RemoveOracle(t, o)
      PROVE  WeightsOK'
  BY <1>3, <1>8 DEF RemoveOracle
<1>9. ASSUME NEW t \in DataTypes, NEW o \in Oracles, NEW amount, SlashOracle(t, o, amount)
      PROVE  WeightsOK'
  <2>1. PICK slashed : Slash(t, o, slashed)
    BY <1>9 DEF SlashOracle
  <2>2. \A u \in DataTypes, x \in Oracles :
          entry'[u][x] = entry[u][x] \/ entry'[u][x].state = "inactive"
    <3> DEFINE out == minStake > 0 /\ stake[t][o] - slashed < minStake /\ Active(t, o)
    <3>1. entry' = [entry EXCEPT ![t][o].state = IF out THEN "inactive" ELSE @]
      BY <2>1 DEF Slash
    <3>2. PICK s : entry' = [entry EXCEPT ![t] = [entry[t] EXCEPT ![o] =
                               [entry[t][o] EXCEPT !.state = s]]]
                   /\ (s = "inactive" \/ s = entry[t][o].state)
      <4> HIDE DEF out
      <4> QED BY <3>1
    <3>3. [entry[t][o] EXCEPT !.state = s] = [state |-> s, weight |-> entry[t][o].weight]
      BY <1>1 DEF Entries
    <3>4. entry[t][o] = [state |-> entry[t][o].state, weight |-> entry[t][o].weight]
      BY <1>1 DEF Entries
    <3> QED BY <1>1, <3>2, <3>3, <3>4
  <2> QED BY <2>2 DEF WeightsOK, Active
<1>10. ASSUME NEW t \in DataTypes, NEW o \in Oracles, Staking(t, o)
       PROVE  WeightsOK'
  <2>1. UNCHANGED entry \/ \E amount \in StakeAmounts : SlashOracle(t, o, amount)
    BY <1>10 DEF Staking, Stake, RequestStakeWithdrawal, AskForStake, CancelStakeWithdrawal,
                 WithdrawStake, registryVars
  <2> QED BY <1>9, <2>1 DEF WeightsOK, Active
<1>11. ASSUME NEW t \in DataTypes, NEW o \in Oracles, Registration(t, o)
       PROVE  WeightsOK'
  BY <1>6, <1>7, <1>8, <1>11 DEF Registration
<1> QED BY <1>5, <1>10, <1>11 DEF Registering

LEMMA SettingRules ==
    ASSUME RulesOK, VerifierAssumption, Settings
    PROVE  RulesOK'
<1>1. CASE \E new \in GlobalRules : SetGlobalRule(new)
  BY <1>1 DEF RulesOK, SetGlobalRule, VerifierAssumption
<1>2. CASE \E t \in DataTypes : \E new \in TypeRules[t] : SetTypeRule(t, new)
  <2>1. PICK t \in DataTypes : \E new \in TypeRules[t] : SetTypeRule(t, new)
    BY <1>2
  <2>2. PICK new \in TypeRules[t] : SetTypeRule(t, new)
    BY <2>1
  <2>3. new \in TypeSettings
    BY DEF VerifierAssumption
  <2> QED BY <2>2, <2>3 DEF RulesOK, SetTypeRule
<1>3. CASE \E pair \in Correlations, max \in Variances : SetCrossValidationRule(pair[1], pair[2], max)
  BY <1>3 DEF RulesOK, SetCrossValidationRule
<1> QED BY <1>1, <1>2, <1>3 DEF Settings

LEMMA SampleStep ==
    ASSUME IInv, SampleInv, RegistryAssumption, VerifierAssumption, [Next]_vars
    PROVE  SampleInv'
<1> USE DEF SampleInv
<1>1. CASE Registering
  <2>1. UNCHANGED <<points, reputation, rules, config>>
    BY <1>1 DEF Registering, readingVars, ruleVars
  <2> QED BY <1>1, <2>1, RegisteringWeights DEF RulesOK, ReportsOK
<1>2. CASE Reporting
  <2>1. UNCHANGED <<entry, rules, config>>
    <3>1. ASSUME NEW t \in DataTypes, NEW o \in Oracles, Submission(t, o)
          PROVE  UNCHANGED <<entry, rules, config>>
      <4>1. Reported(t, o)
        BY <3>1 DEF Submission, SubmitData, SubmitEncryptedData, BatchSubmitData, SubmitDataBatch,
                    SubmitBatch
      <4> QED BY <4>1 DEF Reported, registryVars, ruleVars
    <3>2. ASSUME NEW t \in DataTypes, NEW k \in Keys, Verification(t, k)
          PROVE  UNCHANGED <<entry, rules, config>>
      <4>1. PICK value, condition : Judge(t, k, value, condition)
        BY <3>2 DEF Verification, VerifyTriggerFresh, VerifyTrigger
      <4> QED BY <4>1 DEF Judge, oracleVars, registryVars, ruleVars
    <3>3. ASSUME NEW t \in DataTypes, NEW o \in Oracles, NEW score \in Scores,
                 SetReputation(t, o, score)
          PROVE  UNCHANGED <<entry, rules, config>>
      BY <3>3 DEF SetReputation, oracleVars, registryVars, ruleVars
    <3>4. ASSUME NEW t \in DataTypes, NEW k \in Keys, InvalidateData(t, k)
          PROVE  UNCHANGED <<entry, rules, config>>
      BY <3>4 DEF InvalidateData, oracleVars, registryVars, ruleVars
    <3>5. ASSUME NEW pair \in Correlations, RemoveCrossValidationRule(pair[1], pair[2])
          PROVE  UNCHANGED <<entry, rules, config>>
      BY <3>5 DEF RemoveCrossValidationRule, oracleVars, registryVars
    <3> QED BY <1>2, <3>1, <3>2, <3>3, <3>4, <3>5 DEF Reporting
  <2> QED BY <1>2, <2>1, ReportingReports DEF RulesOK, WeightsOK, Active
<1>3. CASE Settings
  <2>1. UNCHANGED <<entry, points, reputation>>
    BY <1>3 DEF Settings, SetGlobalRule, SetTypeRule, SetCrossValidationRule, oracleVars,
                registryVars, readingVars
  <2> QED BY <1>3, <2>1, SettingRules DEF WeightsOK, Active, ReportsOK
<1>4. CASE Limits /\ UNCHANGED <<readingVars, ruleVars>>
  <2>1. UNCHANGED <<entry, points, reputation, rules, config>>
    BY <1>4 DEF Limits, SetOracleInactivityLimit, SetMinStake, SetChallengePeriod,
                SetSlashTreasury, registryVars, readingVars, ruleVars
  <2> QED BY <2>1 DEF WeightsOK, Active, ReportsOK, RulesOK
<1>5. CASE Tick \/ UNCHANGED vars
  <2>1. UNCHANGED <<entry, points, reputation, rules, config>>
    BY <1>5 DEF Tick, vars, oracleVars, registryVars, readingVars, ruleVars
  <2> QED BY <2>1 DEF WeightsOK, Active, ReportsOK, RulesOK
<1> QED BY <1>1, <1>2, <1>3, <1>4, <1>5 DEF Next

\* The readings R with the weights w.
WeighedBy(R, w) ==
    {[oracle |-> p.oracle, value |-> p.value, ts |-> p.ts, weight |-> w[p.oracle]] : p \in R}

\* Each value of the sample is that of a reading.
TakenFrom(R, sample) == \A r \in sample : \E p \in R : p.value = r.value

\* Readings of different oracles, each with a weight of at least 1, are a sample.
LEMMA WeightedIsSample ==
    ASSUME RegistryAssumption, NEW R, R # {}, NEW w,
           \A p \in R : p.oracle \in Oracles /\ p.value \in Int /\ p.ts \in Nat,
           \A p, q \in R : p.oracle = q.oracle => p = q,
           \A p \in R : w[p.oracle] \in Nat \ {0}
    PROVE  /\ IsSample(WeighedBy(R, w))
           /\ \A r \in WeighedBy(R, w) : \E p \in R : p.value = r.value
<1> DEFINE f == [p \in R |-> [oracle |-> p.oracle, value |-> p.value, ts |-> p.ts,
                              weight |-> w[p.oracle]]]
           W == {f[p] : p \in R}
           g == [p \in R |-> p.oracle]
<1>1. IsFiniteSet(R)
  <2>1. g \in Injection(R, Oracles)
    BY DEF Injection, IsInjective
  <2> QED BY <2>1, FS_Injection DEF RegistryAssumption
<1>2. IsFiniteSet(W)
  <2> HIDE DEF f
  <2> QED BY <1>1, ImageFinite
<1>3. IsSample(W)
  <2>1. \A p \in R : f[p] = [oracle |-> p.oracle, value |-> p.value, ts |-> p.ts,
                              weight |-> w[p.oracle]]
    OBVIOUS
  <2>2. \A r \in W : r.value \in Int /\ r.ts \in Nat /\ r.weight \in Nat \ {0}
    BY <2>1
  <2>3. W # {}
    <3>1. PICK p \in R : TRUE
      OBVIOUS
    <3>2. f[p] \in W
      OBVIOUS
    <3> HIDE DEF W, f
    <3> QED BY <3>2
  <2> HIDE DEF W, f
  <2> QED BY <1>2, <2>2, <2>3 DEF IsSample
<1>4. W = WeighedBy(R, w)
  BY DEF WeighedBy
<1>5. \A r \in W : \E p \in R : p.value = r.value
  BY <1>4 DEF WeighedBy
<1> HIDE DEF W
<1> QED BY <1>3, <1>4, <1>5

LEMMA EligibleOK ==
    ASSUME IInv, SampleInv, NEW t \in DataTypes, NEW k \in Keys
    PROVE  LET R == Eligible(t, points[t][k])
           IN  /\ \A p \in R : p.oracle \in Oracles /\ p.value \in Int /\ p.ts \in Nat
               /\ \A p, q \in R : p.oracle = q.oracle => p = q
               /\ \A p \in R : EffectiveWeight(t, p.oracle) \in Nat \ {0}
               /\ \A p \in R : RegisteredWeight(t, p.oracle) \in Nat \ {0}
<1>1. VoiceOf(points[t][k], newest[t][k]) /\ NumbersIn(points[t][k])
  BY DEF IInv, ReadingInv, DeskOK, SampleInv, ReportsOK
<1>2. \A p \in Eligible(t, points[t][k]) : p \in points[t][k] /\ Active(t, p.oracle)
  BY DEF Eligible, Fresh
<1>3. ASSUME NEW o \in Oracles, Active(t, o)
      PROVE  RegisteredWeight(t, o) \in Nat \ {0}
  BY <1>3 DEF RegisteredWeight, IInv, RegistryInv, Entries, SampleInv, WeightsOK
<1>4. ASSUME NEW o \in Oracles
      PROVE  EffectiveWeight(t, o) \in Nat \ {0}
  <2> DEFINE e == (entry[t][o].weight * reputation[t][o].score) \div FullScore
  <2>1. /\ entry[t][o].weight \in Nat /\ reputation[t][o].score \in Nat
        /\ FullScore \in Nat \ {0}
    BY VerifierAssumption
       DEF IInv, RegistryInv, Entries, SampleInv, ReportsOK, Standings, VerifierAssumption
  <2>2. entry[t][o].weight * reputation[t][o].score \in Nat
    BY <2>1
  <2>3. e \in Int /\ 1 \in Int
    BY <2>1, <2>2
  <2> HIDE DEF e
  <2>4. Max({1, e}) \in Int /\ Max({1, e}) >= 1
    BY <2>3, MaxOfTwo, Zenon
  <2>5. EffectiveWeight(t, o) = Max({1, e})
    BY DEF EffectiveWeight, e
  <2> QED BY <2>4, <2>5
<1> QED BY <1>1, <1>2, <1>3, <1>4 DEF VoiceOf, NumbersIn

\* What is combined, whichever the weights: some of the readings, if there are any.
LEMMA SampleOK ==
    ASSUME IInv, SampleInv, RegistryAssumption, SampleAssumption, NEW t \in DataTypes,
           NEW k \in Keys, NEW w,
           \A p \in Eligible(t, points[t][k]) : w[p.oracle] \in Nat \ {0},
           NEW sample,
           sample = IF Filterable(WeighedBy(Eligible(t, points[t][k]), w), config[t].outliers)
                    THEN WithoutOutliers(WeighedBy(Eligible(t, points[t][k]), w), config[t].outliers)
                    ELSE {},
           sample # {}
    PROVE  /\ IsSample(sample)
           /\ TakenFrom(Eligible(t, points[t][k]), sample)
<1> DEFINE R == Eligible(t, points[t][k])
           W == WeighedBy(R, w)
           limits == config[t].outliers
<1>0. sample = WithoutOutliers(W, limits)
  <2> HIDE DEF W, limits
  <2> QED BY DEF W, limits
<1>1. CASE R = {}
  <2>1. W = {} /\ Cardinality(W) = 0
    BY <1>1, FS_EmptySet DEF WeighedBy
  <2>2. ~(Cardinality(W) >= MinSample)
    BY <2>1 DEF SampleAssumption
  <2>3. WithoutOutliers(W, limits) = W
    BY <2>2 DEF WithoutOutliers, Filters
  <2> QED BY <1>0, <2>1, <2>3
<1>2. CASE R # {}
  <2>1. IsSample(W) /\ \A r \in W : \E p \in R : p.value = r.value
    BY <1>2, EligibleOK, WeightedIsSample
  <2>2. limits \in OutlierConfigs
    BY DEF SampleInv, RulesOK, TypeSettings
  <2>3. WithoutOutliers(W, limits) \in SUBSET W /\ WithoutOutliers(W, limits) # {}
    BY <2>1, <2>2, OutliersLeaveSome
  <2>4. IsSample(WithoutOutliers(W, limits))
    BY <2>1, <2>3, FS_Subset DEF IsSample
  <2> QED BY <1>0, <2>1, <2>3, <2>4 DEF TakenFrom
<1> QED BY <1>1, <1>2

LEMMA ValueSample ==
    ASSUME IInv, SampleInv, RegistryAssumption, SampleAssumption, NEW t \in DataTypes,
           NEW k \in Keys, NEW value \in Values(t, points[t][k])
    PROVE  LET sample == Sample(t, points[t][k], EffectiveWeight)
           IN  /\ IsSample(sample)
               /\ TakenFrom(Eligible(t, points[t][k]), sample)
               /\ value \in Aggregates(sample, config[t].method, clock)
<1> DEFINE w == [o \in Oracles |-> EffectiveWeight(t, o)]
           R == Eligible(t, points[t][k])
           W == WeighedBy(R, w)
<1>1. \A p \in R : p.oracle \in Oracles /\ w[p.oracle] = EffectiveWeight(t, p.oracle)
                   /\ w[p.oracle] \in Nat \ {0}
  BY EligibleOK
<1>2. W = Weighted(t, R, EffectiveWeight)
  BY <1>1 DEF Weighted, WeighedBy
<1>3. Sample(t, points[t][k], EffectiveWeight) =
        IF Filterable(W, config[t].outliers) THEN WithoutOutliers(W, config[t].outliers) ELSE {}
  BY <1>2 DEF Sample
<1>4. /\ Sample(t, points[t][k], EffectiveWeight) # {}
      /\ value \in Aggregates(Sample(t, points[t][k], EffectiveWeight), config[t].method, clock)
  BY DEF Values
<1> DEFINE sample == Sample(t, points[t][k], EffectiveWeight)
<1> HIDE DEF w, W, sample
<1>5. \A p \in Eligible(t, points[t][k]) : w[p.oracle] \in Nat \ {0}
  BY <1>1
<1>6. sample = IF Filterable(WeighedBy(Eligible(t, points[t][k]), w), config[t].outliers)
               THEN WithoutOutliers(WeighedBy(Eligible(t, points[t][k]), w), config[t].outliers)
               ELSE {}
  BY <1>3 DEF W, sample
<1>7. sample # {}
  BY <1>4 DEF sample
<1>8. IsSample(sample) /\ TakenFrom(Eligible(t, points[t][k]), sample)
  <2>1. RegistryAssumption /\ SampleAssumption
    OBVIOUS
  <2>2. IInv /\ SampleInv
    OBVIOUS
  <2>3. t \in DataTypes /\ k \in Keys
    OBVIOUS
  <2> QED BY <1>5, <1>6, <1>7, SampleOK, <2>1, <2>2, <2>3
<1> QED BY <1>4, <1>8 DEF sample

LEMMA ReportedSample ==
    ASSUME IInv, SampleInv, RegistryAssumption, SampleAssumption, NEW t \in DataTypes,
           NEW k \in Keys, NEW value \in ReportedValues(t, points[t][k])
    PROVE  LET sample == Sample(t, points[t][k], RegisteredWeight)
           IN  /\ IsSample(sample)
               /\ TakenFrom(Eligible(t, points[t][k]), sample)
               /\ value \in Aggregates(sample, config[t].method, clock)
<1> DEFINE w == [o \in Oracles |-> RegisteredWeight(t, o)]
           R == Eligible(t, points[t][k])
           W == WeighedBy(R, w)
<1>1. \A p \in R : p.oracle \in Oracles /\ w[p.oracle] = RegisteredWeight(t, p.oracle)
                   /\ w[p.oracle] \in Nat \ {0}
  BY EligibleOK
<1>2. W = Weighted(t, R, RegisteredWeight)
  BY <1>1 DEF Weighted, WeighedBy
<1>3. Sample(t, points[t][k], RegisteredWeight) =
        IF Filterable(W, config[t].outliers) THEN WithoutOutliers(W, config[t].outliers) ELSE {}
  BY <1>2 DEF Sample
<1>4. /\ Sample(t, points[t][k], RegisteredWeight) # {}
      /\ value \in Aggregates(Sample(t, points[t][k], RegisteredWeight), config[t].method, clock)
  BY DEF ReportedValues
<1> DEFINE sample == Sample(t, points[t][k], RegisteredWeight)
<1> HIDE DEF w, W, sample
<1>5. \A p \in Eligible(t, points[t][k]) : w[p.oracle] \in Nat \ {0}
  BY <1>1
<1>6. sample = IF Filterable(WeighedBy(Eligible(t, points[t][k]), w), config[t].outliers)
               THEN WithoutOutliers(WeighedBy(Eligible(t, points[t][k]), w), config[t].outliers)
               ELSE {}
  BY <1>3 DEF W, sample
<1>7. sample # {}
  BY <1>4 DEF sample
<1>8. IsSample(sample) /\ TakenFrom(Eligible(t, points[t][k]), sample)
  <2>1. RegistryAssumption /\ SampleAssumption
    OBVIOUS
  <2>2. IInv /\ SampleInv
    OBVIOUS
  <2>3. t \in DataTypes /\ k \in Keys
    OBVIOUS
  <2> QED BY <1>5, <1>6, <1>7, SampleOK, <2>1, <2>2, <2>3
<1> QED BY <1>4, <1>8 DEF sample

\* Each comparison of a trigger holds between two values it holds of.
LEMMA MeetsBetween ==
    ASSUME VerifierAssumption, NEW condition \in Conditions, NEW low \in Int, NEW high \in Int,
           NEW value \in Int, low <= value, value <= high, Meets(low, condition), Meets(high, condition)
    PROVE  Meets(value, condition)
<1>1. /\ condition.comparison \in Comparisons /\ condition.threshold \in Int
      /\ condition.tolerance \in Nat /\ condition.tolerance <= Limit /\ Limit \in Nat
  <2>1. condition \in [comparison: Comparisons, threshold: I128, tolerance: 0..Limit]
    BY DEF VerifierAssumption
  <2>2. Limit \in Nat
    BY SampleAssumption DEF SampleAssumption
  <2> QED BY <2>1, <2>2, I128Int
<1>2. CASE condition.comparison = "LessThan"
  BY <1>1, <1>2 DEF Meets
<1>3. CASE condition.comparison = "GreaterThan"
  BY <1>1, <1>3 DEF Meets
<1>4. CASE condition.comparison = "Equal"
  BY <1>1, <1>4 DEF Meets
<1>5. CASE condition.comparison = "EqualWithTolerance"
  <2>1. /\ Gap(low, condition.threshold) <= condition.tolerance
        /\ Gap(high, condition.threshold) <= condition.tolerance
    BY <1>5 DEF Meets
  <2>2. Gap(value, condition.threshold) <= condition.tolerance
    BY <1>1, <2>1 DEF Gap, Saturated, Distance
  <2> QED BY <1>5, <2>2 DEF Meets
<1> QED BY <1>1, <1>2, <1>3, <1>4, <1>5 DEF Comparisons

LEMMA ReadingsBound ==
    ASSUME IInv, SampleInv, RegistryAssumption, SampleAssumption, VerifierAssumption
    PROVE  WithinReadings
<1>1. clock \in Nat /\ \A t \in DataTypes : config[t].method \in Methods
  BY DEF IInv, NumbersOK, SampleInv, RulesOK, TypeSettings
<1>2. ASSUME NEW t \in DataTypes, NEW k \in Keys, NEW value \in Values(t, points[t][k]),
             \/ config[t].method = "WeightedMedian"
             \/ SumsFit(Sample(t, points[t][k], EffectiveWeight), config[t].method, clock)
      PROVE  Between(Eligible(t, points[t][k]), value)
  <2> DEFINE sample == Sample(t, points[t][k], EffectiveWeight)
  <2>1. /\ IsSample(sample)
        /\ TakenFrom(Eligible(t, points[t][k]), sample)
        /\ value \in Aggregates(sample, config[t].method, clock)
    BY <1>2, ValueSample
  <2> HIDE DEF sample
  <2>2. Between(sample, value)
    BY <1>1, <1>2, <2>1, AggregatesBetween DEF sample
  <2> QED BY <2>1, <2>2 DEF Between, TakenFrom
<1>3. ASSUME NEW t \in DataTypes, NEW k \in Keys, NEW value \in ReportedValues(t, points[t][k]),
             \/ config[t].method = "WeightedMedian"
             \/ SumsFit(Sample(t, points[t][k], RegisteredWeight), config[t].method, clock)
      PROVE  Between(Eligible(t, points[t][k]), value)
  <2> DEFINE sample == Sample(t, points[t][k], RegisteredWeight)
  <2>1. /\ IsSample(sample)
        /\ TakenFrom(Eligible(t, points[t][k]), sample)
        /\ value \in Aggregates(sample, config[t].method, clock)
    BY <1>3, ReportedSample
  <2> HIDE DEF sample
  <2>2. Between(sample, value)
    BY <1>1, <1>3, <2>1, AggregatesBetween DEF sample
  <2> QED BY <2>1, <2>2 DEF Between, TakenFrom
<1>4. ASSUME NEW t \in DataTypes, NEW k \in Keys, NEW value,
             Between(Eligible(t, points[t][k]), value), NEW condition \in Conditions,
             \A p \in Eligible(t, points[t][k]) : Meets(p.value, condition)
      PROVE  Meets(value, condition)
  <2>1. value \in Int
    BY <1>4 DEF Between
  <2>2. PICK p, q \in Eligible(t, points[t][k]) : p.value <= value /\ value <= q.value
    BY <1>4 DEF Between
  <2>3. p.value \in Int /\ q.value \in Int
    BY EligibleOK
  <2> QED BY <1>4, <2>1, <2>2, <2>3, MeetsBetween
<1> QED BY <1>2, <1>3, <1>4 DEF WithinReadings, Between

LEMMA MajorityBound ==
    ASSUME IInv, SampleInv, RegistryAssumption, SampleAssumption
    PROVE  MinorityCannotMove
<1> SUFFICES ASSUME NEW t \in DataTypes, NEW k \in Keys, config[t].method = "WeightedMedian",
                    NEW value \in Values(t, points[t][k]),
                    NEW majority \in SUBSET Sample(t, points[t][k], EffectiveWeight),
                    2 * TotalWeight(majority) > TotalWeight(Sample(t, points[t][k], EffectiveWeight))
             PROVE  \E p, q \in majority : p.value <= value /\ value <= q.value
  BY DEF MinorityCannotMove
<1> DEFINE sample == Sample(t, points[t][k], EffectiveWeight)
<1>1. IsSample(sample) /\ value \in Aggregates(sample, config[t].method, clock)
  BY ValueSample
<1>2. value = WeightedMedian(sample)
  BY <1>1 DEF Aggregates
<1> HIDE DEF sample
<1>3. Between(majority, WeightedMedian(sample))
  BY <1>1, MedianBetween DEF sample
<1> QED BY <1>2, <1>3 DEF Between

LEMMA SamplesInductive ==
    ASSUME RegistryAssumption, SampleAssumption, VerifierAssumption
    PROVE  Spec => [](IInv /\ SampleInv)
<1>1. Init => IInv /\ SampleInv
  BY InitOK, InitSamples
<1>2. (IInv /\ SampleInv) /\ [Next]_vars => (IInv /\ SampleInv)'
  BY Step, SampleStep
<1> QED BY <1>1, <1>2, PTL DEF Spec

-----------------------------------------------------------------------------
LEMMA Inductive ==
    ASSUME RegistryAssumption, VerifierAssumption
    PROVE  Spec => []IInv
<1>1. Init => IInv
  BY InitOK
<1>2. IInv /\ [Next]_vars => IInv'
  BY Step
<1> QED BY <1>1, <1>2, PTL DEF Spec

\* The fields of registrations, the lists, the stakes and the marks are in their
\* ranges whatever add_oracle, stake, slash_oracle, submit_data and the sweeps do: no
\* stake is ever below zero.
THEOREM TypeCorrect == Spec => []TypeOK
<1>1. IInv => TypeOK
  BY DEF IInv, RegistryInv, NumbersOK, ReadingInv, DeskOK, Marks, Entries, TypeOK
<1>2. RegistryAssumption /\ VerifierAssumption
  BY RegistryAssumption, VerifierAssumption
<1> QED BY <1>1, <1>2, Inductive, PTL

\* The list of a type names its active registrations, and an address reports for one
\* type, whatever order registrations, removals, slashes and sweeps come in - but for
\* an address removed again from a type it had left.
THEOREM RegistryCorrect == Spec => []RegistryExact
<1>1. IInv => RegistryExact
  BY DEF IInv, RegistryInv
<1>2. RegistryAssumption /\ VerifierAssumption
  BY RegistryAssumption, VerifierAssumption
<1> QED BY <1>1, <1>2, Inductive, PTL

\* The token balance is the stake of all oracles over all types and what was slashed
\* before a treasury was set: no slash, stale penalty or withdrawal, whatever its
\* amount and whoever asks, takes from the stake of another.
THEOREM StakesAreBacked == Spec => []StakeBacked
<1> DEFINE Both == IInv /\ MoneyInv
<1>1. RegistryAssumption /\ VerifierAssumption
  BY RegistryAssumption, VerifierAssumption
<1>2. Init => Both
  BY <1>1, InitOK, InitMoney
<1>3. Both /\ [Next]_vars => Both'
  <2>1. IInv' => NumbersOK'
    BY DEF IInv
  <2> QED BY <1>1, <2>1, Step, MoneyStep
<1>4. Both => StakeBacked
  BY DEF MoneyInv
<1> QED BY <1>2, <1>3, <1>4, PTL DEF Spec

\* Whoever asked for its stake (request_stake_withdrawal) after it was registered does
\* not report while it waits: nothing registers an address for a type a second time,
\* whoever calls what meanwhile.  A request made before any registration is exempt,
\* since request_stake_withdrawal accepts it and add_oracle does not look for it.
THEOREM ChallengeCorrect == Spec => []ChallengeServed
<1>1. IInv => ChallengeServed
  BY DEF IInv, WaitingInv, ChallengeServed, Active
<1>2. RegistryAssumption /\ VerifierAssumption
  BY RegistryAssumption, VerifierAssumption
<1> QED BY <1>1, <1>2, Inductive, PTL

\* Through every submission path, batches of one key included, an oracle has one
\* reading of a key and it is the newest it submitted (store_plain_reading).
THEOREM VoiceCorrect == Spec => []OneVoice
<1>1. IInv => OneVoice
  BY DEF IInv, ReadingInv, DeskOK, VoiceOf, OneVoice
<1>2. RegistryAssumption /\ VerifierAssumption
  BY RegistryAssumption, VerifierAssumption
<1> QED BY <1>1, <1>2, Inductive, PTL

\* The value a verdict compares (get_median_value) and the value get_aggregated reports
\* lie among the readings they are made of, for any outlier settings, weights,
\* reputations and timestamps, so that a trigger every reading meets is met: with the
\* weighted median always, with the three averages when every value times the sum of the
\* shares is an i128 (SumsFit): beyond that saturating_add may keep less than was added.
THEOREM ValuesStayWithinReadings == Spec => []WithinReadings
<1>1. RegistryAssumption /\ SampleAssumption /\ VerifierAssumption
  BY RegistryAssumption, SampleAssumption, VerifierAssumption
<1>2. IInv /\ SampleInv => WithinReadings
  BY <1>1, ReadingsBound
<1> QED BY <1>1, <1>2, SamplesInductive, PTL

\* What weighted_median is chosen for: however many oracles, and whatever the others
\* submit, those with more than half of the weight have the median between them.
THEOREM MajorityHoldsMedian == Spec => []MinorityCannotMove
<1>1. RegistryAssumption /\ SampleAssumption /\ VerifierAssumption
  BY RegistryAssumption, SampleAssumption, VerifierAssumption
<1>2. IInv /\ SampleInv => MinorityCannotMove
  BY <1>1, MajorityBound
<1> QED BY <1>1, <1>2, SamplesInductive, PTL
=============================================================================
