-------------------------- MODULE PolicyBookProofs --------------------------
(***************************************************************************)
(* Proofs about the policy engine.  The catalogue: a product on sale owns  *)
(* its name and is listed once, however often products are paused and      *)
(* deprecated again.  The policies: BookInv is inductive, and with it the  *)
(* listing of policies by holder is exact and money leaves the contract    *)
(* only by a settlement.  All for every value of the constants.            *)
(*                                                                         *)
(* The lemmas on single entry points are stated without the clock and the  *)
(* catalogue, so that the proofs about the composed contracts can use them *)
(* too.                                                                    *)
(***************************************************************************)
EXTENDS PolicyBook, TLAPS

-----------------------------------------------------------------------------
(* The product catalogue. *)

LEMMA CatalogueStepType ==
    ASSUME CatalogueAssumption, CatalogueTypeOK, CatalogueNext
    PROVE  CatalogueTypeOK'
  <1>1. ASSUME NEW c \in Categories, NEW k \in OracleKeys, NEW n \in Names,
               CreateProduct(c, k, n)
        PROVE  CatalogueTypeOK'
    <2>1. nextProductId \in ProductIds /\ nextProductId \in 0..MaxProducts
      BY <1>1 DEF CreateProduct, ProductIds
    <2>2. product' \in [ProductIds -> Products \cup {NoProduct}]
      BY <1>1, <2>1 DEF CreateProduct, CatalogueTypeOK, Products
    <2>3. nextProductId' \in 1..(MaxProducts + 1)
      BY <1>1, <2>1 DEF CreateProduct, ProductIds, CatalogueAssumption
    <2>4. /\ productKey' \in [Categories \X OracleKeys -> 0..MaxProducts]
          /\ productName' \in [Names -> 0..MaxProducts]
      BY <1>1, <2>1 DEF CreateProduct, CatalogueTypeOK
    <2>5. poolCount' \in [Categories -> Nat]
      BY <1>1 DEF CreateProduct, CatalogueTypeOK
    <2>6. activeProducts' \in [ProductIds -> Nat]
      BY <1>1, <2>1 DEF CreateProduct, CatalogueTypeOK, Push
    <2>7. QED
      BY <2>2, <2>3, <2>4, <2>5, <2>6 DEF CatalogueTypeOK
  <1>2. ASSUME NEW g \in ProductIds, PauseProduct(g)
        PROVE  CatalogueTypeOK'
    <2>1. product[g] \in Products
      BY <1>2 DEF PauseProduct, CatalogueTypeOK, NoProduct
    <2>2. product' \in [ProductIds -> Products \cup {NoProduct}]
      BY <1>2, <2>1 DEF PauseProduct, CatalogueTypeOK, Products
    <2>3. activeProducts' \in [ProductIds -> Nat]
      BY <1>2 DEF PauseProduct, CatalogueTypeOK, RemoveFirst
    <2>4. QED
      BY <1>2, <2>2, <2>3 DEF PauseProduct, CatalogueTypeOK
  <1>3. ASSUME NEW g \in ProductIds, DeprecateProduct(g)
        PROVE  CatalogueTypeOK'
    <2>1. product[g] \in Products
      BY <1>3 DEF DeprecateProduct, CatalogueTypeOK, NoProduct
    <2>2. product' \in [ProductIds -> Products \cup {NoProduct}]
      BY <1>3, <2>1 DEF DeprecateProduct, CatalogueTypeOK, Products
    <2>3. activeProducts' \in [ProductIds -> Nat]
      BY <1>3 DEF DeprecateProduct, CatalogueTypeOK, RemoveFirst
    <2>4. 0 \in 0..MaxProducts
      BY DEF CatalogueAssumption
    <2>5. /\ productKey' \in [Categories \X OracleKeys -> 0..MaxProducts]
          /\ productName' \in [Names -> 0..MaxProducts]
      BY <1>3, <2>4 DEF DeprecateProduct, CatalogueTypeOK
    <2>6. poolCount' \in [Categories -> Nat]
      <3>1. \A n \in Nat : n > 0 => n - 1 \in Nat
        OBVIOUS
      <3>2. poolCount \in [Categories -> Nat] /\ product[g].category \in Categories
        BY <2>1 DEF CatalogueTypeOK, Products
      <3>3. QED
        BY <1>3, <3>1, <3>2 DEF DeprecateProduct
    <2>7. QED
      BY <1>3, <2>2, <2>3, <2>5, <2>6 DEF DeprecateProduct, CatalogueTypeOK
  <1>4. QED
    BY <1>1, <1>2, <1>3 DEF CatalogueNext

-----------------------------------------------------------------------------
(***************************************************************************)
(* One lemma per entry point, then the invariant.                          *)
(***************************************************************************)

LEMMA CreateProductInv ==
    ASSUME CatalogueAssumption, CatalogueInv,
           NEW c \in Categories, NEW k \in OracleKeys, NEW n \in Names,
           CreateProduct(c, k, n)
    PROVE  ProductsInOrder' /\ OnSaleOwnsName' /\ ActiveListExact'
  <1> DEFINE fresh == nextProductId
             r == [category |-> c, key |-> k, name |-> n, status |-> "Active"]
  <1>1. fresh \in ProductIds /\ fresh \in Nat /\ fresh # 0
    BY DEF CreateProduct, ProductIds
  <1>2. /\ product'[fresh] = r
        /\ \A g \in ProductIds \ {fresh} : product'[g] = product[g]
    BY <1>1 DEF CreateProduct, CatalogueInv, CatalogueTypeOK
  <1>3. r.status = "Active" /\ r.name = n
    OBVIOUS
  <1> HIDE DEF r
  <1>4. ProductsInOrder'
    BY <1>1, <1>2, <1>3 DEF CreateProduct, CatalogueInv, ProductsInOrder, ProductIds
  <1>5. OnSaleOwnsName'
    <2> SUFFICES ASSUME NEW g \in ProductIds, product'[g].status = "Active"
                 PROVE  productName'[product'[g].name] = g
      BY DEF OnSaleOwnsName
    <2>1. productName' = [productName EXCEPT ![n] = fresh]
      BY DEF CreateProduct
    <2>2. CASE g = fresh
      BY <1>2, <1>3, <2>1, <2>2 DEF CatalogueInv, CatalogueTypeOK
    <2>3. CASE g # fresh
      <3>1. product'[g] = product[g] /\ productName[product[g].name] = g
        BY <1>2, <2>3 DEF CatalogueInv, OnSaleOwnsName
      <3>2. product[g].name \in Names
        BY <1>2, <2>3 DEF CatalogueInv, CatalogueTypeOK, Products, NoProduct
      <3>3. product[g].name # n
        BY <3>1 DEF CreateProduct, ProductIds
      <3>4. QED
        BY <2>1, <3>1, <3>2, <3>3 DEF CatalogueInv, CatalogueTypeOK
    <2>4. QED
      BY <2>2, <2>3
  <1>6. ActiveListExact'
    <2>1. product[fresh].status = "None"
      BY <1>1 DEF CatalogueInv, ProductsInOrder
    <2>2. activeProducts[fresh] = 0
      BY <1>1, <2>1 DEF CatalogueInv, ActiveListExact
    <2>3. /\ activeProducts'[fresh] = 1
          /\ \A g \in ProductIds \ {fresh} : activeProducts'[g] = activeProducts[g]
      BY <1>1, <2>2 DEF CreateProduct, Push, CatalogueInv, CatalogueTypeOK
    <2>4. QED
      BY <1>2, <1>3, <2>3 DEF CatalogueInv, ActiveListExact
  <1>7. QED
    BY <1>4, <1>5, <1>6

\* What pausing and deprecating have in common: g leaves sale and leaves the list.
LEMMA OffSale ==
    ASSUME CatalogueInv, NEW g \in ProductIds, product[g].status # "None",
           NEW s \in {"Paused", "Deprecated"},
           product' = [product EXCEPT ![g].status = s],
           activeProducts' = RemoveFirst(activeProducts, g)
    PROVE  /\ product'[g].status = s
           /\ \A h \in ProductIds \ {g} : product'[h] = product[h]
           /\ ActiveListExact'
  <1>1. product[g] \in Products
    BY DEF CatalogueInv, CatalogueTypeOK, NoProduct
  <1>2. /\ product'[g].status = s
        /\ \A h \in ProductIds \ {g} : product'[h] = product[h]
    BY <1>1 DEF CatalogueInv, CatalogueTypeOK, Products
  <1>3. activeProducts[g] \in {0, 1}
    BY DEF CatalogueInv, ActiveListExact
  <1>4. /\ activeProducts'[g] = 0
        /\ \A h \in ProductIds \ {g} : activeProducts'[h] = activeProducts[h]
    BY <1>3 DEF RemoveFirst, CatalogueInv, CatalogueTypeOK
  <1>5. ActiveListExact'
    BY <1>2, <1>4 DEF CatalogueInv, ActiveListExact
  <1>6. QED
    BY <1>2, <1>5

LEMMA PauseProductInv ==
    ASSUME CatalogueInv, NEW g \in ProductIds, PauseProduct(g)
    PROVE  ProductsInOrder' /\ OnSaleOwnsName' /\ ActiveListExact'
  <1>1. /\ product[g].status # "None"
        /\ product'[g].status = "Paused"
        /\ \A h \in ProductIds \ {g} : product'[h] = product[h]
        /\ ActiveListExact'
    BY OffSale DEF PauseProduct
  <1>2. ProductsInOrder'
    BY <1>1 DEF PauseProduct, CatalogueInv, ProductsInOrder
  <1>3. OnSaleOwnsName'
    BY <1>1 DEF PauseProduct, CatalogueInv, OnSaleOwnsName
  <1>4. QED
    BY <1>1, <1>2, <1>3

\* The name is given up only if g owns it, so a successor on sale keeps its own.
LEMMA DeprecateProductInv ==
    ASSUME CatalogueInv, NEW g \in ProductIds, DeprecateProduct(g)
    PROVE  ProductsInOrder' /\ OnSaleOwnsName' /\ ActiveListExact'
  <1>1. /\ product[g].status # "None"
        /\ product'[g].status = "Deprecated"
        /\ \A h \in ProductIds \ {g} : product'[h] = product[h]
        /\ ActiveListExact'
    BY OffSale DEF DeprecateProduct
  <1>2. ProductsInOrder'
    BY <1>1 DEF DeprecateProduct, CatalogueInv, ProductsInOrder
  <1>3. OnSaleOwnsName'
    <2> SUFFICES ASSUME NEW h \in ProductIds, product'[h].status = "Active"
                 PROVE  productName'[product'[h].name] = h
      BY DEF OnSaleOwnsName
    <2>1. h # g /\ product'[h] = product[h]
      BY <1>1
    <2>2. productName[product[h].name] = h
      BY <2>1 DEF CatalogueInv, OnSaleOwnsName
    <2>3. product[h].name \in Names
      BY <2>1 DEF CatalogueInv, CatalogueTypeOK, Products, NoProduct
    <2>4. productName'[product[h].name] = productName[product[h].name]
      BY <2>1, <2>2, <2>3 DEF DeprecateProduct, CatalogueInv, CatalogueTypeOK
    <2>5. QED
      BY <2>1, <2>2, <2>4
  <1>4. QED
    BY <1>1, <1>2, <1>3

LEMMA CatalogueInitInv ==
    ASSUME CatalogueAssumption, CatalogueInit
    PROVE  CatalogueInv
  <1>1. CatalogueTypeOK
    BY DEF CatalogueInit, CatalogueTypeOK, CatalogueAssumption, EmptyVec
  <1>2. ProductsInOrder /\ OnSaleOwnsName /\ ActiveListExact
    BY DEF CatalogueInit, ProductsInOrder, OnSaleOwnsName, ActiveListExact, NoProduct,
           EmptyVec, ProductIds
  <1>3. QED
    BY <1>1, <1>2 DEF CatalogueInv

LEMMA CatalogueNextInv ==
    ASSUME CatalogueAssumption, CatalogueInv, [CatalogueNext]_catalogueVars
    PROVE  CatalogueInv'
  <1>1. CASE CatalogueNext
    <2>1. CatalogueTypeOK'
      BY <1>1, CatalogueStepType DEF CatalogueInv
    <2>2. ProductsInOrder' /\ OnSaleOwnsName' /\ ActiveListExact'
      BY <1>1, CreateProductInv, PauseProductInv, DeprecateProductInv DEF CatalogueNext
    <2>3. QED
      BY <2>1, <2>2 DEF CatalogueInv
  <1>2. CASE UNCHANGED catalogueVars
    BY <1>2 DEF catalogueVars, CatalogueInv, CatalogueTypeOK, ProductsInOrder,
                OnSaleOwnsName, ActiveListExact
  <1>3. QED
    BY <1>1, <1>2

\* A product on sale owns the index entry of its name and is on the list of
\* active products once; nothing else is on that list.
THEOREM CatalogueExact ==
    ASSUME CatalogueAssumption
    PROVE  CatalogueSpec => [](OnSaleOwnsName /\ ActiveListExact)
  <1>1. CatalogueInit => CatalogueInv
    BY CatalogueInitInv
  <1>2. CatalogueInv /\ [CatalogueNext]_catalogueVars => CatalogueInv'
    BY CatalogueNextInv
  <1>3. CatalogueInv => OnSaleOwnsName /\ ActiveListExact
    BY DEF CatalogueInv
  <1>4. QED
    BY <1>1, <1>2, <1>3, PTL DEF CatalogueSpec

-----------------------------------------------------------------------------
(* The policies. *)

\* Truncating division of amounts that are not negative.
LEMMA DivNat ==
    ASSUME NEW a \in Nat, NEW b \in Nat \ {0}
    PROVE  a \div b \in Nat
  BY SMT

LEMMA PremiumNat ==
    ASSUME BookAssumption, NEW coverage \in Nat, NEW days \in Nat
    PROVE  Premium(coverage, days) \in Nat
  <1>1. coverage * RateBps * days \in Nat
    BY DEF BookAssumption
  <1>2. QED
    BY <1>1, DivNat DEF Premium, BookAssumption

\* A refund is an amount and never more than the premium.
LEMMA RefundBound ==
    ASSUME NEW pol, NEW t \in Nat,
           pol.start \in Nat, pol.end \in Nat, pol.premium \in Nat,
           pol.start < pol.end
    PROVE  Refund(pol, t) \in Int /\ Refund(pol, t) <= pol.premium
  <1> DEFINE total == pol.end - pol.start
             elapsed == IF t <= pol.start THEN 0 ELSE Lesser(t - pol.start, total)
  <1>1. total \in Nat \ {0}
    OBVIOUS
  <1>2. elapsed \in Nat
    BY <1>1 DEF Lesser
  <1>3. pol.premium * elapsed \in Nat
    BY <1>2
  <1>4. (pol.premium * elapsed) \div total \in Nat
    BY <1>1, <1>3, DivNat
  <1>5. QED
    BY <1>4 DEF Refund

-----------------------------------------------------------------------------
(***************************************************************************)
(* One lemma per entry point.                                              *)
(***************************************************************************)

LEMMA BuyPolicyInv ==
    ASSUME BookAssumption, PolicyInv, now' = now,
           NEW u \in Users, NEW g \in ProductIds, NEW coverage \in Coverages,
           NEW days \in Durations, NEW k \in OracleKeys, NEW start \in Nat,
           BuyPolicy(u, g, coverage, days, k, start)
    PROVE  PolicyInv'
  <1> DEFINE sold == [product |-> g, holder |-> u, key |-> k, status |-> "Active",
                      start |-> start, end |-> start + days * DaySecs,
                      coverage |-> coverage, premium |-> Premium(coverage, days)]
  <1>1. coverage \in Nat /\ days \in Nat \ {0} /\ DaySecs \in Nat \ {0}
    BY DEF BookAssumption
  <1>2. Premium(coverage, days) \in Nat
    BY <1>1, PremiumNat
  <1>3. days * DaySecs \in Nat \ {0}
    BY <1>1
  <1>4. sold \in Policies /\ sold.start < sold.end /\ sold.status # "None"
    BY <1>1, <1>2, <1>3 DEF Policies
  <1>5. policy' = [policy EXCEPT ![nextPolicyId] = sold]
    BY DEF BuyPolicy
  <1>6. nextPolicyId \in PolicyIds /\ nextPolicyId' = nextPolicyId + 1
    BY DEF BuyPolicy
  <1> HIDE DEF sold
  <1>7. PolicyTypeOK'
    <2>1. policy' \in [PolicyIds -> Policies \cup {NoPolicy}]
      BY <1>4, <1>5, <1>6 DEF PolicyInv, PolicyTypeOK
    <2>2. nextPolicyId' \in 1..(MaxPolicies + 1)
      BY <1>6 DEF PolicyIds, BookAssumption
    <2>3. escrow' \in Nat
      BY <1>2 DEF BuyPolicy, PolicyInv, PolicyTypeOK
    <2>4. listed' \in [Users -> [PolicyIds -> Nat]]
      BY <1>6 DEF BuyPolicy, PolicyInv, PolicyTypeOK, Push
    <2>5. lastPurchase' \in [Users \X OracleKeys -> Nat \cup {NoTime}]
      BY DEF BuyPolicy, PolicyInv, PolicyTypeOK
    <2>6. QED
      BY <2>1, <2>2, <2>3, <2>4, <2>5 DEF BuyPolicy, PolicyInv, PolicyTypeOK
  <1>8. SoldInOrder'
    BY <1>4, <1>5, <1>6 DEF PolicyInv, PolicyTypeOK, SoldInOrder, PolicyIds
  <1>9. CoverHasLength'
    BY <1>4, <1>5, <1>6 DEF PolicyInv, PolicyTypeOK, CoverHasLength
  <1>10. QED
    BY <1>7, <1>8, <1>9 DEF PolicyInv


\* What the four other entry points have in common: the record of one Active
\* policy is replaced by one with the same cover.
LEMMA RecordStepInv ==
    ASSUME PolicyInv, now' = now, NEW p \in PolicyIds, policy[p].status = "Active",
           NEW r \in Policies, r.start = policy[p].start, r.end = policy[p].end,
           policy' = [policy EXCEPT ![p] = r],
           nextPolicyId' = nextPolicyId, lastPurchase' = lastPurchase,
           pePaused' = pePaused, escrow' \in Nat,
           listed' \in [Users -> [PolicyIds -> Nat]]
    PROVE  PolicyInv'
  <1>1. policy[p] \in Policies
    BY DEF PolicyInv, PolicyTypeOK, NoPolicy
  <1>2. r.status # "None"
    BY DEF Policies
  <1>3. policy' \in [PolicyIds -> Policies \cup {NoPolicy}]
    BY <1>1 DEF PolicyInv, PolicyTypeOK
  <1>4. policy'[p] = r /\ \A q \in PolicyIds \ {p} : policy'[q] = policy[q]
    BY DEF PolicyInv, PolicyTypeOK
  <1>5. PolicyTypeOK'
    BY <1>3 DEF PolicyInv, PolicyTypeOK
  <1>6. SoldInOrder'
    BY <1>2, <1>4 DEF PolicyInv, SoldInOrder
  <1>7. CoverHasLength'
    BY <1>4 DEF PolicyInv, CoverHasLength
  <1>8. QED
    BY <1>5, <1>6, <1>7 DEF PolicyInv

\* A record of an Active policy with another status, or another holder, is one.
LEMMA StatusRecord ==
    ASSUME PolicyInv, NEW p \in PolicyIds, policy[p].status = "Active",
           NEW s \in {"Active", "Claimed", "Expired", "Cancelled"}
    PROVE  LET r == [policy[p] EXCEPT !.status = s] IN
           /\ r \in Policies
           /\ r.start = policy[p].start /\ r.end = policy[p].end
           /\ r.status = s /\ r.holder = policy[p].holder
           /\ [policy EXCEPT ![p].status = s] = [policy EXCEPT ![p] = r]
  <1>1. policy[p] \in Policies
    BY DEF PolicyInv, PolicyTypeOK, NoPolicy
  <1>2. QED
    BY <1>1 DEF Policies

LEMMA HolderRecord ==
    ASSUME PolicyInv, NEW p \in PolicyIds, policy[p].status = "Active", NEW u \in Users
    PROVE  LET r == [policy[p] EXCEPT !.holder = u] IN
           /\ r \in Policies
           /\ r.start = policy[p].start /\ r.end = policy[p].end
           /\ r.status = "Active" /\ r.holder = u
           /\ [policy EXCEPT ![p].holder = u] = [policy EXCEPT ![p] = r]
  <1>1. policy[p] \in Policies
    BY DEF PolicyInv, PolicyTypeOK, NoPolicy
  <1>2. QED
    BY <1>1 DEF Policies

LEMMA UnlistType ==
    ASSUME PolicyInv, NEW u \in Users, NEW p \in PolicyIds
    PROVE  Unlist(u, p) \in [Users -> [PolicyIds -> Nat]]
  BY DEF PolicyInv, PolicyTypeOK, Unlist, RemoveFirst

LEMMA PayClaimInv ==
    ASSUME PolicyInv, now' = now, NEW p \in PolicyIds, PayClaim(p)
    PROVE  PolicyInv'
  <1>1. policy[p] \in Policies
    BY DEF PayClaim, PolicyInv, PolicyTypeOK, NoPolicy
  <1>2. escrow' \in Nat
    BY <1>1 DEF PayClaim, PolicyInv, PolicyTypeOK, Policies
  <1>3. listed' \in [Users -> [PolicyIds -> Nat]]
    BY <1>1, UnlistType DEF PayClaim, Policies
  <1>4. QED
    BY <1>2, <1>3, StatusRecord, RecordStepInv DEF PayClaim

LEMMA ExpirePolicyInv ==
    ASSUME PolicyInv, now' = now, NEW p \in PolicyIds, ExpirePolicy(p)
    PROVE  PolicyInv'
  <1>1. policy[p] \in Policies
    BY DEF ExpirePolicy, PolicyInv, PolicyTypeOK, NoPolicy
  <1>2. escrow' \in Nat
    BY DEF ExpirePolicy, PolicyInv, PolicyTypeOK
  <1>3. listed' \in [Users -> [PolicyIds -> Nat]]
    BY <1>1, UnlistType DEF ExpirePolicy, Policies
  <1>4. QED
    BY <1>2, <1>3, StatusRecord, RecordStepInv DEF ExpirePolicy

LEMMA CancelPolicyInv ==
    ASSUME PolicyInv, now' = now, NEW p \in PolicyIds, CancelPolicy(p)
    PROVE  PolicyInv'
  <1>1. policy[p] \in Policies
    BY DEF CancelPolicy, PolicyInv, PolicyTypeOK, NoPolicy
  <1>2. Refund(policy[p], now) \in Int
    <2>1. policy[p].start < policy[p].end
      BY <1>1 DEF PolicyInv, CoverHasLength, Policies
    <2>2. QED
      BY <1>1, <2>1, RefundBound DEF PolicyInv, PolicyTypeOK, Policies
  <1>3. escrow' \in Nat
    BY <1>2 DEF CancelPolicy, PolicyInv, PolicyTypeOK
  <1>4. listed' \in [Users -> [PolicyIds -> Nat]]
    BY <1>1, UnlistType DEF CancelPolicy, Policies
  <1>5. QED
    BY <1>3, <1>4, StatusRecord, RecordStepInv DEF CancelPolicy

LEMMA TransferPolicyInv ==
    ASSUME PolicyInv, now' = now, NEW p \in PolicyIds, NEW to \in Users,
           TransferPolicy(p, to)
    PROVE  PolicyInv'
  <1>1. policy[p] \in Policies
    BY DEF TransferPolicy, PolicyInv, PolicyTypeOK, NoPolicy
  <1>2. escrow' \in Nat
    BY DEF TransferPolicy, PolicyInv, PolicyTypeOK
  <1>3. Unlist(policy[p].holder, p) \in [Users -> [PolicyIds -> Nat]]
    BY <1>1, UnlistType DEF Policies
  <1>4. listed' \in [Users -> [PolicyIds -> Nat]]
    BY <1>3 DEF TransferPolicy, Push
  <1>5. QED
    BY <1>2, <1>4, HolderRecord, RecordStepInv DEF TransferPolicy

LEMMA BookSwitchInv ==
    ASSUME PolicyInv, now' = now, BookSwitch
    PROVE  PolicyInv'
  BY DEF BookSwitch, EmergencyPause, EmergencyResume, PolicyInv, PolicyTypeOK,
         SoldInOrder, CoverHasLength

\* Every step of the policy engine that is not a product's, a clock's or a
\* claims processor's.
LEMMA BookStepInv ==
    ASSUME BookAssumption, PolicyInv, now' = now, Purchase \/ HolderStep \/ BookSwitch
    PROVE  PolicyInv'
  <1>1. CASE Purchase
    <2>1. PICK u \in Users, g \in ProductIds, coverage \in Coverages, days \in Durations,
               k \in OracleKeys, d \in StartDelays :
               BuyPolicy(u, g, coverage, days, k, now + d)
      BY <1>1 DEF Purchase
    <2>2. now + d \in Nat
      BY DEF PolicyInv, PolicyTypeOK, BookAssumption
    <2>3. QED
      BY <2>1, <2>2, BuyPolicyInv
  <1>2. CASE HolderStep
    BY <1>2, CancelPolicyInv, TransferPolicyInv DEF HolderStep
  <1>3. CASE BookSwitch
    BY <1>3, BookSwitchInv
  <1>4. QED
    BY <1>1, <1>2, <1>3

-----------------------------------------------------------------------------
(***************************************************************************)
(* The policy engine alone.                                                *)
(***************************************************************************)

LEMMA BookInitInv ==
    ASSUME CatalogueAssumption, BookAssumption, BookInit
    PROVE  BookInv
  <1>1. CatalogueTypeOK
    BY DEF BookInit, CatalogueInit, CatalogueTypeOK, CatalogueAssumption, EmptyVec
  <1>2. PolicyTypeOK
    <2>1. now \in Nat /\ escrow \in Nat /\ pePaused \in BOOLEAN
      BY DEF BookInit, BookAssumption
    <2>2. policy \in [PolicyIds -> Policies \cup {NoPolicy}]
      BY DEF BookInit
    <2>3. nextPolicyId \in 1..(MaxPolicies + 1)
      BY DEF BookInit, BookAssumption
    <2>4. listed \in [Users -> [PolicyIds -> Nat]]
      BY DEF BookInit, EmptyVec
    <2>5. lastPurchase \in [Users \X OracleKeys -> Nat \cup {NoTime}]
      BY DEF BookInit
    <2>6. QED
      BY <2>1, <2>2, <2>3, <2>4, <2>5 DEF PolicyTypeOK
  <1>3. SoldInOrder /\ CoverHasLength
    BY DEF BookInit, SoldInOrder, CoverHasLength, NoPolicy, PolicyIds
  <1>4. QED
    BY <1>1, <1>2, <1>3 DEF BookInv, PolicyInv

LEMMA BookNextInv ==
    ASSUME CatalogueAssumption, BookAssumption, BookInv, [BookNext]_bookVars
    PROVE  BookInv'
  <1>1. CASE Tick /\ UNCHANGED <<policyVars, catalogueVars>>
    BY <1>1 DEF Tick, policyVars, catalogueVars, BookInv, PolicyInv, PolicyTypeOK,
                SoldInOrder, CoverHasLength, CatalogueTypeOK
  <1>2. CASE CatalogueNext /\ UNCHANGED <<now, policyVars>>
    BY <1>2, CatalogueStepType DEF policyVars, BookInv, PolicyInv, PolicyTypeOK,
                              SoldInOrder, CoverHasLength
  <1>3. CASE /\ \/ Purchase \/ HolderStep \/ BookSwitch
                \/ \E p \in PolicyIds : PayClaim(p) \/ ExpirePolicy(p)
             /\ UNCHANGED <<now, catalogueVars>>
    <2>1. PolicyInv'
      BY <1>3, BookStepInv, PayClaimInv, ExpirePolicyInv DEF BookInv
    <2>2. CatalogueTypeOK'
      BY <1>3 DEF catalogueVars, BookInv, CatalogueTypeOK
    <2>3. QED
      BY <2>1, <2>2 DEF BookInv
  <1>4. CASE UNCHANGED bookVars
    BY <1>4 DEF bookVars, policyVars, catalogueVars, BookInv, PolicyInv, PolicyTypeOK,
                SoldInOrder, CoverHasLength, CatalogueTypeOK
  <1>5. QED
    BY <1>1, <1>2, <1>3, <1>4 DEF BookNext

\* The types of the policy engine, that its balance is never negative, that ids
\* are handed out in order and that no cover is without length, for any number of
\* products, policies, holders, amounts and times.
THEOREM BookInvariant ==
    ASSUME CatalogueAssumption, BookAssumption
    PROVE  BookSpec => []BookInv
  <1>1. BookInit => BookInv
    BY BookInitInv
  <1>2. BookInv /\ [BookNext]_bookVars => BookInv'
    BY BookNextInv
  <1>3. QED
    BY <1>1, <1>2, PTL DEF BookSpec

-----------------------------------------------------------------------------
(***************************************************************************)
(* The listing by holder.                                                  *)
(***************************************************************************)

\* A settlement takes the policy off its holder's list.
LEMMA UnlistExact ==
    ASSUME PolicyInv, ListedExactly, NEW p \in PolicyIds, policy[p].status = "Active",
           NEW s \in {"Claimed", "Expired", "Cancelled"},
           policy' = [policy EXCEPT ![p].status = s],
           listed' = Unlist(policy[p].holder, p)
    PROVE  ListedExactly'
  <1> DEFINE r == [policy[p] EXCEPT !.status = s]
  <1>1. policy[p] \in Policies /\ policy[p].holder \in Users
    BY DEF PolicyInv, PolicyTypeOK, NoPolicy, Policies
  <1>2. /\ policy' = [policy EXCEPT ![p] = r]
        /\ r.status = s /\ r.holder = policy[p].holder
    BY StatusRecord
  <1> HIDE DEF r
  <1>3. /\ policy'[p] = r
        /\ \A q \in PolicyIds \ {p} : policy'[q] = policy[q]
    BY <1>2 DEF PolicyInv, PolicyTypeOK
  <1>4. listed[policy[p].holder][p] = 1
    BY <1>1 DEF ListedExactly
  <1>5. /\ listed'[policy[p].holder][p] = 0
        /\ \A u \in Users, q \in PolicyIds :
             <<u, q>> # <<policy[p].holder, p>> => listed'[u][q] = listed[u][q]
    BY <1>1, <1>4 DEF Unlist, RemoveFirst, PolicyInv, PolicyTypeOK
  <1>6. QED
    BY <1>1, <1>2, <1>3, <1>5 DEF ListedExactly

LEMMA TransferExact ==
    ASSUME PolicyInv, ListedExactly, NEW p \in PolicyIds, NEW to \in Users,
           TransferPolicy(p, to)
    PROVE  ListedExactly'
  <1> DEFINE r == [policy[p] EXCEPT !.holder = to]
             from == policy[p].holder
  <1>1. policy[p] \in Policies /\ from \in Users /\ from # to
    BY DEF TransferPolicy, PolicyInv, PolicyTypeOK, NoPolicy, Policies
  <1>2. /\ policy' = [policy EXCEPT ![p] = r]
        /\ r.status = "Active" /\ r.holder = to
    BY HolderRecord DEF TransferPolicy
  <1> HIDE DEF r
  <1>3. /\ policy'[p] = r
        /\ \A q \in PolicyIds \ {p} : policy'[q] = policy[q]
    BY <1>2 DEF PolicyInv, PolicyTypeOK
  <1>4. listed[from][p] = 1 /\ listed[to][p] = 0
    BY <1>1 DEF ListedExactly, TransferPolicy
  <1>5. /\ listed'[from][p] = 0 /\ listed'[to][p] = 1
        /\ \A u \in Users, q \in PolicyIds :
             <<u, q>> \notin {<<from, p>>, <<to, p>>} => listed'[u][q] = listed[u][q]
    BY <1>1, <1>4 DEF TransferPolicy, Unlist, RemoveFirst, Push, PolicyInv, PolicyTypeOK
  <1>6. QED
    BY <1>1, <1>2, <1>3, <1>5 DEF ListedExactly, TransferPolicy

LEMMA BuyExact ==
    ASSUME PolicyInv, ListedExactly,
           NEW u \in Users, NEW g \in ProductIds, NEW coverage \in Coverages,
           NEW days \in Durations, NEW k \in OracleKeys, NEW start \in Nat,
           BuyPolicy(u, g, coverage, days, k, start)
    PROVE  ListedExactly'
  <1>1. nextPolicyId \in PolicyIds
    BY DEF BuyPolicy
  <1>2. policy[nextPolicyId].status = "None"
    BY <1>1 DEF PolicyInv, SoldInOrder, PolicyIds
  <1>3. \A w \in Users : listed[w][nextPolicyId] = 0
    BY <1>1, <1>2 DEF ListedExactly
  <1>4. /\ policy'[nextPolicyId].status = "Active" /\ policy'[nextPolicyId].holder = u
        /\ \A q \in PolicyIds \ {nextPolicyId} : policy'[q] = policy[q]
    BY <1>1 DEF BuyPolicy, PolicyInv, PolicyTypeOK
  <1>5. /\ listed'[u][nextPolicyId] = 1
        /\ \A w \in Users, q \in PolicyIds :
             <<w, q>> # <<u, nextPolicyId>> => listed'[w][q] = listed[w][q]
    BY <1>1, <1>3 DEF BuyPolicy, Push, PolicyInv, PolicyTypeOK
  <1>6. QED
    BY <1>1, <1>3, <1>4, <1>5 DEF ListedExactly

\* Every step that writes a policy or a list, by whichever contract it is asked for.
LEMMA ListedStep ==
    ASSUME BookAssumption, PolicyInv, ListedExactly,
           \/ Purchase
           \/ HolderStep
           \/ BookSwitch
           \/ \E p \in PolicyIds : PayClaim(p) \/ ExpirePolicy(p)
    PROVE  ListedExactly'
  <1>1. CASE Purchase
    <2>1. PICK u \in Users, g \in ProductIds, coverage \in Coverages, days \in Durations,
               k \in OracleKeys, d \in StartDelays :
               BuyPolicy(u, g, coverage, days, k, now + d)
      BY <1>1 DEF Purchase
    <2>2. now + d \in Nat
      BY DEF PolicyInv, PolicyTypeOK, BookAssumption
    <2>3. QED
      BY <2>1, <2>2, BuyExact
  <1>2. CASE HolderStep
    <2>1. ASSUME NEW p \in PolicyIds, CancelPolicy(p) PROVE ListedExactly'
      BY <2>1, UnlistExact DEF CancelPolicy
    <2>2. QED
      BY <1>2, <2>1, TransferExact DEF HolderStep
  <1>3. CASE BookSwitch
    BY <1>3 DEF BookSwitch, EmergencyPause, EmergencyResume, ListedExactly
  <1>4. CASE \E p \in PolicyIds : PayClaim(p) \/ ExpirePolicy(p)
    <2>1. ASSUME NEW p \in PolicyIds, PayClaim(p) PROVE ListedExactly'
      BY <2>1, UnlistExact DEF PayClaim
    <2>2. ASSUME NEW p \in PolicyIds, ExpirePolicy(p) PROVE ListedExactly'
      BY <2>2, UnlistExact DEF ExpirePolicy
    <2>3. QED
      BY <1>4, <2>1, <2>2
  <1>5. QED
    BY <1>1, <1>2, <1>3, <1>4

\* UserPolicies: whatever is bought, cancelled, transferred, paid and expired, and
\* in whatever order, each Active policy is on its holder's list, once, and on no
\* other, and no settled policy is on any.
THEOREM ListingExact ==
    ASSUME CatalogueAssumption, BookAssumption
    PROVE  BookSpec => []ListedExactly
  <1>1. BookInit => ListedExactly
    BY DEF BookInit, ListedExactly, EmptyVec, NoPolicy
  <1>2. BookInv /\ ListedExactly /\ [BookNext]_bookVars => ListedExactly'
    <2> SUFFICES ASSUME BookInv, ListedExactly, [BookNext]_bookVars
                 PROVE  ListedExactly'
      OBVIOUS
    <2>1. CASE UNCHANGED policyVars
      BY <2>1 DEF policyVars, ListedExactly
    <2>2. CASE \/ Purchase \/ HolderStep \/ BookSwitch
               \/ \E p \in PolicyIds : PayClaim(p) \/ ExpirePolicy(p)
      BY <2>2, ListedStep DEF BookInv
    <2>3. QED
      BY <2>1, <2>2 DEF BookNext, bookVars
  <1>3. QED
    BY <1>1, <1>2, BookInvariant, PTL DEF BookSpec

-----------------------------------------------------------------------------
(***************************************************************************)
(* Money.                                                                  *)
(***************************************************************************)

LEMMA PayClaimPaysOne ==
    ASSUME PolicyInv, NEW p \in PolicyIds, PayClaim(p)
    PROVE  PaysOneSettlement
  <1>1. /\ policy'[p].status = "Claimed"
        /\ \A q \in PolicyIds \ {p} : policy'[q] = policy[q]
    BY StatusRecord DEF PayClaim, PolicyInv, PolicyTypeOK
  <1>2. policy[p].coverage \in Nat /\ escrow \in Nat
    BY DEF PayClaim, PolicyInv, PolicyTypeOK, NoPolicy, Policies
  <1>3. QED
    BY <1>1, <1>2 DEF PaysOneSettlement, PayClaim

LEMMA CancelPolicyPaysOne ==
    ASSUME PolicyInv, NEW p \in PolicyIds, CancelPolicy(p)
    PROVE  PaysOneSettlement
  <1>1. /\ policy'[p].status = "Cancelled"
        /\ \A q \in PolicyIds \ {p} : policy'[q] = policy[q]
    BY StatusRecord DEF CancelPolicy, PolicyInv, PolicyTypeOK
  <1>2. policy[p] \in Policies /\ escrow \in Nat
    BY DEF CancelPolicy, PolicyInv, PolicyTypeOK, NoPolicy
  <1>3. Refund(policy[p], now) \in Int /\ Refund(policy[p], now) <= policy[p].premium
    <2>1. policy[p].start < policy[p].end
      BY <1>2 DEF PolicyInv, CoverHasLength, Policies
    <2>2. QED
      BY <1>2, <2>1, RefundBound DEF PolicyInv, PolicyTypeOK, Policies
  <1>4. escrow' = escrow - Refund(policy[p], now) /\ policy[p].premium \in Nat
    BY <1>2 DEF CancelPolicy, Policies
  <1>5. escrow - escrow' <= policy[p].premium
    BY <1>2, <1>3, <1>4
  <1>6. QED
    BY <1>1, <1>5 DEF PaysOneSettlement, CancelPolicy

\* Every step that may move money, by whichever contract it is asked for.
LEMMA MoneyStep ==
    ASSUME BookAssumption, PolicyInv,
           \/ Purchase
           \/ HolderStep
           \/ BookSwitch
           \/ \E p \in PolicyIds : PayClaim(p) \/ ExpirePolicy(p)
    PROVE  PaysOneSettlement
  <1>0. escrow \in Nat
    BY DEF PolicyInv, PolicyTypeOK
  <1>1. CASE Purchase
    <2>1. PICK u \in Users, g \in ProductIds, coverage \in Coverages, days \in Durations,
               k \in OracleKeys, d \in StartDelays :
               BuyPolicy(u, g, coverage, days, k, now + d)
      BY <1>1 DEF Purchase
    <2>2. Premium(coverage, days) \in Nat
      BY PremiumNat DEF BookAssumption
    <2>3. escrow' >= escrow
      BY <1>0, <2>1, <2>2 DEF BuyPolicy
    <2>4. QED
      BY <1>0, <2>1, <2>2, <2>3 DEF PaysOneSettlement, BuyPolicy
  <1>2. CASE HolderStep
    <2>1. ASSUME NEW p \in PolicyIds, NEW to \in Users, TransferPolicy(p, to)
          PROVE  PaysOneSettlement
      BY <1>0, <2>1 DEF TransferPolicy, PaysOneSettlement
    <2>2. QED
      BY <1>2, <2>1, CancelPolicyPaysOne DEF HolderStep
  <1>3. CASE BookSwitch
    BY <1>0, <1>3 DEF BookSwitch, EmergencyPause, EmergencyResume, PaysOneSettlement
  <1>4. CASE \E p \in PolicyIds : PayClaim(p) \/ ExpirePolicy(p)
    <2>1. ASSUME NEW p \in PolicyIds, ExpirePolicy(p) PROVE PaysOneSettlement
      BY <1>0, <2>1 DEF ExpirePolicy, PaysOneSettlement
    <2>2. QED
      BY <1>4, <2>1, PayClaimPaysOne
  <1>5. QED
    BY <1>1, <1>2, <1>3, <1>4

\* Whatever the callers do, no call takes money out of the policy engine but one
\* that settles a policy, and then no more than that policy is good for.
THEOREM MoneyLeaves ==
    ASSUME CatalogueAssumption, BookAssumption
    PROVE  BookSpec => MoneyLeavesBySettlement
  <1>1. BookInv /\ [BookNext]_bookVars => [PaysOneSettlement]_bookVars
    <2> SUFFICES ASSUME BookInv, BookNext PROVE PaysOneSettlement
      OBVIOUS
    <2>1. CASE UNCHANGED policyVars
      BY <2>1 DEF policyVars, PaysOneSettlement, BookInv, PolicyInv, PolicyTypeOK
    <2>2. CASE \/ Purchase \/ HolderStep \/ BookSwitch
               \/ \E p \in PolicyIds : PayClaim(p) \/ ExpirePolicy(p)
      BY <2>2, MoneyStep DEF BookInv
    <2>3. QED
      BY <2>1, <2>2 DEF BookNext
  <1>2. QED
    BY <1>1, BookInvariant, PTL DEF BookSpec, MoneyLeavesBySettlement

-----------------------------------------------------------------------------
(***************************************************************************)
(* Refunds over time.                                                      *)
(***************************************************************************)

\* Truncating division of a larger amount gives no less.
LEMMA DivMonotone ==
    ASSUME NEW a \in Nat, NEW b \in Nat, NEW n \in Nat \ {0}, a <= b
    PROVE  a \div n <= b \div n
  <1> DEFINE q == a \div n
             r == b \div n
  <1>1. q \in Nat /\ q * n <= a
    <2>1. \A x \in Nat : x \div n \in Nat /\ (x \div n) * n <= x
      BY SMT
    <2>2. QED
      BY <2>1
  <1>2. r \in Nat /\ b < r * n + n
    <2>1. \A x \in Nat : x \div n \in Nat /\ x < (x \div n) * n + n
      BY SMT
    <2>2. QED
      BY <2>1
  <1> HIDE DEF q, r
  <1>3. CASE q > r
    <2>1. q - r - 1 \in Nat
      BY <1>1, <1>2, <1>3
    <2>2. (q - r - 1) * n \in Nat
      BY <2>1
    <2>3. q * n = r * n + n + (q - r - 1) * n
      BY <1>1, <1>2, SMT
    <2>4. r * n \in Nat /\ q * n \in Nat
      BY <1>1, <1>2
    <2>5. FALSE
      BY <1>1, <1>2, <2>2, <2>3, <2>4
    <2>6. QED
      BY <2>5
  <1>4. QED
    BY <1>1, <1>2, <1>3 DEF q, r

LEMMA ProductMonotone ==
    ASSUME NEW a \in Nat, NEW e \in Nat, NEW f \in Nat, e <= f
    PROVE  a * e <= a * f
  <1>1. f - e \in Nat
    OBVIOUS
  <1>2. a * (f - e) \in Nat
    BY <1>1
  <1>3. a * f = a * e + a * (f - e)
    BY SMT
  <1>4. a * e \in Nat /\ a * f \in Nat
    OBVIOUS
  <1>5. QED
    BY <1>2, <1>3, <1>4

\* A later refund of one premium is no larger, and after the cover it is nothing.
LEMMA RefundLater ==
    ASSUME NEW pol, NEW t \in Nat, NEW u \in Nat, t <= u,
           pol.start \in Nat, pol.end \in Nat, pol.premium \in Nat,
           pol.start < pol.end
    PROVE  /\ Refund(pol, u) <= Refund(pol, t)
           /\ u >= pol.end => Refund(pol, u) = 0
  <1> DEFINE total == pol.end - pol.start
             elapsed(x) == IF x <= pol.start THEN 0 ELSE Lesser(x - pol.start, total)
  <1>1. total \in Nat \ {0}
    OBVIOUS
  <1>2. /\ elapsed(t) \in Nat /\ elapsed(u) \in Nat
        /\ elapsed(t) <= elapsed(u)
        /\ u >= pol.end => elapsed(u) = total
    BY <1>1 DEF Lesser
  <1>3. /\ Refund(pol, t) = pol.premium - (pol.premium * elapsed(t)) \div total
        /\ Refund(pol, u) = pol.premium - (pol.premium * elapsed(u)) \div total
    BY DEF Refund
  <1> HIDE DEF total, elapsed
  <1>4. pol.premium * elapsed(t) \in Nat /\ pol.premium * elapsed(u) \in Nat
    BY <1>2
  <1>5. pol.premium * elapsed(t) <= pol.premium * elapsed(u)
    BY <1>2, ProductMonotone
  <1>6. (pol.premium * elapsed(t)) \div total <= (pol.premium * elapsed(u)) \div total
    BY <1>1, <1>4, <1>5, DivMonotone
  <1>7. /\ (pol.premium * elapsed(t)) \div total \in Nat
        /\ (pol.premium * elapsed(u)) \div total \in Nat
    BY <1>1, <1>4, DivNat
  <1>8. (pol.premium * total) \div total = pol.premium
    <2>1. \A a \in Nat, n \in Nat \ {0} : (a * n) \div n = a
      BY SMT
    <2>2. QED
      BY <1>1, <2>1
  <1>9. QED
    BY <1>2, <1>3, <1>6, <1>7, <1>8

\* What was paid and for which time stays with a policy while it is Active.
LEMMA TermsStay ==
    ASSUME BookAssumption, PolicyInv, NEW p \in PolicyIds,
           policy[p].status = "Active", policy'[p].status = "Active",
           \/ Purchase
           \/ HolderStep
           \/ BookSwitch
           \/ \E q \in PolicyIds : PayClaim(q) \/ ExpirePolicy(q)
    PROVE  /\ policy'[p].start = policy[p].start
           /\ policy'[p].end = policy[p].end
           /\ policy'[p].premium = policy[p].premium
  <1>0. policy \in [PolicyIds -> Policies \cup {NoPolicy}] /\ policy[p] \in Policies
    BY DEF PolicyInv, PolicyTypeOK, NoPolicy
  <1>1. CASE Purchase
    <2>1. PICK u \in Users, g \in ProductIds, coverage \in Coverages, days \in Durations,
               k \in OracleKeys, d \in StartDelays :
               BuyPolicy(u, g, coverage, days, k, now + d)
      BY <1>1 DEF Purchase
    <2>2. p # nextPolicyId
      BY DEF PolicyInv, SoldInOrder, PolicyTypeOK
    <2>3. policy'[p] = policy[p]
      BY <1>0, <2>1, <2>2 DEF BuyPolicy
    <2>4. QED
      BY <2>3
  <1>2. CASE HolderStep
    <2>1. ASSUME NEW q \in PolicyIds, CancelPolicy(q) PROVE policy'[p] = policy[p]
      BY <1>0, <2>1, StatusRecord DEF CancelPolicy
    <2>2. ASSUME NEW q \in PolicyIds, NEW to \in Users, TransferPolicy(q, to)
          PROVE  \/ policy'[p] = policy[p]
                 \/ policy'[p] = [policy[p] EXCEPT !.holder = to]
      BY <1>0, <2>2 DEF TransferPolicy
    <2>3. QED
      BY <1>0, <1>2, <2>1, <2>2 DEF HolderStep, Policies
  <1>3. CASE BookSwitch
    BY <1>3 DEF BookSwitch, EmergencyPause, EmergencyResume
  <1>4. CASE \E q \in PolicyIds : PayClaim(q) \/ ExpirePolicy(q)
    <2>1. ASSUME NEW q \in PolicyIds, PayClaim(q) PROVE policy'[p] = policy[p]
      BY <1>0, <2>1, StatusRecord DEF PayClaim
    <2>2. ASSUME NEW q \in PolicyIds, ExpirePolicy(q) PROVE policy'[p] = policy[p]
      BY <1>0, <2>2, StatusRecord DEF ExpirePolicy
    <2>3. QED
      BY <1>4, <2>1, <2>2
  <1>5. QED
    BY <1>1, <1>2, <1>3, <1>4

\* cancel_policy: whatever happens to a policy while it is Active, a later
\* cancellation pays no more, and after its end nothing.
THEOREM RefundsShrink ==
    ASSUME CatalogueAssumption, BookAssumption
    PROVE  BookSpec => RefundOnlyShrinks
  <1>1. BookInv /\ BookInv' /\ [BookNext]_bookVars => [RefundShrinks]_bookVars
    <2> SUFFICES ASSUME BookInv, BookInv', BookNext, NEW p \in PolicyIds,
                        policy[p].status = "Active", policy'[p].status = "Active"
                 PROVE  /\ Refund(policy'[p], now') <= Refund(policy[p], now)
                        /\ now' >= policy[p].end => Refund(policy'[p], now') = 0
      BY DEF RefundShrinks
    <2>1. now \in Nat /\ now' \in Nat /\ now <= now'
      BY DEF BookNext, Tick, BookInv, PolicyInv, PolicyTypeOK
    <2>2. /\ policy'[p].start = policy[p].start
          /\ policy'[p].end = policy[p].end
          /\ policy'[p].premium = policy[p].premium
      <3>1. CASE UNCHANGED policyVars
        BY <3>1 DEF policyVars
      <3>2. CASE \/ Purchase \/ HolderStep \/ BookSwitch
                 \/ \E q \in PolicyIds : PayClaim(q) \/ ExpirePolicy(q)
        BY <3>2, TermsStay DEF BookInv
      <3>3. QED
        BY <3>1, <3>2 DEF BookNext
    <2>3. policy[p].start \in Nat /\ policy[p].end \in Nat /\ policy[p].premium \in Nat
      BY DEF BookInv, PolicyInv, PolicyTypeOK, Policies, NoPolicy
    <2>4. policy[p].start < policy[p].end
      BY DEF BookInv, PolicyInv, CoverHasLength
    <2>5. Refund(policy'[p], now') = Refund(policy[p], now')
      BY <2>2 DEF Refund
    <2>6. QED
      BY <2>1, <2>3, <2>4, <2>5, RefundLater
  <1>2. QED
    BY <1>1, BookInvariant, PTL DEF BookSpec, RefundOnlyShrinks

-----------------------------------------------------------------------------
\* The policies do not disturb the catalogue they are sold from: the policy engine
\* as a whole is a catalogue, and what was proved of the catalogue holds in it.
THEOREM CatalogueHolds ==
    ASSUME CatalogueAssumption
    PROVE  BookSpec => [](OnSaleOwnsName /\ ActiveListExact)
  <1>1. BookInit => CatalogueInit
    BY DEF BookInit
  <1>2. [BookNext]_bookVars => [CatalogueNext]_catalogueVars
    BY DEF BookNext, bookVars
  <1>3. BookSpec => CatalogueSpec
    BY <1>1, <1>2, PTL DEF BookSpec, CatalogueSpec
  <1>4. QED
    BY <1>3, CatalogueExact, PTL

=============================================================================
