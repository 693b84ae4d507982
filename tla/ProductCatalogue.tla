-------------------------- MODULE ProductCatalogue --------------------------
(***************************************************************************)
(* The product side of the policy engine: the admin creates, pauses and    *)
(* deprecates insurance products.  Two uniqueness indexes, (category,      *)
(* oracle_key) -> product and name -> product, the ActiveProducts list and *)
(* a per-category counter are kept beside the product records.             *)
(*                                                                         *)
(* Abstracted: the validation of names, keys, rates, thresholds and ranges *)
(* (every product enumerated here is a valid one) and the registries of    *)
(* categories and data types.                                              *)
(***************************************************************************)
EXTENDS VecBag

CONSTANTS
    Categories,         \* registered product categories
    Names,              \* product names
    OracleKeys,         \* oracle keys, of products and of policies
    MaxProducts,        \* bound: products ever created
    MaxProductsPerPool, \* MaxProductsPerPool, 100 unless the admin sets it
    AdminOps            \* bound: the optional admin operations a run exercises

ASSUME CatalogueAssumption ==
    /\ MaxProducts \in Nat
    /\ MaxProductsPerPool \in Nat

VARIABLES
    product,        \* Product(id) records
    nextProductId,  \* NextProductId
    productKey,     \* ProductKey((category, oracle_key)) -> id, 0 if absent
    productName,    \* ProductName(name) -> id, 0 if absent
    poolCount,      \* PoolProductCount(category)
    activeProducts  \* ActiveProducts

catalogueVars ==
    <<product, nextProductId, productKey, productName, poolCount, activeProducts>>

ProductIds == 1..MaxProducts

Products == [category: Categories, key: OracleKeys, name: Names,
             status: {"Active", "Paused", "Deprecated"}]

NoProduct == [status |-> "None"]

CatalogueInit ==
    /\ product = [g \in ProductIds |-> NoProduct]
    /\ nextProductId = 1
    /\ productKey = [ck \in Categories \X OracleKeys |-> 0]
    /\ productName = [n \in Names |-> 0]
    /\ poolCount = [c \in Categories |-> 0]
    /\ activeProducts = EmptyVec(ProductIds)

-----------------------------------------------------------------------------
CreateProduct(c, k, n) ==
    /\ nextProductId \in ProductIds
    /\ productKey[<<c, k>>] = 0
    /\ productName[n] = 0
    /\ poolCount[c] < MaxProductsPerPool
    /\ product' = [product EXCEPT ![nextProductId] =
                     [category |-> c, key |-> k, name |-> n, status |-> "Active"]]
    /\ productKey' = [productKey EXCEPT ![<<c, k>>] = nextProductId]
    /\ productName' = [productName EXCEPT ![n] = nextProductId]
    /\ poolCount' = [poolCount EXCEPT ![c] = @ + 1]
    /\ activeProducts' = Push(activeProducts, nextProductId)
    /\ nextProductId' = nextProductId + 1

\* No status is checked: a Deprecated product becomes Paused.
PauseProduct(g) ==
    /\ "catalogue" \in AdminOps
    /\ product[g].status # "None"
    /\ product' = [product EXCEPT ![g].status = "Paused"]
    /\ activeProducts' = RemoveFirst(activeProducts, g)
    /\ UNCHANGED <<nextProductId, productKey, productName, poolCount>>

\* A bug in the release of the name: the index entry is dropped whoever owns it.
DeprecateProductDropsName(g) ==
    /\ "catalogue" \in AdminOps
    /\ product[g].status # "None"
    /\ product' = [product EXCEPT ![g].status = "Deprecated"]
    /\ activeProducts' = RemoveFirst(activeProducts, g)
    /\ poolCount' = [poolCount EXCEPT ![product[g].category] =
                       IF @ > 0 THEN @ - 1 ELSE @]
    /\ productName' = [productName EXCEPT ![product[g].name] = 0]
    /\ productKey' = [productKey EXCEPT ![<<product[g].category, product[g].key>>] = 0]
    /\ UNCHANGED nextProductId

\* A bug in the bookkeeping: the product stays on the list of active products.
DeprecateProductKeepsListing(g) ==
    /\ "catalogue" \in AdminOps
    /\ product[g].status # "None"
    /\ product' = [product EXCEPT ![g].status = "Deprecated"]
    /\ UNCHANGED <<nextProductId, productKey, productName, poolCount, activeProducts>>

\* The name is released only while it still maps to g; the (category, key) slot
\* and the category's counter are released on every call, a repeated one too.
DeprecateProduct(g) ==
    /\ "catalogue" \in AdminOps
    /\ product[g].status # "None"
    /\ product' = [product EXCEPT ![g].status = "Deprecated"]
    /\ activeProducts' = RemoveFirst(activeProducts, g)
    /\ poolCount' = [poolCount EXCEPT ![product[g].category] =
                       IF @ > 0 THEN @ - 1 ELSE @]
    /\ productName' = [productName EXCEPT ![product[g].name] =
                         IF @ = g THEN 0 ELSE @]
    /\ productKey' = [productKey EXCEPT ![<<product[g].category, product[g].key>>] = 0]
    /\ UNCHANGED nextProductId

CatalogueNext ==
    \/ \E c \in Categories, k \in OracleKeys, n \in Names : CreateProduct(c, k, n)
    \/ \E g \in ProductIds : PauseProduct(g) \/ DeprecateProduct(g)

\* The catalogue alone; nothing but the admin's calls moves it.
CatalogueSpec == CatalogueInit /\ [][CatalogueNext]_catalogueVars

-----------------------------------------------------------------------------
CatalogueTypeOK ==
    /\ product \in [ProductIds -> Products \cup {NoProduct}]
    /\ nextProductId \in 1..(MaxProducts + 1)
    /\ productKey \in [Categories \X OracleKeys -> 0..MaxProducts]
    /\ productName \in [Names -> 0..MaxProducts]
    /\ poolCount \in [Categories -> Nat]
    /\ activeProducts \in [ProductIds -> Nat]

\* deprecate_product's name release (issue #570): however often products are
\* deprecated and names reused, a product on sale still owns the index entry of
\* its name, so no second product can take a name that is on sale.
OnSaleOwnsName ==
    \A g \in ProductIds :
        product[g].status = "Active" => productName[product[g].name] = g

\* create/pause/deprecate_product and the ActiveProducts list: a product is
\* listed exactly once while it is Active and never otherwise.
ActiveListExact ==
    \A g \in ProductIds :
        activeProducts[g] = IF product[g].status = "Active" THEN 1 ELSE 0

\* What makes the two above inductive: create_product hands out ids in order, so
\* it never writes over a product.
ProductsInOrder ==
    \A g \in ProductIds : product[g].status = "None" <=> g >= nextProductId

CatalogueInv == CatalogueTypeOK /\ ProductsInOrder /\ OnSaleOwnsName /\ ActiveListExact

\* create_product's comment on the (category, oracle_key) -> product_id mapping,
\* stored "for uniqueness": no two products on sale share a slot.
OnSaleSlotsUnique ==
    \A g, h \in ProductIds :
        /\ g # h
        /\ product[g].status = "Active"
        /\ product[h].status = "Active"
        => <<product[g].category, product[g].key>>
             # <<product[h].category, product[h].key>>

=============================================================================
