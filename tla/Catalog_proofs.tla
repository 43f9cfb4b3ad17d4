----------------------------- MODULE Catalog_proofs ----------------------------
(***************************************************************************)
(* Proofs about the catalog: the listings and combinations of products,    *)
(* the values of their attributes, the rates their prices follow and the   *)
(* ratings of their comments.                                              *)
(***************************************************************************)
EXTENDS Catalog, Sums_proofs

\* Products: the recomputation of a listing.

ProductsSpec == ProductsInit /\ [][ProductsNext]_productsVars

LEMMA ImageFinite ==
  ASSUME NEW S, NEW f, f = [x \in S |-> f[x]], IsFiniteSet(S)
  PROVE  IsFiniteSet({f[x] : x \in S})
  <1> DEFINE T == {f[x] : x \in S}
  <1>1. f \in Surjection(S, T)
    BY DEF Surjection
  <1> QED
    BY <1>1, FS_Surjection

LEMMA LeastExists ==
  ASSUME NEW S, IsFiniteSet(S), S \in SUBSET Int, S # {}
  PROVE  \E x \in S : \A y \in S : x <= y
  <1> DEFINE N == {0 - x : x \in S}
  <1>1. IsFiniteSet(N) /\ N \in SUBSET Int /\ N # {}
    <2> DEFINE g == [x \in S |-> 0 - x]
    <2>1. IsFiniteSet({g[x] : x \in S})
      BY ImageFinite
    <2>2. N = {g[x] : x \in S}
      OBVIOUS
    <2>3. N \in SUBSET Int /\ N # {}
      <3>1. \A x \in S : x \in Int /\ 0 - x \in Int
        OBVIOUS
      <3>2. N # {}
        OBVIOUS
      <3> QED
        BY <3>1, <3>2
    <2> HIDE DEF N, g
    <2> QED
      BY <2>1, <2>2, <2>3
  <1>2. PICK m \in N : \A y \in N : m >= y
    <2> HIDE DEF N
    <2> QED
      BY <1>1, GreatestExists
  <1>3. PICK x \in S : m = 0 - x
    OBVIOUS
  <1>4. ASSUME NEW y \in S PROVE x <= y
    <2>1. m >= 0 - y /\ x \in Int /\ y \in Int
      BY <1>2
    <2> QED
      BY <2>1, <1>3
  <1> QED
    BY <1>4

ReadPhases == {"product", "variants", "write"}

RowsKept ==
    /\ variants = [s \in DOMAIN variants |-> variants[s]]
    /\ DOMAIN variants \subseteq Skus
    /\ \A s \in DOMAIN variants : SavedRow(variants[s])
    /\ product \in ProductTerms \cup {NoProduct}

RequestFields == {"phase", "op", "sku", "row", "terms", "computed", "overtaken"}

ListingOK(l) == l.minPrice \in Nat /\ l.maxPrice \in Nat /\ l.minPrice <= l.maxPrice

RequestOK(r) ==
    /\ DOMAIN r = RequestFields
    /\ r.phase \in {"idle", "clear", "save", "delete"} \cup ReadPhases
    /\ r.phase \in {"clear", "save"} => r.sku \in Skus /\ SavedRow(r.row)
    /\ r.phase = "variants" => r.terms \in ProductTerms
    /\ r.phase = "write" => ListingOK(r.computed)

RequestsOK ==
    /\ catalogReq = [h \in CatalogHandlers |-> catalogReq[h]]
    /\ \A h \in CatalogHandlers : RequestOK(catalogReq[h])

Aggregates == AggregatesOf(product, variants)

\* A recomputation that nothing overtook has read the product as it is.
ComputedOK(r) ==
    \/ product = NoProduct \/ r.overtaken
    \/ /\ r.phase = "variants" => r.terms = product
       /\ r.phase = "write" => r.computed = Aggregates

ReadsFresh == \A h \in CatalogHandlers : ComputedOK(catalogReq[h])

\* The listing is fresh, or a recomputation is under way, or a change was missed.
FreshComes ==
    \/ product = NoProduct \/ missed \/ listing = Aggregates
    \/ \E h \in CatalogHandlers : catalogReq[h].phase \in ReadPhases

ProductsInv ==
    RowsKept /\ RequestsOK /\ VariantsKept /\ ListingOK(listing) /\ ReadsFresh /\ FreshComes

LEMMA PricesOf ==
  ASSUME NEW p \in ProductTerms, NEW rows, DOMAIN rows \subseteq Skus,
         \A s \in DOMAIN rows : SavedRow(rows[s])
  PROVE  LET prices == {PriceOf(p, rows[s]) : s \in ActiveSkus(rows)}
         IN  prices \in SUBSET Nat /\ IsFiniteSet(prices)
  <1> DEFINE prices == {PriceOf(p, rows[s]) : s \in ActiveSkus(rows)}
  <1>1. IsFiniteSet(ActiveSkus(rows))
    <2>1. ActiveSkus(rows) \subseteq Skus
      BY DEF ActiveSkus
    <2> QED
      BY <2>1, ProductConstantsOK, FS_Subset
  <1>2. IsFiniteSet(prices)
    <2> DEFINE g == [s \in ActiveSkus(rows) |-> PriceOf(p, rows[s])]
    <2>1. IsFiniteSet({g[s] : s \in ActiveSkus(rows)})
      BY <1>1, ImageFinite
    <2>2. prices = {g[s] : s \in ActiveSkus(rows)}
      OBVIOUS
    <2> HIDE DEF prices, g
    <2> QED
      BY <2>1, <2>2
  <1>3. prices \in SUBSET Nat
    BY DEF ActiveSkus, PriceOf, SavedRow
  <1> QED
    BY <1>2, <1>3

\* The least and the greatest price are prices, and bounds of all.
LEMMA AggregatesSound ==
  ASSUME NEW p \in ProductTerms, NEW rows, DOMAIN rows \subseteq Skus,
         \A s \in DOMAIN rows : SavedRow(rows[s])
  PROVE  LET prices == {PriceOf(p, rows[s]) : s \in ActiveSkus(rows)}
             l == AggregatesOf(p, rows)
         IN  /\ ListingOK(l)
             /\ ActiveSkus(rows) = {} => l = NoListing
             /\ ActiveSkus(rows) # {} =>
                   /\ {l.minPrice, l.maxPrice} \subseteq prices
                   /\ prices \subseteq l.minPrice .. l.maxPrice
                   /\ l.isInStock = (\E s \in ActiveSkus(rows) : rows[s].stock > 0)
                   /\ l.hasActiveDiscount = HasActiveDiscount(p)
  <1> DEFINE prices == {PriceOf(p, rows[s]) : s \in ActiveSkus(rows)}
             l == AggregatesOf(p, rows)
  <1>1. CASE ActiveSkus(rows) = {}
    BY <1>1 DEF AggregatesOf, NoListing, ListingOK
  <1>2. CASE ActiveSkus(rows) # {}
    <2> DEFINE stocked == \E s \in ActiveSkus(rows) : rows[s].stock > 0
               discounted == HasActiveDiscount(p)
    <2>1. l = [minPrice |-> Min(prices), maxPrice |-> Max(prices), isInStock |-> stocked,
               hasActiveDiscount |-> discounted]
      BY <1>2, Zenon DEF AggregatesOf
    <2>2. /\ l.minPrice = Min(prices) /\ l.maxPrice = Max(prices)
          /\ l.isInStock = stocked /\ l.hasActiveDiscount = discounted
      <3> HIDE DEF l, stocked, discounted, prices
      <3> QED
        BY <2>1
    <2>3. prices \in SUBSET Nat /\ IsFiniteSet(prices) /\ prices # {}
      BY <1>2, PricesOf
    <2>4. Min(prices) \in prices /\ \A x \in prices : Min(prices) <= x
      <3> HIDE DEF prices
      <3>0. prices \in SUBSET Int
        BY <2>3
      <3>1. \E x \in prices : \A y \in prices : x <= y
        BY <2>3, <3>0, LeastExists
      <3> QED
        BY <3>1 DEF Min
    <2>5. Max(prices) \in prices /\ \A x \in prices : Max(prices) >= x
      <3> HIDE DEF prices
      <3>0. prices \in SUBSET Int
        BY <2>3
      <3>1. \E x \in prices : \A y \in prices : x >= y
        BY <2>3, <3>0, GreatestExists
      <3> QED
        BY <3>1 DEF Max
    <2>6. ListingOK(l) /\ {l.minPrice, l.maxPrice} \subseteq prices /\ prices \subseteq l.minPrice .. l.maxPrice
      <3> HIDE DEF l, prices
      <3> DEFINE lo == Min(prices)
                 hi == Max(prices)
      <3>1. l.minPrice = lo /\ l.maxPrice = hi
        BY <2>2
      <3>2. lo \in Nat /\ hi \in Nat /\ lo \in prices /\ hi \in prices
        BY <2>3, <2>4, <2>5
      <3>3. \A x \in prices : x \in Nat /\ lo <= x /\ x <= hi
        BY <2>3, <2>4, <2>5
      <3> HIDE DEF lo, hi
      <3> QED
        BY <3>1, <3>2, <3>3 DEF ListingOK
    <2> QED
      BY <1>2, <2>2, <2>6
  <1> QED
    BY <1>1, <1>2

\* Neither the default flag nor the order of rows matters.
LEMMA AggregatesSame ==
  ASSUME NEW p, NEW rows, NEW others, DOMAIN others = DOMAIN rows,
         \A s \in DOMAIN rows : /\ others[s].isActive = rows[s].isActive
                                /\ others[s].terms = rows[s].terms
                                /\ others[s].stock = rows[s].stock
  PROVE  AggregatesOf(p, others) = AggregatesOf(p, rows)
  <1>1. ActiveSkus(others) = ActiveSkus(rows)
    BY DEF ActiveSkus
  <1>2. \A s \in ActiveSkus(rows) : PriceOf(p, others[s]) = PriceOf(p, rows[s]) /\ others[s].stock = rows[s].stock
    BY DEF ActiveSkus, PriceOf
  <1>3. {PriceOf(p, others[s]) : s \in ActiveSkus(others)} = {PriceOf(p, rows[s]) : s \in ActiveSkus(rows)}
    BY <1>1, <1>2
  <1>4. (\E s \in ActiveSkus(others) : others[s].stock > 0) = (\E s \in ActiveSkus(rows) : rows[s].stock > 0)
    BY <1>1, <1>2
  <1> QED
    BY <1>1, <1>3, <1>4, Zenon DEF AggregatesOf

LEMMA ListingOfProductOK == RowsKept /\ product # NoProduct => ListingOK(Aggregates)
  BY AggregatesSound DEF RowsKept, Aggregates

LEMMA ProductsInitInv == ProductsInit => ProductsInv
  <1> SUFFICES ASSUME ProductsInit PROVE ProductsInv
    OBVIOUS
  <1>1. PICK new \in NewProducts :
          /\ ValidateVariantsInput(new)
          /\ variants = [s \in {new[i][1] : i \in DOMAIN new} |->
                NormalizeDefaultFlag([i \in DOMAIN new |-> new[i][2]])
                    [CHOOSE i \in DOMAIN new : new[i][1] = s]]
    BY DEF ProductsInit
  <1> DEFINE first(s) == CHOOSE i \in DOMAIN new : new[i][1] = s
             normal == NormalizeDefaultFlag([i \in DOMAIN new |-> new[i][2]])
  <1>2. \A i \in DOMAIN new : /\ SavedRow(normal[i])
                              /\ normal[i].combo = new[i][2].combo
    <2> SUFFICES ASSUME NEW i \in DOMAIN new
                 PROVE  SavedRow(normal[i]) /\ normal[i].combo = new[i][2].combo
      OBVIOUS
    <2> DEFINE rows == [j \in DOMAIN new |-> new[j][2]]
               marked == {j \in DOMAIN rows : rows[j].isDefault}
               default == IF marked = {} THEN 1 ELSE Min(marked)
               flag == (i = default)
    <2>1. normal[i] = [new[i][2] EXCEPT !.isDefault = flag]
      BY DEF NormalizeDefaultFlag
    <2>2. SavedRow(new[i][2])
      BY ProductConstantsOK
    <2> HIDE DEF normal, flag
    <2> QED
      BY <2>1, <2>2 DEF SavedRow
  <1>3. \A s \in DOMAIN variants : /\ first(s) \in DOMAIN new /\ new[first(s)][1] = s
                                   /\ variants[s] = normal[first(s)]
    <2> SUFFICES ASSUME NEW s \in DOMAIN variants
                 PROVE  /\ first(s) \in DOMAIN new /\ new[first(s)][1] = s
                        /\ variants[s] = normal[first(s)]
      OBVIOUS
    <2>1. \E i \in DOMAIN new : new[i][1] = s
      BY <1>1
    <2>2. first(s) \in DOMAIN new /\ new[first(s)][1] = s
      BY <2>1
    <2>3. variants[s] = normal[first(s)]
      BY <1>1, <2>1, Zenon
    <2> QED
      BY <2>2, <2>3
  <1>4. RowsKept
    <2>1. DOMAIN variants \subseteq Skus
      BY <1>1, ProductConstantsOK
    <2>2. variants = [s \in DOMAIN variants |-> variants[s]]
      BY <1>1
    <2> HIDE DEF normal, first
    <2> QED
      BY <1>2, <1>3, <2>1, <2>2 DEF RowsKept, ProductsInit
  <1>5. VariantsKept
    <2>1. ASSUME NEW s \in DOMAIN variants, NEW t \in DOMAIN variants, variants[s].combo = variants[t].combo
          PROVE  s = t
      <3>1. new[first(s)][2].combo = new[first(t)][2].combo
        BY <1>2, <1>3, <2>1
      <3>2. IsInjective([i \in DOMAIN new |-> new[i][2].combo])
        BY <1>1 DEF ValidateVariantsInput
      <3>3. first(s) = first(t)
        <4> HIDE DEF first, normal
        <4> QED
          BY <1>3, <3>1, <3>2 DEF IsInjective
      <3> HIDE DEF first, normal
      <3> QED
        BY <1>3, <3>3
    <2> QED
      BY <2>1 DEF VariantsKept, ProductsInit
  <1>6. RequestsOK /\ ReadsFresh
    BY DEF ProductsInit, RequestsOK, ReadsFresh, RequestOK, IdleRequest, ComputedOK, RequestFields, ReadPhases
  <1>7. product \in ProductTerms /\ product # NoProduct /\ listing = Aggregates
    BY ProductConstantsOK DEF ProductsInit, Aggregates
  <1> QED
    BY <1>4, <1>5, <1>6, <1>7, ListingOfProductOK DEF ProductsInv, FreshComes

-------------------------------------------------------------------------------
LEMMA IdleOK == RequestOK(IdleRequest) /\ IdleRequest.phase = "idle" /\ ComputedOK(IdleRequest)
  BY DEF RequestOK, IdleRequest, RequestFields, ReadPhases, ComputedOK

\* A step that changes nothing but one request.
LEMMA RequestStep ==
  ASSUME ProductsInv, NEW h \in CatalogHandlers, NEW r, RequestOK(r), ComputedOK(r),
         catalogReq' = [catalogReq EXCEPT ![h] = r],
         UNCHANGED <<product, variants, ordered, listing, missed>>,
         product = NoProduct \/ r.phase \in ReadPhases \/ catalogReq[h].phase \notin ReadPhases
  PROVE  ProductsInv'
  <1>1. /\ catalogReq' = [g \in CatalogHandlers |-> catalogReq'[g]]
        /\ catalogReq'[h] = r
        /\ \A g \in CatalogHandlers \ {h} : catalogReq'[g] = catalogReq[g]
    BY DEF ProductsInv, RequestsOK
  <1>2. RowsKept' /\ VariantsKept' /\ ListingOK(listing)'
    BY DEF ProductsInv, RowsKept, VariantsKept, ListingOK
  <1>3. RequestsOK'
    BY <1>1 DEF ProductsInv, RequestsOK
  <1>4. ReadsFresh'
    BY <1>1 DEF ProductsInv, ReadsFresh, ComputedOK, Aggregates
  <1>5. FreshComes'
    <2>1. CASE product = NoProduct \/ missed \/ listing = Aggregates
      BY <2>1 DEF FreshComes, Aggregates
    <2>2. ASSUME NEW g \in CatalogHandlers, catalogReq[g].phase \in ReadPhases
          PROVE  product = NoProduct \/ \E f \in CatalogHandlers : catalogReq'[f].phase \in ReadPhases
      BY <1>1, <2>2
    <2> QED
      BY <2>1, <2>2 DEF ProductsInv, FreshComes
  <1> QED
    BY <1>2, <1>3, <1>4, <1>5 DEF ProductsInv

\* A step whose change the other requests may not have read.
Overtakes(late) ==
    \A g \in CatalogHandlers :
        \/ catalogReq'[g] = [catalogReq[g] EXCEPT !.overtaken = @ \/ catalogReq[g].phase \in late]
        \/ catalogReq'[g] = [IdleRequest EXCEPT !.phase = "product"]

LEMMA OvertakingStep ==
  ASSUME ProductsInv, NEW late, Overtakes(late),
         catalogReq' = [g \in CatalogHandlers |-> catalogReq'[g]],
         "write" \in late, "variants" \in late \/ product' = product \/ product' = NoProduct
  PROVE  RequestsOK' /\ ReadsFresh'
  <1>1. ASSUME NEW g \in CatalogHandlers
        PROVE  RequestOK(catalogReq[g])' /\ ComputedOK(catalogReq[g])'
    <2>1. CASE catalogReq'[g] = [IdleRequest EXCEPT !.phase = "product"]
      BY <2>1 DEF RequestOK, IdleRequest, ComputedOK, RequestFields, ReadPhases
    <2>2. CASE catalogReq'[g] = [catalogReq[g] EXCEPT !.overtaken = @ \/ catalogReq[g].phase \in late]
      <3> DEFINE r == catalogReq[g]
                 over == r.overtaken \/ r.phase \in late
      <3>1. RequestOK(r) /\ ComputedOK(r)
        BY DEF ProductsInv, RequestsOK, ReadsFresh
      <3>2. PICK z : z = [r EXCEPT !.overtaken = over]
        OBVIOUS
      <3>3. catalogReq'[g] = z
        BY <2>2, <3>2, Zenon
      <3>4. /\ DOMAIN z = DOMAIN r /\ z.overtaken = over
            /\ z.phase = r.phase /\ z.sku = r.sku /\ z.row = r.row /\ z.terms = r.terms
            /\ z.computed = r.computed
        <4> HIDE DEF over
        <4> QED
          BY <3>1, <3>2 DEF RequestOK, RequestFields
      <3>5. RequestOK(z)
        BY <3>1, <3>4 DEF RequestOK
      <3>6. z.overtaken \/ r.phase \notin late
        BY <3>4, Zenon
      <3>7. (r.overtaken => z.overtaken)
        BY <3>4, Zenon
      <3>8. \/ product' = NoProduct \/ z.overtaken
            \/ /\ z.phase = "variants" => z.terms = product'
               /\ z.phase # "write"
        BY <3>1, <3>4, <3>6, <3>7 DEF ComputedOK
      <3> HIDE DEF r
      <3> QED
        BY <3>3, <3>5, <3>8 DEF ComputedOK, RequestOK
    <2> QED
      BY <2>1, <2>2 DEF Overtakes
  <1> QED
    BY <1>1 DEF RequestsOK, ReadsFresh

LEMMA ChangeStep ==
  ASSUME ProductsInv, NEW h \in CatalogHandlers, NEW late, Changed(h, late),
         RowsKept', VariantsKept', listing' = listing,
         "write" \in late, "variants" \in late \/ product' = product \/ product' = NoProduct
  PROVE  ProductsInv'
  <1>1. catalogReq' = [g \in CatalogHandlers |-> catalogReq'[g]]
    BY DEF Changed
  <1>2. Overtakes(late)
    BY DEF Overtakes, Changed
  <1>3. RequestsOK' /\ ReadsFresh'
    BY <1>1, <1>2, OvertakingStep
  <1>4. catalogReq'[h].phase = "product"
    BY DEF Changed, IdleRequest
  <1>5. FreshComes'
    BY <1>4 DEF FreshComes, ReadPhases
  <1>6. ListingOK(listing)'
    BY DEF ProductsInv, ListingOK
  <1> QED
    BY <1>3, <1>5, <1>6 DEF ProductsInv

LEMMA RefuseStep ==
  ASSUME ProductsInv, NEW h \in CatalogHandlers, Refuse(h),
         UNCHANGED <<product, variants, ordered, listing, missed>>,
         product = NoProduct \/ catalogReq[h].phase \notin ReadPhases
  PROVE  ProductsInv'
  BY IdleOK, RequestStep DEF Refuse

LEMMA StartSteps ==
  ASSUME ProductsInv, NEW h \in CatalogRequests,
         \/ \E s \in Skus, row \in VariantRows : SaveVariant(h, s, row)
         \/ \E s \in Skus : DeleteVariant(h, s)
         \/ DeleteProduct(h)
         \/ VariantRefused(h) \/ DeleteRefused(h)
  PROVE  ProductsInv'
  <1>0. h \in CatalogHandlers
    BY DEF CatalogHandlers
  <1>1. ASSUME NEW s \in Skus, NEW row \in VariantRows, SaveVariant(h, s, row)
        PROVE  ProductsInv'
    <2> DEFINE op == IF s \in DOMAIN variants THEN "update" ELSE "add"
               step == IF row.isDefault THEN "clear" ELSE "save"
    <2>1. PICK r : r = [IdleRequest EXCEPT !.phase = step, !.op = op, !.sku = s, !.row = row]
      OBVIOUS
    <2>2. step \in {"clear", "save"} /\ SavedRow(row)
      BY ProductConstantsOK
    <2>3. /\ DOMAIN r = RequestFields /\ r.phase = step /\ r.sku = s /\ r.row = row
      <3> HIDE DEF op, step
      <3> QED
        BY <2>1 DEF IdleRequest, RequestFields
    <2>4. RequestOK(r) /\ ComputedOK(r) /\ r.phase \notin ReadPhases
      <3> HIDE DEF step
      <3> QED
        BY <2>2, <2>3 DEF RequestOK, ComputedOK, ReadPhases
    <2>5. /\ catalogReq[h].phase = "idle"
          /\ UNCHANGED <<product, variants, ordered, listing, missed>>
      BY <1>1 DEF SaveVariant
    <2>6. catalogReq' = [catalogReq EXCEPT ![h] = r]
      BY <1>1, <2>1, Zenon DEF SaveVariant, Begin
    <2>7. catalogReq[h].phase \notin ReadPhases
      BY <2>5 DEF ReadPhases
    <2> QED
      BY <1>0, <2>4, <2>5, <2>6, <2>7, RequestStep
  <1>2. ASSUME NEW s \in Skus, DeleteVariant(h, s)
        PROVE  ProductsInv'
    <2>1. PICK r : r = [IdleRequest EXCEPT !.phase = "delete", !.op = "variant", !.sku = s]
      OBVIOUS
    <2>2. RequestOK(r) /\ ComputedOK(r)
      BY <2>1 DEF RequestOK, ComputedOK, RequestFields, ReadPhases, IdleRequest
    <2>3. /\ catalogReq[h].phase \notin ReadPhases
          /\ UNCHANGED <<product, variants, ordered, listing, missed>>
          /\ catalogReq' = [catalogReq EXCEPT ![h] = r]
      BY <1>2, <2>1 DEF DeleteVariant, Begin, ReadPhases
    <2> QED
      BY <1>0, <2>2, <2>3, RequestStep
  <1>3. ASSUME DeleteProduct(h)
        PROVE  ProductsInv'
    <2>1. PICK r : r = [IdleRequest EXCEPT !.phase = "delete", !.op = "product"]
      OBVIOUS
    <2>2. RequestOK(r) /\ ComputedOK(r)
      BY <2>1 DEF RequestOK, ComputedOK, RequestFields, ReadPhases, IdleRequest
    <2>3. /\ catalogReq[h].phase \notin ReadPhases
          /\ UNCHANGED <<product, variants, ordered, listing, missed>>
          /\ catalogReq' = [catalogReq EXCEPT ![h] = r]
      BY <1>3, <2>1 DEF DeleteProduct, Begin, ReadPhases
    <2> QED
      BY <1>0, <2>2, <2>3, RequestStep
  <1>4. ASSUME VariantRefused(h)
        PROVE  ProductsInv'
    BY <1>0, <1>4, RefuseStep DEF VariantRefused, ReadPhases
  <1>5. ASSUME DeleteRefused(h)
        PROVE  ProductsInv'
    BY <1>0, <1>5, RefuseStep DEF DeleteRefused, ReadPhases
  <1> QED
    BY <1>1, <1>2, <1>3, <1>4, <1>5

LEMMA ReadSteps ==
  ASSUME ProductsInv, NEW h \in CatalogHandlers, ReadProduct(h) \/ ReadVariants(h)
  PROVE  ProductsInv'
  <1>1. ASSUME ReadProduct(h)
        PROVE  ProductsInv'
    <2>1. CASE product = NoProduct
      BY <1>1, <2>1, RefuseStep DEF ReadProduct
    <2>2. CASE product # NoProduct
      <3>1. PICK r : r = [IdleRequest EXCEPT !.phase = "variants", !.terms = product]
        OBVIOUS
      <3>2. product \in ProductTerms
        BY <2>2 DEF ProductsInv, RowsKept
      <3>3. RequestOK(r) /\ ComputedOK(r) /\ r.phase \in ReadPhases
        BY <3>1, <3>2 DEF RequestOK, ComputedOK, RequestFields, ReadPhases, IdleRequest
      <3>4. /\ catalogReq' = [catalogReq EXCEPT ![h] = r]
            /\ UNCHANGED <<product, variants, ordered, listing, missed>>
        BY <1>1, <2>2, <3>1 DEF ReadProduct, Begin
      <3> QED
        BY <3>3, <3>4, RequestStep
    <2> QED
      BY <2>1, <2>2
  <1>2. ASSUME ReadVariants(h)
        PROVE  ProductsInv'
    <2> DEFINE q == catalogReq[h]
               l == AggregatesOf(q.terms, variants)
    <2>1. RequestOK(q) /\ ComputedOK(q) /\ q.phase = "variants"
      BY <1>2 DEF ReadVariants, ProductsInv, RequestsOK, ReadsFresh
    <2>2. PICK r : r = [q EXCEPT !.phase = "write", !.computed = l, !.terms = AnyTerms]
      OBVIOUS
    <2>3. /\ DOMAIN r = RequestFields /\ r.phase = "write" /\ r.computed = l
          /\ r.overtaken = q.overtaken
      <3> HIDE DEF q, l
      <3> QED
        BY <2>1, <2>2 DEF RequestOK, RequestFields
    <2>4. ListingOK(l)
      <3>1. q.terms \in ProductTerms
        BY <2>1 DEF RequestOK
      <3> QED
        BY <3>1, AggregatesSound DEF ProductsInv, RowsKept
    <2>5. RequestOK(r)
      <3> HIDE DEF q, l
      <3> QED
        BY <2>3, <2>4 DEF RequestOK, ReadPhases
    <2>6. product = NoProduct \/ r.overtaken \/ l = Aggregates
      <3>1. CASE product = NoProduct
        BY <3>1
      <3>2. CASE q.overtaken
        BY <2>3, <3>2, Zenon
      <3>3. CASE q.terms = product
        BY <3>3, Zenon DEF Aggregates
      <3> QED
        BY <2>1, <3>1, <3>2, <3>3, Zenon DEF ComputedOK
    <2>7. ComputedOK(r)
      <3> HIDE DEF q, l
      <3> QED
        BY <2>3, <2>6 DEF ComputedOK
    <2>8. /\ catalogReq' = [catalogReq EXCEPT ![h] = r]
          /\ UNCHANGED <<product, variants, ordered, listing, missed>>
      BY <1>2, <2>2, Zenon DEF ReadVariants, Begin
    <2>9. r.phase \in ReadPhases
      BY <2>3 DEF ReadPhases
    <2> QED
      BY <2>5, <2>7, <2>8, <2>9, RequestStep
  <1> QED
    BY <1>1, <1>2

LEMMA RefreshStep == ProductsInv /\ RefreshDiscountAggregates => ProductsInv'
  <1> SUFFICES ASSUME ProductsInv, RefreshDiscountAggregates PROVE ProductsInv'
    OBVIOUS
  <1>1. PICK r : r = [IdleRequest EXCEPT !.phase = "product"]
    OBVIOUS
  <1>2. RequestOK(r) /\ ComputedOK(r) /\ r.phase \in ReadPhases
    BY <1>1 DEF RequestOK, ComputedOK, RequestFields, ReadPhases, IdleRequest
  <1>3. /\ catalogReq' = [catalogReq EXCEPT ![RefreshJob] = r]
        /\ UNCHANGED <<product, variants, ordered, listing, missed>>
        /\ RefreshJob \in CatalogHandlers
    BY <1>1 DEF RefreshDiscountAggregates, Begin, CatalogHandlers
  <1> QED
    BY <1>2, <1>3, RequestStep

\* The flag of the default changes no price and no combination.
LEMMA ClearStep ==
  ASSUME ProductsInv, NEW h \in CatalogRequests, ClearDefaults(h)
  PROVE  ProductsInv'
  <1> DEFINE q == catalogReq[h]
             flag(s) == variants[s].isDefault /\ q.op = "update" /\ s = q.sku
  <1>0. h \in CatalogHandlers /\ q.phase = "clear" /\ RequestOK(q)
    BY DEF ClearDefaults, CatalogHandlers, ProductsInv, RequestsOK
  <1>1. /\ DOMAIN variants' = DOMAIN variants
        /\ variants' = [s \in DOMAIN variants |-> [variants[s] EXCEPT !.isDefault = flag(s)]]
    BY Zenon DEF ClearDefaults
  <1>2. ASSUME NEW s \in DOMAIN variants
        PROVE  /\ SavedRow(variants'[s])
               /\ variants'[s].combo = variants[s].combo /\ variants'[s].stock = variants[s].stock
               /\ variants'[s].terms = variants[s].terms /\ variants'[s].isActive = variants[s].isActive
    <2>1. PICK f : f = flag(s)
      OBVIOUS
    <2>2. variants'[s] = [variants[s] EXCEPT !.isDefault = f]
      BY <1>1, <2>1, Zenon
    <2>3. SavedRow(variants[s])
      BY DEF ProductsInv, RowsKept
    <2> QED
      BY <2>2, <2>3 DEF SavedRow
  <1>3. RowsKept' /\ VariantsKept'
    <2>1. variants' = [s \in DOMAIN variants' |-> variants'[s]]
      BY <1>1
    <2>2. product' = product /\ ordered' = ordered
      BY DEF ClearDefaults
    <2>3. DOMAIN variants' = DOMAIN variants
      BY <1>1
    <2>4. \A s \in DOMAIN variants : SavedRow(variants'[s]) /\ variants'[s].combo = variants[s].combo
      BY <1>2
    <2> HIDE DEF flag, q
    <2>5. RowsKept'
      BY <2>1, <2>2, <2>3, <2>4 DEF ProductsInv, RowsKept
    <2>6. VariantsKept'
      BY <2>2, <2>3, <2>4 DEF ProductsInv, VariantsKept
    <2> QED
      BY <2>5, <2>6
  <1>4. Aggregates' = Aggregates
    <2>1. product' = product
      BY DEF ClearDefaults
    <2>2. AggregatesOf(product, variants') = AggregatesOf(product, variants)
      BY <1>1, <1>2, AggregatesSame
    <2> QED
      BY <2>1, <2>2 DEF Aggregates
  <1>5. PICK r : r = [q EXCEPT !.phase = "save"]
    OBVIOUS
  <1>6. RequestOK(r) /\ r.phase \notin ReadPhases
    BY <1>0, <1>5 DEF RequestOK, RequestFields, ReadPhases
  <1>7. /\ catalogReq' = [g \in CatalogHandlers |-> catalogReq'[g]] /\ catalogReq'[h] = r
        /\ \A g \in CatalogHandlers \ {h} : catalogReq'[g] = catalogReq[g]
    BY <1>0, <1>5 DEF ProductsInv, RequestsOK, ClearDefaults, Begin
  <1>8. UNCHANGED <<product, ordered, listing, missed>>
    BY DEF ClearDefaults
  <1>9. RequestsOK'
    BY <1>6, <1>7 DEF ProductsInv, RequestsOK
  <1>10. ReadsFresh'
    <2> SUFFICES ASSUME NEW g \in CatalogHandlers PROVE ComputedOK(catalogReq[g])'
      BY DEF ReadsFresh
    <2>1. CASE g = h
      BY <1>6, <1>7, <2>1 DEF ComputedOK, ReadPhases
    <2>2. CASE g # h
      BY <1>4, <1>7, <1>8, <2>2 DEF ComputedOK, ProductsInv, ReadsFresh
    <2> QED
      BY <2>1, <2>2
  <1>11. FreshComes'
    <2>1. CASE product = NoProduct \/ missed \/ listing = Aggregates
      BY <1>4, <1>8, <2>1 DEF FreshComes
    <2>2. ASSUME NEW g \in CatalogHandlers, catalogReq[g].phase \in ReadPhases
          PROVE  catalogReq'[g].phase \in ReadPhases
      BY <1>0, <1>7, <2>2 DEF ReadPhases
    <2> QED
      BY <2>1, <2>2 DEF ProductsInv, FreshComes
  <1>12. ListingOK(listing)'
    BY <1>8 DEF ProductsInv, ListingOK
  <1> QED
    BY <1>3, <1>9, <1>10, <1>11, <1>12 DEF ProductsInv

LEMMA WriteVariantStep ==
  ASSUME ProductsInv, NEW h \in CatalogRequests, WriteVariant(h)
  PROVE  ProductsInv'
  <1> DEFINE r == catalogReq[h]
  <1>0. h \in CatalogHandlers /\ r.phase = "save" /\ RequestOK(r)
    BY DEF WriteVariant, CatalogHandlers, ProductsInv, RequestsOK
  <1>1. r.sku \in Skus /\ SavedRow(r.row)
    BY <1>0 DEF RequestOK
  <1>2. /\ DOMAIN variants' = DOMAIN variants \cup {r.sku}
        /\ variants' = [s \in DOMAIN variants' |-> variants'[s]]
        /\ variants'[r.sku] = r.row
        /\ \A s \in DOMAIN variants \ {r.sku} : variants'[s] = variants[s]
    BY DEF WriteVariant
  <1>3. \A s \in DOMAIN variants \ {r.sku} : variants[s].combo # r.row.combo
    BY DEF WriteVariant, DbAccepts, ComboTaken
  <1>4. /\ Changed(h, {"write"})
        /\ UNCHANGED <<product, ordered, listing, missed>>
    BY DEF WriteVariant
  <1> HIDE DEF r
  <1>5. RowsKept'
    BY <1>1, <1>2, <1>4 DEF ProductsInv, RowsKept
  <1>6. VariantsKept'
    BY <1>2, <1>3, <1>4 DEF ProductsInv, VariantsKept
  <1> QED
    BY <1>0, <1>4, <1>5, <1>6, ChangeStep

LEMMA WriteDeleteStep ==
  ASSUME ProductsInv, NEW h \in CatalogRequests, WriteDelete(h)
  PROVE  ProductsInv'
  <1>1. PICK gone : /\ gone \subseteq DOMAIN variants /\ ordered \cap gone = {}
                    /\ variants' = Restrict(variants, DOMAIN variants \ gone)
    BY DEF WriteDelete, NotOrdered
  <1>2. /\ product' = product \/ product' = NoProduct
        /\ Changed(h, {"write"})
        /\ UNCHANGED <<ordered, listing, missed>>
        /\ h \in CatalogHandlers
    BY DEF WriteDelete, CatalogHandlers
  <1>3. /\ DOMAIN variants' = DOMAIN variants \ gone
        /\ variants' = [s \in DOMAIN variants' |-> variants'[s]]
        /\ \A s \in DOMAIN variants' : variants'[s] = variants[s]
    BY <1>1 DEF Restrict
  <1>4. RowsKept'
    BY <1>2, <1>3 DEF ProductsInv, RowsKept
  <1>5. VariantsKept'
    BY <1>1, <1>2, <1>3 DEF ProductsInv, VariantsKept
  <1> QED
    BY <1>2, <1>4, <1>5, ChangeStep

LEMMA UpdateStep ==
  ASSUME ProductsInv, NEW h \in CatalogRequests, NEW terms \in ProductTerms, UpdateProduct(h, terms)
  PROVE  ProductsInv'
  <1>1. /\ product' = terms /\ Changed(h, {"variants", "write"})
        /\ UNCHANGED <<variants, ordered, listing, missed>> /\ h \in CatalogHandlers
    BY DEF UpdateProduct, CatalogHandlers
  <1>2. RowsKept' /\ VariantsKept'
    BY <1>1 DEF ProductsInv, RowsKept, VariantsKept
  <1> QED
    BY <1>1, <1>2, ChangeStep

\* A row whose stock changes keeps its price and its combination.
LEMMA StockStep ==
  ASSUME RowsKept, VariantsKept, NEW s \in DOMAIN variants, NEW n \in Nat,
         variants' = [variants EXCEPT ![s].stock = n], product' = product,
         ordered' \subseteq ordered \cup {s}
  PROVE  RowsKept' /\ VariantsKept'
  <1>1. /\ DOMAIN variants' = DOMAIN variants
        /\ variants' = [t \in DOMAIN variants' |-> variants'[t]]
        /\ \A t \in DOMAIN variants \ {s} : variants'[t] = variants[t]
        /\ variants'[s] = [variants[s] EXCEPT !.stock = n]
    BY DEF RowsKept
  <1>2. SavedRow(variants'[s]) /\ variants'[s].combo = variants[s].combo
    BY <1>1 DEF RowsKept, SavedRow
  <1>3. RowsKept'
    BY <1>1, <1>2 DEF RowsKept
  <1>4. \A t \in DOMAIN variants : variants'[t].combo = variants[t].combo
    BY <1>1, <1>2
  <1>5. VariantsKept'
    BY <1>1, <1>4 DEF VariantsKept
  <1> QED
    BY <1>3, <1>5

LEMMA OrderStep ==
  ASSUME ProductsInv, NEW h \in CatalogRequests, NEW s \in Skus, OrderVariant(h, s)
  PROVE  ProductsInv'
  <1>1. s \in DOMAIN variants /\ variants[s].stock > 0 /\ variants[s].stock \in Nat
    BY DEF OrderVariant, ActiveSkus, ProductsInv, RowsKept, SavedRow
  <1> DEFINE n == variants[s].stock - 1
  <1>2. /\ variants' = [variants EXCEPT ![s].stock = n] /\ ordered' = ordered \cup {s}
        /\ Changed(h, {"write"}) /\ UNCHANGED <<product, listing, missed>>
        /\ h \in CatalogHandlers
    BY DEF OrderVariant, CatalogHandlers
  <1>3. n \in Nat
    BY <1>1
  <1> HIDE DEF n
  <1>4. RowsKept' /\ VariantsKept'
    BY <1>1, <1>2, <1>3, StockStep DEF ProductsInv
  <1> QED
    BY <1>2, <1>4, ChangeStep

LEMMA RestockStep ==
  ASSUME ProductsInv, NEW s \in Skus, RestockReturned(s)
  PROVE  ProductsInv'
  <1>1. s \in DOMAIN variants /\ variants[s].stock \in Nat
    BY DEF RestockReturned, ProductsInv, VariantsKept, RowsKept, SavedRow
  <1> DEFINE n == variants[s].stock + 1
  <1>2. /\ variants' = [variants EXCEPT ![s].stock = n]
        /\ UNCHANGED <<product, ordered, listing>>
    BY DEF RestockReturned
  <1>3. n \in Nat
    BY <1>1
  <1>4. Overtakes({"write"}) /\ catalogReq' = [g \in CatalogHandlers |-> catalogReq'[g]]
    <2>1. ASSUME NEW g \in CatalogHandlers
          PROVE  catalogReq'[g] = [catalogReq[g] EXCEPT !.overtaken = @ \/ catalogReq[g].phase \in {"write"}]
      BY DEF RestockReturned
    <2>2. catalogReq' = [g \in CatalogHandlers |-> catalogReq'[g]]
      BY DEF RestockReturned
    <2> QED
      BY <2>1, <2>2 DEF Overtakes
  <1>5. RequestsOK' /\ ReadsFresh'
    BY <1>2, <1>4, OvertakingStep
  <1> HIDE DEF n
  <1>6. RowsKept' /\ VariantsKept'
    BY <1>1, <1>2, <1>3, StockStep DEF ProductsInv
  <1>7. FreshComes'
    BY Zenon DEF FreshComes, RestockReturned
  <1>8. ListingOK(listing)'
    BY <1>2 DEF ProductsInv, ListingOK
  <1> QED
    BY <1>5, <1>6, <1>7, <1>8 DEF ProductsInv

LEMMA RefuseKeeps ==
  ASSUME ProductsInv, NEW h \in CatalogHandlers, Refuse(h),
         UNCHANGED <<product, variants, ordered>>
  PROVE  /\ RowsKept' /\ RequestsOK' /\ VariantsKept' /\ ReadsFresh'
         /\ \A g \in CatalogHandlers \ {h} : catalogReq'[g] = catalogReq[g]
  <1>1. /\ catalogReq' = [g \in CatalogHandlers |-> catalogReq'[g]]
        /\ catalogReq'[h] = IdleRequest
        /\ \A g \in CatalogHandlers \ {h} : catalogReq'[g] = catalogReq[g]
    BY DEF ProductsInv, RequestsOK, Refuse
  <1>2. RowsKept' /\ VariantsKept'
    BY DEF ProductsInv, RowsKept, VariantsKept
  <1>3. RequestsOK'
    BY <1>1, IdleOK DEF ProductsInv, RequestsOK
  <1>4. ReadsFresh'
    BY <1>1, IdleOK DEF ProductsInv, ReadsFresh, ComputedOK, Aggregates
  <1> QED
    BY <1>1, <1>2, <1>3, <1>4

LEMMA WriteAggregatesStep ==
  ASSUME ProductsInv, NEW h \in CatalogHandlers, WriteAggregates(h)
  PROVE  ProductsInv'
  <1> DEFINE r == catalogReq[h]
  <1>1. /\ Refuse(h) /\ UNCHANGED <<product, variants, ordered>>
        /\ r.phase = "write"
    BY DEF WriteAggregates
  <1>2. /\ missed' = r.overtaken
        /\ product # NoProduct => listing' = r.computed
        /\ product = NoProduct => listing' = listing
    BY DEF WriteAggregates
  <1>3. RequestOK(r) /\ ComputedOK(r)
    BY DEF ProductsInv, RequestsOK, ReadsFresh
  <1>4. product = NoProduct \/ r.overtaken \/ r.computed = Aggregates
    BY <1>1, <1>3 DEF ComputedOK
  <1>5. FreshComes'
    <2>1. Aggregates' = Aggregates /\ product' = product
      BY <1>1 DEF Aggregates
    <2>2. CASE product = NoProduct
      BY <2>1, <2>2 DEF FreshComes
    <2>3. CASE r.overtaken
      <3>1. missed'
        BY <1>2, <2>3, Zenon
      <3> QED
        BY <3>1 DEF FreshComes
    <2>4. CASE product # NoProduct /\ r.computed = Aggregates
      BY <1>2, <2>1, <2>4 DEF FreshComes
    <2> QED
      BY <1>4, <2>2, <2>3, <2>4
  <1>6. ListingOK(listing)'
    <2>1. ListingOK(listing) /\ ListingOK(r.computed)
      BY <1>1, <1>3 DEF ProductsInv, RequestOK
    <2> QED
      BY <1>2, <2>1 DEF ListingOK
  <1> QED
    BY <1>1, <1>5, <1>6, RefuseKeeps DEF ProductsInv

LEMMA CatalogCrashStep ==
  ASSUME ProductsInv, NEW h \in CatalogHandlers, CatalogCrash(h)
  PROVE  ProductsInv'
  <1>1. Refuse(h) /\ UNCHANGED <<product, variants, ordered, listing>>
    BY DEF CatalogCrash
  <1>2. missed' = (missed \/ catalogReq[h].phase \in {"product", "variants", "write"})
    BY DEF CatalogCrash
  <1>3. \A g \in CatalogHandlers \ {h} : catalogReq'[g] = catalogReq[g]
    BY <1>1, RefuseKeeps
  <1>4. FreshComes'
    <2>1. Aggregates' = Aggregates /\ product' = product /\ listing' = listing
      BY <1>1 DEF Aggregates
    <2>2. CASE product = NoProduct \/ listing = Aggregates
      BY <2>1, <2>2 DEF FreshComes
    <2>3. CASE missed \/ catalogReq[h].phase \in ReadPhases
      <3>1. missed'
        BY <1>2, <2>3, Zenon DEF ReadPhases
      <3> QED
        BY <3>1 DEF FreshComes
    <2>4. ASSUME NEW g \in CatalogHandlers \ {h}, catalogReq[g].phase \in ReadPhases
          PROVE  catalogReq'[g].phase \in ReadPhases
      BY <1>3, <2>4
    <2> QED
      BY <2>2, <2>3, <2>4 DEF ProductsInv, FreshComes
  <1>5. ListingOK(listing)'
    BY <1>1 DEF ProductsInv, ListingOK
  <1> QED
    BY <1>1, <1>4, <1>5, RefuseKeeps DEF ProductsInv

LEMMA ProductsStepInv == ProductsInv /\ [ProductsNext]_productsVars => ProductsInv'
  <1> SUFFICES ASSUME ProductsInv, [ProductsNext]_productsVars PROVE ProductsInv'
    OBVIOUS
  <1>1. ASSUME UNCHANGED productsVars PROVE ProductsInv'
    <2>1. UNCHANGED <<product, variants, ordered, listing, catalogReq, missed>>
      BY <1>1 DEF productsVars
    <2>2. Aggregates' = Aggregates
      BY <2>1 DEF Aggregates
    <2>3. RowsKept' /\ VariantsKept' /\ ListingOK(listing)' /\ RequestsOK'
      BY <2>1 DEF ProductsInv, RowsKept, VariantsKept, ListingOK, RequestsOK
    <2>4. ReadsFresh' /\ FreshComes'
      BY <2>1, <2>2 DEF ProductsInv, ReadsFresh, ComputedOK, FreshComes
    <2> QED
      BY <2>3, <2>4 DEF ProductsInv
  <1>2. ASSUME NEW h \in CatalogHandlers, Recompute(h) \/ CatalogCrash(h) PROVE ProductsInv'
    BY <1>2, ReadSteps, WriteAggregatesStep, CatalogCrashStep DEF Recompute
  <1>3. ASSUME NEW h \in CatalogRequests,
               \/ ClearDefaults(h) \/ WriteVariant(h) \/ VariantRefused(h)
               \/ DeleteProduct(h) \/ WriteDelete(h) \/ DeleteRefused(h)
               \/ \E terms \in ProductTerms : UpdateProduct(h, terms)
        PROVE  ProductsInv'
    BY <1>3, ClearStep, WriteVariantStep, StartSteps, WriteDeleteStep, UpdateStep
  <1>4. ASSUME NEW h \in CatalogRequests, NEW s \in Skus,
               \/ DeleteVariant(h, s) \/ OrderVariant(h, s)
               \/ \E row \in VariantRows : SaveVariant(h, s, row)
        PROVE  ProductsInv'
    BY <1>4, StartSteps, OrderStep
  <1> QED
    BY <1>1, <1>2, <1>3, <1>4, RefreshStep, RestockStep DEF ProductsNext

\* The invariant that the two results on products follow from.
THEOREM ProductsInvHolds == ProductsSpec => []ProductsInv
  BY ProductsInitInv, ProductsStepInv, PTL DEF ProductsSpec

\* When no recomputation is under way and no change was missed, the price range and the flags
\* of a product's listing are those of its variants as they are (recomputeProductAggregates).
THEOREM ListingsAreFresh == ProductsSpec => []ListingFreshUnlessMissed
  <1>1. ProductsInv => ListingFreshUnlessMissed
    <2> SUFFICES ASSUME ProductsInv,
                        \A h \in CatalogHandlers : catalogReq[h].phase \notin {"product", "variants", "write"},
                        ~missed, product # NoProduct
                 PROVE  ListingIsFresh
      BY DEF ListingFreshUnlessMissed, ListingIsFresh
    <2>1. listing = AggregatesOf(product, variants)
      BY DEF ProductsInv, FreshComes, ReadPhases, Aggregates
    <2>2. product \in ProductTerms /\ DOMAIN variants \subseteq Skus /\ \A s \in DOMAIN variants : SavedRow(variants[s])
      BY DEF ProductsInv, RowsKept
    <2> QED
      BY <2>1, <2>2, AggregatesSound DEF ListingIsFresh
  <1> QED
    BY <1>1, ProductsInvHolds, PTL

\* No two variants of a product have one combination, and no ordered variant goes away.
THEOREM CombinationsAreUnique == ProductsSpec => []VariantsKept
  <1>1. ProductsInv => VariantsKept
    BY DEF ProductsInv
  <1> QED
    BY <1>1, ProductsInvHolds, PTL
-------------------------------------------------------------------------------
\* Rates: one fetch at a time brings the stored prices along, unless it dies.

RatesSpec == RatesInit /\ [][RatesNext]_ratesVars

RatePhases == {"idle", "record", "price", "read", "range", "apply"}

SomeRate == Rates \cup {NoRate}

\* How far a handler, alone in flight, has got.
RateStage(h) ==
    LET r == rateReq[h]
    IN  /\ r.phase = "record" => r.due \/ Near(rate.lastApplied, r.fetched)
        /\ r.phase \in {"price", "read", "range", "apply"} => rate.current = r.fetched
        /\ r.phase \in {"read", "range", "apply"} /\ "current" \notin behind => stored["current"] = r.fetched
        /\ r.phase = "range" => r.seen = r.fetched
        /\ r.phase = "apply" /\ "range" \notin behind => stored["range"] = r.fetched

RatesTyping ==
    /\ rateReq = [h \in RateHandlers |-> rateReq[h]]
    /\ \A h \in RateHandlers :
          /\ DOMAIN rateReq[h] = {"phase", "fetched", "due", "seen"}
          /\ rateReq[h].phase \in RatePhases
          /\ rateReq[h].fetched \in SomeRate /\ rateReq[h].seen \in SomeRate
    /\ priceReq = [g \in PriceHandlers |-> priceReq[g]]
    /\ \A g \in PriceHandlers : priceReq[g].seen \in SomeRate
    /\ DOMAIN rate = {"current", "lastApplied", "forced"}
    /\ rate.current \in SomeRate /\ rate.lastApplied \in SomeRate
    /\ stored \in [current : SomeRate, range : SomeRate]
    /\ behind \subseteq {"current", "range"}

RatesInv ==
    /\ RatesTyping
    /\ ratesCrossed \/ /\ \A g, h \in InFlight : g = h
                       /\ \A h \in RateHandlers : RateStage(h)
                       /\ StoredPricesFollowRate

LEMMA NearItself == \A r : Near(r, r)
  BY DEF Near

LEMMA RatesInitInv == RatesInit => RatesInv
  <1> SUFFICES ASSUME RatesInit PROVE RatesInv
    OBVIOUS
  <1>1. RatesTyping
    BY DEF RatesInit, RatesTyping, RatePhases, SomeRate, IdleRate, IdlePrice, NoRate
  <1>2. StoredPricesFollowRate
    BY NearItself DEF RatesInit, StoredPricesFollowRate
  <1> QED
    BY <1>1, <1>2 DEF RatesInit, RatesInv, InFlight, RateStage, IdleRate

\* What one write of the product does, with whichever rate it was computed.
LEMMA StoreWrites ==
  ASSUME RatesTyping, NEW field \in {"current", "range"}, NEW r \in SomeRate, Store(field, r)
  PROVE  /\ stored' \in [current : SomeRate, range : SomeRate] /\ stored'[field] = r
         /\ \A f \in {"current", "range"} \ {field} :
               stored'[f] = stored[f] /\ (f \in behind' <=> f \in behind)
         /\ behind' \subseteq {"current", "range"}
         /\ field \notin behind' => r = rate.current
  BY DEF RatesTyping, Store

LEMMA RatesTypingStep == RatesTyping /\ RatesNext => RatesTyping'
  <1> SUFFICES ASSUME RatesTyping, RatesNext PROVE RatesTyping'
    OBVIOUS
  <1>1. ASSUME NEW h \in RateHandlers, NEW primary \in Rates \cup {NoRate},
               NEW fallback \in Rates \cup {NoRate}, FetchAllRates(h, primary, fallback)
        PROVE  RatesTyping'
    <2>1. PICK found \in SomeRate : found = FetchedRate(primary, fallback)
      BY DEF FetchedRate, SomeRate
    <2>2. PICK due : due = ShouldRecalculateCurrency(rate, found)
      OBVIOUS
    <2>3. PICK r : r = [IdleRate EXCEPT !.phase = "record", !.fetched = found, !.due = due]
      OBVIOUS
    <2>4. rateReq' = [rateReq EXCEPT ![h] = r]
      BY <1>1, <2>1, <2>2, <2>3 DEF FetchAllRates
    <2>5. /\ DOMAIN r = {"phase", "fetched", "due", "seen"} /\ r.phase \in RatePhases
          /\ r.fetched \in SomeRate /\ r.seen \in SomeRate
      BY <2>3 DEF IdleRate, RatePhases, SomeRate
    <2> QED
      BY <1>1, <2>4, <2>5 DEF FetchAllRates, RatesTyping
  <1>2. ASSUME NEW h \in RateHandlers, NEW r \in Rates, UpdateCurrency(h, r) PROVE RatesTyping'
    BY <1>2 DEF UpdateCurrency, RatesTyping, RatePhases, IdleRate, NoRate, SomeRate
  <1>3. ASSUME NEW h \in RateHandlers, RecordRate(h) PROVE RatesTyping'
    <2>1. PICK r : r = IF rateReq[h].due THEN [rateReq[h] EXCEPT !.phase = "price", !.due = FALSE] ELSE IdleRate
      OBVIOUS
    <2>2. rateReq' = [rateReq EXCEPT ![h] = r]
      BY <1>3, <2>1 DEF RecordRate
    <2>3. /\ DOMAIN r = {"phase", "fetched", "due", "seen"} /\ r.phase \in RatePhases
          /\ r.fetched \in SomeRate /\ r.seen \in SomeRate
      <3>1. CASE rateReq[h].due
        BY <2>1, <3>1 DEF RatesTyping, RatePhases
      <3>2. CASE ~rateReq[h].due
        BY <2>1, <3>2 DEF RatePhases, IdleRate, SomeRate
      <3> QED
        BY <3>1, <3>2
    <2> QED
      BY <1>3, <2>2, <2>3 DEF RecordRate, rateHistories, RatesTyping, SomeRate
  <1>4. ASSUME NEW h \in RateHandlers, WriteCurrentPrice(h) \/ WriteRange(h) PROVE RatesTyping'
    <2>1. CASE WriteCurrentPrice(h)
      <3>1. /\ stored' \in [current : SomeRate, range : SomeRate] /\ behind' \subseteq {"current", "range"}
        BY <2>1, StoreWrites DEF WriteCurrentPrice, RatesTyping
      <3> QED
        BY <2>1, <3>1 DEF WriteCurrentPrice, RatesTyping, RatePhases
    <2>2. CASE WriteRange(h)
      <3>1. /\ stored' \in [current : SomeRate, range : SomeRate] /\ behind' \subseteq {"current", "range"}
        BY <2>2, StoreWrites DEF WriteRange, RatesTyping
      <3> QED
        BY <2>2, <3>1 DEF WriteRange, RatesTyping, RatePhases
    <2> QED
      BY <1>4, <2>1, <2>2
  <1>5. ASSUME NEW h \in RateHandlers, ReadRange(h) \/ ApplyRate(h) \/ RateHandlerFails(h) PROVE RatesTyping'
    <2>1. CASE ReadRange(h)
      <3>1. PICK r : r = [rateReq[h] EXCEPT !.phase = "range", !.seen = rate.current]
        OBVIOUS
      <3>2. rateReq' = [rateReq EXCEPT ![h] = r]
        BY <2>1, <3>1 DEF ReadRange, RatesTyping
      <3>3. /\ DOMAIN r = {"phase", "fetched", "due", "seen"} /\ r.phase \in RatePhases
            /\ r.fetched \in SomeRate /\ r.seen \in SomeRate
        BY <3>1 DEF RatesTyping, RatePhases
      <3> QED
        BY <2>1, <3>2, <3>3 DEF ReadRange, rateHistories, RatesTyping
    <2>2. CASE ApplyRate(h)
      BY <2>2 DEF ApplyRate, RatesTyping, RatePhases, IdleRate, SomeRate
    <2>3. CASE RateHandlerFails(h)
      BY <2>3 DEF RateHandlerFails, RatesTyping, RatePhases, IdleRate, SomeRate
    <2> QED
      BY <1>5, <2>1, <2>2, <2>3
  <1>6. ASSUME NEW g \in PriceHandlers, SavePrice(g) \/ WriteAggregateRange(g) PROVE RatesTyping'
    <2>1. /\ stored' \in [current : SomeRate, range : SomeRate] /\ behind' \subseteq {"current", "range"}
      BY <1>6, StoreWrites DEF SavePrice, WriteAggregateRange, RatesTyping
    <2> QED
      BY <1>6, <2>1 DEF SavePrice, WriteAggregateRange, RatesTyping, IdlePrice, SomeRate
  <1>7. ASSUME NEW g \in PriceHandlers, EditPrice(g) \/ ReadAggregates(g) \/ PriceHandlerFails(g)
        PROVE  RatesTyping'
    BY <1>7 DEF EditPrice, ReadAggregates, PriceHandlerFails, rateHistories, RatesTyping, IdlePrice, SomeRate
  <1>8. CASE HoursPass
    BY <1>8 DEF HoursPass, rateHistories, RatesTyping
  <1> QED
    BY <1>1, <1>2, <1>3, <1>4, <1>5, <1>6, <1>7, <1>8 DEF RatesNext

\* A fetch that needs no recalculation leaves the rate close to the one applied.
LEMMA NotDueIsNear ==
  ASSUME NEW r, ~ShouldRecalculateCurrency(rate, r)
  PROVE  Near(rate.lastApplied, r)
  BY DEF ShouldRecalculateCurrency, Near

LEMMA RatesStep == RatesInv /\ RatesNext => RatesInv'
  <1> SUFFICES ASSUME RatesInv, RatesNext, ~ratesCrossed'
               PROVE  /\ \A g, h \in InFlight' : g = h
                      /\ \A h \in RateHandlers : RateStage(h)'
                      /\ StoredPricesFollowRate'
    BY RatesTypingStep DEF RatesInv
  <1>0. /\ RatesTyping /\ RatesTyping' /\ ~ratesCrossed
        /\ \A g, h \in InFlight : g = h
        /\ \A h \in RateHandlers : RateStage(h)
        /\ StoredPricesFollowRate
    <2>1. ratesCrossed => ratesCrossed'
      BY DEF RatesNext, FetchAllRates, UpdateCurrency, RecordRate, WriteCurrentPrice, ReadRange, WriteRange,
             ApplyRate, RateHandlerFails, EditPrice, SavePrice, ReadAggregates, WriteAggregateRange,
             PriceHandlerFails, HoursPass, rateHistories
    <2> QED
      BY <2>1, RatesTypingStep DEF RatesInv
  <1> DEFINE Goal == /\ \A g, h \in InFlight' : g = h
                     /\ \A h \in RateHandlers : RateStage(h)'
                     /\ StoredPricesFollowRate'
  \* Nobody else is in flight.
  <1>a. ASSUME NEW h \in RateHandlers, rateReq[h].phase # "idle"
        PROVE  \A g \in RateHandlers \ {h} : rateReq[g].phase = "idle"
    BY <1>0, <1>a DEF InFlight
  \* A step of the only handler in flight.
  <1>b. ASSUME NEW h \in RateHandlers,
               \A g \in RateHandlers \ {h} : rateReq'[g].phase = "idle",
               RateStage(h)',
               rateReq'[h].phase \notin {"price", "read", "range", "apply"} => StoredPricesFollowRate'
        PROVE  Goal
    <2>1. \A g \in RateHandlers \ {h} : RateStage(g)'
      BY <1>b DEF RateStage
    <2>2. StoredPricesFollowRate'
      BY <1>b DEF StoredPricesFollowRate, Recalculating
    <2> QED
      BY <1>b, <2>1, <2>2 DEF InFlight
  \* A step that leaves rates and prices alone.
  <1>c. ASSUME UNCHANGED <<rate, stored, lost, behind>>,
               Recalculating' = {} => Recalculating = {}
        PROVE  StoredPricesFollowRate'
    BY <1>0, <1>c DEF StoredPricesFollowRate
  <1>1. ASSUME NEW h \in RateHandlers, NEW primary, NEW fallback, FetchAllRates(h, primary, fallback)
        PROVE  Goal
    <2>0. ratesCrossed' = (ratesCrossed \/ InFlight # {})
      BY <1>1 DEF FetchAllRates
    <2>1. InFlight = {}
      BY <2>0, Zenon
    <2>2. PICK due \in BOOLEAN : due = ShouldRecalculateCurrency(rate, FetchedRate(primary, fallback))
      <3>1. ShouldRecalculateCurrency(rate, FetchedRate(primary, fallback)) \in BOOLEAN
        BY Zenon DEF ShouldRecalculateCurrency, Moved
      <3> QED
        BY <3>1
    <2>3. PICK found : found = FetchedRate(primary, fallback)
      OBVIOUS
    <2>4. rateReq' = [rateReq EXCEPT ![h] = [IdleRate EXCEPT !.phase = "record", !.fetched = found, !.due = due]]
      BY <1>1, <2>2, <2>3 DEF FetchAllRates
    <2>5. /\ rateReq'[h].phase = "record" /\ rateReq'[h].fetched = found /\ rateReq'[h].due = due
          /\ \A g \in RateHandlers \ {h} : rateReq'[g] = rateReq[g]
      BY <1>0, <2>4 DEF RatesTyping, IdleRate
    <2>6. due \/ Near(rate.lastApplied, found)
      BY <2>2, <2>3, NotDueIsNear, Zenon
    <2>7. UNCHANGED <<rate, stored, lost, behind>>
      BY <1>1 DEF FetchAllRates
    <2>8. RateStage(h)'
      BY <2>5, <2>6, <2>7 DEF RateStage
    <2>9. Recalculating = {}
      BY <2>1 DEF InFlight, Recalculating
    <2> QED
      BY <1>b, <1>c, <2>1, <2>5, <2>7, <2>8, <2>9 DEF InFlight
  <1>2. ASSUME NEW h \in RateHandlers, NEW r \in Rates, UpdateCurrency(h, r)
        PROVE  Goal
    <2>0. ratesCrossed' = (ratesCrossed \/ InFlight # {})
      BY <1>2 DEF UpdateCurrency
    <2>1. InFlight = {}
      BY <2>0, Zenon
    <2>2. /\ rateReq'[h].phase = "price" /\ rateReq'[h].fetched = r /\ rate'.current = r
          /\ \A g \in RateHandlers \ {h} : rateReq'[g] = rateReq[g]
      BY <1>0, <1>2 DEF UpdateCurrency, RatesTyping, IdleRate
    <2> QED
      BY <1>b, <2>1, <2>2 DEF InFlight, RateStage
  <1>3. ASSUME NEW h \in RateHandlers, RecordRate(h)
        PROVE  Goal
    <2>1. rateReq[h].phase = "record" /\ (rateReq[h].due \/ Near(rate.lastApplied, rateReq[h].fetched))
      BY <1>0, <1>3 DEF RecordRate, RateStage
    <2>2. /\ rate'.current = rateReq[h].fetched /\ rate'.lastApplied = rate.lastApplied
          /\ UNCHANGED <<stored, lost, behind>>
      BY <1>0, <1>3 DEF RecordRate, RatesTyping, rateHistories
    <2>3. Recalculating = {}
      BY <1>a, <2>1 DEF Recalculating
    <2>4. CASE rateReq[h].due
      <3>1. rateReq' = [rateReq EXCEPT ![h] = [rateReq[h] EXCEPT !.phase = "price", !.due = FALSE]]
        BY <1>3, <2>4 DEF RecordRate
      <3>2. /\ rateReq'[h].phase = "price" /\ rateReq'[h].fetched = rateReq[h].fetched
            /\ \A g \in RateHandlers \ {h} : rateReq'[g] = rateReq[g]
        BY <1>0, <3>1 DEF RatesTyping
      <3>3. RateStage(h)'
        BY <2>2, <3>2 DEF RateStage
      <3> QED
        BY <1>a, <1>b, <2>1, <3>2, <3>3
    <2>5. CASE ~rateReq[h].due
      <3>1. rateReq' = [rateReq EXCEPT ![h] = IdleRate]
        BY <1>3, <2>5 DEF RecordRate
      <3>2. /\ rateReq'[h].phase = "idle" /\ \A g \in RateHandlers \ {h} : rateReq'[g] = rateReq[g]
        BY <1>0, <3>1 DEF RatesTyping, IdleRate
      <3>3. Near(rate.lastApplied, rateReq[h].fetched)
        BY <2>1, <2>5
      <3>4. StoredPricesFollowRate'
        BY <1>0, <2>2, <2>3, <3>3 DEF StoredPricesFollowRate
      <3>5. RateStage(h)'
        BY <3>2 DEF RateStage
      <3> QED
        BY <1>a, <1>b, <2>1, <3>2, <3>4, <3>5
    <2> QED
      BY <2>4, <2>5
  <1>4. ASSUME NEW h \in RateHandlers, WriteCurrentPrice(h)
        PROVE  Goal
    <2>1. rateReq[h].phase = "price" /\ rate.current = rateReq[h].fetched
      BY <1>0, <1>4 DEF WriteCurrentPrice, RateStage
    <2>2. /\ rateReq'[h].phase = "read" /\ rateReq'[h].fetched = rateReq[h].fetched
          /\ \A g \in RateHandlers \ {h} : rateReq'[g] = rateReq[g]
          /\ rate' = rate
      BY <1>0, <1>4 DEF WriteCurrentPrice, RatesTyping
    <2>3. stored'["current"] = rateReq[h].fetched
      BY <1>0, <1>4, StoreWrites DEF WriteCurrentPrice, RatesTyping
    <2>4. RateStage(h)'
      BY <2>1, <2>2, <2>3 DEF RateStage
    <2> QED
      BY <1>a, <1>b, <2>1, <2>2, <2>4
  <1>5. ASSUME NEW h \in RateHandlers, ReadRange(h)
        PROVE  Goal
    <2>1. rateReq[h].phase = "read" /\ RateStage(h)
      BY <1>0, <1>5 DEF ReadRange
    <2>2. /\ rateReq'[h].phase = "range" /\ rateReq'[h].fetched = rateReq[h].fetched
          /\ rateReq'[h].seen = rate.current
          /\ \A g \in RateHandlers \ {h} : rateReq'[g] = rateReq[g]
          /\ UNCHANGED <<rate, stored, behind>>
      <3>1. PICK r : r = [rateReq[h] EXCEPT !.phase = "range", !.seen = rate.current]
        OBVIOUS
      <3>2. rateReq' = [rateReq EXCEPT ![h] = r]
        BY <1>0, <1>5, <3>1 DEF ReadRange, RatesTyping
      <3>3. UNCHANGED <<rate, stored, behind>>
        BY <1>5 DEF ReadRange, rateHistories
      <3>4. r.phase = "range" /\ r.fetched = rateReq[h].fetched /\ r.seen = rate.current
        BY <1>0, <3>1 DEF RatesTyping
      <3> QED
        BY <1>0, <3>2, <3>3, <3>4 DEF RatesTyping
    <2>4. RateStage(h)'
      BY <2>1, <2>2 DEF RateStage
    <2> QED
      BY <1>a, <1>b, <2>1, <2>2, <2>4
  <1>6. ASSUME NEW h \in RateHandlers, WriteRange(h)
        PROVE  Goal
    <2>1. rateReq[h].phase = "range" /\ RateStage(h)
      BY <1>0, <1>6 DEF WriteRange
    <2>2. /\ rateReq'[h].phase = "apply" /\ rateReq'[h].fetched = rateReq[h].fetched
          /\ \A g \in RateHandlers \ {h} : rateReq'[g] = rateReq[g]
          /\ rate' = rate
      BY <1>0, <1>6 DEF WriteRange, RatesTyping
    <2>3. /\ stored'["range"] = rateReq[h].seen /\ stored'["current"] = stored["current"]
          /\ "current" \in behind' <=> "current" \in behind
      <3>1. Store("range", rateReq[h].seen) /\ rateReq[h].seen \in SomeRate
        BY <1>0, <1>6 DEF WriteRange, RatesTyping
      <3> QED
        BY <1>0, <3>1, StoreWrites
    <2>4. RateStage(h)'
      BY <2>1, <2>2, <2>3 DEF RateStage
    <2> QED
      BY <1>a, <1>b, <2>1, <2>2, <2>4
  <1>7. ASSUME NEW h \in RateHandlers, ApplyRate(h)
        PROVE  Goal
    <2>1. rateReq[h].phase = "apply" /\ RateStage(h)
      BY <1>0, <1>7 DEF ApplyRate
    <2>2. /\ rateReq'[h].phase = "idle" /\ \A g \in RateHandlers \ {h} : rateReq'[g] = rateReq[g]
          /\ rate'.lastApplied = rateReq[h].fetched /\ rate'.current = rate.current
          /\ UNCHANGED <<stored, behind>>
      BY <1>0, <1>7 DEF ApplyRate, RatesTyping, IdleRate
    <2>3. /\ rate.current = rateReq[h].fetched
          /\ "current" \notin behind => stored["current"] = rateReq[h].fetched
          /\ "range" \notin behind => stored["range"] = rateReq[h].fetched
      BY <2>1 DEF RateStage
    <2>4. StoredPricesFollowRate'
      BY <2>2, <2>3, NearItself DEF StoredPricesFollowRate
    <2>5. RateStage(h)'
      BY <2>2 DEF RateStage
    <2> QED
      BY <1>a, <1>b, <2>1, <2>2, <2>4, <2>5
  <1>8. ASSUME NEW h \in RateHandlers, RateHandlerFails(h)
        PROVE  Goal
    <2>1. rateReq[h].phase # "idle"
      BY <1>8 DEF RateHandlerFails
    <2>2. /\ rateReq'[h].phase = "idle" /\ \A g \in RateHandlers \ {h} : rateReq'[g] = rateReq[g]
          /\ UNCHANGED <<rate, stored, behind>>
      BY <1>0, <1>8 DEF RateHandlerFails, RatesTyping, IdleRate
    <2>3. RateStage(h)'
      BY <2>2 DEF RateStage
    <2>4. lost' = (lost \/ h \in Recalculating)
      BY <1>8 DEF RateHandlerFails
    <2>5. StoredPricesFollowRate'
      <3>1. CASE h \in Recalculating
        <4>1. lost'
          BY <2>4, <3>1, Zenon
        <4> QED
          BY <4>1 DEF StoredPricesFollowRate
      <3>2. CASE h \notin Recalculating
        <4>1. Recalculating = {}
          BY <1>a, <2>1, <3>2 DEF Recalculating
        <4>2. lost => lost'
          BY <2>4, Zenon
        <4> QED
          BY <1>0, <2>2, <4>1, <4>2 DEF StoredPricesFollowRate
      <3> QED
        BY <3>1, <3>2
    <2> QED
      BY <1>a, <1>b, <2>1, <2>2, <2>3, <2>5
  <1>9. ASSUME NEW field \in {"current", "range"}, NEW r \in SomeRate, Store(field, r),
               UNCHANGED <<rate, rateReq, lost>>
        PROVE  Goal
    <2>1. /\ stored'[field] = r
          /\ \A f \in {"current", "range"} \ {field} :
                stored'[f] = stored[f] /\ (f \in behind' <=> f \in behind)
          /\ field \notin behind' => r = rate.current
      BY <1>0, <1>9, StoreWrites
    <2>2. ASSUME NEW h \in RateHandlers PROVE RateStage(h)'
      <3>1. RateStage(h)
        BY <1>0
      <3>2. CASE field = "current"
        BY <1>9, <2>1, <3>1, <3>2 DEF RateStage
      <3>3. CASE field = "range"
        BY <1>9, <2>1, <3>1, <3>3 DEF RateStage
      <3> QED
        BY <3>2, <3>3
    <2>3. StoredPricesFollowRate'
      <3> SUFFICES ASSUME Recalculating = {}, ~lost,
                          NEW f \in {"current", "range"} \ behind'
                   PROVE  /\ Near(rate.lastApplied, rate.current)
                          /\ Near(rate.lastApplied, stored'[f])
        <4>1. Recalculating' = Recalculating
          BY <1>9 DEF Recalculating
        <4>2. Recalculating = {} /\ ~lost => Near(rate.lastApplied, rate.current)
          BY <1>0 DEF StoredPricesFollowRate
        <4> QED
          BY <1>9, <4>1, <4>2 DEF StoredPricesFollowRate
      <3>1. Near(rate.lastApplied, rate.current)
        BY <1>0 DEF StoredPricesFollowRate
      <3>2. CASE f = field
        BY <2>1, <3>1, <3>2
      <3>3. CASE f # field
        <4>1. f \notin behind /\ stored'[f] = stored[f]
          BY <2>1, <3>3
        <4>2. Near(rate.lastApplied, stored[f])
          BY <1>0, <4>1 DEF StoredPricesFollowRate
        <4> QED
          BY <3>1, <4>1, <4>2
      <3> QED
        BY <3>1, <3>2, <3>3
    <2>4. InFlight' = InFlight
      BY <1>9 DEF InFlight
    <2> QED
      BY <1>0, <2>2, <2>3, <2>4
  <1>10. ASSUME NEW g \in PriceHandlers, SavePrice(g) \/ WriteAggregateRange(g)
         PROVE  Goal
    BY <1>0, <1>9, <1>10 DEF SavePrice, WriteAggregateRange, RatesTyping
  <1>11. ASSUME UNCHANGED <<rateReq, stored, lost, behind>>,
                rate'.current = rate.current, rate'.lastApplied = rate.lastApplied
         PROVE  Goal
    BY <1>0, <1>11 DEF InFlight, RateStage, StoredPricesFollowRate, Recalculating
  <1>12. ASSUME NEW g \in PriceHandlers, EditPrice(g) \/ ReadAggregates(g) \/ PriceHandlerFails(g)
         PROVE  Goal
    BY <1>11, <1>12 DEF EditPrice, ReadAggregates, PriceHandlerFails, rateHistories
  <1>13. CASE HoursPass
    <2>1. rate'.current = rate.current /\ rate'.lastApplied = rate.lastApplied
      BY <1>0, <1>13 DEF HoursPass, RatesTyping
    <2> QED
      BY <1>11, <1>13, <2>1 DEF HoursPass, rateHistories
  <1> QED
    BY <1>1, <1>2, <1>3, <1>4, <1>5, <1>6, <1>7, <1>8, <1>10, <1>12, <1>13 DEF RatesNext

\* However many small moves a rate makes between two recalculations, and whatever edits and
\* recomputations of the product write meanwhile, the rate that is charged and those of the
\* stored prices are within the threshold of the rate last applied, for any rates and
\* threshold; a recalculation that dies is excepted until one is finished
\* (exchangeRateFetcher.ts 33-50, 194-235).
THEOREM PricesFollowRates == RatesSpec => []StoredPricesFollowRate
  <1>1. RatesInv /\ UNCHANGED ratesVars => RatesInv'
    BY DEF RatesInv, RatesTyping, RateStage, InFlight, Recalculating, StoredPricesFollowRate,
           ratesVars, rateHistories
  <1>2. RatesInv /\ [RatesNext]_ratesVars => RatesInv'
    BY <1>1, RatesStep
  <1>3. RatesInv => StoredPricesFollowRate
    BY DEF RatesInv, StoredPricesFollowRate
  <1> QED
    BY RatesInitInv, <1>2, <1>3, PTL DEF RatesSpec
-------------------------------------------------------------------------------
\* Attributes: counted values, and the deletions that counted them.

AttributesSpec == AttributesInit /\ [][AttributesNext]_attributesVars

\* A deletion that no variant overtook finds its values as unused as it counted them.
DeletionOK(h) ==
    LET r == attributeReq[h]
    IN  /\ r.phase = "delete" /\ ~r.overtaken => \A s \in DOMAIN links : links[s] \cap r.ids = {}
        /\ r.phase = "deleteAll" /\ ~r.overtaken => \A s \in DOMAIN links : links[s] = {}

LinksOK ==
    /\ links = [s \in DOMAIN links |-> links[s]] /\ comboKeys = [s \in DOMAIN links |-> comboKeys[s]]
    /\ \A s \in DOMAIN links : links[s] \subseteq DOMAIN attributeValues

HandlersTyped ==
    /\ DOMAIN attributeReq = AttributeRequests
    /\ attributeReq = [h \in AttributeRequests |-> attributeReq[h]]
    /\ \A h \in AttributeRequests :
          DOMAIN attributeReq[h] = {"phase", "ids", "name", "sku", "overtaken"}

AttributesInv ==
    /\ LinksOK /\ HandlersTyped
    /\ \A h \in AttributeRequests : DeletionOK(h)
    /\ ValuesKept

LEMMA AttributesInitInv == AttributesInit => AttributesInv
  BY DEF AttributesInit, AttributesInv, LinksOK, HandlersTyped, DeletionOK, ValuesKept, IdleAttribute

LEMMA AskKeeps ==
  ASSUME AttributesInv, NEW h \in AttributeRequests, NEW request, Ask(h, request),
         DOMAIN request = {"phase", "ids", "name", "sku", "overtaken"},
         request.phase = "delete" => \A s \in DOMAIN links : links[s] \cap request.ids = {},
         request.phase = "deleteAll" => \A s \in DOMAIN links : links[s] = {}
  PROVE  AttributesInv'
  BY DEF AttributesInv, LinksOK, HandlersTyped, DeletionOK, ValuesKept, Ask

LEMMA AttributesStep == AttributesInv /\ AttributesNext => AttributesInv'
  <1> SUFFICES ASSUME AttributesInv, NEW h \in AttributeRequests,
                      \/ \E v \in ValueIds, name \in Names :
                            AddAttributeValue(h, v, name) \/ UpdateAttributeValue(h, v, name)
                      \/ \E v \in ValueIds : DeleteAttributeValue(h, v)
                      \/ DeleteAttribute(h)
                      \/ \E s \in ComboSkus, ids \in SUBSET ValueIds : SaveCombination(h, s, ids)
                      \/ WriteValue(h) \/ WriteValueDeletion(h) \/ WriteCombination(h) \/ AttributeRefused(h)
               PROVE  AttributesInv'
    BY Zenon DEF AttributesNext
  <1> DEFINE r == attributeReq[h]
  <1>1. ASSUME NEW v, NEW name, AddAttributeValue(h, v, name) \/ UpdateAttributeValue(h, v, name)
        PROVE  AttributesInv'
    BY <1>1, AskKeeps DEF AddAttributeValue, UpdateAttributeValue, IdleAttribute
  <1>2. ASSUME NEW v, DeleteAttributeValue(h, v) PROVE AttributesInv'
    BY <1>2, AskKeeps DEF DeleteAttributeValue, IdleAttribute, Unused, UsedInVariants
  <1>3. CASE DeleteAttribute(h)
    <2>1. \A s \in DOMAIN links : links[s] = {}
      BY <1>3 DEF DeleteAttribute, Unused, UsedInVariants, AttributesInv, LinksOK
    <2> QED
      BY <1>3, <2>1, AskKeeps DEF DeleteAttribute, IdleAttribute
  <1>4. ASSUME NEW s, NEW ids, SaveCombination(h, s, ids) PROVE AttributesInv'
    BY <1>4, AskKeeps DEF SaveCombination, IdleAttribute
  <1>5. CASE WriteValue(h)
    BY <1>5 DEF WriteValue, Answered, IdleAttribute, AttributesInv, LinksOK, HandlersTyped,
                DeletionOK, ValuesKept
  <1>6. CASE WriteValueDeletion(h)
    <2> DEFINE gone == IF r.phase = "deleteAll" THEN DOMAIN attributeValues ELSE r.ids
    <2>1. /\ links' = [s \in DOMAIN links |-> links[s] \ gone] /\ comboKeys' = comboKeys
          /\ DOMAIN attributeValues' = DOMAIN attributeValues \ gone
          /\ attributeReq' = [attributeReq EXCEPT ![h] = IdleAttribute]
      BY <1>6 DEF WriteValueDeletion, CascadedLinks, Restrict, Answered
    <2>2. LinksOK'
      BY <2>1 DEF AttributesInv, LinksOK
    <2>3. HandlersTyped' /\ \A g \in AttributeRequests : DeletionOK(g)'
      BY <2>1 DEF AttributesInv, HandlersTyped, DeletionOK, IdleAttribute
    <2>4. ASSUME ~takenMeanwhile' PROVE ~takenMeanwhile /\ links' = links
      <3>1. ~takenMeanwhile /\ ~r.overtaken
        BY <1>6, <2>4 DEF WriteValueDeletion
      <3>2. \A s \in DOMAIN links : links[s] \ gone = links[s]
        BY <1>6, <3>1 DEF WriteValueDeletion, AttributesInv, DeletionOK
      <3> HIDE DEF gone
      <3> QED
        BY <2>1, <3>1, <3>2 DEF AttributesInv, LinksOK
    <2>5. ValuesKept'
      BY <2>1, <2>4 DEF AttributesInv, ValuesKept
    <2> QED
      BY <2>2, <2>3, <2>5 DEF AttributesInv
  <1>7. CASE WriteCombination(h)
    <2>1. /\ links' = [s \in DOMAIN links \cup {r.sku} |-> IF s = r.sku THEN r.ids ELSE links[s]]
          /\ comboKeys' = [s \in DOMAIN links \cup {r.sku} |-> IF s = r.sku THEN r.ids ELSE comboKeys[s]]
          /\ attributeValues' = attributeValues /\ takenMeanwhile' = takenMeanwhile
          /\ r.ids \subseteq DOMAIN attributeValues
          /\ \A s \in DOMAIN comboKeys \ {r.sku} : comboKeys[s] # r.ids
      BY <1>7 DEF WriteCombination, CombinationWritable
    <2>2. LinksOK'
      BY <2>1 DEF AttributesInv, LinksOK
    <2>3. /\ attributeReq'[h] = IdleAttribute
          /\ attributeReq' = [g \in AttributeRequests |-> attributeReq'[g]]
          /\ \A g \in AttributeRequests \ {h} :
                attributeReq'[g] = [attributeReq[g] EXCEPT !.overtaken =
                        \/ @
                        \/ attributeReq[g].phase = "deleteAll" /\ r.ids # {}
                        \/ attributeReq[g].phase = "delete" /\ attributeReq[g].ids \cap r.ids # {}]
      BY <1>7 DEF WriteCombination
    <2>4. HandlersTyped'
      BY <2>3 DEF AttributesInv, HandlersTyped, IdleAttribute
    <2>5. ASSUME NEW g \in AttributeRequests PROVE DeletionOK(g)'
      <3>1. CASE g = h
        BY <2>3, <3>1 DEF DeletionOK, IdleAttribute
      <3>2. CASE g # h
        <4> DEFINE seized == \/ attributeReq[g].overtaken
                             \/ attributeReq[g].phase = "deleteAll" /\ r.ids # {}
                             \/ attributeReq[g].phase = "delete" /\ attributeReq[g].ids \cap r.ids # {}
        <4>1. /\ attributeReq'[g].overtaken = seized
              /\ attributeReq'[g].phase = attributeReq[g].phase
              /\ attributeReq'[g].ids = attributeReq[g].ids
          <5>1. DOMAIN attributeReq[g] = {"phase", "ids", "name", "sku", "overtaken"}
            BY DEF AttributesInv, HandlersTyped
          <5>2. attributeReq'[g] = [attributeReq[g] EXCEPT !.overtaken = seized]
            BY <2>3, <3>2, Zenon
          <5> HIDE DEF seized
          <5> QED
            BY <5>1, <5>2
        <4>2. ASSUME ~seized PROVE DeletionOK(g)'
          BY <2>1, <4>1, <4>2 DEF AttributesInv, DeletionOK
        <4>3. ASSUME seized PROVE DeletionOK(g)'
          <5>1. attributeReq'[g].overtaken
            BY <4>1, <4>3, Zenon
          <5> QED
            BY <5>1 DEF DeletionOK
        <4> QED
          BY <4>2, <4>3
      <3> QED
        BY <3>1, <3>2
    <2>6. ValuesKept'
      <3> SUFFICES ASSUME ~takenMeanwhile PROVE ValuesKept'
        BY <2>1 DEF ValuesKept
      <3>1. comboKeys = links /\ \A s, t \in DOMAIN links : links[s] = links[t] => s = t
        BY DEF AttributesInv, ValuesKept
      <3> QED
        BY <2>1, <3>1 DEF ValuesKept
    <2> QED
      BY <2>2, <2>4, <2>5, <2>6 DEF AttributesInv
  <1>8. CASE AttributeRefused(h)
    <2>1. /\ attributeReq' = [attributeReq EXCEPT ![h] = IdleAttribute]
          /\ UNCHANGED <<attributeValues, links, comboKeys, takenMeanwhile>>
      BY <1>8, Zenon DEF AttributeRefused, Answered
    <2> QED
      BY <2>1 DEF IdleAttribute, AttributesInv, LinksOK, HandlersTyped, DeletionOK, ValuesKept
  <1> QED
    BY <1>1, <1>2, <1>3, <1>4, <1>5, <1>6, <1>7, <1>8

\* The key that keeps a product's variants apart is the one of the values each still has, for any
\* number of values and administrators, unless a deletion took a value that a variant had taken
\* after the deletion counted it (attribute.service.ts 77-89, 160-172).
THEOREM ValuesAreKept == AttributesSpec => []ValuesKept
  <1>1. AttributesInv /\ UNCHANGED attributesVars => AttributesInv'
    BY DEF AttributesInv, LinksOK, HandlersTyped, DeletionOK, ValuesKept, attributesVars
  <1>2. AttributesInv /\ [AttributesNext]_attributesVars => AttributesInv'
    BY <1>1, AttributesStep
  <1> QED
    BY AttributesInitInv, <1>2, PTL DEF AttributesSpec, AttributesInv
-------------------------------------------------------------------------------
\* Comments: the rating behind the answers.

CommentsSpec == CommentsInit /\ [][CommentsNext]_commentsVars

CommentRow == [status : {"PENDING", "APPROVED", "REJECTED", "deleted"}, parent : Nat, stars : Nat]

\* Rows keep their shape, and only comments on the product itself carry stars.
CommentRows ==
    /\ comment \in Seq(CommentRow)
    /\ \A c \in CommentIds : comment[c].parent # NoComment => comment[c].stars = NoStars

RecomputationsTyped ==
    /\ recomputing = [t \in Recomputations |-> recomputing[t]]
    /\ \A t \in Recomputations :
          /\ DOMAIN recomputing[t] = {"phase", "read", "overtaken"}
          /\ recomputing[t].phase \in {"idle", "read", "write"}

Current == RatingOf(ApprovedRated)

\* A recomputation that nothing overtook has read the ratings as they are.
ReadsCurrent ==
    \A t \in Recomputations :
        recomputing[t].phase = "write" => recomputing[t].overtaken \/ recomputing[t].read = Current

\* The rating is current, or a recomputation is to make it so, or a change was missed.
RatingComes ==
    \/ ratingMissed
    \/ rating = Current
    \/ \E t \in Recomputations : \/ recomputing[t].phase = "read"
                                 \/ recomputing[t].phase = "write"

CommentsInv == CommentRows /\ RecomputationsTyped /\ ReadsCurrent /\ RatingComes

\* The rating depends on the approved rows alone.
LEMMA RatingUnchanged ==
  ASSUME CommentRows, CommentRows', ApprovedRated' = ApprovedRated,
         \A c \in ApprovedRated : comment'[c].stars = comment[c].stars
  PROVE  Current' = Current
  <1>1. IsFiniteSet(ApprovedRated)
    <2>1. PICK n \in Nat : CommentIds = 1 .. n
      BY DEF CommentRows, CommentIds
    <2>2. IsFiniteSet(1 .. n)
      BY <2>1, FS_Interval
    <2>3. ApprovedRated \subseteq 1 .. n
      BY <2>1 DEF ApprovedRated, Existing
    <2> QED
      BY <2>2, <2>3, FS_Subset
  <1>2. PICK f : f = [c \in CommentIds |-> comment[c].stars]
    OBVIOUS
  <1>3. PICK e : e = [c \in CommentIds' |-> comment'[c].stars]
    OBVIOUS
  <1>4. ASSUME NEW c \in ApprovedRated PROVE f[c] = e[c]
    <2>1. c \in CommentIds /\ c \in CommentIds'
      BY DEF ApprovedRated, Existing
    <2> QED
      BY <1>2, <1>3, <2>1
  <1>5. SumFunctionOnSet(f, ApprovedRated) = SumFunctionOnSet(e, ApprovedRated)
    BY <1>1, <1>4, SumSame
  <1>6. Current = [sum |-> SumFunctionOnSet(f, ApprovedRated), count |-> Cardinality(ApprovedRated)]
    BY <1>2 DEF Current, RatingOf, Given
  <1>7. Current' = [sum |-> SumFunctionOnSet(e, ApprovedRated), count |-> Cardinality(ApprovedRated)]
    BY <1>3 DEF Current, RatingOf, Given
  <1> QED
    BY <1>5, <1>6, <1>7

LEMMA CommentsInitInv == CommentsInit => CommentsInv
  <1> SUFFICES ASSUME CommentsInit PROVE CommentsInv
    OBVIOUS
  <1>1. ApprovedRated = {}
    BY DEF CommentsInit, ApprovedRated, Existing, CommentIds
  <1>2. Current = NoRating
    BY <1>1, SumEmpty, FS_EmptySet DEF Current, RatingOf, NoRating
  <1> QED
    BY <1>2 DEF CommentsInit, CommentsInv, CommentRows, RecomputationsTyped, ReadsCurrent,
                RatingComes, IdleRating, CommentIds

\* What overtakes a recomputation is noted in all that have read.
LEMMA AllOvertaken ==
  ASSUME RecomputationsTyped
  PROVE  /\ ReadsOvertaken = [t \in Recomputations |-> ReadsOvertaken[t]]
         /\ \A t \in Recomputations :
               /\ DOMAIN ReadsOvertaken[t] = {"phase", "read", "overtaken"}
               /\ ReadsOvertaken[t].phase = recomputing[t].phase
               /\ recomputing[t].phase = "write" => ReadsOvertaken[t].overtaken
  <1> SUFFICES ASSUME NEW t \in Recomputations
               PROVE  /\ DOMAIN ReadsOvertaken[t] = {"phase", "read", "overtaken"}
                      /\ ReadsOvertaken[t].phase = recomputing[t].phase
                      /\ recomputing[t].phase = "write" => ReadsOvertaken[t].overtaken
    BY DEF ReadsOvertaken
  <1> DEFINE late == recomputing[t].overtaken \/ recomputing[t].phase = "write"
  <1>1. ReadsOvertaken[t] = [recomputing[t] EXCEPT !.overtaken = late]
    BY Zenon DEF ReadsOvertaken
  <1>2. DOMAIN recomputing[t] = {"phase", "read", "overtaken"}
    BY DEF RecomputationsTyped
  <1>3. /\ DOMAIN ReadsOvertaken[t] = {"phase", "read", "overtaken"}
        /\ ReadsOvertaken[t].phase = recomputing[t].phase
        /\ ReadsOvertaken[t].overtaken = late
    <2> HIDE DEF late
    <2> QED
      BY <1>1, <1>2
  <1>4. recomputing[t].phase = "write" => ReadsOvertaken[t].overtaken
    BY <1>3, Zenon
  <1> QED
    BY <1>3, <1>4

LEMMA StatusWritten ==
  ASSUME CommentRows, NEW c \in CommentIds, NEW status \in {"PENDING", "APPROVED", "REJECTED"},
         comment' = [comment EXCEPT ![c].status = status]
  PROVE  CommentRows'
  <1> USE DEF CommentIds
  <1>0. comment[c] \in CommentRow
    BY DEF CommentRows
  <1>1. PICK x \in CommentRow : x = comment[c]
    BY <1>0
  <1>5. /\ [x EXCEPT !.status = status] \in CommentRow
        /\ [x EXCEPT !.status = status].parent = x.parent
        /\ [x EXCEPT !.status = status].stars = x.stars
    BY DEF CommentRow
  <1>6. comment' = [comment EXCEPT ![c] = [x EXCEPT !.status = status]]
    BY <1>1
  <1>8. PICK z : z = [x EXCEPT !.status = status]
    OBVIOUS
  <1>7. comment'[c] = z /\ z.parent = x.parent /\ z.stars = x.stars
    BY <1>5, <1>6, <1>8
  <1>2. comment'[c].parent = comment[c].parent /\ comment'[c].stars = comment[c].stars
    BY <1>1, <1>7
  <1>3. comment' \in Seq(CommentRow) /\ CommentIds' = CommentIds
    <2>1. z \in CommentRow /\ comment' = [comment EXCEPT ![c] = z]
      BY <1>5, <1>6, <1>8
    <2>2. comment \in Seq(CommentRow) /\ c \in DOMAIN comment
      BY DEF CommentRows
    <2>3. comment' \in Seq(CommentRow)
      BY <2>1, <2>2
    <2> QED
      BY <2>1, <2>3
  <1>4. \A y \in CommentIds : y # c => comment'[y] = comment[y]
    BY DEF CommentRows
  <1> QED
    BY <1>2, <1>3, <1>4 DEF CommentRows

LEMMA RowsStep == CommentRows /\ CommentsNext => CommentRows'
  <1> SUFFICES ASSUME CommentRows, CommentsNext PROVE CommentRows'
    OBVIOUS
  <1> USE CommentConstantsOK DEF CommentRows, CommentIds, NoComment, NoStars
  <1>1. ASSUME NEW parent \in 0 .. MaxComments, NEW stars \in Stars \cup {NoStars},
               CreateComment(parent, stars)
        PROVE  CommentRows'
    <2> DEFINE r == [status |-> "PENDING", parent |-> parent, stars |-> stars]
    <2>1. comment' = Append(comment, r) /\ r \in CommentRow
      BY <1>1 DEF CreateComment, CommentRow
    <2>2. r.parent # NoComment => r.stars = NoStars
      BY <1>1 DEF CreateComment
    <2> QED
      BY <2>1, <2>2
  <1>2. ASSUME NEW c, UpdateComment(c)
        PROVE  CommentRows'
    <2>1. comment' = [comment EXCEPT ![c].status = "PENDING"] /\ c \in CommentIds
      BY <1>2 DEF UpdateComment, Existing
    <2> QED
      BY <2>1, StatusWritten
  <1>3. ASSUME NEW c, NEW status \in {"APPROVED", "REJECTED"}, NEW t, ModerateComment(c, status, t)
        PROVE  CommentRows'
    <2>1. comment' = [comment EXCEPT ![c].status = status] /\ c \in CommentIds
      BY <1>3 DEF ModerateComment, Existing
    <2> QED
      BY <2>1, StatusWritten
  <1>4. ASSUME NEW d \in Deletions, DeleteComment(d)
        PROVE  CommentRows'
    <2> DEFINE row(r) == IF deleting[d] \notin Existing THEN comment[r]
                         ELSE IF r = deleting[d] THEN [comment[r] EXCEPT !.status = "deleted"]
                         ELSE IF comment[r].parent = deleting[d] THEN [comment[r] EXCEPT !.parent = NoComment]
                         ELSE comment[r]
    <2>1. comment' = [r \in CommentIds |-> row(r)]
      BY <1>4 DEF DeleteComment
    <2>2. \A r \in CommentIds :
            row(r) \in CommentRow /\ (row(r).parent # NoComment => row(r).stars = NoStars)
      <3> SUFFICES ASSUME NEW r \in CommentIds
                   PROVE  row(r) \in CommentRow /\ (row(r).parent # NoComment => row(r).stars = NoStars)
        OBVIOUS
      <3>1. comment[r] \in CommentRow /\ (comment[r].parent # NoComment => comment[r].stars = NoStars)
        OBVIOUS
      <3>2. PICK x \in CommentRow : x = comment[r]
        BY <3>1
      <3>3. /\ [x EXCEPT !.status = "deleted"] \in CommentRow
            /\ [x EXCEPT !.status = "deleted"].parent = x.parent
            /\ [x EXCEPT !.status = "deleted"].stars = x.stars
        BY DEF CommentRow
      <3>4. [x EXCEPT !.parent = NoComment] \in CommentRow /\ [x EXCEPT !.parent = NoComment].parent = NoComment
        BY DEF CommentRow
      <3> QED
        BY <3>1, <3>2, <3>3, <3>4
    <2> HIDE DEF row
    <2> QED
      BY <2>1, <2>2
  <1>5. CASE UNCHANGED comment
    BY <1>5
  <1> QED
    BY <1>1, <1>2, <1>3, <1>4, <1>5
       DEF CommentsNext, CheckReplies, ReadRatings, WriteRating, RecomputationFails

\* A step that leaves the approved ratings and the recomputations alone.
LEMMA OthersKeep ==
  ASSUME CommentsInv, CommentRows', Current' = Current, recomputing' = recomputing,
         rating' = rating, ratingMissed => ratingMissed'
  PROVE  CommentsInv'
  BY DEF CommentsInv, RecomputationsTyped, ReadsCurrent, RatingComes

\* A change of the approved ratings that no recomputation follows.
LEMMA MissedKeeps ==
  ASSUME CommentsInv, CommentRows', recomputing' = ReadsOvertaken, ratingMissed'
  PROVE  CommentsInv'
  BY AllOvertaken DEF CommentsInv, RecomputationsTyped, ReadsCurrent, RatingComes

LEMMA CommentsStep == CommentsInv /\ CommentsNext => CommentsInv'
  <1> SUFFICES ASSUME CommentsInv, CommentsNext PROVE CommentsInv'
    OBVIOUS
  <1>0. CommentRows /\ CommentRows'
    BY RowsStep DEF CommentsInv
  <1>1. ASSUME NEW parent \in 0 .. MaxComments, NEW stars \in Stars \cup {NoStars},
               CreateComment(parent, stars)
        PROVE  CommentsInv'
    <2>1. CommentIds' = CommentIds \cup {Len(comment) + 1} /\ Len(comment) + 1 \notin CommentIds
      BY <1>0, <1>1 DEF CreateComment, CommentIds, CommentRows
    <2>2. \A c \in CommentIds : comment'[c] = comment[c]
      BY <1>0, <1>1 DEF CreateComment, CommentIds, CommentRows
    <2>3. comment'[Len(comment) + 1].status = "PENDING"
      BY <1>0, <1>1 DEF CreateComment, CommentRows
    <2>4. ApprovedRated' = ApprovedRated
      BY <2>1, <2>2, <2>3 DEF ApprovedRated, Existing
    <2>5. Current' = Current
      BY <1>0, <2>2, <2>4, RatingUnchanged DEF ApprovedRated, Existing
    <2> QED
      BY <1>0, <1>1, <2>5, OthersKeep DEF CreateComment
  <1>2. ASSUME NEW c, UpdateComment(c)
        PROVE  CommentsInv'
    <2>1. CASE c \in ApprovedRated
      <3>1. ratingMissed' = (ratingMissed \/ c \in ApprovedRated)
        BY <1>2 DEF UpdateComment
      <3>2. ratingMissed'
        BY <2>1, <3>1, Zenon
      <3> QED
        BY <1>0, <1>2, <2>1, <3>2, MissedKeeps DEF UpdateComment
    <2>2. CASE c \notin ApprovedRated
      <3>1. c \in CommentIds /\ comment' = [comment EXCEPT ![c].status = "PENDING"]
        BY <1>2 DEF UpdateComment, Existing
      <3>2. /\ CommentIds' = CommentIds /\ comment'[c].status = "PENDING"
            /\ \A x \in CommentIds : x # c => comment'[x] = comment[x]
        <4>1. DOMAIN comment[c] = {"status", "parent", "stars"}
          BY <1>0, <3>1 DEF CommentRows, CommentRow, CommentIds
        <4> QED
          BY <3>1, <4>1 DEF CommentIds
      <3>3. ApprovedRated' = ApprovedRated
        BY <2>2, <3>1, <3>2 DEF ApprovedRated, Existing
      <3>4. Current' = Current
        BY <1>0, <2>2, <3>2, <3>3, RatingUnchanged DEF ApprovedRated, Existing
      <3>5. ratingMissed' = (ratingMissed \/ c \in ApprovedRated)
        BY <1>2 DEF UpdateComment
      <3>6. ratingMissed => ratingMissed'
        BY <3>5, Zenon
      <3> QED
        BY <1>0, <1>2, <2>2, <3>4, <3>6, OthersKeep DEF UpdateComment
    <2> QED
      BY <2>1, <2>2
  <1>3. ASSUME NEW c, NEW status, NEW t \in Recomputations, ModerateComment(c, status, t)
        PROVE  CommentsInv'
    <2>1. /\ recomputing' = [ReadsOvertaken EXCEPT ![t].phase = "read"]
          /\ recomputing[t].phase = "idle"
      BY <1>3 DEF ModerateComment
    <2>2. /\ recomputing' = [s \in Recomputations |-> recomputing'[s]]
          /\ \A s \in Recomputations : DOMAIN recomputing'[s] = {"phase", "read", "overtaken"}
          /\ recomputing'[t].phase = "read"
          /\ \A s \in Recomputations : s # t => recomputing'[s] = ReadsOvertaken[s]
      BY <2>1, AllOvertaken DEF CommentsInv
    <2>3. RecomputationsTyped' /\ RatingComes'
      BY <2>2, AllOvertaken DEF CommentsInv, RecomputationsTyped, RatingComes
    <2>4. ReadsCurrent'
      BY <2>2, AllOvertaken DEF CommentsInv, ReadsCurrent
    <2> QED
      BY <1>0, <2>3, <2>4 DEF CommentsInv
  <1>4. ASSUME NEW d \in Deletions, NEW c, CheckReplies(d, c)
        PROVE  CommentsInv'
    <2>1. Current' = Current
      BY <1>4 DEF CheckReplies, Current, RatingOf, Given, CommentIds, ApprovedRated, Existing
    <2> QED
      BY <1>0, <1>4, <2>1, OthersKeep DEF CheckReplies
  <1>5. ASSUME NEW d \in Deletions, DeleteComment(d)
        PROVE  CommentsInv'
    <2> DEFINE c == deleting[d]
    <2>1. CASE c \in ApprovedRated
      <3>1. ratingMissed' = (ratingMissed \/ c \in ApprovedRated)
        BY <1>5 DEF DeleteComment
      <3>2. ratingMissed'
        BY <2>1, <3>1, Zenon
      <3> QED
        BY <1>0, <1>5, <2>1, <3>2, MissedKeeps DEF DeleteComment
    <2>2. CASE c \notin ApprovedRated
      <3> DEFINE row(r) == IF c \notin Existing THEN comment[r]
                           ELSE IF r = c THEN [comment[r] EXCEPT !.status = "deleted"]
                           ELSE IF comment[r].parent = c THEN [comment[r] EXCEPT !.parent = NoComment]
                           ELSE comment[r]
      <3>0. comment' = [r \in CommentIds |-> row(r)]
        BY <1>5 DEF DeleteComment
      <3>1. CommentIds' = CommentIds /\ \A r \in CommentIds : comment'[r] = row(r)
        <4>1. DOMAIN comment' = CommentIds
          BY <3>0, Zenon
        <4>2. \A r \in CommentIds : comment'[r] = row(r)
          BY <3>0, Zenon
        <4> QED
          BY <4>1, <4>2 DEF CommentIds
      <3>2. \A r \in CommentIds : DOMAIN comment[r] = {"status", "parent", "stars"}
        <4>1. \A r \in CommentIds : comment[r] \in CommentRow
          BY <1>0 DEF CommentRows, CommentIds
        <4> QED
          BY <4>1 DEF CommentRow
      <3>3. \A r \in CommentIds : r # c => comment'[r].status = comment[r].status
                                        /\ comment'[r].stars = comment[r].stars
        BY <3>1, <3>2
      <3>4. c \in CommentIds => comment'[c].status = "deleted" \/ comment'[c] = comment[c]
        BY <3>1, <3>2
      <3>5. ApprovedRated' = ApprovedRated
        BY <2>2, <3>1, <3>3, <3>4 DEF ApprovedRated, Existing
      <3>6. Current' = Current
        BY <1>0, <2>2, <3>3, <3>5, RatingUnchanged DEF ApprovedRated, Existing
      <3>7. ratingMissed' = (ratingMissed \/ c \in ApprovedRated)
        BY <1>5 DEF DeleteComment
      <3>8. ratingMissed => ratingMissed'
        BY <3>7, Zenon
      <3> QED
        BY <1>0, <1>5, <2>2, <3>6, <3>8, OthersKeep DEF DeleteComment
    <2> QED
      BY <2>1, <2>2
  <1>6. ASSUME NEW t \in Recomputations, ReadRatings(t)
        PROVE  CommentsInv'
    <2>1. Current' = Current
      BY <1>6 DEF ReadRatings, Current, RatingOf, Given, CommentIds, ApprovedRated, Existing
    <2>2. recomputing' = [recomputing EXCEPT ![t] =
              [phase |-> "write", read |-> Current, overtaken |-> FALSE]]
      BY <1>6 DEF ReadRatings, Current
    <2>3. /\ DOMAIN recomputing'[t] = {"phase", "read", "overtaken"}
          /\ recomputing'[t].phase = "write" /\ recomputing'[t].read = Current
          /\ \A s \in Recomputations : s # t => recomputing'[s] = recomputing[s]
          /\ recomputing' = [s \in Recomputations |-> recomputing'[s]]
      BY <2>2 DEF CommentsInv, RecomputationsTyped
    <2>4. RecomputationsTyped' /\ RatingComes'
      BY <2>3 DEF CommentsInv, RecomputationsTyped, RatingComes
    <2>5. ReadsCurrent'
      BY <2>1, <2>3 DEF CommentsInv, ReadsCurrent
    <2> QED
      BY <1>0, <2>4, <2>5 DEF CommentsInv
  <1>7. ASSUME NEW t \in Recomputations, WriteRating(t)
        PROVE  CommentsInv'
    <2>1. Current' = Current
      BY <1>7 DEF WriteRating, Current, RatingOf, Given, CommentIds, ApprovedRated, Existing
    <2>2. /\ rating' = recomputing[t].read /\ ratingMissed' = recomputing[t].overtaken
          /\ recomputing' = [recomputing EXCEPT ![t] = IdleRating]
          /\ recomputing[t].phase = "write"
      BY <1>7 DEF WriteRating
    <2>3. ratingMissed' \/ rating' = Current
      BY <2>2 DEF CommentsInv, ReadsCurrent
    <2> QED
      BY <1>0, <2>1, <2>2, <2>3
         DEF CommentsInv, RecomputationsTyped, ReadsCurrent, RatingComes, IdleRating
  <1>8. ASSUME NEW t \in Recomputations, RecomputationFails(t)
        PROVE  CommentsInv'
    <2>1. Current' = Current
      BY <1>8 DEF RecomputationFails, Current, RatingOf, Given, CommentIds, ApprovedRated, Existing
    <2> QED
      BY <1>0, <1>8, <2>1
         DEF RecomputationFails, CommentsInv, RecomputationsTyped, ReadsCurrent, RatingComes, IdleRating
  <1> QED
    BY <1>1, <1>2, <1>3, <1>4, <1>5, <1>6, <1>7, <1>8 DEF CommentsNext

LEMMA TopIsListed == CommentRows => SummarisedRatings \subseteq ListedComments
  <1> SUFFICES ASSUME CommentRows PROVE SummarisedRatings \subseteq ListedComments
    OBVIOUS
  <1> DEFINE approved == {c \in Existing : comment[c].status = "APPROVED"}
             top == {c \in approved : comment[c].parent = NoComment}
             F == [S \in SUBSET approved |-> {c \in approved : comment[c].parent \in S}]
             Level(f) == f = [n \in 0 .. MaxComments |->
                                IF n = 0 THEN top ELSE {c \in approved : comment[c].parent \in f[n - 1]}]
             level == CHOOSE f : Level(f)
  <1>1. \E f : Level(f)
    <2>1. F \in [SUBSET approved -> SUBSET approved] /\ top \in SUBSET approved
      OBVIOUS
    <2>2. PICK f \in [0 .. MaxComments -> SUBSET approved] :
             f = [k \in 0 .. MaxComments |-> IF k = 0 THEN top ELSE F[f[k - 1]]]
      <3>1. PICK T : T = SUBSET approved
        OBVIOUS
      <3>2. PICK G : G = F
        OBVIOUS
      <3>3. PICK x : x = top
        OBVIOUS
      <3>4. PICK m : m = MaxComments
        OBVIOUS
      <3>5. G \in [T -> T] /\ x \in T /\ m \in Nat
        BY <3>1, <3>2, <3>3, <3>4, <2>1, CommentConstantsOK
      <3>6. \E f \in [0 .. m -> T] : f = [k \in 0 .. m |-> IF k = 0 THEN x ELSE G[f[k - 1]]]
        BY <3>5, IterationExists
      <3> HIDE DEF F, top, approved
      <3> QED
        BY <3>1, <3>2, <3>3, <3>4, <3>6
    <2>3. \A n \in 0 .. MaxComments : n # 0 => f[n - 1] \in SUBSET approved
      <3> SUFFICES ASSUME NEW n \in 0 .. MaxComments, n # 0 PROVE f[n - 1] \in SUBSET approved
        OBVIOUS
      <3>1. n - 1 \in 0 .. MaxComments
        BY CommentConstantsOK
      <3> DEFINE T == SUBSET approved
      <3>2. f \in [0 .. MaxComments -> T]
        BY <2>2, Zenon
      <3>3. f[n - 1] \in T
        <4> HIDE DEF T
        <4> QED
          BY <3>1, <3>2
      <3> QED
        BY <3>3
    <2>4. \A n \in 0 .. MaxComments : n # 0 => F[f[n - 1]] = {c \in approved : comment[c].parent \in f[n - 1]}
      <3> HIDE DEF approved
      <3> QED
        BY <2>3
    <2>5. Level(f)
      <3> HIDE DEF F, top, approved
      <3> QED
        BY <2>2, <2>4
    <2> QED
      BY <2>5
  <1>2. Level(level)
    <2> HIDE DEF Level
    <2> QED
      BY <1>1
  <1>3. ListedComments = UNION {level[n] : n \in 0 .. MaxComments}
    BY DEF ListedComments
  <1>4. level[0] = top /\ 0 \in 0 .. MaxComments
    <2> HIDE DEF level, top, approved
    <2> QED
      BY <1>2, CommentConstantsOK
  <1>5. SummarisedRatings \subseteq top
    BY DEF SummarisedRatings
  <1> HIDE DEF level, top
  <1> QED
    BY <1>3, <1>4, <1>5

\* Once recomputations are done, the stars on a product's card are those of the approved
\* comments listed under it, for any number of comments, moderations and recomputations,
\* unless a change was missed (product.service.ts 607-621, comment.service.ts 234-315).
THEOREM RatingsAreCounted == CommentsSpec => []RatingCountsListedComments
  <1>1. CommentsInv /\ UNCHANGED commentsVars => CommentsInv'
    <2> SUFFICES ASSUME CommentsInv, UNCHANGED commentsVars PROVE CommentsInv'
      OBVIOUS
    <2>1. Current' = Current
      BY DEF commentsVars, Current, RatingOf, Given, CommentIds, ApprovedRated, Existing
    <2>2. CommentRows'
      BY DEF commentsVars, CommentsInv, CommentRows, CommentIds
    <2> QED
      BY <2>1, <2>2, OthersKeep DEF commentsVars
  <1>2. CommentsInv /\ [CommentsNext]_commentsVars => CommentsInv'
    BY <1>1, CommentsStep
  <1>3. CommentsInv => RatingCountsListedComments
    <2> SUFFICES ASSUME CommentsInv, \A t \in Recomputations : recomputing[t].phase = "idle", ~ratingMissed
                 PROVE  rating = RatingOf(SummarisedRatings) /\ SummarisedRatings \subseteq ListedComments
      BY DEF RatingCountsListedComments
    <2>1. rating = Current
      BY DEF CommentsInv, RatingComes
    <2>2. SummarisedRatings = ApprovedRated
      BY DEF CommentsInv, CommentRows, SummarisedRatings, ApprovedRated, Existing
    <2> QED
      BY <2>1, <2>2, TopIsListed DEF Current, CommentsInv
  <1> QED
    BY CommentsInitInv, <1>2, <1>3, PTL DEF CommentsSpec
-------------------------------------------------------------------------------

\* Types.

LEMMA ProductsTypes == ProductsInv => ProductsTypeOK
  BY DEF ProductsInv, ProductsTypeOK, RowsKept, SavedRow, VariantsKept, ListingOK

LEMMA RatesTypes == RatesTyping => RatesTypeOK
  BY DEF RatesTyping, RatesTypeOK, SomeRate

ValuesTyped ==
    /\ attribute \in BOOLEAN /\ takenMeanwhile \in BOOLEAN
    /\ attributeValues = [v \in DOMAIN attributeValues |-> attributeValues[v]]
    /\ DOMAIN attributeValues \subseteq (IF attribute THEN ValueIds ELSE {})
    /\ \A v, w \in DOMAIN attributeValues : attributeValues[v] = attributeValues[w] => v = w
    /\ DOMAIN links = DOMAIN comboKeys
    /\ \A s \in DOMAIN links : links[s] \subseteq DOMAIN attributeValues
    /\ \A h \in AttributeRequests :
          attributeReq[h].phase \in {"add", "rename"} => \E v \in ValueIds : attributeReq[h].ids = {v}

LEMMA ValuesTypedInit == AttributesInit => ValuesTyped
  <1> SUFFICES ASSUME AttributesInit PROVE ValuesTyped
    OBVIOUS
  <1>1. PICK given \in {{}, ValueIds} : attributeValues \in [given -> Names] /\ IsInjective(attributeValues)
    BY DEF AttributesInit
  <1>2. /\ attribute = TRUE /\ takenMeanwhile = FALSE /\ links = <<>> /\ comboKeys = <<>>
        /\ \A h \in AttributeRequests : attributeReq[h].phase = "idle"
    BY DEF AttributesInit, IdleAttribute
  <1>3. attributeValues = [v \in DOMAIN attributeValues |-> attributeValues[v]] /\ DOMAIN attributeValues \subseteq ValueIds
    BY <1>1
  <1>4. \A v, w \in DOMAIN attributeValues : attributeValues[v] = attributeValues[w] => v = w
    BY <1>1 DEF IsInjective
  <1>5. DOMAIN links = {} /\ DOMAIN comboKeys = {}
    BY <1>2
  <1>6. \A h \in AttributeRequests : ~(attributeReq[h].phase \in {"add", "rename"})
    BY <1>2
  <1>7. attribute \in BOOLEAN /\ takenMeanwhile \in BOOLEAN
    BY <1>2
  <1>8. DOMAIN attributeValues \subseteq (IF attribute THEN ValueIds ELSE {})
    BY <1>2, <1>3
  <1>9. \A s \in DOMAIN links : links[s] \subseteq DOMAIN attributeValues
    BY <1>5
  <1>10. DOMAIN links = DOMAIN comboKeys
    BY <1>5
  <1>11. \A h \in AttributeRequests :
            attributeReq[h].phase \in {"add", "rename"} => \E v \in ValueIds : attributeReq[h].ids = {v}
    BY <1>6
  <1> QED
    BY <1>3, <1>4, <1>7, <1>8, <1>9, <1>10, <1>11, Zenon DEF ValuesTyped

LEMMA ValuesTypedAsk ==
  ASSUME AttributesInv, ValuesTyped, NEW h \in AttributeRequests, NEW request, Ask(h, request),
         request.phase \in {"add", "rename"} => \E v \in ValueIds : request.ids = {v}
  PROVE  ValuesTyped'
  BY DEF Ask, ValuesTyped, AttributesInv, HandlersTyped

LEMMA ValuesTypedStep == AttributesInv /\ ValuesTyped /\ AttributesNext => ValuesTyped'
  <1> SUFFICES ASSUME AttributesInv, ValuesTyped, NEW h \in AttributeRequests,
                      \/ \E v \in ValueIds, name \in Names :
                            AddAttributeValue(h, v, name) \/ UpdateAttributeValue(h, v, name)
                      \/ \E v \in ValueIds : DeleteAttributeValue(h, v)
                      \/ DeleteAttribute(h)
                      \/ \E s \in ComboSkus, ids \in SUBSET ValueIds : SaveCombination(h, s, ids)
                      \/ WriteValue(h) \/ WriteValueDeletion(h) \/ WriteCombination(h) \/ AttributeRefused(h)
               PROVE  ValuesTyped'
    BY Zenon DEF AttributesNext
  <1> DEFINE r == attributeReq[h]
  <1>0. LinksOK /\ HandlersTyped
    BY DEF AttributesInv
  <1>1. ASSUME NEW v \in ValueIds, NEW name, AddAttributeValue(h, v, name) \/ UpdateAttributeValue(h, v, name)
        PROVE  ValuesTyped'
    BY <1>1, ValuesTypedAsk DEF AddAttributeValue, UpdateAttributeValue, IdleAttribute
  <1>2. ASSUME NEW v, DeleteAttributeValue(h, v) PROVE ValuesTyped'
    BY <1>2, ValuesTypedAsk DEF DeleteAttributeValue, IdleAttribute
  <1>3. CASE DeleteAttribute(h)
    BY <1>3, ValuesTypedAsk DEF DeleteAttribute, IdleAttribute
  <1>4. ASSUME NEW s, NEW ids, SaveCombination(h, s, ids) PROVE ValuesTyped'
    BY <1>4, ValuesTypedAsk DEF SaveCombination, IdleAttribute
  <1>5. CASE WriteValue(h)
    <2>1. PICK v \in ValueIds : r.ids = {v}
      BY <1>5 DEF WriteValue, ValuesTyped
    <2>2. /\ DOMAIN attributeValues' = DOMAIN attributeValues \cup {v}
          /\ attributeValues' = [w \in DOMAIN attributeValues' |-> attributeValues'[w]]
          /\ attributeValues'[v] = r.name
          /\ \A w \in DOMAIN attributeValues \ {v} : attributeValues'[w] = attributeValues[w] /\ attributeValues[w] # r.name
          /\ UNCHANGED <<attribute, links, comboKeys, takenMeanwhile>>
          /\ attributeReq' = [attributeReq EXCEPT ![h] = IdleAttribute]
      BY <1>5, <2>1 DEF WriteValue, ValueWritable, NameFree, Answered
    <2>3. attribute
      BY <1>5, <2>1, Zenon DEF WriteValue, ValueWritable, ValuesTyped
    <2>4. attribute = TRUE
      BY <2>3 DEF ValuesTyped
    <2>5. \A w, x \in DOMAIN attributeValues' : attributeValues'[w] = attributeValues'[x] => w = x
      <3> HIDE DEF r
      <3> QED
        BY <2>2 DEF ValuesTyped
    <2>6. \A g \in AttributeRequests :
            attributeReq'[g].phase \in {"add", "rename"} => \E w \in ValueIds : attributeReq'[g].ids = {w}
      BY <1>0, <2>2 DEF ValuesTyped, HandlersTyped, IdleAttribute
    <2>7. DOMAIN attributeValues' \subseteq ValueIds /\ attribute' = TRUE
      BY <2>2, <2>4 DEF ValuesTyped
    <2>8. DOMAIN links' = DOMAIN comboKeys' /\ (\A s \in DOMAIN links' : links'[s] \subseteq DOMAIN attributeValues')
      BY <2>2 DEF ValuesTyped
    <2> QED
      BY <2>2, <2>5, <2>6, <2>7, <2>8 DEF ValuesTyped
  <1>6. CASE WriteValueDeletion(h)
    <2> DEFINE gone == IF r.phase = "deleteAll" THEN DOMAIN attributeValues ELSE r.ids
               over == takenMeanwhile \/ r.overtaken
               stays == attribute /\ r.phase # "deleteAll"
    <2>1. /\ links' = [s \in DOMAIN links |-> links[s] \ gone] /\ comboKeys' = comboKeys
          /\ attributeValues' = [v \in DOMAIN attributeValues \ gone |-> attributeValues[v]]
          /\ attributeReq' = [attributeReq EXCEPT ![h] = IdleAttribute]
      BY <1>6 DEF WriteValueDeletion, CascadedLinks, Restrict, Answered
    <2>2. takenMeanwhile' \in BOOLEAN /\ attribute' \in BOOLEAN
      <3>1. takenMeanwhile' = over /\ attribute' = stays
        BY <1>6 DEF WriteValueDeletion
      <3>2. over \in BOOLEAN /\ stays \in BOOLEAN
        OBVIOUS
      <3> HIDE DEF over, stays
      <3> QED
        BY <3>1, <3>2
    <2>3. DOMAIN attributeValues' \subseteq (IF attribute' THEN ValueIds ELSE {})
      <3>1. CASE r.phase = "deleteAll"
        BY <2>1, <3>1
      <3>2. CASE r.phase # "deleteAll"
        <4>1. attribute' = (attribute /\ r.phase # "deleteAll")
          BY <1>6 DEF WriteValueDeletion
        <4>2. attribute' <=> attribute
          BY <3>2, <4>1, Zenon
        <4>3. DOMAIN attributeValues' \subseteq DOMAIN attributeValues
          BY <2>1
        <4> QED
          BY <4>2, <4>3 DEF ValuesTyped
      <3> QED
        BY <3>1, <3>2
    <2>4. \A v, w \in DOMAIN attributeValues' : attributeValues'[v] = attributeValues'[w] => v = w
      <3> HIDE DEF gone
      <3> QED
        BY <2>1 DEF ValuesTyped
    <2>5. DOMAIN links' = DOMAIN comboKeys' /\ (\A s \in DOMAIN links' : links'[s] \subseteq DOMAIN attributeValues')
      <3> HIDE DEF gone
      <3> QED
        BY <2>1 DEF ValuesTyped
    <2>6. \A g \in AttributeRequests :
            attributeReq'[g].phase \in {"add", "rename"} => \E w \in ValueIds : attributeReq'[g].ids = {w}
      BY <1>0, <2>1 DEF ValuesTyped, HandlersTyped, IdleAttribute
    <2>7. attributeValues' = [v \in DOMAIN attributeValues' |-> attributeValues'[v]]
      BY <2>1
    <2> QED
      BY <2>2, <2>3, <2>4, <2>5, <2>6, <2>7 DEF ValuesTyped
  <1>7. CASE WriteCombination(h)
    <2>1. /\ links' = [s \in DOMAIN links \cup {r.sku} |-> IF s = r.sku THEN r.ids ELSE links[s]]
          /\ DOMAIN comboKeys' = DOMAIN links'
          /\ UNCHANGED <<attribute, attributeValues, takenMeanwhile>>
          /\ r.ids \subseteq DOMAIN attributeValues
      BY <1>7 DEF WriteCombination, CombinationWritable
    <2>2. ASSUME NEW g \in AttributeRequests
          PROVE  attributeReq'[g].phase \in {"add", "rename"} => \E w \in ValueIds : attributeReq'[g].ids = {w}
      <3>1. CASE g = h
        BY <1>7, <3>1 DEF WriteCombination, IdleAttribute
      <3>2. CASE g # h
        <4>1. /\ attributeReq'[g].phase = attributeReq[g].phase
              /\ attributeReq'[g].ids = attributeReq[g].ids
          <5> DEFINE seen == \/ attributeReq[g].overtaken
                             \/ attributeReq[g].phase = "deleteAll" /\ r.ids # {}
                             \/ attributeReq[g].phase = "delete" /\ attributeReq[g].ids \cap r.ids # {}
          <5>1. attributeReq'[g] = [attributeReq[g] EXCEPT !.overtaken = seen]
            BY <1>7, <3>2, Zenon DEF WriteCombination
          <5>2. DOMAIN attributeReq[g] = {"phase", "ids", "name", "sku", "overtaken"}
            BY <1>0 DEF HandlersTyped
          <5> HIDE DEF seen
          <5> QED
            BY <5>1, <5>2
        <4> QED
          BY <4>1 DEF ValuesTyped
      <3> QED
        BY <3>1, <3>2
    <2>3. \A s \in DOMAIN links' : links'[s] \subseteq DOMAIN attributeValues'
      BY <2>1 DEF ValuesTyped
    <2> QED
      BY <2>1, <2>2, <2>3 DEF ValuesTyped
  <1>8. CASE AttributeRefused(h)
    <2>1. /\ attributeReq' = [attributeReq EXCEPT ![h] = IdleAttribute]
          /\ UNCHANGED <<attribute, attributeValues, links, comboKeys, takenMeanwhile>>
      BY <1>8, Zenon DEF AttributeRefused, Answered
    <2> QED
      BY <1>0, <2>1 DEF ValuesTyped, HandlersTyped, IdleAttribute
  <1> QED
    BY <1>1, <1>2, <1>3, <1>4, <1>5, <1>6, <1>7, <1>8

LEMMA AttributesTypes == ValuesTyped => AttributesTypeOK
  BY DEF ValuesTyped, AttributesTypeOK, IsInjective

LEMMA SumAtLeastCount ==
  ASSUME NEW f, NEW S, IsFiniteSet(S), \A x \in S : f[x] \in Nat \ {0}
  PROVE  SumFunctionOnSet(f, S) >= Cardinality(S)
  <1> DEFINE G == {s \in SUBSET S : SumFunctionOnSet(f, s) >= Cardinality(s)}
  <1>1. ASSUME NEW s \in SUBSET S, \A u \in SUBSET s : u # s => u \in G PROVE s \in G
    <2>0. IsFiniteSet(s) /\ SumFunctionOnSet(f, s) \in Nat
      BY FS_Subset, SumNat
    <2>1. CASE s = {}
      BY <2>1, SumEmpty, FS_EmptySet
    <2>2. ASSUME NEW y \in s PROVE s \in G
      <3>1. s \ {y} \in G
        BY <1>1
      <3>2. SumFunctionOnSet(f, s) = f[y] + SumFunctionOnSet(f, s \ {y})
        BY <2>0, SumRemove
      <3>3. Cardinality(s) = Cardinality(s \ {y}) + 1 /\ Cardinality(s) \in Nat /\ IsFiniteSet(s \ {y})
        <4>1. IsFiniteSet(s \ {y}) /\ Cardinality(s \ {y}) = Cardinality(s) - 1
          BY <2>0, FS_RemoveElement
        <4>2. Cardinality(s) \in Nat
          BY <2>0, FS_CardinalityType
        <4> QED
          BY <4>1, <4>2
      <3>4. SumFunctionOnSet(f, s \ {y}) \in Nat /\ Cardinality(s \ {y}) \in Nat
        BY <3>3, SumNat, FS_CardinalityType
      <3>5. f[y] >= 1 /\ f[y] \in Nat /\ SumFunctionOnSet(f, s \ {y}) >= Cardinality(s \ {y})
        BY <3>1
      <3>6. SumFunctionOnSet(f, s) >= Cardinality(s)
        BY <3>2, <3>3, <3>4, <3>5
      <3> QED
        BY <3>6
    <2> QED
      BY <2>1, <2>2
  <1>2. S \in G
    <2> HIDE DEF G
    <2> QED
      BY <1>1, SubsetInduction
  <1> QED
    BY <1>2

Plausible(r) == r.sum \in Nat /\ r.count \in Nat /\ r.sum >= r.count

CommentsTyped ==
    /\ Len(comment) <= MaxComments
    /\ \A c \in CommentIds : comment[c].parent \in 0 .. c - 1
    /\ Plausible(rating)
    /\ \A t \in Recomputations : recomputing[t].phase = "write" => Plausible(recomputing[t].read)

LEMMA CurrentPlausible == CommentRows => Plausible(Current)
  <1> SUFFICES ASSUME CommentRows PROVE Plausible(Current)
    OBVIOUS
  <1>1. IsFiniteSet(ApprovedRated)
    <2>1. PICK n \in Nat : CommentIds = 1 .. n
      BY DEF CommentRows, CommentIds
    <2>2. IsFiniteSet(1 .. n)
      BY <2>1, FS_Interval
    <2>3. ApprovedRated \subseteq 1 .. n
      BY <2>1 DEF ApprovedRated, Existing
    <2> QED
      BY <2>2, <2>3, FS_Subset
  <1>2. PICK f : f = [c \in CommentIds |-> comment[c].stars]
    OBVIOUS
  <1>3. ASSUME NEW c \in ApprovedRated PROVE f[c] \in Nat \ {0}
    <2>1. c \in CommentIds /\ comment[c].stars # 0
      BY DEF ApprovedRated, Existing, NoStars
    <2>2. comment[c] \in CommentRow
      BY <2>1 DEF CommentRows, CommentIds
    <2> QED
      BY <1>2, <2>1, <2>2 DEF CommentRow
  <1>4. /\ SumFunctionOnSet(f, ApprovedRated) >= Cardinality(ApprovedRated)
        /\ SumFunctionOnSet(f, ApprovedRated) \in Nat /\ Cardinality(ApprovedRated) \in Nat
    BY <1>1, <1>3, SumAtLeastCount, SumNat, FS_CardinalityType
  <1>5. Current = [sum |-> SumFunctionOnSet(f, ApprovedRated), count |-> Cardinality(ApprovedRated)]
    BY <1>2 DEF Current, RatingOf, Given
  <1> QED
    BY <1>4, <1>5 DEF Plausible

LEMMA CommentsTypedInit == CommentsInit => CommentsTyped
  BY CommentConstantsOK DEF CommentsInit, CommentsTyped, CommentIds, Plausible, NoRating, IdleRating

LEMMA CommentsTypedStep == CommentsInv /\ CommentsTyped /\ CommentsNext => CommentsTyped'
  <1> SUFFICES ASSUME CommentsInv, CommentsTyped, CommentsNext PROVE CommentsTyped'
    OBVIOUS
  <1>0. CommentRows /\ CommentRows' /\ RecomputationsTyped
    BY RowsStep DEF CommentsInv
  <1>1. ASSUME NEW parent \in 0 .. MaxComments, NEW stars, CreateComment(parent, stars)
        PROVE  CommentsTyped'
    <2> DEFINE row == [status |-> "PENDING", parent |-> parent, stars |-> stars]
    <2>1. comment' = Append(comment, row) /\ Len(comment) < MaxComments /\ parent \in CommentIds \cup {0}
      BY <1>1 DEF CreateComment, Existing, NoComment
    <2>2. comment \in Seq(CommentRow) /\ CommentIds = 1 .. Len(comment) /\ Len(comment) \in Nat
      BY <1>0 DEF CommentRows, CommentIds
    <2>3. row.parent = parent
      OBVIOUS
    <2> HIDE DEF row
    <2>4. /\ Len(comment') = Len(comment) + 1 /\ CommentIds' = 1 .. Len(comment) + 1
          /\ comment'[Len(comment) + 1] = row
          /\ \A c \in 1 .. Len(comment) : comment'[c] = comment[c]
      BY <2>1, <2>2 DEF CommentIds
    <2>5. UNCHANGED <<rating, recomputing>>
      BY <1>1 DEF CreateComment
    <2>6. \A c \in 1 .. Len(comment) + 1 : comment'[c].parent \in 0 .. c - 1
      <3>1. \A c \in 1 .. Len(comment) : comment'[c].parent \in 0 .. c - 1
        BY <2>2, <2>4 DEF CommentsTyped
      <3>2. parent \in 0 .. Len(comment)
        BY <2>1, <2>2
      <3> QED
        BY <2>2, <2>3, <2>4, <3>1, <3>2
    <2>7. Len(comment') <= MaxComments
      BY <2>1, <2>2, <2>4, CommentConstantsOK
    <2> QED
      BY <2>4, <2>5, <2>6, <2>7 DEF CommentsTyped
  <1>2. ASSUME NEW c \in Existing, NEW status, comment' = [comment EXCEPT ![c].status = status],
               rating' = rating,
               \A t \in Recomputations : recomputing'[t].phase = "write" =>
                    recomputing[t].phase = "write" /\ recomputing'[t].read = recomputing[t].read
        PROVE  CommentsTyped'
    <2>1. c \in CommentIds /\ DOMAIN comment[c] = {"status", "parent", "stars"} /\ comment \in Seq(CommentRow)
      <3>1. c \in CommentIds /\ comment \in Seq(CommentRow)
        BY <1>0 DEF Existing, CommentRows
      <3>2. comment[c] \in CommentRow
        BY <3>1 DEF CommentIds
      <3> QED
        BY <3>1, <3>2 DEF CommentRow
    <2>2. /\ CommentIds' = CommentIds /\ Len(comment') = Len(comment)
          /\ \A x \in CommentIds : comment'[x].parent = comment[x].parent
      <3>1. CommentIds' = CommentIds /\ comment'[c].parent = comment[c].parent
        BY <1>2, <2>1 DEF CommentIds
      <3>2. Len(comment') = Len(comment)
        BY <1>0, <2>1, <3>1 DEF CommentIds, CommentRows
      <3>3. \A x \in CommentIds : x # c => comment'[x] = comment[x]
        BY <1>2 DEF CommentIds
      <3> QED
        BY <3>1, <3>2, <3>3
    <2> QED
      BY <1>2, <2>2 DEF CommentsTyped
  <1>3. \A t \in Recomputations : ReadsOvertaken[t].phase = recomputing[t].phase
                                  /\ ReadsOvertaken[t].read = recomputing[t].read
    <2> SUFFICES ASSUME NEW t \in Recomputations
                 PROVE  ReadsOvertaken[t].phase = recomputing[t].phase /\ ReadsOvertaken[t].read = recomputing[t].read
      OBVIOUS
    <2> DEFINE over == recomputing[t].overtaken \/ recomputing[t].phase = "write"
    <2>1. ReadsOvertaken[t] = [recomputing[t] EXCEPT !.overtaken = over]
      BY Zenon DEF ReadsOvertaken
    <2>2. DOMAIN recomputing[t] = {"phase", "read", "overtaken"}
      BY <1>0 DEF RecomputationsTyped
    <2> HIDE DEF over
    <2> QED
      BY <2>1, <2>2
  <1>4. ASSUME NEW c, UpdateComment(c) PROVE CommentsTyped'
    <2>1. recomputing' = ReadsOvertaken \/ recomputing' = recomputing
      BY <1>4 DEF UpdateComment
    <2> QED
      BY <1>2, <1>3, <1>4, <2>1 DEF UpdateComment
  <1>5. ASSUME NEW c, NEW status, NEW t \in Recomputations, ModerateComment(c, status, t) PROVE CommentsTyped'
    <2>1. \A s \in Recomputations : recomputing'[s].phase = "write" =>
                    recomputing[s].phase = "write" /\ recomputing'[s].read = recomputing[s].read
      <3>1. recomputing' = [ReadsOvertaken EXCEPT ![t].phase = "read"]
        BY <1>5 DEF ModerateComment
      <3>2. /\ recomputing'[t].phase = "read"
            /\ \A s \in Recomputations : s # t => recomputing'[s] = ReadsOvertaken[s]
        BY <1>0, <3>1, AllOvertaken
      <3> QED
        BY <1>3, <3>2
    <2> QED
      BY <1>2, <1>5, <2>1 DEF ModerateComment
  <1>6. ASSUME NEW d \in Deletions, DeleteComment(d) PROVE CommentsTyped'
    <2> DEFINE c == deleting[d]
               row(r) == IF c \notin Existing THEN comment[r]
                         ELSE IF r = c THEN [comment[r] EXCEPT !.status = "deleted"]
                         ELSE IF comment[r].parent = c THEN [comment[r] EXCEPT !.parent = NoComment]
                         ELSE comment[r]
    <2>0. comment' = [r \in CommentIds |-> row(r)]
      BY <1>6 DEF DeleteComment
    <2>1. CommentIds' = CommentIds /\ \A r \in CommentIds : comment'[r] = row(r)
      <3>1. DOMAIN comment' = CommentIds
        BY <2>0, Zenon
      <3>2. \A r \in CommentIds : comment'[r] = row(r)
        BY <2>0, Zenon
      <3> QED
        BY <3>1, <3>2 DEF CommentIds
    <2>2. \A r \in CommentIds : DOMAIN comment[r] = {"status", "parent", "stars"} /\ r \in Nat \ {0}
      <3>1. \A r \in CommentIds : comment[r] \in CommentRow /\ r \in Nat \ {0}
        BY <1>0 DEF CommentRows, CommentIds
      <3> QED
        BY <3>1 DEF CommentRow
    <2>3. \A r \in CommentIds : comment'[r].parent = comment[r].parent \/ comment'[r].parent = 0
      BY <2>1, <2>2 DEF NoComment
    <2>4. \A r \in CommentIds' : comment'[r].parent \in 0 .. r - 1
      BY <2>1, <2>2, <2>3 DEF CommentsTyped
    <2>5. Len(comment') = Len(comment)
      BY <1>0, <2>1 DEF CommentIds, CommentRows
    <2>6. recomputing' = ReadsOvertaken \/ recomputing' = recomputing
      BY <1>6 DEF DeleteComment
    <2>7. rating' = rating
      BY <1>6 DEF DeleteComment
    <2>8. \A t \in Recomputations : recomputing'[t].phase = "write" => Plausible(recomputing'[t].read)
      BY <1>3, <2>6 DEF CommentsTyped
    <2> HIDE DEF row
    <2> QED
      BY <2>4, <2>5, <2>7, <2>8 DEF CommentsTyped, Plausible
  <1>7. ASSUME NEW t \in Recomputations, ReadRatings(t) PROVE CommentsTyped'
    <2>1. recomputing' = [recomputing EXCEPT ![t] =
              [phase |-> "write", read |-> Current, overtaken |-> FALSE]]
      BY <1>7 DEF ReadRatings, Current
    <2>2. recomputing'[t].read = Current /\ \A s \in Recomputations : s # t => recomputing'[s] = recomputing[s]
      BY <1>0, <2>1 DEF RecomputationsTyped
    <2>3. Plausible(Current)
      BY <1>0, CurrentPlausible
    <2>4. \A s \in Recomputations : recomputing'[s].phase = "write" => Plausible(recomputing'[s].read)
      BY <2>2, <2>3 DEF CommentsTyped
    <2>5. UNCHANGED <<comment, rating>>
      BY <1>7 DEF ReadRatings
    <2> QED
      BY <2>4, <2>5 DEF CommentsTyped, CommentIds, Plausible
  <1>8. ASSUME NEW t \in Recomputations, WriteRating(t) \/ RecomputationFails(t) PROVE CommentsTyped'
    <2>1. recomputing' = [recomputing EXCEPT ![t] = IdleRating] /\ comment' = comment
      BY <1>8 DEF WriteRating, RecomputationFails
    <2>2. Plausible(rating')
      BY <1>8 DEF WriteRating, RecomputationFails, CommentsTyped
    <2>3. \A s \in Recomputations : recomputing'[s].phase = "write" => Plausible(recomputing'[s].read)
      BY <1>0, <2>1 DEF CommentsTyped, RecomputationsTyped, IdleRating
    <2> QED
      BY <2>1, <2>2, <2>3 DEF CommentsTyped, CommentIds
  <1>9. ASSUME NEW d, NEW c, CheckReplies(d, c) PROVE CommentsTyped'
    BY <1>9 DEF CheckReplies, CommentsTyped, CommentIds, Plausible
  <1> QED
    BY <1>1, <1>4, <1>5, <1>6, <1>7, <1>8, <1>9 DEF CommentsNext

LEMMA CommentsTypes == CommentsTyped => CommentsTypeOK
  BY DEF CommentsTyped, CommentsTypeOK, Plausible

-------------------------------------------------------------------------------
\* A behaviour of the catalog is one of each of its parts, which stutter unless it is theirs.
LEMMA PartsBehave == CatalogSpec => ProductsSpec /\ RatesSpec /\ CommentsSpec /\ AttributesSpec
  <1>1. CatalogInit => ProductsInit /\ RatesInit /\ CommentsInit /\ AttributesInit
    BY DEF CatalogInit
  <1>2. [CatalogNext]_catalogVars =>
            /\ [ProductsNext]_productsVars /\ [RatesNext]_ratesVars
            /\ [CommentsNext]_commentsVars /\ [AttributesNext]_attributesVars
    BY DEF CatalogNext, catalogVars
  <1> QED
    BY <1>1, <1>2, PTL DEF CatalogSpec, ProductsSpec, RatesSpec, CommentsSpec, AttributesSpec

\* Every row keeps its type: no stock or price below zero, every rate one that was given,
\* every comment's parent older than it, no attribute's value left behind by it.
THEOREM CatalogTypes == CatalogSpec => []CatalogTypeOK
  <1>1. RatesSpec => []RatesTyping
    <2>1. RatesInit => RatesTyping
      BY RatesInitInv DEF RatesInv
    <2>2. RatesTyping /\ UNCHANGED ratesVars => RatesTyping'
      BY DEF RatesTyping, ratesVars, rateHistories
    <2>3. RatesTyping /\ [RatesNext]_ratesVars => RatesTyping'
      BY <2>2, RatesTypingStep
    <2> QED
      BY <2>1, <2>3, PTL DEF RatesSpec
  <1>2. AttributesSpec => []ValuesTyped
    <2>1. AttributesInv /\ ValuesTyped /\ UNCHANGED attributesVars => (AttributesInv /\ ValuesTyped)'
      BY DEF AttributesInv, LinksOK, HandlersTyped, DeletionOK, ValuesKept, ValuesTyped, attributesVars
    <2>2. AttributesInv /\ ValuesTyped /\ [AttributesNext]_attributesVars => (AttributesInv /\ ValuesTyped)'
      BY <2>1, AttributesStep, ValuesTypedStep
    <2> QED
      BY AttributesInitInv, ValuesTypedInit, <2>2, PTL DEF AttributesSpec
  <1>3. CommentsSpec => []CommentsTyped
    <2>1. CommentsInv /\ CommentsTyped /\ UNCHANGED commentsVars => (CommentsInv /\ CommentsTyped)'
      <3> SUFFICES ASSUME CommentsInv, CommentsTyped, UNCHANGED commentsVars PROVE (CommentsInv /\ CommentsTyped)'
        OBVIOUS
      <3>1. Current' = Current
        BY DEF commentsVars, Current, RatingOf, Given, CommentIds, ApprovedRated, Existing
      <3>2. CommentRows'
        BY DEF commentsVars, CommentsInv, CommentRows, CommentIds
      <3>3. CommentsInv'
        BY <3>1, <3>2, OthersKeep DEF commentsVars
      <3>4. CommentsTyped'
        BY DEF CommentsTyped, CommentIds, Plausible, commentsVars
      <3> QED
        BY <3>3, <3>4
    <2>2. CommentsInv /\ CommentsTyped /\ [CommentsNext]_commentsVars => (CommentsInv /\ CommentsTyped)'
      BY <2>1, CommentsStep, CommentsTypedStep
    <2> QED
      BY CommentsInitInv, CommentsTypedInit, <2>2, PTL DEF CommentsSpec
  <1>4. ProductsInv /\ RatesTyping /\ CommentsTyped /\ ValuesTyped => CatalogTypeOK
    BY ProductsTypes, RatesTypes, CommentsTypes, AttributesTypes DEF CatalogTypeOK
  <1> QED
    BY PartsBehave, ProductsInvHolds, <1>1, <1>2, <1>3, <1>4, PTL

\* No two variants of a product are the same choice of values, no ordered variant goes away and
\* no counted value is taken from a variant, but by a deletion the variant overtook: for any
\* number of SKUs, values and administrators (product-variant.service.ts 12-41, 145-163).
THEOREM VariantsAreSound == CatalogSpec => []VariantsSound
  <1>1. VariantsKept /\ ValuesKept => VariantsSound
    BY DEF VariantsSound
  <1> QED
    BY PartsBehave, CombinationsAreUnique, ValuesAreKept, <1>1, PTL

===============================================================================
