------------------------------- MODULE Products -------------------------------
(***************************************************************************)
(* A product, its variants and its listing: the price range and the flags  *)
(* kept on the product's row, recomputed after each change in statements   *)
(* of their own, so that changes and recomputations interleave.            *)
(***************************************************************************)
EXTENDS Integers, FiniteSets, Sequences, FiniteSetsExt, Functions, Pricing

CONSTANTS
    Skus,              \* a variant is known by its SKU, which is unique
    VariantRows,       \* what an administrator may save as a variant
    NewProducts,       \* the <<SKU, variant>> sequences a product may be created with
    ProductTerms,      \* what she may save as the product's price and discount
    CatalogRequests,   \* requests that can be in flight together
    RefreshJob,        \* and the job of the one server that holds its lock
    MaxEdits,          \* bound: changes of the product and its variants
    NoProduct

\* What validation lets an administrator save, where no modifier takes a price below zero
\* (nothing in the code keeps her from entering one that does).
SavedRow(row) ==
    /\ DOMAIN row = {"combo", "stock", "isDefault", "isActive", "terms"}
    /\ row.stock \in Nat
    /\ \A p \in ProductTerms : ListedPrice(p, 1, row.terms) \in Nat

ASSUME ProductConstantsOK ==
    /\ IsFiniteSet(Skus) /\ NoProduct \notin ProductTerms /\ RefreshJob \notin CatalogRequests
    /\ \A row \in VariantRows : SavedRow(row)
    /\ \A new \in NewProducts : \A i \in DOMAIN new : new[i][1] \in Skus /\ SavedRow(new[i][2])

VARIABLES
    product,           \* the Product row's terms, or NoProduct
    variants,          \* the ProductVariant rows, by SKU
    ordered,           \* the SKUs some order item refers to
    listing,           \* minPrice, maxPrice, isInStock, hasActiveDiscount
    catalogReq,        \* the handlers in flight
    edits,             \* bound: how many changes there were
    missed             \* history: a change whose recomputation was lost or is outdated

CatalogHandlers == CatalogRequests \cup {RefreshJob}

productsVars == <<product, variants, ordered, listing, catalogReq, edits, missed>>
-------------------------------------------------------------------------------
NoListing == [minPrice |-> 0, maxPrice |-> 0, isInStock |-> FALSE, hasActiveDiscount |-> FALSE]

HasActiveDiscount(p) == p.discountType # "none" /\ p.discountValue > 0

\* One rate is enough here; ExchangeRates has the rest.
PriceOf(p, row) == ListedPrice(p, 1, row.terms)

ActiveSkus(rows) == {s \in DOMAIN rows : rows[s].isActive}

\* Faulty: variants that are not for sale count.
ListingOfAll(p, rows) ==
    LET prices == {PriceOf(p, rows[s]) : s \in DOMAIN rows}
    IN  IF prices = {} THEN NoListing
        ELSE [minPrice |-> Min(prices), maxPrice |-> Max(prices),
              isInStock |-> \E s \in DOMAIN rows : rows[s].stock > 0,
              hasActiveDiscount |-> HasActiveDiscount(p)]

\* What recomputeProductAggregates writes.
AggregatesOf(p, rows) ==
    LET active == ActiveSkus(rows)
        prices == {PriceOf(p, rows[s]) : s \in active}
    IN  IF active = {} THEN NoListing
        ELSE [minPrice |-> Min(prices), maxPrice |-> Max(prices),
              isInStock |-> \E s \in active : rows[s].stock > 0,
              hasActiveDiscount |-> HasActiveDiscount(p)]

\* The first variant marked as default, or else the first, is the default.
NormalizeDefaultFlag(rows) ==
    LET marked == {i \in DOMAIN rows : rows[i].isDefault}
        default == IF marked = {} THEN 1 ELSE Min(marked)
    IN  [i \in DOMAIN rows |-> [rows[i] EXCEPT !.isDefault = (i = default)]]

\* No two variants with one SKU or one combination.
ValidateVariantsInput(new) ==
    /\ IsInjective([i \in DOMAIN new |-> new[i][1]])
    /\ IsInjective([i \in DOMAIN new |-> new[i][2].combo])

AnyTerms == CHOOSE p \in ProductTerms : TRUE

IdleRequest == [phase |-> "idle", op |-> "none", sku |-> "none",
                row |-> CHOOSE row \in VariantRows : TRUE,
                terms |-> AnyTerms, computed |-> NoListing, overtaken |-> FALSE]

\* createProduct: the rows and their recomputation; nobody knows the product before.
ProductsInit ==
    /\ product \in ProductTerms
    /\ \E new \in NewProducts :
          /\ ValidateVariantsInput(new)
          /\ variants = [s \in {new[i][1] : i \in DOMAIN new} |->
                NormalizeDefaultFlag([i \in DOMAIN new |-> new[i][2]])
                    [CHOOSE i \in DOMAIN new : new[i][1] = s]]
    /\ ordered = {}
    /\ listing = AggregatesOf(product, variants)
    /\ catalogReq = [h \in CatalogHandlers |-> IdleRequest]
    /\ edits = 0
    /\ missed = FALSE
-------------------------------------------------------------------------------
Begin(h, request) == catalogReq' = [catalogReq EXCEPT ![h] = request]

Refuse(h) == catalogReq' = [catalogReq EXCEPT ![h] = IdleRequest]

\* A change: the request goes on with recomputeProductAggregates, and every other
\* one that has read in one of the phases "late" works with outdated rows.
Changed(h, late) ==
    /\ edits' = edits + 1
    /\ catalogReq' = [g \in CatalogHandlers |->
            IF g = h THEN [IdleRequest EXCEPT !.phase = "product"]
            ELSE [catalogReq[g] EXCEPT !.overtaken = @ \/ catalogReq[g].phase \in late]]

ComboTaken(combo, others) == \E s \in others : variants[s].combo = combo

\* addVariant and updateVariant: SKU and combination are checked first; the check
\* of the combination skips a variant without attributes.
SaveVariant(h, s, row) ==
    LET op == IF s \in DOMAIN variants THEN "update" ELSE "add"
    IN  /\ catalogReq[h].phase = "idle" /\ edits < MaxEdits
        /\ product # NoProduct
        /\ row.combo # {} => ~ComboTaken(row.combo, DOMAIN variants \ {s})
        /\ Begin(h, [IdleRequest EXCEPT !.phase = IF row.isDefault THEN "clear" ELSE "save",
                                        !.op = op, !.sku = s, !.row = row])
        /\ UNCHANGED <<product, variants, ordered, listing, edits, missed>>

ClearDefaults(h) ==
    LET r == catalogReq[h]
    IN  /\ r.phase = "clear"
        /\ variants' = [s \in DOMAIN variants |->
                [variants[s] EXCEPT !.isDefault = @ /\ r.op = "update" /\ s = r.sku]]
        /\ Begin(h, [r EXCEPT !.phase = "save"])
        /\ UNCHANGED <<product, ordered, listing, edits, missed>>

\* Faulty: only the check that came first keeps combinations apart.
NoDbCheck(r) == IF r.op = "add" THEN r.sku \notin DOMAIN variants ELSE r.sku \in DOMAIN variants

\* The unique indexes on sku and (productId, comboKey), and the row an update needs.
DbAccepts(r) ==
    /\ IF r.op = "add" THEN r.sku \notin DOMAIN variants ELSE r.sku \in DOMAIN variants
    /\ ~ComboTaken(r.row.combo, DOMAIN variants \ {r.sku})

WriteVariant(h) ==
    LET r == catalogReq[h]
    IN  /\ r.phase = "save"
        /\ product # NoProduct /\ DbAccepts(r)
        /\ variants' = [s \in DOMAIN variants \cup {r.sku} |->
                            IF s = r.sku THEN r.row ELSE variants[s]]
        /\ Changed(h, {"write"})
        /\ UNCHANGED <<product, ordered, listing, missed>>

\* rethrowComboConflict, or the row is gone.
VariantRefused(h) ==
    /\ catalogReq[h].phase = "save"
    /\ product = NoProduct \/ ~DbAccepts(catalogReq[h])
    /\ Refuse(h)
    /\ UNCHANGED <<product, variants, ordered, listing, edits, missed>>

\* deleteVariant: the last variant and one that was ordered are kept ...
DeleteVariant(h, s) ==
    /\ catalogReq[h].phase = "idle" /\ edits < MaxEdits
    /\ s \in DOMAIN variants
    /\ Cardinality(DOMAIN variants) > 1
    /\ s \notin ordered
    /\ Begin(h, [IdleRequest EXCEPT !.phase = "delete", !.op = "variant", !.sku = s])
    /\ UNCHANGED <<product, variants, ordered, listing, edits, missed>>

\* deleteProduct: ... and a product of which something was ordered.
DeleteProduct(h) ==
    /\ catalogReq[h].phase = "idle" /\ edits < MaxEdits
    /\ product # NoProduct
    /\ ordered \cap DOMAIN variants = {}
    /\ Begin(h, [IdleRequest EXCEPT !.phase = "delete", !.op = "product"])
    /\ UNCHANGED <<product, variants, ordered, listing, edits, missed>>

\* OrderItem.variant has no onDelete: the database refuses.
NotOrdered(skus) == ordered \cap skus = {}

WriteDelete(h) ==
    LET r == catalogReq[h]
        gone == IF r.op = "product" THEN DOMAIN variants ELSE {r.sku}
    IN  /\ r.phase = "delete"
        /\ product # NoProduct /\ gone \subseteq DOMAIN variants /\ NotOrdered(gone)
        /\ variants' = Restrict(variants, DOMAIN variants \ gone)
        /\ product' = IF r.op = "product" THEN NoProduct ELSE product
        /\ Changed(h, {"write"})
        /\ UNCHANGED <<ordered, listing, missed>>

DeleteRefused(h) ==
    LET r == catalogReq[h]
        gone == IF r.op = "product" THEN DOMAIN variants ELSE {r.sku}
    IN  /\ r.phase = "delete"
        /\ ~(product # NoProduct /\ gone \subseteq DOMAIN variants /\ NotOrdered(gone))
        /\ Refuse(h)
        /\ UNCHANGED <<product, variants, ordered, listing, edits, missed>>

\* updateProduct: one write, with what validatePricingModeConstraints lets through.
UpdateProduct(h, terms) ==
    /\ catalogReq[h].phase = "idle" /\ edits < MaxEdits
    /\ product \notin {NoProduct, terms}
    /\ product' = terms
    /\ Changed(h, {"variants", "write"})
    /\ UNCHANGED <<variants, ordered, listing, missed>>

\* An order of one unit, which recomputes after its transaction.
OrderVariant(h, s) ==
    /\ catalogReq[h].phase = "idle" /\ edits < MaxEdits
    /\ s \in ActiveSkus(variants) /\ variants[s].stock > 0
    /\ variants' = [variants EXCEPT ![s].stock = @ - 1]
    /\ ordered' = ordered \cup {s}
    /\ Changed(h, {"write"})
    /\ UNCHANGED <<product, listing, missed>>

\* A return puts the unit back and recomputes nothing.
RestockReturned(s) ==
    /\ edits < MaxEdits
    /\ s \in ordered
    /\ variants' = [variants EXCEPT ![s].stock = @ + 1]
    /\ edits' = edits + 1
    /\ missed' = TRUE
    /\ catalogReq' = [g \in CatalogHandlers |->
            [catalogReq[g] EXCEPT !.overtaken = @ \/ catalogReq[g].phase = "write"]]
    /\ UNCHANGED <<product, ordered, listing>>

\* Faulty: the job looks for the flag that may itself be out of date.
RefreshFlagged ==
    /\ catalogReq[RefreshJob].phase = "idle"
    /\ product # NoProduct
    /\ listing.hasActiveDiscount
    /\ Begin(RefreshJob, [IdleRequest EXCEPT !.phase = "product"])
    /\ UNCHANGED <<product, variants, ordered, listing, edits, missed>>

\* runRefreshDiscountAggregatesJob
RefreshDiscountAggregates ==
    /\ catalogReq[RefreshJob].phase = "idle"
    /\ product # NoProduct
    /\ product.discountType # "none" \/ product.discountValue # 0
    /\ Begin(RefreshJob, [IdleRequest EXCEPT !.phase = "product"])
    /\ UNCHANGED <<product, variants, ordered, listing, edits, missed>>
-------------------------------------------------------------------------------
\* recomputeProductAggregates reads the product, ...
ReadProduct(h) ==
    /\ catalogReq[h].phase = "product"
    /\ IF product = NoProduct THEN Refuse(h)
       ELSE Begin(h, [IdleRequest EXCEPT !.phase = "variants", !.terms = product])
    /\ UNCHANGED <<product, variants, ordered, listing, edits, missed>>

\* ... its variants ...
ReadVariants(h) ==
    LET r == catalogReq[h]
    IN  /\ r.phase = "variants"
        /\ Begin(h, [r EXCEPT !.phase = "write", !.computed = AggregatesOf(r.terms, variants),
                              !.terms = AnyTerms])
        /\ UNCHANGED <<product, variants, ordered, listing, edits, missed>>

\* ... and writes, however old what it read is by now.
WriteAggregates(h) ==
    LET r == catalogReq[h]
    IN  /\ r.phase = "write"
        /\ listing' = IF product = NoProduct THEN listing ELSE r.computed
        /\ missed' = r.overtaken
        /\ Refuse(h)
        /\ UNCHANGED <<product, variants, ordered, edits>>

\* The process stops; what a change had still to recompute is lost.
CatalogCrash(h) ==
    /\ catalogReq[h].phase # "idle" /\ edits < MaxEdits
    /\ missed' = (missed \/ catalogReq[h].phase \in {"product", "variants", "write"})
    /\ Refuse(h)
    /\ edits' = edits + 1
    /\ UNCHANGED <<product, variants, ordered, listing>>

Recompute(h) == ReadProduct(h) \/ ReadVariants(h) \/ WriteAggregates(h)

ProductsNext ==
    \/ \E h \in CatalogHandlers : Recompute(h) \/ CatalogCrash(h)
    \/ RefreshDiscountAggregates
    \/ \E h \in CatalogRequests :
          \/ ClearDefaults(h) \/ WriteVariant(h) \/ VariantRefused(h)
          \/ DeleteProduct(h) \/ WriteDelete(h) \/ DeleteRefused(h)
          \/ \E terms \in ProductTerms : UpdateProduct(h, terms)
    \/ \E h \in CatalogRequests, s \in Skus :
          \/ DeleteVariant(h, s) \/ OrderVariant(h, s)
          \/ \E row \in VariantRows : SaveVariant(h, s, row)
    \/ \E s \in Skus : RestockReturned(s)

\* Requests are answered as long as the server runs, and the scheduler keeps
\* starting the job (jobs/scheduler.ts).
ProductsFairness ==
    /\ \A h \in CatalogHandlers :
          WF_productsVars(ClearDefaults(h) \/ WriteVariant(h) \/ VariantRefused(h)
                              \/ WriteDelete(h) \/ DeleteRefused(h) \/ Recompute(h))
    /\ WF_productsVars(RefreshDiscountAggregates)
-------------------------------------------------------------------------------
ProductsTypeOK ==
    /\ product \in ProductTerms \cup {NoProduct}
    /\ DOMAIN variants \subseteq Skus
    /\ \A s \in DOMAIN variants : variants[s].stock \in Nat
    /\ ordered \subseteq Skus
    /\ listing.minPrice \in 0 .. listing.maxPrice

\* What listings filter and sort by agrees with what the variants for sale cost.
ListingIsFresh ==
    LET active == ActiveSkus(variants)
        prices == {PriceOf(product, variants[s]) : s \in active}
    IN  product # NoProduct =>
            IF active = {} THEN listing = NoListing
            ELSE /\ {listing.minPrice, listing.maxPrice} \subseteq prices
                 /\ prices \subseteq listing.minPrice .. listing.maxPrice
                 /\ listing.isInStock <=> \E s \in active : variants[s].stock > 0
                 /\ listing.hasActiveDiscount <=> HasActiveDiscount(product)

\* When no recomputation is under way the listing is that of the product and its
\* variants as they are (schema.prisma 546-550), but for the three ways a change is
\* missed: a write by a request that had read before the change, a crash between the
\* change and the recomputation, a return's restocking.
ListingFreshUnlessMissed ==
    (\A h \in CatalogHandlers : catalogReq[h].phase \notin {"product", "variants", "write"})
        => missed \/ ListingIsFresh

\* Concurrent requests pass each other's checks, yet no two variants of a product have
\* one combination of attributes and no ordered variant goes away (the indexes and
\* the foreign key under product-variant.service.ts 12-41 and 145-163).
VariantsKept ==
    /\ \A s, t \in DOMAIN variants : variants[s].combo = variants[t].combo => s = t
    /\ ordered \subseteq DOMAIN variants

\* Once changes end, the job brings the listing of a product with a discount up to
\* date, whatever was missed (refresh-discount-aggregates.job.ts 11-19).
DiscountedListingHeals ==
    <>[](product # NoProduct /\ HasActiveDiscount(product) => ListingIsFresh)
===============================================================================
