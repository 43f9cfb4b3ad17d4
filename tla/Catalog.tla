-------------------------------- MODULE Catalog --------------------------------
(***************************************************************************)
(* Products, attributes, exchange rates and comments.  They share no state *)
(* here, so they run side by side: a behaviour is one of its part only.    *)
(***************************************************************************)
EXTENDS Products, ExchangeRates, Comments, Attributes

CONSTANT Parts         \* the parts to look at

VARIABLE part

catalogVars == <<part, productsVars, ratesVars, commentsVars, attributesVars>>
-------------------------------------------------------------------------------
\* What a part chooses at its start is fixed in the runs of the others.
CatalogInit ==
    /\ part \in Parts
    /\ ProductsInit /\ RatesInit /\ CommentsInit /\ AttributesInit
    /\ part # "products" => product.discountType = "none" /\ Cardinality(DOMAIN variants) = 1
                            /\ \A s \in DOMAIN variants : variants[s].combo = {}
    /\ part # "attributes" => DOMAIN attributeValues = {}

CatalogNext ==
    /\ UNCHANGED part
    /\ \/ /\ part = "products" /\ ProductsNext
          /\ UNCHANGED <<ratesVars, commentsVars, attributesVars>>
       \/ /\ part = "rates" /\ RatesNext
          /\ UNCHANGED <<productsVars, commentsVars, attributesVars>>
       \/ /\ part = "comments" /\ CommentsNext
          /\ UNCHANGED <<productsVars, ratesVars, attributesVars>>
       \/ /\ part = "attributes" /\ AttributesNext
          /\ UNCHANGED <<productsVars, ratesVars, commentsVars>>

CatalogSpec ==
    /\ CatalogInit /\ [][CatalogNext]_catalogVars
    /\ part = "products" => ProductsFairness
-------------------------------------------------------------------------------
\* The types of all parts; no stock, price, rating or count of rows falls below zero.
CatalogTypeOK ==
    ProductsTypeOK /\ RatesTypeOK /\ CommentsTypeOK /\ AttributesTypeOK

\* No two variants of a product are the same choice of attribute values, and none loses
\* its order's variant or one of its values to a deletion that saw it (product-variant.service.ts
\* 12-41 and 145-163, attribute.service.ts 77-89 and 160-172).
VariantsSound == VariantsKept /\ ValuesKept
===============================================================================
