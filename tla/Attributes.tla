------------------------------ MODULE Attributes ------------------------------
(***************************************************************************)
(* An attribute, its values, and the variants of a product that are made   *)
(* of them.  Uses are counted and names compared before the row is         *)
(* deleted or written; a deleted value takes its rows at variants along.   *)
(***************************************************************************)
EXTENDS FiniteSets, Integers, Functions

CONSTANTS
    ValueIds,
    Names,               \* what a value may be called
    ComboSkus,           \* the variants of one product
    AttributeRequests,   \* requests in flight together
    MaxAttributeChanges  \* bound: requests that write

VARIABLES
    attribute,           \* whether the Attribute row is there
    attributeValues,     \* its AttributeValue rows: their names, by id
    links,               \* ProductVariantAttributeValue: the values of each variant
    comboKeys,           \* ProductVariant.comboKey: the values it was saved with
    attributeReq,        \* the handlers in flight
    attributeChanges,    \* bound
    takenMeanwhile       \* history: a value counted as unused was taken, and then deleted

attributesVars == <<attribute, attributeValues, links, comboKeys, attributeReq,
                    attributeChanges, takenMeanwhile>>
-------------------------------------------------------------------------------
IdleAttribute == [phase |-> "idle", ids |-> {}, name |-> "none", sku |-> "none",
                  overtaken |-> FALSE]

UsedInVariants(ids) == \E s \in DOMAIN links : links[s] \cap ids # {}

NameFree(name, others) == \A v \in others : attributeValues[v] # name

AttributesInit ==
    /\ attribute = TRUE
    /\ \E given \in {{}, ValueIds} : attributeValues \in {f \in [given -> Names] : IsInjective(f)}
    /\ links = <<>> /\ comboKeys = <<>>
    /\ attributeReq = [h \in AttributeRequests |-> IdleAttribute]
    /\ attributeChanges = 0
    /\ takenMeanwhile = FALSE

\* A request has passed its checks.
Ask(h, request) ==
    /\ attributeReq[h].phase = "idle" /\ attributeChanges < MaxAttributeChanges
    /\ attributeChanges' = attributeChanges + 1
    /\ attributeReq' = [attributeReq EXCEPT ![h] = request]
    /\ UNCHANGED <<attribute, attributeValues, links, comboKeys, takenMeanwhile>>

AddAttributeValue(h, v, name) ==
    /\ attribute
    /\ v \notin DOMAIN attributeValues
    /\ NameFree(name, DOMAIN attributeValues)
    /\ Ask(h, [IdleAttribute EXCEPT !.phase = "add", !.ids = {v}, !.name = name])

\* Only a new name is compared.
UpdateAttributeValue(h, v, name) ==
    /\ v \in DOMAIN attributeValues
    /\ NameFree(name, DOMAIN attributeValues \ {v})
    /\ Ask(h, [IdleAttribute EXCEPT !.phase = "rename", !.ids = {v}, !.name = name])

\* Faulty: uses are not counted.
Uncounted(ids) == TRUE

Unused(ids) == ~UsedInVariants(ids)

DeleteAttributeValue(h, v) ==
    /\ v \in DOMAIN attributeValues
    /\ Unused({v})
    /\ Ask(h, [IdleAttribute EXCEPT !.phase = "delete", !.ids = {v}])

DeleteAttribute(h) ==
    /\ attribute
    /\ Unused(DOMAIN attributeValues)
    /\ Ask(h, [IdleAttribute EXCEPT !.phase = "deleteAll", !.ids = DOMAIN attributeValues])

\* assertComboFree compares the rows the other variants have, not their keys, and
\* nothing when the variant has no values.
ComboFree(ids, others) == ids = {} \/ \A s \in others : links[s] # ids

\* addVariant and updateVariant, as far as the values of the variant go.
SaveCombination(h, s, ids) ==
    /\ ids \subseteq DOMAIN attributeValues
    /\ ComboFree(ids, DOMAIN links \ {s})
    /\ Ask(h, [IdleAttribute EXCEPT !.phase = "save", !.ids = ids, !.sku = s])
-------------------------------------------------------------------------------
Answered(h) == attributeReq' = [attributeReq EXCEPT ![h] = IdleAttribute]

\* The row it belongs to or changes is there, and @@unique([attributeId, value]).
ValueWritable(r) ==
    /\ r.phase = "add" => attribute
    /\ r.phase = "rename" => r.ids \subseteq DOMAIN attributeValues
    /\ NameFree(r.name, DOMAIN attributeValues \ r.ids)

WriteValue(h) ==
    LET r == attributeReq[h]
    IN  /\ r.phase \in {"add", "rename"}
        /\ ValueWritable(r)
        /\ attributeValues' = [v \in DOMAIN attributeValues \cup r.ids |->
                IF v \in r.ids THEN r.name ELSE attributeValues[v]]
        /\ Answered(h)
        /\ UNCHANGED <<attribute, links, comboKeys, attributeChanges, takenMeanwhile>>

\* Faulty: the rows at variants stay.
LinksLeft(gone) == links

\* onDelete: Cascade
CascadedLinks(gone) == [s \in DOMAIN links |-> links[s] \ gone]

\* The deletion takes the rows at variants along; their comboKeys stay.
WriteValueDeletion(h) ==
    LET r    == attributeReq[h]
        gone == IF r.phase = "deleteAll" THEN DOMAIN attributeValues ELSE r.ids
    IN  /\ \/ r.phase = "delete" /\ r.ids \subseteq DOMAIN attributeValues
           \/ r.phase = "deleteAll" /\ attribute
        /\ attribute' = (attribute /\ r.phase # "deleteAll")
        /\ attributeValues' = Restrict(attributeValues, DOMAIN attributeValues \ gone)
        /\ links' = CascadedLinks(gone)
        /\ takenMeanwhile' = (takenMeanwhile \/ r.overtaken)
        /\ Answered(h)
        /\ UNCHANGED <<comboKeys, attributeChanges>>

\* buildComboKey is the ids in order.  The values must be there, and @@unique([productId, comboKey]).
CombinationWritable(r) ==
    /\ r.ids \subseteq DOMAIN attributeValues
    /\ \A s \in DOMAIN comboKeys \ {r.sku} : comboKeys[s] # r.ids

WriteCombination(h) ==
    LET r == attributeReq[h]
    IN  /\ r.phase = "save"
        /\ CombinationWritable(r)
        /\ links' = [s \in DOMAIN links \cup {r.sku} |-> IF s = r.sku THEN r.ids ELSE links[s]]
        /\ comboKeys' = [s \in DOMAIN links' |-> IF s = r.sku THEN r.ids ELSE comboKeys[s]]
        /\ attributeReq' = [g \in AttributeRequests |->
                IF g = h THEN IdleAttribute
                ELSE [attributeReq[g] EXCEPT !.overtaken =
                        \/ @
                        \/ attributeReq[g].phase = "deleteAll" /\ r.ids # {}
                        \/ attributeReq[g].phase = "delete" /\ attributeReq[g].ids \cap r.ids # {}]]
        /\ UNCHANGED <<attribute, attributeValues, attributeChanges, takenMeanwhile>>

\* The database refuses, with an error for the administrator.
AttributeRefused(h) ==
    LET r == attributeReq[h]
    IN  /\ \/ r.phase \in {"add", "rename"} /\ ~ValueWritable(r)
           \/ r.phase = "delete" /\ ~(r.ids \subseteq DOMAIN attributeValues)
           \/ r.phase = "deleteAll" /\ ~attribute
           \/ r.phase = "save" /\ ~CombinationWritable(r)
        /\ Answered(h)
        /\ UNCHANGED <<attribute, attributeValues, links, comboKeys, attributeChanges, takenMeanwhile>>

AttributesNext ==
    \E h \in AttributeRequests :
        \/ \E v \in ValueIds, name \in Names :
              AddAttributeValue(h, v, name) \/ UpdateAttributeValue(h, v, name)
        \/ \E v \in ValueIds : DeleteAttributeValue(h, v)
        \/ DeleteAttribute(h)
        \/ \E s \in ComboSkus, ids \in SUBSET ValueIds : SaveCombination(h, s, ids)
        \/ WriteValue(h) \/ WriteValueDeletion(h) \/ WriteCombination(h) \/ AttributeRefused(h)
-------------------------------------------------------------------------------
AttributesTypeOK ==
    /\ attribute \in BOOLEAN /\ takenMeanwhile \in BOOLEAN
    /\ DOMAIN attributeValues \subseteq (IF attribute THEN ValueIds ELSE {})
    /\ IsInjective(attributeValues)
    /\ DOMAIN links = DOMAIN comboKeys
    /\ \A s \in DOMAIN links : links[s] \subseteq DOMAIN attributeValues

\* The key that keeps combinations apart is the one of the values a variant still has, and
\* so no two variants are the same choice, unless a value was taken by a variant after
\* its deletion had found it unused (attribute.service.ts 164-171).
ValuesKept ==
    takenMeanwhile \/ /\ comboKeys = links
                      /\ \A s, t \in DOMAIN links : links[s] = links[t] => s = t
===============================================================================
