--------------------------- MODULE StockReservation ---------------------------
(***************************************************************************)
(* What the shop promises about stock, with no carts, payments or requests *)
(* in sight: a placed order takes its units off the shelf, all of them or  *)
(* none, and those units come back at most once.                           *)
(***************************************************************************)
EXTENDS Integers

CONSTANTS
    Variants,      \* the product variants that are sold
    OrderIds       \* identifiers an order can get

VARIABLES
    shelf,         \* shelf[v]: units of v that can still be ordered
    reservation    \* reservation[o]: what order o did to the shelf

vars == <<shelf, reservation>>

Lines == [Variants -> Nat]

States == {"none", "held", "released"}

TypeOK ==
    /\ shelf \in [Variants -> Nat]
    /\ reservation \in [OrderIds -> [state: States, items: Lines]]

Init ==
    /\ shelf \in [Variants -> Nat]
    /\ reservation = [o \in OrderIds |->
                        [state |-> "none", items |-> [v \in Variants |-> 0]]]

\* An order takes the units of all its lines, or it is not placed at all.
Reserve(o) ==
    LET items == reservation'[o].items
    IN  /\ reservation[o].state = "none"
        /\ items \in Lines
        /\ \A v \in Variants : items[v] <= shelf[v]
        /\ reservation' = [reservation EXCEPT ![o] = [state |-> "held", items |-> items]]
        /\ shelf' = [v \in Variants |-> shelf[v] - items[v]]

\* Every unit the order took comes back, once.
Release(o) ==
    /\ reservation[o].state = "held"
    /\ shelf' = [v \in Variants |-> shelf[v] + reservation[o].items[v]]
    /\ reservation' = [reservation EXCEPT ![o].state = "released"]

Next == \E o \in OrderIds : Reserve(o) \/ Release(o)

Spec == Init /\ [][Next]_vars
===============================================================================
