------------------------------ MODULE Settlement ------------------------------
(***************************************************************************)
(* What the shop promises about a payment that goes through a gateway,     *)
(* whether it pays an order or charges a wallet: one request at most       *)
(* carries it to the gateway, its effect is applied at most once, and only *)
(* for money the gateway really captured.                                  *)
(***************************************************************************)
CONSTANT Payments       \* identifiers a gateway payment can get

VARIABLES
    state,              \* state[t]: how far payment t has come
    captured            \* the payments whose money the gateway holds

vars == <<state, captured>>

States == {"none", "open", "claimed", "settled", "dropped"}

TypeOK ==
    /\ state \in [Payments -> States]
    /\ captured \subseteq Payments

Init ==
    /\ state = [t \in Payments |-> "none"]
    /\ captured = {}

Move(t, from, to) ==
    /\ state[t] = from
    /\ state' = [state EXCEPT ![t] = to]
    /\ UNCHANGED captured

Open(t) == Move(t, "none", "open")

\* The customer pays on the gateway's page.
Capture(t) ==
    /\ state[t] # "none"
    /\ captured' = captured \cup {t}
    /\ UNCHANGED state

Claim(t) == Move(t, "open", "claimed")

\* The order is paid, or the wallet credited.
Settle(t) ==
    /\ t \in captured
    /\ Move(t, "claimed", "settled")

\* The gateway refused, or the request died: the payment stays failed.
Drop(t) == Move(t, "claimed", "dropped")

Next == \E t \in Payments : Open(t) \/ Capture(t) \/ Claim(t) \/ Settle(t) \/ Drop(t)

Spec == Init /\ [][Next]_vars
===============================================================================
