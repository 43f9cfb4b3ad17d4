-------------------------------- MODULE Wallet --------------------------------
(***************************************************************************)
(* Wallets: charges through the gateway, withdrawals that an admin         *)
(* reviews, and adjustments by an admin.  (Orders debits and refunds       *)
(* wallets too.)  As in Orders, a handler is several actions: what it read *)
(* may be stale when its transaction runs.                                 *)
(*                                                                         *)
(* A user without a Wallet row is a user with balance 0.                   *)
(***************************************************************************)
EXTENDS Integers, Functions

CONSTANTS
    Users,
    Amounts,          \* what a charge or a withdrawal may ask for
    Adjustments,      \* what an admin may add to a balance, or take from it
    ChargeIds,        \* 1..n, the WALLET_CHARGE transactions, handed out in order
    WithdrawalIds,    \* 1..n, the withdrawal requests, handed out in order
    Requests,         \* handlers that can be in flight together
    MaxAdjustments,   \* bound on the adjustments of one wallet
    Nobody            \* no user, no charge, no withdrawal

ASSUME WalletConstantsOK ==
    /\ Amounts \subseteq Nat \ {0}
    /\ Adjustments \subseteq Int
    /\ ChargeIds \subseteq Nat
    /\ WithdrawalIds \subseteq Nat
    /\ MaxAdjustments \in Nat
    /\ Nobody \notin Users \cup ChargeIds \cup WithdrawalIds

VARIABLES
    balance,          \* Wallet.balance
    ledger,           \* the WalletTransaction rows, summed up
    adjusted,         \* how many adjustments a balance has had, and what they add up to
    charge,           \* the WALLET_CHARGE transactions
    withdrawal,       \* the WalletWithdrawal rows
    captured,         \* charges whose customer has paid on the gateway's page
    req               \* the handlers in flight

vars == <<balance, ledger, adjusted, charge, withdrawal, captured, req>>
-------------------------------------------------------------------------------
\* deposits: the sum of the DEPOSIT rows; adjustments: how many ADMIN_ADJUST
\* rows there are.  A row stores an absolute amount, so those do not add up.
Ledger == [deposits : Nat, adjustments : Nat]

Adjusted == [count : Nat, total : Int]

Charge == [status : {"none", "PENDING", "FAILED", "SUCCESS"}, user : Users \cup {Nobody},
           amount : Nat, refId : {"none", "session", "receipt"}]

NoCharge == [status |-> "none", user |-> Nobody, amount |-> 0, refId |-> "none"]

\* withdrawn: the sum of the WITHDRAW rows that name the request.
Withdrawal == [status : {"none", "PENDING", "APPROVED", "REJECTED"},
               user : Users \cup {Nobody}, amount : Nat, withdrawn : Nat]

NoWithdrawal == [status |-> "none", user |-> Nobody, amount |-> 0, withdrawn |-> 0]

Phases == {"idle", "initiating", "claiming", "verifying", "confirmed",
           "requesting", "reviewing", "approving", "rejecting", "logging"}

\* What a handler has read so far.
Request == [phase : Phases, charge : ChargeIds \cup {Nobody},
            withdrawal : WithdrawalIds \cup {Nobody},
            user : Users \cup {Nobody}, amount : Int]

Idle == [phase |-> "idle", charge |-> Nobody, withdrawal |-> Nobody,
         user |-> Nobody, amount |-> 0]

In(p, phase) == req[p].phase = phase

Init ==
    /\ balance = [u \in Users |-> 0]
    /\ ledger = [u \in Users |-> [deposits |-> 0, adjustments |-> 0]]
    /\ adjusted = [u \in Users |-> [count |-> 0, total |-> 0]]
    /\ charge = [t \in ChargeIds |-> NoCharge]
    /\ withdrawal = [w \in WithdrawalIds |-> NoWithdrawal]
    /\ captured = {}
    /\ req = [p \in Requests |-> Idle]
-------------------------------------------------------------------------------
(***************************************************************************)
(* Charging the wallet.                                                    *)
(***************************************************************************)
\* The next value of the autoincrement key.
NextCharge(t) == charge[t].status = "none" /\ \A i \in ChargeIds : i < t => charge[i].status # "none"

InitiateWalletCharge(p, t, u, amount) ==
    /\ In(p, "idle")
    /\ NextCharge(t)
    /\ charge' = [charge EXCEPT ![t] = [status |-> "PENDING", user |-> u,
                                        amount |-> amount, refId |-> "none"]]
    /\ req' = [req EXCEPT ![p] = [Idle EXCEPT !.phase = "initiating", !.charge = t]]
    /\ UNCHANGED <<balance, ledger, adjusted, withdrawal, captured>>

\* The gateway opened a session, and the customer is redirected to it.
InitiateAnswer(p) ==
    /\ In(p, "initiating")
    /\ charge' = [charge EXCEPT ![req[p].charge].refId = "session"]
    /\ req' = [req EXCEPT ![p] = Idle]
    /\ UNCHANGED <<balance, ledger, adjusted, withdrawal, captured>>

CustomerPays(t) ==
    /\ charge[t].refId # "none"
    /\ t \notin captured
    /\ captured' = captured \cup {t}
    /\ UNCHANGED <<balance, ledger, adjusted, charge, withdrawal, req>>

\* Only a charge that already succeeded is answered at once.
VerifyWalletCharge(p, t) ==
    /\ In(p, "idle")
    /\ charge[t].status \in {"PENDING", "FAILED"}
    /\ req' = [req EXCEPT ![p] = [Idle EXCEPT !.phase = "claiming", !.charge = t]]
    /\ UNCHANGED <<balance, ledger, adjusted, charge, withdrawal, captured>>

\* Faulty: only SUCCESS is checked, as in the first lines of verifyWalletCharge.
NotYetSuccessful(t) == charge[t].status # "SUCCESS"

\* The compare-and-swap PENDING -> FAILED; a request that loses it bails out.
Claimable(t) == charge[t].status = "PENDING"

ClaimCharge(p) ==
    LET t == req[p].charge
    IN  /\ In(p, "claiming")
        /\ IF Claimable(t)
           THEN /\ charge' = [charge EXCEPT ![t].status = "FAILED"]
                /\ req' = [req EXCEPT ![p].phase = "verifying"]
           ELSE /\ req' = [req EXCEPT ![p] = Idle]
                /\ UNCHANGED charge
        /\ UNCHANGED <<balance, ledger, adjusted, withdrawal, captured>>

\* The gateway confirms only money it holds.
GatewayAnswer(p) ==
    /\ In(p, "verifying")
    /\ \/ /\ req[p].charge \in captured
          /\ req' = [req EXCEPT ![p].phase = "confirmed"]
       \/ req' = [req EXCEPT ![p] = Idle]
    /\ UNCHANGED <<balance, ledger, adjusted, charge, withdrawal, captured>>

CreditWallet(p) ==
    LET t == req[p].charge
        u == charge[t].user
    IN  /\ In(p, "confirmed")
        /\ charge' = [charge EXCEPT ![t].status = "SUCCESS", ![t].refId = "receipt"]
        /\ balance' = [balance EXCEPT ![u] = @ + charge[t].amount]
        /\ ledger' = [ledger EXCEPT ![u].deposits = @ + charge[t].amount]
        /\ req' = [req EXCEPT ![p] = Idle]
        /\ UNCHANGED <<adjusted, withdrawal, captured>>
-------------------------------------------------------------------------------
(***************************************************************************)
(* Withdrawals.  The request reserves nothing; the balance is checked when *)
(* it is made and when it is approved, each time on a row read before.     *)
(***************************************************************************)
RequestWithdrawal(p, u, amount) ==
    /\ In(p, "idle")
    /\ balance[u] >= amount
    /\ req' = [req EXCEPT ![p] = [Idle EXCEPT !.phase = "requesting", !.user = u,
                                              !.amount = amount]]
    /\ UNCHANGED <<balance, ledger, adjusted, charge, withdrawal, captured>>

NextWithdrawal(w) ==
    /\ withdrawal[w].status = "none"
    /\ \A i \in WithdrawalIds : i < w => withdrawal[i].status # "none"

CreateWithdrawal(p, w) ==
    /\ In(p, "requesting")
    /\ NextWithdrawal(w)
    /\ withdrawal' = [withdrawal EXCEPT ![w] =
                        [NoWithdrawal EXCEPT !.status = "PENDING", !.user = req[p].user,
                                             !.amount = req[p].amount]]
    /\ req' = [req EXCEPT ![p] = Idle]
    /\ UNCHANGED <<balance, ledger, adjusted, charge, captured>>

Reviewable(w) == withdrawal[w].status = "PENDING"

\* reviewWithdrawalAdmin reads the request ...
ReviewWithdrawalAdmin(p, w, decision) ==
    /\ In(p, "idle")
    /\ Reviewable(w)
    /\ req' = [req EXCEPT ![p] =
                [Idle EXCEPT !.phase = IF decision = "APPROVED" THEN "reviewing" ELSE "rejecting",
                             !.withdrawal = w]]
    /\ UNCHANGED <<balance, ledger, adjusted, charge, withdrawal, captured>>

\* ... then, to approve it, the balance ...
CheckBalance(p) ==
    LET w == withdrawal[req[p].withdrawal]
    IN  /\ In(p, "reviewing")
        /\ balance[w.user] >= w.amount
        /\ req' = [req EXCEPT ![p].phase = "approving"]
        /\ UNCHANGED <<balance, ledger, adjusted, charge, withdrawal, captured>>

\* Faulty: the ledger row is lost.
ApprovedUnlogged(w) == [withdrawal[w] EXCEPT !.status = "APPROVED"]

\* Faulty: the ledger row is negative.
ApprovedNegative(w) ==
    [withdrawal[w] EXCEPT !.status = "APPROVED", !.withdrawn = @ - withdrawal[w].amount]

\* The WITHDRAW row and the new status.
Approved(w) ==
    [withdrawal[w] EXCEPT !.status = "APPROVED", !.withdrawn = @ + withdrawal[w].amount]

\* ... and decides, whatever the request and the balance have become.
ApproveWithdrawal(p) ==
    LET w == req[p].withdrawal
        u == withdrawal[w].user
    IN  /\ In(p, "approving")
        /\ balance' = [balance EXCEPT ![u] = @ - withdrawal[w].amount]
        /\ withdrawal' = [withdrawal EXCEPT ![w] = Approved(w)]
        /\ req' = [req EXCEPT ![p] = Idle]
        /\ UNCHANGED <<ledger, adjusted, charge, captured>>

RejectWithdrawal(p) ==
    /\ In(p, "rejecting")
    /\ withdrawal' = [withdrawal EXCEPT ![req[p].withdrawal].status = "REJECTED"]
    /\ req' = [req EXCEPT ![p] = Idle]
    /\ UNCHANGED <<balance, ledger, adjusted, charge, captured>>
-------------------------------------------------------------------------------
(***************************************************************************)
(* adjustUserWallet: the balance and the ledger row are two writes.        *)
(***************************************************************************)
AdjustUserWallet(p, u, amount) ==
    /\ In(p, "idle")
    /\ adjusted[u].count < MaxAdjustments
    /\ balance' = [balance EXCEPT ![u] = @ + amount]
    /\ adjusted' = [adjusted EXCEPT ![u] = [count |-> @.count + 1, total |-> @.total + amount]]
    /\ req' = [req EXCEPT ![p] = [Idle EXCEPT !.phase = "logging", !.user = u]]
    /\ UNCHANGED <<ledger, charge, withdrawal, captured>>

LogAdjustment(p) ==
    /\ In(p, "logging")
    /\ ledger' = [ledger EXCEPT ![req[p].user].adjustments = @ + 1]
    /\ req' = [req EXCEPT ![p] = Idle]
    /\ UNCHANGED <<balance, adjusted, charge, withdrawal, captured>>

(***************************************************************************)
(* A handler that throws or dies keeps what it had committed.              *)
(***************************************************************************)
Fail(p) ==
    /\ ~In(p, "idle")
    /\ req' = [req EXCEPT ![p] = Idle]
    /\ UNCHANGED <<balance, ledger, adjusted, charge, withdrawal, captured>>
-------------------------------------------------------------------------------
Charging(p) ==
    \/ \E t \in ChargeIds, u \in Users, amount \in Amounts : InitiateWalletCharge(p, t, u, amount)
    \/ InitiateAnswer(p)
    \/ \E t \in ChargeIds : VerifyWalletCharge(p, t)
    \/ ClaimCharge(p)
    \/ GatewayAnswer(p)
    \/ CreditWallet(p)

Withdrawing(p) ==
    \/ \E u \in Users, amount \in Amounts : RequestWithdrawal(p, u, amount)
    \/ \E w \in WithdrawalIds : CreateWithdrawal(p, w)
    \/ \E w \in WithdrawalIds, decision \in {"APPROVED", "REJECTED"} :
            ReviewWithdrawalAdmin(p, w, decision)
    \/ CheckBalance(p)
    \/ ApproveWithdrawal(p)
    \/ RejectWithdrawal(p)

Adjusting(p) ==
    \/ \E u \in Users, amount \in Adjustments : AdjustUserWallet(p, u, amount)
    \/ LogAdjustment(p)

Next ==
    \/ \E t \in ChargeIds : CustomerPays(t)
    \/ \E p \in Requests : Charging(p) \/ Withdrawing(p) \/ Adjusting(p) \/ Fail(p)

Spec == Init /\ [][Next]_vars
-------------------------------------------------------------------------------
(***************************************************************************)
(* Properties.                                                             *)
(***************************************************************************)

\* Every row and every handler in flight has its shape.
TypeOK ==
    /\ balance \in [Users -> Int]
    /\ ledger \in [Users -> Ledger]
    /\ adjusted \in [Users -> Adjusted]
    /\ charge \in [ChargeIds -> Charge]
    /\ withdrawal \in [WithdrawalIds -> Withdrawal]
    /\ captured \subseteq ChargeIds
    /\ req \in [Requests -> Request]

\* A request of verifyWalletCharge past its claim.
Holds(p, t) == req[p].phase \in {"verifying", "confirmed"} /\ req[p].charge = t

ChargeState(t) ==
    CASE charge[t].status = "none" -> "none"
      [] charge[t].status = "PENDING" -> "open"
      [] charge[t].status = "SUCCESS" -> "settled"
      [] OTHER -> IF \E p \in Requests : Holds(p, t) THEN "claimed" ELSE "dropped"

ChargePayment == INSTANCE Settlement
    WITH Payments <- ChargeIds, state <- [t \in ChargeIds |-> ChargeState(t)]

\* Charging a wallet is a settlement, like paying an order: one request claims
\* the charge, it is credited at most once, and only for captured money.
ChargeSpec == ChargePayment!Spec

\* A request that waits for a decision has moved no money, an approved one has
\* (reviewWithdrawalAdmin's transaction moves balance, ledger and status together).
WithdrawalsMatchDecisions ==
    \A w \in WithdrawalIds :
        /\ withdrawal[w].status \in {"none", "PENDING"} => withdrawal[w].withdrawn = 0
        /\ withdrawal[w].status = "APPROVED" => withdrawal[w].withdrawn >= withdrawal[w].amount

\* "This request has already been reviewed" (wallet-withdrawal.service.ts 64):
\* a withdrawal is paid out at most once.
WithdrawnOnce ==
    \A w \in WithdrawalIds : withdrawal[w].withdrawn \in {0, withdrawal[w].amount}

\* What the successful charges of u add up to, and the WITHDRAW rows of u.
CreditedTo(u) ==
    SumFunctionOnSet([t \in ChargeIds |-> charge[t].amount],
                     {t \in ChargeIds : charge[t].status = "SUCCESS" /\ charge[t].user = u})

WithdrawnFrom(u) ==
    SumFunctionOnSet([w \in WithdrawalIds |-> withdrawal[w].withdrawn],
                     {w \in WithdrawalIds : withdrawal[w].user = u})

\* A balance is what successful charges, withdrawals and adjustments make of it,
\* each charge counted once; the ledger knows every charge, and no adjustment that
\* did not happen (verifyWalletCharge, reviewWithdrawalAdmin, adjustUserWallet).
MoneyAccountedFor ==
    \A u \in Users :
        /\ balance[u] = CreditedTo(u) - WithdrawnFrom(u) + adjusted[u].total
        /\ ledger[u].deposits = CreditedTo(u)
        /\ ledger[u].adjustments <= adjusted[u].count
===============================================================================
