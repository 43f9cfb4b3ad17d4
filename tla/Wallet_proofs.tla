----------------------------- MODULE Wallet_proofs -----------------------------
(***************************************************************************)
(* Proofs about Wallet, for any number of users, charges, withdrawals and  *)
(* concurrent requests: types, withdrawals and their ledger rows, the      *)
(* settlement of charges, and what a balance is made of.                   *)
(***************************************************************************)
EXTENDS Wallet, Sums_proofs, TLAPS

ChargePhases == {"initiating", "claiming", "verifying", "confirmed"}

ReviewPhases == {"reviewing", "approving", "rejecting"}

\* What the phases say about a handler's locals.
LocalOK(r) ==
    /\ r.phase \in ChargePhases => r.charge \in ChargeIds
    /\ r.phase \in ReviewPhases => r.withdrawal \in WithdrawalIds
    /\ r.phase \in {"requesting", "logging"} => r.user \in Users
    /\ r.phase = "requesting" => r.amount \in Nat

Typing == TypeOK /\ \A p \in Requests : LocalOK(req[p])

LEMMA IdleTyped == Idle \in Request /\ LocalOK(Idle) /\ Idle.phase = "idle"
  BY DEF Idle, Request, Phases, LocalOK, ChargePhases, ReviewPhases

LEMMA TypingInit == Init => Typing
  <1> SUFFICES ASSUME Init PROVE Typing
    OBVIOUS
  <1>1. NoCharge \in Charge /\ NoWithdrawal \in Withdrawal
    BY DEF NoCharge, Charge, NoWithdrawal, Withdrawal
  <1>2. /\ balance \in [Users -> Int] /\ ledger \in [Users -> Ledger]
        /\ adjusted \in [Users -> Adjusted]
    BY DEF Init, Ledger, Adjusted
  <1>3. /\ charge \in [ChargeIds -> Charge] /\ withdrawal \in [WithdrawalIds -> Withdrawal]
        /\ captured \subseteq ChargeIds /\ req \in [Requests -> Request]
    BY <1>1, IdleTyped DEF Init
  <1>4. \A p \in Requests : LocalOK(req[p])
    BY IdleTyped DEF Init
  <1> QED
    BY <1>2, <1>3, <1>4 DEF Typing, TypeOK

\* A handler's new locals keep the typing if they are well typed themselves.
LEMMA NewLocals ==
  ASSUME Typing, NEW p \in Requests, NEW r \in Request, LocalOK(r),
         req' = [req EXCEPT ![p] = r]
  PROVE  req' \in [Requests -> Request] /\ \A q \in Requests : LocalOK(req'[q])
  BY DEF Typing, TypeOK

\* What a handler knows survives its next phase.
LEMMA MovesOn ==
  ASSUME NEW r \in Request, LocalOK(r), NEW phase \in Phases \ {"requesting", "logging"},
         phase \in ChargePhases => r.phase \in ChargePhases,
         phase \in ReviewPhases => r.phase \in ReviewPhases
  PROVE  [r EXCEPT !.phase = phase] \in Request /\ LocalOK([r EXCEPT !.phase = phase])
  BY DEF Request, LocalOK

\* A balance stays an integer and a ledger a ledger, whoever owns the wallet.
LEMMA BalanceChange ==
  ASSUME NEW b \in [Users -> Int], NEW u, NEW a \in Int
  PROVE  /\ [b EXCEPT ![u] = @ + a] \in [Users -> Int]
         /\ [b EXCEPT ![u] = @ - a] \in [Users -> Int]
  <1> DEFINE x == b[u] + a
             y == b[u] - a
  <1>1. u \in Users => x \in Int /\ y \in Int
    OBVIOUS
  <1> HIDE DEF x, y
  <1>2. [b EXCEPT ![u] = x] \in [Users -> Int] /\ [b EXCEPT ![u] = y] \in [Users -> Int]
    BY <1>1
  <1> QED
    BY <1>2 DEF x, y

LEMMA LedgerChange ==
  ASSUME NEW l \in [Users -> Ledger], NEW u, NEW a \in Nat
  PROVE  /\ [l EXCEPT ![u].deposits = @ + a] \in [Users -> Ledger]
         /\ [l EXCEPT ![u].adjustments = @ + 1] \in [Users -> Ledger]
  <1> DEFINE x == [l[u] EXCEPT !.deposits = @ + a]
             y == [l[u] EXCEPT !.adjustments = @ + 1]
  <1>1. u \in Users => x \in Ledger /\ y \in Ledger
    BY DEF Ledger
  <1> HIDE DEF x, y
  <1>2. [l EXCEPT ![u] = x] \in [Users -> Ledger] /\ [l EXCEPT ![u] = y] \in [Users -> Ledger]
    BY <1>1
  <1> QED
    BY <1>2 DEF x, y

\* A step that changes nothing but a handler's locals.
LEMMA LocalTyping ==
  ASSUME Typing, NEW p \in Requests, NEW r \in Request, LocalOK(r),
         req' = [req EXCEPT ![p] = r],
         UNCHANGED <<balance, ledger, adjusted, charge, withdrawal, captured>>
  PROVE  Typing'
  BY NewLocals DEF Typing, TypeOK, LocalOK

LEMMA ApprovedTyped ==
  ASSUME Typing, NEW w \in WithdrawalIds
  PROVE  /\ Approved(w) \in Withdrawal
         /\ Approved(w).status = "APPROVED"
         /\ Approved(w).amount = withdrawal[w].amount
         /\ Approved(w).withdrawn = withdrawal[w].withdrawn + withdrawal[w].amount
  <1>1. withdrawal[w] \in Withdrawal
    BY DEF Typing, TypeOK
  <1>2. withdrawal[w].withdrawn + withdrawal[w].amount \in Nat
    BY <1>1 DEF Withdrawal
  <1> QED
    BY <1>1, <1>2 DEF Approved, Withdrawal

LEMMA TypingNext == Typing /\ [Next]_vars => Typing'
  <1> SUFFICES ASSUME Typing, [Next]_vars PROVE Typing'
    OBVIOUS
  <1> USE WalletConstantsOK
  <1>1. ASSUME NEW t \in ChargeIds, CustomerPays(t) PROVE Typing'
    BY <1>1 DEF CustomerPays, Typing, TypeOK, LocalOK
  <1>2. ASSUME NEW p \in Requests, Charging(p) PROVE Typing'
    <2>1. ASSUME NEW t \in ChargeIds, NEW u \in Users, NEW amount \in Amounts,
                 InitiateWalletCharge(p, t, u, amount)
          PROVE  Typing'
      <3> DEFINE r == [Idle EXCEPT !.phase = "initiating", !.charge = t]
                 c == [status |-> "PENDING", user |-> u, amount |-> amount, refId |-> "none"]
      <3>0. r \in Request /\ r.phase = "initiating" /\ r.charge = t
        BY IdleTyped DEF Request, Phases
      <3>1. r \in Request /\ LocalOK(r)
        BY <3>0 DEF LocalOK, ChargePhases, ReviewPhases
      <3>2. c \in Charge
        BY DEF Charge
      <3>3. charge' = [charge EXCEPT ![t] = c] /\ req' = [req EXCEPT ![p] = r]
        BY <2>1 DEF InitiateWalletCharge
      <3> HIDE DEF r, c
      <3>4. charge' \in [ChargeIds -> Charge]
        BY <3>2, <3>3 DEF Typing, TypeOK
      <3> QED
        BY <2>1, <3>1, <3>3, <3>4, NewLocals DEF InitiateWalletCharge, Typing, TypeOK, LocalOK
    <2>2. CASE InitiateAnswer(p)
      <3>1. charge' \in [ChargeIds -> Charge]
        BY <2>2 DEF InitiateAnswer, Typing, TypeOK, Charge
      <3> QED
        BY <2>2, <3>1, IdleTyped, NewLocals DEF InitiateAnswer, Typing, TypeOK, LocalOK
    <2>3. ASSUME NEW t \in ChargeIds, VerifyWalletCharge(p, t) PROVE Typing'
      <3> DEFINE r == [Idle EXCEPT !.phase = "claiming", !.charge = t]
      <3>0. r \in Request /\ r.phase = "claiming" /\ r.charge = t
        BY IdleTyped DEF Request, Phases
      <3>1. r \in Request /\ LocalOK(r)
        BY <3>0 DEF LocalOK, ChargePhases, ReviewPhases
      <3> HIDE DEF r
      <3> QED
        BY <2>3, <3>1, LocalTyping DEF VerifyWalletCharge, r
    <2>4. CASE ClaimCharge(p)
      <3> DEFINE r == [req[p] EXCEPT !.phase = "verifying"]
      <3>1. charge' \in [ChargeIds -> Charge]
        BY <2>4 DEF ClaimCharge, Typing, TypeOK, Charge
      <3>2. r \in Request /\ LocalOK(r)
        BY <2>4, MovesOn DEF ClaimCharge, In, Typing, TypeOK, Phases, ChargePhases, ReviewPhases
      <3>3. req' = [req EXCEPT ![p] = r] \/ req' = [req EXCEPT ![p] = Idle]
        BY <2>4 DEF ClaimCharge
      <3> HIDE DEF r
      <3>4. req' \in [Requests -> Request] /\ \A q \in Requests : LocalOK(req'[q])
        BY <3>2, <3>3, IdleTyped, NewLocals
      <3> QED
        BY <2>4, <3>1, <3>4 DEF ClaimCharge, Typing, TypeOK, LocalOK
    <2>5. CASE GatewayAnswer(p)
      <3> DEFINE r == [req[p] EXCEPT !.phase = "confirmed"]
      <3>1. r \in Request /\ LocalOK(r)
        BY <2>5, MovesOn DEF GatewayAnswer, In, Typing, TypeOK, Phases, ChargePhases, ReviewPhases
      <3>2. req' = [req EXCEPT ![p] = r] \/ req' = [req EXCEPT ![p] = Idle]
        BY <2>5 DEF GatewayAnswer
      <3> HIDE DEF r
      <3> QED
        BY <2>5, <3>1, <3>2, IdleTyped, LocalTyping DEF GatewayAnswer
    <2>6. CASE CreditWallet(p)
      <3> DEFINE t == req[p].charge
                 c == [charge[t] EXCEPT !.status = "SUCCESS", !.refId = "receipt"]
      <3>0. t \in ChargeIds
        BY <2>6 DEF CreditWallet, In, Typing, LocalOK, ChargePhases
      <3>1. charge' \in [ChargeIds -> Charge]
        <4>1. c \in Charge
          BY <3>0 DEF Typing, TypeOK, Charge
        <4>2. charge' = [charge EXCEPT ![t] = c]
          BY <2>6 DEF CreditWallet
        <4> HIDE DEF c
        <4> QED
          BY <4>1, <4>2 DEF Typing, TypeOK
      <3>2. charge[t].amount \in Nat
        BY <3>0 DEF Typing, TypeOK, Charge
      <3>3. balance' \in [Users -> Int] /\ ledger' \in [Users -> Ledger]
        <4>1. /\ charge[t].amount \in Int /\ balance \in [Users -> Int]
              /\ ledger \in [Users -> Ledger]
              /\ balance' = [balance EXCEPT ![charge[t].user] = @ + charge[t].amount]
              /\ ledger' = [ledger EXCEPT ![charge[t].user].deposits = @ + charge[t].amount]
          BY <2>6, <3>2 DEF CreditWallet, Typing, TypeOK
        <4> HIDE DEF t
        <4> QED
          BY <3>2, <4>1, BalanceChange, LedgerChange
      <3> QED
        BY <2>6, <3>1, <3>3, IdleTyped, NewLocals
        DEF CreditWallet, Typing, TypeOK, LocalOK
    <2> QED
      BY <1>2, <2>1, <2>2, <2>3, <2>4, <2>5, <2>6 DEF Charging
  <1>3. ASSUME NEW p \in Requests, Withdrawing(p) PROVE Typing'
    <2>1. ASSUME NEW u \in Users, NEW amount \in Amounts, RequestWithdrawal(p, u, amount)
          PROVE  Typing'
      <3> DEFINE r == [Idle EXCEPT !.phase = "requesting", !.user = u, !.amount = amount]
      <3>1. amount \in Int /\ amount \in Nat
        OBVIOUS
      <3>2. r \in Request /\ r.phase = "requesting" /\ r.user = u /\ r.amount = amount
        BY <3>1, IdleTyped DEF Request, Phases
      <3>3. r \in Request /\ LocalOK(r)
        BY <3>1, <3>2 DEF LocalOK, ChargePhases, ReviewPhases
      <3> HIDE DEF r
      <3> QED
        BY <2>1, <3>3, LocalTyping DEF RequestWithdrawal, r
    <2>2. ASSUME NEW w \in WithdrawalIds, CreateWithdrawal(p, w) PROVE Typing'
      <3> DEFINE new == [NoWithdrawal EXCEPT !.status = "PENDING", !.user = req[p].user,
                                             !.amount = req[p].amount]
      <3>1. new \in Withdrawal
        BY <2>2 DEF CreateWithdrawal, In, Typing, LocalOK, NoWithdrawal, Withdrawal
      <3>2. withdrawal' = [withdrawal EXCEPT ![w] = new]
        BY <2>2 DEF CreateWithdrawal
      <3> HIDE DEF new
      <3>3. withdrawal' \in [WithdrawalIds -> Withdrawal]
        BY <3>1, <3>2 DEF Typing, TypeOK
      <3> QED
        BY <2>2, <3>3, IdleTyped, NewLocals DEF CreateWithdrawal, Typing, TypeOK, LocalOK
    <2>3. ASSUME NEW w \in WithdrawalIds, NEW decision, ReviewWithdrawalAdmin(p, w, decision)
          PROVE  Typing'
      <3> DEFINE r == [Idle EXCEPT !.phase = IF decision = "APPROVED" THEN "reviewing"
                                                                      ELSE "rejecting",
                                   !.withdrawal = w]
      <3>0. r \in Request /\ r.phase \in {"reviewing", "rejecting"} /\ r.withdrawal = w
        BY IdleTyped DEF Request, Phases
      <3>1. r \in Request /\ LocalOK(r)
        BY <3>0 DEF LocalOK, ChargePhases, ReviewPhases
      <3> HIDE DEF r
      <3> QED
        BY <2>3, <3>1, LocalTyping DEF ReviewWithdrawalAdmin, r
    <2>4. CASE CheckBalance(p)
      <3> DEFINE r == [req[p] EXCEPT !.phase = "approving"]
      <3>1. r \in Request /\ LocalOK(r)
        BY <2>4, MovesOn DEF CheckBalance, In, Typing, TypeOK, Phases, ChargePhases, ReviewPhases
      <3> HIDE DEF r
      <3> QED
        BY <2>4, <3>1, LocalTyping DEF CheckBalance, r
    <2>5. CASE ApproveWithdrawal(p)
      <3>1. req[p].withdrawal \in WithdrawalIds
        BY <2>5 DEF ApproveWithdrawal, In, Typing, LocalOK, ReviewPhases
      <3>2. /\ withdrawal[req[p].withdrawal].amount \in Nat
            /\ withdrawal[req[p].withdrawal].withdrawn \in Nat
            /\ Approved(req[p].withdrawal) \in Withdrawal
        BY <3>1, ApprovedTyped DEF Typing, TypeOK, Withdrawal
      <3>3. withdrawal' \in [WithdrawalIds -> Withdrawal]
        BY <2>5, <3>2 DEF ApproveWithdrawal, Typing, TypeOK
      <3>4. balance' \in [Users -> Int]
        <4> DEFINE a == withdrawal[req[p].withdrawal].amount
                   u == withdrawal[req[p].withdrawal].user
        <4>1. a \in Int /\ balance \in [Users -> Int] /\ balance' = [balance EXCEPT ![u] = @ - a]
          BY <2>5, <3>2 DEF ApproveWithdrawal, Typing, TypeOK
        <4> HIDE DEF a, u
        <4> QED
          BY <4>1, BalanceChange
      <3> QED
        BY <2>5, <3>3, <3>4, IdleTyped, NewLocals DEF ApproveWithdrawal, Typing, TypeOK, LocalOK
    <2>6. CASE RejectWithdrawal(p)
      <3>1. withdrawal' \in [WithdrawalIds -> Withdrawal]
        BY <2>6 DEF RejectWithdrawal, Typing, TypeOK, Withdrawal
      <3> QED
        BY <2>6, <3>1, IdleTyped, NewLocals DEF RejectWithdrawal, Typing, TypeOK, LocalOK
    <2> QED
      BY <1>3, <2>1, <2>2, <2>3, <2>4, <2>5, <2>6 DEF Withdrawing
  <1>4. ASSUME NEW p \in Requests, Adjusting(p) PROVE Typing'
    <2>1. ASSUME NEW u \in Users, NEW amount \in Adjustments, AdjustUserWallet(p, u, amount)
          PROVE  Typing'
      <3> DEFINE r == [Idle EXCEPT !.phase = "logging", !.user = u]
      <3>0. r \in Request /\ r.phase = "logging" /\ r.user = u
        BY IdleTyped DEF Request, Phases
      <3>1. r \in Request /\ LocalOK(r)
        BY <3>0 DEF LocalOK, ChargePhases, ReviewPhases
      <3>2. balance' \in [Users -> Int] /\ adjusted' \in [Users -> Adjusted]
        BY <2>1, BalanceChange DEF AdjustUserWallet, Typing, TypeOK, Adjusted
      <3>3. req' = [req EXCEPT ![p] = r]
        BY <2>1 DEF AdjustUserWallet
      <3> HIDE DEF r
      <3> QED
        BY <2>1, <3>1, <3>2, <3>3, NewLocals DEF AdjustUserWallet, Typing, TypeOK, LocalOK
    <2>2. CASE LogAdjustment(p)
      <3>1. ledger' \in [Users -> Ledger]
        BY <2>2, LedgerChange DEF LogAdjustment, Typing, TypeOK
      <3> QED
        BY <2>2, <3>1, IdleTyped, NewLocals DEF LogAdjustment, Typing, TypeOK, LocalOK
    <2> QED
      BY <1>4, <2>1, <2>2 DEF Adjusting
  <1>5. ASSUME NEW p \in Requests, Fail(p) PROVE Typing'
    BY <1>5, IdleTyped, LocalTyping DEF Fail
  <1>6. CASE UNCHANGED vars
    BY <1>6 DEF vars, Typing, TypeOK, LocalOK
  <1> QED
    BY <1>1, <1>2, <1>3, <1>4, <1>5, <1>6 DEF Next

\* Rows and handlers keep their shape in every behaviour of the wallet services.
THEOREM WalletTypes == Spec => []TypeOK
  <1>1. Spec => []Typing
    BY TypingInit, TypingNext, PTL DEF Spec
  <1>2. Typing => TypeOK
    BY DEF Typing
  <1> QED
    BY <1>1, <1>2, PTL
-------------------------------------------------------------------------------
\* No money moves before an approval, and an approval moves the amount.
LEMMA DecisionsNext ==
  Typing /\ WithdrawalsMatchDecisions /\ [Next]_vars => WithdrawalsMatchDecisions'
  <1> SUFFICES ASSUME Typing, WithdrawalsMatchDecisions, [Next]_vars
               PROVE  WithdrawalsMatchDecisions'
    OBVIOUS
  <1>0. /\ withdrawal \in [WithdrawalIds -> Withdrawal]
        /\ \A p \in Requests : req[p].phase \in ReviewPhases => req[p].withdrawal \in WithdrawalIds
    BY DEF Typing, TypeOK, LocalOK
  <1>1. ASSUME withdrawal' = withdrawal PROVE WithdrawalsMatchDecisions'
    BY <1>1 DEF WithdrawalsMatchDecisions
  <1>2. ASSUME NEW t \in ChargeIds, CustomerPays(t) PROVE WithdrawalsMatchDecisions'
    BY <1>1, <1>2 DEF CustomerPays
  <1>3. ASSUME NEW p \in Requests, Charging(p) \/ Adjusting(p) \/ Fail(p)
        PROVE  WithdrawalsMatchDecisions'
    BY <1>1, <1>3 DEF Charging, Adjusting, Fail, InitiateWalletCharge, InitiateAnswer,
       VerifyWalletCharge, ClaimCharge, GatewayAnswer, CreditWallet, AdjustUserWallet, LogAdjustment
  <1>4. ASSUME NEW p \in Requests, Withdrawing(p) PROVE WithdrawalsMatchDecisions'
    <2>1. ASSUME NEW w \in WithdrawalIds, CreateWithdrawal(p, w)
          PROVE  WithdrawalsMatchDecisions'
      <3> DEFINE new == [NoWithdrawal EXCEPT !.status = "PENDING", !.user = req[p].user,
                                             !.amount = req[p].amount]
      <3>1. new.status = "PENDING" /\ new.withdrawn = 0
        BY DEF NoWithdrawal
      <3>2. withdrawal' = [withdrawal EXCEPT ![w] = new]
        BY <2>1 DEF CreateWithdrawal
      <3> HIDE DEF new
      <3> QED
        BY <1>0, <3>1, <3>2 DEF WithdrawalsMatchDecisions
    <2>2. CASE ApproveWithdrawal(p)
      <3>1. PICK w \in WithdrawalIds : w = req[p].withdrawal
        BY <1>0, <2>2 DEF ApproveWithdrawal, In, ReviewPhases
      <3>2. withdrawal' = [withdrawal EXCEPT ![w] = Approved(w)]
        BY <2>2, <3>1 DEF ApproveWithdrawal
      <3>3. Approved(w).status = "APPROVED" /\ Approved(w).withdrawn >= Approved(w).amount
        BY <1>0, ApprovedTyped DEF Withdrawal
      <3> QED
        BY <1>0, <3>2, <3>3 DEF WithdrawalsMatchDecisions
    <2>3. CASE RejectWithdrawal(p)
      BY <1>0, <2>3 DEF RejectWithdrawal, Withdrawal, WithdrawalsMatchDecisions
    <2> QED
      BY <1>1, <1>4, <2>1, <2>2, <2>3
      DEF Withdrawing, RequestWithdrawal, ReviewWithdrawalAdmin, CheckBalance
  <1>5. CASE UNCHANGED vars
    BY <1>1, <1>5 DEF vars
  <1> QED
    BY <1>2, <1>3, <1>4, <1>5 DEF Next

\* A request that waits has paid nothing, an approved one its amount
\* (reviewWithdrawalAdmin).
THEOREM DecisionsMoveMoney == Spec => []WithdrawalsMatchDecisions
  <1>1. Init => WithdrawalsMatchDecisions
    BY DEF Init, NoWithdrawal, WithdrawalsMatchDecisions
  <1> QED
    BY <1>1, TypingInit, TypingNext, DecisionsNext, PTL DEF Spec
-------------------------------------------------------------------------------
(***************************************************************************)
(* Settling charges.                                                       *)
(***************************************************************************)
ClaimPhases == {"verifying", "confirmed"}

\* Handlers work on charges that exist, confirm what the gateway holds, and
\* share no claim.
ChargesOK ==
    /\ \A t \in ChargeIds : charge[t].status = "none" => charge[t].refId = "none"
    /\ \A p \in Requests :
          /\ req[p].phase \in ChargePhases => charge[req[p].charge].status # "none"
          /\ req[p].phase = "confirmed" => req[p].charge \in captured
          /\ req[p].phase \in ClaimPhases =>
                /\ charge[req[p].charge].status = "FAILED"
                /\ \A q \in Requests : Holds(q, req[p].charge) => q = p

IInv == Typing /\ ChargesOK

LEMMA IInvInit == Init => IInv
  <1> SUFFICES ASSUME Init PROVE IInv
    OBVIOUS
  <1>1. NoCharge.refId = "none"
    BY DEF NoCharge
  <1>2. ChargesOK
    BY <1>1, IdleTyped DEF Init, ChargesOK, ChargePhases, ClaimPhases
  <1> QED
    BY <1>2, TypingInit DEF IInv

\* A handler that neither holds nor takes a claim, and leaves the rows alone.
LEMMA UnrelatedStep ==
  ASSUME IInv, NEW p \in Requests, NEW r, req' = [req EXCEPT ![p] = r],
         UNCHANGED <<charge, captured>>,
         r.phase \notin ClaimPhases,
         r.phase \in ChargePhases => charge[r.charge].status # "none"
  PROVE  ChargesOK'
  <1>1. req \in [Requests -> Request]
    BY DEF IInv, Typing, TypeOK
  <1>2. req'[p] = r /\ \A q \in Requests : q # p => req'[q] = req[q]
    BY <1>1
  <1>3. \A q \in Requests, t \in ChargeIds : Holds(q, t)' => q # p /\ Holds(q, t)
    BY <1>2 DEF Holds, ClaimPhases
  <1>4. \A q \in Requests : req[q].phase \in ClaimPhases => req[q].charge \in ChargeIds
    BY DEF IInv, Typing, LocalOK, ChargePhases, ClaimPhases
  <1> QED
    BY <1>2, <1>3, <1>4 DEF IInv, ChargesOK, ClaimPhases

\* A handler that returns, or throws, frees its claim if it has one.
LEMMA ReturnStep ==
  ASSUME IInv, NEW p \in Requests, req' = [req EXCEPT ![p] = Idle],
         UNCHANGED <<charge, captured>>
  PROVE  ChargesOK'
  BY IdleTyped, UnrelatedStep DEF ClaimPhases, ChargePhases

LEMMA ChargesNext == IInv /\ [Next]_vars => ChargesOK'
  <1> SUFFICES ASSUME IInv, [Next]_vars PROVE ChargesOK'
    OBVIOUS
  <1>0. /\ req \in [Requests -> Request] /\ charge \in [ChargeIds -> Charge]
        /\ \A p \in Requests : req[p].phase \in ChargePhases => req[p].charge \in ChargeIds
    BY DEF IInv, Typing, TypeOK, LocalOK
  <1>1. ASSUME UNCHANGED <<charge, captured, req>> PROVE ChargesOK'
    BY <1>1 DEF IInv, ChargesOK, Holds
  <1>2. ASSUME NEW t \in ChargeIds, CustomerPays(t) PROVE ChargesOK'
    BY <1>2 DEF CustomerPays, IInv, ChargesOK, Holds
  <1>3. ASSUME NEW p \in Requests, Charging(p) PROVE ChargesOK'
    <2>1. ASSUME NEW t \in ChargeIds, NEW u \in Users, NEW amount \in Amounts,
                 InitiateWalletCharge(p, t, u, amount)
          PROVE  ChargesOK'
      <3> DEFINE r == [Idle EXCEPT !.phase = "initiating", !.charge = t]
                 c == [status |-> "PENDING", user |-> u, amount |-> amount, refId |-> "none"]
      <3>1. /\ charge' = [charge EXCEPT ![t] = c] /\ req' = [req EXCEPT ![p] = r]
            /\ captured' = captured /\ charge[t].status = "none"
        BY <2>1 DEF InitiateWalletCharge, NextCharge
      <3>2. r.phase = "initiating" /\ r.charge = t /\ c.status = "PENDING"
        BY DEF Idle
      <3> HIDE DEF r, c
      <3>3. charge'[t] = c /\ \A i \in ChargeIds : i # t => charge'[i] = charge[i]
        BY <1>0, <3>1
      <3>4. req'[p] = r /\ \A q \in Requests : q # p => req'[q] = req[q]
        BY <1>0, <3>1
      <3>5. \A q \in Requests : q # p /\ req[q].phase \in ChargePhases => req[q].charge # t
        BY <3>1 DEF IInv, ChargesOK
      <3> QED
        BY <1>0, <3>1, <3>2, <3>3, <3>4, <3>5
        DEF IInv, ChargesOK, ChargePhases, ClaimPhases, Holds
    <2>2. CASE InitiateAnswer(p)
      <3>1. PICK t \in ChargeIds : t = req[p].charge
        BY <1>0, <2>2 DEF InitiateAnswer, In, ChargePhases
      <3>2. /\ charge' = [charge EXCEPT ![t].refId = "session"] /\ captured' = captured
            /\ req' = [req EXCEPT ![p] = Idle] /\ charge[t].status # "none"
        BY <2>2, <3>1 DEF InitiateAnswer, In, IInv, ChargesOK, ChargePhases
      <3>3. \A i \in ChargeIds : /\ charge'[i].status = charge[i].status
                                 /\ i # t => charge'[i] = charge[i]
        BY <1>0, <3>2 DEF Charge
      <3>4. req'[p].phase = "idle" /\ \A q \in Requests : q # p => req'[q] = req[q]
        BY <1>0, <3>2, IdleTyped
      <3> QED
        BY <1>0, <3>2, <3>3, <3>4 DEF IInv, ChargesOK, ChargePhases, ClaimPhases, Holds
    <2>3. ASSUME NEW t \in ChargeIds, VerifyWalletCharge(p, t) PROVE ChargesOK'
      <3> DEFINE r == [Idle EXCEPT !.phase = "claiming", !.charge = t]
      <3>1. r.phase = "claiming" /\ r.charge = t
        BY DEF Idle
      <3>2. req' = [req EXCEPT ![p] = r] /\ UNCHANGED <<charge, captured>>
            /\ charge[t].status # "none"
        BY <2>3 DEF VerifyWalletCharge
      <3> HIDE DEF r
      <3> QED
        BY <3>1, <3>2, UnrelatedStep DEF ClaimPhases
    <2>4. CASE ClaimCharge(p)
      <3>1. PICK t \in ChargeIds : t = req[p].charge
        BY <1>0, <2>4 DEF ClaimCharge, In, ChargePhases
      <3>2. CASE ~Claimable(t)
        BY <2>4, <3>1, <3>2, ReturnStep DEF ClaimCharge
      <3>3. CASE Claimable(t)
        <4>1. /\ charge' = [charge EXCEPT ![t].status = "FAILED"] /\ captured' = captured
              /\ req' = [req EXCEPT ![p].phase = "verifying"] /\ charge[t].status = "PENDING"
          BY <2>4, <3>1, <3>3 DEF ClaimCharge, Claimable
        <4>2. /\ charge'[t].status = "FAILED"
              /\ \A i \in ChargeIds : i # t => charge'[i] = charge[i]
          BY <1>0, <4>1 DEF Charge
        <4>3. /\ req'[p].phase = "verifying" /\ req'[p].charge = t
              /\ \A q \in Requests : q # p => req'[q] = req[q]
          BY <1>0, <3>1, <4>1 DEF Request
        <4>4. \A q \in Requests : ~Holds(q, t)
          BY <4>1 DEF Holds, IInv, ChargesOK, ClaimPhases
        <4> QED
          BY <1>0, <4>1, <4>2, <4>3, <4>4
          DEF IInv, ChargesOK, ChargePhases, ClaimPhases, Holds
      <3> QED
        BY <3>2, <3>3
    <2>5. CASE GatewayAnswer(p)
      <3>1. CASE req' = [req EXCEPT ![p] = Idle]
        BY <2>5, <3>1, ReturnStep DEF GatewayAnswer
      <3>2. CASE req[p].charge \in captured /\ req' = [req EXCEPT ![p].phase = "confirmed"]
        <4>1. /\ req'[p].phase = "confirmed" /\ req'[p].charge = req[p].charge
              /\ \A q \in Requests : q # p => req'[q] = req[q]
          BY <1>0, <3>2 DEF Request
        <4>2. req[p].phase = "verifying" /\ UNCHANGED <<charge, captured>>
          BY <2>5 DEF GatewayAnswer, In
        <4>3. \A q \in Requests, t \in ChargeIds : Holds(q, t)' <=> Holds(q, t)
          BY <4>1, <4>2 DEF Holds
        <4> QED
          BY <1>0, <3>2, <4>1, <4>2, <4>3 DEF IInv, ChargesOK, ChargePhases, ClaimPhases
      <3> QED
        BY <2>5, <3>1, <3>2 DEF GatewayAnswer
    <2>6. CASE CreditWallet(p)
      <3>1. PICK t \in ChargeIds : t = req[p].charge
        BY <1>0, <2>6 DEF CreditWallet, In, ChargePhases
      <3> DEFINE c == [charge[t] EXCEPT !.status = "SUCCESS", !.refId = "receipt"]
      <3>2. /\ charge' = [charge EXCEPT ![t] = c] /\ captured' = captured
            /\ req' = [req EXCEPT ![p] = Idle] /\ req[p].phase = "confirmed"
        BY <2>6, <3>1 DEF CreditWallet, In
      <3>3. c.status = "SUCCESS"
        BY <1>0 DEF Charge
      <3> HIDE DEF c
      <3>4. charge'[t] = c /\ \A i \in ChargeIds : i # t => charge'[i] = charge[i]
        BY <1>0, <3>2
      <3>5. req'[p].phase = "idle" /\ \A q \in Requests : q # p => req'[q] = req[q]
        BY <1>0, <3>2, IdleTyped
      <3>6. \A q \in Requests : q # p => ~Holds(q, t)
        BY <3>1, <3>2 DEF IInv, ChargesOK, ClaimPhases
      <3> QED
        BY <1>0, <3>2, <3>3, <3>4, <3>5, <3>6
        DEF IInv, ChargesOK, ChargePhases, ClaimPhases, Holds
    <2> QED
      BY <1>3, <2>1, <2>2, <2>3, <2>4, <2>5, <2>6 DEF Charging
  <1>4. ASSUME NEW p \in Requests, Withdrawing(p) PROVE ChargesOK'
    <2>1. ASSUME NEW r, req' = [req EXCEPT ![p] = r], r.phase \notin ChargePhases,
                 UNCHANGED <<charge, captured>>
          PROVE  ChargesOK'
      BY <2>1, UnrelatedStep DEF ChargePhases, ClaimPhases
    <2>2. ASSUME NEW u \in Users, NEW amount \in Amounts, RequestWithdrawal(p, u, amount)
          PROVE  ChargesOK'
      BY <2>1, <2>2 DEF RequestWithdrawal, Idle, ChargePhases
    <2>3. ASSUME NEW w \in WithdrawalIds, CreateWithdrawal(p, w) PROVE ChargesOK'
      BY <2>3, ReturnStep DEF CreateWithdrawal
    <2>4. ASSUME NEW w \in WithdrawalIds, NEW decision, ReviewWithdrawalAdmin(p, w, decision)
          PROVE  ChargesOK'
      <3> DEFINE r == [Idle EXCEPT !.phase = IF decision = "APPROVED" THEN "reviewing"
                                                                      ELSE "rejecting",
                                   !.withdrawal = w]
      <3>1. r.phase \in {"reviewing", "rejecting"}
        BY DEF Idle
      <3>2. req' = [req EXCEPT ![p] = r] /\ UNCHANGED <<charge, captured>>
        BY <2>4 DEF ReviewWithdrawalAdmin
      <3> HIDE DEF r
      <3> QED
        BY <2>1, <3>1, <3>2 DEF ChargePhases
    <2>5. CASE CheckBalance(p)
      <3> DEFINE r == [req[p] EXCEPT !.phase = "approving"]
      <3>1. r.phase = "approving"
        BY <1>0 DEF Request
      <3>2. req' = [req EXCEPT ![p] = r] /\ UNCHANGED <<charge, captured>>
        BY <2>5 DEF CheckBalance
      <3> HIDE DEF r
      <3> QED
        BY <2>1, <3>1, <3>2 DEF ChargePhases
    <2>6. CASE ApproveWithdrawal(p) \/ RejectWithdrawal(p)
      BY <2>6, ReturnStep DEF ApproveWithdrawal, RejectWithdrawal
    <2> QED
      BY <1>4, <2>2, <2>3, <2>4, <2>5, <2>6 DEF Withdrawing
  <1>5. ASSUME NEW p \in Requests, Adjusting(p) PROVE ChargesOK'
    <2>1. ASSUME NEW u \in Users, NEW amount \in Adjustments, AdjustUserWallet(p, u, amount)
          PROVE  ChargesOK'
      BY <2>1, UnrelatedStep DEF AdjustUserWallet, Idle, ChargePhases, ClaimPhases
    <2> QED
      BY <1>5, <2>1, ReturnStep DEF Adjusting, LogAdjustment
  <1>6. ASSUME NEW p \in Requests, Fail(p) PROVE ChargesOK'
    BY <1>6, ReturnStep DEF Fail
  <1>7. CASE UNCHANGED vars
    BY <1>1, <1>7 DEF vars
  <1> QED
    BY <1>2, <1>3, <1>4, <1>5, <1>6, <1>7 DEF Next

LEMMA Invariance == Spec => []IInv
  BY IInvInit, TypingNext, ChargesNext, PTL DEF Spec, IInv
-------------------------------------------------------------------------------
(***************************************************************************)
(* Charging a wallet implements Settlement.                                *)
(***************************************************************************)
LEMMA ChargeStates ==
  ASSUME NEW t \in ChargeIds
  PROVE  /\ charge[t].status = "none" => ChargeState(t) = "none"
         /\ charge[t].status = "PENDING" => ChargeState(t) = "open"
         /\ charge[t].status = "SUCCESS" => ChargeState(t) = "settled"
         /\ charge[t].status = "FAILED" =>
               ChargeState(t) = IF \E p \in Requests : Holds(p, t) THEN "claimed" ELSE "dropped"
  BY DEF ChargeState

\* What a step leaves alone of a charge and its claim, the settlement does not see.
LEMMA SameCharge ==
  ASSUME NEW t \in ChargeIds, charge'[t].status = charge[t].status,
         \A p \in Requests : Holds(p, t)' <=> Holds(p, t)
  PROVE  ChargeState(t)' = ChargeState(t)
  BY DEF ChargeState

LEMMA ChargeStutters ==
  ASSUME captured' = captured,
         \A t \in ChargeIds : /\ charge'[t].status = charge[t].status
                               /\ \A p \in Requests : Holds(p, t)' <=> Holds(p, t)
  PROVE  UNCHANGED ChargePayment!vars
  BY SameCharge DEF ChargePayment!vars

LEMMA ChargeMoves ==
  ASSUME captured' = captured, NEW t \in ChargeIds, NEW from, NEW to,
         ChargeState(t) = from, ChargeState(t)' = to,
         \A i \in ChargeIds \ {t} : /\ charge'[i].status = charge[i].status
                                     /\ \A p \in Requests : Holds(p, i)' <=> Holds(p, i)
  PROVE  ChargePayment!Move(t, from, to)
  <1> DEFINE st == [i \in ChargeIds |-> ChargeState(i)]
  <1>1. st[t] = from
    OBVIOUS
  <1>2. st' = [i \in ChargeIds |-> IF i = t THEN to ELSE st[i]]
    BY SameCharge
  <1>3. st' = [st EXCEPT ![t] = to]
    BY <1>2
  <1> QED
    BY <1>1, <1>3 DEF ChargePayment!Move

\* A handler that neither holds nor takes a claim.
LEMMA ClaimsKept ==
  ASSUME IInv, NEW p \in Requests, NEW r, req' = [req EXCEPT ![p] = r],
         req[p].phase \notin ClaimPhases, r.phase \notin ClaimPhases
  PROVE  \A q \in Requests, t \in ChargeIds : Holds(q, t)' <=> Holds(q, t)
  <1>1. req \in [Requests -> Request]
    BY DEF IInv, Typing, TypeOK
  <1> QED
    BY <1>1 DEF Holds, ClaimPhases

LEMMA ClaimGivenUp ==
  ASSUME IInv, NEW p \in Requests, NEW t \in ChargeIds, Holds(p, t),
         req' = [req EXCEPT ![p] = Idle]
  PROVE  /\ \A q \in Requests : ~Holds(q, t)'
         /\ \A q \in Requests, i \in ChargeIds \ {t} : Holds(q, i)' <=> Holds(q, i)
  <1>1. req \in [Requests -> Request]
    BY DEF IInv, Typing, TypeOK
  <1>2. \A q \in Requests : q # p => req'[q] = req[q] /\ ~Holds(q, t)
    BY <1>1 DEF IInv, ChargesOK, Holds, ClaimPhases
  <1>3. req'[p].phase = "idle"
    BY <1>1, IdleTyped
  <1> QED
    BY <1>2, <1>3 DEF Holds

\* A step that keeps every charge's status, by a handler without a claim.
LEMMA ChargeUnseen ==
  ASSUME IInv, NEW p \in Requests, NEW r, req' = [req EXCEPT ![p] = r],
         req[p].phase \notin ClaimPhases, r.phase \notin ClaimPhases,
         captured' = captured,
         \A t \in ChargeIds : charge'[t].status = charge[t].status
  PROVE  UNCHANGED ChargePayment!vars
  BY ClaimsKept, ChargeStutters

\* The gateway refused the charge, or its request died.
LEMMA DropStep ==
  ASSUME IInv, NEW p \in Requests, NEW t \in ChargeIds, Holds(p, t),
         req' = [req EXCEPT ![p] = Idle], UNCHANGED <<charge, captured>>
  PROVE  ChargePayment!Drop(t)
  <1>1. charge[t].status = "FAILED"
    BY DEF IInv, ChargesOK, Holds, ClaimPhases
  <1>2. /\ \A q \in Requests : ~Holds(q, t)'
        /\ \A q \in Requests, i \in ChargeIds \ {t} : Holds(q, i)' <=> Holds(q, i)
    BY ClaimGivenUp
  <1>3. ChargeState(t) = "claimed"
    BY <1>1, ChargeStates
  <1>4. ChargeState(t)' = "dropped"
    BY <1>1, <1>2 DEF ChargeState
  <1> QED
    BY <1>2, <1>3, <1>4, ChargeMoves DEF ChargePayment!Drop

LEMMA OpenStep ==
  ASSUME IInv, NEW p \in Requests, NEW t \in ChargeIds, NEW u \in Users,
         NEW amount \in Amounts, InitiateWalletCharge(p, t, u, amount)
  PROVE  ChargePayment!Open(t)
  <1> DEFINE r == [Idle EXCEPT !.phase = "initiating", !.charge = t]
             c == [status |-> "PENDING", user |-> u, amount |-> amount, refId |-> "none"]
  <1>1. /\ charge' = [charge EXCEPT ![t] = c] /\ captured' = captured
        /\ req' = [req EXCEPT ![p] = r] /\ req[p].phase = "idle"
        /\ charge[t].status = "none" /\ charge \in [ChargeIds -> Charge]
    BY DEF InitiateWalletCharge, NextCharge, In, IInv, Typing, TypeOK
  <1>2. r.phase = "initiating" /\ c.status = "PENDING"
    BY DEF Idle
  <1> HIDE DEF r, c
  <1>3. \A q \in Requests, i \in ChargeIds : Holds(q, i)' <=> Holds(q, i)
    BY <1>1, <1>2, ClaimsKept DEF ClaimPhases
  <1>4. charge'[t].status = "PENDING" /\ \A i \in ChargeIds \ {t} : charge'[i] = charge[i]
    BY <1>1, <1>2
  <1>5. ChargeState(t) = "none"
    BY <1>1, ChargeStates
  <1>6. ChargeState(t)' = "open"
    BY <1>4 DEF ChargeState
  <1> QED
    BY <1>1, <1>3, <1>4, <1>5, <1>6, ChargeMoves DEF ChargePayment!Open

LEMMA ClaimStep ==
  ASSUME IInv, NEW p \in Requests, ClaimCharge(p)
  PROVE  (\E t \in ChargeIds : ChargePayment!Claim(t)) \/ UNCHANGED ChargePayment!vars
  <1>1. PICK t \in ChargeIds : t = req[p].charge
    BY DEF ClaimCharge, In, IInv, Typing, LocalOK, ChargePhases
  <1>2. /\ req[p].phase = "claiming" /\ captured' = captured
        /\ req \in [Requests -> Request] /\ charge \in [ChargeIds -> Charge]
    BY DEF ClaimCharge, In, IInv, Typing, TypeOK
  <1>3. CASE ~Claimable(t)
    <2>1. req' = [req EXCEPT ![p] = Idle] /\ charge' = charge
      BY <1>1, <1>3 DEF ClaimCharge
    <2> QED
      BY <1>2, <2>1, IdleTyped, ChargeUnseen DEF ClaimPhases
  <1>4. CASE Claimable(t)
    <2>1. /\ charge[t].status = "PENDING"
          /\ charge' = [charge EXCEPT ![t].status = "FAILED"]
          /\ req' = [req EXCEPT ![p].phase = "verifying"]
      BY <1>1, <1>4 DEF ClaimCharge, Claimable
    <2>2. charge'[t].status = "FAILED" /\ \A i \in ChargeIds \ {t} : charge'[i] = charge[i]
      BY <1>2, <2>1 DEF Charge
    <2>3. /\ req'[p].phase = "verifying" /\ req'[p].charge = t
          /\ \A q \in Requests : q # p => req'[q] = req[q]
      BY <1>1, <1>2, <2>1 DEF Request
    <2>4. Holds(p, t)'
      BY <2>3 DEF Holds
    <2>5. \A q \in Requests, i \in ChargeIds \ {t} : Holds(q, i)' <=> Holds(q, i)
      BY <1>2, <2>3 DEF Holds
    <2>6. ChargeState(t) = "open"
      BY <2>1, ChargeStates
    <2>7. ChargeState(t)' = "claimed"
      BY <2>2, <2>4 DEF ChargeState
    <2> QED
      BY <1>2, <2>2, <2>5, <2>6, <2>7, ChargeMoves DEF ChargePayment!Claim
  <1> QED
    BY <1>3, <1>4

LEMMA GatewayStep ==
  ASSUME IInv, NEW p \in Requests, GatewayAnswer(p)
  PROVE  (\E t \in ChargeIds : ChargePayment!Drop(t)) \/ UNCHANGED ChargePayment!vars
  <1>1. PICK t \in ChargeIds : t = req[p].charge
    BY DEF GatewayAnswer, In, IInv, Typing, LocalOK, ChargePhases
  <1>2. Holds(p, t) /\ UNCHANGED <<charge, captured>> /\ req \in [Requests -> Request]
    BY <1>1 DEF GatewayAnswer, In, Holds, IInv, Typing, TypeOK
  <1>3. CASE req' = [req EXCEPT ![p] = Idle]
    BY <1>2, <1>3, DropStep
  <1>4. CASE req' = [req EXCEPT ![p].phase = "confirmed"]
    <2>1. /\ req'[p].phase = "confirmed" /\ req'[p].charge = t
          /\ \A q \in Requests : q # p => req'[q] = req[q]
      BY <1>1, <1>2, <1>4 DEF Request
    <2>2. \A q \in Requests, i \in ChargeIds : Holds(q, i)' <=> Holds(q, i)
      BY <1>2, <2>1 DEF Holds
    <2> QED
      BY <1>2, <2>2, ChargeStutters
  <1> QED
    BY <1>3, <1>4 DEF GatewayAnswer

LEMMA SettleStep ==
  ASSUME IInv, NEW p \in Requests, CreditWallet(p)
  PROVE  \E t \in ChargeIds : ChargePayment!Settle(t)
  <1>1. PICK t \in ChargeIds : t = req[p].charge
    BY DEF CreditWallet, In, IInv, Typing, LocalOK, ChargePhases
  <1> DEFINE c == [charge[t] EXCEPT !.status = "SUCCESS", !.refId = "receipt"]
  <1>2. /\ req[p].phase = "confirmed" /\ captured' = captured
        /\ req' = [req EXCEPT ![p] = Idle] /\ charge' = [charge EXCEPT ![t] = c]
        /\ charge \in [ChargeIds -> Charge]
    BY <1>1 DEF CreditWallet, In, IInv, Typing, TypeOK
  <1>3. Holds(p, t) /\ t \in captured /\ charge[t].status = "FAILED"
    BY <1>1, <1>2 DEF Holds, IInv, ChargesOK, ClaimPhases
  <1>4. charge'[t].status = "SUCCESS" /\ \A i \in ChargeIds \ {t} : charge'[i] = charge[i]
    BY <1>2 DEF Charge
  <1>5. \A q \in Requests, i \in ChargeIds \ {t} : Holds(q, i)' <=> Holds(q, i)
    BY <1>2, <1>3, ClaimGivenUp
  <1>6. ChargeState(t) = "claimed"
    BY <1>3, ChargeStates
  <1>7. ChargeState(t)' = "settled"
    BY <1>4 DEF ChargeState
  <1> HIDE DEF c
  <1> QED
    BY <1>2, <1>3, <1>4, <1>5, <1>6, <1>7, ChargeMoves DEF ChargePayment!Settle

LEMMA FailStep ==
  ASSUME IInv, NEW p \in Requests, req' = [req EXCEPT ![p] = Idle],
         UNCHANGED <<charge, captured>>
  PROVE  (\E t \in ChargeIds : ChargePayment!Drop(t)) \/ UNCHANGED ChargePayment!vars
  <1>1. CASE req[p].phase \in ClaimPhases
    <2>1. PICK t \in ChargeIds : t = req[p].charge
      BY <1>1 DEF IInv, Typing, LocalOK, ChargePhases, ClaimPhases
    <2> QED
      BY <1>1, <2>1, DropStep DEF Holds, ClaimPhases
  <1>2. CASE req[p].phase \notin ClaimPhases
    BY <1>2, IdleTyped, ChargeUnseen DEF ClaimPhases
  <1> QED
    BY <1>1, <1>2

LEMMA ChargeInit == Init => ChargePayment!Init
  <1> SUFFICES ASSUME Init PROVE ChargePayment!Init
    OBVIOUS
  <1>1. \A t \in ChargeIds : ChargeState(t) = "none"
    BY ChargeStates DEF Init, NoCharge
  <1> QED
    BY <1>1 DEF Init, ChargePayment!Init

LEMMA ChargeNext == IInv /\ [Next]_vars => [ChargePayment!Next]_(ChargePayment!vars)
  <1> SUFFICES ASSUME IInv, [Next]_vars
               PROVE  ChargePayment!Next \/ UNCHANGED ChargePayment!vars
    OBVIOUS
  <1>0. req \in [Requests -> Request] /\ charge \in [ChargeIds -> Charge]
    BY DEF IInv, Typing, TypeOK
  <1>1. ASSUME NEW p \in Requests, NEW r, req' = [req EXCEPT ![p] = r],
               UNCHANGED <<charge, captured>>,
               req[p].phase \notin ClaimPhases, r.phase \notin ClaimPhases
        PROVE  UNCHANGED ChargePayment!vars
    BY <1>1, ChargeUnseen
  <1>2. ASSUME NEW t \in ChargeIds, CustomerPays(t) PROVE ChargePayment!Next
    <2>1. charge[t].status \in {"PENDING", "FAILED", "SUCCESS"}
      BY <1>0, <1>2 DEF CustomerPays, IInv, ChargesOK, Charge
    <2>2. ChargeState(t) # "none"
      BY <2>1, ChargeStates
    <2>3. \A i \in ChargeIds : ChargeState(i)' = ChargeState(i)
      BY <1>2, SameCharge DEF CustomerPays, Holds
    <2> QED
      BY <1>2, <2>2, <2>3 DEF CustomerPays, ChargePayment!Capture, ChargePayment!Next
  <1>3. ASSUME NEW p \in Requests, Charging(p)
        PROVE  ChargePayment!Next \/ UNCHANGED ChargePayment!vars
    <2>1. ASSUME NEW t \in ChargeIds, NEW u \in Users, NEW amount \in Amounts,
                 InitiateWalletCharge(p, t, u, amount)
          PROVE  ChargePayment!Next
      BY <2>1, OpenStep DEF ChargePayment!Next
    <2>2. CASE InitiateAnswer(p)
      <3>1. /\ req[p].phase = "initiating" /\ captured' = captured
            /\ req' = [req EXCEPT ![p] = Idle]
            /\ charge' = [charge EXCEPT ![req[p].charge].refId = "session"]
        BY <2>2 DEF InitiateAnswer, In
      <3>2. \A t \in ChargeIds : charge'[t].status = charge[t].status
        BY <1>0, <3>1 DEF Charge
      <3> QED
        BY <3>1, <3>2, IdleTyped, ChargeUnseen DEF ClaimPhases
    <2>3. ASSUME NEW t \in ChargeIds, VerifyWalletCharge(p, t)
          PROVE  UNCHANGED ChargePayment!vars
      BY <1>1, <2>3 DEF VerifyWalletCharge, In, Idle, ClaimPhases
    <2> QED
      BY <1>3, <2>1, <2>2, <2>3, ClaimStep, GatewayStep, SettleStep
      DEF Charging, ChargePayment!Next
  <1>4. ASSUME NEW p \in Requests, Withdrawing(p) PROVE UNCHANGED ChargePayment!vars
    <2>1. ASSUME NEW u \in Users, NEW amount \in Amounts, RequestWithdrawal(p, u, amount)
          PROVE  UNCHANGED ChargePayment!vars
      BY <1>1, <2>1 DEF RequestWithdrawal, In, Idle, ClaimPhases
    <2>2. ASSUME NEW w \in WithdrawalIds, CreateWithdrawal(p, w)
          PROVE  UNCHANGED ChargePayment!vars
      BY <1>1, <2>2, IdleTyped DEF CreateWithdrawal, In, ClaimPhases
    <2>3. ASSUME NEW w \in WithdrawalIds, NEW decision, ReviewWithdrawalAdmin(p, w, decision)
          PROVE  UNCHANGED ChargePayment!vars
      <3> DEFINE r == [Idle EXCEPT !.phase = IF decision = "APPROVED" THEN "reviewing"
                                                                      ELSE "rejecting",
                                   !.withdrawal = w]
      <3>1. r.phase \in {"reviewing", "rejecting"}
        BY DEF Idle
      <3>2. /\ req[p].phase = "idle" /\ req' = [req EXCEPT ![p] = r]
            /\ UNCHANGED <<charge, captured>>
        BY <2>3 DEF ReviewWithdrawalAdmin, In
      <3> HIDE DEF r
      <3> QED
        BY <1>1, <3>1, <3>2 DEF ClaimPhases
    <2>4. CASE CheckBalance(p)
      <3> DEFINE r == [req[p] EXCEPT !.phase = "approving"]
      <3>1. r.phase = "approving"
        BY <1>0 DEF Request
      <3>2. /\ req[p].phase = "reviewing" /\ req' = [req EXCEPT ![p] = r]
            /\ UNCHANGED <<charge, captured>>
        BY <2>4 DEF CheckBalance, In
      <3> HIDE DEF r
      <3> QED
        BY <1>1, <3>1, <3>2 DEF ClaimPhases
    <2>5. CASE ApproveWithdrawal(p) \/ RejectWithdrawal(p)
      BY <1>1, <2>5, IdleTyped DEF ApproveWithdrawal, RejectWithdrawal, In, ClaimPhases
    <2> QED
      BY <1>4, <2>1, <2>2, <2>3, <2>4, <2>5 DEF Withdrawing
  <1>5. ASSUME NEW p \in Requests, Adjusting(p) PROVE UNCHANGED ChargePayment!vars
    <2>1. ASSUME NEW u \in Users, NEW amount \in Adjustments, AdjustUserWallet(p, u, amount)
          PROVE  UNCHANGED ChargePayment!vars
      BY <1>1, <2>1 DEF AdjustUserWallet, In, Idle, ClaimPhases
    <2>2. CASE LogAdjustment(p)
      BY <1>1, <2>2, IdleTyped DEF LogAdjustment, In, ClaimPhases
    <2> QED
      BY <1>5, <2>1, <2>2 DEF Adjusting
  <1>6. ASSUME NEW p \in Requests, Fail(p)
        PROVE  ChargePayment!Next \/ UNCHANGED ChargePayment!vars
    BY <1>6, FailStep DEF Fail, ChargePayment!Next
  <1>7. CASE UNCHANGED vars
    BY <1>7, ChargeStutters DEF vars, Holds
  <1> QED
    BY <1>2, <1>3, <1>4, <1>5, <1>6, <1>7 DEF Next

\* Charging a wallet implements a settlement: one claim, one credit, only captured
\* money (verifyWalletCharge).
THEOREM ChargeImplementsSettlement == Spec => ChargeSpec
  <1>1. Spec => ChargePayment!Init /\ [][ChargePayment!Next]_(ChargePayment!vars)
    BY ChargeInit, ChargeNext, Invariance, PTL DEF Spec
  <1> QED
    BY <1>1 DEF ChargeSpec, ChargePayment!Spec
-------------------------------------------------------------------------------
(***************************************************************************)
(* What a balance is made of.                                              *)
(***************************************************************************)
Succeeded(u) == {t \in ChargeIds : charge[t].status = "SUCCESS" /\ charge[t].user = u}

WithdrawalsOf(u) == {w \in WithdrawalIds : withdrawal[w].user = u}

\* Handlers that have adjusted a balance and not yet written the ledger row.
Logging(u) == {p \in Requests : In(p, "logging") /\ req[p].user = u}

\* Autoincrement keys and handlers in flight: finitely many of each.
Finitely ==
    \A u \in Users : /\ IsFiniteSet(Succeeded(u))
                     /\ IsFiniteSet(WithdrawalsOf(u))
                     /\ IsFiniteSet(Logging(u))

BalancesAddUp ==
    \A u \in Users :
        /\ balance[u] = CreditedTo(u) - WithdrawnFrom(u) + adjusted[u].total
        /\ ledger[u].deposits = CreditedTo(u)

\* Every adjustment is logged, about to be, or lost with its handler.
AdjustmentsLogged ==
    \A u \in Users : ledger[u].adjustments + Cardinality(Logging(u)) <= adjusted[u].count

MoneyInv == Finitely /\ BalancesAddUp /\ AdjustmentsLogged

LEMMA MoneyInit == Init => MoneyInv
  <1> SUFFICES ASSUME Init PROVE MoneyInv
    OBVIOUS
  <1> SUFFICES ASSUME NEW u \in Users
               PROVE  /\ IsFiniteSet(Succeeded(u))
                      /\ IsFiniteSet(WithdrawalsOf(u))
                      /\ IsFiniteSet(Logging(u))
                      /\ balance[u] = CreditedTo(u) - WithdrawnFrom(u) + adjusted[u].total
                      /\ ledger[u].deposits = CreditedTo(u)
                      /\ ledger[u].adjustments + Cardinality(Logging(u)) <= adjusted[u].count
    BY DEF MoneyInv, Finitely, BalancesAddUp, AdjustmentsLogged
  <1>1. Succeeded(u) = {}
    BY DEF Init, NoCharge, Succeeded
  <1>2. WithdrawalsOf(u) = {}
    BY WalletConstantsOK DEF Init, NoWithdrawal, WithdrawalsOf
  <1>3. Logging(u) = {}
    BY IdleTyped DEF Init, Logging, In
  <1>4. CreditedTo(u) = 0 /\ WithdrawnFrom(u) = 0
    BY <1>1, <1>2, SumEmpty DEF CreditedTo, WithdrawnFrom, Succeeded, WithdrawalsOf
  <1>5. /\ balance[u] = 0 /\ ledger[u].deposits = 0 /\ ledger[u].adjustments = 0
        /\ adjusted[u].count = 0 /\ adjusted[u].total = 0
    BY DEF Init
  <1> QED
    BY <1>1, <1>2, <1>3, <1>4, <1>5, FS_EmptySet

\* Charges and withdrawals whose rows count for the same as before.
LEMMA CreditsSame ==
  ASSUME Finitely, NEW u \in Users,
         \A t \in ChargeIds : charge[t].status = "SUCCESS" <=> charge'[t].status = "SUCCESS",
         \A t \in ChargeIds : charge[t].status = "SUCCESS" =>
            charge'[t].user = charge[t].user /\ charge'[t].amount = charge[t].amount
  PROVE  Succeeded(u)' = Succeeded(u) /\ CreditedTo(u)' = CreditedTo(u)
  <1> DEFINE f == [t \in ChargeIds |-> charge[t].amount]
             e == [t \in ChargeIds |-> charge'[t].amount]
  <1>1. Succeeded(u)' = Succeeded(u)
    BY DEF Succeeded
  <1>2. (\A t \in Succeeded(u) : f[t] = e[t]) /\ IsFiniteSet(Succeeded(u))
    BY DEF Succeeded, Finitely
  <1> HIDE DEF f, e
  <1>3. SumFunctionOnSet(f, Succeeded(u)) = SumFunctionOnSet(e, Succeeded(u))
    BY <1>2, SumSame
  <1> QED
    BY <1>1, <1>3 DEF CreditedTo, Succeeded, f, e

LEMMA WithdrawalsSame ==
  ASSUME Finitely, NEW u \in Users,
         \A w \in WithdrawalIds : /\ withdrawal'[w].user = withdrawal[w].user
                                  /\ withdrawal'[w].withdrawn = withdrawal[w].withdrawn
  PROVE  WithdrawalsOf(u)' = WithdrawalsOf(u) /\ WithdrawnFrom(u)' = WithdrawnFrom(u)
  <1> DEFINE f == [w \in WithdrawalIds |-> withdrawal[w].withdrawn]
             e == [w \in WithdrawalIds |-> withdrawal'[w].withdrawn]
  <1>1. WithdrawalsOf(u)' = WithdrawalsOf(u)
    BY DEF WithdrawalsOf
  <1>2. (\A w \in WithdrawalsOf(u) : f[w] = e[w]) /\ IsFiniteSet(WithdrawalsOf(u))
    BY DEF WithdrawalsOf, Finitely
  <1> HIDE DEF f, e
  <1>3. SumFunctionOnSet(f, WithdrawalsOf(u)) = SumFunctionOnSet(e, WithdrawalsOf(u))
    BY <1>2, SumSame
  <1> QED
    BY <1>1, <1>3 DEF WithdrawnFrom, WithdrawalsOf, f, e

LEMMA SumsTyped ==
  ASSUME Typing, Finitely, NEW u \in Users
  PROVE  CreditedTo(u) \in Nat /\ WithdrawnFrom(u) \in Nat
  <1> DEFINE f == [t \in ChargeIds |-> charge[t].amount]
             g == [w \in WithdrawalIds |-> withdrawal[w].withdrawn]
  <1>1. /\ \A t \in Succeeded(u) : f[t] \in Nat
        /\ \A w \in WithdrawalsOf(u) : g[w] \in Nat
    BY DEF Typing, TypeOK, Charge, Withdrawal, Succeeded, WithdrawalsOf
  <1> HIDE DEF f, g
  <1>2. SumFunctionOnSet(f, Succeeded(u)) \in Nat /\ SumFunctionOnSet(g, WithdrawalsOf(u)) \in Nat
    BY <1>1, SumNat DEF Finitely
  <1> QED
    BY <1>2 DEF CreditedTo, WithdrawnFrom, Succeeded, WithdrawalsOf, f, g

\* Handlers that were not logging and are not.
LEMMA LoggingSame ==
  ASSUME Typing, NEW p \in Requests, NEW r, req' = [req EXCEPT ![p] = r],
         req[p].phase # "logging", r.phase # "logging", NEW u
  PROVE  Logging(u)' = Logging(u)
  <1>1. req'[p] = r /\ \A q \in Requests : q # p => req'[q] = req[q]
    BY DEF Typing, TypeOK
  <1> QED
    BY <1>1 DEF Logging, In

\* A step that moves no money.
LEMMA NoMoneyMoves ==
  ASSUME Typing, MoneyInv, UNCHANGED <<balance, ledger, adjusted>>,
         \A u \in Users : /\ Succeeded(u)' = Succeeded(u) /\ CreditedTo(u)' = CreditedTo(u)
                          /\ IsFiniteSet(WithdrawalsOf(u)') /\ WithdrawnFrom(u)' = WithdrawnFrom(u)
                          /\ Logging(u)' = Logging(u)
  PROVE  MoneyInv'
  BY DEF MoneyInv, Finitely, BalancesAddUp, AdjustmentsLogged

\* A step of one handler that touches no row.
LEMMA LocalMoney ==
  ASSUME Typing, MoneyInv, NEW p \in Requests, NEW r, req' = [req EXCEPT ![p] = r],
         req[p].phase # "logging", r.phase # "logging",
         UNCHANGED <<balance, ledger, adjusted, charge, withdrawal>>
  PROVE  MoneyInv'
  <1>1. \A u \in Users : /\ Succeeded(u)' = Succeeded(u) /\ CreditedTo(u)' = CreditedTo(u)
                         /\ WithdrawalsOf(u)' = WithdrawalsOf(u) /\ WithdrawnFrom(u)' = WithdrawnFrom(u)
                         /\ Logging(u)' = Logging(u)
    BY CreditsSame, WithdrawalsSame, LoggingSame DEF MoneyInv
  <1> QED
    BY <1>1, NoMoneyMoves DEF MoneyInv, Finitely

\* A step of one handler on a charge that is not successful before or after.
LEMMA ChargeMoney ==
  ASSUME Typing, MoneyInv, NEW p \in Requests, NEW r, req' = [req EXCEPT ![p] = r],
         req[p].phase # "logging", r.phase # "logging",
         UNCHANGED <<balance, ledger, adjusted, withdrawal>>,
         \A t \in ChargeIds : charge[t].status = "SUCCESS" <=> charge'[t].status = "SUCCESS",
         \A t \in ChargeIds : charge[t].status = "SUCCESS" =>
            charge'[t].user = charge[t].user /\ charge'[t].amount = charge[t].amount
  PROVE  MoneyInv'
  <1>1. \A u \in Users : Succeeded(u)' = Succeeded(u) /\ CreditedTo(u)' = CreditedTo(u)
    BY CreditsSame DEF MoneyInv
  <1>2. \A u \in Users : /\ WithdrawalsOf(u)' = WithdrawalsOf(u)
                         /\ WithdrawnFrom(u)' = WithdrawnFrom(u)
                         /\ Logging(u)' = Logging(u)
    BY WithdrawalsSame, LoggingSame DEF MoneyInv
  <1> QED
    BY <1>1, <1>2, NoMoneyMoves DEF MoneyInv, Finitely

\* Crediting a charge: it becomes successful now, and for its own amount.
LEMMA CreditMoney ==
  ASSUME IInv, MoneyInv, NEW p \in Requests, CreditWallet(p)
  PROVE  MoneyInv'
  <1>0. /\ charge \in [ChargeIds -> Charge] /\ balance \in [Users -> Int]
        /\ ledger \in [Users -> Ledger] /\ adjusted \in [Users -> Adjusted]
        /\ Typing /\ Finitely
    BY DEF IInv, Typing, TypeOK, MoneyInv
  <1>1. PICK t \in ChargeIds : t = req[p].charge
    BY DEF CreditWallet, In, IInv, Typing, LocalOK, ChargePhases
  <1> DEFINE c == [charge[t] EXCEPT !.status = "SUCCESS", !.refId = "receipt"]
             a == charge[t].amount
             o == charge[t].user
  <1>2. /\ charge' = [charge EXCEPT ![t] = c] /\ req[p].phase = "confirmed"
        /\ balance' = [balance EXCEPT ![o] = @ + a]
        /\ ledger' = [ledger EXCEPT ![o].deposits = @ + a]
        /\ req' = [req EXCEPT ![p] = Idle]
        /\ UNCHANGED <<adjusted, withdrawal>>
    BY <1>1 DEF CreditWallet, In
  <1>3. c.status = "SUCCESS" /\ c.user = o /\ c.amount = a /\ a \in Nat
    BY <1>0 DEF Charge
  <1>4. charge[t].status = "FAILED"
    BY <1>1, <1>2 DEF IInv, ChargesOK, ClaimPhases
  <1> HIDE DEF c
  <1>5. charge'[t] = c /\ \A i \in ChargeIds : i # t => charge'[i] = charge[i]
    BY <1>0, <1>2
  <1>6. SUFFICES ASSUME NEW u \in Users
                 PROVE  /\ IsFiniteSet(Succeeded(u)')
                        /\ IsFiniteSet(WithdrawalsOf(u)')
                        /\ IsFiniteSet(Logging(u)')
                        /\ balance'[u] = CreditedTo(u)' - WithdrawnFrom(u)' + adjusted'[u].total
                        /\ ledger'[u].deposits = CreditedTo(u)'
                        /\ ledger'[u].adjustments + Cardinality(Logging(u)') <= adjusted'[u].count
    BY DEF MoneyInv, Finitely, BalancesAddUp, AdjustmentsLogged
  <1>7. /\ WithdrawalsOf(u)' = WithdrawalsOf(u) /\ WithdrawnFrom(u)' = WithdrawnFrom(u)
        /\ Logging(u)' = Logging(u)
    BY <1>0, <1>2, IdleTyped, WithdrawalsSame, LoggingSame
  <1>8. /\ balance[u] = CreditedTo(u) - WithdrawnFrom(u) + adjusted[u].total
        /\ ledger[u].deposits = CreditedTo(u)
        /\ ledger[u].adjustments + Cardinality(Logging(u)) <= adjusted[u].count
        /\ IsFiniteSet(Succeeded(u)) /\ IsFiniteSet(WithdrawalsOf(u)) /\ IsFiniteSet(Logging(u))
    BY DEF MoneyInv, Finitely, BalancesAddUp, AdjustmentsLogged
  <1>9. CreditedTo(u) \in Nat /\ WithdrawnFrom(u) \in Nat /\ adjusted[u].total \in Int
    BY <1>0, SumsTyped DEF Adjusted
  <1> DEFINE f == [i \in ChargeIds |-> charge[i].amount]
             e == [i \in ChargeIds |-> charge'[i].amount]
  <1>10. /\ \A i \in ChargeIds : i # t => e[i] = f[i]
         /\ e[t] = a /\ f[t] = a /\ \A i \in ChargeIds : f[i] \in Int
    BY <1>0, <1>3, <1>5 DEF Charge
  <1>11. CreditedTo(u) = SumFunctionOnSet(f, Succeeded(u))
         /\ CreditedTo(u)' = SumFunctionOnSet(e, Succeeded(u)')
    BY DEF CreditedTo, Succeeded
  <1>12. t \notin Succeeded(u) /\ Succeeded(u) \subseteq ChargeIds
    BY <1>4 DEF Succeeded
  <1> HIDE DEF f, e
  <1>13. CASE u = o
    <2>1. Succeeded(u)' = Succeeded(u) \cup {t}
      BY <1>3, <1>4, <1>5, <1>13 DEF Succeeded
    <2>2. \A i \in Succeeded(u) : f[i] \in Int /\ e[i] = f[i]
      BY <1>10, <1>12
    <2>3. SumFunctionOnSet(e, Succeeded(u) \cup {t}) = SumFunctionOnSet(f, Succeeded(u)) + e[t]
      BY <1>3, <1>8, <1>10, <1>12, <2>2, SumGrows
    <2>4. CreditedTo(u)' = CreditedTo(u) + a
      BY <1>10, <1>11, <2>1, <2>3
    <2>5. /\ balance'[u] = balance[u] + a
          /\ ledger'[u].deposits = ledger[u].deposits + a
          /\ ledger'[u].adjustments = ledger[u].adjustments
      BY <1>0, <1>2, <1>13 DEF Ledger
    <2>6. balance'[u] = CreditedTo(u)' - WithdrawnFrom(u) + adjusted[u].total
      BY <1>3, <1>8, <1>9, <2>4, <2>5
    <2>7. IsFiniteSet(Succeeded(u)')
      BY <1>8, <2>1, FS_AddElement
    <2> QED
      BY <1>2, <1>7, <1>8, <2>4, <2>5, <2>6, <2>7
  <1>14. CASE u # o
    <2>1. Succeeded(u)' = Succeeded(u)
      BY <1>3, <1>4, <1>5, <1>14 DEF Succeeded
    <2>2. \A i \in Succeeded(u) : f[i] = e[i]
      BY <1>10, <1>12
    <2>3. SumFunctionOnSet(f, Succeeded(u)) = SumFunctionOnSet(e, Succeeded(u))
      BY <1>8, <2>2, SumSame
    <2>4. CreditedTo(u)' = CreditedTo(u)
      BY <1>11, <2>1, <2>3
    <2>5. balance'[u] = balance[u] /\ ledger'[u] = ledger[u]
      BY <1>0, <1>2, <1>14
    <2> QED
      BY <1>2, <1>7, <1>8, <2>1, <2>4, <2>5
  <1> QED
    BY <1>13, <1>14

\* A new request names its owner and has withdrawn nothing.
LEMMA CreateMoney ==
  ASSUME IInv, MoneyInv, NEW p \in Requests, NEW w \in WithdrawalIds, CreateWithdrawal(p, w),
         withdrawal[w].user = Nobody
  PROVE  MoneyInv'
  <1>0. withdrawal \in [WithdrawalIds -> Withdrawal] /\ Typing /\ Finitely
    BY DEF IInv, Typing, TypeOK, MoneyInv
  <1> DEFINE new == [NoWithdrawal EXCEPT !.status = "PENDING", !.user = req[p].user,
                                         !.amount = req[p].amount]
  <1>1. /\ withdrawal' = [withdrawal EXCEPT ![w] = new] /\ req[p].phase = "requesting"
        /\ req' = [req EXCEPT ![p] = Idle]
        /\ UNCHANGED <<balance, ledger, adjusted, charge>>
    BY DEF CreateWithdrawal, In
  <1>2. new.withdrawn = 0 /\ new.user = req[p].user
    BY DEF NoWithdrawal
  <1> HIDE DEF new
  <1>3. withdrawal'[w] = new /\ \A i \in WithdrawalIds : i # w => withdrawal'[i] = withdrawal[i]
    BY <1>0, <1>1
  <1>4. SUFFICES ASSUME NEW u \in Users
                 PROVE  IsFiniteSet(WithdrawalsOf(u)') /\ WithdrawnFrom(u)' = WithdrawnFrom(u)
    <2>1. \A u \in Users : /\ Succeeded(u)' = Succeeded(u) /\ CreditedTo(u)' = CreditedTo(u)
                           /\ Logging(u)' = Logging(u)
      BY <1>0, <1>1, IdleTyped, CreditsSame, LoggingSame
    <2> QED
      BY <1>0, <1>1, <1>4, <2>1, NoMoneyMoves
  <1> DEFINE f == [i \in WithdrawalIds |-> withdrawal[i].withdrawn]
             e == [i \in WithdrawalIds |-> withdrawal'[i].withdrawn]
             W == WithdrawalsOf(u)
  <1>5. /\ \A i \in WithdrawalIds : i # w => e[i] = f[i]
        /\ e[w] = 0 /\ \A i \in WithdrawalIds : f[i] \in Int
    BY <1>0, <1>2, <1>3 DEF Withdrawal
  <1>6. /\ WithdrawnFrom(u) = SumFunctionOnSet(f, W)
        /\ WithdrawnFrom(u)' = SumFunctionOnSet(e, WithdrawalsOf(u)')
    BY DEF WithdrawnFrom, WithdrawalsOf
  <1>7. w \notin W /\ W \subseteq WithdrawalIds /\ IsFiniteSet(W)
    BY <1>0, WalletConstantsOK DEF WithdrawalsOf, Finitely
  <1> HIDE DEF f, e
  <1>8. CASE u = req[p].user
    <2>1. WithdrawalsOf(u)' = W \cup {w}
      BY <1>2, <1>3, <1>8 DEF WithdrawalsOf
    <2>2. \A i \in W : f[i] \in Int /\ e[i] = f[i]
      BY <1>5, <1>7
    <2> HIDE DEF W
    <2>3. SumFunctionOnSet(e, W \cup {w}) = SumFunctionOnSet(f, W) + e[w]
      BY <1>5, <1>7, <2>2, SumGrows
    <2>4. SumFunctionOnSet(f, W) \in Int
      BY <1>7, <2>2, SumInt
    <2>5. WithdrawnFrom(u)' = WithdrawnFrom(u)
      BY <1>5, <1>6, <2>1, <2>3, <2>4
    <2> QED
      BY <1>7, <2>1, <2>5, FS_AddElement
  <1>9. CASE u # req[p].user
    <2>1. WithdrawalsOf(u)' = W
      <3>1. withdrawal[w].user # u
        BY WalletConstantsOK
      <3> QED
        BY <1>2, <1>3, <1>9, <3>1 DEF WithdrawalsOf
    <2>2. \A i \in W : f[i] = e[i]
      BY <1>5, <1>7
    <2> HIDE DEF W
    <2>3. SumFunctionOnSet(f, W) = SumFunctionOnSet(e, W)
      BY <1>7, <2>2, SumSame
    <2> QED
      BY <1>6, <1>7, <2>1, <2>3
  <1> QED
    BY <1>8, <1>9

\* An approval moves the amount from the balance to the WITHDRAW rows.
LEMMA ApproveMoney ==
  ASSUME IInv, MoneyInv, NEW p \in Requests, ApproveWithdrawal(p)
  PROVE  MoneyInv'
  <1>0. /\ withdrawal \in [WithdrawalIds -> Withdrawal] /\ balance \in [Users -> Int]
        /\ adjusted \in [Users -> Adjusted] /\ Typing /\ Finitely
    BY DEF IInv, Typing, TypeOK, MoneyInv
  <1>1. PICK w \in WithdrawalIds : w = req[p].withdrawal
    BY DEF ApproveWithdrawal, In, IInv, Typing, LocalOK, ReviewPhases
  <1> DEFINE new == Approved(w)
             a == withdrawal[w].amount
             o == withdrawal[w].user
  <1>2. /\ withdrawal' = [withdrawal EXCEPT ![w] = new] /\ req[p].phase = "approving"
        /\ balance' = [balance EXCEPT ![o] = @ - a]
        /\ req' = [req EXCEPT ![p] = Idle]
        /\ UNCHANGED <<ledger, adjusted, charge>>
    BY <1>1 DEF ApproveWithdrawal, In
  <1>3. /\ new.withdrawn = withdrawal[w].withdrawn + a /\ new.user = o
        /\ a \in Nat /\ withdrawal[w].withdrawn \in Nat
    <2>1. withdrawal[w] \in Withdrawal
      BY <1>0
    <2> QED
      BY <1>0, <2>1, ApprovedTyped DEF Approved, Withdrawal
  <1> HIDE DEF new
  <1>4. withdrawal'[w] = new /\ \A i \in WithdrawalIds : i # w => withdrawal'[i] = withdrawal[i]
    BY <1>0, <1>2
  <1>5. SUFFICES ASSUME NEW u \in Users
                 PROVE  /\ IsFiniteSet(Succeeded(u)')
                        /\ IsFiniteSet(WithdrawalsOf(u)')
                        /\ IsFiniteSet(Logging(u)')
                        /\ balance'[u] = CreditedTo(u)' - WithdrawnFrom(u)' + adjusted'[u].total
                        /\ ledger'[u].deposits = CreditedTo(u)'
                        /\ ledger'[u].adjustments + Cardinality(Logging(u)') <= adjusted'[u].count
    BY DEF MoneyInv, Finitely, BalancesAddUp, AdjustmentsLogged
  <1>6. /\ Succeeded(u)' = Succeeded(u) /\ CreditedTo(u)' = CreditedTo(u)
        /\ Logging(u)' = Logging(u)
    BY <1>0, <1>2, IdleTyped, CreditsSame, LoggingSame
  <1>7. /\ balance[u] = CreditedTo(u) - WithdrawnFrom(u) + adjusted[u].total
        /\ ledger[u].deposits = CreditedTo(u)
        /\ ledger[u].adjustments + Cardinality(Logging(u)) <= adjusted[u].count
        /\ IsFiniteSet(Succeeded(u)) /\ IsFiniteSet(WithdrawalsOf(u)) /\ IsFiniteSet(Logging(u))
    BY DEF MoneyInv, Finitely, BalancesAddUp, AdjustmentsLogged
  <1>8. CreditedTo(u) \in Nat /\ WithdrawnFrom(u) \in Nat /\ adjusted[u].total \in Int
    BY <1>0, SumsTyped DEF Adjusted
  <1> DEFINE f == [i \in WithdrawalIds |-> withdrawal[i].withdrawn]
             e == [i \in WithdrawalIds |-> withdrawal'[i].withdrawn]
             W == WithdrawalsOf(u)
  <1>9. /\ \A i \in WithdrawalIds : i # w => e[i] = f[i]
        /\ e[w] = f[w] + a /\ f[w] \in Int
        /\ \A i \in WithdrawalIds : f[i] \in Int /\ e[i] \in Int
    BY <1>0, <1>3, <1>4 DEF Withdrawal
  <1>10. W \subseteq WithdrawalIds /\ WithdrawalsOf(u)' = W
    BY <1>3, <1>4 DEF WithdrawalsOf
  <1>11. /\ WithdrawnFrom(u) = SumFunctionOnSet(f, W)
         /\ WithdrawnFrom(u)' = SumFunctionOnSet(e, WithdrawalsOf(u)')
    BY DEF WithdrawnFrom, WithdrawalsOf
  <1>12. w \in W <=> u = o
    BY DEF WithdrawalsOf
  <1> HIDE DEF f, e, W
  <1>13. CASE u = o
    <2>1. \A i \in W : f[i] \in Int /\ e[i] \in Int
      BY <1>9, <1>10
    <2>2. \A i \in W \ {w} : e[i] = f[i]
      BY <1>9, <1>10
    <2>3. w \in W /\ IsFiniteSet(W)
      BY <1>7, <1>12, <1>13 DEF W
    <2>4. SumFunctionOnSet(e, W) = SumFunctionOnSet(f, W) + e[w] - f[w]
      BY <2>1, <2>2, <2>3, SumChange
    <2>5. WithdrawnFrom(u)' = WithdrawnFrom(u) + a
      BY <1>3, <1>8, <1>9, <1>10, <1>11, <2>4
    <2>6. balance'[u] = balance[u] - a
      BY <1>0, <1>2, <1>13
    <2>7. balance'[u] = CreditedTo(u) - WithdrawnFrom(u)' + adjusted[u].total
      BY <1>3, <1>7, <1>8, <2>5, <2>6
    <2> QED
      BY <1>2, <1>6, <1>7, <1>10, <2>7 DEF W
  <1>14. CASE u # o
    <2>1. \A i \in W : f[i] = e[i]
      BY <1>9, <1>10, <1>12, <1>14
    <2>2. SumFunctionOnSet(f, W) = SumFunctionOnSet(e, W)
      BY <1>7, <2>1, SumSame DEF W
    <2>3. WithdrawnFrom(u)' = WithdrawnFrom(u)
      BY <1>10, <1>11, <2>2
    <2>4. balance'[u] = balance[u]
      BY <1>0, <1>2, <1>14
    <2> QED
      BY <1>2, <1>6, <1>7, <1>10, <2>3, <2>4 DEF W
  <1> QED
    BY <1>13, <1>14

\* The two halves of an adjustment, and a handler that dies between them.
LEMMA AdjustMoney ==
  ASSUME IInv, MoneyInv, NEW p \in Requests, NEW o \in Users, NEW a \in Adjustments,
         AdjustUserWallet(p, o, a)
  PROVE  MoneyInv'
  <1>0. /\ balance \in [Users -> Int] /\ adjusted \in [Users -> Adjusted] /\ a \in Int
        /\ ledger \in [Users -> Ledger]
        /\ req \in [Requests -> Request] /\ Typing /\ Finitely
    BY WalletConstantsOK DEF IInv, Typing, TypeOK, MoneyInv
  <1> DEFINE r == [Idle EXCEPT !.phase = "logging", !.user = o]
             n == [count |-> adjusted[o].count + 1, total |-> adjusted[o].total + a]
  <1>1. /\ req[p].phase = "idle" /\ balance' = [balance EXCEPT ![o] = @ + a]
        /\ adjusted' = [adjusted EXCEPT ![o] = n]
        /\ req' = [req EXCEPT ![p] = r]
        /\ UNCHANGED <<ledger, charge, withdrawal>>
    BY DEF AdjustUserWallet, In
  <1>2. r.phase = "logging" /\ r.user = o
    BY DEF Idle
  <1>3. n.count = adjusted[o].count + 1 /\ n.total = adjusted[o].total + a
    OBVIOUS
  <1> HIDE DEF r, n
  <1>4. req'[p] = r /\ \A q \in Requests : q # p => req'[q] = req[q]
    BY <1>0, <1>1
  <1>5. SUFFICES ASSUME NEW u \in Users
                 PROVE  /\ IsFiniteSet(Succeeded(u)')
                        /\ IsFiniteSet(WithdrawalsOf(u)')
                        /\ IsFiniteSet(Logging(u)')
                        /\ balance'[u] = CreditedTo(u)' - WithdrawnFrom(u)' + adjusted'[u].total
                        /\ ledger'[u].deposits = CreditedTo(u)'
                        /\ ledger'[u].adjustments + Cardinality(Logging(u)') <= adjusted'[u].count
    BY DEF MoneyInv, Finitely, BalancesAddUp, AdjustmentsLogged
  <1>6. /\ Succeeded(u)' = Succeeded(u) /\ CreditedTo(u)' = CreditedTo(u)
        /\ WithdrawalsOf(u)' = WithdrawalsOf(u) /\ WithdrawnFrom(u)' = WithdrawnFrom(u)
    BY <1>0, <1>1, CreditsSame, WithdrawalsSame
  <1>7. /\ balance[u] = CreditedTo(u) - WithdrawnFrom(u) + adjusted[u].total
        /\ ledger[u].deposits = CreditedTo(u)
        /\ ledger[u].adjustments + Cardinality(Logging(u)) <= adjusted[u].count
        /\ IsFiniteSet(Succeeded(u)) /\ IsFiniteSet(WithdrawalsOf(u)) /\ IsFiniteSet(Logging(u))
    BY DEF MoneyInv, Finitely, BalancesAddUp, AdjustmentsLogged
  <1>8. /\ CreditedTo(u) \in Nat /\ WithdrawnFrom(u) \in Nat /\ adjusted[u].total \in Int
        /\ adjusted[u].count \in Nat /\ ledger[u].adjustments \in Nat
        /\ Cardinality(Logging(u)) \in Nat
    BY <1>0, <1>7, SumsTyped, FS_CardinalityType DEF Adjusted, Ledger
  <1>9. CASE u = o
    <2>1. Logging(u)' = Logging(u) \cup {p} /\ p \notin Logging(u)
      BY <1>1, <1>2, <1>4, <1>9 DEF Logging, In
    <2>2. IsFiniteSet(Logging(u)') /\ Cardinality(Logging(u)') = Cardinality(Logging(u)) + 1
      BY <1>7, <2>1, FS_AddElement
    <2>3. /\ adjusted'[u].count = adjusted[u].count + 1
          /\ adjusted'[u].total = adjusted[u].total + a
          /\ balance'[u] = balance[u] + a
      BY <1>0, <1>1, <1>3, <1>9
    <2>4. balance'[u] = CreditedTo(u) - WithdrawnFrom(u) + adjusted'[u].total
      BY <1>0, <1>7, <1>8, <2>3
    <2>5. ledger'[u].adjustments + Cardinality(Logging(u)') <= adjusted'[u].count
      BY <1>1, <1>7, <1>8, <2>2, <2>3
    <2> QED
      BY <1>1, <1>6, <1>7, <2>2, <2>4, <2>5
  <1>10. CASE u # o
    <2>1. Logging(u)' = Logging(u)
      BY <1>1, <1>2, <1>4, <1>10 DEF Logging, In
    <2>2. adjusted'[u] = adjusted[u] /\ balance'[u] = balance[u]
      BY <1>0, <1>1, <1>10
    <2> QED
      BY <1>1, <1>6, <1>7, <2>1, <2>2
  <1> QED
    BY <1>9, <1>10

\* A handler stops logging: its row is written, or lost.
LEMMA LoggedMoney ==
  ASSUME IInv, MoneyInv, NEW p \in Requests, req[p].phase = "logging",
         req' = [req EXCEPT ![p] = Idle],
         \/ ledger' = [ledger EXCEPT ![req[p].user].adjustments = @ + 1]
         \/ ledger' = ledger,
         UNCHANGED <<balance, adjusted, charge, withdrawal>>
  PROVE  MoneyInv'
  <1>0. /\ ledger \in [Users -> Ledger] /\ adjusted \in [Users -> Adjusted]
        /\ req \in [Requests -> Request] /\ Typing /\ Finitely
    BY DEF IInv, Typing, TypeOK, MoneyInv
  <1>1. /\ req'[p].phase = "idle" /\ \A q \in Requests : q # p => req'[q] = req[q]
    BY <1>0, IdleTyped
  <1>2. SUFFICES ASSUME NEW u \in Users
                 PROVE  /\ IsFiniteSet(Logging(u)')
                        /\ ledger'[u].deposits = CreditedTo(u)
                        /\ ledger'[u].adjustments + Cardinality(Logging(u)') <= adjusted[u].count
    <2>1. \A u \in Users :
              /\ Succeeded(u)' = Succeeded(u) /\ CreditedTo(u)' = CreditedTo(u)
              /\ WithdrawalsOf(u)' = WithdrawalsOf(u) /\ WithdrawnFrom(u)' = WithdrawnFrom(u)
      BY <1>0, CreditsSame, WithdrawalsSame
    <2> QED
      BY <1>2, <2>1 DEF MoneyInv, Finitely, BalancesAddUp, AdjustmentsLogged
  <1>3. /\ ledger[u].deposits = CreditedTo(u)
        /\ ledger[u].adjustments + Cardinality(Logging(u)) <= adjusted[u].count
        /\ IsFiniteSet(Logging(u))
    BY DEF MoneyInv, Finitely, BalancesAddUp, AdjustmentsLogged
  <1>4. /\ adjusted[u].count \in Nat /\ ledger[u].adjustments \in Nat
        /\ Cardinality(Logging(u)) \in Nat
    BY <1>0, <1>3, FS_CardinalityType DEF Adjusted, Ledger
  <1>5. CASE u = req[p].user
    <2>1. Logging(u)' = Logging(u) \ {p} /\ p \in Logging(u)
      BY <1>1, <1>5 DEF Logging, In
    <2>2. IsFiniteSet(Logging(u)') /\ Cardinality(Logging(u)') = Cardinality(Logging(u)) - 1
      BY <1>3, <2>1, FS_RemoveElement
    <2>3. /\ ledger'[u].deposits = ledger[u].deposits
          /\ ledger'[u].adjustments \in {ledger[u].adjustments, ledger[u].adjustments + 1}
      BY <1>0, <1>5 DEF Ledger
    <2> QED
      BY <1>3, <1>4, <2>2, <2>3
  <1>6. CASE u # req[p].user
    <2>1. Logging(u)' = Logging(u)
      BY <1>1, <1>6 DEF Logging, In
    <2>2. ledger'[u] = ledger[u]
      BY <1>0, <1>6
    <2> QED
      BY <1>3, <2>1, <2>2
  <1> QED
    BY <1>5, <1>6

\* A request that was not made names nobody.
Unmade == \A w \in WithdrawalIds : withdrawal[w].status = "none" => withdrawal[w].user = Nobody

LEMMA UnmadeNext == IInv /\ Unmade /\ [Next]_vars => Unmade'
  <1> SUFFICES ASSUME IInv, Unmade, [Next]_vars PROVE Unmade'
    OBVIOUS
  <1>0. withdrawal \in [WithdrawalIds -> Withdrawal]
    BY DEF IInv, Typing, TypeOK
  <1>1. ASSUME withdrawal' = withdrawal PROVE Unmade'
    BY <1>1 DEF Unmade
  <1>2. ASSUME NEW p \in Requests, NEW w \in WithdrawalIds, CreateWithdrawal(p, w) PROVE Unmade'
    <2> DEFINE new == [NoWithdrawal EXCEPT !.status = "PENDING", !.user = req[p].user,
                                           !.amount = req[p].amount]
    <2>1. withdrawal' = [withdrawal EXCEPT ![w] = new] /\ new.status = "PENDING"
      BY <1>2 DEF CreateWithdrawal, NoWithdrawal
    <2> HIDE DEF new
    <2> QED
      BY <1>0, <2>1 DEF Unmade
  <1>3. ASSUME NEW p \in Requests, ApproveWithdrawal(p) PROVE Unmade'
    <2>1. PICK w \in WithdrawalIds : w = req[p].withdrawal
      BY <1>3 DEF ApproveWithdrawal, In, IInv, Typing, LocalOK, ReviewPhases
    <2>2. withdrawal' = [withdrawal EXCEPT ![w] = Approved(w)] /\ Approved(w).status = "APPROVED"
      BY <1>3, <2>1, ApprovedTyped DEF ApproveWithdrawal, IInv
    <2> QED
      BY <1>0, <2>2 DEF Unmade
  <1>4. ASSUME NEW p \in Requests, RejectWithdrawal(p) PROVE Unmade'
    BY <1>0, <1>4 DEF RejectWithdrawal, Unmade, Withdrawal
  <1> QED
    BY <1>1, <1>2, <1>3, <1>4 DEF Next, vars, CustomerPays, Charging, Withdrawing, Adjusting, Fail,
       InitiateWalletCharge, InitiateAnswer, VerifyWalletCharge, ClaimCharge, GatewayAnswer,
       CreditWallet, RequestWithdrawal, ReviewWithdrawalAdmin, CheckBalance, AdjustUserWallet,
       LogAdjustment

LEMMA MoneyNext == IInv /\ Unmade /\ MoneyInv /\ [Next]_vars => MoneyInv'
  <1> SUFFICES ASSUME IInv, Unmade, MoneyInv, [Next]_vars PROVE MoneyInv'
    OBVIOUS
  <1>0. /\ req \in [Requests -> Request] /\ charge \in [ChargeIds -> Charge]
        /\ withdrawal \in [WithdrawalIds -> Withdrawal] /\ Typing
    BY DEF IInv, Typing, TypeOK
  <1>1. ASSUME UNCHANGED <<balance, ledger, adjusted, charge, withdrawal, req>> PROVE MoneyInv'
    BY <1>1 DEF MoneyInv, Finitely, BalancesAddUp, AdjustmentsLogged, Succeeded, WithdrawalsOf,
                Logging, In, CreditedTo, WithdrawnFrom
  <1>2. ASSUME NEW t \in ChargeIds, CustomerPays(t) PROVE MoneyInv'
    BY <1>1, <1>2 DEF CustomerPays
  <1>3. ASSUME NEW p \in Requests, Charging(p) PROVE MoneyInv'
    <2>1. ASSUME NEW t \in ChargeIds, NEW u \in Users, NEW amount \in Amounts,
                 InitiateWalletCharge(p, t, u, amount)
          PROVE  MoneyInv'
      <3> DEFINE r == [Idle EXCEPT !.phase = "initiating", !.charge = t]
                 c == [status |-> "PENDING", user |-> u, amount |-> amount, refId |-> "none"]
      <3>1. /\ charge' = [charge EXCEPT ![t] = c] /\ req' = [req EXCEPT ![p] = r]
            /\ charge[t].status = "none" /\ req[p].phase = "idle"
            /\ UNCHANGED <<balance, ledger, adjusted, withdrawal>>
        BY <2>1 DEF InitiateWalletCharge, NextCharge, In
      <3>2. r.phase = "initiating" /\ c.status = "PENDING"
        BY DEF Idle
      <3> HIDE DEF r, c
      <3>3. charge'[t] = c /\ \A i \in ChargeIds : i # t => charge'[i] = charge[i]
        BY <1>0, <3>1
      <3> QED
        BY <1>0, <3>1, <3>2, <3>3, ChargeMoney
    <2>2. CASE InitiateAnswer(p)
      <3>1. /\ charge' = [charge EXCEPT ![req[p].charge].refId = "session"]
            /\ req[p].phase = "initiating" /\ req' = [req EXCEPT ![p] = Idle]
            /\ UNCHANGED <<balance, ledger, adjusted, withdrawal>>
        BY <2>2 DEF InitiateAnswer, In
      <3>2. \A i \in ChargeIds : /\ charge'[i].status = charge[i].status
                                 /\ charge'[i].user = charge[i].user
                                 /\ charge'[i].amount = charge[i].amount
        BY <1>0, <3>1 DEF Charge
      <3> QED
        BY <1>0, <3>1, <3>2, IdleTyped, ChargeMoney
    <2>3. ASSUME NEW t \in ChargeIds, VerifyWalletCharge(p, t) PROVE MoneyInv'
      <3> DEFINE r == [Idle EXCEPT !.phase = "claiming", !.charge = t]
      <3>1. /\ r.phase = "claiming" /\ req[p].phase = "idle" /\ req' = [req EXCEPT ![p] = r]
            /\ UNCHANGED <<balance, ledger, adjusted, charge, withdrawal>>
        BY <2>3 DEF VerifyWalletCharge, In, Idle
      <3> HIDE DEF r
      <3> QED
        BY <1>0, <3>1, LocalMoney
    <2>4. CASE ClaimCharge(p)
      <3> DEFINE r == [req[p] EXCEPT !.phase = "verifying"]
      <3>1. /\ req[p].phase = "claiming" /\ r.phase = "verifying"
            /\ UNCHANGED <<balance, ledger, adjusted, withdrawal>>
            /\ \/ /\ charge' = [charge EXCEPT ![req[p].charge].status = "FAILED"]
                  /\ charge[req[p].charge].status = "PENDING"
                  /\ req' = [req EXCEPT ![p] = r]
               \/ charge' = charge /\ req' = [req EXCEPT ![p] = Idle]
        BY <1>0, <2>4 DEF ClaimCharge, Claimable, In, Request
      <3>2. \A i \in ChargeIds : /\ charge'[i].status = "SUCCESS" <=> charge[i].status = "SUCCESS"
                                 /\ charge'[i].user = charge[i].user
                                 /\ charge'[i].amount = charge[i].amount
        BY <1>0, <3>1 DEF Charge
      <3> HIDE DEF r
      <3> QED
        BY <1>0, <3>1, <3>2, IdleTyped, ChargeMoney
    <2>5. CASE GatewayAnswer(p)
      <3> DEFINE r == [req[p] EXCEPT !.phase = "confirmed"]
      <3>1. /\ req[p].phase = "verifying" /\ r.phase = "confirmed"
            /\ UNCHANGED <<balance, ledger, adjusted, charge, withdrawal>>
            /\ req' = [req EXCEPT ![p] = r] \/ req' = [req EXCEPT ![p] = Idle]
        BY <1>0, <2>5 DEF GatewayAnswer, In, Request
      <3> HIDE DEF r
      <3> QED
        BY <1>0, <3>1, IdleTyped, LocalMoney
    <2> QED
      BY <1>3, <2>1, <2>2, <2>3, <2>4, <2>5, CreditMoney DEF Charging
  <1>4. ASSUME NEW p \in Requests, Withdrawing(p) PROVE MoneyInv'
    <2>1. ASSUME NEW u \in Users, NEW amount \in Amounts, RequestWithdrawal(p, u, amount)
          PROVE  MoneyInv'
      <3> DEFINE r == [Idle EXCEPT !.phase = "requesting", !.user = u, !.amount = amount]
      <3>1. /\ r.phase = "requesting" /\ req[p].phase = "idle" /\ req' = [req EXCEPT ![p] = r]
            /\ UNCHANGED <<balance, ledger, adjusted, charge, withdrawal>>
        BY <2>1 DEF RequestWithdrawal, In, Idle
      <3> HIDE DEF r
      <3> QED
        BY <1>0, <3>1, LocalMoney
    <2>2. ASSUME NEW w \in WithdrawalIds, CreateWithdrawal(p, w) PROVE MoneyInv'
      <3>1. withdrawal[w].user = Nobody
        BY <2>2 DEF CreateWithdrawal, NextWithdrawal, Unmade
      <3> QED
        BY <2>2, <3>1, CreateMoney
    <2>3. ASSUME NEW w \in WithdrawalIds, NEW decision, ReviewWithdrawalAdmin(p, w, decision)
          PROVE  MoneyInv'
      <3> DEFINE r == [Idle EXCEPT !.phase = IF decision = "APPROVED" THEN "reviewing"
                                                                      ELSE "rejecting",
                                   !.withdrawal = w]
      <3>1. /\ r.phase \in {"reviewing", "rejecting"} /\ req[p].phase = "idle"
            /\ req' = [req EXCEPT ![p] = r]
            /\ UNCHANGED <<balance, ledger, adjusted, charge, withdrawal>>
        BY <2>3 DEF ReviewWithdrawalAdmin, In, Idle
      <3> HIDE DEF r
      <3>2. r.phase # "logging"
        BY <3>1
      <3> QED
        BY <1>0, <3>1, <3>2, LocalMoney
    <2>4. CASE CheckBalance(p)
      <3> DEFINE r == [req[p] EXCEPT !.phase = "approving"]
      <3>1. /\ req[p].phase = "reviewing" /\ r.phase = "approving"
            /\ UNCHANGED <<balance, ledger, adjusted, charge, withdrawal>>
            /\ req' = [req EXCEPT ![p] = r]
        BY <1>0, <2>4 DEF CheckBalance, In, Request
      <3> HIDE DEF r
      <3> QED
        BY <1>0, <3>1, LocalMoney
    <2>5. CASE RejectWithdrawal(p)
      <3>1. /\ req[p].phase = "rejecting" /\ req' = [req EXCEPT ![p] = Idle]
            /\ withdrawal' = [withdrawal EXCEPT ![req[p].withdrawal].status = "REJECTED"]
            /\ UNCHANGED <<balance, ledger, adjusted, charge>>
        BY <2>5 DEF RejectWithdrawal, In
      <3>2. \A i \in WithdrawalIds : /\ withdrawal'[i].user = withdrawal[i].user
                                     /\ withdrawal'[i].withdrawn = withdrawal[i].withdrawn
        BY <1>0, <3>1 DEF Withdrawal
      <3>3. \A u \in Users :
               /\ Succeeded(u)' = Succeeded(u) /\ CreditedTo(u)' = CreditedTo(u)
               /\ WithdrawalsOf(u)' = WithdrawalsOf(u) /\ WithdrawnFrom(u)' = WithdrawnFrom(u)
               /\ Logging(u)' = Logging(u)
        BY <1>0, <3>1, <3>2, IdleTyped, CreditsSame, WithdrawalsSame, LoggingSame DEF MoneyInv
      <3> QED
        BY <1>0, <3>1, <3>3, NoMoneyMoves DEF MoneyInv, Finitely
    <2> QED
      BY <1>4, <2>1, <2>2, <2>3, <2>4, <2>5, ApproveMoney DEF Withdrawing
  <1>5. ASSUME NEW p \in Requests, Adjusting(p) PROVE MoneyInv'
    BY <1>5, AdjustMoney, LoggedMoney DEF Adjusting, LogAdjustment, In
  <1>6. ASSUME NEW p \in Requests, Fail(p) PROVE MoneyInv'
    <2>1. CASE req[p].phase = "logging"
      BY <1>6, <2>1, LoggedMoney DEF Fail
    <2>2. CASE req[p].phase # "logging"
      BY <1>0, <1>6, <2>2, IdleTyped, LocalMoney DEF Fail
    <2> QED
      BY <2>1, <2>2
  <1>7. CASE UNCHANGED vars
    BY <1>1, <1>7 DEF vars
  <1> QED
    BY <1>2, <1>3, <1>4, <1>5, <1>6, <1>7 DEF Next

\* Every balance is what its successful charges, its withdrawals and its
\* adjustments make of it; a charge is credited once, and the ledger has no
\* adjustment that did not happen (verifyWalletCharge, reviewWithdrawalAdmin,
\* adjustUserWallet).
THEOREM EveryBalanceAddsUp == Spec => []MoneyAccountedFor
  <1>1. Init => IInv /\ Unmade /\ MoneyInv
    <2>1. Init => Unmade
      BY DEF Init, NoWithdrawal, Unmade
    <2> QED
      BY <2>1, IInvInit, MoneyInit
  <1>2. IInv /\ Unmade /\ MoneyInv /\ [Next]_vars => (IInv /\ Unmade /\ MoneyInv)'
    BY TypingNext, ChargesNext, UnmadeNext, MoneyNext DEF IInv
  <1>3. ASSUME IInv, MoneyInv PROVE MoneyAccountedFor
    <2> SUFFICES ASSUME NEW u \in Users PROVE ledger[u].adjustments <= adjusted[u].count
      BY <1>3 DEF MoneyAccountedFor, MoneyInv, BalancesAddUp
    <2>1. /\ ledger[u].adjustments + Cardinality(Logging(u)) <= adjusted[u].count
          /\ IsFiniteSet(Logging(u))
      BY <1>3 DEF MoneyInv, Finitely, AdjustmentsLogged
    <2>2. /\ ledger[u].adjustments \in Nat /\ adjusted[u].count \in Nat
          /\ Cardinality(Logging(u)) \in Nat
      BY <1>3, <2>1, FS_CardinalityType DEF IInv, Typing, TypeOK, Ledger, Adjusted
    <2> QED
      BY <2>1, <2>2
  <1> QED
    BY <1>1, <1>2, <1>3, PTL DEF Spec
===============================================================================
