# Verification of the shop backend

TLA+ models, TLC runs and TLAPS proofs for this repository: an online shop
(`src/src`, Express, Prisma on Postgres, Redis) and its chat service
(`src/chat-engine/src`, NestJS, Mongo). Paths below start at the repository's
own `src/`; `services/...` is short for `src/src/services/...` and `chat/...`
for `src/chat-engine/src/...`.

The shop runs as one or more Node processes. A request handler is a sequence of
awaited database calls, so handlers interleave at every `await`, within a process
and between processes. Postgres runs at READ COMMITTED: a `$transaction` callback
commits all its writes or none, an `increment` or an `updateMany` with a `where`
acts on the current row, but a value read before (or in) a transaction may be
stale when it is used. A handler may throw or die between any two calls. This is
the world the models describe.

## 1. Inventory

### The shop

| Component | State | Operations | Interacts with | Hard parts | Correct when |
|---|---|---|---|---|---|
| Orders `services/order/order.service.ts` | Order, OrderItem, OrderStatusHistory | createOrder, updateOrderStatusAdmin | cart, variants' stock, wallet, transactions, discount codes | checkouts after the last unit; balance and cart read before the transaction | no unit is sold twice; a prepaid order's total is covered |
| Order payment `order-payment.service.ts` | Transaction (ORDER_PAYMENT) | initiateOrderPayment, verifyOrderPayment | gateway, order | double verification, crash after the claim, payment after cancellation | one effect per captured payment |
| Cancellation `order-cancellation.service.ts`, `jobs/expire-stale-orders.job.ts` | OrderCancellation, REFUND rows | cancelOrder, cancelOrderAdmin, expireStaleOrder | stock, wallet, transactions | customer, admin and job race; stale `paidAt` | stock and money come back once; abandoned stock is released |
| Returns `order-return.service.ts` | OrderReturn | requestReturn, updateReturnAdmin; updateOrderStatusAdmin writes the same Order.status | stock, wallet, order | guards on a stale row; any status may follow any | stock and money come back once each time a return is settled; RETURNED means refunded |
| Wallet `services/wallet/*`, `user/user-admin.service.ts` | Wallet, WalletTransaction, Transaction (WALLET_CHARGE), WalletWithdrawal | charge and verify, request and review a withdrawal, adjust | gateway, orders | double verification, double approval, two writes that belong together | a charge is credited once, a withdrawal paid once, a balance explained by its history |
| Gateway `services/payment/*` | PaymentGateway | interface `IPaymentGateway` only | order payment, wallet | answers late or not at all | confirms only captured money |
| Cart `services/shopping/cart.service.ts` | Cart, CartItem | add, update, remove, clear, merge a guest's cart | variants, createOrder | stale stock caps; merge half done | a line never asks for more than was seen on the shelf |
| Discount codes `services/discount/*`, `utils/allocation.ts` | DiscountCode, DiscountCodeUsage | evaluate, record usage | createOrder | limit checked outside the transaction; never given back | limits hold; shares add up to the discount |
| Catalog `services/catalog/*` | Product, ProductVariant, images, attributes, brands | CRUD, recomputeProductAggregates, recomputeProductRating | orders, comments, currencies | derived columns written from an old read | derived columns agree with the rows |
| Category tree `catalog/category.service.ts` | Category.parentId | create, move, delete | products, cache | two moves on stale trees | no cycle |
| Prices and rates `services/pricingEngine.ts`, `currency.service.ts`, `exchangeRateFetcher.ts`, `utils/pricing.ts` | Currency, rate history, currentPriceIRT | price formulas, manual and fetched rates | catalog | rounding; a fetch racing an admin; a recalculation that throws or dies; edits that read the old rate | a price follows its formula and the last rate |
| Authentication `services/auth/*`, `services/otp/*` | UserSession, OtpCode, LoginAttempt, Redis counters | register, login, refresh, logout, reset, codes | Redis | session limit, token rotation, code used twice, counter without expiry | limits hold, a code is used once, a lock ends |
| Rate limits, IP blocks | Redis counters, BlockedIp | count, block | every route | Redis away | a window's limit |
| Cache, lock, scheduler `lib/*`, `jobs/scheduler.ts` | Redis keys | getOrSetCache, invalidateCache, withLock, runAllJobs | jobs, listings | stale fill after invalidation; lock outlived | one instance runs a job; a job runs again and again |
| Comments `services/comment` | Comment, likes | create, moderate, like | product rating | recomputation crossing a moderation | the rating agrees with approved comments |
| Tickets `services/ticket`, `jobs/auto-close-tickets.job.ts` | Ticket, TicketMessage | create, reply, close | notifications | job closing over a reply | a ticket with an unanswered reply is open |
| Media `services/media` | Media, files | upload, delete, folders | everything with a picture | file and row apart; usage checked before deletion; a URL kept beside each mediaId | what is shown has its file |
| CMS, blog, settings `services/cms`, `blog`, `settings` | Banner, Popup, Story, LandingPage, SiteSetting, BlogPost | CRUD, cached reads | cache, media | invalidation by prefix, before or after the write, or not at all | a cached page is the current one |
| Wishlist, comparison, profiles, addresses, shipping, notifications, SEO, analytics | their rows | CRUD, read-only queries | | none of note | |

### The chat service

| Component | State | Operations | Interacts with | Hard parts | Correct when |
|---|---|---|---|---|---|
| Conversations, messages `chat/conversation/*` | Conversation, ConversationMessage, Customer | processIncomingMessage, assign, close, release | engine, operators, channels | documents saved from an old read after seconds of AI; duplicates; two open conversations | an operator's conversation is not answered by the engine; a message is stored once |
| Operators, delivery, realtime `chat/operator`, `delivery`, `realtime` | Operator | reply, assign, close | conversations, Telegram, sockets | reply stored, delivery failed | every stored reply is delivered or reported |
| Telegram `chat/telegram/*` | polling offset | pollLoop, handle, webhook | messages | batch redelivered after a crash; replies that Telegram refuses; a button acknowledged first | an update is answered, or its loss has a known cause |
| Engine `chat/engine/*` | none | keywords, AI, product search | store database | | |
| Tenancy, store access, Redis `chat/tenancy`, `store`, `redis` | tenants, pools, cache | lookups | | | |

The hazards of `PROJECT.json` list the lines where these hard parts bite.

## 2. Modules

Money and goods:

| Module | Models | State and actions |
|---|---|---|
| `StockReservation` | what the shop promises about stock | `shelf`, `reservation`; Reserve, Release |
| `Settlement` | what it promises about a gateway payment | `state`, `captured`; Open, Capture, Claim, Settle, Drop |
| `Orders` | cart, checkout, payment, cancellation, expiry, admin status | below |
| `Wallet` | charges, withdrawals, adjustments | below |
| `OrderReturns` | returns of one delivered order | the rows, what came back to the shelf and the wallet, requests and reviews with the rows they read; reviews to any status, the order's own status set by hand |
| `Carts` | a customer's and a guest's cart | lines, the shelf, handlers between read and write; the merge goes line by line |
| `Pricing` | pricingEngine.ts, utils/pricing.ts | operators, in units of 1/1000000 toman |
| `Checkout` | the amounts of an order, discount codes | basket, prices, the code and its uses; a checkout reads the basket twice and the code long before it counts a use |

Catalog:

| Module | Models | State and actions |
|---|---|---|
| `Products` | a product, its variants, its listing | each edit is a write, a recomputation's two reads and its write; the refreshing job |
| `Attributes` | attribute values and the variants made of them | uses counted and names compared before the write |
| `ExchangeRates` | one currency and a product priced in it | rate, last applied rate, the rates the stored price and range were computed with; fetch, change by hand, the writes of a recalculation one by one, edits and recomputations of the product, and a throw or crash between any two writes |
| `Comments` | the comments of a product, its rating | moderation, and the recomputation behind its answer |
| `Categories` | the category tree and its cached form | moves checked step by step upwards, then written; fills and invalidations |

Platform:

| Module | Models | State and actions |
|---|---|---|
| `Sessions` | sessions and passwords of one user | login in several writes, refresh, logout, block, change and reset of the password |
| `OneTimeCodes` | codes of one identifier | cooldown in Redis or from the table, verification as read and write |
| `LoginGuard` | failed logins, request limits | counters with a window in a Redis that comes and goes, and in memory; refused requests count, too |
| `JobLock` | withLock and rounds of a job | key with token and expiry; rounds of all instances |
| `Tickets` | one ticket and the closing job | messages, status, the job's three queries and its write |
| `MediaLibrary` | files, rows and uses of one folder | uploads of several files, deletions in their steps, the URLs that stay when a mediaId is set to null |
| `CachedPages` | one cached page of each kind of content | writes with the list of prefixes they invalidate; readers that fetch, then set |

Chat:

| Module | Models | State and actions |
|---|---|---|
| `Conversations` | one customer's conversation documents | handlers that load, let the engine answer, and save; operators who do so meanwhile |
| `OperatorReplies` | replies on their way to the customer | stored, sent over a socket or Telegram, quoted, missed, read from the history |
| `TelegramUpdates` | one bot's updates | polling loop with two offsets, webhook, acknowledgement of buttons, duplicate check, answers taken or refused |
| `ChatDialog` | the engine's dialog | what a text is taken for after the pending question; products found, options, escalation |

Compositions and instances:

| Module | What it is |
|---|---|
| `Sales` | returns, carts, checkouts and single prices side by side |
| `Catalog` | products, rates, comments and attributes side by side |
| `Platform` | the twelve parts of the platform and the chat side by side |
| `MCOrders`, `MCWallet`, `MCSales`, `MCCatalog`, `MCPlatform` | the instances TLC checks, with the constants of the .cfg files |

`Sales`, `Catalog` and `Platform` put modules that share no state side by side: a
variable `part`, chosen at the start, says which of them runs, so the state space is
the sum of theirs and each keeps its own Init and Next. A property of such a run is
a property of one part; the few that name two parts (`SessionsHold`, `VariantsSound`,
`MessagesArrive`, `CachedContentIsCurrent`) are conjunctions of one promise of each.
`MCPlatform` starts pages with the first slug only (`MCInit`): the two are alike.
The proofs are in eight modules of their own (section 4).

Outside Orders and Wallet, too, an action is one stretch between two awaits that matter, and a
history variable (`missed`, `loginsCrossed`, `unsafe`, ...) marks the interleavings in
which the code does not keep its promise: the property then says that nothing but these
breaks it. Each is set where the code has the gap, never by the property failing, and
the comment above each property names the gap.

### Orders

| Variable | Code |
|---|---|
| `stock`, `isInStock`, `totalSold` | ProductVariant.stock, Product.isInStock, Product.totalSold (kept per variant in the model, which says more) |
| `cart` | a user's CartItem rows |
| `wallet` | Wallet.balance |
| `order` | the Order row with the few facts of its other rows: the PURCHASE and REFUND ledger rows (`walletPaid`, `walletRefund`), the ORDER_PAYMENT transaction (`gatewayDue`, `payment`, `refId`), the REFUND transactions (`gatewayRefund`), whether an OrderCancellation row exists (`cancelled`) |
| `captured` | outside: orders whose customer paid on the gateway's page |
| `req` | per handler in flight: where it is and what it has read |

A handler is one action per stretch between two awaits that matter:

| Handler | Actions |
|---|---|
| addItem | AddItem |
| createOrder | CreateOrder (cart and availability), PriceOrder (balance, amounts), PlaceOrder (the transaction), RecomputeRead, RecomputeWrite |
| initiateOrderPayment | InitiateOrderPayment, InitiateAnswer |
| verifyOrderPayment | VerifyOrderPayment, ClaimPayment, GatewayAnswer, VerifyCommit |
| cancelOrder, cancelOrderAdmin, updateOrderStatusAdmin(CANCELLED) | CancelOrder, PerformCancellation or CancellationConflict, RecomputeRead, RecomputeWrite |
| the expiry job | ExpireStaleOrder, then the same |
| updateOrderStatusAdmin | UpdateOrderStatusAdmin, WriteOrderStatus |
| an exception or a crash anywhere | Fail |

A price is whatever the checkout computed: `PriceOrder` takes any total. Time is
left out: an unpaid order may be stale at any moment, which covers every deadline.
Definitions whose comment starts with "Faulty" are not used by the model; each is
a plausible mistake in the definition that follows it, and the listed property
fails when it takes that definition's place (`mutants` in `PROJECT.json`).

### Wallet

`balance`, `ledger` (sums of the WalletTransaction rows), `adjusted` (what was
added by hand, for the equation only), `charge`, `withdrawal`, `captured`, `req`.
initiateWalletCharge is InitiateWalletCharge, InitiateAnswer; verifyWalletCharge is
VerifyWalletCharge, ClaimCharge, GatewayAnswer, CreditWallet; requestWithdrawal is
RequestWithdrawal, CreateWithdrawal; reviewWithdrawalAdmin is ReviewWithdrawalAdmin,
CheckBalance, ApproveWithdrawal or RejectWithdrawal; adjustUserWallet is
AdjustUserWallet, LogAdjustment. Debits by orders belong to Orders, where a
customer may start with any balance.

## 3. Runs

| Run | Instance | Shows |
|---|---|---|
| `orders` (`MCOrders.cfg`) | one order, one unit, totals 1 and 3 with balance 2 (covered, or not), all four methods, admin may write DELIVERED, two requests and the job | one claim holder, payment a settlement, paid means settled, deliveries counted at least once, unpaid orders released |
| `orders_race` (`MCOrdersRace.cfg`) | two orders after one unit, both MIXED from one balance, two requests and the job | no overselling, conservation of units, refunds once, totals covered, a stock reservation |
| `wallet` (`MCWallet.cfg`) | one wallet, two charges, one withdrawal, one adjustment (up or down), two requests | charges are settlements, the balance equation, decisions and ledger together |
| `sales` (`MCSales.cfg`) | an order with two items and one return, two reviewers at once who ask for any status and may move it back once, the order's status set by hand; two carts, two variants, stock 1; one code usable once, two checkouts, three orders; some 600 prices | a return's stock and money are accounted for by its status; RETURNED and the refund go together; carts within the shelf; limits passed only by checkouts in flight; shares add up to the discount; the two price formulas agree to one toman |
| `catalog` (`MCCatalog.cfg`) | two SKUs, two requests and the job; rates 4 to 6 with a threshold of 30 %, changed three times, beside an edit or recomputation of the product; two comments; two values, two variants | derived columns agree with the rows but for the gaps named; stored prices stay near the rate; the job heals |
| `platform` (`MCPlatform.cfg`) | per part two handlers (three rounds of a job); limits of 2; three sessions; two codes; three messages; two files; three categories; three updates; four turns of a dialog | each part's promise, below |

The promises of `sales` and `catalog` that except something:

| Property | Says | But for |
|---|---|---|
| `ReturnEffectsAreCounted` | one refund and one restocking for each time a return is settled; a refunded return has been paid its amount | what is counted: times it was moved back, reviews that wrote over a status they had not read |
| `ReturnedMatchesRefund` | an order is RETURNED if and only if a return of all of it was refunded | a status set by hand; a request or a rejection decided on an older reading |
| `UsageLimitsHold` | a code's limits hold | checkouts in flight together |
| `ListingFreshUnlessMissed` | a listing is of its variants | recomputations that cross, die or are not started |
| `StoredPricesFollowRate` | the charged rate and the stored prices are within the threshold of the rate last applied | fetches that overlap another change; a recalculation that died, until one is finished; what was written with a rate that had changed since it was read, until it is written anew |
| `VariantsSound` | no combination twice, no ordered variant gone | a value taken by a variant after its deletion found it unused |

The promises of `platform`:

| Property | Says | But for |
|---|---|---|
| `SessionsHold` | at most MAX_ACTIVE_SESSIONS sessions; none of an old password | logins that counted together; a login that compared the old password; a process that ends between the two writes |
| `PlaceholderIsTransient` | the token "pending", unique for all users, goes away | a process that ends between a session's two writes: from then on nobody can log in |
| `CodeAcceptedOnce` | a code is accepted once, after few wrong ones | verifications of one row in flight together |
| `WindowsEnd` | a lock or a limit has an end; the lock counts to the limit and the logins in flight (requests are counted without limit) | INCR and PEXPIRE cut apart; outages |
| `JobsExcluded` | one round runs a job | rounds without Redis, or longer than their key |
| `ClosedAfterAnswer` | a ticket the job closes was answered and left | what comes between the job's queries and its write |
| `ShownMediaHasFile` | what is shown, by mediaId or by the URL beside it, has its file | attached during a deletion; a deletion cut short; the sweep of a folder; the URLs a forced deletion leaves |
| `MessagesArrive` | updates reach the chat and are answered, replies reach the customer, in order | a callback that failed after it was acknowledged; a first attempt that failed after storing; a reply that Telegram refused |
| `EveryCategoryShown` | the tree has no cycle | two moves in flight together |
| `CachedContentIsCurrent` | the cached tree and pages are current | fills that read before a write; invalidations without Redis; pages with an expiry only |
| `EngineKeepsOut` | the engine neither answers nor releases what an operator has | documents loaded before the operator took it |

In `orders`, `orders_race` and `wallet` two requests are enough for every race the code has: each is between one handler's
read and another's commit (with the job a third one). Two orders on one unit make
checkouts compete, and let the second sale follow a release. Balance 2 lies between
the two totals, so MIXED and WALLET meet every case of their comparisons. One
adjustment and two charges on one wallet exercise every pair of writes. The
bounds (`MaxSold`, `MaxAdjustments`, `OrderIds`, `ChargeIds`, `WithdrawalIds`) only
stop counters. Since rows are never deleted, those runs end in states where all
identifiers are used up; this is why they do not check deadlock. Requests are
interchangeable, so the safety runs reduce by symmetry (the runs with liveness do
not).

In the other passing runs every check-then-act gap of the code lies between one
handler's read and another's write, so two handlers reach it; where the code itself
counts (a session limit, attempts, failed logins, uses of a code) the limit is 1 or 2 and the
bound one beyond it. `returned_twice` has two returns and amounts 1 and 2; `sales` one of
each, so that two reviewers fit into it. In `catalog` one handler at a time changes the
rate, since the property excepts overlapping ones altogether: the handler that dies, and
the product's other handlers, are what the instance is for, and three changes are the
fewest in which small moves could add up (to the first rate, and twice below the threshold).
The 600 prices cover every branch of both formulas with remainders on either side of
one half. `MaxEdits`, `MaxRedone`, `MaxCounted`, `MaxRateChanges`, `MaxModerations`, `MaxAttributeChanges`,
`MaxTokens`, `MaxStored`, `MaxTurns`, `MaxTreeChanges`, `MaxContentChanges`, `MaxFailures`
and the like only stop counters; behaviours end there, hence no check for deadlock.

Six runs expect a violation; each states a sentence of the repository:

| Run | Says | The code |
|---|---|---|
| `fulfilled_without_stock` | two customers cannot order the last unit | `verifyOrderPayment` sets PROCESSING whatever the order has become (order-payment.service.ts:123) |
| `wallet_part_kept` | cancelling returns stock and money (README.md:48) | refunds only if `paidAt` (order-cancellation.service.ts:30), which a MIXED order gets after the wallet was debited |
| `no_second_try` | "the payment failed; you can try again" | the only transaction is FAILED, payment asks for a PENDING one |
| `withdrawn_twice` | "this request has already been reviewed" | PENDING is checked on a row read before the transaction (wallet-withdrawal.service.ts:62-83) |
| `returned_twice` | a double click or a retry must not credit "a second time" (order-return.service.ts:127-132) | the guard looks at a row read before the transaction (line 133) |
| `narrow_search` | the next message is appended to previousQuery (types.ts:61-63, layer1-keywords/index.ts:211-214) | isPendingAction does not know AWAITING_NARROWER_SEARCH (message.service.ts:264) |

Other sentences of the repository that the code does not quite keep, met while
modelling and visible in the properties' exceptions:
- ticket.service.ts:18 says that a ticket is closed by hand only; the job closes, too.
- scheduler.ts:15-17 says one instance runs a job per interval; the lock is given back
  when the job ends, so another instance may run it in the same interval.
- conversation.service.ts:31 speaks of at most one open conversation; two first messages
  create two. Lines 106-109 say only a release returns a conversation to the engine; a
  document saved from an old read does so, too.
- media-admin-readme.md:12 says that a forced deletion removes a file "and all of its
  usages"; what shows it by its URL goes on doing so.
- product-query.service.ts:22-24 says the detail page is never cached; product.service.ts
  caches it for 15 seconds.

Fairness (`JobFairness`) is used by `UnpaidOrdersAreReleased` only, and only for the
job. `setInterval` runs it for ever and every round visits every stale order
(scheduler.ts 35-66), hence strong fairness of `ExpireStaleOrder(o)`; strong
fairness of the job's `PerformCancellation` says that its transaction does not fail
every time it is tried; the rest of its steps are ordinary sequential progress. The
job may crash between any two steps. Nothing is assumed of customers, admins, the
gateway or HTTP requests.

`ProductsFairness` is used by `DiscountedListingHeals` only: a request that is being
handled goes on, as Node's event loop sees to, and the scheduler starts the refreshing job
again and again. Edits end because `MaxEdits` bounds them; that is the property's premise
("once changes end").

## 4. Proofs

Eight modules hold the theorems and the lemmas they rest on. Each extends the modules it
is about, so it proves what TLC runs: no definition is replaced.

| Module | About | Builds on |
|---|---|---|
| `Sums_proofs` | sums over finite sets, greatest and least members, finite functions | |
| `Orders_proofs` | `Orders` with its two refinements, and the sums over orders | `Sums_proofs` |
| `Wallet_proofs` | `Wallet` with its refinement, and the balance equation | `Sums_proofs` |
| `Sales_proofs` | `OrderReturns`, `Carts`, `Checkout`, `Pricing`, and `Sales` of them | `Sums_proofs` |
| `Catalog_proofs` | `Products`, `Attributes`, `ExchangeRates`, `Comments`, and `Catalog` of them | `Sums_proofs` |
| `Access_proofs` | `OneTimeCodes`, `LoginGuard`, `Sessions` | `Sums_proofs` |
| `Chat_proofs` | `Conversations`, `TelegramUpdates`, `OperatorReplies`, `ChatDialog` | `Sums_proofs` |
| `Platform_proofs` | `JobLock`, `Tickets`, `MediaLibrary`, `Categories`, `CachedPages`, and `Platform` of these and of access and chat | `Access_proofs`, `Chat_proofs` |

Every safety invariant and action property of a passing run is a theorem:

| Theorem | Says |
|---|---|
| `TypeCorrectness`, `WalletTypes`, `SalesTypes`, `CatalogTypes`, `PlatformTypes` | the types of `Orders`, `Wallet`, `Sales`, `Catalog`, `Platform` |
| `NoOverselling` | stock never negative |
| `NoUnitIsLost` | every unit is on the shelf or in one standing order |
| `DeliveriesAreCounted` | totalSold covers what delivered orders hold |
| `ClaimIsExclusive` | one claim holder per payment |
| `RefundedAtMostOnce` | refunds match payments |
| `PaidMeansSettled` | paid orders are settled, for captured money |
| `TotalsAreCovered` | prepaid orders are never undercharged |
| `ImplementsReservation`, `ImplementsSettlement` | Orders implements StockReservation and Settlement |
| `DecisionsMoveMoney` | a withdrawal that waits has paid nothing, an approved one its amount |
| `EveryBalanceAddsUp` | a balance is what its history says |
| `ChargeImplementsSettlement` | charging a wallet implements Settlement |
| `CartsAreCapped` | no line asks for more than the shelf showed |
| `ReturnedMeansRefunded` | RETURNED and the refund of a whole return go together |
| `EffectsOfReturns` | a return's stock and money are accounted for by its status, for any number of reviewers and any moves |
| `CodesStayLimited` | a code goes beyond its limits by fewer uses than checkouts in flight |
| `DiscountsAreSharedOut` | the shares add up to the discount |
| `ChargedAsListed` | the two price formulas agree to one toman |
| `ListingsAreFresh` | a listing is of its variants once no recomputation runs and none was missed |
| `VariantsAreSound` | no combination twice, no ordered variant gone |
| `PricesFollowRates` | stored prices are within the threshold of the rate last applied, whatever throws or dies |
| `RatingsAreCounted` | the rating is that of the comments listed |
| `CodesAreAcceptedOnce` | a one-time code is accepted once, after few wrong ones |
| `LocksEnd` | a lock or a limit has an end, and the lock's counter a bound |
| `SessionsAreHeld`, `PlaceholdersEnd` | the sessions' limit, password and token |
| `LockExcludesRounds` | one round at most runs a job on a key it still has |
| `TicketsCloseAnswered` | the job closes what support had the last word on |
| `ShownMediaIsThere` | what is shown, by mediaId or URL, has its file |
| `NoCategoryIsLost` | the tree has no cycle |
| `CacheIsCurrent` | the cached tree and pages are current |
| `EngineStaysOut` | the engine neither answers nor takes back what an operator has (an action property) |
| `EveryMessageArrives` | updates reach the chat and are answered, replies reach the customer |

with the exceptions that the properties name (section 3).

### Assumptions

The theorems hold for every value of the constants that satisfies the modules' `ASSUME`s
(`ConstantsOK`, `WalletConstantsOK`, `OtpConstantsOK`, ...), which TLC evaluates for the
instances of the runs. They are of three sorts:
- A bound or a limit is a natural number, and values that stand for "none" are none of the
  others. An input has the fields the validators let through (`PageConstantsOK`,
  `SavedRow`, `UpdateConstantsOK`).
- What is counted or added up is finite: variants, orders, charges, withdrawals, SKUs,
  lines, buyers, products offered; and the requests in flight where a limit is passed by as
  many as there are (`LoginRequests`, `OtpRequests`, `SessionRequests`, `Checkouts`). Nothing else is.
- No price is below zero before its discount (`PricesAreNatural`, `QuotesAreNatural`,
  `SavedRow`). The code does not see to that: a modifier of a variant may be entered as a
  negative number greater than the price.

### Orders

`TypeOK` is not inductive by itself: which order a handler
works on depends on its phase, so `Typing` adds that a handler past its first read
has an order, and one that prices a cart a user (`LocalsOK`). The safety properties
need each other and two more parts, all in `IInv`:
- `RecordsOK`, how the fields of one row hang together: an order that does not exist
  has done nothing; a payment exists exactly if the gateway is owed something, which
  FREIGHT_COLLECT never owes; a session needs a payment; a refund needs a
  cancellation. `Sound` collects what `IInv` says of one row, and a step that
  changes one row has only to show that the new row is sound (`RowStep`).
- `HandlersOK`, which ties a snapshot to the current row: a handler's order exists; one
  that initiates or claims a payment has one; one that is confirmed has captured
  money. These hold although the row changes under the handler, because the facts
  never become false again.

PlaceOrder, PerformCancellation, ClaimPayment, VerifyCommit, InitiateAnswer and
WriteOrderStatus each have a lemma (`PlaceOrderSafe`, ...); every other action only
moves a handler (`LocalStep`). That a cancellation refunds once rests on
`NotYetCancelled`, the unique key of OrderCancellation, and that a claim is exclusive on
the compare-and-swap.

`Reservation` maps `stock` to the shelf and an order to none, held or
released by its existence and its cancellation row; only PlaceOrder and
PerformCancellation are steps, the rest stutters. `Payment` maps the transaction
and its claim holder to a settlement's state; a claim that is given up (Fail, or a
refusal) is `Drop`. Both use `IInv`. `ChargePayment` in Wallet does the same for charges.

### Sums

`StockConserved`, `SoldCoversDelivered`, `MoneyAccountedFor`, `UsageLimitsHold` and
`DiscountIsAllocated` add up over sets. The induction theorems of the library cannot be
instantiated by these provers, so `Sums_proofs` has its own: a set of numbers with 0 that is
closed under successor is all of them, because the least number outside it, which
well-foundedness gives, would have a predecessor inside (`AllNumbers`). From it follow that a
sum does not depend on the order in which FiniteSetsExt takes out elements, how it
changes with one element, that sums add and distribute, and that a finite set of numbers
has a greatest member. A step that changes one row then changes each sum by that row's
difference, and the equation is arithmetic.

### Wallet

`Typing` and `ChargesOK`: the charge a handler works on exists;
past its claim the charge reads FAILED and nobody else holds it; confirmed means
captured. `WithdrawalsMatchDecisions` is inductive with the types alone, also when
two admins decide the same request, which is why it can hold while "reviewed once" fails.

### Sales

- Carts: whoever adds to a line knows a stock the shelf once had (`KnowsShelf`), so the
  merge of two lines, which is capped by what the handler knows, is too.
- Returns: a review in flight was allowed by the status it read (`ReviewsAllowed`). When it
  writes, either the row still shows that status, and then a second refund or restocking
  means that the row had been moved back, or it does not, and then the write is counted as
  crossing (`ReviewCounted`). Rows that do not exist yet have no effects
  (`NoEffectsBefore`), so a new return starts from nothing. For the order's status only the
  writes that part it from the returns have to be known (`ReviewClosesOrder`).
- Codes: uses so far, and checkouts that have passed the limit but not counted yet, are
  together fewer than the limit and the checkouts in flight (`LimitsInv`), for all and for each
  buyer. A checkout passes while the uses are below the limit, and then at most the
  others are past it.
- Prices: the two formulas round at different places; the difference is bounded by what
  each rounding and division by 100 loses.

### Catalog

- Listing (`ProductsInv`): a recomputation that was not overtaken has read the rows as they
  are (`ReadsFresh`), and a listing that is not fresh has a recomputation coming that will
  read (`FreshComes`), unless the change was missed. The price range is one of a finite set
  of naturals, hence has a least and a greatest member.
- Attributes: a value that is about to be deleted is in no variant, or was taken
  meanwhile (`AttributesInv`).
- Rates: unless a fetch crossed another change, one handler is in flight, and how far it has
  come says which of the stored prices follow its rate (`RateStage`, `RatesInv`), except
  what a handler of the product has written on an old reading (`behind`). A handler that
  dies after its first write leaves `lost`, and only a recalculation that comes to its last
  write takes it back.
- Comments: as for listings (`CommentsInv`); and only what has no parent has stars.

### Access

- `OtpInv`: a row that no two requests
  weighed together has been accepted as often as its `isUsed` says, and whoever is to write
  it finds it unused and below the limit. For the types: attempts counted and verifications
  that have still to count one are fewer than the limit and the requests.
- `GuardInv`: the lock's counter and the logins that are still to fail are fewer than the
  limit and the requests, while Redis stays.
- `SessionsInv`: a login that is to add a session has made room for it and for the logins that
  counted with it (`RoomIsMade`); the sessions of an old password are known
  (`PasswordsFollowed`); the times of activity order the sessions (`PlacesAreRanks`),
  so that the oldest ones are those that go.

### Chat

- `ConversationsInv`: a handler's copy of a document is as the document, or the handler is
  known to have an older one (`CopyOK`).
- `UpdatesInv`: what the offset has passed is done (`PassedIsDone`); stored means answered, or
  an attempt that will, a failure after it was stored, or an answer refused
  (`StoredIsAnswered`); a polling bot stores each once (`StoredOnce`). For the types: answers
  given and about to be given are at most as many as messages stored.
- `RepliesInv`: a reply on its way is one request's business (`OneRequestEach`), and a later one
  does not come before it (`ComesAfter`).
- `DialogInv`: a question offers at most MAX_OPTIONS products, all of them known. The
  numbering of the options is the model's (`Option`).

### Platform

- `LockInv`: a token has one round, and that round has the key unless the key expired under
  it; so two rounds that run on the key are one.
- `TicketInv`: the message a job found is an old
  answer, what follows it is the customer's, and once the job has looked for replies there
  is none, so the answer is the last message; a message or status that arrives meanwhile
  overtakes the job.
- `MediaInv`: a row has a file but for the deletions that have removed it (`RowsHaveFiles`), and
  what they remove nothing uses, or it is known to be unsafe (`RemovalsOK`). Hence a deletion
  that leaves a URL behind was forced, or missed the reference (`UrlsOK`).
- `TreeInv`: no cycle is stated as `Forest`: every set of categories that is not empty has one
  whose parent is outside. A move that was not overtaken keeps it (`MovesOK`): its target is
  in a set closed upwards that does not have the moved category (`NotBelow`), so the
  categories of a new cycle outside that set would have been one before.
- `CacheInv`, `PagesInv`: what Redis holds is the table's, or known to be older, or somebody
  is to invalidate it. For pages the point is `StepsOK`: whatever a request writes, an
  invalidation of the key follows in its list of statements, but for the exceptions the
  property names; and readers that have fetched before a write know (`ReadersOK`).
  `PageFieldsOK` adds, for the types, that a request which may create a row carries its slug.
- A behaviour of the platform is a behaviour of each part (`PlatformPartsBehave`), so a
  theorem about a part's specification (`SessionsSpec`, `OtpSpec`, `GuardSpec` in
  `Access_proofs`; `ConversationsSpec`, `UpdatesSpec`, `RepliesSpec`, `DialogSpec` in
  `Chat_proofs`; `LockSpec`, `TicketSpec`, `MediaSpec`, `CategoriesSpec`, `PagesSpec` in
  `Platform_proofs`) is one about the platform.

### Model-checked only

The liveness properties `UnpaidOrdersAreReleased` and `DiscountedListingHeals`, since tlapm
knows neither ENABLED nor fairness; and the six violations. Of the operators, `SelectSeq` and
`SetToSortSeq` are opaque to the provers: no invariant speaks of what they compute, and
the engine's candidates are a set for that reason.

## 5. Not modelled

Ownership and role checks, notifications, status history, the wording of messages, and
time (a deadline may pass at any moment). Amounts are computed in `Checkout` and taken
as any value in `Orders`; editing of products while an order is placed is in `Products`
and `Checkout`, not in `Orders`. Brands, specifications, likes, departments, wishlists,
comparisons, addresses, operators' accounts, analytics, sitemap, newsletter: rows of
their own that one statement writes. The rows of ExchangeRateHistory are written and never
read. A URL typed by hand, without a mediaId, names no row of the library. `prisma/seed.ts` fills a database with examples. The AI
layer and the word matching of the chat engine are stateless; to the dialog they are the
terms found in a text. The tenancy and store caches of the chat service have an expiry
and no invalidation. The components marked `not_modelled` or `partly` in `PROJECT.json`
each have their reason there.

Seen while modelling, deterministic or without a sentence to check it against, and
so in no property: a cancelled order does not give its use of a discount code back; the
restocking of a return does not recompute the listing; editing or deleting an approved
comment does not recompute the rating; a customer may have several returns of one item
pending; a price with a fraction of a toman from shipping; an older unused code is accepted
once the newest is used; a quantity updated on an empty shelf becomes a line of 0; added
words never narrow a search because terms are joined by OR; files of a failed upload stay
on the disk; a crash between an adjustment and its ledger row leaves a balance that the
history does not explain; a deleted brand or blog category takes its products or posts out of it even
if they came after the count; two variants deleted together may leave none; two images
added together may both be the main one.

## 6. Plan

1. Done: everything of the tables above, their runs, the theorems of section 4. Every
   invariant and action property of a passing run is proved.
2. Abstract specifications worth stating, with their refinements: a return as a settlement
   of its own (nothing, restocked, refunded), a code as a counter that is spent, an update
   as stored and answered.
3. A property for the one hazard without any: a line added to the cart between its read and
   the order's commit is deleted unbought (order.service.ts:408).
