----------------------------- MODULE ExchangeRates ----------------------------
(***************************************************************************)
(* The rate of one currency: fetched from two providers by a job, set by   *)
(* hand by administrators, and applied to the stored prices only when it   *)
(* moved far enough.  Editing a product, and every recomputation of its    *)
(* aggregates, also compute with the rate of the moment they read it.      *)
(* Each handler may throw or die between any two of its writes.  Cart and  *)
(* order always charge the current rate.  (The rows of ExchangeRateHistory *)
(* are written, and never read.)                                           *)
(***************************************************************************)
EXTENDS Integers

CONSTANTS
    Rates,
    ThresholdPercent,  \* CURRENCY_UPDATE_THRESHOLD_PERCENT
    RateHandlers,      \* job runs and administrators' requests in flight together
    PriceHandlers,     \* edits and recomputations of the product in flight together
    MaxRateChanges     \* bound: fetches and changes by hand

ASSUME RateConstantsOK ==
    /\ Rates \subseteq Nat \ {0}
    /\ ThresholdPercent \in Nat /\ MaxRateChanges \in Nat

VARIABLES
    rate,              \* Currency.currentRate, lastAppliedRate and whether
    rateReq,           \*   FORCE_SYNC_INTERVAL_HOURS have passed; the handlers in flight
    priceReq,          \* the product's other handlers, with the rate they read
    stored,            \* the rates the product's currentPriceIRT and range were computed with
    rateChanges,       \* bound
    ratesCrossed,      \* history: a fetch overlapped another change of the rate
    lost,              \* history: a recalculation died, and none has been finished since
    behind             \* history: what was last written with a rate no longer the table's

rateHistories == <<ratesCrossed, lost, behind>>
ratesVars == <<rate, rateReq, priceReq, stored, rateChanges, rateHistories>>
-------------------------------------------------------------------------------
NoRate == 0

IdleRate == [phase |-> "idle", fetched |-> NoRate, due |-> FALSE, seen |-> NoRate]

IdlePrice == [phase |-> "idle", seen |-> NoRate]

RatesInit ==
    /\ rate = [current |-> NoRate, lastApplied |-> NoRate, forced |-> FALSE]
    /\ rateReq = [h \in RateHandlers |-> IdleRate]
    /\ priceReq = [g \in PriceHandlers |-> IdlePrice]
    /\ stored = [current |-> NoRate, range |-> NoRate]
    /\ rateChanges = 0
    /\ ratesCrossed = FALSE /\ lost = FALSE /\ behind = {}

InFlight == {h \in RateHandlers : rateReq[h].phase # "idle"}

\* From the write of the new rate to the write of lastAppliedRate.
Recalculating == {h \in RateHandlers : rateReq[h].phase \in {"price", "read", "range", "apply"}}

Absolute(x) == IF x < 0 THEN -x ELSE x

Moved(from, to) == Absolute(to - from) * 100 >= ThresholdPercent * from

\* Faulty: compared with the rate before this one, so that small steps add up.
ShouldRecalculateByStep(row, new) ==
    row.lastApplied = NoRate \/ row.forced \/ Moved(row.current, new)

ShouldRecalculateCurrency(row, new) ==
    row.lastApplied = NoRate \/ row.forced \/ Moved(row.lastApplied, new)

\* What the two providers give: the fallback is asked when the primary one fails or
\* does not know the currency; without an answer the rate stays.
FetchedRate(primary, fallback) == IF primary # NoRate THEN primary ELSE fallback

\* fetchAllRates reads the currency's row once it has a rate; that row decides.
FetchAllRates(h, primary, fallback) ==
    LET found == FetchedRate(primary, fallback)
    IN  /\ rateReq[h].phase = "idle" /\ rateChanges < MaxRateChanges      \* bound
        /\ found # NoRate
        /\ rateReq' = [rateReq EXCEPT ![h] = [IdleRate EXCEPT !.phase = "record", !.fetched = found,
                                                      !.due = ShouldRecalculateCurrency(rate, found)]]
        /\ rateChanges' = rateChanges + 1
        /\ ratesCrossed' = (ratesCrossed \/ InFlight # {})
        /\ UNCHANGED <<rate, priceReq, stored, lost, behind>>

\* recordRate: currentRate is written, and perhaps recalculated for.
RecordRate(h) ==
    LET r == rateReq[h]
    IN  /\ r.phase = "record"
        /\ rate' = [rate EXCEPT !.current = r.fetched]
        /\ rateReq' = [rateReq EXCEPT ![h] =
                IF r.due THEN [r EXCEPT !.phase = "price", !.due = FALSE] ELSE IdleRate]
        /\ UNCHANGED <<priceReq, stored, rateChanges, rateHistories>>

\* updateCurrency writes the rate as applied before it is.
UpdateCurrency(h, r) ==
    /\ rateReq[h].phase = "idle" /\ rateChanges < MaxRateChanges          \* bound
    /\ rate' = [current |-> r, lastApplied |-> r, forced |-> FALSE]
    /\ rateReq' = [rateReq EXCEPT ![h] = [IdleRate EXCEPT !.phase = "price", !.fetched = r]]
    /\ rateChanges' = rateChanges + 1
    /\ ratesCrossed' = (ratesCrossed \/ InFlight # {})
    /\ UNCHANGED <<priceReq, stored, lost, behind>>

\* Writes a field of the product computed with the rate r, perhaps an old one.
Store(field, r) ==
    /\ stored' = [stored EXCEPT ![field] = r]
    /\ behind' = IF r = rate.current THEN behind \ {field} ELSE behind \cup {field}

\* recalculateProductsForCurrency: currentPriceIRT with the new rate, ...
WriteCurrentPrice(h) ==
    /\ rateReq[h].phase = "price"
    /\ Store("current", rateReq[h].fetched)
    /\ rateReq' = [rateReq EXCEPT ![h].phase = "read"]
    /\ UNCHANGED <<rate, priceReq, rateChanges, ratesCrossed, lost>>

\* ... the range with the rate in the table (recomputeProductAggregates), ...
ReadRange(h) ==
    /\ rateReq[h].phase = "read"
    /\ rateReq' = [rateReq EXCEPT ![h].phase = "range", ![h].seen = rate.current]
    /\ UNCHANGED <<rate, priceReq, stored, rateChanges, rateHistories>>

WriteRange(h) ==
    /\ rateReq[h].phase = "range"
    /\ Store("range", rateReq[h].seen)
    /\ rateReq' = [rateReq EXCEPT ![h].phase = "apply"]
    /\ UNCHANGED <<rate, priceReq, rateChanges, ratesCrossed, lost>>

\* ... and at last the rate it applied.
ApplyRate(h) ==
    /\ rateReq[h].phase = "apply"
    /\ rate' = [rate EXCEPT !.lastApplied = rateReq[h].fetched, !.forced = FALSE]
    /\ rateReq' = [rateReq EXCEPT ![h] = IdleRate]
    /\ lost' = FALSE
    /\ UNCHANGED <<priceReq, stored, rateChanges, ratesCrossed, behind>>

\* A write throws, or the process dies: what was written stays.
RateHandlerFails(h) ==
    /\ rateReq[h].phase # "idle"
    /\ rateReq' = [rateReq EXCEPT ![h] = IdleRate]
    /\ lost' = (lost \/ h \in Recalculating)
    /\ UNCHANGED <<rate, priceReq, stored, rateChanges, ratesCrossed, behind>>

\* FORCE_SYNC_INTERVAL_HOURS after lastAppliedAt.
HoursPass ==
    /\ rate.lastApplied # NoRate
    /\ rate' = [rate EXCEPT !.forced = TRUE]
    /\ UNCHANGED <<rateReq, priceReq, stored, rateChanges, rateHistories>>
-------------------------------------------------------------------------------
\* updateProduct computes currentPriceIRT with the rate it reads, saves it with the
\* product, and recomputes the aggregates; ...
EditPrice(g) ==
    /\ priceReq[g].phase = "idle"
    /\ priceReq' = [priceReq EXCEPT ![g] = [phase |-> "save", seen |-> rate.current]]
    /\ UNCHANGED <<rate, rateReq, stored, rateChanges, rateHistories>>

SavePrice(g) ==
    /\ priceReq[g].phase = "save"
    /\ Store("current", priceReq[g].seen)
    /\ priceReq' = [priceReq EXCEPT ![g] = [phase |-> "read", seen |-> NoRate]]
    /\ UNCHANGED <<rate, rateReq, rateChanges, ratesCrossed, lost>>

\* ... so do edits of variants, orders, cancellations and the job for discounts.
ReadAggregates(g) ==
    /\ priceReq[g].phase \in {"idle", "read"}
    /\ priceReq' = [priceReq EXCEPT ![g] = [phase |-> "range", seen |-> rate.current]]
    /\ UNCHANGED <<rate, rateReq, stored, rateChanges, rateHistories>>

WriteAggregateRange(g) ==
    /\ priceReq[g].phase = "range"
    /\ Store("range", priceReq[g].seen)
    /\ priceReq' = [priceReq EXCEPT ![g] = IdlePrice]
    /\ UNCHANGED <<rate, rateReq, rateChanges, ratesCrossed, lost>>

PriceHandlerFails(g) ==
    /\ priceReq[g].phase # "idle"
    /\ priceReq' = [priceReq EXCEPT ![g] = IdlePrice]
    /\ UNCHANGED <<rate, rateReq, stored, rateChanges, rateHistories>>

RatesNext ==
    \/ \E h \in RateHandlers :
          \/ \E primary, fallback \in Rates \cup {NoRate} : FetchAllRates(h, primary, fallback)
          \/ \E r \in Rates : UpdateCurrency(h, r)
          \/ RecordRate(h) \/ WriteCurrentPrice(h) \/ ReadRange(h) \/ WriteRange(h)
          \/ ApplyRate(h) \/ RateHandlerFails(h)
    \/ \E g \in PriceHandlers :
          \/ EditPrice(g) \/ SavePrice(g)
          \/ ReadAggregates(g) \/ WriteAggregateRange(g) \/ PriceHandlerFails(g)
    \/ HoursPass
-------------------------------------------------------------------------------
RatesTypeOK ==
    /\ rate.current \in Rates \cup {NoRate} /\ rate.lastApplied \in Rates \cup {NoRate}
    /\ stored.current \in Rates \cup {NoRate} /\ stored.range \in Rates \cup {NoRate}
    /\ behind \subseteq {"current", "range"}

\* Too little of a move to recalculate for.
Near(from, to) == to = from \/ ~Moved(from, to)

\* Unless a recalculation is under way, the rate that is charged and the rates the stored
\* prices were computed with are all close to the rate last applied: however many small
\* moves there were, they do not add up to the threshold (exchangeRateFetcher.ts 33-50,
\* 194-235).  What may leave them apart: fetches that overlapped another change; a
\* recalculation that died, until one is finished; and a price or range written with a rate
\* that had changed since it was read, until it is written anew.
StoredPricesFollowRate ==
    Recalculating = {} /\ ~ratesCrossed /\ ~lost =>
        /\ Near(rate.lastApplied, rate.current)
        /\ \A field \in {"current", "range"} \ behind : Near(rate.lastApplied, stored[field])
===============================================================================
