------------------------------- MODULE Prices -------------------------------
(***************************************************************************)
(* The prices of one stock: the closes kept (services/price_history.py),   *)
(* the snapshot derived from them by whoever fetches them (the batch, a    *)
(* family that adds the stock, the backfill at sign-in) and the trend      *)
(* computed from the snapshot (services/trend.py). The provider gives a    *)
(* window of days, may be late with the current one, moves its price       *)
(* during the day and corrects past ones.                                  *)
(*                                                                         *)
(* Each definition named ...Bug is the one after it with a mistake; no     *)
(* specification uses it.                                                  *)
(***************************************************************************)
EXTENDS Integers, FiniteSets, FiniteSetsExt

CONSTANTS
  Amounts,    \* prices
  Days,       \* bound: the days looked at, 1..n
  Span,       \* calendar days of the low and high window
  History,    \* days of closes a fetch returns
  Retention,  \* days of closes the cleanup keeps
  Freshness,  \* days without a close after which a sign-in fetches
  Slack,      \* days of a window the recap does without
  MaxMoves    \* bound: price moves and corrections

NoPrice == 0  \* no bar, or not a number

ASSUME PricesAssumption ==
  /\ Amounts \subseteq Nat \ {NoPrice}
  /\ Cardinality(Days) \in Nat \ {0} /\ Days = 1..Cardinality(Days)
  /\ Span \in Nat \ {0} /\ History \in Nat /\ Freshness \in Nat
  /\ Slack \in Nat /\ MaxMoves \in Nat /\ Retention \in Nat
  /\ Retention >= History + Span

VARIABLES
  date,     \* the day
  book,     \* what the provider says each day's close is
  closes,   \* daily_closes
  snap,     \* price_snapshots: what derive_snapshot made of the closes
  trendRow, \* trend_analyses: computed from a snapshot
  moves,    \* price moves and corrections so far
  heard     \* history: the last close fetched for each day

priceVars == <<date, book, closes, snap, trendRow, moves, heard>>

Nothing == [price |-> NoPrice]
NoTrend == [price |-> NoPrice]

PriceInit ==
  /\ date = 1
  /\ book \in [Days -> Amounts \union {NoPrice}]
  /\ \A d \in Days : d > 1 => book[d] = NoPrice
  /\ closes = [d \in Days |-> NoPrice] /\ heard = closes
  /\ snap = Nothing /\ trendRow = NoTrend /\ moves = 0

-----------------------------------------------------------------------------
(* The provider.                                                           *)

NewDay ==
  /\ date + 1 \in Days /\ date' = date + 1
  /\ \E p \in Amounts \union {NoPrice} : book' = [book EXCEPT ![date + 1] = p]
  /\ UNCHANGED <<closes, snap, trendRow, moves, heard>>

(* The price of the day moves, its bar appears late, or an adjustment      *)
(* rewrites a past day.                                                    *)
PriceMoves ==
  /\ moves < MaxMoves /\ moves' = moves + 1
  /\ \E d \in 1..date, p \in Amounts : book' = [book EXCEPT ![d] = p]
  /\ UNCHANGED <<date, closes, snap, trendRow, heard>>

-----------------------------------------------------------------------------
(* The history and what is derived from it.                                *)

Bars == {d \in 1..date : d >= date - History /\ book[d] # NoPrice}

(* upsert_daily_closes: a known day gets the new close.                    *)
UpsertedBug == [d \in Days |-> IF d \in Bars /\ closes[d] = NoPrice THEN book[d] ELSE closes[d]]

Upserted == [d \in Days |-> IF d \in Bars THEN book[d] ELSE closes[d]]

(* The days before the latest one, as far as the window goes.              *)
WindowOf(table, latest) ==
  {d \in Days : d >= latest - Span /\ d < latest /\ table[d] # NoPrice}

KeptDays(table) == {d \in Days : table[d] # NoPrice}

(* derive_snapshot_for_ticker, NoPrice where the window is empty.          *)
Figures(table) ==
  LET latest == Max(KeptDays(table))
      window == {table[d] : d \in WindowOf(table, latest)}
      earlier == {d \in KeptDays(table) : d < latest}
  IN [price |-> table[latest],
      previous |-> IF earlier = {} THEN NoPrice ELSE table[Max(earlier)],
      low |-> IF window = {} THEN NoPrice ELSE Min(window),
      high |-> IF window = {} THEN NoPrice ELSE Max(window),
      asOf |-> latest]

(* The row of price_snapshots, with what was known when it was written.    *)
Derived(table) ==
  LET s == Figures(table)
  IN [price |-> s.price, previous |-> s.previous, low |-> s.low, high |-> s.high,
      asOf |-> s.asOf, from |-> heard']

(* ingest_one_ticker. A provider that fails or has nothing to say leaves   *)
(* everything as it is. (One whose answer has days but no number among     *)
(* them makes the code derive the figures once more from the closes it     *)
(* has: left out.) Fetch, upsert, figures and commit are one step: nobody  *)
(* else writes these rows in between but another ingest of the same stock. *)
Ingests ==
  IF Bars = {} THEN UNCHANGED <<closes, snap, heard>>
  ELSE /\ closes' = Upserted
       /\ heard' = [d \in Days |-> IF d \in Bars THEN book[d] ELSE heard[d]]
       /\ snap' = Derived(Upserted)

(* compute_trend: a new low is strictly below the window, and a stock      *)
(* without a window has none.                                              *)
TrendOf(s) ==
  [price |-> s.price, from |-> s.from, asOf |-> s.asOf,
   change |-> IF s.previous = NoPrice THEN 0 ELSE s.price - s.previous,
   low |-> s.low # NoPrice /\ s.price < s.low,
   high |-> s.high # NoPrice /\ s.price > s.high]

(* The recap derives a snapshot of its own. It has a move to tell if there *)
(* is a close of the day and one before, and calls it a record if the      *)
(* closes kept go back far enough (_move, _record).                        *)
HasMove(s) == s.asOf = date /\ s.previous # NoPrice
Record(s) ==
  CASE Min(KeptDays(closes)) > date - (Span - Slack) -> "none"
    [] s.high # NoPrice /\ s.price > s.high -> "new high"
    [] s.low # NoPrice /\ s.price < s.low -> "new low"
    [] OTHER -> "none"

IngestStage ==
  /\ Ingests
  /\ UNCHANGED <<date, book, trendRow, moves>>

ComputeStage ==
  /\ snap # Nothing
  /\ trendRow' = TrendOf(snap)
  /\ UNCHANGED <<date, book, closes, snap, moves, heard>>

(* A family adds the stock: both at once.                                  *)
StockAdded ==
  /\ Bars # {} /\ Ingests
  /\ trendRow' = TrendOf(snap')
  /\ UNCHANGED <<date, book, moves>>

(* tickers_needing_backfill: no close of the last days. The backfill does  *)
(* not compute.                                                            *)
SignInBackfill ==
  /\ \A d \in Days : closes[d] # NoPrice => d < date - Freshness
  /\ Ingests
  /\ UNCHANGED <<date, book, trendRow, moves>>

(* prune_daily_closes.                                                     *)
CleanupPrices ==
  /\ closes' = [d \in Days |-> IF d < date - Retention THEN NoPrice ELSE closes[d]]
  /\ closes' # closes
  /\ UNCHANGED <<date, book, snap, trendRow, moves, heard>>

PriceNext ==
  \/ NewDay \/ PriceMoves \/ IngestStage \/ ComputeStage
  \/ StockAdded \/ SignInBackfill \/ CleanupPrices

PriceSpec == PriceInit /\ [][PriceNext]_priceVars

-----------------------------------------------------------------------------
(* Properties.                                                             *)

PriceTypeOK ==
  /\ date \in Days /\ moves \in 0..MaxMoves
  /\ \A d \in Days : {book[d], closes[d]} \subseteq Amounts \union {NoPrice}
  /\ trendRow # NoTrend => trendRow.asOf \in 1..date

(* A trend reports a new low (high) exactly if its price is strictly below *)
(* (above) every close of the window before the price's day, each as the   *)
(* provider last gave it when the price was fetched, and the recap, which  *)
(* derives the figures once more, calls the day's price a record only if   *)
(* it is one: corrections of past days, bars that come late, partial       *)
(* fetches and the cleanup neither hide a low nor make one up. A price     *)
(* that equals the lowest of the window is no new low: _strictly_below     *)
(* says so, and the repository's README.md:65-68 the contrary.             *)
LowIsGenuine ==
  /\ trendRow # NoTrend =>
       LET window == {trendRow.from[d] : d \in WindowOf(trendRow.from, trendRow.asOf)}
       IN /\ trendRow.low <=> window # {} /\ \A p \in window : trendRow.price < p
          /\ trendRow.high <=> window # {} /\ \A p \in window : trendRow.price > p
  /\ KeptDays(closes) # {} /\ HasMove(Figures(closes)) =>
       LET window == {heard[d] : d \in WindowOf(heard, date)}
           today == heard[date]
       IN CASE Record(Figures(closes)) = "new low" -> \A p \in window : today < p
            [] Record(Figures(closes)) = "new high" -> \A p \in window : today > p
            [] OTHER -> TRUE
=============================================================================
