--------------------------- MODULE ScannerSurface ---------------------------
(***************************************************************************)
(* The scanner's view of one token (core/scanner_surface.py): the rows of   *)
(* its pools, the best buy and the best sell among them, the summary the    *)
(* dashboard shows, the intake C1 is asked with, and the decision whether   *)
(* two summaries differ enough to ask again.  A surface is the sequence of  *)
(* a token's rows in the order of the scan.  Confidence and freshness of a  *)
(* row are one flag, a price is a number of price units.                    *)
(***************************************************************************)
EXTENDS Integers, Sequences, SequencesExt

CONSTANTS Pool, Venue,       \* the pools of a token and the venues they are at
          VenueOf,           \* [Pool -> Venue]
          None,              \* Python's None
          Threshold          \* a price that moves by no more has not moved

ASSUME SurfaceAssumption == VenueOf \in [Pool -> Venue] /\ Threshold \in Nat

Status == {"NO_DATA", "NO_EDGE", "CANDIDATE"}
Row == [pool : Pool, buy : Nat, sell : Nat, high : BOOLEAN]

\* One row a pool: scan_all_dexes reads every pool once.
IsSurface(rows) == rows \in Seq(Row) /\ \A i, j \in DOMAIN rows : rows[i].pool = rows[j].pool => i = j

\* The places of the rows that count.  (A fault: rows of low confidence do as well.)
PricedRows(rows) == {i \in DOMAIN rows : rows[i].buy > 0 /\ rows[i].sell > 0}
ValidRows(rows)  == {i \in DOMAIN rows : rows[i].high /\ rows[i].buy > 0 /\ rows[i].sell > 0}

\* min and max return the first of several best rows.
FirstOf(rows, places) == rows[CHOOSE i \in places : \A j \in places : i <= j]
BestBuy(rows, among) == FirstOf(rows, {i \in among : \A j \in among : rows[i].buy <= rows[j].buy})
BestSell(rows, among) == FirstOf(rows, {i \in among : \A j \in among : rows[i].sell >= rows[j].sell})

NoExtrema == [buy |-> None, sell |-> None]

\* compute_market_extrema
Extrema(rows) ==
  LET valid == ValidRows(rows)
  IN IF valid = {} THEN NoExtrema
     ELSE [buy |-> BestBuy(rows, valid), sell |-> BestSell(rows, valid)]

Spread(extrema) == extrema.sell.sell - extrema.buy.buy

NoData == [status |-> "NO_DATA", buyVenue |-> None, buyPrice |-> 0, sellVenue |-> None, sellPrice |-> 0]

\* build_token_summary
Summary(rows) ==
  LET e == Extrema(rows)
  IN IF e = NoExtrema THEN NoData
     ELSE [status |-> IF Spread(e) > 0 THEN "CANDIDATE" ELSE "NO_EDGE",
           buyVenue |-> VenueOf[e.buy.pool], buyPrice |-> e.buy.buy,
           sellVenue |-> VenueOf[e.sell.pool], sellPrice |-> e.sell.sell]

Summaries == [status : Status, buyVenue : Venue \cup {None}, buyPrice : Nat,
              sellVenue : Venue \cup {None}, sellPrice : Nat]

RowOf(rows, pool) == FirstOf(rows, {i \in DOMAIN rows : rows[i].pool = pool})

(***************************************************************************)
(* build_c1_intake: the rows of the pools with the best prices, looked up   *)
(* again among all rows; nothing without an edge, or when the surface has   *)
(* become stale (its freshest row is too old).                              *)
(***************************************************************************)
Intake(rows, stale) ==
  LET e == Extrema(rows)
  IN IF e = NoExtrema \/ stale THEN None
     ELSE IF Spread(e) <= 0 THEN None
     ELSE [buy |-> RowOf(rows, e.buy.pool), sell |-> RowOf(rows, e.sell.pool)]

\* A price of 0 stands for none.
Moved(old, new) ==
  old # 0 /\ new # 0 /\ (new - old > Threshold \/ old - new > Threshold)

\* should_recompute; a summary of the past is None before the first one.
ShouldRecompute(prev, cur) ==
  \/ prev = None
  \/ prev.buyVenue # cur.buyVenue \/ prev.sellVenue # cur.sellVenue
  \/ Moved(prev.buyPrice, cur.buyPrice) \/ Moved(prev.sellPrice, cur.sellPrice)
  \/ prev.status # cur.status

=============================================================================
