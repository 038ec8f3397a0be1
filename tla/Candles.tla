------------------------------ MODULE Candles ------------------------------
(***************************************************************************)
(* One rebuild of the candles: rebuild_candles reads the trades in chain     *)
(* order, build_candles streams them into candles once per interval, and one *)
(* transaction replaces the table by what came out.                          *)
(*                                                                         *)
(* A trade moves one token at its price, so the SOL it moves is its price and *)
(* the token volume of a candle is its trade count.                          *)
(***************************************************************************)
EXTENDS Integers, Sequences, FiniteSetsExt, Functions

CONSTANTS
  Trade,        \* the rows the trades table may hold
  TradeSets,    \* the tables a rebuild may find
  OldCandles,   \* what the candles table held before
  Short, Long   \* INTERVAL_1M, INTERVAL_5M

ASSUME TradeAssumption ==
  /\ Trade \subseteq [mint : Nat, slot : Nat, txIndex : Nat, time : Nat, price : Nat]
  /\ TradeSets \subseteq SUBSET Trade
  /\ \A S \in TradeSets : IsFiniteSet(S)

\* A transaction yields at most one trade.
ASSUME OneTradePerTransaction ==
  \A S \in TradeSets : \A t, u \in S :
    t.slot = u.slot /\ t.txIndex = u.txIndex => t = u

ASSUME IntervalsAssumption == Short \in Nat \ {0} /\ Long \in Nat \ {0} /\ Long > Short

\* An interval of five minutes is whole minutes. (60 and 300 seconds.)
ASSUME WholeIntervals == Long % Short = 0

Larger(x, y)  == IF x >= y THEN x ELSE y
Smaller(x, y) == IF x <= y THEN x ELSE y

VARIABLES
  trades,    \* the rows of the trades table with a block time
  interval,  \* the interval being built; 0 once both are
  rest,      \* the trades build_candles has still to see
  current,   \* the candle it is adding to, or NoCandle
  out,       \* the candles it has closed, of both intervals
  table,     \* the candles table
  result     \* of the rebuild: "none", "ok" or "failed"

vars == <<trades, interval, rest, current, out, table, result>>

NoCandle == [mint |-> 0, interval |-> 0, bucket |-> 0,
             open |-> 0, high |-> 0, low |-> 0, close |-> 0, sol |-> 0, count |-> 0]

PreviousBucket(time, iv) == time - (time % iv) - iv    \* mutants of BucketStart
NearestBucket(time, iv) == ((time + iv \div 2) \div iv) * iv

\* bucket_start
BucketStart(time, iv) == time - (time % iv)

\* ORDER BY mint, slot, tx_index, and the sort of build_candles. (One trade per
\* transaction: no two are equal.)
ByIndexOnly(t, u) ==                                   \* mutant of Precedes
  \/ t.mint < u.mint
  \/ t.mint = u.mint /\ t.txIndex < u.txIndex
  \/ t.mint = u.mint /\ t.txIndex = u.txIndex /\ t.slot < u.slot
Precedes(t, u) ==
  \/ t.mint < u.mint
  \/ t.mint = u.mint /\ t.slot < u.slot
  \/ t.mint = u.mint /\ t.slot = u.slot /\ t.txIndex < u.txIndex

Init ==
  /\ \E S \in TradeSets : trades = {t \in S : t.time > 0}
  /\ interval = Short
  /\ rest = trades
  /\ current = NoCandle
  /\ out = <<>>
  /\ table = OldCandles
  /\ result = "none"
-----------------------------------------------------------------------------
Fresh(t) == [mint |-> t.mint, interval |-> interval, bucket |-> BucketStart(t.time, interval),
             open |-> t.price, high |-> t.price, low |-> t.price, close |-> t.price,
             sol |-> 0, count |-> 0]

Added(c, t) == [c EXCEPT !.high = Larger(@, t.price), !.low = Smaller(@, t.price),
                         !.close = t.price, !.sol = @ + t.price, !.count = @ + 1]

\* The open candle is of this mint and bucket.
Fits(t) ==
  /\ current.count > 0
  /\ current.mint = t.mint
  /\ current.bucket = BucketStart(t.time, interval)

\* The candles once the open one, if any, is closed.
Closed == IF current.count > 0 THEN Append(out, current) ELSE out

TakeTrade ==
  /\ interval # 0
  /\ \E t \in rest :
       /\ \A u \in rest \ {t} : Precedes(t, u)
       /\ rest' = rest \ {t}
       /\ \/ Fits(t) /\ current' = Added(current, t) /\ out' = out
          \/ ~Fits(t) /\ current' = Added(Fresh(t), t) /\ out' = Closed
  /\ UNCHANGED <<trades, interval, table, result>>

NextInterval ==
  /\ interval # 0 /\ rest = {}
  /\ out' = Closed
  /\ current' = NoCandle
  /\ \/ interval = Short /\ interval' = Long /\ rest' = trades
     \/ interval = Long /\ interval' = 0 /\ rest' = {}
  /\ UNCHANGED <<trades, table, result>>

Row(c) == <<c.mint, c.interval, c.bucket>>

Conflict == \E i, j \in DOMAIN out : i # j /\ Row(out[i]) = Row(out[j])

InsertNew ==                                           \* mutant of Insert
  /\ interval = 0 /\ result = "none"
  /\ IF Conflict THEN result' = "failed" /\ table' = table
                 ELSE result' = "ok" /\ table' = table \cup {out[i] : i \in DOMAIN out}
  /\ UNCHANGED <<trades, interval, rest, current, out>>

\* One transaction empties the table and inserts the candles; two of one primary
\* key make it fail, and the table is what it was.
Insert ==
  /\ interval = 0 /\ result = "none"
  /\ IF Conflict THEN result' = "failed" /\ table' = table
                 ELSE result' = "ok" /\ table' = {out[i] : i \in DOMAIN out}
  /\ UNCHANGED <<trades, interval, rest, current, out>>

Finished == result # "none" /\ UNCHANGED vars

Next == TakeTrade \/ NextInterval \/ Insert \/ Finished

Spec == Init /\ [][Next]_vars
-----------------------------------------------------------------------------
(* Properties                                                              *)

Candle == [mint : Nat, interval : {0, Short, Long}, bucket : Nat,
           open : Nat, high : Nat, low : Nat, close : Nat, sol : Nat, count : Nat]

TypeOK ==
  /\ trades \subseteq Trade /\ rest \subseteq trades
  /\ interval \in {Short, Long, 0}
  /\ current \in Candle /\ out \in Seq(Candle)
  /\ result \in {"none", "ok", "failed"}

\* Later slots carry no earlier block time.
MonotoneTimes(T) == \A t, u \in T : t.slot <= u.slot => t.time <= u.time

\* While block times follow slots, no two candles share a primary key: a rebuild
\* does not fail half way through its inserts and leave the old candles.
OneCandlePerBucket == MonotoneTimes(trades) => ~Conflict /\ result # "failed"

Group(m, iv, b) == {t \in trades : t.mint = m /\ BucketStart(t.time, iv) = b}
Earlier(t, u) == t.slot < u.slot \/ (t.slot = u.slot /\ t.txIndex < u.txIndex)

\* The candle of a group of trades, by definition rather than by streaming.
CandleOf(m, iv, b) ==
  LET G      == Group(m, iv, b)
      prices == {t.price : t \in G}
      first  == CHOOSE t \in G : \A u \in G \ {t} : Earlier(t, u)
      last   == CHOOSE t \in G : \A u \in G \ {t} : Earlier(u, t)
  IN  [mint |-> m, interval |-> iv, bucket |-> b, open |-> first.price, close |-> last.price,
       high |-> Max(prices), low |-> Min(prices),
       sol |-> SumFunctionOnSet([t \in G |-> t.price], G), count |-> Cardinality(G)]

\* The table after a rebuild is exactly one candle for each mint, interval and
\* bucket that saw a trade: it opens with the first of them on the chain and
\* closes with the last, its extremes are prices it saw and its volume is theirs.
\* Nothing of the table before the rebuild is left.
CandlesAreTheTrades ==
  result = "ok" =>
    table = {CandleOf(t.mint, iv, BucketStart(t.time, iv)) : t \in trades, iv \in {Short, Long}}

\* While block times follow slots, the 5-minute candles agree with the 1-minute
\* candles they cover, though each series is built from the trades: each is what
\* its 1-minute candles, in time order, add up to.
LongFromShort ==
  result = "ok" /\ MonotoneTimes(trades) =>
    \A l \in {c \in table : c.interval = Long} :
      LET parts == {s \in table : /\ s.interval = Short /\ s.mint = l.mint
                                 /\ s.bucket \in l.bucket .. (l.bucket + Long - 1)}
      IN  /\ \E s \in parts : s.open = l.open /\ \A o \in parts : s.bucket <= o.bucket
          /\ \E s \in parts : s.close = l.close /\ \A o \in parts : s.bucket >= o.bucket
          /\ l.high = Max({s.high : s \in parts}) /\ l.low = Min({s.low : s \in parts})
          /\ l.sol = SumFunctionOnSet([s \in parts |-> s.sol], parts)
          /\ l.count = SumFunctionOnSet([s \in parts |-> s.count], parts)
=============================================================================
