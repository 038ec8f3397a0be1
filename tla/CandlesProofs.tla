--------------------------- MODULE CandlesProofs ---------------------------
(***************************************************************************)
(* For any trades and any two intervals: the state of a rebuild is well      *)
(* formed; while block times follow slots no two candles share a primary     *)
(* key, so that the transaction that stores them cannot fail on one; what is *)
(* stored is what the definition of a candle says of the trades; and the     *)
(* long candles are what the short ones add up to.                           *)
(***************************************************************************)
EXTENDS Candles, FiniteSums

\* The order in which build_candles closes the candles of an interval.
Before(c, d) == c.mint < d.mint \/ (c.mint = d.mint /\ c.bucket < d.bucket)

\* The candles closed so far are in order, interval by interval.
ClosedInOrder ==
  /\ \A i \in DOMAIN out : out[i].interval \in {Short, Long}
                           /\ (interval = Short => out[i].interval = Short)
  /\ \A i, j \in DOMAIN out :
       i < j /\ out[i].interval = out[j].interval => Before(out[i], out[j])

\* The open candle comes after all of its interval that are closed, and no trade
\* still to come belongs before it.
OpenIsLatest ==
  IF current.count > 0
  THEN /\ interval # 0 /\ current.interval = interval
       /\ \A i \in DOMAIN out : out[i].interval = interval => Before(out[i], current)
       /\ \A t \in rest : \/ current.mint < t.mint
                          \/ /\ current.mint = t.mint
                             /\ current.bucket <= BucketStart(t.time, interval)
  ELSE interval # 0 => \A i \in DOMAIN out : out[i].interval # interval

BuildInOrder == MonotoneTimes(trades) => ClosedInOrder /\ OpenIsLatest /\ result # "failed"

LEMMA IntervalsApart == Short # 0 /\ Long # 0 /\ Short # Long /\ Short \in Nat /\ Long \in Nat
BY IntervalsAssumption

LEMMA BucketInNat ==
  ASSUME NEW time \in Nat, NEW iv \in Nat \ {0}
  PROVE  BucketStart(time, iv) \in Nat
<1>1. time % iv \in 0 .. (iv - 1) /\ time % iv <= time
  OBVIOUS
<1> QED  BY <1>1 DEF BucketStart

\* bucket_start never decreases as time goes on.
LEMMA BucketMonotone ==
  ASSUME NEW x \in Nat, NEW y \in Nat, NEW iv \in Nat \ {0}, x <= y
  PROVE  BucketStart(x, iv) <= BucketStart(y, iv)
<1> DEFINE p == x \div iv
           q == y \div iv
<1>1. p \in Nat /\ q \in Nat
  OBVIOUS
<1>2. x = iv * p + (x % iv) /\ y = iv * q + (y % iv)
  OBVIOUS
<1>3. x % iv \in 0 .. (iv - 1) /\ y % iv \in 0 .. (iv - 1)
  OBVIOUS
<1> HIDE DEF p, q
<1>4. iv * p \in Nat /\ iv * q \in Nat
  BY <1>1
<1>5. p <= q
  <2> SUFFICES ASSUME p >= q + 1 PROVE FALSE
    BY <1>1
  <2>1. iv * p >= iv * (q + 1)
    BY <1>1
  <2>2. iv * (q + 1) = iv * q + iv
    BY <1>1
  <2> QED  BY <1>2, <1>3, <1>4, <2>1, <2>2
<1>6. iv * p <= iv * q
  BY <1>1, <1>5
<1> QED  BY <1>2, <1>3, <1>4, <1>6 DEF BucketStart

LEMMA CandleTypeInit == Init => TypeOK
BY IntervalsApart, TradeAssumption DEF Init, TypeOK, NoCandle, Candle

\* The candle a trade opens or is added to is the one of its mint and bucket.
LEMMA TradeCandle ==
  ASSUME TypeOK, interval # 0, NEW t \in rest, NEW c \in {current, Fresh(t)},
         c = Fresh(t) \/ Fits(t)
  PROVE  /\ Added(c, t) \in Candle /\ Added(c, t).count > 0
         /\ Added(c, t).mint = t.mint
         /\ Added(c, t).bucket = BucketStart(t.time, interval)
         /\ Added(c, t).interval = c.interval
<1>1. t \in Trade
  BY DEF TypeOK
<1>2. t.mint \in Nat /\ t.time \in Nat /\ t.price \in Nat
  BY <1>1, TradeAssumption
<1>3. interval \in {Short, Long} /\ interval \in Nat \ {0}
  BY IntervalsApart DEF TypeOK
<1>4. BucketStart(t.time, interval) \in Nat
  BY <1>2, <1>3, BucketInNat
<1>5. Fresh(t) \in Candle
  BY <1>2, <1>3, <1>4 DEF Fresh, Candle
<1>6. c \in Candle
  BY <1>5 DEF TypeOK
<1>7. c.mint = t.mint /\ c.bucket = BucketStart(t.time, interval)
  <2>1. CASE c = Fresh(t)
    BY <2>1 DEF Fresh
  <2>2. CASE c = current /\ Fits(t)
    BY <2>2 DEF Fits
  <2> QED  BY <2>1, <2>2
<1> DEFINE d == Added(c, t)
           hi == Larger(c.high, t.price)
           lo == Smaller(c.low, t.price)
           vol == c.sol + t.price
           n == c.count + 1
<1>8. hi \in Nat /\ lo \in Nat /\ vol \in Nat /\ n \in Nat /\ n > 0
  BY <1>2, <1>6 DEF Larger, Smaller, Candle
<1>9. d = [c EXCEPT !.high = hi, !.low = lo, !.close = t.price, !.sol = vol, !.count = n]
  BY DEF Added
<1> HIDE DEF d, hi, lo, vol, n
<1>10. d \in Candle
  BY <1>2, <1>6, <1>8, <1>9 DEF Candle
<1>11. d.count = n /\ d.mint = c.mint /\ d.bucket = c.bucket /\ d.interval = c.interval
  BY <1>6, <1>9 DEF Candle
<1> QED  BY <1>7, <1>8, <1>10, <1>11 DEF d

LEMMA CandleTypeStep == TypeOK /\ [Next]_vars => TypeOK'
<1> SUFFICES ASSUME TypeOK, [Next]_vars PROVE TypeOK'
  OBVIOUS
<1>0. NoCandle \in Candle /\ Closed \in Seq(Candle)
  <2>1. NoCandle \in Candle  BY IntervalsApart DEF NoCandle, Candle
  <2>2. out \in Seq(Candle) /\ current \in Candle  BY DEF TypeOK
  <2>3. Append(out, current) \in Seq(Candle)  BY <2>2
  <2> QED  BY <2>1, <2>2, <2>3 DEF Closed
<1>1. CASE TakeTrade
  <2>1. PICK t \in rest : /\ rest' = rest \ {t}
                         /\ \/ Fits(t) /\ current' = Added(current, t) /\ out' = out
                            \/ ~Fits(t) /\ current' = Added(Fresh(t), t) /\ out' = Closed
    BY <1>1 DEF TakeTrade
  <2>2. interval # 0 /\ UNCHANGED <<trades, interval, table, result>>
    BY <1>1 DEF TakeTrade
  <2>3. current' \in Candle
    <3>1. CASE Fits(t) /\ current' = Added(current, t)
      <4>1. Added(current, t) \in Candle  BY <2>2, <3>1, TradeCandle
      <4> QED  BY <3>1, <4>1
    <3>2. CASE current' = Added(Fresh(t), t)
      <4>1. Added(Fresh(t), t) \in Candle  BY <2>2, TradeCandle
      <4> QED  BY <3>2, <4>1
    <3> QED  BY <2>1, <3>1, <3>2
  <2> QED  BY <1>0, <2>1, <2>2, <2>3 DEF TypeOK
<1>2. CASE NextInterval
  BY <1>0, <1>2 DEF NextInterval, TypeOK
<1>3. CASE Insert
  BY <1>3 DEF Insert, TypeOK
<1>4. CASE Finished \/ UNCHANGED vars
  BY <1>4 DEF Finished, vars, TypeOK
<1> QED  BY <1>1, <1>2, <1>3, <1>4 DEF Next

LEMMA OrderInit == Init => BuildInOrder
BY IntervalsApart DEF Init, BuildInOrder, ClosedInOrder, OpenIsLatest, NoCandle

\* Closing the open candle keeps the order.
LEMMA ClosedKeepsOrder ==
  ASSUME TypeOK, ClosedInOrder, OpenIsLatest
  PROVE  /\ Closed \in Seq(Candle)
         /\ \A i \in DOMAIN Closed :
              /\ Closed[i].interval \in {Short, Long}
              /\ interval = Short => Closed[i].interval = Short
              /\ \/ i \in DOMAIN out /\ Closed[i] = out[i]
                 \/ current.count > 0 /\ Closed[i] = current
         /\ \A i, j \in DOMAIN Closed :
              i < j /\ Closed[i].interval = Closed[j].interval => Before(Closed[i], Closed[j])
<1>1. CASE current.count > 0
  <2>1. Closed = Append(out, current)
    BY <1>1 DEF Closed
  <2>2. out \in Seq(Candle) /\ current \in Candle /\ Len(out) \in Nat
        /\ DOMAIN out = 1 .. Len(out)
    BY DEF TypeOK
  <2>3. Closed \in Seq(Candle) /\ DOMAIN Closed = 1 .. (Len(out) + 1)
        /\ Closed[Len(out) + 1] = current
        /\ \A i \in DOMAIN out : Closed[i] = out[i]
    BY <2>1, <2>2
  <2>4. interval \in {Short, Long} /\ current.interval = interval
    BY <1>1 DEF OpenIsLatest, TypeOK
  <2>5. \A i \in DOMAIN Closed : i \in DOMAIN out \/ i = Len(out) + 1
    BY <2>2, <2>3
  <2>6. \A i \in DOMAIN out : out[i].interval = interval => Before(out[i], current)
    BY <1>1 DEF OpenIsLatest
  <2>7. ASSUME NEW i \in DOMAIN Closed, NEW j \in DOMAIN Closed, i < j,
               Closed[i].interval = Closed[j].interval
        PROVE  Before(Closed[i], Closed[j])
    <3>1. i \in DOMAIN out
      BY <2>2, <2>3, <2>7
    <3>2. CASE j = Len(out) + 1
      <4>1. Closed[i] = out[i] /\ Closed[j] = current
        BY <2>3, <3>1, <3>2
      <4> QED  BY <2>4, <2>6, <2>7, <3>1, <4>1
    <3>3. CASE j \in DOMAIN out
      <4>1. Closed[i] = out[i] /\ Closed[j] = out[j]
        BY <2>3, <3>1, <3>3
      <4> QED  BY <2>7, <3>1, <3>3, <4>1 DEF ClosedInOrder
    <3> QED  BY <2>5, <3>2, <3>3
  <2>8. ASSUME NEW i \in DOMAIN Closed
        PROVE  /\ Closed[i].interval \in {Short, Long}
               /\ interval = Short => Closed[i].interval = Short
               /\ \/ i \in DOMAIN out /\ Closed[i] = out[i]
                  \/ current.count > 0 /\ Closed[i] = current
    <3>1. CASE i \in DOMAIN out
      BY <2>3, <3>1 DEF ClosedInOrder
    <3>2. CASE i = Len(out) + 1
      BY <1>1, <2>3, <2>4, <3>2
    <3> QED  BY <2>5, <3>1, <3>2
  <2> QED  BY <2>3, <2>7, <2>8
<1>2. CASE ~(current.count > 0)
  <2>1. Closed = out
    BY <1>2 DEF Closed
  <2> QED  BY <2>1 DEF ClosedInOrder, TypeOK
<1> QED  BY <1>1, <1>2

\* Candles in order share no primary key.
LEMMA InOrderNoConflict ==
  ASSUME TypeOK, ClosedInOrder
  PROVE  ~Conflict
<1> SUFFICES ASSUME NEW i \in DOMAIN out, NEW j \in DOMAIN out, i < j,
                    Row(out[i]) = Row(out[j])
             PROVE  FALSE
  BY DEF Conflict, TypeOK
<1>1. out[i] \in Candle /\ out[j] \in Candle
  BY DEF TypeOK
<1>2. out[i].mint = out[j].mint /\ out[i].interval = out[j].interval
      /\ out[i].bucket = out[j].bucket
  BY DEF Row
<1>3. Before(out[i], out[j])
  BY <1>2 DEF ClosedInOrder
<1> QED  BY <1>1, <1>2, <1>3 DEF Before, Candle

LEMMA OrderStep == TypeOK /\ BuildInOrder /\ [Next]_vars => BuildInOrder'
<1> SUFFICES ASSUME TypeOK, BuildInOrder, [Next]_vars, MonotoneTimes(trades)
             PROVE  (ClosedInOrder /\ OpenIsLatest /\ result # "failed")'
  <2>1. ASSUME [Next]_vars PROVE trades' = trades
    BY <2>1 DEF Next, TakeTrade, NextInterval, Insert, Finished, vars
  <2> QED  BY <2>1 DEF BuildInOrder, MonotoneTimes
<1>0. ClosedInOrder /\ OpenIsLatest /\ result # "failed"
  BY DEF BuildInOrder
<1>1. CASE TakeTrade
  <2>1. PICK t \in rest :
          /\ \A u \in rest \ {t} : Precedes(t, u)
          /\ rest' = rest \ {t}
          /\ \/ Fits(t) /\ current' = Added(current, t) /\ out' = out
             \/ ~Fits(t) /\ current' = Added(Fresh(t), t) /\ out' = Closed
    BY <1>1 DEF TakeTrade
  <2>2. interval # 0 /\ UNCHANGED <<trades, interval, table, result>>
    BY <1>1 DEF TakeTrade
  <2> DEFINE b == BucketStart(t.time, interval)
  <2>3. Fresh(t).interval = interval
    BY DEF Fresh
  <2>4. Fits(t) => current.count > 0 /\ current.interval = interval
    BY <1>0 DEF Fits, OpenIsLatest
  <2>5. /\ current'.count > 0 /\ current'.mint = t.mint /\ current'.bucket = b
        /\ current'.interval = interval
    <3>1. CASE Fits(t) /\ current' = Added(current, t)
      <4>1. /\ Added(current, t).count > 0 /\ Added(current, t).mint = t.mint
            /\ Added(current, t).bucket = b
            /\ Added(current, t).interval = current.interval
        BY <2>2, <3>1, TradeCandle
      <4> QED  BY <2>4, <3>1, <4>1
    <3>2. CASE current' = Added(Fresh(t), t)
      <4>1. /\ Added(Fresh(t), t).count > 0 /\ Added(Fresh(t), t).mint = t.mint
            /\ Added(Fresh(t), t).bucket = b
            /\ Added(Fresh(t), t).interval = Fresh(t).interval
        BY <2>2, TradeCandle
      <4> QED  BY <2>3, <3>2, <4>1
    <3> QED  BY <2>1, <3>1, <3>2
  <2>6. \A u \in rest : /\ u.mint \in Nat /\ u.slot \in Nat /\ u.time \in Nat
                        /\ u \in trades
                        /\ BucketStart(u.time, interval) \in Nat
    <3>1. \A u \in rest : u \in Trade /\ u \in trades
      BY DEF TypeOK
    <3>2. \A u \in rest : u.mint \in Nat /\ u.slot \in Nat /\ u.time \in Nat
      BY <3>1, TradeAssumption
    <3>3. interval \in Nat \ {0}
      BY <2>2, IntervalsApart DEF TypeOK
    <3> QED  BY <3>1, <3>2, <3>3, BucketInNat
  <2>7. \A u \in rest' : \/ t.mint < u.mint
                         \/ t.mint = u.mint /\ b <= BucketStart(u.time, interval)
    <3> SUFFICES ASSUME NEW u \in rest',
                        ~(t.mint < u.mint)
                 PROVE  t.mint = u.mint /\ b <= BucketStart(u.time, interval)
      OBVIOUS
    <3>1. u \in rest /\ Precedes(t, u)
      BY <2>1
    <3>2. t.mint = u.mint /\ t.slot <= u.slot
      BY <2>6, <3>1 DEF Precedes
    <3>3. t.time <= u.time
      BY <2>6, <3>1, <3>2 DEF MonotoneTimes
    <3>4. interval \in Nat \ {0}
      BY <2>2, IntervalsApart DEF TypeOK
    <3> QED  BY <2>6, <3>1, <3>2, <3>3, <3>4, BucketMonotone
  <2>8. CASE Fits(t) /\ out' = out
    <3>1. current.mint = t.mint /\ current.bucket = b /\ current.count > 0
      BY <2>8 DEF Fits
    <3>2. ClosedInOrder'
      BY <1>0, <2>2, <2>8 DEF ClosedInOrder
    <3>3. \A i \in DOMAIN out' : out'[i].interval = interval => Before(out'[i], current')
      BY <1>0, <2>5, <2>8, <3>1 DEF OpenIsLatest, Before
    <3>4. OpenIsLatest'
      BY <2>2, <2>5, <2>7, <3>3 DEF OpenIsLatest
    <3> QED  BY <1>0, <2>2, <3>2, <3>4
  <2>9. CASE ~Fits(t) /\ out' = Closed
    <3>1. ClosedInOrder'
      BY <1>0, <2>2, <2>9, ClosedKeepsOrder DEF ClosedInOrder
    <3>2. current.count > 0 => Before(current, current')
      <4> SUFFICES ASSUME current.count > 0 PROVE Before(current, current')
        OBVIOUS
      <4>1. \/ current.mint < t.mint
            \/ current.mint = t.mint /\ current.bucket <= b
        BY <1>0 DEF OpenIsLatest
      <4>2. current.mint = t.mint => current.bucket # b
        BY <2>9 DEF Fits
      <4>3. current.bucket \in Nat /\ b \in Nat
        BY <2>6 DEF TypeOK, Candle
      <4> QED  BY <2>5, <4>1, <4>2, <4>3 DEF Before
    <3>3. ASSUME NEW i \in DOMAIN out', out'[i].interval = interval
          PROVE  Before(out'[i], current')
      <4>1. CASE i \in DOMAIN out /\ Closed[i] = out[i]
        <5>1. out[i].interval = interval
          BY <2>9, <3>3, <4>1
        <5>2. current.count > 0
          BY <1>0, <2>2, <4>1, <5>1 DEF OpenIsLatest
        <5>3. Before(out[i], current)
          BY <1>0, <4>1, <5>1, <5>2 DEF OpenIsLatest
        <5>4. out[i] \in Candle /\ current \in Candle
          BY <4>1 DEF TypeOK
        <5>5. t.mint \in Nat /\ b \in Nat
          BY <2>6
        <5>6. Before(out[i], current')
          BY <2>5, <3>2, <5>2, <5>3, <5>4, <5>5 DEF Before, Candle
        <5> QED  BY <2>9, <4>1, <5>6
      <4>2. CASE current.count > 0 /\ Closed[i] = current
        BY <2>9, <3>2, <4>2
      <4> QED  BY <1>0, <2>9, <3>3, <4>1, <4>2, ClosedKeepsOrder
    <3>4. OpenIsLatest'
      BY <2>2, <2>5, <2>7, <3>3 DEF OpenIsLatest
    <3> QED  BY <1>0, <2>2, <3>1, <3>4
  <2> QED  BY <2>1, <2>8, <2>9
<1>2. CASE NextInterval
  <2>1. /\ interval # 0 /\ out' = Closed /\ current' = NoCandle /\ UNCHANGED <<trades, result>>
        /\ \/ interval = Short /\ interval' = Long
           \/ interval = Long /\ interval' = 0
    BY <1>2 DEF NextInterval
  <2>2. ClosedInOrder'
    BY <1>0, <2>1, ClosedKeepsOrder, IntervalsApart DEF ClosedInOrder
  <2>3. OpenIsLatest'
    BY <1>0, <2>1, ClosedKeepsOrder, IntervalsApart DEF OpenIsLatest, NoCandle
  <2> QED  BY <1>0, <2>1, <2>2, <2>3
<1>3. CASE Insert
  <2>1. UNCHANGED <<trades, interval, rest, current, out>>
    BY <1>3 DEF Insert
  <2>2. ~Conflict
    BY <1>0, InOrderNoConflict
  <2>3. result' # "failed"
    BY <1>3, <2>2 DEF Insert
  <2> QED  BY <1>0, <2>1, <2>3 DEF ClosedInOrder, OpenIsLatest
<1>4. CASE Finished \/ UNCHANGED vars
  BY <1>0, <1>4 DEF Finished, vars, ClosedInOrder, OpenIsLatest
<1> QED  BY <1>1, <1>2, <1>3, <1>4 DEF Next

\* The state of a rebuild is well formed: buckets are never negative, and only
\* trades that were read are still to come.
THEOREM CandlesTypeCorrect == Spec => []TypeOK
<1> QED  BY CandleTypeInit, CandleTypeStep, PTL DEF Spec

\* While block times follow slots, the rebuild of any table gives at most one
\* candle per mint, interval and bucket, and its transaction goes through.
THEOREM OneCandlePerKey == Spec => []OneCandlePerBucket
<1>1. TypeOK /\ BuildInOrder => OneCandlePerBucket
  BY InOrderNoConflict DEF BuildInOrder, OneCandlePerBucket
<1> QED
  BY CandleTypeInit, CandleTypeStep, OrderInit, OrderStep, <1>1, PTL DEF Spec

-----------------------------------------------------------------------------
(* What a candle says of the trades it was made from                       *)

Describes(c, G) ==
  /\ IsFiniteSet(G)
  /\ \A t \in G : t.mint = c.mint /\ BucketStart(t.time, c.interval) = c.bucket
  /\ \E f \in G : c.open = f.price /\ \A u \in G \ {f} : Earlier(f, u)
  /\ \E l \in G : c.close = l.price /\ \A u \in G \ {l} : Earlier(u, l)
  /\ (\E t \in G : c.high = t.price) /\ \A t \in G : t.price <= c.high
  /\ (\E t \in G : c.low = t.price) /\ \A t \in G : c.low <= t.price
  /\ c.sol = SumFunctionOnSet([t \in G |-> t.price], G)
  /\ c.count = Cardinality(G)

LEMMA EarlierIsAnOrder ==
  ASSUME NEW t \in Trade, NEW u \in Trade, Earlier(t, u)
  PROVE  ~Earlier(u, t)
<1>1. t.slot \in Nat /\ u.slot \in Nat /\ t.txIndex \in Nat /\ u.txIndex \in Nat
  BY TradeAssumption
<1>. QED
  BY <1>1 DEF Earlier

LEMMA PrecedesInMint ==
  ASSUME NEW t \in Trade, NEW u \in Trade, Precedes(t, u), t.mint = u.mint
  PROVE  Earlier(t, u)
<1>1. t.mint \in Nat /\ u.mint \in Nat
  BY TradeAssumption
<1>. QED
  BY <1>1 DEF Earlier, Precedes

\* The volume of one trade more.
LEMMA VolumeOfOneMore ==
  ASSUME NEW G, IsFiniteSet(G), G \subseteq Trade, NEW t \in Trade, t \notin G
  PROVE  /\ SumFunctionOnSet([u \in G \cup {t} |-> u.price], G \cup {t})
              = SumFunctionOnSet([u \in G |-> u.price], G) + t.price
         /\ Cardinality(G \cup {t}) = Cardinality(G) + 1
         /\ IsFiniteSet(G \cup {t})
<1> DEFINE H == G \cup {t}
           f == [u \in G |-> u.price]
           h == [u \in H |-> u.price]
<1>1. \A u \in Trade : u.price \in Int
  BY TradeAssumption
<1>2. IsFiniteSet(H) /\ Cardinality(H) = Cardinality(G) + 1
  BY FS_AddElement
<1>3. Integral(f, G) /\ Integral(h, H)
  BY <1>1 DEF Integral
<1>4. H \ {t} = G /\ t \in H /\ h[t] = t.price /\ \A u \in G : f[u] = h[u]
  OBVIOUS
<1>. HIDE DEF H, f, h
<1>5. SumFunctionOnSet(h, H) = SumFunctionOnSet(h, G) + t.price
  BY <1>2, <1>3, <1>4, SumOfOneMore
<1>6. SumFunctionOnSet(h, G) = SumFunctionOnSet(f, G)
  BY <1>3, <1>4, SumOfSame
<1>. QED
  BY <1>2, <1>5, <1>6 DEF H, f, h

\* A candle a trade opens describes that trade.
LEMMA OpenedDescribes ==
  ASSUME TypeOK, interval # 0, NEW t \in rest
  PROVE  Describes(Added(Fresh(t), t), {t})
<1> DEFINE c == Added(Fresh(t), t)
<1>1. t \in Trade /\ t.price \in Nat
  BY TradeAssumption DEF TypeOK
<1>2. /\ c.open = t.price /\ c.close = t.price /\ c.high = t.price /\ c.low = t.price
      /\ c.mint = t.mint /\ c.interval = interval /\ c.bucket = BucketStart(t.time, interval)
      /\ c.sol = 0 + t.price /\ c.count = 0 + 1
  BY <1>1 DEF Added, Fresh, Larger, Smaller
<1>. HIDE DEF c
<1>3. IsFiniteSet({}) /\ Cardinality({}) = 0
  BY FS_EmptySet
<1>4. /\ SumFunctionOnSet([u \in {} \cup {t} |-> u.price], {} \cup {t})
           = SumFunctionOnSet([u \in {} |-> u.price], {}) + t.price
      /\ Cardinality({} \cup {t}) = 0 + 1 /\ IsFiniteSet({} \cup {t})
  BY <1>1, <1>3, VolumeOfOneMore
<1>5. SumFunctionOnSet([u \in {} |-> u.price], {}) = 0
  BY SumOfNone
<1>6. {} \cup {t} = {t}
  OBVIOUS
<1>7. /\ c.sol = SumFunctionOnSet([u \in {t} |-> u.price], {t})
      /\ c.count = Cardinality({t}) /\ IsFiniteSet({t})
  BY <1>2, <1>4, <1>5, <1>6
<1>8. \A u \in {t} : u.price <= c.high /\ c.low <= u.price
  BY <1>1, <1>2
<1>. QED
  BY <1>2, <1>7, <1>8 DEF Describes, c

\* A candle a later trade of its bucket is added to describes that trade too.
LEMMA AddedDescribes ==
  ASSUME TypeOK, interval # 0, NEW t \in rest, Fits(t), current.interval = interval,
         NEW G \in SUBSET (trades \ rest), Describes(current, G),
         \A s \in trades \ rest : Precedes(s, t)
  PROVE  Describes(Added(current, t), G \cup {t})
<1> DEFINE c == Added(current, t)
           H == G \cup {t}
<1>1. /\ t \in Trade /\ t.price \in Nat /\ G \subseteq Trade /\ t \notin G
      /\ \A u \in G : u.price \in Nat
      /\ current \in Candle
  BY TradeAssumption DEF TypeOK
<1>2. /\ current.open \in Nat /\ current.high \in Nat /\ current.low \in Nat
  BY <1>1 DEF Candle
<1>3. /\ c.open = current.open /\ c.close = t.price
      /\ c.high = Larger(current.high, t.price) /\ c.low = Smaller(current.low, t.price)
      /\ c.mint = current.mint /\ c.interval = current.interval /\ c.bucket = current.bucket
      /\ c.sol = current.sol + t.price /\ c.count = current.count + 1
  BY <1>1 DEF Added, Candle
<1>. HIDE DEF c
<1>4. /\ c.sol = SumFunctionOnSet([u \in H |-> u.price], H)
      /\ c.count = Cardinality(H) /\ IsFiniteSet(H)
  <2>1. /\ IsFiniteSet(G) /\ current.sol = SumFunctionOnSet([u \in G |-> u.price], G)
        /\ current.count = Cardinality(G)
    BY DEF Describes
  <2>2. /\ SumFunctionOnSet([u \in H |-> u.price], H) = current.sol + t.price
        /\ Cardinality(H) = current.count + 1 /\ IsFiniteSet(H)
    BY <1>1, <2>1, VolumeOfOneMore
  <2>. QED
    BY <1>3, <2>2
<1>5. \A u \in H : u.mint = c.mint /\ BucketStart(u.time, c.interval) = c.bucket
  BY <1>3 DEF Describes, Fits
<1>6. \A u \in G : Earlier(u, t)
  <2>. TAKE u \in G
  <2>1. u.mint = t.mint
    BY <1>3, <1>5
  <2>. QED
    BY <1>1, <2>1, PrecedesInMint
<1>7. \E f \in H : c.open = f.price /\ \A u \in H \ {f} : Earlier(f, u)
  <2>1. PICK f \in G : current.open = f.price /\ \A u \in G \ {f} : Earlier(f, u)
    BY DEF Describes
  <2>. QED
    BY <1>3, <1>6, <2>1
<1>8. \E l \in H : c.close = l.price /\ \A u \in H \ {l} : Earlier(u, l)
  BY <1>3, <1>6
<1>9. (\E u \in H : c.high = u.price) /\ \A u \in H : u.price <= c.high
  <2>1. (\E u \in G : current.high = u.price) /\ \A u \in G : u.price <= current.high
    BY DEF Describes
  <2>. QED
    BY <1>1, <1>2, <1>3, <2>1 DEF Larger
<1>10. (\E u \in H : c.low = u.price) /\ \A u \in H : c.low <= u.price
  <2>1. (\E u \in G : current.low = u.price) /\ \A u \in G : current.low <= u.price
    BY DEF Describes
  <2>. QED
    BY <1>1, <1>2, <1>3, <2>1 DEF Smaller
<1>. HIDE DEF H
<1>11. Describes(c, H)
  BY <1>4, <1>5, <1>7, <1>8, <1>9, <1>10 DEF Describes
<1>. QED
  BY <1>11 DEF c, H

LEMMA MaxIs ==
  ASSUME NEW S, S \subseteq Nat, NEW m \in S, \A x \in S : x <= m
  PROVE  m = Max(S)
<1>1. \A x \in S : (\A y \in S : x >= y) => x = m
  OBVIOUS
<1>2. \A x \in S : m >= x
  OBVIOUS
<1>. QED
  BY <1>1, <1>2 DEF Max

LEMMA MinIs ==
  ASSUME NEW S, S \subseteq Nat, NEW m \in S, \A x \in S : m <= x
  PROVE  m = Min(S)
<1>1. \A x \in S : (\A y \in S : x =< y) => x = m
  OBVIOUS
<1>. QED
  BY <1>1 DEF Min

\* A candle that describes its whole group is the candle of that group.
LEMMA DescribedIsCandleOf ==
  ASSUME NEW c \in Candle, Describes(c, Group(c.mint, c.interval, c.bucket)),
         trades \subseteq Trade
  PROVE  c = CandleOf(c.mint, c.interval, c.bucket)
<1> DEFINE G == Group(c.mint, c.interval, c.bucket)
           first == CHOOSE t \in G : \A u \in G \ {t} : Earlier(t, u)
           last == CHOOSE t \in G : \A u \in G \ {t} : Earlier(u, t)
           prices == {t.price : t \in G}
<1>1. G \subseteq Trade /\ \A t \in G : t.price \in Nat
  BY TradeAssumption DEF Group
<1>2. c.open = first.price
  <2>1. PICK f \in G : c.open = f.price /\ \A u \in G \ {f} : Earlier(f, u)
    BY DEF Describes
  <2>2. first \in G /\ \A u \in G \ {first} : Earlier(first, u)
    BY <2>1
  <2>. HIDE DEF first, G
  <2>3. first = f
    BY <1>1, <2>1, <2>2, EarlierIsAnOrder
  <2>. QED
    BY <2>1, <2>3
<1>3. c.close = last.price
  <2>1. PICK f \in G : c.close = f.price /\ \A u \in G \ {f} : Earlier(u, f)
    BY DEF Describes
  <2>2. last \in G /\ \A u \in G \ {last} : Earlier(u, last)
    BY <2>1
  <2>. HIDE DEF last, G
  <2>3. last = f
    BY <1>1, <2>1, <2>2, EarlierIsAnOrder
  <2>. QED
    BY <2>1, <2>3
<1>4. /\ c.high \in prices /\ \A p \in prices : p <= c.high
      /\ c.low \in prices /\ \A p \in prices : c.low <= p
      /\ prices \subseteq Nat
  BY <1>1 DEF Describes
<1>. HIDE DEF prices
<1>5. c.high = Max(prices) /\ c.low = Min(prices)
  BY <1>4, MaxIs, MinIs
<1>7. /\ c.sol = SumFunctionOnSet([t \in G |-> t.price], G) /\ c.count = Cardinality(G)
  BY DEF Describes
<1>8. CandleOf(c.mint, c.interval, c.bucket) =
        [mint |-> c.mint, interval |-> c.interval, bucket |-> c.bucket,
         open |-> first.price, close |-> last.price,
         high |-> Max(prices), low |-> Min(prices),
         sol |-> SumFunctionOnSet([t \in G |-> t.price], G), count |-> Cardinality(G)]
  BY DEF CandleOf, prices
<1>. HIDE DEF G, first, last
<1>9. CandleOf(c.mint, c.interval, c.bucket) =
        [mint |-> c.mint, interval |-> c.interval, bucket |-> c.bucket,
         open |-> c.open, close |-> c.close, high |-> c.high, low |-> c.low,
         sol |-> c.sol, count |-> c.count]
  BY <1>2, <1>3, <1>5, <1>7, <1>8
<1>10. c = [mint |-> c.mint, interval |-> c.interval, bucket |-> c.bucket,
            open |-> c.open, close |-> c.close, high |-> c.high, low |-> c.low,
            sol |-> c.sol, count |-> c.count]
  BY DEF Candle
<1>. QED
  BY <1>9, <1>10

-----------------------------------------------------------------------------
(* The trades each candle was made from                                    *)

\* runs[i] are the trades of T that candle i of cs was made from.
RunsOf(T, cs, runs) ==
  /\ runs \in [DOMAIN cs -> SUBSET T]
  /\ \A i \in DOMAIN cs : Describes(cs[i], runs[i]) /\ cs[i].interval \in {Short, Long}

\* t went into a candle of interval iv.
WentInto(cs, runs, iv, t) == \E i \in DOMAIN cs : cs[i].interval = iv /\ t \in runs[i]

\* G are the trades of the open candle.
OpenRun(c, G) == IF c.count > 0 THEN Describes(c, G) ELSE G = {}

\* Every trade seen has gone into a candle of the interval that is built, and
\* every trade into one of an interval that is done; those seen come first.
RunsInv ==
  /\ IsFiniteSet(trades)
  /\ interval # 0 => \A s \in trades \ rest, t \in rest : Precedes(s, t)
  /\ current.count > 0 => interval # 0 /\ current.interval = interval
  /\ \E runs \in [DOMAIN out -> SUBSET trades], G \in SUBSET (trades \ rest) :
       /\ RunsOf(trades, out, runs) /\ OpenRun(current, G)
       /\ interval # Short => \A t \in trades : WentInto(out, runs, Short, t)
       /\ interval = 0 => \A t \in trades : WentInto(out, runs, Long, t)
       /\ interval # 0 => \A t \in trades \ rest : t \in G \/ WentInto(out, runs, interval, t)

TableInv ==
  result = "ok" => interval = 0 /\ ~Conflict /\ table = {out[i] : i \in DOMAIN out}

\* The open candle, once closed, is one more candle of its interval.
LEMMA ClosedRuns ==
  ASSUME TypeOK, RunsInv,
         NEW runs \in [DOMAIN out -> SUBSET trades], NEW G \in SUBSET (trades \ rest),
         RunsOf(trades, out, runs), OpenRun(current, G)
  PROVE  \E more \in [DOMAIN Closed -> SUBSET trades] :
           /\ RunsOf(trades, Closed, more)
           /\ \A iv, t : WentInto(out, runs, iv, t) => WentInto(Closed, more, iv, t)
           /\ \A t \in G : WentInto(Closed, more, interval, t)
<1>1. CASE current.count > 0
  <2> DEFINE n == Len(out)
             more == [i \in 1 .. (n + 1) |-> IF i \in DOMAIN out THEN runs[i] ELSE G]
  <2>1. /\ Closed = Append(out, current) /\ Describes(current, G)
        /\ current.interval = interval /\ interval \in {Short, Long}
    BY <1>1 DEF Closed, OpenRun, RunsInv, TypeOK
  <2>2. /\ n \in Nat /\ DOMAIN out = 1 .. n /\ DOMAIN Closed = 1 .. (n + 1)
        /\ \A i \in 1 .. n : Closed[i] = out[i]
        /\ Closed[n + 1] = current
    <3>1. out \in Seq(Candle) /\ current \in Candle
      BY DEF TypeOK
    <3>. QED
      BY <2>1, <3>1
  <2>. HIDE DEF n
  <2>3. /\ more \in [DOMAIN Closed -> SUBSET trades]
        /\ \A i \in 1 .. n : more[i] = runs[i]
        /\ more[n + 1] = G /\ n + 1 \in DOMAIN Closed
    BY <2>2
  <2>. HIDE DEF more
  <2>4. \A i \in DOMAIN Closed :
          Describes(Closed[i], more[i]) /\ Closed[i].interval \in {Short, Long}
    <3>. TAKE i \in DOMAIN Closed
    <3>1. CASE i \in 1 .. n
      BY <2>2, <2>3, <3>1 DEF RunsOf
    <3>2. CASE i = n + 1
      BY <2>1, <2>2, <2>3, <3>2
    <3>. QED
      BY <2>2, <3>1, <3>2
  <2>5. \A iv, t : WentInto(out, runs, iv, t) => WentInto(Closed, more, iv, t)
    <3>. SUFFICES ASSUME NEW iv, NEW t, WentInto(out, runs, iv, t)
                  PROVE  WentInto(Closed, more, iv, t)
      OBVIOUS
    <3>1. PICK i \in DOMAIN out : out[i].interval = iv /\ t \in runs[i]
      BY DEF WentInto
    <3>2. i \in DOMAIN Closed /\ Closed[i] = out[i] /\ more[i] = runs[i]
      BY <2>2, <2>3
    <3>. QED
      BY <3>1, <3>2 DEF WentInto
  <2>6. \A t \in G : WentInto(Closed, more, interval, t)
    BY <2>1, <2>2, <2>3 DEF WentInto
  <2>. QED
    BY <2>3, <2>4, <2>5, <2>6 DEF RunsOf
<1>2. CASE ~(current.count > 0)
  <2>1. Closed = out /\ G = {}
    BY <1>2 DEF Closed, OpenRun
  <2>. QED
    BY <2>1
<1>. QED
  BY <1>1, <1>2

LEMMA RunsInit ==
  Init => RunsInv /\ TableInv
<1>. SUFFICES ASSUME Init
              PROVE  RunsInv /\ TableInv
  OBVIOUS
<1>1. /\ rest = trades /\ current = NoCandle /\ out = <<>> /\ interval = Short /\ result = "none"
  BY DEF Init
<1>2. IsFiniteSet(trades)
  <2>1. PICK S \in TradeSets : trades = {t \in S : t.time > 0}
    BY DEF Init
  <2>2. IsFiniteSet(S) /\ trades \subseteq S
    BY <2>1, TradeAssumption
  <2>. QED
    BY <2>2, FS_Subset
<1>3. ~(current.count > 0) /\ DOMAIN out = {}
  BY <1>1 DEF NoCandle
<1> DEFINE none == [i \in {} |-> {}]
<1>4. /\ none \in [DOMAIN out -> SUBSET trades] /\ {} \in SUBSET (trades \ rest)
      /\ RunsOf(trades, out, none) /\ OpenRun(current, {})
      /\ trades \ rest = {}
  BY <1>1, <1>3 DEF RunsOf, OpenRun
<1>5. \E runs \in [DOMAIN out -> SUBSET trades], G \in SUBSET (trades \ rest) :
        /\ RunsOf(trades, out, runs) /\ OpenRun(current, G)
        /\ \A t \in trades \ rest : t \in G \/ WentInto(out, runs, interval, t)
  BY <1>4
<1>. QED
  BY <1>1, <1>2, <1>3, <1>4, <1>5, IntervalsApart DEF RunsInv, TableInv

LEMMA TakeTradeKeepsRuns ==
  ASSUME TypeOK, RunsInv, TakeTrade
  PROVE  RunsInv'
<1>1. /\ interval # 0 /\ trades' = trades /\ interval' = interval
      /\ interval \in {Short, Long}
  BY DEF TakeTrade, TypeOK
<1>2. PICK t \in rest :
        /\ \A u \in rest \ {t} : Precedes(t, u)
        /\ rest' = rest \ {t}
        /\ \/ Fits(t) /\ current' = Added(current, t) /\ out' = out
           \/ ~Fits(t) /\ current' = Added(Fresh(t), t) /\ out' = Closed
  BY DEF TakeTrade
<1>3. /\ rest \subseteq trades /\ t \in trades
      /\ trades' \ rest' = (trades \ rest) \cup {t}
  BY <1>1, <1>2 DEF TypeOK
<1>4. \A s \in trades' \ rest', u \in rest' : Precedes(s, u)
  BY <1>1, <1>2, <1>3 DEF RunsInv
<1>5. PICK runs \in [DOMAIN out -> SUBSET trades], G \in SUBSET (trades \ rest) :
        /\ RunsOf(trades, out, runs) /\ OpenRun(current, G)
        /\ interval # Short => \A u \in trades : WentInto(out, runs, Short, u)
        /\ \A u \in trades \ rest : u \in G \/ WentInto(out, runs, interval, u)
  BY <1>1 DEF RunsInv
<1>6. ASSUME NEW cs, out' = cs, NEW more \in [DOMAIN cs -> SUBSET trades],
             RunsOf(trades, cs, more),
             \A iv, u : WentInto(out, runs, iv, u) => WentInto(cs, more, iv, u),
             NEW H \in SUBSET ((trades \ rest) \cup {t}),
             NEW c, current' = c, c.count > 0, c.interval = interval, Describes(c, H), t \in H,
             \A u \in G : u \in H \/ WentInto(cs, more, interval, u)
      PROVE  RunsInv'
  <2>1. /\ interval # Short => \A u \in trades : WentInto(cs, more, Short, u)
        /\ \A u \in (trades \ rest) \cup {t} : u \in H \/ WentInto(cs, more, interval, u)
    BY <1>5, <1>6
  <2>2. OpenRun(c, H)
    BY <1>6 DEF OpenRun
  <2>3. \E r \in [DOMAIN out' -> SUBSET trades'], K \in SUBSET (trades' \ rest') :
          /\ RunsOf(trades', out', r) /\ OpenRun(current', K)
          /\ interval' # Short => \A u \in trades' : WentInto(out', r, Short, u)
          /\ \A u \in trades' \ rest' : u \in K \/ WentInto(out', r, interval', u)
    BY <1>1, <1>3, <1>6, <2>1, <2>2
  <2>4. interval' # 0 /\ current'.interval = interval'
    BY <1>1, <1>6
  <2>5. IsFiniteSet(trades')
    BY <1>1 DEF RunsInv
  <2>. QED
    BY <1>4, <2>3, <2>4, <2>5 DEF RunsInv
<1>7. CASE Fits(t) /\ current' = Added(current, t) /\ out' = out
  <2> DEFINE c == Added(current, t)
             H == G \cup {t}
  <2>1. current.count > 0 /\ current.interval = interval /\ Describes(current, G)
    BY <1>5, <1>7 DEF Fits, RunsInv, OpenRun
  <2>2. \A s \in trades \ rest : Precedes(s, t)
    BY <1>1, <1>2 DEF RunsInv
  <2>3. Describes(c, H)
    BY <1>1, <1>7, <2>1, <2>2, AddedDescribes
  <2>4. c.count > 0 /\ c.interval = interval
    BY <1>1, <1>7, <2>1, TradeCandle
  <2>5. H \in SUBSET ((trades \ rest) \cup {t}) /\ t \in H /\ G \subseteq H
    OBVIOUS
  <2>. HIDE DEF c, H
  <2>6. current' = c /\ out' = out
    BY <1>7 DEF c
  <2>. QED
    BY <1>5, <1>6, <2>3, <2>4, <2>5, <2>6
<1>8. CASE ~Fits(t) /\ current' = Added(Fresh(t), t) /\ out' = Closed
  <2> DEFINE c == Added(Fresh(t), t)
             H == {t}
  <2>1. PICK more \in [DOMAIN Closed -> SUBSET trades] :
          /\ RunsOf(trades, Closed, more)
          /\ \A iv, u : WentInto(out, runs, iv, u) => WentInto(Closed, more, iv, u)
          /\ \A u \in G : WentInto(Closed, more, interval, u)
    BY <1>5, ClosedRuns
  <2>2. Describes(c, H)
    BY <1>1, OpenedDescribes
  <2>3. c.count > 0 /\ c.interval = Fresh(t).interval /\ Fresh(t).interval = interval
    BY <1>1, TradeCandle DEF Fresh
  <2>4. H \in SUBSET ((trades \ rest) \cup {t}) /\ t \in H
    OBVIOUS
  <2>. HIDE DEF c, H
  <2>5. current' = c /\ out' = Closed
    BY <1>8 DEF c
  <2>. QED
    BY <1>6, <2>1, <2>2, <2>3, <2>4, <2>5
<1>. QED
  BY <1>2, <1>7, <1>8

LEMMA NextIntervalKeepsRuns ==
  ASSUME TypeOK, RunsInv, NextInterval
  PROVE  RunsInv'
<1>1. /\ interval # 0 /\ rest = {} /\ out' = Closed /\ current' = NoCandle /\ trades' = trades
      /\ \/ interval = Short /\ interval' = Long /\ rest' = trades
         \/ interval = Long /\ interval' = 0 /\ rest' = {}
  BY DEF NextInterval
<1>2. PICK runs \in [DOMAIN out -> SUBSET trades], G \in SUBSET (trades \ rest) :
        /\ RunsOf(trades, out, runs) /\ OpenRun(current, G)
        /\ interval # Short => \A u \in trades : WentInto(out, runs, Short, u)
        /\ \A u \in trades \ rest : u \in G \/ WentInto(out, runs, interval, u)
  BY <1>1 DEF RunsInv
<1>3. PICK more \in [DOMAIN Closed -> SUBSET trades] :
        /\ RunsOf(trades, Closed, more)
        /\ \A iv, u : WentInto(out, runs, iv, u) => WentInto(Closed, more, iv, u)
        /\ \A u \in G : WentInto(Closed, more, interval, u)
  BY <1>2, ClosedRuns
<1>4. \A u \in trades : WentInto(Closed, more, interval, u)
  BY <1>1, <1>2, <1>3
<1>5. interval # Short => \A u \in trades : WentInto(Closed, more, Short, u)
  BY <1>2, <1>3
<1>6. OpenRun(NoCandle, {}) /\ ~(NoCandle.count > 0)
  BY DEF OpenRun, NoCandle
<1>7. /\ interval' # Short => \A u \in trades : WentInto(Closed, more, Short, u)
      /\ interval' = 0 => \A u \in trades : WentInto(Closed, more, Long, u)
      /\ interval' # 0 => trades \ rest' = {}
  BY <1>1, <1>4, <1>5, IntervalsApart
<1>8. \E r \in [DOMAIN out' -> SUBSET trades'], K \in SUBSET (trades' \ rest') :
        /\ RunsOf(trades', out', r) /\ OpenRun(current', K)
        /\ interval' # Short => \A u \in trades' : WentInto(out', r, Short, u)
        /\ interval' = 0 => \A u \in trades' : WentInto(out', r, Long, u)
        /\ interval' # 0 => \A u \in trades' \ rest' : u \in K \/ WentInto(out', r, interval', u)
  <2>1. {} \in SUBSET (trades' \ rest')
    OBVIOUS
  <2>. QED
    BY <1>1, <1>3, <1>6, <1>7, <2>1
<1>9. IsFiniteSet(trades')
  BY <1>1 DEF RunsInv
<1>10. interval' # 0 => \A s \in trades' \ rest', u \in rest' : Precedes(s, u)
  BY <1>1, <1>7
<1>11. ~(current'.count > 0)
  BY <1>1, <1>6
<1>. QED
  BY <1>8, <1>9, <1>10, <1>11 DEF RunsInv

LEMMA RunsStep ==
  TypeOK /\ RunsInv /\ TableInv /\ [Next]_vars => RunsInv' /\ TableInv'
<1>. SUFFICES ASSUME TypeOK, RunsInv, TableInv, [Next]_vars
              PROVE  RunsInv' /\ TableInv'
  OBVIOUS
<1>1. CASE TakeTrade
  <2>1. interval # 0 /\ result' = result
    BY <1>1 DEF TakeTrade
  <2>2. result' # "ok"
    BY <2>1 DEF TableInv
  <2>. QED
    BY <1>1, <2>2, TakeTradeKeepsRuns DEF TableInv
<1>2. CASE NextInterval
  <2>1. interval # 0 /\ result' = result
    BY <1>2 DEF NextInterval
  <2>2. result' # "ok"
    BY <2>1 DEF TableInv
  <2>. QED
    BY <1>2, <2>2, NextIntervalKeepsRuns DEF TableInv
<1>3. ASSUME UNCHANGED <<trades, interval, rest, current, out>>
      PROVE  RunsInv' /\ (Conflict' <=> Conflict)
  BY <1>3 DEF RunsInv, Conflict, Row
<1>4. CASE Insert
  <2>1. UNCHANGED <<trades, interval, rest, current, out>> /\ interval = 0
    BY <1>4 DEF Insert
  <2>2. TableInv'
    BY <1>3, <1>4, <2>1 DEF TableInv, Insert
  <2>. QED
    BY <1>3, <2>1, <2>2
<1>5. CASE Finished \/ UNCHANGED vars
  <2>1. UNCHANGED vars
    BY <1>5 DEF Finished
  <2>2. UNCHANGED <<trades, interval, rest, current, out>> /\ result' = result /\ table' = table
    BY <2>1 DEF vars
  <2>. QED
    BY <1>3, <2>2 DEF TableInv
<1>. QED
  BY <1>1, <1>2, <1>4, <1>5 DEF Next

\* Where no two candles share a primary key, the trades a candle was made from
\* are all of its bucket, and every trade is in a candle of each interval.
LEMMA TableDescribed ==
  ASSUME TypeOK, RunsInv, TableInv, result = "ok"
  PROVE  /\ \A c \in table : /\ c \in Candle /\ c.interval \in {Short, Long}
                             /\ Describes(c, Group(c.mint, c.interval, c.bucket))
         /\ \A c, d \in table : Row(c) = Row(d) => c = d
         /\ \A t \in trades, iv \in {Short, Long} :
              \E c \in table : /\ c.mint = t.mint /\ c.interval = iv
                               /\ c.bucket = BucketStart(t.time, iv)
<1>1. interval = 0 /\ ~Conflict /\ table = {out[i] : i \in DOMAIN out}
  BY DEF TableInv
<1>2. PICK runs \in [DOMAIN out -> SUBSET trades], G \in SUBSET (trades \ rest) :
        /\ RunsOf(trades, out, runs)
        /\ \A t \in trades : WentInto(out, runs, Short, t)
        /\ \A t \in trades : WentInto(out, runs, Long, t)
  BY <1>1, IntervalsApart DEF RunsInv
<1>3. \A i \in DOMAIN out : Describes(out[i], runs[i]) /\ out[i].interval \in {Short, Long}
  BY <1>2 DEF RunsOf
<1>4. \A i \in DOMAIN out : out[i] \in Candle
  BY DEF TypeOK
<1>5. \A i, j \in DOMAIN out : Row(out[i]) = Row(out[j]) => i = j
  BY <1>1 DEF Conflict
<1>6. \A iv \in {Short, Long}, t \in trades :
        \E i \in DOMAIN out : out[i].interval = iv /\ t \in runs[i]
  BY <1>2 DEF WentInto
<1>7. ASSUME NEW i \in DOMAIN out
      PROVE  runs[i] = Group(out[i].mint, out[i].interval, out[i].bucket)
  <2>1. \A t \in runs[i] : /\ t \in trades /\ t.mint = out[i].mint
                           /\ BucketStart(t.time, out[i].interval) = out[i].bucket
    BY <1>2, <1>3 DEF Describes
  <2>2. ASSUME NEW t \in trades, t.mint = out[i].mint,
               BucketStart(t.time, out[i].interval) = out[i].bucket
        PROVE  t \in runs[i]
    <3>1. PICK j \in DOMAIN out : out[j].interval = out[i].interval /\ t \in runs[j]
      BY <1>3, <1>6
    <3>2. out[j].mint = t.mint /\ out[j].bucket = BucketStart(t.time, out[j].interval)
      BY <1>3, <3>1 DEF Describes
    <3>3. i = j
      BY <1>5, <2>2, <3>1, <3>2 DEF Row
    <3>. QED
      BY <3>1, <3>3
  <2>. QED
    BY <2>1, <2>2 DEF Group
<1>8. \A i \in DOMAIN out : Describes(out[i], Group(out[i].mint, out[i].interval, out[i].bucket))
  BY <1>3, <1>7
<1>9. ASSUME NEW t \in trades, NEW iv \in {Short, Long}
      PROVE  \E c \in table : /\ c.mint = t.mint /\ c.interval = iv
                              /\ c.bucket = BucketStart(t.time, iv)
  <2>1. PICK i \in DOMAIN out : out[i].interval = iv /\ t \in runs[i]
    BY <1>6
  <2>2. t.mint = out[i].mint /\ BucketStart(t.time, iv) = out[i].bucket
    BY <1>3, <2>1 DEF Describes
  <2>. QED
    BY <1>1, <2>1, <2>2
<1>. QED
  BY <1>1, <1>3, <1>4, <1>5, <1>8, <1>9

LEMMA TableIsByDefinition ==
  TypeOK /\ RunsInv /\ TableInv => CandlesAreTheTrades
<1> DEFINE ByDefinition == {CandleOf(t.mint, iv, BucketStart(t.time, iv)) :
                              t \in trades, iv \in {Short, Long}}
<1>. SUFFICES ASSUME TypeOK, RunsInv, TableInv, result = "ok"
              PROVE  table = ByDefinition
  BY DEF CandlesAreTheTrades
<1>1. trades \subseteq Trade
  BY DEF TypeOK
<1>2. \A c \in table : c = CandleOf(c.mint, c.interval, c.bucket)
  BY <1>1, TableDescribed, DescribedIsCandleOf
<1>3. ASSUME NEW c \in table
      PROVE  c \in ByDefinition
  <2>1. c.interval \in {Short, Long} /\ Describes(c, Group(c.mint, c.interval, c.bucket))
    BY TableDescribed
  <2>2. PICK t \in Group(c.mint, c.interval, c.bucket) : TRUE
    BY <2>1 DEF Describes
  <2>3. t \in trades /\ t.mint = c.mint /\ BucketStart(t.time, c.interval) = c.bucket
    BY <2>2 DEF Group
  <2>. QED
    BY <1>2, <2>1, <2>3
<1>4. ASSUME NEW t \in trades, NEW iv \in {Short, Long}
      PROVE  CandleOf(t.mint, iv, BucketStart(t.time, iv)) \in table
  <2>1. PICK c \in table : /\ c.mint = t.mint /\ c.interval = iv
                           /\ c.bucket = BucketStart(t.time, iv)
    BY TableDescribed
  <2>2. c = CandleOf(t.mint, iv, BucketStart(t.time, iv))
    BY <1>2, <2>1
  <2>. QED
    BY <2>2
<1>. QED
  BY <1>3, <1>4

LEMMA CandleInvariant ==
  Spec => [](TypeOK /\ RunsInv /\ TableInv)
<1>1. TypeOK /\ RunsInv /\ TableInv /\ [Next]_vars => (TypeOK /\ RunsInv /\ TableInv)'
  BY CandleTypeStep, RunsStep
<1>. QED
  BY <1>1, CandleTypeInit, RunsInit, PTL DEF Spec

\* Streaming the trades once per interval gives what the definition of a candle
\* says, for any trades; or two candles share a key and the rebuild fails.
THEOREM StreamingIsByDefinition ==
  Spec => []CandlesAreTheTrades
BY CandleInvariant, TableIsByDefinition, PTL
-----------------------------------------------------------------------------
(* The buckets of the two intervals                                        *)

LEMMA BucketIs ==
  ASSUME NEW time \in Nat, NEW iv \in Nat \ {0}
  PROVE  \E q \in Nat : /\ BucketStart(time, iv) = iv * q
                        /\ iv * q \in Nat /\ iv * q <= time /\ time < iv * q + iv
<1> DEFINE q == time \div iv
<1>1. q \in Nat /\ time = iv * q + (time % iv) /\ time % iv \in 0 .. (iv - 1)
  OBVIOUS
<1>. HIDE DEF q
<1>2. iv * q \in Nat
  BY <1>1
<1>3. BucketStart(time, iv) = iv * q /\ iv * q <= time /\ time < iv * q + iv
  BY <1>1, <1>2 DEF BucketStart
<1>. QED
  BY <1>1, <1>2, <1>3

\* Between two multiples of n there are at least n.
LEMMA MultiplesApart ==
  ASSUME NEW n \in Nat \ {0}, NEW a \in Nat, NEW b \in Nat, n * a < n * b
  PROVE  n * a + n <= n * b
<1>1. a < b
  <2> SUFFICES ASSUME b <= a PROVE FALSE
    OBVIOUS
  <2>1. n * b <= n * a
    OBVIOUS
  <2>2. n * a \in Nat /\ n * b \in Nat
    OBVIOUS
  <2>. QED
    BY <2>1, <2>2
<1>2. n * (a + 1) <= n * b
  BY <1>1
<1>3. n * (a + 1) = n * a + n
  OBVIOUS
<1>. QED
  BY <1>2, <1>3

\* The bucket of a time is the only multiple of the interval that near below it.
LEMMA BucketIsThat ==
  ASSUME NEW time \in Nat, NEW iv \in Nat \ {0}, NEW p \in Nat,
         iv * p <= time, time < iv * p + iv
  PROVE  BucketStart(time, iv) = iv * p
<1>1. PICK q \in Nat : /\ BucketStart(time, iv) = iv * q
                       /\ iv * q \in Nat /\ iv * q <= time /\ time < iv * q + iv
  BY BucketIs
<1>2. iv * p \in Nat
  OBVIOUS
<1>3. ~(iv * p < iv * q) /\ ~(iv * q < iv * p)
  BY <1>1, <1>2, MultiplesApart
<1>. QED
  BY <1>1, <1>2, <1>3

\* A long bucket is made of the short ones that start in it.
LEMMA NestedBuckets ==
  ASSUME NEW x \in Nat, NEW q \in Nat
  PROVE  /\ Long * q \in Nat
         /\ BucketStart(x, Long) = Long * q
              <=> BucketStart(x, Short) \in (Long * q) .. (Long * q + Long - 1)
<1> DEFINE k == Long \div Short
           m == k * q
           B == Long * q
           s == BucketStart(x, Short)
<1>1. Short \in Nat \ {0} /\ Long \in Nat \ {0} /\ k \in Nat /\ Long = Short * k
  BY IntervalsAssumption, WholeIntervals
<1>. HIDE DEF k
<1>2. m \in Nat /\ B = Short * m /\ B \in Nat
  <2>1. (Short * k) * q = Short * (k * q)
    BY <1>1
  <2>. QED
    BY <1>1, <2>1
<1>3. B + Long = Short * (m + k)
  <2>1. Short * (m + k) = Short * m + Short * k
    BY <1>1, <1>2
  <2>. QED
    BY <1>1, <1>2, <2>1
<1>. HIDE DEF m
<1>4. PICK p \in Nat : /\ s = Short * p
                       /\ Short * p \in Nat /\ Short * p <= x /\ x < Short * p + Short
  BY <1>1, BucketIs
<1>5. ASSUME BucketStart(x, Long) = B
      PROVE  s \in B .. (B + Long - 1)
  <2>1. PICK r \in Nat : /\ BucketStart(x, Long) = Long * r
                         /\ Long * r \in Nat /\ Long * r <= x /\ x < Long * r + Long
    BY <1>1, BucketIs
  <2>2. B <= x /\ x < B + Long
    BY <1>5, <2>1
  <2>. HIDE DEF B, s
  <2>3. ~(Short * p < Short * m)
    BY <1>1, <1>2, <1>4, <2>2, MultiplesApart
  <2>. QED
    BY <1>1, <1>2, <1>4, <2>2, <2>3
<1>6. ASSUME s \in B .. (B + Long - 1)
      PROVE  BucketStart(x, Long) = B
  <2>. HIDE DEF s
  <2>1. Short * p < Short * (m + k) /\ m + k \in Nat
    BY <1>1, <1>2, <1>3, <1>4, <1>6
  <2>2. Short * p + Short <= Short * (m + k)
    BY <1>1, <2>1, MultiplesApart
  <2>3. B <= x /\ x < B + Long
    BY <1>1, <1>2, <1>3, <1>4, <1>6, <2>2
  <2>. QED
    BY <1>1, <2>3, BucketIsThat
<1>. QED
  BY <1>2, <1>5, <1>6
-----------------------------------------------------------------------------
(* A long candle and the short ones it covers                              *)

Parts(l) == {s \in table : /\ s.interval = Short /\ s.mint = l.mint
                           /\ s.bucket \in l.bucket .. (l.bucket + Long - 1)}

\* The trades of G that a short candle was made from.
Within(G, s) == {t \in G : BucketStart(t.time, Short) = s.bucket}

LEMMA PartsDescribed ==
  ASSUME TypeOK, RunsInv, TableInv, result = "ok", NEW l \in table, l.interval = Long,
         NEW G, G = Group(l.mint, Long, l.bucket)
  PROVE  /\ l \in Candle /\ Describes(l, G)
         /\ G \subseteq trades /\ G \subseteq Trade
         /\ \A s \in Parts(l) : s \in Candle /\ Describes(s, Within(G, s))
         /\ \A t \in G : \E s \in Parts(l) : s.bucket = BucketStart(t.time, Short)
         /\ \A s, o \in Parts(l) : s.bucket = o.bucket => s = o
<1>1. l \in Candle /\ Describes(l, G)
  BY TableDescribed
<1>2. G \subseteq trades /\ trades \subseteq Trade /\ \A t \in trades : t.time \in Nat
  BY TradeAssumption DEF Group, TypeOK
<1>3. PICK q \in Nat : l.bucket = Long * q
  <2>1. PICK t \in G : TRUE
    BY <1>1 DEF Describes
  <2>2. l.bucket = BucketStart(t.time, Long) /\ t.time \in Nat
    BY <1>2, <2>1 DEF Group
  <2>3. \A x \in Nat : \E q \in Nat : BucketStart(x, Long) = Long * q
    BY BucketIs, IntervalsAssumption
  <2>4. PICK q \in Nat : BucketStart(t.time, Long) = Long * q
    BY <2>2, <2>3
  <2>. QED
    BY <2>2, <2>4
<1>4. \A t \in trades : BucketStart(t.time, Long) = l.bucket
                          <=> BucketStart(t.time, Short) \in l.bucket .. (l.bucket + Long - 1)
  BY <1>2, <1>3, NestedBuckets
<1>5. ASSUME NEW s \in Parts(l)
      PROVE  s \in Candle /\ Describes(s, Within(G, s))
  <2>1. /\ s \in table /\ s.interval = Short /\ s.mint = l.mint
        /\ s.bucket \in l.bucket .. (l.bucket + Long - 1)
    BY DEF Parts
  <2>2. s \in Candle /\ Describes(s, Group(s.mint, Short, s.bucket))
    BY <2>1, TableDescribed
  <2>3. Group(s.mint, Short, s.bucket) = Within(G, s)
    BY <1>2, <1>4, <2>1 DEF Group, Within
  <2>. QED
    BY <2>2, <2>3
<1>6. ASSUME NEW t \in G
      PROVE  \E s \in Parts(l) : s.bucket = BucketStart(t.time, Short)
  <2>1. t \in trades /\ t.mint = l.mint /\ BucketStart(t.time, Long) = l.bucket
    BY DEF Group
  <2>2. PICK s \in table : /\ s.mint = t.mint /\ s.interval = Short
                           /\ s.bucket = BucketStart(t.time, Short)
    BY <2>1, TableDescribed
  <2>3. s.bucket \in l.bucket .. (l.bucket + Long - 1)
    BY <1>4, <2>1, <2>2
  <2>. QED
    BY <2>1, <2>2, <2>3 DEF Parts
<1>7. \A s, o \in Parts(l) : s.bucket = o.bucket => s = o
  BY TableDescribed DEF Parts, Row
<1>. QED
  BY <1>1, <1>2, <1>5, <1>6, <1>7

\* It opens with the first of them and closes with the last.
LEMMA LongOpensAndCloses ==
  ASSUME TypeOK, RunsInv, TableInv, result = "ok", MonotoneTimes(trades),
         NEW l \in table, l.interval = Long
  PROVE  /\ \E s \in Parts(l) : s.open = l.open /\ \A o \in Parts(l) : s.bucket <= o.bucket
         /\ \E s \in Parts(l) : s.close = l.close /\ \A o \in Parts(l) : s.bucket >= o.bucket
<1> DEFINE G == Group(l.mint, Long, l.bucket)
<1>. HIDE DEF G
<1>1. /\ Describes(l, G) /\ G \subseteq trades /\ G \subseteq Trade
      /\ \A s \in Parts(l) : s \in Candle /\ Describes(s, Within(G, s))
      /\ \A t \in G : \E s \in Parts(l) : s.bucket = BucketStart(t.time, Short)
  BY PartsDescribed DEF G
<1>2. /\ \A t \in G : t.slot \in Nat /\ t.time \in Nat
      /\ \A t, u \in G : Earlier(t, u) => ~Earlier(u, t)
  BY <1>1, TradeAssumption, EarlierIsAnOrder
<1>3. \A t, u \in G : Earlier(t, u) => BucketStart(t.time, Short) <= BucketStart(u.time, Short)
  <2>. SUFFICES ASSUME NEW t \in G, NEW u \in G, Earlier(t, u)
                PROVE  BucketStart(t.time, Short) <= BucketStart(u.time, Short)
    OBVIOUS
  <2>1. t.slot <= u.slot
    BY <1>2 DEF Earlier
  <2>2. t.time <= u.time
    BY <1>1, <2>1 DEF MonotoneTimes
  <2>. QED
    BY <1>2, <2>2, BucketMonotone, IntervalsAssumption
<1>4. \A t \in G : BucketStart(t.time, Short) \in Nat
  BY <1>2, BucketInNat, IntervalsAssumption
<1>5. \A s \in Parts(l) : \E t \in G : BucketStart(t.time, Short) = s.bucket
  BY <1>1 DEF Describes, Within
<1>6. PICK f \in G : l.open = f.price /\ \A u \in G \ {f} : Earlier(f, u)
  BY <1>1 DEF Describes
<1>7. PICK s \in Parts(l) : s.bucket = BucketStart(f.time, Short)
  BY <1>1, <1>6
<1>8. s.open = f.price
  <2>1. PICK g \in Within(G, s) : s.open = g.price /\ \A u \in Within(G, s) \ {g} : Earlier(g, u)
    BY <1>1, <1>7 DEF Describes
  <2>2. f \in Within(G, s) /\ g \in G
    BY <1>6, <1>7, <2>1 DEF Within
  <2>3. g = f
    BY <1>2, <1>6, <2>1, <2>2
  <2>. QED
    BY <2>1, <2>3
<1>9. ASSUME NEW o \in Parts(l)
      PROVE  s.bucket <= o.bucket
  <2>1. PICK t \in G : BucketStart(t.time, Short) = o.bucket
    BY <1>5
  <2>. QED
    BY <1>3, <1>4, <1>6, <1>7, <2>1
<1>10. PICK e \in G : l.close = e.price /\ \A u \in G \ {e} : Earlier(u, e)
  BY <1>1 DEF Describes
<1>11. PICK z \in Parts(l) : z.bucket = BucketStart(e.time, Short)
  BY <1>1, <1>10
<1>12. z.close = e.price
  <2>1. PICK g \in Within(G, z) : z.close = g.price /\ \A u \in Within(G, z) \ {g} : Earlier(u, g)
    BY <1>1, <1>11 DEF Describes
  <2>2. e \in Within(G, z) /\ g \in G
    BY <1>10, <1>11, <2>1 DEF Within
  <2>3. g = e
    BY <1>2, <1>10, <2>1, <2>2
  <2>. QED
    BY <2>1, <2>3
<1>13. ASSUME NEW o \in Parts(l)
       PROVE  z.bucket >= o.bucket
  <2>1. PICK t \in G : BucketStart(t.time, Short) = o.bucket
    BY <1>5
  <2>. QED
    BY <1>3, <1>4, <1>10, <1>11, <2>1
<1>. QED
  BY <1>6, <1>7, <1>8, <1>9, <1>10, <1>11, <1>12, <1>13

\* Its extremes are theirs.
LEMMA LongExtremes ==
  ASSUME TypeOK, RunsInv, TableInv, result = "ok", NEW l \in table, l.interval = Long
  PROVE  l.high = Max({s.high : s \in Parts(l)}) /\ l.low = Min({s.low : s \in Parts(l)})
<1> DEFINE G == Group(l.mint, Long, l.bucket)
<1>. HIDE DEF G
<1>1. /\ Describes(l, G) /\ G \subseteq Trade
      /\ \A s \in Parts(l) : s \in Candle /\ Describes(s, Within(G, s))
      /\ \A t \in G : \E s \in Parts(l) : s.bucket = BucketStart(t.time, Short)
  BY PartsDescribed DEF G
<1>2. /\ \A t \in G : t.price \in Nat
      /\ \A s \in Parts(l) : s.high \in Nat /\ s.low \in Nat
  BY <1>1, TradeAssumption DEF Candle
<1>3. /\ \A s \in Parts(l) : (\E t \in G : s.high = t.price) /\ (\E t \in G : s.low = t.price)
      /\ \A t \in G : \E s \in Parts(l) : t.price <= s.high /\ s.low <= t.price
  <2>1. \A s \in Parts(l) : /\ \E t \in Within(G, s) : s.high = t.price
                            /\ \E t \in Within(G, s) : s.low = t.price
                            /\ \A t \in Within(G, s) : t.price <= s.high /\ s.low <= t.price
    BY <1>1 DEF Describes
  <2>2. \A s \in Parts(l) : Within(G, s) \subseteq G
    BY DEF Within
  <2>3. \A t \in G : \E s \in Parts(l) : t \in Within(G, s)
    BY <1>1 DEF Within
  <2>. QED
    BY <2>1, <2>2, <2>3
<1>4. l.high = Max({s.high : s \in Parts(l)})
  <2> DEFINE H == {s.high : s \in Parts(l)}
  <2>1. PICK t \in G : l.high = t.price /\ \A u \in G : u.price <= t.price
    BY <1>1 DEF Describes
  <2>2. PICK s \in Parts(l) : t.price <= s.high
    BY <1>3, <2>1
  <2>3. s.high = t.price
    <3>1. PICK u \in G : s.high = u.price
      BY <1>3, <2>2
    <3>2. \A x, y \in Nat : x <= y /\ y <= x => x = y
      OBVIOUS
    <3>3. t.price \in Nat /\ u.price \in Nat /\ u.price <= t.price /\ t.price <= s.high
      BY <1>2, <2>1, <2>2
    <3>. QED
      BY <3>1, <3>2, <3>3
  <2>4. H \subseteq Nat /\ t.price \in H /\ \A x \in H : x <= t.price
    <3>1. \A o \in Parts(l) : \E u \in G : o.high = u.price
      BY <1>3
    <3>. QED
      BY <1>2, <2>1, <2>3, <3>1
  <2>. HIDE DEF H
  <2>5. t.price = Max(H)
    BY <2>4, MaxIs
  <2>. QED
    BY <2>1, <2>5 DEF H
<1>5. l.low = Min({s.low : s \in Parts(l)})
  <2> DEFINE H == {s.low : s \in Parts(l)}
  <2>1. PICK t \in G : l.low = t.price /\ \A u \in G : t.price <= u.price
    BY <1>1 DEF Describes
  <2>2. PICK s \in Parts(l) : s.low <= t.price
    BY <1>3, <2>1
  <2>3. s.low = t.price
    <3>1. PICK u \in G : s.low = u.price
      BY <1>3, <2>2
    <3>2. \A x, y \in Nat : x <= y /\ y <= x => x = y
      OBVIOUS
    <3>3. t.price \in Nat /\ u.price \in Nat /\ t.price <= u.price /\ s.low <= t.price
      BY <1>2, <2>1, <2>2
    <3>. QED
      BY <3>1, <3>2, <3>3
  <2>4. H \subseteq Nat /\ t.price \in H /\ \A x \in H : t.price <= x
    <3>1. \A o \in Parts(l) : \E u \in G : o.low = u.price
      BY <1>3
    <3>. QED
      BY <1>2, <2>1, <2>3, <3>1
  <2>. HIDE DEF H
  <2>5. t.price = Min(H)
    BY <2>4, MinIs
  <2>. QED
    BY <2>1, <2>5 DEF H
<1>. QED
  BY <1>4, <1>5

\* Its volume and its count are what theirs add up to.
LEMMA LongVolume ==
  ASSUME TypeOK, RunsInv, TableInv, result = "ok", NEW l \in table, l.interval = Long
  PROVE  /\ l.sol = SumFunctionOnSet([s \in Parts(l) |-> s.sol], Parts(l))
         /\ l.count = SumFunctionOnSet([s \in Parts(l) |-> s.count], Parts(l))
<1> DEFINE G == Group(l.mint, Long, l.bucket)
           P == Parts(l)
           key == [t \in G |-> CHOOSE s \in P : s.bucket = BucketStart(t.time, Short)]
           price == [t \in G |-> t.price]
           one == [t \in G |-> 1]
<1>. HIDE DEF G, P
<1>1. /\ Describes(l, G) /\ G \subseteq Trade
      /\ \A s \in P : s \in Candle /\ Describes(s, Within(G, s))
      /\ \A t \in G : \E s \in P : s.bucket = BucketStart(t.time, Short)
      /\ \A s, o \in P : s.bucket = o.bucket => s = o
  BY PartsDescribed DEF G, P
<1>2. IsFiniteSet(G) /\ \A t \in G : t.price \in Int
  BY <1>1, TradeAssumption DEF Describes
<1>3. \A t \in G : key[t] \in P /\ key[t].bucket = BucketStart(t.time, Short)
  BY <1>1
<1>4. key \in [G -> P]
  BY <1>3
<1>. HIDE DEF key
<1>5. \A s \in P : Within(G, s) = {t \in G : key[t] = s}
  BY <1>1, <1>3 DEF Within
<1>6. IsFiniteSet(P)
  <2>1. \A s \in P : \E t \in G : key[t] = s
    <3>. TAKE s \in P
    <3>1. PICK t \in Within(G, s) : TRUE
      BY <1>1 DEF Describes
    <3>. QED
      BY <1>5, <3>1
  <2>2. key \in Surjection(G, P)
    BY <1>4, <2>1 DEF Surjection
  <2>. QED
    BY <1>2, <2>2, FS_Surjection
<1>7. Integral(price, G) /\ Integral(one, G)
  BY <1>2 DEF Integral
<1>8. ASSUME NEW s \in P
      PROVE  /\ s.sol = SumFunctionOnSet(price, {t \in G : key[t] = s})
             /\ s.count = SumFunctionOnSet(one, {t \in G : key[t] = s})
  <2> DEFINE W == Within(G, s)
  <2>1. /\ W \subseteq G /\ IsFiniteSet(W) /\ W = {t \in G : key[t] = s}
        /\ s.sol = SumFunctionOnSet([t \in W |-> t.price], W) /\ s.count = Cardinality(W)
    BY <1>1, <1>5 DEF Describes, Within
  <2>. HIDE DEF W
  <2>2. SumFunctionOnSet([t \in W |-> t.price], W) = SumFunctionOnSet(price, W)
    <3> DEFINE f == [t \in W |-> t.price]
    <3>1. Integral(f, W) /\ \A t \in W : f[t] = price[t]
      BY <1>2, <2>1 DEF Integral
    <3>. HIDE DEF f, price
    <3>2. SumFunctionOnSet(f, W) = SumFunctionOnSet(price, W)
      BY <2>1, <3>1, SumOfSame
    <3>. QED
      BY <3>2 DEF f
  <2>3. SumFunctionOnSet(one, W) = Cardinality(W)
    <3>1. \A t \in W : one[t] = 1
      BY <2>1
    <3>. HIDE DEF one
    <3>. QED
      BY <2>1, <3>1, SumOfOnes
  <2>. QED
    BY <2>1, <2>2, <2>3
<1> DEFINE sol == [s \in P |-> s.sol]
           count == [s \in P |-> s.count]
<1>9. \A s \in P : /\ sol[s] = SumFunctionOnSet(price, {t \in G : key[t] = s})
                   /\ count[s] = SumFunctionOnSet(one, {t \in G : key[t] = s})
  BY <1>8
<1>10. l.sol = SumFunctionOnSet(price, G) /\ l.count = Cardinality(G)
  BY <1>1 DEF Describes
<1>11. \A t \in G : one[t] = 1
  OBVIOUS
<1>. HIDE DEF sol, count, price, one
<1>12. SumFunctionOnSet(sol, P) = SumFunctionOnSet(price, G)
  BY <1>2, <1>4, <1>6, <1>7, <1>9, SumOfParts
<1>13. SumFunctionOnSet(count, P) = SumFunctionOnSet(one, G)
  <2>1. /\ IsFiniteSet(G) /\ IsFiniteSet(P) /\ Integral(one, G) /\ key \in [G -> P]
        /\ \A s \in P : count[s] = SumFunctionOnSet(one, {t \in G : key[t] = s})
    BY <1>2, <1>4, <1>6, <1>7, <1>9
  <2>. QED
    BY <2>1, SumOfParts
<1>14. SumFunctionOnSet(one, G) = Cardinality(G)
  BY <1>2, <1>11, SumOfOnes
<1>. QED
  BY <1>10, <1>12, <1>13, <1>14 DEF sol, count, P

\* For any trades and any two intervals of which one is a multiple of the other:
\* while block times follow slots, the long candles of a rebuild are what the
\* short ones it made of the same trades add up to.
THEOREM LongCandlesCoverShortOnes ==
  Spec => []LongFromShort
<1>1. TypeOK /\ RunsInv /\ TableInv => LongFromShort
  <2>. SUFFICES ASSUME TypeOK, RunsInv, TableInv, result = "ok", MonotoneTimes(trades),
                       NEW l \in table, l.interval = Long
                PROVE  /\ \E s \in Parts(l) : s.open = l.open /\ \A o \in Parts(l) : s.bucket <= o.bucket
                       /\ \E s \in Parts(l) : s.close = l.close /\ \A o \in Parts(l) : s.bucket >= o.bucket
                       /\ l.high = Max({s.high : s \in Parts(l)})
                       /\ l.low = Min({s.low : s \in Parts(l)})
                       /\ l.sol = SumFunctionOnSet([s \in Parts(l) |-> s.sol], Parts(l))
                       /\ l.count = SumFunctionOnSet([s \in Parts(l) |-> s.count], Parts(l))
    BY DEF LongFromShort, Parts
  <2>. QED
    BY LongOpensAndCloses, LongExtremes, LongVolume
<1>. QED
  BY CandleInvariant, <1>1, PTL
=============================================================================
