---------------------------- MODULE BacktestProofs ----------------------------
(***************************************************************************)
(* What a research run guarantees for every policy, every cost, every      *)
(* candle and every observation: its trades are filled pessimistically,    *)
(* lose no more than estimated except through a gap, and are entered       *)
(* within the caps; its two samples are consecutive and its drawdown is    *)
(* the largest.                                                            *)
(*                                                                         *)
(* All that is said of the trades follows from one invariant, that the     *)
(* book is in order.  It speaks of the open position too: the candles      *)
(* since its entry touched neither of its levels, these levels are as far  *)
(* from its entry as its risk says, and that risk fits the caps besides    *)
(* the losses of the trades closed before it.                              *)
(***************************************************************************)
EXTENDS CandleBacktest, RiskEngineProofs, SequenceTheorems

Trade == [position : Position, exit : Nat, net : Int, why : Whys, exited : 1 .. Len(Days)]

\* Stop and target are one and two distances away, and the risk is that of the stop.
Priced(p) ==
    LET distance == IF Buys(p) THEN p.entry - p.stop ELSE p.stop - p.entry
    IN  /\ distance > 0
        /\ p.target = IF Buys(p) THEN p.entry + 2 * distance ELSE p.entry - 2 * distance
        /\ p.risk = p.lots * (distance + Cost)

Untouched(p, s, last) ==
    \A i \in p.entered .. last : ~StopTouched(p, s[i]) /\ ~TargetTouched(p, s[i])

\* The first n trades and the risk of p fit the caps of the day p is entered on.
FitsCaps(ts, n, p) ==
    LET today == Days[p.entered]
        daily == LossOf(ts, {j \in 1 .. n : Days[ts[j].exited] = today})
        weekly == LossOf(ts, {j \in 1 .. n : Days[ts[j].exited] >= Monday(today)})
    IN  /\ Scale * (daily + p.risk) <= Profile * Policy.provider_daily_fraction
        /\ Scale * (weekly + p.risk) <= Profile * Policy.provider_weekly_fraction

\* How a trade may end at candle i of s.
Pessimistic(p, s, i, price) ==
    StopTouched(p, s[i]) => price = IF i = p.entered THEN p.stop ELSE Worse(p, p.stop, s[i].open)

Estimated(p, net, why) == -net > p.risk => why = "GAP_STOP"

TradeInOrder(ts, k, s) ==
    LET t == ts[k]
        p == t.position
    IN  /\ t.exited \in p.entered .. Len(s)
        /\ Untouched(p, s, t.exited - 1)
        /\ Pessimistic(p, s, t.exited, t.exit)
        /\ Estimated(p, t.net, t.why)
        /\ FitsCaps(ts, k - 1, p)

TradesInOrder(ts, s) ==
    /\ ts \in Seq(Trade)
    /\ \A k \in 1 .. Len(ts) : TradeInOrder(ts, k, s)
    /\ \A j, k \in 1 .. Len(ts) : j <= k => ts[j].exited <= ts[k].exited

PositionInOrder(p, ts, s) ==
    /\ p \in Position
    /\ Priced(p)
    /\ p.entered <= Len(s)
    /\ Untouched(p, s, Len(s))
    /\ FitsCaps(ts, Len(ts), p)

InOrder(book, s) ==
    /\ book.equity \in Int
    /\ TradesInOrder(book.trades, s)
    /\ book.position = Flat \/ PositionInOrder(book.position, book.trades, s)

Book == [position |-> position, equity |-> equity, trades |-> trades]

CandlesOK ==
    /\ bars \in Seq(Candles) /\ Len(bars) <= Len(Days)
    /\ bars = <<>> \/ Len(bars) > Slow

BookInv == CandlesOK /\ InOrder(Book, bars)

\* The observations read so far end where the results out of sample do.
SamplesInv ==
    /\ AnalyticsTypeOK
    /\ curve = in_sample \o out_of_sample
    /\ out_of_sample # <<>> /\ answer = "NONE" =>
          observations # <<>> /\ Last(observations).timestamp >= Split

-----------------------------------------------------------------------------
\* Types of the parts.

LEMMA Parameters ==
    /\ Fast \in Nat /\ Slow \in Nat /\ 2 <= Fast /\ Fast < Slow
    /\ Cost \in Nat /\ MinDistance \in Nat \ {0}
    /\ Days \in Seq(Nat) /\ Len(Days) \in Nat
    /\ Profile \in Nat \ {0}
  BY BacktestAssumption, AnalyticsAssumption

LEMMA CandleFacts ==
    ASSUME NEW b \in Candles
    PROVE  /\ b.open \in Nat \ {0} /\ b.high \in Nat \ {0}
           /\ b.low \in Nat \ {0} /\ b.close \in Nat \ {0}
           /\ b.low <= b.open /\ b.low <= b.close
           /\ b.high >= b.open /\ b.high >= b.close
  <1>1. IsCandle(b)
    BY BacktestAssumption
  <1>2. /\ b.open \in Nat \ {0} /\ b.high \in Nat \ {0}
        /\ b.low \in Nat \ {0} /\ b.close \in Nat \ {0}
    BY <1>1 DEF IsCandle
  <1> QED
    BY <1>1, <1>2 DEF IsCandle, Lesser

LEMMA PositionFacts ==
    ASSUME NEW p \in Position
    PROVE  /\ p.direction \in Directions /\ p # Flat
           /\ p.entry \in Nat /\ p.stop \in Nat /\ p.target \in Nat
           /\ p.lots \in Nat \ {0} /\ p.risk \in Nat \ {0}
           /\ p.entered \in 1 .. Len(Days) /\ Days[p.entered] \in Nat
  <1>1. /\ p.direction \in Directions
        /\ p.entry \in Nat /\ p.stop \in Nat /\ p.target \in Nat
        /\ p.lots \in Nat \ {0} /\ p.risk \in Nat \ {0}
        /\ p.entered \in 1 .. Len(Days)
    BY DEF Position
  <1>2. p # Flat
    BY <1>1 DEF Flat, Directions
  <1> QED
    BY <1>1, <1>2, Parameters

LEMMA NetType ==
    ASSUME NEW p \in Position, NEW price \in Nat
    PROVE  Net(p, price) \in Int
  <1>1. p.lots \in Nat /\ p.entry \in Nat
    BY PositionFacts
  <1>2. (IF Buys(p) THEN price - p.entry ELSE p.entry - price) - Cost \in Int
    BY <1>1, Parameters
  <1> QED
    BY <1>1, <1>2 DEF Net

LEMMA TradeFacts ==
    ASSUME NEW t \in Trade
    PROVE  /\ t.position \in Position /\ t.exit \in Nat /\ t.net \in Int
           /\ t.why \in Whys /\ t.exited \in 1 .. Len(Days)
           /\ Days[t.exited] \in Nat
  BY Parameters DEF Trade

-----------------------------------------------------------------------------
\* More candles and more trades change nothing for the trades that are closed.

LEMMA UntouchedExtends ==
    ASSUME NEW s \in Seq(Candles), NEW b \in Candles, NEW p \in Position,
           NEW last \in Int, last <= Len(s), Untouched(p, s, last)
    PROVE  Untouched(p, Append(s, b), last)
  <1> SUFFICES ASSUME NEW i \in p.entered .. last
               PROVE  Append(s, b)[i] = s[i]
    BY DEF Untouched
  <1> QED
    BY PositionFacts

LEMMA CapsExtend ==
    ASSUME NEW ts \in Seq(Trade), NEW t \in Trade, NEW n \in 0 .. Len(ts), NEW p,
           FitsCaps(ts, n, p)
    PROVE  FitsCaps(Append(ts, t), n, p)
  <1>1. \A j \in 1 .. n : Append(ts, t)[j] = ts[j]
    OBVIOUS
  <1>2. ASSUME NEW booked \in SUBSET (1 .. n)
        PROVE  LossOf(Append(ts, t), booked) = LossOf(ts, booked)
    <2>1. [k \in booked |-> Loss(Append(ts, t)[k])] = [k \in booked |-> Loss(ts[k])]
      BY <1>1
    <2> QED
      BY <2>1 DEF LossOf
  <1> DEFINE today == Days[p.entered]
             daily(x) == {j \in 1 .. n : Days[x[j].exited] = today}
             weekly(x) == {j \in 1 .. n : Days[x[j].exited] >= Monday(today)}
  <1>3. daily(Append(ts, t)) = daily(ts) /\ weekly(Append(ts, t)) = weekly(ts)
    BY <1>1
  <1>4. /\ LossOf(Append(ts, t), daily(Append(ts, t))) = LossOf(ts, daily(ts))
        /\ LossOf(Append(ts, t), weekly(Append(ts, t))) = LossOf(ts, weekly(ts))
    BY <1>2, <1>3
  <1> QED
    BY <1>4 DEF FitsCaps

LEMMA TradesExtend ==
    ASSUME NEW s \in Seq(Candles), NEW b \in Candles, NEW ts, TradesInOrder(ts, s)
    PROVE  TradesInOrder(ts, Append(s, b))
  <1> SUFFICES ASSUME NEW k \in 1 .. Len(ts), TradeInOrder(ts, k, s)
               PROVE  TradeInOrder(ts, k, Append(s, b))
    BY DEF TradesInOrder
  <1> DEFINE t == ts[k]
             p == t.position
  <1>1. t \in Trade
    BY DEF TradesInOrder
  <1>2. p \in Position /\ p.entered \in Nat /\ p.entered >= 1
    BY <1>1, TradeFacts, PositionFacts
  <1>3. t.exited \in p.entered .. Len(s) /\ t.exited - 1 \in Int /\ t.exited - 1 <= Len(s)
    BY <1>2 DEF TradeInOrder
  <1>4. Len(Append(s, b)) = Len(s) + 1 /\ Append(s, b)[t.exited] = s[t.exited]
    BY <1>2, <1>3
  <1>5. t.exited \in p.entered .. Len(Append(s, b))
    BY <1>2, <1>3, <1>4
  <1>6. Untouched(p, Append(s, b), t.exited - 1)
    BY <1>2, <1>3, UntouchedExtends DEF TradeInOrder
  <1>7. Pessimistic(p, Append(s, b), t.exited, t.exit)
    BY <1>4 DEF TradeInOrder, Pessimistic
  <1> QED
    BY <1>5, <1>6, <1>7 DEF TradeInOrder

-----------------------------------------------------------------------------
(***************************************************************************)
(* settle keeps the book in order, whatever fills the position, as long as *)
(* the fill is pessimistic and costs what was estimated; and it may find   *)
(* no fill only when the candle touched neither level.                     *)
(***************************************************************************)
FillsInOrder(p, s, i, fill) ==
    /\ fill = NoFill => ~StopTouched(p, s[i]) /\ ~TargetTouched(p, s[i])
    /\ fill # NoFill =>
          /\ fill.price \in Nat /\ fill.why \in Whys
          /\ Pessimistic(p, s, i, fill.price)
          /\ Estimated(p, Net(p, fill.price), fill.why)

LEMMA SettleKeepsOrder ==
    ASSUME NEW s \in Seq(Candles), Len(s) <= Len(Days),
           NEW eq \in Int, NEW ts, TradesInOrder(ts, s),
           NEW p \in Position, Priced(p), p.entered <= Len(s), Untouched(p, s, Len(s) - 1),
           FitsCaps(ts, Len(ts), p),
           NEW fill, FillsInOrder(p, s, Len(s), fill)
    PROVE  LET book == [position |-> Flat, equity |-> eq, trades |-> ts]
           IN  InOrder(Settled(book, p, fill, Len(s)), s)
  <1> DEFINE book == [position |-> Flat, equity |-> eq, trades |-> ts]
             i == Len(s)
             t == [position |-> p, exit |-> fill.price, net |-> Net(p, fill.price),
                   why |-> fill.why, exited |-> i]
             after == Append(ts, t)
  <1>1. p.entered \in Nat /\ p.entered >= 1 /\ i \in Nat /\ i \in p.entered .. Len(Days)
    BY PositionFacts, Parameters
  <1>2. CASE fill = NoFill
    <2>1. Settled(book, p, fill, i) = [position |-> p, equity |-> eq, trades |-> ts]
      BY <1>2 DEF Settled
    <2>2. Untouched(p, s, Len(s))
      <3> SUFFICES ASSUME NEW j \in p.entered .. Len(s)
                   PROVE  ~StopTouched(p, s[j]) /\ ~TargetTouched(p, s[j])
        BY DEF Untouched
      <3>1. j = Len(s) \/ j \in p.entered .. Len(s) - 1
        BY <1>1
      <3> QED
        BY <1>2, <3>1 DEF Untouched, FillsInOrder
    <2> QED
      BY <2>1, <2>2 DEF InOrder, PositionInOrder
  <1>3. CASE fill # NoFill
    <2>1. Settled(book, p, fill, i)
            = [position |-> Flat, equity |-> eq + Net(p, fill.price), trades |-> after]
      BY <1>3 DEF Settled
    <2>2. /\ fill.price \in Nat /\ fill.why \in Whys /\ Net(p, fill.price) \in Int
          /\ Pessimistic(p, s, i, fill.price)
          /\ Estimated(p, Net(p, fill.price), fill.why)
      BY <1>3, NetType DEF FillsInOrder
    <2>3. ts \in Seq(Trade) /\ t \in Trade
      BY <1>1, <2>2 DEF Trade, TradesInOrder
    <2>4. /\ t.position = p /\ t.exit = fill.price /\ t.net = Net(p, fill.price)
          /\ t.why = fill.why /\ t.exited = i
      OBVIOUS
    <2> HIDE DEF t
    <2>5. /\ after \in Seq(Trade) /\ Len(after) = Len(ts) + 1
          /\ \A k \in 1 .. Len(ts) : after[k] = ts[k]
          /\ after[Len(ts) + 1] = t
      BY <2>3
    <2>6. ASSUME NEW k \in 1 .. Len(ts) PROVE TradeInOrder(after, k, s)
      <3>1. TradeInOrder(ts, k, s)
        BY DEF TradesInOrder
      <3>2. FitsCaps(after, k - 1, ts[k].position)
        <4>1. k - 1 \in 0 .. Len(ts)
          BY <2>3
        <4> QED
          BY <2>3, <3>1, <4>1, CapsExtend DEF TradeInOrder
      <3> QED
        BY <2>5, <3>1, <3>2 DEF TradeInOrder
    <2>7. TradeInOrder(after, Len(ts) + 1, s)
      <3>1. FitsCaps(after, Len(ts), p)
        BY <2>3, CapsExtend
      <3>2. Len(ts) + 1 - 1 = Len(ts)
        BY <2>3
      <3>3. t.exited \in t.position.entered .. Len(s)
        BY <1>1, <2>4
      <3> QED
        BY <2>2, <2>4, <2>5, <3>1, <3>2, <3>3 DEF TradeInOrder
    <2>8. ASSUME NEW j \in 1 .. Len(after), NEW k \in 1 .. Len(after), j <= k
          PROVE  after[j].exited <= after[k].exited
      <3>1. CASE k = Len(ts) + 1 /\ j # k
        <4>1. j \in 1 .. Len(ts)
          BY <2>3, <2>5, <3>1
        <4>2. ts[j].exited \in ts[j].position.entered .. Len(s)
          BY <4>1 DEF TradesInOrder, TradeInOrder
        <4>3. ts[j].position.entered \in Nat
          BY <2>3, <4>1, TradeFacts, PositionFacts
        <4> QED
          BY <1>1, <2>4, <2>5, <3>1, <4>1, <4>2, <4>3
      <3>2. CASE k = Len(ts) + 1 /\ j = k
        BY <1>1, <2>4, <2>5, <3>2
      <3>3. CASE k # Len(ts) + 1
        <4>1. j \in 1 .. Len(ts) /\ k \in 1 .. Len(ts)
          BY <2>3, <2>5, <2>8, <3>3
        <4> QED
          BY <2>5, <2>8, <4>1 DEF TradesInOrder
      <3> QED
        BY <3>1, <3>2, <3>3
    <2>9. TradesInOrder(after, s)
      <3>1. \A k \in 1 .. Len(after) : k \in 1 .. Len(ts) \/ k = Len(ts) + 1
        BY <2>3, <2>5
      <3> QED
        BY <2>5, <2>6, <2>7, <2>8, <3>1 DEF TradesInOrder
    <2> DEFINE result == Settled(book, p, fill, i)
    <2>10. /\ result.equity = eq + Net(p, fill.price) /\ result.trades = after
           /\ result.position = Flat
      BY <2>1
    <2>11. result.equity \in Int
      BY <2>2, <2>10
    <2> HIDE DEF result, after
    <2>12. InOrder(result, s)
      BY <2>9, <2>10, <2>11 DEF InOrder
    <2> QED
      BY <2>12 DEF result
  <1> QED
    BY <1>2, <1>3

\* An exit no further from the entry than the stop, on its side, costs no more than the risk.
LEMMA WithinEstimate ==
    ASSUME NEW p \in Position, Priced(p), NEW price \in Nat,
           IF Buys(p) THEN price >= p.stop ELSE price <= p.stop
    PROVE  -Net(p, price) <= p.risk
  <1> DEFINE distance == IF Buys(p) THEN p.entry - p.stop ELSE p.stop - p.entry
             gross == IF Buys(p) THEN price - p.entry ELSE p.entry - price
  <1>1. /\ distance \in Int /\ gross \in Int /\ gross >= -distance
        /\ p.lots \in Nat /\ Cost \in Nat /\ p.risk \in Nat
    BY PositionFacts, Parameters
  <1>2. Net(p, price) = p.lots * (gross - Cost) /\ p.risk = p.lots * (distance + Cost)
    BY DEF Net, Priced
  <1> HIDE DEF distance, gross
  <1>3. (Cost - gross) * p.lots <= (distance + Cost) * p.lots
    BY <1>1, ProductMonotone
  <1>4. -(p.lots * (gross - Cost)) = (Cost - gross) * p.lots
    BY <1>1
  <1> QED
    BY <1>1, <1>2, <1>3, <1>4

-----------------------------------------------------------------------------
\* The three ways a trade ends.

LEMMA FillInOrder ==
    ASSUME NEW s \in Seq(Candles), NEW b \in Candles,
           NEW p \in Position, Priced(p), p.entered <= Len(s)
    PROVE  FillsInOrder(p, Append(s, b), Len(s) + 1, Fill(p, b))
  <1> DEFINE fill == Fill(p, b)
             i == Len(s) + 1
  <1>1. Append(s, b)[i] = b
    OBVIOUS
  <1>2. i # p.entered
    BY PositionFacts
  <1>3. /\ b.open \in Nat /\ b.high \in Nat /\ b.low \in Nat
        /\ b.low <= b.open /\ b.open <= b.high
    BY CandleFacts
  <1>4. p.entry \in Nat /\ p.stop \in Nat /\ p.target \in Nat /\ p.risk \in Nat
    BY PositionFacts
  <1>5. GapsThroughStop(p, b) => StopTouched(p, b)
    BY <1>3, <1>4 DEF GapsThroughStop, StopTouched
  <1>6. CASE GapsThroughStop(p, b)
    <2>1. fill = [price |-> b.open, why |-> "GAP_STOP"]
      BY <1>6 DEF Fill
    <2>2. fill # NoFill /\ fill.price = b.open /\ fill.why = "GAP_STOP"
      BY <2>1 DEF NoFill
    <2>3. Worse(p, p.stop, b.open) = b.open
      BY <1>3, <1>4, <1>6 DEF GapsThroughStop, Worse, Buys
    <2> HIDE DEF fill
    <2>4. FillsInOrder(p, Append(s, b), i, fill)
      BY <1>1, <1>2, <1>3, <2>2, <2>3
         DEF FillsInOrder, Pessimistic, Estimated, Whys
    <2> QED
      BY <2>4 DEF fill
  <1>7. CASE ~GapsThroughStop(p, b) /\ StopTouched(p, b)
    <2>1. fill = [price |-> p.stop, why |-> "STOP_FIRST"]
      BY <1>7 DEF Fill
    <2>2. fill # NoFill /\ fill.price = p.stop /\ fill.why = "STOP_FIRST"
      BY <2>1 DEF NoFill
    <2>3. Worse(p, p.stop, b.open) = p.stop
      BY <1>3, <1>4, <1>7 DEF GapsThroughStop, Worse, Buys
    <2>4. -Net(p, p.stop) <= p.risk /\ Net(p, p.stop) \in Int
      BY <1>4, WithinEstimate, NetType
    <2>5. Estimated(p, Net(p, p.stop), "STOP_FIRST")
      BY <1>4, <2>4 DEF Estimated
    <2>6. Pessimistic(p, Append(s, b), i, p.stop)
      BY <1>1, <1>2, <2>3 DEF Pessimistic
    <2> HIDE DEF fill
    <2>7. FillsInOrder(p, Append(s, b), i, fill)
      BY <1>4, <2>2, <2>5, <2>6 DEF FillsInOrder, Whys
    <2> QED
      BY <2>7 DEF fill
  <1>8. CASE ~StopTouched(p, b) /\ TargetTouched(p, b)
    <2>1. fill = [price |-> p.target, why |-> "TARGET"]
      BY <1>5, <1>8 DEF Fill
    <2>2. fill # NoFill /\ fill.price = p.target /\ fill.why = "TARGET"
      BY <2>1 DEF NoFill
    <2>3. -Net(p, p.target) <= p.risk /\ Net(p, p.target) \in Int
      <3>1. IF Buys(p) THEN p.target >= p.stop ELSE p.target <= p.stop
        BY <1>4 DEF Priced
      <3> QED
        BY <1>4, <3>1, WithinEstimate, NetType
    <2>4. Estimated(p, Net(p, p.target), "TARGET")
      BY <1>4, <2>3 DEF Estimated
    <2>5. Pessimistic(p, Append(s, b), i, p.target)
      BY <1>1, <1>8 DEF Pessimistic
    <2> HIDE DEF fill
    <2>6. FillsInOrder(p, Append(s, b), i, fill)
      BY <1>4, <2>2, <2>4, <2>5 DEF FillsInOrder, Whys
    <2> QED
      BY <2>6 DEF fill
  <1>9. CASE ~StopTouched(p, b) /\ ~TargetTouched(p, b)
    BY <1>1, <1>5, <1>9 DEF Fill, FillsInOrder
  <1> QED
    BY <1>6, <1>7, <1>8, <1>9

LEMMA EntryFillInOrder ==
    ASSUME NEW s \in Seq(Candles), NEW b \in Candles,
           NEW p \in Position, Priced(p), p.entered = Len(s) + 1
    PROVE  FillsInOrder(p, Append(s, b), Len(s) + 1, EntryFill(p, b))
  <1> DEFINE fill == EntryFill(p, b)
             i == Len(s) + 1
  <1>1. Append(s, b)[i] = b
    OBVIOUS
  <1>2. p.entry \in Nat /\ p.stop \in Nat /\ p.target \in Nat /\ p.risk \in Nat
    BY PositionFacts
  <1>3. CASE StopTouched(p, b)
    <2>1. fill = [price |-> p.stop, why |-> "ENTRY_BAR_STOP_FIRST"]
      BY <1>3 DEF EntryFill
    <2>2. fill # NoFill /\ fill.price = p.stop /\ fill.why = "ENTRY_BAR_STOP_FIRST"
      BY <2>1 DEF NoFill
    <2>3. -Net(p, p.stop) <= p.risk /\ Net(p, p.stop) \in Int
      BY <1>2, WithinEstimate, NetType
    <2> HIDE DEF fill
    <2>4. FillsInOrder(p, Append(s, b), i, fill)
      BY <1>1, <1>2, <2>2, <2>3 DEF FillsInOrder, Pessimistic, Estimated, Whys
    <2> QED
      BY <2>4 DEF fill
  <1>4. CASE ~StopTouched(p, b) /\ TargetTouched(p, b)
    <2>1. fill = [price |-> p.target, why |-> "ENTRY_BAR_TARGET"]
      BY <1>4 DEF EntryFill
    <2>2. fill # NoFill /\ fill.price = p.target /\ fill.why = "ENTRY_BAR_TARGET"
      BY <2>1 DEF NoFill
    <2>3. -Net(p, p.target) <= p.risk /\ Net(p, p.target) \in Int
      <3>1. IF Buys(p) THEN p.target >= p.stop ELSE p.target <= p.stop
        BY <1>2 DEF Priced
      <3> QED
        BY <1>2, <3>1, WithinEstimate, NetType
    <2> HIDE DEF fill
    <2>4. FillsInOrder(p, Append(s, b), i, fill)
      BY <1>1, <1>2, <1>4, <2>2, <2>3 DEF FillsInOrder, Pessimistic, Estimated, Whys
    <2> QED
      BY <2>4 DEF fill
  <1>5. CASE ~StopTouched(p, b) /\ ~TargetTouched(p, b)
    BY <1>1, <1>5 DEF EntryFill, FillsInOrder
  <1> QED
    BY <1>3, <1>4, <1>5

\* The last price of the data is one between the levels, for they were not touched.
LEMMA EndFillInOrder ==
    ASSUME NEW s \in Seq(Candles), NEW p \in Position, Priced(p),
           p.entered <= Len(s), Untouched(p, s, Len(s))
    PROVE  FillsInOrder(p, s, Len(s), [price |-> s[Len(s)].close, why |-> "END_OF_DATA"])
  <1> DEFINE fill == [price |-> s[Len(s)].close, why |-> "END_OF_DATA"]
             b == s[Len(s)]
  <1>1. b \in Candles /\ Len(s) \in p.entered .. Len(s)
    BY PositionFacts
  <1>2. ~StopTouched(p, b)
    BY <1>1 DEF Untouched
  <1>3. /\ b.close \in Nat /\ b.low \in Nat /\ b.high \in Nat
        /\ b.low <= b.close /\ b.close <= b.high
    BY <1>1, CandleFacts
  <1>4. IF Buys(p) THEN b.close >= p.stop ELSE b.close <= p.stop
    BY <1>2, <1>3, PositionFacts DEF StopTouched
  <1>5. -Net(p, b.close) <= p.risk /\ Net(p, b.close) \in Int /\ p.risk \in Nat
    BY <1>3, <1>4, WithinEstimate, NetType, PositionFacts
  <1>6. fill # NoFill /\ fill.price = b.close /\ fill.why = "END_OF_DATA"
    BY DEF NoFill
  <1> HIDE DEF fill
  <1>7. FillsInOrder(p, s, Len(s), fill)
    BY <1>2, <1>3, <1>5, <1>6 DEF FillsInOrder, Pessimistic, Estimated, Whys
  <1> QED
    BY <1>7 DEF fill

-----------------------------------------------------------------------------
\* What the run hands to the engine, and what it does with the answer.

LEMMA DistanceType ==
    ASSUME NEW s \in Seq(Candles), NEW i \in Slow + 2 .. Len(s)
    PROVE  Distance(s, i) \in Nat \ {0}
  <1> DEFINE window == i - Slow .. i - 1
             ranges == [j \in window |-> s[j].high - s[j].low]
             mean == SumFunction(ranges) \div Slow
  <1>1. i \in Nat /\ Slow \in Nat \ {0} /\ IsFiniteSet(window)
    <2>1. i \in Nat /\ Slow \in Nat \ {0} /\ i - Slow \in Int /\ i - 1 \in Int
      BY Parameters
    <2> QED
      BY <2>1, FS_Interval
  <1>2. ASSUME NEW j \in window PROVE s[j].high - s[j].low \in Nat
    <2>1. s[j] \in Candles
      BY <1>1
    <2> QED
      BY <2>1, CandleFacts
  <1>3. SumFunction(ranges) \in Nat
    BY <1>1, <1>2, WholeSumOfNaturals
  <1>4. mean \in Nat
    BY <1>1, <1>3, FloorIsLargest
  <1>5. Distance(s, i) = IF mean > MinDistance THEN mean ELSE MinDistance
    BY DEF Distance
  <1> HIDE DEF mean
  <1> QED
    BY <1>4, <1>5, Parameters

LEMMA CandidateFacts ==
    ASSUME NEW s \in Seq(Candles), NEW i \in Slow + 2 .. Len(s), NEW direction \in Directions
    PROVE  LET c == Candidate(s, i, direction)
           IN  /\ c.direction = direction /\ c.entry \in Nat /\ c.distance \in Nat \ {0}
               /\ c.stop \in Int /\ c.target \in Int
               /\ direction = "BUY" => /\ c.stop = c.entry - c.distance
                                       /\ c.target = c.entry + 2 * c.distance
               /\ direction # "BUY" => /\ c.stop = c.entry + c.distance
                                       /\ c.target = c.entry - 2 * c.distance
  <1> DEFINE c == Candidate(s, i, direction)
             d == Distance(s, i)
             sign == IF direction = "BUY" THEN 1 ELSE -1
  <1>1. s[i].open \in Nat
    <2>1. i \in 1 .. Len(s)
      BY Parameters
    <2> QED
      BY <2>1, CandleFacts
  <1>2. d \in Nat \ {0}
    BY DistanceType
  <1>3. /\ c.direction = direction /\ c.entry = s[i].open /\ c.distance = d
        /\ c.stop = s[i].open - sign * d /\ c.target = s[i].open + sign * 2 * d
    BY DEF Candidate
  <1> HIDE DEF c, d
  <1>4. CASE direction = "BUY"
    BY <1>1, <1>2, <1>3, <1>4 DEF c
  <1>5. CASE direction # "BUY"
    BY <1>1, <1>2, <1>3, <1>5 DEF c
  <1> QED
    BY <1>4, <1>5

LEMMA LossOfType ==
    ASSUME NEW ts \in Seq(Trade), NEW booked \in SUBSET (1 .. Len(ts))
    PROVE  LossOf(ts, booked) \in Nat
  <1>1. IsFiniteSet(1 .. Len(ts)) /\ IsFiniteSet(booked)
    <2>1. 1 \in Int /\ Len(ts) \in Int
      OBVIOUS
    <2>2. IsFiniteSet(1 .. Len(ts))
      BY <2>1, FS_Interval
    <2> QED
      BY <2>2, FS_Subset
  <1>2. ASSUME NEW k \in booked PROVE Loss(ts[k]) \in Nat
    <2>1. ts[k].net \in Int
      BY TradeFacts
    <2> QED
      BY <2>1 DEF Loss
  <1> QED
    BY <1>1, <1>2, WholeSumOfNaturals DEF LossOf

LEMMA ViewType ==
    ASSUME NEW book, book.equity \in Int, book.equity > 0, book.trades \in Seq(Trade),
           NEW d
    PROVE  /\ DailyLoss(book.trades, d) \in Nat /\ WeeklyLoss(book.trades, d) \in Nat
           /\ IsView(AccountView(book, d))
  <1>1. DailyLoss(book.trades, d) \in Nat /\ WeeklyLoss(book.trades, d) \in Nat
    BY LossOfType DEF DailyLoss, WeeklyLoss
  <1> QED
    BY <1>1, Parameters DEF AccountView, IsView

LEMMA OfferType ==
    ASSUME NEW c, c.entry \in Nat, c.distance \in Nat \ {0}, Grid.minimum <= Grid.maximum
    PROVE  IsOffer(Offer(c)) /\ Offer(c).unit_loss = c.distance + Cost
  <1> DEFINE o == Offer(c)
             unit == c.distance + Cost
             net == [stop |-> -unit, target |-> 2 * c.distance - Cost]
  <1>1. unit \in Nat \ {0} /\ 2 * c.distance - Cost \in Int /\ 2 * c.distance - Cost >= -unit
    BY Parameters
  <1>2. net \in [Exits -> Int] /\ \A exit \in Exits : -unit <= net[exit]
    <2>1. DOMAIN net = Exits
      BY DEF Exits
    <2>2. net["stop"] = -unit /\ net["target"] = 2 * c.distance - Cost
      OBVIOUS
    <2> HIDE DEF unit
    <2> QED
      BY <1>1, <2>1, <2>2 DEF Exits
  <1>3. /\ Grid.minimum \in Nat \ {0} /\ Grid.maximum \in Nat /\ Grid.increment \in Nat \ {0}
    BY BacktestAssumption
  <1>4. o = [unit_loss |-> unit, cost |-> Cost, margin |-> c.entry,
             minimum |-> Grid.minimum, maximum |-> Grid.maximum, increment |-> Grid.increment,
             net |-> net]
    BY DEF Offer
  <1>5. /\ o.unit_loss = unit /\ o.minimum = Grid.minimum /\ o.maximum = Grid.maximum
        /\ o.net = net
    BY <1>4
  <1> HIDE DEF unit, net
  <1>6. o \in [unit_loss : Nat \ {0}, cost : Nat, margin : Nat,
               minimum : Nat \ {0}, maximum : Nat, increment : Nat \ {0},
               net : [Exits -> Int]]
    BY <1>1, <1>2, <1>3, <1>4, Parameters
  <1> HIDE DEF o
  <1>7. IsOffer(o)
    BY <1>2, <1>5, <1>6 DEF IsOffer
  <1> QED
    BY <1>5, <1>7 DEF o, unit

LEMMA NoUnsoundApproval ==
    ASSUME NEW v, IsView(v), NEW p, NEW o, EngineReasons(v, p, o, "unsound") = {}
    PROVE  FALSE
  <1>1. ~ (v.equity < 0)
    BY DEF EngineReasons
  <1>2. When("unsound" = "unsound", "SIGNAL_BROKER_OR_MARKET_UNSOUND") = {}
    BY <1>1, Zenon DEF EngineReasons
  <1> QED
    BY <1>2, WhenRaises

LEMMA LossAndRiskFit ==
    ASSUME NEW scale \in Nat, NEW loss \in Nat, NEW risk \in Nat, NEW x \in Int, NEW y \in Int,
           scale * risk <= x - scale * (loss + 0), x <= y
    PROVE  scale * (loss + risk) <= y
  OBVIOUS

\* An approved candidate is a position in order, before its candle is looked at.
LEMMA ApprovedInOrder ==
    ASSUME NEW s \in Seq(Candles), NEW i \in Slow + 2 .. Len(s), i <= Len(Days),
           NEW direction \in Directions,
           NEW book, book.equity \in Int, book.equity > 0, book.trades \in Seq(Trade),
           Objections(book, Candidate(s, i, direction), Days[i]) = {}
    PROVE  LET p == Sized(book, Candidate(s, i, direction), i)
           IN  /\ p \in Position /\ p.entered = i
               /\ Priced(p)
               /\ FitsCaps(book.trades, Len(book.trades), p)
  <1> DEFINE c == Candidate(s, i, direction)
             v == AccountView(book, Days[i])
             o == Offer(c)
             fault == IF c.stop > 0 /\ c.target > 0 /\ Grid.minimum <= Grid.maximum
                      THEN "none" ELSE "unsound"
             lots == PositionSize(o, Budget(v))
             unit == c.distance + Cost
             p == Sized(book, c, i)
             daily == DailyLoss(book.trades, Days[i])
             weekly == WeeklyLoss(book.trades, Days[i])
  <1>1. /\ c.direction = direction /\ c.entry \in Nat /\ c.distance \in Nat \ {0}
        /\ c.stop \in Int /\ c.target \in Int
        /\ direction = "BUY" => /\ c.stop = c.entry - c.distance
                                /\ c.target = c.entry + 2 * c.distance
        /\ direction # "BUY" => /\ c.stop = c.entry + c.distance
                                /\ c.target = c.entry - 2 * c.distance
    BY CandidateFacts
  <1>2. IsView(v) /\ daily \in Nat /\ weekly \in Nat
    BY ViewType
  <1>3. EngineReasons(v, ResearchProvider, o, fault) = {}
    BY DEF Objections
  <1>4. c.stop > 0 /\ c.target > 0 /\ Grid.minimum <= Grid.maximum
    BY <1>2, <1>3, NoUnsoundApproval
  <1> HIDE DEF c
  <1>5. IsOffer(o) /\ o.unit_loss = unit
    BY <1>1, <1>4, OfferType
  <1>6. /\ Budget(v) > 0
        /\ lots \in LotGrid(o) /\ lots >= o.minimum
        /\ ScaledLoss(o, lots) <= Budget(v)
    BY <1>2, <1>3, <1>5, ApprovalFitsEveryBudget
  <1>7. unit \in Nat \ {0} /\ lots \in Nat \ {0} /\ lots * unit \in Nat \ {0}
    <2>1. unit \in Nat \ {0}
      BY <1>1, Parameters
    <2>2. o.minimum \in Nat \ {0}
      BY <1>5, OfferNumbers
    <2>3. lots \in Nat
      BY <1>5, <1>6, GridType
    <2> HIDE DEF lots, unit, o
    <2>4. lots \in Nat \ {0}
      BY <1>6, <2>2, <2>3
    <2> QED
      BY <2>1, <2>4, ProductOfPositives
  <1>8. p = [direction |-> c.direction, entry |-> c.entry, stop |-> c.stop, target |-> c.target,
             lots |-> lots, risk |-> lots * o.unit_loss, entered |-> i]
    BY DEF Sized
  <1>9. /\ p.direction = direction /\ p.entry = c.entry /\ p.stop = c.stop /\ p.target = c.target
        /\ p.lots = lots /\ p.risk = lots * unit /\ p.entered = i
    BY <1>1, <1>5, <1>8
  <1>10. i \in 1 .. Len(Days)
    BY Parameters
  <1>11. p \in Position
    <2>1. c.stop \in Nat /\ c.target \in Nat /\ lots * o.unit_loss \in Nat \ {0}
      BY <1>1, <1>4, <1>5, <1>7
    <2> HIDE DEF lots, o, p
    <2> QED
      BY <1>1, <1>7, <1>8, <1>10, <2>1 DEF Position
  <1> HIDE DEF p
  <1>12. Priced(p)
    <2> DEFINE d == IF Buys(p) THEN p.entry - p.stop ELSE p.stop - p.entry
    <2>1. /\ d = c.distance
          /\ p.target = IF Buys(p) THEN p.entry + 2 * c.distance ELSE p.entry - 2 * c.distance
      BY <1>1, <1>9 DEF Buys
    <2>2. c.distance > 0 /\ p.risk = p.lots * (c.distance + Cost)
      BY <1>1, <1>9
    <2> HIDE DEF d
    <2>3. /\ d > 0 /\ p.risk = p.lots * (d + Cost)
          /\ p.target = IF Buys(p) THEN p.entry + 2 * d ELSE p.entry - 2 * d
      BY <2>1, <2>2
    <2> QED
      BY <2>3 DEF Priced, d
  <1>13. FitsCaps(book.trades, Len(book.trades), p)
    <2> DEFINE pdaily == Policy.provider_daily_fraction
               pweekly == Policy.provider_weekly_fraction
               room == Baseline(v)
    <2>1. /\ v.provider_daily_loss = daily /\ v.provider_weekly_loss = weekly
          /\ v.reserved_risk = 0 /\ v.profile = Profile /\ v.equity = book.equity
      BY DEF AccountView
    <2>2. pdaily \in Nat /\ pweekly \in Nat /\ Scale \in Nat
      BY PolicyNumbers
    <2>3. /\ Budget(v) \in Int
          /\ Budget(v) <= room * pdaily - Scale * (daily + 0)
          /\ Budget(v) <= room * pweekly - Scale * (weekly + 0)
      BY <1>2, <2>1, BudgetIsLeast DEF Remainder
    <2>4. room \in Int /\ room <= Profile
      BY <2>1, Parameters DEF Baseline, Lesser
    <2>5. ASSUME NEW f \in Nat PROVE room * f <= Profile * f
      <3> HIDE DEF room
      <3> QED
        BY <2>4, ProductMonotone, Parameters
    <2>6. ScaledLoss(o, lots) = Scale * p.risk /\ p.risk \in Nat
      BY <1>5, <1>7, <1>9, <2>2 DEF ScaledLoss
    <2>7. /\ LossOf(book.trades, {j \in 1 .. Len(book.trades) :
                                    Days[book.trades[j].exited] = Days[i]}) = daily
          /\ LossOf(book.trades, {j \in 1 .. Len(book.trades) :
                                    Days[book.trades[j].exited] >= Monday(Days[i])}) = weekly
      BY DEF DailyLoss, WeeklyLoss, BookedOn
    <2> HIDE DEF daily, weekly, room, v, o, lots, pdaily, pweekly
    <2>8. Scale * p.risk <= room * pdaily - Scale * (daily + 0)
          /\ Scale * p.risk <= room * pweekly - Scale * (weekly + 0)
      BY <1>6, <2>2, <2>3, <2>4, <2>6, <1>2
    <2>9. /\ Scale * (daily + p.risk) <= Profile * pdaily
          /\ Scale * (weekly + p.risk) <= Profile * pweekly
      <3>1. ASSUME NEW f \in Nat, NEW loss \in Nat, Scale * p.risk <= room * f - Scale * (loss + 0)
            PROVE  Scale * (loss + p.risk) <= Profile * f
        <4>1. room * f \in Int /\ Profile * f \in Int
          BY <2>4, Parameters
        <4> QED
          BY <2>2, <2>5, <2>6, <3>1, <4>1, LossAndRiskFit
      <3> QED
        BY <1>2, <2>2, <2>8, <3>1
    <2> QED
      BY <1>9, <2>7, <2>9 DEF FitsCaps, pdaily, pweekly
  <1> QED
    BY <1>9, <1>11, <1>12, <1>13 DEF p, c

-----------------------------------------------------------------------------
\* The book stays in order, step by step.

LEMMA BecomesInOrder ==
    ASSUME NEW book, Becomes(book), NEW s, InOrder(book, s)
    PROVE  InOrder(Book', s)
  <1>1. Book'.position = book.position /\ Book'.equity = book.equity /\ Book'.trades = book.trades
    BY DEF Becomes, Book
  <1> QED
    BY <1>1 DEF InOrder

LEMMA BookParts ==
    ASSUME BookInv
    PROVE  /\ equity \in Int /\ TradesInOrder(trades, bars) /\ trades \in Seq(Trade)
           /\ position # Flat => PositionInOrder(position, trades, bars)
  <1>1. Book.position = position /\ Book.equity = equity /\ Book.trades = trades
    BY DEF Book
  <1> QED
    BY <1>1 DEF BookInv, InOrder, TradesInOrder

LEMMA BookAfterInOrder ==
    ASSUME BookInv, NEW b \in Candles, Len(bars) < Len(Days)
    PROVE  InOrder(BookAfter(b), Append(bars, b))
  <1> DEFINE s == Append(bars, b)
             book == [position |-> Flat, equity |-> equity, trades |-> trades]
  <1>1. /\ bars \in Seq(Candles) /\ s \in Seq(Candles) /\ Len(s) = Len(bars) + 1
        /\ Len(bars) \in Nat /\ Len(s) <= Len(Days)
    BY Parameters DEF BookInv, CandlesOK
  <1>2. equity \in Int /\ TradesInOrder(trades, s)
    BY <1>1, BookParts, TradesExtend
  <1>3. CASE position = Flat
    <2>1. BookAfter(b) = book
      BY <1>3 DEF BookAfter
    <2>2. book.position = Flat /\ book.equity = equity /\ book.trades = trades
      OBVIOUS
    <2> HIDE DEF book, s
    <2>3. InOrder(book, s)
      BY <1>2, <2>2 DEF InOrder
    <2> QED
      BY <2>1, <2>3 DEF s
  <1>4. CASE position # Flat
    <2> DEFINE p == position
    <2>1. /\ p \in Position /\ Priced(p) /\ p.entered <= Len(bars)
          /\ Untouched(p, bars, Len(bars)) /\ FitsCaps(trades, Len(trades), p)
      BY <1>4, BookParts DEF PositionInOrder
    <2>2. p.entered <= Len(s) /\ Len(s) - 1 = Len(bars)
      BY <1>1, <2>1, PositionFacts
    <2>3. Untouched(p, s, Len(s) - 1)
      BY <1>1, <2>1, <2>2, UntouchedExtends
    <2>4. FillsInOrder(p, s, Len(s), Fill(p, b))
      BY <1>1, <2>1, FillInOrder
    <2>5. BookAfter(b) = Settled(book, p, Fill(p, b), Len(s))
      BY <1>1, <1>4 DEF BookAfter
    <2> HIDE DEF s, p
    <2>6. InOrder(Settled(book, p, Fill(p, b), Len(s)), s)
      BY <1>1, <1>2, <2>1, <2>2, <2>3, <2>4, SettleKeepsOrder
    <2> QED
      BY <2>5, <2>6 DEF s
  <1> QED
    BY <1>3, <1>4

LEMMA ArrivesFacts ==
    ASSUME BookInv, NEW b \in Candles, Arrives(b)
    PROVE  /\ bars' = Append(bars, b) /\ bars' \in Seq(Candles) /\ CandlesOK'
           /\ Len(bars') = Len(bars) + 1 /\ Len(bars) < Len(Days)
           /\ Len(bars') \in Slow + 2 .. Len(bars') /\ Len(bars') \in 1 .. Len(Days)
  <1>1. /\ bars' = Append(bars, b) /\ Len(bars) < Len(Days) /\ Len(bars) > Slow
        /\ bars \in Seq(Candles)
    BY DEF Arrives, BookInv, CandlesOK
  <1>2. bars' \in Seq(Candles) /\ Len(bars') = Len(bars) + 1 /\ Len(bars) \in Nat
    BY <1>1
  <1> QED
    BY <1>1, <1>2, Parameters DEF CandlesOK

LEMMA PassInOrder ==
    ASSUME BookInv, NEW b \in Candles, Pass(b)
    PROVE  BookInv'
  <1>1. bars' = Append(bars, b) /\ CandlesOK' /\ Len(bars) < Len(Days)
    BY ArrivesFacts DEF Pass
  <1>2. InOrder(Book', bars')
    BY <1>1, BookAfterInOrder, BecomesInOrder DEF Pass
  <1> QED
    BY <1>1, <1>2 DEF BookInv

LEMMA ActInOrder ==
    ASSUME BookInv, NEW b \in Candles, Act(b)
    PROVE  BookInv'
  <1> DEFINE i == Len(bars')
             book == BookAfter(b)
             direction == Crossover(bars', i)
             c == Candidate(bars', i, direction)
             p == Sized(book, c, i)
             entered == Settled(book, p, EntryFill(p, b), i)
  <1>1. /\ bars' = Append(bars, b) /\ bars' \in Seq(Candles) /\ CandlesOK'
        /\ Len(bars') = Len(bars) + 1 /\ Len(bars) < Len(Days) /\ bars \in Seq(Candles)
        /\ i \in Slow + 2 .. Len(bars') /\ i \in 1 .. Len(Days)
    BY ArrivesFacts DEF Act, BookInv, CandlesOK
  <1>2. InOrder(book, bars') /\ book.position = Flat
    BY <1>1, BookAfterInOrder DEF Act
  <1>3. direction \in Directions
    <2>1. direction # "NONE"
      BY DEF Act
    <2> QED
      BY <2>1 DEF Crossover, Directions
  <1>4. \/ Becomes(book)
        \/ /\ ~(book.equity <= 0) /\ Objections(book, c, Days[i]) = {}
           /\ Becomes(entered)
    BY Zenon DEF Act
  <1> HIDE DEF book
  <1>5. ASSUME ~(book.equity <= 0), Objections(book, c, Days[i]) = {}
        PROVE  InOrder(entered, bars')
    <2>1. book.equity \in Int /\ TradesInOrder(book.trades, bars') /\ book.trades \in Seq(Trade)
      BY <1>2 DEF InOrder, TradesInOrder
    <2>2. book.equity > 0
      BY <1>5, <2>1
    <2>3. i <= Len(Days)
      BY <1>1, Parameters
    <2>4. /\ p \in Position /\ p.entered = i /\ Priced(p)
          /\ FitsCaps(book.trades, Len(book.trades), p)
      <3> HIDE DEF i, direction
      <3>1. i \in Slow + 2 .. Len(bars') /\ bars' \in Seq(Candles)
        BY <1>1 DEF i
      <3> QED
        BY <1>3, <1>5, <2>1, <2>2, <2>3, <3>1, ApprovedInOrder
    <2> HIDE DEF p, direction
    <2>5. FillsInOrder(p, bars', i, EntryFill(p, b))
      BY <1>1, <2>4, EntryFillInOrder
    <2>6. Untouched(p, bars', i - 1) /\ p.entered <= i
      BY <1>1, <2>4, Parameters DEF Untouched
    <2> DEFINE flat == [position |-> Flat, equity |-> book.equity, trades |-> book.trades]
    <2>7. InOrder(Settled(flat, p, EntryFill(p, b), i), bars')
      BY <1>1, <2>1, <2>3, <2>4, <2>5, <2>6, SettleKeepsOrder
    <2>8. book = flat
      <3>1. book = [position |-> Flat, equity |-> equity, trades |-> trades]
              \/ book = Settled([position |-> Flat, equity |-> equity, trades |-> trades],
                                position, Fill(position, b), Len(bars) + 1)
        BY DEF book, BookAfter
      <3> QED
        BY <1>2, <3>1 DEF Settled
    <2> QED
      BY <2>7, <2>8
  <1>6. InOrder(Book', bars')
    <2>1. CASE Becomes(book)
      BY <1>2, <2>1, BecomesInOrder
    <2>2. CASE ~Becomes(book)
      BY <1>4, <1>5, <2>2, BecomesInOrder
    <2> QED
      BY <2>1, <2>2
  <1> QED
    BY <1>1, <1>6 DEF BookInv

LEMMA FinishInOrder ==
    ASSUME BookInv, Finish
    PROVE  BookInv'
  <1> DEFINE i == Len(bars)
             book == [position |-> Flat, equity |-> equity, trades |-> trades]
             fill == [price |-> bars[i].close, why |-> "END_OF_DATA"]
             after == IF position = Flat THEN book ELSE Settled(book, position, fill, i)
  <1>1. bars' = bars /\ CandlesOK' /\ bars \in Seq(Candles) /\ i <= Len(Days)
    BY DEF Finish, BookInv, CandlesOK
  <1>2. Becomes(after)
    BY Zenon DEF Finish
  <1>3. CASE position = Flat
    <2>1. book.position = Flat /\ book.equity = equity /\ book.trades = trades
      OBVIOUS
    <2> HIDE DEF book
    <2>2. InOrder(book, bars)
      BY <2>1, BookParts DEF InOrder
    <2>3. Becomes(book)
      BY <1>2, <1>3
    <2> QED
      BY <1>1, <2>2, <2>3, BecomesInOrder DEF BookInv
  <1>4. CASE position # Flat
    <2> DEFINE p == position
    <2>1. /\ p \in Position /\ Priced(p) /\ p.entered <= i
          /\ Untouched(p, bars, i) /\ FitsCaps(trades, Len(trades), p)
      BY <1>4, BookParts DEF PositionInOrder
    <2>2. Untouched(p, bars, i - 1)
      BY <1>1, <2>1, PositionFacts DEF Untouched
    <2>3. FillsInOrder(p, bars, i, fill)
      BY <1>1, <2>1, EndFillInOrder
    <2> HIDE DEF fill, p
    <2>4. InOrder(Settled(book, p, fill, i), bars)
      BY <1>1, <2>1, <2>2, <2>3, BookParts, SettleKeepsOrder
    <2>5. Becomes(Settled(book, p, fill, i))
      BY <1>2, <1>4 DEF p
    <2> QED
      BY <1>1, <2>4, <2>5, BecomesInOrder DEF BookInv
  <1> QED
    BY <1>3, <1>4

LEMMA InitInOrder == Init => BookInv
  <1> SUFFICES ASSUME Init PROVE BookInv
    OBVIOUS
  <1>1. CandlesOK
    <2>1. CASE bars = <<>>
      BY <2>1, Parameters DEF CandlesOK
    <2>2. CASE bars \in WarmUps
      BY <2>2, BacktestAssumption DEF CandlesOK
    <2> QED
      BY <2>1, <2>2 DEF Init
  <1>2. Book.position = Flat /\ Book.equity = Profile /\ Book.trades = <<>>
    BY DEF Init, Book
  <1>3. TradesInOrder(<<>>, bars)
    BY DEF TradesInOrder
  <1> QED
    BY <1>1, <1>2, <1>3, Parameters DEF BookInv, InOrder

LEMMA NextInOrder == BookInv /\ [Next]_vars => BookInv'
  <1> SUFFICES ASSUME BookInv, [Next]_vars PROVE BookInv'
    OBVIOUS
  <1>1. CASE \E b \in Candles : Pass(b) \/ Act(b)
    BY <1>1, PassInOrder, ActInOrder
  <1>2. CASE Finish
    BY <1>2, FinishInOrder
  <1>3. CASE UNCHANGED candleVars
    BY <1>3 DEF candleVars, BookInv, Book, CandlesOK
  <1> QED
    BY <1>1, <1>2, <1>3 DEF Next, vars

(***************************************************************************)
(* Every trade ends with the first candle that touches one of its levels,  *)
(* at its stop or worse if that candle touches the stop, for every         *)
(* sequence of candles.                                                    *)
(***************************************************************************)
THEOREM FillsArePessimistic == Spec => []PessimisticFills
  <1>1. BookInv => PessimisticFills
    <2> SUFFICES ASSUME BookInv, NEW k \in 1 .. Len(trades)
                 PROVE  LET t == trades[k]
                            p == t.position
                            b == bars[t.exited]
                        IN  /\ \A i \in p.entered .. t.exited - 1 :
                                  ~StopTouched(p, bars[i]) /\ ~TargetTouched(p, bars[i])
                            /\ StopTouched(p, b) =>
                                  t.exit = IF t.exited = p.entered THEN p.stop
                                           ELSE Worse(p, p.stop, b.open)
      BY DEF PessimisticFills
    <2>1. TradeInOrder(trades, k, bars)
      BY BookParts DEF TradesInOrder
    <2> QED
      BY <2>1 DEF TradeInOrder, Untouched, Pessimistic
  <1> QED
    BY <1>1, InitInOrder, NextInOrder, PTL DEF Spec

(***************************************************************************)
(* No trade loses more than was estimated when it was entered, unless the  *)
(* market opened beyond its stop; at whatever cost and on whatever grid.   *)
(***************************************************************************)
THEOREM EstimatesHoldWithoutGaps == Spec => []OnlyGapsExceedEstimate
  <1>1. BookInv => OnlyGapsExceedEstimate
    BY BookParts DEF TradesInOrder, TradeInOrder, Estimated, OnlyGapsExceedEstimate
  <1> QED
    BY <1>1, InitInOrder, NextInOrder, PTL DEF Spec

(***************************************************************************)
(* For every policy, each trade's risk and the losses already made in the  *)
(* day and in the week of its entry stay within the provider's caps.       *)
(***************************************************************************)
THEOREM EntriesFitCaps == Spec => []EntriesWithinCaps
  <1>1. BookInv => EntriesWithinCaps
    <2> SUFFICES ASSUME BookInv, NEW k \in 1 .. Len(trades)
                 PROVE  LET p == trades[k].position
                            today == Days[p.entered]
                            daily == LossOf(trades, {j \in 1 .. k - 1 :
                                                       Days[trades[j].exited] = today})
                            weekly == LossOf(trades, {j \in 1 .. k - 1 :
                                                        Days[trades[j].exited] >= Monday(today)})
                        IN  /\ Scale * (daily + p.risk)
                                 <= Profile * Policy.provider_daily_fraction
                            /\ Scale * (weekly + p.risk)
                                 <= Profile * Policy.provider_weekly_fraction
      BY DEF EntriesWithinCaps
    <2>1. TradeInOrder(trades, k, bars)
      BY BookParts DEF TradesInOrder
    <2>2. FitsCaps(trades, k - 1, trades[k].position)
      BY <2>1 DEF TradeInOrder
    <2> QED
      BY <2>2 DEF FitsCaps
  <1> QED
    BY <1>1, InitInOrder, NextInOrder, PTL DEF Spec

-----------------------------------------------------------------------------
(***************************************************************************)
(* Induction up to n, and the existence of what a recursive function       *)
(* defines step by step: first over a set of numbers, then for any step.   *)
(***************************************************************************)
LEMMA UpTo ==
    ASSUME NEW n \in Nat, NEW S, 0 \in S, \A k \in 0 .. n : k < n /\ k \in S => k + 1 \in S
    PROVE  \A k \in 0 .. n : k \in S
  <1> SUFFICES ASSUME NEW bad \in 0 .. n, bad \notin S PROVE FALSE
    OBVIOUS
  <1> DEFINE Bad == {0 .. k : k \in {m \in 0 .. n : m \notin S}}
  <1>1. IsFiniteSet(0 .. n)
    BY FS_Interval
  <1>2. Bad \in SUBSET (SUBSET (0 .. n)) /\ Bad # {}
    OBVIOUS
  <1>3. PICK s \in Bad : \A t \in Bad : t \subseteq s => t = s
    <2> DEFINE D == 0 .. n
    <2>1. IsFiniteSet(D) /\ Bad \in SUBSET (SUBSET D) /\ Bad # {}
      BY <1>1, <1>2
    <2> HIDE DEF Bad, D
    <2> QED
      BY <2>1, MinimalSubset
  <1>4. PICK k \in 0 .. n : k \notin S /\ s = 0 .. k
    OBVIOUS
  <1>5. k # 0
    BY <1>4
  <1>6. k - 1 \in 0 .. n /\ k - 1 < n /\ k - 1 + 1 = k
    BY <1>5
  <1>7. k - 1 \notin S
    BY <1>4, <1>6
  <1>8. 0 .. k - 1 \in Bad
    BY <1>6, <1>7
  <1>9. 0 .. k - 1 \subseteq s /\ k \in s /\ k \notin 0 .. k - 1
    BY <1>4
  <1> QED
    BY <1>3, <1>8, <1>9

\* What iterating a step takes, and what it gives; it gives it.
CanIterate(step, base, T, n) == n \in Nat /\ base \in T /\ step \in [1 .. n -> [T -> T]]

IsIteration(g, step, base, T, n) ==
    g \in [0 .. n -> T] /\ g[0] = base /\ \A k \in 1 .. n : g[k] = step[k][g[k - 1]]

LEMMA IterationExists ==
    ASSUME NEW step, NEW base, NEW T, NEW n, CanIterate(step, base, T, n)
    PROVE  \E g : IsIteration(g, step, base, T, n)
  <1>0. n \in Nat /\ base \in T /\ step \in [1 .. n -> [T -> T]]
    BY DEF CanIterate
  <1> USE <1>0
  <1> DEFINE Reaches(m) == \E g \in [0 .. m -> T] :
                              g[0] = base /\ \A k \in 1 .. m : g[k] = step[k][g[k - 1]]
             S == {m \in 0 .. n : Reaches(m)}
  <1>1. 0 \in S
    <2>1. Reaches(0)
      <3> DEFINE g == [k \in 0 .. 0 |-> base]
      <3>1. g \in [0 .. 0 -> T] /\ g[0] = base /\ 1 .. 0 = {}
        OBVIOUS
      <3> QED
        BY <3>1
    <2> HIDE DEF Reaches
    <2> QED
      BY <2>1
  <1>2. ASSUME NEW m \in 0 .. n, m < n, m \in S PROVE m + 1 \in S
    <2>1. PICK g \in [0 .. m -> T] :
             g[0] = base /\ \A k \in 1 .. m : g[k] = step[k][g[k - 1]]
      BY <1>2
    <2> DEFINE h == [k \in 0 .. m + 1 |-> IF k <= m THEN g[k] ELSE step[m + 1][g[m]]]
    <2>2. g[m] \in T /\ step[m + 1][g[m]] \in T
      BY <1>2
    <2>3. h \in [0 .. m + 1 -> T]
      BY <2>2
    <2>4. h[0] = base
      BY <2>1
    <2>5. ASSUME NEW k \in 1 .. m + 1 PROVE h[k] = step[k][h[k - 1]]
      <3>1. k - 1 \in 0 .. m /\ h[k - 1] = g[k - 1]
        OBVIOUS
      <3>2. CASE k <= m
        BY <2>1, <3>1, <3>2
      <3>3. CASE ~(k <= m)
        <4>1. k = m + 1 /\ k - 1 = m
          BY <3>3
        <4>2. h[k] = step[m + 1][g[m]]
          BY <4>1
        <4> QED
          BY <3>1, <4>1, <4>2
      <3> QED
        BY <3>2, <3>3
    <2> HIDE DEF h
    <2>6. Reaches(m + 1)
      BY <2>3, <2>4, <2>5
    <2> HIDE DEF Reaches
    <2> QED
      BY <1>2, <2>6
  <1> HIDE DEF S
  <1>3. \A m \in 0 .. n : m \in S
    BY <1>1, <1>2, UpTo
  <1>4. n \in S
    BY <1>3
  <1> QED
    BY <1>4, Zenon DEF S, Reaches, IsIteration

-----------------------------------------------------------------------------
\* Sequences of results.

LEMMA NothingAfter ==
    ASSUME NEW s \in Seq(Int)
    PROVE  s \o <<>> = s
  BY ConcatEmptySeq

LEMMA OneMoreAfter ==
    ASSUME NEW s \in Seq(Int), NEW t \in Seq(Int), NEW x \in Int
    PROVE  Append(s \o t, x) = s \o Append(t, x) /\ Append(t, x) \in Seq(Int)
  <1>1. <<x>> \in Seq(Int) /\ s \o t \in Seq(Int)
    BY ConcatProperties
  <1>2. Append(s \o t, x) = (s \o t) \o <<x>> /\ Append(t, x) = t \o <<x>>
    BY <1>1, AppendIsConcat
  <1>3. Append(t, x) \in Seq(Int)
    BY AppendProperties
  <1> QED
    BY <1>1, <1>2, <1>3, ConcatAssociative

-----------------------------------------------------------------------------
\* The results of some of the trades, as the recursion of Nets computes them.

IsNets(g, ts, places) ==
    g = [k \in 0 .. Len(ts) |->
           IF k = 0 THEN <<>>
           ELSE IF k \in places THEN Append(g[k - 1], ts[k].net) ELSE g[k - 1]]

NetsUpTo(ts, places) == CHOOSE g : IsNets(g, ts, places)

LEMMA NetsAreLast ==
    ASSUME NEW ts, NEW places
    PROVE  Nets(ts, places) = NetsUpTo(ts, places)[Len(ts)]
  BY DEF Nets, NetsUpTo, IsNets

LEMMA NetsValue ==
    ASSUME NEW ts, NEW places, NEW g, IsNets(g, ts, places), NEW k \in 0 .. Len(ts)
    PROVE  g[k] = IF k = 0 THEN <<>>
                  ELSE IF k \in places THEN Append(g[k - 1], ts[k].net) ELSE g[k - 1]
  BY Zenon DEF IsNets

\* The function that the recursion of Nets defines exists.
LEMMA NetsExist ==
    ASSUME NEW ts \in Seq(Trade), NEW places
    PROVE  IsNets(NetsUpTo(ts, places), ts, places)
  <1> DEFINE n == Len(ts)
             T == Seq(Int)
             none == <<>>
             With(k, s) == IF k \in places THEN Append(s, ts[k].net) ELSE s
             step == [k \in 1 .. n |-> [s \in T |-> With(k, s)]]
  <1>1. n \in Nat /\ none \in T
    OBVIOUS
  <1>2. ASSUME NEW k \in 1 .. n, NEW s \in T PROVE With(k, s) \in T
    BY TradeFacts
  <1> HIDE DEF T, none, n, With
  <1>3. step \in [1 .. n -> [T -> T]]
    BY <1>2
  <1>4. ASSUME NEW k \in 1 .. n, NEW s \in T PROVE step[k][s] = With(k, s)
    OBVIOUS
  <1> HIDE DEF step
  <1>5. CanIterate(step, none, T, n)
    BY <1>1, <1>3 DEF CanIterate
  <1>6. PICK g : IsIteration(g, step, none, T, n)
    BY <1>5, IterationExists
  <1>7. /\ g \in [0 .. n -> T] /\ g[0] = none
        /\ \A k \in 1 .. n : g[k] = step[k][g[k - 1]]
    BY <1>6 DEF IsIteration
  <1> DEFINE h == [k \in 0 .. n |-> IF k = 0 THEN none ELSE With(k, g[k - 1])]
  <1>8. ASSUME NEW k \in 0 .. n PROVE g[k] = h[k]
    <2>1. CASE k = 0
      BY <1>7, <2>1
    <2>2. CASE k # 0
      <3>1. k \in 1 .. n /\ k - 1 \in 0 .. n
        BY <1>1, <2>2
      <3>2. g[k - 1] \in T
        BY <1>7, <3>1
      <3> QED
        BY <1>4, <1>7, <2>2, <3>1, <3>2
    <2> QED
      BY <2>1, <2>2
  <1>9. g = h
    <2>1. g = [k \in 0 .. n |-> g[k]]
      BY <1>7
    <2> QED
      BY <1>8, <2>1
  <1>10. IsNets(g, ts, places)
    BY <1>9, Zenon DEF IsNets, n, none, With
  <1> QED
    BY <1>10 DEF NetsUpTo

LEMMA NetsRecursion ==
    ASSUME NEW ts \in Seq(Trade), NEW places
    PROVE  LET g == NetsUpTo(ts, places)
           IN  /\ g[0] = <<>>
               /\ \A k \in 1 .. Len(ts) :
                     g[k] = IF k \in places THEN Append(g[k - 1], ts[k].net) ELSE g[k - 1]
               /\ \A k \in 0 .. Len(ts) : g[k] \in Seq(Int)
  <1> DEFINE n == Len(ts)
             T == Seq(Int)
             f == NetsUpTo(ts, places)
             S == {k \in 0 .. n : f[k] \in T}
  <1>1. n \in Nat /\ 0 \in 0 .. n
    OBVIOUS
  <1>2. IsNets(f, ts, places)
    BY NetsExist
  <1> HIDE DEF f
  <1>3. f[0] = <<>>
    BY <1>1, <1>2, NetsValue
  <1>4. ASSUME NEW k \in 1 .. n
        PROVE  f[k] = IF k \in places THEN Append(f[k - 1], ts[k].net) ELSE f[k - 1]
    <2>1. k \in 0 .. n /\ k # 0
      BY <1>1
    <2>2. f[k] = IF k = 0 THEN <<>>
                 ELSE IF k \in places THEN Append(f[k - 1], ts[k].net) ELSE f[k - 1]
      BY <1>2, <2>1, NetsValue
    <2> QED
      BY <2>1, <2>2, Zenon
  <1>5. <<>> \in T /\ \A s \in T : \A x \in Int : Append(s, x) \in T
    OBVIOUS
  <1> HIDE DEF T
  <1>6. 0 \in S
    BY <1>1, <1>3, <1>5
  <1>7. ASSUME NEW k \in 0 .. n, k < n, k \in S PROVE k + 1 \in S
    <2>1. k + 1 \in 0 .. n /\ k + 1 \in 1 .. n /\ k + 1 - 1 = k
      BY <1>1, <1>7
    <2>2. ts[k + 1].net \in Int
      BY <2>1, TradeFacts
    <2>3. f[k + 1] = IF k + 1 \in places THEN Append(f[k], ts[k + 1].net) ELSE f[k]
      BY <1>4, <2>1
    <2>4. f[k] \in T
      BY <1>7
    <2>5. f[k + 1] \in T
      BY <1>5, <2>2, <2>3, <2>4
    <2> QED
      BY <2>1, <2>5
  <1> HIDE DEF S
  <1>8. \A k \in 0 .. n : k \in S
    BY <1>1, <1>6, <1>7, UpTo
  <1>9. \A k \in 0 .. n : f[k] \in T
    BY <1>8 DEF S
  <1> QED
    BY <1>3, <1>4, <1>9 DEF f, T

LEMMA NetsType ==
    ASSUME NEW ts \in Seq(Trade), NEW places
    PROVE  Nets(ts, places) \in Seq(Int)
  BY NetsRecursion, NetsAreLast

(***************************************************************************)
(* When whatever follows a trade left out is left out too, the results of  *)
(* those in and then of those left out are the results of all.             *)
(***************************************************************************)
LEMMA NetsSplit ==
    ASSUME NEW ts \in Seq(Trade), NEW early \in SUBSET Places(ts),
           \A j, k \in Places(ts) : j <= k /\ k \in early => j \in early
    PROVE  Nets(ts, Places(ts)) = Nets(ts, early) \o Nets(ts, Places(ts) \ early)
  <1> DEFINE n == Len(ts)
             all == NetsUpTo(ts, Places(ts))
             before == NetsUpTo(ts, early)
             rest == NetsUpTo(ts, Places(ts) \ early)
             S == {k \in 0 .. n : /\ all[k] = before[k] \o rest[k]
                                  /\ rest[k] # <<>> => \E j \in 1 .. k : j \notin early}
  <1>1. n \in Nat /\ Places(ts) = 1 .. n
    BY DEF Places
  <1>2. /\ all[0] = <<>> /\ before[0] = <<>> /\ rest[0] = <<>>
        /\ \A k \in 0 .. n : /\ all[k] \in Seq(Int) /\ before[k] \in Seq(Int)
                             /\ rest[k] \in Seq(Int)
    BY NetsRecursion
  <1>3. \A k \in 1 .. n :
           /\ all[k] = IF k \in Places(ts) THEN Append(all[k - 1], ts[k].net) ELSE all[k - 1]
           /\ before[k] = IF k \in early THEN Append(before[k - 1], ts[k].net) ELSE before[k - 1]
           /\ rest[k] = IF k \in Places(ts) \ early THEN Append(rest[k - 1], ts[k].net)
                        ELSE rest[k - 1]
    BY NetsRecursion
  <1> HIDE DEF all, before, rest
  <1> DEFINE T == Seq(Int)
             none == <<>>
             With(x, net) == Append(x, net)
             Both(x, y) == x \o y
  <1>4. /\ none \in T
        /\ \A x \in T : Both(x, none) = x
        /\ \A x, y \in T : \A net \in Int :
              With(Both(x, y), net) = Both(x, With(y, net)) /\ With(y, net) \in T
    <2>1. none \in T
      OBVIOUS
    <2>2. \A x \in T : Both(x, none) = x
      BY NothingAfter
    <2>3. ASSUME NEW x \in T, NEW y \in T, NEW net \in Int
          PROVE  With(Both(x, y), net) = Both(x, With(y, net)) /\ With(y, net) \in T
      BY OneMoreAfter
    <2> QED
      BY <2>1, <2>2, <2>3
  <1>5. /\ all[0] = none /\ before[0] = none /\ rest[0] = none
        /\ \A k \in 0 .. n : all[k] \in T /\ before[k] \in T /\ rest[k] \in T
    BY <1>2
  <1>6. S = {k \in 0 .. n : /\ all[k] = Both(before[k], rest[k])
                            /\ rest[k] # none => \E j \in 1 .. k : j \notin early}
    OBVIOUS
  <1>7. ASSUME NEW k \in 0 .. n, k < n, NEW net, net = ts[k + 1].net
        PROVE  /\ k + 1 \in 0 .. n /\ net \in Int
               /\ all[k + 1] = With(all[k], net)
               /\ before[k + 1] = IF k + 1 \in early THEN With(before[k], net) ELSE before[k]
               /\ rest[k + 1] = IF k + 1 \in early THEN rest[k] ELSE With(rest[k], net)
    <2>1. k + 1 \in 0 .. n /\ k + 1 \in Places(ts) /\ k + 1 \in 1 .. n /\ k + 1 - 1 = k
          /\ net \in Int
      BY <1>1, <1>7, TradeFacts
    <2>2. /\ all[k + 1] = IF k + 1 \in Places(ts) THEN Append(all[k], net) ELSE all[k]
          /\ before[k + 1] = IF k + 1 \in early THEN Append(before[k], net) ELSE before[k]
          /\ rest[k + 1] = IF k + 1 \in Places(ts) \ early THEN Append(rest[k], net)
                           ELSE rest[k]
      <3> DEFINE j == k + 1
      <3>1. j \in 1 .. n /\ j - 1 = k /\ net = ts[j].net
        BY <1>7, <2>1
      <3> HIDE DEF j
      <3>2. /\ all[j] = IF j \in Places(ts) THEN Append(all[k], net) ELSE all[k]
            /\ before[j] = IF j \in early THEN Append(before[k], net) ELSE before[k]
            /\ rest[j] = IF j \in Places(ts) \ early THEN Append(rest[k], net) ELSE rest[k]
        BY <1>3, <3>1
      <3> QED
        BY <3>2 DEF j
    <2>3. k + 1 \in Places(ts) \ early <=> k + 1 \notin early
      BY <2>1
    <2> QED
      BY <2>1, <2>2, <2>3, Zenon
  <1> HIDE DEF T, none, With, Both, S
  <1>8. 0 \in S
    BY <1>1, <1>4, <1>5, <1>6
  <1>9. ASSUME NEW k \in 0 .. n, k < n, k \in S PROVE k + 1 \in S
    <2> DEFINE net == ts[k + 1].net
    <2>1. /\ k + 1 \in 0 .. n /\ net \in Int
          /\ all[k + 1] = With(all[k], net)
          /\ before[k + 1] = IF k + 1 \in early THEN With(before[k], net) ELSE before[k]
          /\ rest[k + 1] = IF k + 1 \in early THEN rest[k] ELSE With(rest[k], net)
      BY <1>7, <1>9
    <2>2. /\ before[k] \in T /\ rest[k] \in T /\ all[k] = Both(before[k], rest[k])
          /\ rest[k] # none => \E j \in 1 .. k : j \notin early
      BY <1>5, <1>6, <1>9
    <2> HIDE DEF net
    <2>3. CASE k + 1 \in early
      <3>1. rest[k] = none
        <4>1. \A j \in 1 .. k : j \in early
          BY <1>1, <2>1, <2>3
        <4> QED
          BY <2>2, <4>1
      <3>2. all[k + 1] = Both(before[k + 1], rest[k + 1]) /\ rest[k + 1] = none
        BY <1>4, <2>1, <2>2, <2>3, <3>1
      <3> QED
        BY <1>6, <2>1, <3>2
    <2>4. CASE k + 1 \notin early
      <3>1. all[k + 1] = Both(before[k + 1], rest[k + 1])
        <4>1. With(Both(before[k], rest[k]), net) = Both(before[k], With(rest[k], net))
          BY <1>4, <2>1, <2>2
        <4> QED
          BY <2>1, <2>2, <2>4, <4>1
      <3>2. k + 1 \in 1 .. k + 1
        BY <1>1
      <3> QED
        BY <1>6, <2>1, <2>4, <3>1, <3>2
    <2> QED
      BY <2>3, <2>4
  <1>10. \A k \in 0 .. n : k \in S
    BY <1>1, <1>8, <1>9, UpTo
  <1>11. all[n] = Both(before[n], rest[n])
    BY <1>1, <1>6, <1>10
  <1> QED
    BY <1>11, NetsAreLast DEF all, before, rest, Both

-----------------------------------------------------------------------------
\* The trades of a run are booked in chronological order.

LEMMA DaysGrow ==
    ASSUME NEW i \in 1 .. Len(Days), NEW j \in 1 .. Len(Days), i <= j
    PROVE  Days[i] <= Days[j]
  <1> DEFINE n == Len(Days)
             S == {k \in 0 .. n : \A m \in 1 .. k : Days[m] <= Days[k]}
  <1>1. n \in Nat /\ \A k \in 1 .. n : Days[k] \in Nat
    BY Parameters
  <1>2. 0 \in S
    BY <1>1
  <1>3. ASSUME NEW k \in 0 .. n, k < n, k \in S PROVE k + 1 \in S
    <2>1. k + 1 \in 1 .. n
      BY <1>1, <1>3
    <2>2. ASSUME NEW m \in 1 .. k + 1 PROVE Days[m] <= Days[k + 1]
      <3>1. CASE m = k + 1
        BY <1>1, <2>1, <3>1
      <3>2. CASE m # k + 1
        <4>1. m \in 1 .. k /\ k \in 1 .. Len(Days) - 1
          BY <1>1, <1>3, <3>2
        <4>2. Days[m] <= Days[k] /\ Days[k] <= Days[k + 1]
          BY <1>3, <4>1, BacktestAssumption
        <4>3. Days[m] \in Nat /\ Days[k] \in Nat /\ Days[k + 1] \in Nat
          BY <1>1, <2>1, <4>1
        <4> QED
          BY <4>2, <4>3
      <3> QED
        BY <3>1, <3>2
    <2> QED
      BY <2>1, <2>2
  <1> HIDE DEF S
  <1>4. \A k \in 0 .. n : k \in S
    BY <1>1, <1>2, <1>3, UpTo
  <1>5. j \in S /\ i \in 1 .. j
    BY <1>1, <1>4
  <1> QED
    BY <1>5 DEF S

LEMMA TradesSplit ==
    ASSUME NEW ts, NEW s, TradesInOrder(ts, s)
    PROVE  /\ Nets(ts, Places(ts)) \in Seq(Int)
           /\ Nets(ts, InSample(ts)) \in Seq(Int)
           /\ Nets(ts, Places(ts) \ InSample(ts)) \in Seq(Int)
           /\ Nets(ts, Places(ts))
                = Nets(ts, InSample(ts)) \o Nets(ts, Places(ts) \ InSample(ts))
  <1>1. ts \in Seq(Trade)
    BY DEF TradesInOrder
  <1>2. InSample(ts) \in SUBSET Places(ts)
    BY DEF InSample
  <1>3. ASSUME NEW j \in Places(ts), NEW k \in Places(ts), j <= k, k \in InSample(ts)
        PROVE  j \in InSample(ts)
    <2>1. ts[j] \in Trade /\ ts[k] \in Trade
      BY <1>1 DEF Places
    <2>2. ts[j].exited <= ts[k].exited
      BY <1>3 DEF TradesInOrder, Places
    <2>3. Days[ts[j].exited] <= Days[ts[k].exited]
      BY <2>1, <2>2, TradeFacts, DaysGrow
    <2>4. Days[ts[j].exited] \in Nat /\ Days[ts[k].exited] \in Nat /\ Split \in Nat
      BY <2>1, TradeFacts, AnalyticsAssumption
    <2> QED
      BY <1>3, <2>3, <2>4 DEF InSample, BookedOn
  <1> QED
    BY <1>1, <1>2, <1>3, NetsSplit, NetsType

-----------------------------------------------------------------------------
\* The samples, step by step.

LEMMA ObserveKeepsSamples ==
    ASSUME SamplesInv, NEW t \in Observations, Observe(t)
    PROVE  SamplesInv'
  <1> DEFINE net == t.gross_pnl - t.cost
  <1>1. t.timestamp \in Nat /\ net \in Int /\ Split \in Nat
    <2>1. t.timestamp \in Times /\ t.gross_pnl \in Gross /\ t.cost \in Costs
      BY DEF Observations
    <2>2. Times \subseteq Nat /\ Gross \subseteq Int /\ Costs \subseteq Nat /\ Split \in Nat
      BY AnalyticsAssumption
    <2>3. t.timestamp \in Nat
      BY <2>1, <2>2
    <2>4. t.gross_pnl \in Int
      BY <2>1, <2>2
    <2>5. t.cost \in Nat
      BY <2>1, <2>2
    <2> QED
      BY <2>2, <2>3, <2>4, <2>5
  <1>2. /\ observations \in Seq(Observations) /\ Len(observations) < MaxTrades
        /\ observations' = Append(observations, t)
        /\ curve \in Seq(Int) /\ in_sample \in Seq(Int) /\ out_of_sample \in Seq(Int)
        /\ curve = in_sample \o out_of_sample
        /\ curve' = Append(curve, net) /\ answer = "NONE" /\ answer' = answer
    BY DEF Observe, SamplesInv, AnalyticsTypeOK
  <1>3. observations' \in Seq(Observations) /\ Len(observations') <= MaxTrades
    BY <1>2, AnalyticsAssumption
  <1>4. observations' # <<>> /\ Last(observations') = t
    <2>1. /\ observations' # <<>> /\ Len(observations') = Len(observations) + 1
          /\ observations'[Len(observations) + 1] = t
      BY <1>2, AppendProperties
    <2> QED
      BY <2>1 DEF Last
  <1> HIDE DEF net
  <1>5. CASE t.timestamp >= Split
    <2>1. out_of_sample' = Append(out_of_sample, net) /\ in_sample' = in_sample
      BY <1>5 DEF Observe, net
    <2>2. curve' = in_sample' \o out_of_sample'
      BY <1>1, <1>2, <2>1, OneMoreAfter
    <2>3. curve' \in Seq(Int) /\ in_sample' \in Seq(Int) /\ out_of_sample' \in Seq(Int)
      BY <1>1, <1>2, <2>1
    <2> QED
      BY <1>2, <1>3, <1>4, <1>5, <2>2, <2>3 DEF SamplesInv, AnalyticsTypeOK
  <1>6. CASE ~(t.timestamp >= Split)
    <2>1. in_sample' = Append(in_sample, net) /\ out_of_sample' = out_of_sample
      BY <1>6 DEF Observe, net
    <2>2. out_of_sample = <<>>
      <3> SUFFICES ASSUME out_of_sample # <<>> PROVE FALSE
        OBVIOUS
      <3>1. observations # <<>> /\ Last(observations).timestamp >= Split
        BY <1>2 DEF SamplesInv
      <3>2. Last(observations).timestamp <= t.timestamp
        BY <3>1 DEF Observe, Chronological
      <3>3. Last(observations).timestamp \in Nat
        <4>1. Last(observations) \in Observations
          BY <1>2, <3>1 DEF Last
        <4> QED
          BY <4>1, AnalyticsAssumption DEF Observations
      <3> QED
        BY <1>1, <1>6, <3>1, <3>2, <3>3
    <2>3. curve' \in Seq(Int) /\ in_sample' \in Seq(Int) /\ out_of_sample' \in Seq(Int)
      BY <1>1, <1>2, <2>1
    <2>4. curve' = in_sample' \o out_of_sample'
      <3>1. curve = in_sample
        BY <1>2, <2>2, NothingAfter
      <3>2. in_sample' \o <<>> = in_sample'
        BY <2>3, NothingAfter
      <3> QED
        BY <1>2, <2>1, <2>2, <3>1, <3>2
    <2> QED
      BY <1>2, <1>3, <2>1, <2>2, <2>3, <2>4 DEF SamplesInv, AnalyticsTypeOK
  <1> QED
    BY <1>5, <1>6

LEMMA InitSamples == Init => SamplesInv
  <1> SUFFICES ASSUME Init PROVE SamplesInv
    OBVIOUS
  <1>1. /\ observations = <<>> /\ in_sample = <<>> /\ out_of_sample = <<>> /\ curve = <<>>
        /\ answer = "NONE"
    BY DEF Init, AnalyticsInit
  <1>2. <<>> \o <<>> = <<>> /\ Len(<<>>) = 0
    BY NothingAfter
  <1> QED
    BY <1>1, <1>2, AnalyticsAssumption DEF SamplesInv, AnalyticsTypeOK

LEMMA NextSamples == BookInv /\ SamplesInv /\ [Next]_vars => SamplesInv'
  <1> SUFFICES ASSUME BookInv, SamplesInv, [Next]_vars PROVE SamplesInv'
    OBVIOUS
  <1>1. CASE UNCHANGED analyticsVars
    BY <1>1 DEF analyticsVars, reportVars, SamplesInv, AnalyticsTypeOK
  <1>2. CASE Finish
    <2>1. /\ observations' = observations /\ answer' = "SUMMARIZED"
          /\ curve' = Nets(trades', Places(trades'))
          /\ in_sample' = Nets(trades', InSample(trades'))
          /\ out_of_sample' = Nets(trades', Places(trades') \ InSample(trades'))
      BY <1>2 DEF Finish
    <2>2. TradesInOrder(trades', bars')
      <3>1. BookInv'
        BY <1>2, FinishInOrder
      <3>2. Book'.trades = trades'
        BY DEF Book
      <3> QED
        BY <3>1, <3>2 DEF BookInv, InOrder
    <2>3. /\ curve' \in Seq(Int) /\ in_sample' \in Seq(Int) /\ out_of_sample' \in Seq(Int)
          /\ curve' = in_sample' \o out_of_sample'
      BY <2>1, <2>2, TradesSplit
    <2> QED
      BY <2>1, <2>3 DEF SamplesInv, AnalyticsTypeOK
  <1>3. CASE ObservationsNext
    <2>1. CASE \E t \in Observations : Observe(t)
      BY <2>1, ObserveKeepsSamples
    <2>2. CASE Refuse \/ Summarize
      <3>1. /\ observations' = observations /\ reportVars' = reportVars
            /\ answer' \in {"REFUSED", "SUMMARIZED"}
        BY <2>2 DEF Refuse, Summarize, reportVars
      <3> QED
        BY <3>1 DEF reportVars, SamplesInv, AnalyticsTypeOK
    <2> QED
      BY <1>3, <2>1, <2>2 DEF ObservationsNext
  <1>4. (\E b \in Candles : Pass(b) \/ Act(b)) => UNCHANGED analyticsVars
    BY DEF Pass, Act, Arrives
  <1> QED
    BY <1>1, <1>2, <1>3, <1>4 DEF Next, vars

(***************************************************************************)
(* The sample before the split and the one from it are, one after the      *)
(* other, all results in the order in which they came: for the trades of   *)
(* every backtest and for every list of observations.                      *)
(***************************************************************************)
THEOREM SamplesSplitTheCurve == Spec => []SamplesAreConsecutive
  <1>1. SamplesInv => SamplesAreConsecutive
    BY DEF SamplesInv, SamplesAreConsecutive
  <1> QED
    BY <1>1, InitInOrder, NextInOrder, InitSamples, NextSamples, PTL DEF Spec

-----------------------------------------------------------------------------
StopsOK == suspended \in BOOLEAN /\ daily_stop \in Nat \cup {-1}

LEMMA NextStops == BookInv /\ StopsOK /\ [Next]_vars => StopsOK'
  <1> SUFFICES ASSUME BookInv, StopsOK, [Next]_vars PROVE StopsOK'
    OBVIOUS
  <1>1. CASE UNCHANGED <<suspended, daily_stop>>
    BY <1>1 DEF StopsOK
  <1>2. ASSUME NEW b \in Candles, Act(b) PROVE StopsOK'
    <2> DEFINE i == Len(bars')
               book == BookAfter(b)
               base == Lesser(book.equity, Profile)
    <2>1. i \in 1 .. Len(Days)
      BY <1>2, ArrivesFacts DEF Act
    <2>2. Days[i] \in Nat
      BY <2>1, Parameters
    <2>3. /\ suspended' = (suspended \/ 100 * WeeklyLoss(book.trades, Days[i]) >= 4 * base)
          /\ daily_stop' = IF 100 * DailyLoss(book.trades, Days[i]) >= 2 * base
                           THEN Days[i] ELSE daily_stop
      BY <1>2, Zenon DEF Act
    <2> HIDE DEF i, book, base
    <2> QED
      BY <2>2, <2>3 DEF StopsOK
  <1>3. (\E b \in Candles : Pass(b)) \/ Finish \/ UNCHANGED candleVars
          => UNCHANGED <<suspended, daily_stop>>
    BY DEF Pass, Finish, candleVars
  <1> QED
    BY <1>1, <1>2, <1>3 DEF Next, vars

(***************************************************************************)
(* The parts of a run have their types: positions are sound, no trade ends *)
(* before it began, or after the last candle.                              *)
(***************************************************************************)
THEOREM BacktestTypes == Spec => []TypeOK
  <1>1. BookInv /\ SamplesInv /\ StopsOK => TypeOK
    <2> SUFFICES ASSUME BookInv, SamplesInv, StopsOK PROVE TypeOK
      OBVIOUS
    <2>1. position \in Position \cup {Flat} /\ equity \in Int
      BY BookParts DEF PositionInOrder
    <2>2. ASSUME NEW k \in 1 .. Len(trades)
          PROVE  /\ trades[k].position \in Position
                 /\ trades[k].exit \in Nat /\ trades[k].net \in Int
                 /\ trades[k].why \in Whys
                 /\ trades[k].exited \in trades[k].position.entered .. Len(bars)
      <3>1. trades[k] \in Trade /\ TradeInOrder(trades, k, bars)
        BY BookParts DEF TradesInOrder
      <3> QED
        BY <3>1, TradeFacts DEF TradeInOrder
    <2> QED
      BY <2>1, <2>2 DEF TypeOK, BookInv, CandlesOK, SamplesInv, StopsOK
  <1>2. Init => StopsOK
    BY DEF Init, StopsOK
  <1> QED
    BY <1>1, <1>2, InitInOrder, NextInOrder, InitSamples, NextSamples, NextStops, PTL DEF Spec

-----------------------------------------------------------------------------
(***************************************************************************)
(* The drawdown.  Shares are compared as fractions with positive           *)
(* denominators; the fall from the peak is the largest to where equity is, *)
(* whenever equity is not negative.                                        *)
(***************************************************************************)
Share == [num : Int, den : Nat \ {0}]

LEMMA ProductsAgree ==
    ASSUME NEW a \in Int, NEW b \in Int, NEW c \in Int
    PROVE  /\ (a * b) * c = (a * c) * b
           /\ a * b \in Int
  OBVIOUS

LEMMA ShareOrder ==
    ASSUME NEW x \in Share, NEW y \in Share, NEW z \in Share
    PROVE  /\ AtLeast(x, x)
           /\ AtLeast(x, y) \/ AtLeast(y, x)
           /\ AtLeast(x, y) /\ AtLeast(y, z) => AtLeast(x, z)
  <1> DEFINE xn == x.num  xd == x.den  yn == y.num  yd == y.den  zn == z.num  zd == z.den
  <1>1. /\ xn \in Int /\ yn \in Int /\ zn \in Int
        /\ xd \in Nat \ {0} /\ yd \in Nat \ {0} /\ zd \in Nat \ {0}
    BY DEF Share
  <1>2. /\ AtLeast(x, x) <=> xn * xd >= xn * xd
        /\ AtLeast(x, y) <=> xn * yd >= yn * xd
        /\ AtLeast(y, x) <=> yn * xd >= xn * yd
        /\ AtLeast(y, z) <=> yn * zd >= zn * yd
        /\ AtLeast(x, z) <=> xn * zd >= zn * xd
    BY DEF AtLeast
  <1> HIDE DEF xn, xd, yn, yd, zn, zd
  <1>3. ASSUME xn * yd >= yn * xd, yn * zd >= zn * yd PROVE xn * zd >= zn * xd
    <2>1. (yn * xd) * zd <= (xn * yd) * zd
      BY <1>1, <1>3, ProductsAgree, ProductMonotone
    <2>2. (zn * yd) * xd <= (yn * zd) * xd
      BY <1>1, <1>3, ProductsAgree, ProductMonotone
    <2>3. /\ (yn * xd) * zd = (yn * zd) * xd
          /\ (xn * yd) * zd = (xn * zd) * yd
          /\ (zn * yd) * xd = (zn * xd) * yd
      BY <1>1, ProductsAgree
    <2>4. /\ xn * zd \in Int /\ zn * xd \in Int /\ yn * zd \in Int
          /\ (xn * zd) * yd \in Int /\ (zn * xd) * yd \in Int /\ (yn * zd) * xd \in Int
      BY <1>1
    <2>5. (zn * xd) * yd <= (xn * zd) * yd
      BY <2>1, <2>2, <2>3, <2>4
    <2>6. zn * xd <= xn * zd
      BY <1>1, <2>4, <2>5, ProductStrict
    <2> QED
      BY <2>4, <2>6
  <1>4. xn * xd \in Int /\ xn * yd \in Int /\ yn * xd \in Int
    BY <1>1
  <1> QED
    BY <1>2, <1>3, <1>4

LEMMA LargerIsLarger ==
    ASSUME NEW x \in Share, NEW y \in Share
    PROVE  /\ Larger(x, y) = x \/ Larger(x, y) = y
           /\ Larger(x, y) \in Share
           /\ AtLeast(Larger(x, y), x) /\ AtLeast(Larger(x, y), y)
  BY ShareOrder DEF Larger

\* From a peak equity falls by at least the share it falls by from any lower point.
LEMMA FallFromPeak ==
    ASSUME NEW peak \in Nat \ {0}, NEW from \in Int, from > 0, from <= peak,
           NEW to \in Int, to >= 0
    PROVE  AtLeast([num |-> peak - to, den |-> peak], [num |-> from - to, den |-> from])
  <1>1. to \in Nat /\ from \in Nat
    OBVIOUS
  <1>2. from * to <= peak * to
    BY <1>1, ProductMonotone
  <1>3. (peak - to) * from = peak * from - from * to
    BY <1>1
  <1>4. (from - to) * peak = peak * from - peak * to
    BY <1>1
  <1>5. from * to \in Int /\ peak * to \in Int /\ peak * from \in Int
    BY <1>1
  <1>6. (peak - to) * from >= (from - to) * peak
    BY <1>2, <1>3, <1>4, <1>5
  <1> QED
    BY <1>6 DEF AtLeast

-----------------------------------------------------------------------------
\* What summarize has computed after k results.

Counts == [equity : Int, peak : Nat \ {0}, max_drawdown : Share]

IsSummary(g, pnls) ==
    g = [k \in 0 .. Len(pnls) |-> IF k = 0 THEN Start ELSE Added(g[k - 1], pnls[k])]

SummaryUpTo(pnls) == CHOOSE g : IsSummary(g, pnls)

LEMMA SummaryIsLast ==
    ASSUME NEW pnls
    PROVE  Summary(pnls) = SummaryUpTo(pnls)[Len(pnls)]
  BY DEF Summary, SummaryUpTo, IsSummary

LEMMA SummaryValue ==
    ASSUME NEW pnls, NEW g, IsSummary(g, pnls), NEW k \in 0 .. Len(pnls)
    PROVE  g[k] = IF k = 0 THEN Start ELSE Added(g[k - 1], pnls[k])
  BY Zenon DEF IsSummary

LEMMA StartType ==
    /\ Start \in Counts /\ Start.equity = Profile /\ Start.peak = Profile
    /\ Start.max_drawdown = [num |-> 0, den |-> 1]
  BY Parameters DEF Start, Counts, Share

LEMMA AddedFacts ==
    ASSUME NEW s \in Counts, NEW pnl \in Int
    PROVE  LET equity_after == s.equity + pnl
               after == Added(s, pnl)
               new == [num |-> after.peak - equity_after, den |-> after.peak]
           IN  /\ after \in Counts
               /\ after.equity = equity_after
               /\ after.peak = IF equity_after > s.peak THEN equity_after ELSE s.peak
               /\ new \in Share
               /\ after.max_drawdown = Larger(s.max_drawdown, new)
  <1> DEFINE e == s.equity + pnl
             peak == IF e > s.peak THEN e ELSE s.peak
             new == [num |-> peak - e, den |-> peak]
             drawdown == Larger(s.max_drawdown, new)
             after == Added(s, pnl)
  <1>1. s.equity \in Int /\ s.peak \in Nat \ {0} /\ s.max_drawdown \in Share
    BY DEF Counts
  <1>2. e \in Int
    BY <1>1
  <1> HIDE DEF e
  <1>3. peak \in Nat \ {0}
    BY <1>1, <1>2
  <1>4. after = [equity |-> e, peak |-> peak, max_drawdown |-> drawdown]
    BY DEF Added, e
  <1> HIDE DEF peak
  <1>5. new \in Share
    BY <1>2, <1>3 DEF Share
  <1>6. drawdown \in Share
    BY <1>1, <1>5, LargerIsLarger
  <1>7. after.equity = e /\ after.peak = peak /\ after.max_drawdown = drawdown
    BY <1>4
  <1> HIDE DEF drawdown
  <1>8. after \in Counts
    BY <1>2, <1>3, <1>4, <1>6 DEF Counts
  <1> QED
    BY <1>5, <1>7, <1>8 DEF e, peak, drawdown

AreResults(pnls) == Len(pnls) \in Nat /\ \A k \in 1 .. Len(pnls) : pnls[k] \in Int

LEMMA SummaryExists ==
    ASSUME NEW pnls, AreResults(pnls)
    PROVE  IsSummary(SummaryUpTo(pnls), pnls)
  <1> DEFINE n == Len(pnls)
             T == Counts
             start == Start
             With(k, s) == Added(s, pnls[k])
             step == [k \in 1 .. n |-> [s \in T |-> With(k, s)]]
  <1>1. start \in T
    BY StartType
  <1>2. ASSUME NEW k \in 1 .. n, NEW s \in T PROVE With(k, s) \in T
    BY AddedFacts DEF AreResults
  <1>0. n \in Nat
    BY DEF AreResults
  <1> HIDE DEF n, T, start, With
  <1>3. step \in [1 .. n -> [T -> T]]
    BY <1>2
  <1>4. ASSUME NEW k \in 1 .. n, NEW s \in T PROVE step[k][s] = With(k, s)
    OBVIOUS
  <1> HIDE DEF step
  <1>5. CanIterate(step, start, T, n)
    BY <1>0, <1>1, <1>3 DEF CanIterate
  <1>6. PICK g : IsIteration(g, step, start, T, n)
    BY <1>5, IterationExists
  <1>7. /\ g \in [0 .. n -> T] /\ g[0] = start
        /\ \A k \in 1 .. n : g[k] = step[k][g[k - 1]]
    BY <1>6 DEF IsIteration
  <1> DEFINE h == [k \in 0 .. n |-> IF k = 0 THEN start ELSE With(k, g[k - 1])]
  <1>8. ASSUME NEW k \in 0 .. n PROVE g[k] = h[k]
    <2>1. CASE k = 0
      BY <1>7, <2>1
    <2>2. CASE k # 0
      <3>1. k \in 1 .. n /\ k - 1 \in 0 .. n
        BY <1>0, <2>2
      <3>2. g[k - 1] \in T
        BY <1>7, <3>1
      <3> QED
        BY <1>4, <1>7, <2>2, <3>1, <3>2
    <2> QED
      BY <2>1, <2>2
  <1>9. g = h
    <2>1. g = [k \in 0 .. n |-> g[k]]
      BY <1>7
    <2> QED
      BY <1>8, <2>1
  <1>10. IsSummary(g, pnls)
    BY <1>9, Zenon DEF IsSummary, n, start, With
  <1> QED
    BY <1>10 DEF SummaryUpTo

-----------------------------------------------------------------------------
\* Equity after k results.

EquityOf(pnls, k) == Profile + SumFunction([j \in 1 .. k |-> pnls[j]])

\* A function that extends another by one number adds that number to its sum.
OneLonger(g, f, S, e) ==
    /\ IsFiniteSet(S) /\ e \notin S
    /\ f \in [S -> Int] /\ g \in [S \cup {e} -> Int] /\ \A x \in S : g[x] = f[x]

LEMMA OneMoreResult ==
    ASSUME NEW g, NEW f, NEW S, NEW e, OneLonger(g, f, S, e)
    PROVE  SumFunction(g) = g[e] + SumFunction(f)
  BY WholeSumAdd DEF OneLonger

LEMMA EquityGrows ==
    ASSUME NEW pnls \in Seq(Int), NEW k \in 0 .. Len(pnls)
    PROVE  /\ EquityOf(pnls, k) \in Int
           /\ k = 0 => EquityOf(pnls, k) = Profile
           /\ k < Len(pnls) => EquityOf(pnls, k + 1) = EquityOf(pnls, k) + pnls[k + 1]
  <1> DEFINE f == [j \in 1 .. k |-> pnls[j]]
             g == [j \in 1 .. k + 1 |-> pnls[j]]
  <1>1. k \in Int /\ k + 1 \in Int /\ 1 \in Int /\ Len(pnls) \in Nat
    OBVIOUS
  <1>2. IsFiniteSet(1 .. k)
    BY <1>1, FS_Interval
  <1>3. f \in [1 .. k -> Int]
    <2>1. ASSUME NEW j \in 1 .. k PROVE pnls[j] \in Int
      OBVIOUS
    <2> QED
      BY <2>1
  <1>4. SumFunction(f) \in Int
    <2>1. SumFunctionOnSet(f, 1 .. k) \in Int
      BY <1>2, <1>3, SumType
    <2> QED
      BY <1>3, <2>1 DEF SumFunction
  <1>5. k = 0 => SumFunction(f) = 0
    <2>1. k = 0 => DOMAIN f = {}
      OBVIOUS
    <2> HIDE DEF f
    <2> QED
      BY <2>1, WholeSumEmpty
  <1>6. k < Len(pnls) => SumFunction(g) = pnls[k + 1] + SumFunction(f)
    <2> SUFFICES ASSUME k < Len(pnls) PROVE SumFunction(g) = pnls[k + 1] + SumFunction(f)
      OBVIOUS
    <2>1. ASSUME NEW j \in 1 .. k + 1 PROVE pnls[j] \in Int
      BY <1>1
    <2>2. g \in [1 .. k + 1 -> Int] /\ g[k + 1] = pnls[k + 1] /\ k \in Nat
      BY <1>1, <2>1
    <2>3. \A x \in 1 .. k : g[x] = f[x]
      BY <1>1
    <2> DEFINE S == 1 .. k
               e == k + 1
    <2>4. 1 .. k + 1 = S \cup {e} /\ e \notin S
      BY <1>1, <2>2
    <2> HIDE DEF f, g
    <2>5. OneLonger(g, f, S, e)
      BY <1>2, <1>3, <2>2, <2>3, <2>4 DEF OneLonger
    <2> HIDE DEF S, e
    <2>6. SumFunction(g) = g[e] + SumFunction(f)
      BY <2>5, OneMoreResult
    <2> QED
      BY <2>2, <2>6 DEF e
  <1>7. Profile \in Nat /\ (k < Len(pnls) => pnls[k + 1] \in Int)
    BY <1>1, Parameters
  <1>8. EquityOf(pnls, k) = Profile + SumFunction(f)
        /\ EquityOf(pnls, k + 1) = Profile + SumFunction(g)
    BY DEF EquityOf
  <1> HIDE DEF f, g
  <1> QED
    BY <1>4, <1>5, <1>6, <1>7, <1>8
-----------------------------------------------------------------------------
(***************************************************************************)
(* What summarize has measured after k results, of equities E: the highest *)
(* point, and the largest share by which equity fell from a point.         *)
(***************************************************************************)
FallOf(E, i, j) == [num |-> E[i] - E[j], den |-> E[i]]

Peaks(s, E, k) ==
    (\A i \in 0 .. k : E[i] <= s.peak) /\ (\E i \in 0 .. k : E[i] = s.peak)

NoneLarger(s, E, k) ==
    \A i \in 0 .. k : \A j \in i .. k :
        E[i] > 0 /\ E[j] >= 0 => AtLeast(s.max_drawdown, FallOf(E, i, j))

Reached(s, E, k) ==
    \E i \in 0 .. k : \E j \in i .. k :
        E[i] > 0 /\ AtLeast(FallOf(E, i, j), s.max_drawdown)

Measures(s, E, k) ==
    s \in Counts /\ s.equity = E[k] /\ Peaks(s, E, k) /\ NoneLarger(s, E, k) /\ Reached(s, E, k)

LEMMA FallType ==
    ASSUME NEW E, NEW i, NEW j, E[i] \in Int, E[j] \in Int, E[i] > 0
    PROVE  FallOf(E, i, j) \in Share
  <1>1. E[i] - E[j] \in Int /\ E[i] \in Nat \ {0}
    OBVIOUS
  <1> QED
    BY <1>1 DEF FallOf, Share

LEMMA StartMeasures ==
    ASSUME NEW E, E[0] = Profile
    PROVE  Measures(Start, E, 0)
  <1>1. Profile \in Nat \ {0} /\ 0 .. 0 = {0}
    BY Parameters
  <1>2. FallOf(E, 0, 0) = [num |-> 0, den |-> Profile]
    BY <1>1 DEF FallOf
  <1>3. /\ AtLeast([num |-> 0, den |-> 1], [num |-> 0, den |-> Profile])
        /\ AtLeast([num |-> 0, den |-> Profile], [num |-> 0, den |-> 1])
    BY <1>1 DEF AtLeast
  <1>4. Peaks(Start, E, 0)
    BY <1>1, StartType DEF Peaks
  <1>5. NoneLarger(Start, E, 0)
    BY <1>1, <1>2, <1>3, StartType DEF NoneLarger
  <1>6. Reached(Start, E, 0)
    <2>1. E[0] > 0
      BY <1>1
    <2> QED
      BY <1>1, <1>2, <1>3, <2>1, StartType DEF Reached
  <1> QED
    BY <1>4, <1>5, <1>6, StartType DEF Measures

LEMMA AddedMeasures ==
    ASSUME NEW n \in Nat, NEW E \in [0 .. n -> Int], NEW k \in 0 .. n, k < n,
           NEW s, Measures(s, E, k), NEW pnl \in Int, E[k + 1] = E[k] + pnl
    PROVE  Measures(Added(s, pnl), E, k + 1)
  <1> DEFINE a == Added(s, pnl)
             e == s.equity + pnl
             new == [num |-> a.peak - e, den |-> a.peak]
  <1>1. /\ s \in Counts /\ s.equity = E[k] /\ Peaks(s, E, k)
        /\ NoneLarger(s, E, k) /\ Reached(s, E, k)
    BY DEF Measures
  <1>2. /\ a \in Counts /\ a.equity = e /\ new \in Share
        /\ a.peak = IF e > s.peak THEN e ELSE s.peak
        /\ a.max_drawdown = Larger(s.max_drawdown, new)
    BY <1>1, AddedFacts
  <1>3. /\ s.peak \in Nat \ {0} /\ s.max_drawdown \in Share
        /\ a.peak \in Nat \ {0} /\ a.max_drawdown \in Share
    BY <1>1, <1>2 DEF Counts
  <1>4. e = E[k + 1] /\ e \in Int /\ k + 1 \in 0 .. n /\ k \in Nat
    BY <1>1
  <1>5. \A i \in 0 .. k + 1 : i \in 0 .. n /\ E[i] \in Int /\ (i \in 0 .. k \/ i = k + 1)
    BY <1>4
  <1> HIDE DEF a, e, new
  <1>6. /\ AtLeast(a.max_drawdown, s.max_drawdown) /\ AtLeast(a.max_drawdown, new)
        /\ a.max_drawdown = s.max_drawdown \/ a.max_drawdown = new
    BY <1>2, <1>3, LargerIsLarger
  <1>7. \A i \in 0 .. k + 1 : E[i] <= a.peak
    <2> SUFFICES ASSUME NEW i \in 0 .. k + 1 PROVE E[i] <= a.peak
      OBVIOUS
    <2>1. CASE i = k + 1
      BY <1>2, <1>3, <1>4, <2>1
    <2>2. CASE i \in 0 .. k
      <3>1. E[i] <= s.peak
        BY <1>1, <2>2 DEF Peaks
      <3> QED
        BY <1>2, <1>3, <1>4, <1>5, <3>1
    <2> QED
      BY <1>5, <2>1, <2>2
  <1>8. PICK p \in 0 .. k + 1 : E[p] = a.peak
    <2>1. CASE e > s.peak
      <3>1. k + 1 \in 0 .. k + 1 /\ E[k + 1] = a.peak
        BY <1>2, <1>4, <2>1
      <3> QED
        BY <3>1
    <2>2. CASE ~(e > s.peak)
      <3>1. PICK i \in 0 .. k : E[i] = s.peak
        BY <1>1 DEF Peaks
      <3>2. i \in 0 .. k + 1 /\ E[i] = a.peak
        BY <1>2, <1>4, <2>2, <3>1
      <3> QED
        BY <3>2
    <2> QED
      BY <2>1, <2>2
  <1>9. ASSUME NEW i \in 0 .. k + 1, NEW j \in i .. k + 1, E[i] > 0, E[j] >= 0
        PROVE  AtLeast(a.max_drawdown, FallOf(E, i, j))
    <2>1. i \in 0 .. k + 1 /\ j \in 0 .. k + 1
      BY <1>4
    <2>2. FallOf(E, i, j) \in Share
      BY <1>5, <1>9, <2>1, FallType
    <2>3. CASE j \in 0 .. k
      <3>1. i \in 0 .. k /\ j \in i .. k
        BY <1>4, <2>3
      <3>2. AtLeast(s.max_drawdown, FallOf(E, i, j))
        BY <1>1, <1>9, <3>1 DEF NoneLarger
      <3> QED
        BY <1>3, <1>6, <2>2, <3>2, ShareOrder
    <2>4. CASE j = k + 1
      <3>1. E[i] \in Int /\ E[i] <= a.peak /\ e >= 0 /\ E[j] = e
        BY <1>4, <1>5, <1>7, <1>9, <2>4
      <3>2. AtLeast([num |-> a.peak - e, den |-> a.peak], [num |-> E[i] - e, den |-> E[i]])
        BY <1>3, <1>4, <1>9, <3>1, FallFromPeak
      <3>3. AtLeast(new, FallOf(E, i, j))
        BY <3>1, <3>2 DEF new, FallOf
      <3> QED
        BY <1>2, <1>3, <1>6, <2>2, <3>3, ShareOrder
    <2> QED
      BY <1>5, <2>1, <2>3, <2>4
  <1>10. Reached(a, E, k + 1)
    <2>1. CASE a.max_drawdown = s.max_drawdown
      <3>1. PICK i \in 0 .. k : \E j \in i .. k :
               E[i] > 0 /\ AtLeast(FallOf(E, i, j), s.max_drawdown)
        BY <1>1, Zenon DEF Reached
      <3>2. PICK j \in i .. k : E[i] > 0 /\ AtLeast(FallOf(E, i, j), s.max_drawdown)
        BY <3>1
      <3>3. i \in 0 .. k + 1 /\ j \in i .. k + 1
        BY <1>4
      <3> QED
        BY <2>1, <3>2, <3>3, Zenon DEF Reached
    <2>2. CASE a.max_drawdown = new
      <3>1. k + 1 \in p .. k + 1 /\ E[p] > 0
        BY <1>3, <1>4, <1>8
      <3>2. FallOf(E, p, k + 1) = new
        BY <1>4, <1>8 DEF FallOf, new
      <3>3. AtLeast(new, new)
        BY <1>2, ShareOrder
      <3> QED
        BY <2>2, <3>1, <3>2, <3>3, Zenon DEF Reached
    <2> QED
      BY <1>6, <2>1, <2>2
  <1>11. Peaks(a, E, k + 1)
    BY <1>7, <1>8 DEF Peaks
  <1>12. NoneLarger(a, E, k + 1)
    BY <1>9 DEF NoneLarger
  <1> QED
    BY <1>2, <1>4, <1>10, <1>11, <1>12 DEF Measures, a

LEMMA SummaryRecursion ==
    ASSUME NEW pnls, AreResults(pnls)
    PROVE  LET g == SummaryUpTo(pnls)
           IN  g[0] = Start /\ \A k \in 1 .. Len(pnls) : g[k] = Added(g[k - 1], pnls[k])
  <1> DEFINE g == SummaryUpTo(pnls)
             n == Len(pnls)
  <1>1. n \in Nat /\ IsSummary(g, pnls)
    BY SummaryExists DEF AreResults
  <1> HIDE DEF g
  <1>2. g[0] = Start
    <2>1. 0 \in 0 .. n
      BY <1>1
    <2> QED
      BY <1>1, <2>1, SummaryValue
  <1>3. ASSUME NEW k \in 1 .. n PROVE g[k] = Added(g[k - 1], pnls[k])
    <2>1. k \in 0 .. n /\ k # 0
      BY <1>1
    <2>2. g[k] = IF k = 0 THEN Start ELSE Added(g[k - 1], pnls[k])
      BY <1>1, <2>1, SummaryValue
    <2> QED
      BY <2>1, <2>2, Zenon
  <1> QED
    BY <1>2, <1>3 DEF g

\* What summarize returns measures the equities after each of the results.
LEMMA SummaryMeasures ==
    ASSUME NEW pnls \in Seq(Int)
    PROVE  Measures(Summary(pnls), [k \in 0 .. Len(pnls) |-> EquityOf(pnls, k)], Len(pnls))
  <1> DEFINE n == Len(pnls)
             g == SummaryUpTo(pnls)
             E == [k \in 0 .. n |-> EquityOf(pnls, k)]
             S == {k \in 0 .. n : Measures(g[k], E, k)}
  <1>1. AreResults(pnls) /\ n \in Nat
    BY DEF AreResults
  <1>2. g[0] = Start /\ \A k \in 1 .. n : g[k] = Added(g[k - 1], pnls[k])
    BY <1>1, SummaryRecursion
  <1>3. E \in [0 .. n -> Int]
    BY EquityGrows
  <1>4. E[0] = Profile
    BY <1>1, EquityGrows
  <1>5. ASSUME NEW k \in 0 .. n, k < n
        PROVE  k + 1 \in 1 .. n /\ k + 1 \in 0 .. n /\ pnls[k + 1] \in Int
    BY <1>1, <1>5 DEF AreResults
  <1>6. ASSUME NEW k \in 0 .. n, k < n PROVE E[k + 1] = E[k] + pnls[k + 1]
    BY <1>5, <1>6, EquityGrows
  <1> HIDE DEF g, E
  <1>7. 0 \in S
    BY <1>1, <1>2, <1>4, StartMeasures
  <1>8. ASSUME NEW k \in 0 .. n, k < n, k \in S PROVE k + 1 \in S
    <2>1. Measures(g[k], E, k)
      BY <1>8
    <2>2. k + 1 \in 1 .. n /\ k + 1 \in 0 .. n /\ pnls[k + 1] \in Int /\ k + 1 - 1 = k
      BY <1>5, <1>8
    <2>3. E[k + 1] = E[k] + pnls[k + 1]
      BY <1>6, <1>8
    <2> HIDE DEF n
    <2>4. Measures(Added(g[k], pnls[k + 1]), E, k + 1)
      BY <1>1, <1>3, <1>8, <2>1, <2>2, <2>3, AddedMeasures
    <2>5. g[k + 1] = Added(g[k], pnls[k + 1])
      BY <1>2, <2>2
    <2> QED
      BY <2>2, <2>4, <2>5
  <1> HIDE DEF n, S
  <1>9. \A k \in 0 .. n : k \in S
    BY <1>1, <1>7, <1>8, UpTo
  <1>10. n \in S
    BY <1>1, <1>9
  <1>11. Measures(g[n], E, n)
    BY <1>10 DEF S
  <1> QED
    BY <1>11, SummaryIsLast DEF n, g, E

(***************************************************************************)
(* The drawdown that a report shows is the largest: equity never fell by a *)
(* larger share while it was not negative, and by that share it fell       *)
(* (PerformanceAnalyticsService.summarize, research.py, lines 12 to 15).   *)
(***************************************************************************)
THEOREM DrawdownsAreLargest == Spec => []DrawdownIsLargest
  <1>1. SamplesInv => DrawdownIsLargest
    <2> SUFFICES ASSUME curve \in Seq(Int) PROVE DrawdownIsLargest
      BY DEF SamplesInv, AnalyticsTypeOK
    <2> DEFINE n == Len(curve)
               E == [k \in 0 .. n |-> EquityOf(curve, k)]
               s == Summary(curve)
    <2>1. Measures(s, E, n)
      BY SummaryMeasures
    <2>2. n \in Nat
      OBVIOUS
    <2>3. \A k \in 0 .. n : E[k] = Equity(k)
      BY DEF Equity, EquityOf
    <2>4. \A i \in 0 .. n : \A j \in i .. n : j \in 0 .. n
      BY <2>2
    <2> HIDE DEF n, E, s
    <2>5. \A i \in 0 .. n : \A j \in i .. n :
             FallOf(E, i, j) = [num |-> Equity(i) - Equity(j), den |-> Equity(i)]
      BY <2>3, <2>4 DEF FallOf
    <2>6. ASSUME NEW i \in 0 .. n, NEW j \in i .. n, Equity(i) > 0, Equity(j) >= 0
          PROVE  AtLeast(s.max_drawdown, [num |-> Equity(i) - Equity(j), den |-> Equity(i)])
      <3>1. E[i] > 0 /\ E[j] >= 0
        BY <2>3, <2>4, <2>6
      <3>2. AtLeast(s.max_drawdown, FallOf(E, i, j))
        BY <2>1, <3>1 DEF Measures, NoneLarger
      <3> QED
        BY <2>5, <3>2
    <2>7. \E i \in 0 .. n : \E j \in i .. n :
             Equity(i) > 0
             /\ AtLeast([num |-> Equity(i) - Equity(j), den |-> Equity(i)], s.max_drawdown)
      <3>1. PICK i \in 0 .. n : \E j \in i .. n :
               E[i] > 0 /\ AtLeast(FallOf(E, i, j), s.max_drawdown)
        BY <2>1, Zenon DEF Measures, Reached
      <3>2. PICK j \in i .. n : E[i] > 0 /\ AtLeast(FallOf(E, i, j), s.max_drawdown)
        BY <3>1
      <3>3. Equity(i) > 0
            /\ AtLeast([num |-> Equity(i) - Equity(j), den |-> Equity(i)], s.max_drawdown)
        BY <2>3, <2>5, <3>2
      <3> QED
        BY <3>3
    <2> QED
      BY <2>6, <2>7 DEF DrawdownIsLargest, n, s
  <1> QED
    BY <1>1, InitInOrder, NextInOrder, InitSamples, NextSamples, PTL DEF Spec
=============================================================================
