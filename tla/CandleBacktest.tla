---------------------------- MODULE CandleBacktest ----------------------------
(***************************************************************************)
(* CandleBacktestingService.run of engine/research.py: one pass over the   *)
(* candles, a moving-average crossover for a signal, and the same engine   *)
(* that judges simulated trades.  One step is one candle, as one round of  *)
(* the loop is.                                                            *)
(*                                                                         *)
(* Prices are counted in money per lot, so that contract_size is 1, and    *)
(* the leverage is 1; the pair is quoted in dollars.  Candle ranges are    *)
(* multiples of the slow period, so that their mean is exact.              *)
(***************************************************************************)
EXTENDS RiskEngine, Analytics

CONSTANTS
    Fast, Slow,     \* the periods of the two averages
    Candles,        \* the shapes a candle may have
    WarmUps,        \* what the first Slow + 1 candles may be
    Days,           \* the day of every candle; its length bounds the run
    Cost,           \* spread, slippage, commission and swap of one lot
    Grid,           \* the broker's smallest, largest and next volume
    MinDistance     \* five pips

IsCandle(b) ==
    /\ b \in [open : Nat \ {0}, high : Nat \ {0}, low : Nat \ {0}, close : Nat \ {0}]
    /\ b.low <= Lesser(b.open, b.close)
    /\ b.high >= b.open /\ b.high >= b.close

ASSUME BacktestAssumption ==
    /\ Fast \in Nat /\ Slow \in Nat /\ 2 <= Fast /\ Fast < Slow
    /\ \A b \in Candles : IsCandle(b) /\ (b.high - b.low) % Slow = 0
    /\ \A w \in WarmUps : w \in Seq(Candles) /\ Len(w) = Slow + 1
    /\ Days \in Seq(Nat) /\ Len(Days) >= Slow + 2
    /\ \A i \in 1 .. Len(Days) - 1 : Days[i] <= Days[i + 1]
    /\ Cost \in Nat /\ MinDistance \in Nat \ {0}
    /\ Grid \in [minimum : Nat \ {0}, maximum : Nat, increment : Nat \ {0}]

VARIABLES
    bars,           \* the candles so far
    position,       \* the open position, or Flat
    equity,
    trades,         \* the closed trades, in the order of their exits
    suspended,
    daily_stop      \* the day of the last daily stop, or -1

candleVars == <<bars, position, equity, trades, suspended, daily_stop>>

vars == <<candleVars, analyticsVars>>

Flat == [direction |-> "FLAT"]

Directions == {"BUY", "SELL"}

Whys == {"GAP_STOP", "STOP_FIRST", "TARGET", "ENTRY_BAR_STOP_FIRST", "ENTRY_BAR_TARGET",
         "END_OF_DATA"}

Position == [direction : Directions, entry : Nat, stop : Nat, target : Nat,
             lots : Nat \ {0}, risk : Nat \ {0}, entered : 1 .. Len(Days)]

TypeOK ==
    /\ bars \in Seq(Candles) /\ Len(bars) <= Len(Days)
    /\ position \in Position \cup {Flat}
    /\ equity \in Int
    /\ \A k \in 1 .. Len(trades) :
          /\ trades[k].position \in Position
          /\ trades[k].exit \in Nat /\ trades[k].net \in Int
          /\ trades[k].why \in Whys
          /\ trades[k].exited \in trades[k].position.entered .. Len(bars)
    /\ suspended \in BOOLEAN
    /\ daily_stop \in Nat \cup {-1}
    /\ AnalyticsTypeOK

\* A request has candles, or else observations and bars stays empty.
Init ==
    /\ bars \in WarmUps \cup {<<>>}
    /\ position = Flat
    /\ equity = Profile
    /\ trades = <<>>
    /\ suspended = FALSE
    /\ daily_stop = -1
    /\ AnalyticsInit

-----------------------------------------------------------------------------
\* How a position leaves at a price: it meets its stop from above or below.
Buys(p) == p.direction = "BUY"

StopTouched(p, b) == IF Buys(p) THEN b.low <= p.stop ELSE b.high >= p.stop

TargetTouched(p, b) == IF Buys(p) THEN b.high >= p.target ELSE b.low <= p.target

GapsThroughStop(p, b) == IF Buys(p) THEN b.open <= p.stop ELSE b.open >= p.stop

NoFill == [why |-> "NONE"]

\* A variant that gives a candle touching both levels to the target.
FillTargetFirst(p, b) ==
    IF GapsThroughStop(p, b) THEN [price |-> b.open, why |-> "GAP_STOP"]
    ELSE IF TargetTouched(p, b) THEN [price |-> p.target, why |-> "TARGET"]
    ELSE IF StopTouched(p, b) THEN [price |-> p.stop, why |-> "STOP_FIRST"]
    ELSE NoFill

\* A variant that fills a stop at the extreme of the candle.
FillAtExtreme(p, b) ==
    IF GapsThroughStop(p, b) THEN [price |-> b.open, why |-> "GAP_STOP"]
    ELSE IF StopTouched(p, b)
         THEN [price |-> IF Buys(p) THEN b.low ELSE b.high, why |-> "STOP_FIRST"]
    ELSE IF TargetTouched(p, b) THEN [price |-> p.target, why |-> "TARGET"]
    ELSE NoFill

\* A position from an earlier candle.
Fill(p, b) ==
    IF GapsThroughStop(p, b) THEN [price |-> b.open, why |-> "GAP_STOP"]
    ELSE IF StopTouched(p, b) THEN [price |-> p.stop, why |-> "STOP_FIRST"]
    ELSE IF TargetTouched(p, b) THEN [price |-> p.target, why |-> "TARGET"]
    ELSE NoFill

\* A position that this candle's open has opened.
EntryFill(p, b) ==
    IF StopTouched(p, b) THEN [price |-> p.stop, why |-> "ENTRY_BAR_STOP_FIRST"]
    ELSE IF TargetTouched(p, b) THEN [price |-> p.target, why |-> "ENTRY_BAR_TARGET"]
    ELSE NoFill

\* settle: the result is paid out when there was a fill, at candle i.
Net(p, price) == p.lots * ((IF Buys(p) THEN price - p.entry ELSE p.entry - price) - Cost)

Settled(book, p, fill, i) ==
    IF fill = NoFill THEN [book EXCEPT !.position = p]
    ELSE [position |-> Flat,
          equity |-> book.equity + Net(p, fill.price),
          trades |-> Append(book.trades,
                        [position |-> p, exit |-> fill.price, net |-> Net(p, fill.price),
                         why |-> fill.why, exited |-> i])]

-----------------------------------------------------------------------------
\* The sum of the closes of candles from .. to.
Closes(s, from, to) == SumFunction([j \in from .. to |-> s[j].close])

\* The fast average of the candles before candle i less the slow one, times Fast * Slow.
Spread(s, i) == Slow * Closes(s, i - Fast, i - 1) - Fast * Closes(s, i - Slow, i - 1)

\* The crossover that candle i opens with, seen on the candles before it.
Crossover(s, i) ==
    CASE Spread(s, i - 1) <= 0 /\ Spread(s, i) > 0 -> "BUY"
      [] Spread(s, i - 1) >= 0 /\ Spread(s, i) < 0 -> "SELL"
      [] OTHER -> "NONE"

Distance(s, i) ==
    LET mean == SumFunction([j \in i - Slow .. i - 1 |-> s[j].high - s[j].low]) \div Slow
    IN  IF mean > MinDistance THEN mean ELSE MinDistance

Loss(t) == IF t.net < 0 THEN -t.net ELSE 0

LossOf(ts, booked) == SumFunction([k \in booked |-> Loss(ts[k])])

Monday(d) == d - (d % 7)

\* A variant that books a trade on the day of its entry.
BookedOnEntry(t) == Days[t.position.entered]

BookedOn(t) == Days[t.exited]

DailyLoss(ts, d) == LossOf(ts, {k \in 1 .. Len(ts) : BookedOn(ts[k]) = d})

WeeklyLoss(ts, d) == LossOf(ts, {k \in 1 .. Len(ts) : BookedOn(ts[k]) >= Monday(d)})

Candidate(s, i, direction) ==
    LET entry == s[i].open
        distance == Distance(s, i)
        sign == IF direction = "BUY" THEN 1 ELSE -1
    IN  [direction |-> direction, entry |-> entry, stop |-> entry - sign * distance,
         target |-> entry + sign * 2 * distance, distance |-> distance]

Offer(c) ==
    [unit_loss |-> c.distance + Cost, cost |-> Cost, margin |-> c.entry,
     minimum |-> Grid.minimum, maximum |-> Grid.maximum, increment |-> Grid.increment,
     net |-> [stop |-> -(c.distance + Cost), target |-> 2 * c.distance - Cost]]

\* The account the engine is shown: its provider has lost what it has lost.
AccountView(book, d) ==
    LET daily == DailyLoss(book.trades, d)
        weekly == WeeklyLoss(book.trades, d)
    IN  [equity |-> book.equity, status |-> "ACTIVE", profile |-> Profile,
         daily_loss |-> daily, weekly_loss |-> weekly,
         provider_daily_loss |-> daily, provider_weekly_loss |-> weekly,
         reserved_risk |-> 0, used_margin |-> 0, open_positions |-> 0,
         free_margin |-> book.equity]

ResearchProvider == [status |-> "ACTIVE", verified |-> TRUE, live |-> "SYNTHETIC",
                     quality |-> "good", consecutive_losses |-> 0]

\* A variant that opens whatever the engine objects.
NoObjection(book, c, d) == {}

Objections(book, c, d) ==
    EngineReasons(AccountView(book, d), ResearchProvider, Offer(c),
                  IF c.stop > 0 /\ c.target > 0 /\ Grid.minimum <= Grid.maximum
                  THEN "none" ELSE "unsound")

Sized(book, c, i) ==
    LET lots == PositionSize(Offer(c), Budget(AccountView(book, Days[i])))
    IN  [direction |-> c.direction, entry |-> c.entry, stop |-> c.stop, target |-> c.target,
         lots |-> lots, risk |-> lots * Offer(c).unit_loss, entered |-> i]

-----------------------------------------------------------------------------
\* What is left when candle b has settled the position it found.
BookAfter(b) ==
    LET book == [position |-> Flat, equity |-> equity, trades |-> trades]
    IN  IF position = Flat THEN book
        ELSE Settled(book, position, Fill(position, b), Len(bars) + 1)

Becomes(book) ==
    position' = book.position /\ equity' = book.equity /\ trades' = book.trades

Arrives(b) ==
    /\ answer = "NONE" /\ bars # <<>>
    /\ Len(bars) < Len(Days)
    /\ bars' = Append(bars, b)
    /\ UNCHANGED analyticsVars

\* The position is kept, or there is no crossover to act on.
Pass(b) ==
    /\ Arrives(b)
    /\ \/ BookAfter(b).position # Flat
       \/ Crossover(bars', Len(bars')) = "NONE"
    /\ Becomes(BookAfter(b))
    /\ UNCHANGED <<suspended, daily_stop>>

\* A crossover: the stops are latched, and then it is refused or acted on.
Act(b) ==
    LET i == Len(bars')
        book == BookAfter(b)
        base == Lesser(book.equity, Profile)
        c == Candidate(bars', i, Crossover(bars', i))
    IN  /\ Arrives(b)
        /\ book.position = Flat
        /\ Crossover(bars', i) # "NONE"
        /\ suspended' = (suspended \/ 100 * WeeklyLoss(book.trades, Days[i]) >= 4 * base)
        /\ daily_stop' = IF 100 * DailyLoss(book.trades, Days[i]) >= 2 * base
                         THEN Days[i] ELSE daily_stop
        /\ IF \/ suspended' \/ daily_stop' = Days[i] \/ book.equity <= 0
              \/ Objections(book, c, Days[i]) # {}
           THEN Becomes(book)
           ELSE LET p == Sized(book, c, i)
                IN  Becomes(Settled(book, p, EntryFill(p, b), i))

\* The results of the trades at these places, in their order.
Nets(ts, places) ==
    LET nets[k \in 0 .. Len(ts)] ==
            IF k = 0 THEN <<>>
            ELSE IF k \in places THEN Append(nets[k - 1], ts[k].net) ELSE nets[k - 1]
    IN  nets[Len(ts)]

Places(ts) == 1 .. Len(ts)

InSample(ts) == {k \in Places(ts) : BookedOn(ts[k]) < Split}

\* The data ends: what is open is closed at the last price, and the trades are reported.
Finish ==
    /\ answer = "NONE"
    /\ Len(bars) >= Slow + 2
    /\ LET i == Len(bars)
           book == [position |-> Flat, equity |-> equity, trades |-> trades]
       IN  Becomes(IF position = Flat THEN book
                   ELSE Settled(book, position,
                                [price |-> bars[i].close, why |-> "END_OF_DATA"], i))
    /\ curve' = Nets(trades', Places(trades'))
    /\ in_sample' = Nets(trades', InSample(trades'))
    /\ out_of_sample' = Nets(trades', Places(trades') \ InSample(trades'))
    /\ answer' = "SUMMARIZED"
    /\ UNCHANGED <<bars, suspended, daily_stop, observations>>

Next ==
    \/ \E b \in Candles : Pass(b) \/ Act(b)
    \/ Finish
    \/ bars = <<>> /\ ObservationsNext /\ UNCHANGED candleVars

Spec == Init /\ [][Next]_vars

-----------------------------------------------------------------------------
Worse(p, price1, price2) ==
    IF Buys(p) = (price1 < price2) THEN price1 ELSE price2

(***************************************************************************)
(* "pessimistic stop-first intrabar fills" (research.py, line 49): a trade *)
(* ends with the first candle, its own included, that touches either       *)
(* level; and if that candle touches the stop, the exit is no better than  *)
(* the stop, nor than the open of a later candle.                          *)
(***************************************************************************)
PessimisticFills ==
    \A k \in 1 .. Len(trades) :
        LET t == trades[k]
            p == t.position
            b == bars[t.exited]
        IN  /\ \A i \in p.entered .. t.exited - 1 :
                  ~StopTouched(p, bars[i]) /\ ~TargetTouched(p, bars[i])
            /\ StopTouched(p, b) =>
                  t.exit = IF t.exited = p.entered THEN p.stop ELSE Worse(p, p.stop, b.open)

(***************************************************************************)
(* "Gap losses can exceed pre-trade estimates" (research.py, line 124):    *)
(* and only those, however the candles fall and whatever exits a trade.    *)
(***************************************************************************)
OnlyGapsExceedEstimate ==
    \A k \in 1 .. Len(trades) :
        -trades[k].net > trades[k].position.risk => trades[k].why = "GAP_STOP"

(***************************************************************************)
(* "All candidate positions pass the same deterministic risk engine"       *)
(* (research.py, line 50): the losses of the day and of the week in which  *)
(* a trade is entered, and its own risk, stay within the provider's caps,  *)
(* also after a gap took more than was planned.                            *)
(***************************************************************************)
EntriesWithinCaps ==
    \A k \in 1 .. Len(trades) :
        LET p == trades[k].position
            today == Days[p.entered]
            daily == LossOf(trades, {j \in 1 .. k - 1 : Days[trades[j].exited] = today})
            weekly == LossOf(trades, {j \in 1 .. k - 1 : Days[trades[j].exited] >= Monday(today)})
        IN  /\ Scale * (daily + p.risk) <= Profile * Policy.provider_daily_fraction
            /\ Scale * (weekly + p.risk) <= Profile * Policy.provider_weekly_fraction
=============================================================================
