------------------------------ MODULE MCResearch ------------------------------
(***************************************************************************)
(* A small instance of CandleBacktest: candles around a price of 600, with *)
(* ranges of 30 or none, averages over two and three candles, the policy   *)
(* as shipped, and observations of which two losses exceed the equity.     *)
(***************************************************************************)
EXTENDS CandleBacktest

DefaultPolicy ==
    [risk_fraction |-> 5, daily_fraction |-> 20, weekly_fraction |-> 40,
     provider_daily_fraction |-> 10, provider_weekly_fraction |-> 20,
     max_cost_fraction |-> 200, max_margin_fraction |-> 200,
     provider_allocation_fraction |-> 200, max_positions |-> 1, min_margin_level |-> 500,
     max_active_providers |-> 3, provider_circuit_breaker_losses |-> 5]

Candle(open, high, low, close) ==
    [open |-> open, high |-> high, low |-> low, close |-> close]

Level == Candle(600, 600, 600, 600)

Rising == Candle(600, 630, 600, 630)

Falling == Candle(600, 600, 570, 570)

\* It touches the stop and the target of whatever is open.
Wide == Candle(600, 660, 540, 600)

\* The market opens far below, or far above, where it closed.
Crash == Candle(450, 450, 450, 450)

Jump == Candle(750, 750, 750, 750)

MCCandles == {Level, Rising, Falling, Wide, Crash, Jump}

MCWarmUps ==
    {<<Level, Level, Level, Rising>>, <<Level, Level, Level, Falling>>,
     <<Level, Level, Level, Level>>}

OneWeek == <<0, 0, 0, 0, 0, 1, 1, 1, 1>>

MCTimes == 0 .. 2

MCGross == {-12000, -4000, 6000}

MCCosts == {0, 2000}

MCGrid == [minimum |-> 1, maximum |-> 100, increment |-> 1]
=============================================================================
