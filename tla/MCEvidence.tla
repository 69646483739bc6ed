------------------------------ MODULE MCEvidence ------------------------------
(***************************************************************************)
(* A small instance of Evidence: the shipped limits and weights with other *)
(* ages, and ladders whose middle rungs lie just inside or outside a       *)
(* limit.                                                                  *)
(***************************************************************************)
EXTENDS Evidence, TLC

ShippedPolicy ==
    [limit |-> [f \in Limits |->
        CASE f = "news_risk" -> 30 [] f = "correlation" -> 50 [] f = "volatility" -> 70
          [] f = "spread_pips" -> 20 [] f = "execution_quality" -> 70
          [] f = "reward_risk" -> 50],
     min_score |-> 65,
     weight |-> [f \in Weighted |->
        CASE f \in {"data_quality", "technical_score", "execution_quality", "news_risk"} -> 20
          [] f \in {"regime_score", "reward_risk", "correlation"} -> 15
          [] f \in {"macro_score", "volatility", "spread_pips"} -> 10],
     max_signal_age |-> 3,
     max_market_age |-> 1]

StrictPolicy ==
    [ShippedPolicy EXCEPT !.limit["spread_pips"] = 10, !.min_score = 80, !.max_signal_age = 2]

\* It validates: only the fractions of risk and of the loss caps are bounded by the defaults.
LaxPolicy ==
    [ShippedPolicy EXCEPT !.limit["news_risk"] = 100, !.min_score = 1, !.max_market_age = 3]

AnyPolicies == {ShippedPolicy, StrictPolicy, LaxPolicy}

MCLadder ==
    [f \in Fields |->
        CASE f = "news_risk" -> <<0, 30, 90, UNKNOWN>>
          [] f = "correlation" -> <<0, 50, 90, UNKNOWN>>
          [] f = "volatility" -> <<10, 70, 90, UNKNOWN>>
          [] f = "spread_pips" -> <<10, 20, 80, UNKNOWN>>
          [] f = "data_quality" -> <<95, 70, 60, UNKNOWN>>
          [] f = "execution_quality" -> <<95, 70, 20, UNKNOWN>>
          [] f \in {"technical_score", "regime_score"} -> <<90, 50, 0, UNKNOWN>>
          [] f = "macro_score" -> <<80, 0, UNKNOWN>>
          [] f = "reward_risk" -> <<67, 50, 40, UNKNOWN>>
          [] f = "broker_evidence" -> <<"right", "fixture", "wrong">>
          [] f \in {"session_open", "liquid", "edge_validated", "conflicting_signals",
                    "quote", "prices"} -> <<"right", "wrong", UNKNOWN>>
          [] OTHER -> <<"right", UNKNOWN>>]

MCStamps == {0, 3, UNKNOWN}
=============================================================================
