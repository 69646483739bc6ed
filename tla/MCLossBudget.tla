---------------------------- MODULE MCLossBudget ----------------------------
(***************************************************************************)
(* Small instance of LossBudget.  A trade may lose half a daily budget,    *)
(* the weekly one is less than two daily ones, and a provider's are        *)
(* tighter than the account's; the days are the weekend of one week and    *)
(* the first two days of the next.                                         *)
(***************************************************************************)
EXTENDS LossBudget

CONSTANTS a1, p1, p2

MCDays == {0, 6, 7, 8}

MCAmounts == 0 .. 2

MCTradeCap == [a \in Accounts |-> 2]

MCDayCap == [account |-> [a \in Accounts |-> 4], provider |-> [a \in Accounts |-> 3]]

MCWeekCap == [account |-> [a \in Accounts |-> 6], provider |-> [a \in Accounts |-> 5]]
=============================================================================
