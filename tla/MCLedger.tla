------------------------------- MODULE MCLedger -------------------------------
(***************************************************************************)
(* Small instances of Ledger.  An account of 100000 risks 500 per trade at *)
(* a risk_fraction of 5/1000, the shipped default.  The daily and weekly   *)
(* fractions are tightened, as Policy.validate allows, so that one full    *)
(* loss is a day's budget and two are a week's.                            *)
(***************************************************************************)
EXTENDS LedgerBudget, TLC

CONSTANTS a1, a2, p1, p2, s1, s2, s3, u1, u2

MCProfiles == [a \in Accounts |-> 100000]

\* The account's own caps bind; the provider's are out of the way.
AccountPolicy ==
    [risk_fraction |-> 5, daily_fraction |-> 5, weekly_fraction |-> 10,
     provider_daily_fraction |-> 1000, provider_weekly_fraction |-> 1000,
     max_cost_fraction |-> 200, max_margin_fraction |-> 200,
     provider_allocation_fraction |-> 200, max_positions |-> 1, min_margin_level |-> 500,
     max_active_providers |-> 1, provider_circuit_breaker_losses |-> 3]

\* The provider's caps bind, as they do under the shipped defaults.
ProviderPolicy ==
    [AccountPolicy EXCEPT !.daily_fraction = 10, !.weekly_fraction = 20,
                          !.provider_daily_fraction = 5, !.provider_weekly_fraction = 9,
                          !.provider_circuit_breaker_losses = 2]

\* Five lots are a full risk budget before the first loss, four afterwards.
Wide == [unit_loss |-> 100, cost |-> 15, margin |-> 1000, minimum |-> 1, maximum |-> 8,
         increment |-> 1, net |-> [stop |-> -100, target |-> 120]]

\* Five lots still fit after a first loss.
Narrow == [unit_loss |-> 99, cost |-> 9, margin |-> 1000, minimum |-> 1, maximum |-> 5,
           increment |-> 2, net |-> [stop |-> -97, target |-> 140]]

\* One lot is the most the broker takes; its cost eats more than the target earns.
Costly == [unit_loss |-> 60, cost |-> 45, margin |-> 1000, minimum |-> 1, maximum |-> 1,
           increment |-> 1, net |-> [stop |-> -60, target |-> -22]]

\* Four lots spend half a provider's day, and most of the margin the account's rules allow.
Heavy == [unit_loss |-> 60, cost |-> 10, margin |-> 4400, minimum |-> 2, maximum |-> 4,
          increment |-> 2, net |-> [stop |-> -60, target |-> 80]]

\* Four lots need more margin than that.
Overweight == [Heavy EXCEPT !.margin = 5100]

StopOffers == {Wide, Narrow}

SharedOffers == {Wide, Heavy, Overweight}

ProviderOffers == {Wide, Costly}

\* Every volume grid of up to four lots, with losses that the budgets divide and do not.
MCSizedOffers ==
    {o \in [unit_loss : {97, 100, 125, 130}, cost : {0}, margin : {0},
            minimum : 1 .. 4, maximum : 1 .. 4, increment : 1 .. 4,
            net : {[stop |-> 0, target |-> 0]}] : o.minimum <= o.maximum}

SymmetricSignals == Permutations(Signals)

\* Accounts of one profile are interchangeable too.
SymmetricAccounts == SymmetricSignals \cup Permutations(Accounts)
=============================================================================
