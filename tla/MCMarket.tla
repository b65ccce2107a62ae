------------------------------- MODULE MCMarket -------------------------------
(* Small instances of Market for TLC.                                          *)
EXTENDS Market, TLC

CONSTANTS depositor, taker, o1, v1, m1, m2

MCIntentHashes == Orchestrators \X (0 .. MaxIntents - 1)
MCOrchestratorOf == v1 :> o1

MarketSymmetry == Permutations(Payees) \cup Permutations(Currencies)

\* The deposit and its intents, without the owners' other settings.
Trading ==
    \/ \E d \in DepositIds : Withdraw(depositor, d)
    \/ \E h \in IntentHashes : Cancel(o1, taker, h)
    \/ \E h \in IntentHashes, att \in Pay!Attestations : Fulfill(o1, h, att)
    \/ Pass

\* Both methods come and go, and one of them with several currencies.
OneMethodIsPlain ==
    /\ Cardinality(isCurrency[m2]) <= 1
    /\ \A d \in DepositIds : offers[d].currencies[m2] = <<>> /\ offers[d].delegate # depositor

MarketSteps ==
    \/ \E t \in Tokens, delegate \in Accounts \cup {NoAccount},
          listings \in Tables!Listings :
            OpenDeposit(depositor, t, 1, 1, 1, NoAccount, FALSE, delegate, listings)
    \/ \E d \in DepositIds : Configure(d)
    \/ \E d \in DepositIds, m \in PaymentMethods, c \in Currencies, rate \in Rates :
            SignalAtRate(o1, taker, d, 1, m, c, rate)
    \/ Register
    \/ Otherwise(Trading)

MCMarketNext == MarketSteps /\ OneMethodIsPlain'

MCMarketSpec == MarketInit /\ [][MCMarketNext]_marketVars
=============================================================================
