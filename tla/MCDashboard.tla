------------------------------ MODULE MCDashboard ------------------------------
EXTENDS Dashboard, TLC
CONSTANTS m1, m2, p1, p2, p3, f1, b1, b2, b3, s1, s2, h1, r1, x1, x2, g1, g2, t1, t2
MCMarkets == {m1, m2}
MCDefault == <<p1, p2>>
MCMaxRows == (m1 :> 4) @@ (m2 :> 1)
MCMaxTicks == (m1 :> 1) @@ (m2 :> 0)
\* The second exchange has one of the symbols of the first.
MCExchanges == <<x1, x2>>
MCListed == (x1 :> <<m1, m2>>) @@ (x2 :> <<m1>>)
MCFiles == {[name |-> s1, group |-> g1, tags |-> {t1}],
            [name |-> s2, group |-> g1, tags |-> {t1, t2}]}
\* The link from the backtests to themselves stands for going elsewhere and
\* back before the other page is shown.
MCLinks == {<<"/profiles", "/chart">>, <<"/chart", "/profiles">>,
            <<"/strategies", "/strategies/">>, <<"/strategies/", "/strategies">>,
            <<"/backtests", "/backtests">>}
MCMaxInputs == [p \in {"/", "/strategies/"} |-> 1] @@ [p \in {"/bots", "/strategies"} |-> 2]
                 @@ [p \in {"/profiles", "/chart", "/backtests"} |-> 3]
================================================================================
