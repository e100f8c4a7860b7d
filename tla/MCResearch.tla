----------------------------- MODULE MCResearch -----------------------------
(***************************************************************************)
(* An instance of Research for TLC.  Two workers fetch the same documents, *)
(* both of them as threads of one process and one cache, the first only as *)
(* threads with a cache each, as two processes, and as threads of one      *)
(* cache over a file that was left torn.                                   *)
(* One worker at a time derives fundamentals from many filings, or builds  *)
(* universes over many markets.                                            *)
(***************************************************************************)
EXTENDS Research

W1 == "w1"
W2 == "w2"
Both(x, y) == (W1 :> x) @@ (W2 :> y)

Research1   == [kind |-> "fundamentals"]
Idle        == [kind |-> "window", track |-> "benchmark", limit |-> 0, fake |-> TRUE]
Universe1(kind, track, limit, fake) ==
  [kind |-> kind, track |-> track, limit |-> limit, fake |-> fake]

Entry(end, fp, spans, val) == [end |-> end, fp |-> fp, spans |-> spans, val |-> val]
Filed(listed, gaap, dei, price) ==
  [listed |-> listed, facts |-> [gaap |-> gaap, dei |-> dei], price |-> price]

\* Two filings of the long-term debt and of the equity in either order, the
\* short-term debt of either year, shares that may be unreadable or old.
DebtSeqs   == <<<<Entry(100, "FY", FALSE, 4), Entry(200, "Q", FALSE, 6)>>,
                <<Entry(200, "Q", TRUE, 6), Entry(100, None, FALSE, 4)>>>>
EquitySeqs == <<<<Entry(200, None, FALSE, 5), Entry(100, None, FALSE, 3)>>,
                <<Entry(100, "FY", FALSE, 0)>>, <<Entry(None, None, FALSE, 1)>>>>
ShareSeqs  == <<<<Entry(100, None, FALSE, None)>>, <<Entry(150, "FY", FALSE, 7)>>, <<>>>>
Prices     == <<None, 0, 3>>
Filer(d, short, e, sh) ==
  Filed(TRUE,
    ("LongTermDebt" :> DebtSeqs[d]) @@ ("LongTermDebtCurrent" :> <<Entry(short, "FY", FALSE, 2)>>)
      @@ ("StockholdersEquity" :> EquitySeqs[e]) @@ ("CommonStockSharesOutstanding" :> ShareSeqs[sh])
      @@ ("Revenues" :> <<Entry(200, "Q", TRUE, 1), Entry(100, "FY", TRUE, 9)>>),
    "EntityCommonStockSharesOutstanding" :> <<Entry(180, "Q", TRUE, 8)>>, Prices[sh])
Filers == {<<"filer", d, s, e, ((d + e) % 3) + 1>> : d \in 1..2, s \in {100, 200}, e \in 1..3}
NoFilings(listed) == Filed(listed, <<>>, <<>>, 3)

Asset(symbol, etf, leveraged, tradable, price, bars, cap, news, filed) ==
  [symbol |-> symbol, etf |-> etf, leveraged |-> leveraged, tradable |-> tradable,
   quote |-> [price |-> price, bars |-> bars, cap |-> cap, news |-> news, filed |-> filed]]
Profile(i, symbol) ==
  CASE i = 1 -> Asset(symbol, FALSE, FALSE, TRUE, 150, <<200, 400>>, 200000, None, None)
    [] i = 2 -> Asset(symbol, FALSE, FALSE, TRUE, 60, <<120>>, 2000, 1, 14)
    [] i = 3 -> Asset(symbol, TRUE, TRUE, TRUE, 300, <<900>>, 300000, 0, None)
    [] i = 4 -> Asset(symbol, TRUE, FALSE, symbol # 2, 300, <<900>>, 10001, 5, 3)
    [] i = 5 -> Asset(symbol, FALSE, FALSE, TRUE, 5, <<>>, 0, 0, 0)
    [] OTHER -> Asset(symbol, FALSE, FALSE, TRUE, None, <<50>>, 40, 9, 15)
Markets   == {m \in (1..6) \X (1..6) \X (1..6) : m[1] <= m[2] /\ m[2] < m[3]}

\* A setting is a tuple whose first member says what it is about.
OneProcess == Both("p1", "p1")
OneCache   == Both("c1", "c1")
TwoCaches  == Both("c1", "c2")
Place(proc, cache, commands, provider) ==
  [proc |-> proc, cache |-> cache, command |-> commands, provider |-> provider,
   left |-> [k \in Keys |-> None]]
Alone(command, provider) == Place(OneProcess, OneCache, Both(command, Idle), provider)

MCSetup(s) ==
  CASE s[1] = "threads"   -> Place(OneProcess, OneCache, Both(Research1, Research1), "capped")
    [] s[1] = "caches"    -> Place(OneProcess, TwoCaches, Both(Research1, Research1), "capped")
    [] s[1] = "leftover"  -> [Place(OneProcess, OneCache, Both(Research1, Research1), "capped")
                                EXCEPT !.left[Tickers] = Torn]
    [] s[1] = "processes" -> Place(Both("p1", "p2"), TwoCaches, Both(Research1, Research1), "capped")
    [] s[1] \in {"unlisted", "filer"} -> Alone(Research1, "capped")
    [] s[1] = "odd"       -> Alone(Universe1(s[2], s[3], 2, s[4]), "capped")
    [] OTHER              -> Alone(Universe1("build", s[2], s[3], FALSE), s[1])
MCCompany(s) == IF s[1] = "filer" THEN Filer(s[2], s[3], s[4], s[5])
                ELSE NoFilings(s[1] = "threads")
MCMarket(s)  == IF s[1] \in {"capped", "live"} THEN [i \in 1..3 |-> Profile(s[4][i], i)] ELSE <<>>

Builds(provider) == {provider} \X (DOMAIN DefaultPolicies) \X {1, 2} \X Markets
Odd == {<<"odd", "build", "custom", FALSE>>, <<"odd", "window", "custom", FALSE>>,
        <<"odd", "window", "yolo", FALSE>>, <<"odd", "window", "yolo", TRUE>>}

MCSettings   == {<<"threads">>, <<"caches">>, <<"processes">>, <<"unlisted">>, <<"leftover">>}
                  \union Filers \union Builds("capped") \union Odd
LiveSettings == Builds("live")
MCCanned     == <<7>>
MCTtl        == (Tickers :> 2) @@ (CompanyFacts :> 2)
=============================================================================
