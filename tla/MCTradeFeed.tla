---------------------------- MODULE MCTradeFeed ----------------------------
(***************************************************************************)
(* One listing, LAUNCH_XFER/M with one decimal, its reserve and fee        *)
(* address unknown to the configuration; nine stories of transactions,     *)
(* told to two threads over two days.  The amounts are those of            *)
(* tests/test_trades.py and tests/test_book_trades.py in small: a gross of *)
(* 1000 leaves a net of 991 and a platform fee of 6.                       *)
(***************************************************************************)
EXTENDS TradeFeedProperties

None == "none"
MCAliasOf == [n \in {"LAUNCH/M", "M"} |-> {"LAUNCH/M", "M"}]
MCNameOf == [f \in {"M"} |-> "LAUNCH/M"]
MCUnits == [n \in {"LAUNCH/M"} |-> 1]
Marker(tag, side, field, value, tokens) ==
    [tag |-> tag, side |-> side, field |-> field, value |-> value, tokens |-> tokens]

Coin(a, v) == [addr |-> a, value |-> v, asset |-> None, amount |-> 0,
               kind |-> None, memo |-> NoMemo, prev |-> None]
Token(a, n) == [Coin(a, 0) EXCEPT !.asset = "LAUNCH/M", !.amount = n, !.kind = "transfer"]
From(row, id) == [row EXCEPT !.prev = id]
Note(m) == [Coin(None, 0) EXCEPT !.memo = m]

\* A buy of 10 tokens by an address through a reserve.
Buy(buyer, reserve) ==
    [vin  |-> <<Coin(buyer, 2000)>>,
     vout |-> <<Coin("treasury", 6), Coin(reserve, 991), Coin("creator", 3),
                Coin(buyer, 990), Note(Marker("XL1", "buy", "M", 991, 10))>>]
Deliver(buyer) ==
    [vin  |-> <<Token("treasury", 500)>>,
     vout |-> <<Token(buyer, 100), Token("treasury", 400)>>]
SellTo(reserve, seller, id) ==
    [vin  |-> <<From(Token(seller, 100), id), Coin(reserve, 1200)>>,
     vout |-> <<Token("launch", 100), Coin(seller, 991), Coin("fees", 6),
                Coin("creator", 3), Coin(reserve, 200),
                Note(Marker("XL1", "sell", "M", 1000, 10))>>]

MCTxs ==
    [id \in {"b1", "b2", "g", "d1", "d2", "s0", "s1", "s2", "x", "f", "w", "b0", "d0", "e",
            "k", "s3"} |->
        CASE id \in {"b1", "b2", "b0"} -> Buy("tom", "reserve")
          [] id = "g" -> Buy("uma", "stranger")           \* never delivered
          [] id = "k" -> Buy("tom", "stranger")           \* equal to b0 and b1
          [] id = "d1" \/ id = "d2" \/ id = "d0" -> Deliver("tom")
          [] id = "s1" -> SellTo("reserve", "tom", "d1")
          [] id = "s2" \/ id = "s0" -> SellTo("reserve", "tom", "d0")
          [] id = "s3" -> SellTo("stranger", "tom", "d0")
          [] id = "x" ->                                   \* from the order book
                [vin  |-> <<Coin("uma", 5000), Token("maker", 100)>>,
                 vout |-> <<Coin("maker", 985), Coin("fees", 6), Coin("uma", 4000),
                            Token("uma", 100),
                            Note(Marker("XB1", "buy", "LAUNCH/M", 1000, 10))>>]
          [] id = "f" ->                                   \* a copied marker
                [vin  |-> <<Coin("uma", 1000)>>,
                 vout |-> <<Coin("treasury", 1), Coin("stranger", 991),
                            Note(Marker("XL1", "buy", "M", 991, 10))>>]
          [] id = "e" ->                                   \* an OP_RETURN, no marker
                [vin  |-> <<Token("uma", 100)>>, vout |-> <<Token("tom", 100), Coin(None, 0)>>]
          [] id = "w" ->                                   \* without a marker
                [vin  |-> <<Coin("uma", 300), Token("launch", 100)>>,
                 vout |-> <<Coin("launch", 290), Token("uma", 100)>>]]

MCTrueSide ==
    [id \in DOMAIN MCTxs |->
        IF id \in {"b1", "b2", "b0", "g", "k", "x", "w"} THEN "buy"
        ELSE IF id \in {"s0", "s1", "s2", "s3"} THEN "sell" ELSE None]
MCTrueTrader ==
    [id \in DOMAIN MCTxs |-> IF id \in {"x", "w", "g"} THEN "uma" ELSE "tom"]

Story(past, unreadable, new, days, gens, threads) ==
    [past |-> past, unread |-> unreadable, new |-> new, days |-> days, gens |-> gens,
     threads |-> threads]
MCStories ==
    {\* a buy that nobody delivers, then one that is, then a sell of it
     Story(<<>>, {}, <<<<"g", "b1">>, <<"d1">>, <<"s1">>>>, 0, 0, {"t1"}),
     \* a copied marker; a sell before the buy of its reserve; tokens first
     Story(<<>>, {}, <<<<"f", "s1">>, <<"d1", "b1">>>>, 0, 0, {"t1"}),
     \* two equal buys of one buyer and their deliveries
     Story(<<>>, {}, <<<<"b1">>, <<"d1", "b2">>, <<"d2">>>>, 0, 0, {"t1"}),
     \* midnight between two requests
     Story(<<<<"b1">>>>, {}, <<<<"d1">>>>, 1, 0, {"t1", "t2"}),
     \* labels that change under two requests
     Story(<<>>, {}, <<<<"w">>>>, 0, 1, {"t1", "t2"}),
     \* markers of two blocks not stored, an order book trade and a later sell
     Story(<<<<"e">>, <<"b0", "d0", "s0">>>>, {"e", "b0", "s0"}, <<<<"x", "s2">>>>, 1, 0, {"t1"}),
     \* two equal buys through different addresses, one delivery; more markers
     \* than a search looks at; sells through both addresses a day later
     Story(<<<<"k", "g", "b0", "d0">>>>, {}, <<<<"s2", "s3">>>>, 1, 0, {"t1"}),
     \* more deliveries than a search looks at
     Story(<<<<"d2">>, <<"b0", "d0">>>>, {}, <<<<"s2">>>>, 1, 0, {"t1"}),
     \* more sells than a search looks at, and an order book trade a day later
     Story(<<<<"b0", "d0", "s0", "s1", "s2">>>>, {}, <<<<"x">>>>, 1, 0, {"t1"})}

Fill(id, side, source, delivery) ==
    [txid |-> id, side |-> side, source |-> source, maker |-> FALSE, addr |-> "launch",
     delivery |-> delivery, toProceeds |-> FALSE]
Market(fills) == [name |-> "LAUNCH/M", fills |-> fills]
MCRelayStates ==
    <<[markets  |-> <<Market(<<Fill("b1", "buy", "curve", None)>>)>>, auctions |-> <<>>],
      [markets  |-> <<Market(<<Fill("b1", "buy", "curve", "d1"), Fill("d1", "sell", "curve", None),
                               Fill("x", "buy", "book", None), Fill("f", "buy", "refund", None)>>)>>,
       auctions |-> <<[txid |-> "w", name |-> "LAUNCH/M", winner |-> "uma"]>>]>>
=============================================================================
