----------------------------- MODULE MCServices -----------------------------
(***************************************************************************)
(* Two callers of a wallet that starts, is on another port for a while and *)
(* restarts with a new login; a schedule of five blocks; two cached        *)
(* objects at most of three; a relay that gets three fills, one of them    *)
(* delivered by the payment of another, a refund and an auction; and three *)
(* blocks, two of them indexed by an older explorer, with two shares.      *)
(***************************************************************************)
EXTENDS Services

MCNodeStates ==
    <<[on |-> <<"warming", "down">>, login |-> 1],
      [on |-> <<"up", "down">>, login |-> 1],
      [on |-> <<"down", "refuses">>, login |-> 1],
      [on |-> <<"down", "up">>, login |-> 2],
      [on |-> <<"up", "up">>, login |-> 3]>>

Fill(id, side, source, delivery) ==
    [txid |-> id, side |-> side, source |-> source, maker |-> FALSE, addr |-> "launch",
     delivery |-> delivery, toProceeds |-> FALSE]
Market(name, fills) == [name |-> name, fills |-> fills]
MCRelayStates ==
    <<[markets  |-> <<Market("M", <<Fill("b1", "buy", "curve", "none")>>)>>, auctions |-> <<>>],
      [markets  |-> <<Market("M", <<Fill("b1", "buy", "curve", "d1"), Fill("d1", "sell", "curve", "none"),
                                    Fill("r", "buy", "refund", "none")>>),
                      Market("N", <<Fill("x", "buy", "book", "none"), Fill("b2", "buy", "curve", "d2")>>)>>,
       auctions |-> <<[txid |-> "w", name |-> "M", winner |-> "uma"]>>]>>

MCSharedBy == <<0, 1, 1>>
=============================================================================
