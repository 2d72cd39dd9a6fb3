---------------------------- MODULE RelayTrades ----------------------------
(***************************************************************************)
(* The explorer's copy of what the Launch relay publishes.  It is replaced *)
(* under a lock that is held over both requests, so one call of rows() is  *)
(* one step; either request may fail.  A transaction's page calls rows()   *)
(* and looks its fill up after the lock was given back.  The relay moves   *)
(* along a given sequence of states.                                       *)
(***************************************************************************)
EXTENDS RelayRows

CONSTANTS Lookers        \* the threads that serve transactions' pages

VARIABLES published,     \* the state the relay is in
          copy,          \* the states the explorer's copies were taken from
          looker         \* the locals of each page, and the last fill it showed

relayVars == <<published, copy, looker>>

\* markets: _rows' fills, auctions: _rows' auctions, fills: _fills; 0 is none.
\* young: the copy may be used without asking again.
RelayInit ==
    /\ published = 1
    /\ copy = [markets |-> 0, auctions |-> 0, fills |-> 0, young |-> FALSE, ok |-> FALSE]
    /\ looker = [l \in Lookers |-> [pc |-> "idle", txid |-> NoTx, shown |-> {}]]

RelayMoves ==
    /\ published < Len(RelayStates)
    /\ published' = published + 1
    /\ UNCHANGED <<copy, looker>>

CopyAges ==
    /\ copy.young
    /\ copy' = [copy EXCEPT !.young = FALSE]
    /\ UNCHANGED <<published, looker>>
-----------------------------------------------------------------------------
\* A young copy is served.  Otherwise the markets are read and then the
\* auctions: without markets the copy stays as it was, with markets and
\* without auctions it has no auctions.  Its age starts again either way.
RowsCopied(marketsRead, auctionsRead) ==
    IF copy.young THEN copy
    ELSE IF ~marketsRead THEN [copy EXCEPT !.young = TRUE, !.ok = FALSE]
    ELSE [markets |-> published, fills |-> published, young |-> TRUE, ok |-> TRUE,
          auctions |-> IF auctionsRead THEN published ELSE 0]

\* rows(), for the trades page.
ReadsRows ==
    /\ \E m, a \in BOOLEAN : copy' = RowsCopied(m, a)
    /\ UNCHANGED <<published, looker>>

\* launch_fill(): rows(), then the lookup.
AsksFill(l, txid) ==
    /\ looker[l].pc = "idle"
    /\ \E m, a \in BOOLEAN : copy' = RowsCopied(m, a)
    /\ looker' = [looker EXCEPT ![l] = [pc |-> "look", txid |-> txid, shown |-> {}]]
    /\ UNCHANGED published

FindsFill(l) ==
    /\ looker[l].pc = "look"
    /\ looker' = [looker EXCEPT ![l].pc = "idle", ![l].shown = LaunchFill(copy, looker[l].txid)]
    /\ UNCHANGED <<published, copy>>

\* The transactions the relay ever names, and one it never does.
TxsNamed ==
    UNION {{v.payment, v.delivery} : v \in
        UNION {ToSet(FillViews(RelayStates[i].markets)) : i \in DOMAIN RelayStates}}

RelayNext ==
    \/ RelayMoves \/ CopyAges \/ ReadsRows
    \/ \E l \in Lookers : FindsFill(l) \/ (\E txid \in TxsNamed : AsksFill(l, txid))

RelaySpec == RelayInit /\ [][RelayNext]_relayVars
-----------------------------------------------------------------------------
\* The trades page and the transactions' pages tell one story: a fill in the
\* copy that is not a refund is found by its payment, under the row's side,
\* asset and state, whichever of the two requests of a refresh have failed, and
\* by its delivery as well, unless that transaction is itself a payment.
FillsAgree ==
    LET rows  == TradesFromMarkets(MarketsAt(copy.markets))
        fills == FillViews(MarketsAt(copy.fills))
        first(i) == \A j \in 1..i-1 : rows[j].txid # rows[i].txid
    IN  /\ \A i \in DOMAIN rows :
              first(i) /\ (\E v \in ToSet(fills) : v.payment = rows[i].txid) =>
                 \E f \in LaunchFill(copy, rows[i].txid) :
                     /\ f.role = "payment" /\ f.fill.side = rows[i].side
                     /\ f.fill.asset = rows[i].asset /\ f.fill.delivering = rows[i].pending
        /\ \A v \in ToSet(fills) :
              v.delivery # NoTx /\ (\A u \in ToSet(fills) : u.payment # v.delivery) =>
                 \E f \in LaunchFill(copy, v.delivery) :
                     /\ f.role = "delivery" /\ ~f.fill.delivering
                     /\ f.fill.delivery = v.delivery
        /\ \A l \in Lookers : \A f \in looker[l].shown :
              looker[l].txid \in {f.fill.payment, f.fill.delivery}
=============================================================================
