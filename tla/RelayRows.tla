----------------------------- MODULE RelayRows -----------------------------
(***************************************************************************)
(* What the explorer makes of what the Launch relay publishes              *)
(* (launch_trades.py): rows of the trades page, and the fill shown on a    *)
(* transaction's page.  RelayTrades keeps the copies these are made of.    *)
(***************************************************************************)
EXTENDS Integers, Sequences, FiniteSets, SequencesExt

CONSTANTS RelayStates,   \* what the relay publishes, one state after another
          NoTx           \* a fill without a delivery

\* A refund is of a payment that no fill was made of.
ASSUME RelayAssumption ==
    /\ RelayStates \in Seq(ToSet(RelayStates)) /\ RelayStates # <<>>
    /\ \A s \in ToSet(RelayStates) :
          LET fills(m) == s.markets[m].fills
          IN  /\ s.markets \in Seq(ToSet(s.markets)) /\ s.auctions \in Seq(ToSet(s.auctions))
              /\ \A m \in DOMAIN s.markets : fills(m) \in Seq(ToSet(fills(m)))
              /\ \A m, l \in DOMAIN s.markets :
                    \A f \in DOMAIN fills(m), g \in DOMAIN fills(l) :
                       fills(m)[f].source = "refund" /\ fills(l)[g].source # "refund"
                       => fills(m)[f].txid # fills(l)[g].txid
-----------------------------------------------------------------------------
(* Rows of the trades page.                                                *)

Venue(fill) == IF fill.source = "book" \/ fill.maker THEN "book" ELSE "launch"

OnTheWay(fill) ==
    /\ fill.side = "buy" /\ Venue(fill) = "launch"
    /\ fill.delivery = NoTx /\ ~fill.toProceeds

FillRow(market, fill) ==
    [txid |-> fill.txid, side |-> fill.side, asset |-> market.name,
     trader |-> fill.addr, pending |-> OnTheWay(fill), venue |-> Venue(fill)]

TradesFromMarkets(markets) ==
    FlattenSeq([m \in DOMAIN markets |->
        [f \in DOMAIN markets[m].fills |-> FillRow(markets[m], markets[m].fills[f])]])

\* Only an auction that was settled and has a winner.
TradesFromAuctions(auctions) ==
    FlattenSeq([i \in DOMAIN auctions |->
        IF auctions[i].txid = NoTx THEN <<>>
        ELSE <<[txid |-> auctions[i].txid, side |-> "buy", asset |-> auctions[i].name,
                trader |-> auctions[i].winner, pending |-> FALSE, venue |-> "auction"]>>])
-----------------------------------------------------------------------------
(* Fills of the transaction page.                                          *)

\* launch_fill_view: the fill, unless it is a refund, which is not a trade.
FillView(market, fill) ==
    IF fill.source = "refund" THEN <<>>
    ELSE <<[side |-> fill.side, asset |-> market.name,
            payment |-> fill.txid, delivery |-> fill.delivery,
            delivering |-> OnTheWay(fill), venue |-> Venue(fill)]>>

FillViews(markets) ==
    FlattenSeq([m \in DOMAIN markets |->
        FlattenSeq([f \in DOMAIN markets[m].fills |->
            FillView(markets[m], markets[m].fills[f])])])

FirstWith(views, Test(_)) ==
    LET hits == {i \in DOMAIN views : Test(views[i])}
    IN  {views[i] : i \in {j \in hits : \A k \in hits : j <= k}}

\* Mutant: a delivery counts before a payment.
FillOfDelivery(views, txid) ==
    LET paid      == FirstWith(views, LAMBDA v : v.payment = txid)
        delivered == FirstWith(views, LAMBDA v :
                        v.delivery = txid /\ v.delivery # v.payment)
    IN  IF delivered = {}
        THEN {[role |-> "payment", fill |-> v] : v \in paid}
        ELSE {[role |-> "delivery", fill |-> [v EXCEPT !.delivering = FALSE]] :
                  v \in delivered}

\* index_launch_fills: the first fill paid by a transaction, else the first
\* one it delivers.
FillOf(views, txid) ==
    LET paid      == FirstWith(views, LAMBDA v : v.payment = txid)
        delivered == FirstWith(views, LAMBDA v :
                        v.delivery = txid /\ v.delivery # v.payment)
    IN  IF paid # {}
        THEN {[role |-> "payment", fill |-> v] : v \in paid}
        ELSE {[role |-> "delivery", fill |-> [v EXCEPT !.delivering = FALSE]] :
                  v \in delivered}
-----------------------------------------------------------------------------
MarketsAt(i) == IF i = 0 THEN <<>> ELSE RelayStates[i].markets
AuctionsAt(i) == IF i = 0 THEN <<>> ELSE RelayStates[i].auctions

RowsOf(c) == TradesFromMarkets(MarketsAt(c.markets)) \o TradesFromAuctions(AuctionsAt(c.auctions))
LaunchFill(c, txid) == FillOf(FillViews(MarketsAt(c.fills)), txid)
=============================================================================
