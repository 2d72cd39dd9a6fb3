------------------------------ MODULE HostShare ------------------------------
(***************************************************************************)
(* explorer/hostshare.py: the wallet's rule by which a lottery winner (the  *)
(* host) sends a percentage of a win to guests, and the detection of such a *)
(* send from its amounts.  A spend of a win is modelled by its outputs to   *)
(* others, <<address, amount>>, and the change that goes back to the host.  *)
(***************************************************************************)
EXTENDS Integers, Sequences, FiniteSets

CONSTANT MaxGuests      \* MAX_GUESTS

ASSUME GuestsAssumption == MaxGuests \in Nat \ {0}

None == <<>>
Host == 0       \* the address of the host; the guests' are other numbers

-------------------------------------------------------------------------------
(* The arithmetic.                                                         *)

\* Mistake: the division comes first.
GuestPotDividedFirst(n, p) == (n \div 100) * p

\* guest_pot: p percent of n, in an order that cannot overflow 64 bits.  A win is
\* positive and a percentage is in 1 .. 100, so its guards do not come into play.
GuestPot(n, p) == (n \div 100) * p + ((n % 100) * p) \div 100

\* guest_share
GuestShare(pot, k) == IF pot <= 0 \/ k <= 0 THEN 0 ELSE pot \div k

\* percent_for_pot: the least percentage that gives the pot, 0 for none.
PercentForPot(n, pot) ==
    LET P == {p \in 1 .. 100 : GuestPot(n, p) = pot}
    IN IF pot <= 0 \/ pot > n \/ P = {} THEN 0 ELSE CHOOSE p \in P : \A q \in P : p <= q

-------------------------------------------------------------------------------
(* Detection.                                                              *)

\* Mistake: the change to the host is taken for a guest's output.
PaidToAll(outs) == {i \in DOMAIN outs : outs[i][2] > 0}

\* The outputs of detect_host_share that are not the host's own.
PaidToGuests(outs) == {i \in DOMAIN outs : outs[i][2] > 0 /\ outs[i][1] # Host}

\* detect_host_share: guests are paid one amount, and some percentage gives
\* what they are paid together.
Detect(amount, outs) ==
    LET paid == PaidToGuests(outs)
        each == outs[CHOOSE i \in paid : TRUE][2]
        pot == each * Cardinality(paid)
        percent == PercentForPot(amount, pot)
    IN
    IF \/ paid = {} \/ Cardinality(paid) > MaxGuests
       \/ \E i \in paid : outs[i][2] # each
       \/ percent = 0
    THEN None
    ELSE <<percent, pot, each, Cardinality(paid)>>
===============================================================================
