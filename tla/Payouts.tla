------------------------------- MODULE Payouts -------------------------------
(***************************************************************************)
(* What a block pays and what becomes of it, as the explorer counts it:     *)
(* blocks pay their subsidy to the winners of their lottery, one after      *)
(* another, and a winner spends a win, as a share with guests by the        *)
(* wallet's rule or otherwise.  The closed forms of Emission are compared   *)
(* with the sum of the payments, and the detection of HostShare with what   *)
(* the winner did.  A spend is modelled by its outputs, <<address, amount>>.*)
(***************************************************************************)
EXTENDS Emission, HostShare

CONSTANTS
    Intervals,  \* halving intervals of the networks
    Percents,   \* the percentages a host may choose
    Guests,     \* numbers of guests a wallet may pay; more than MaxGuests too
    Amounts,    \* the amounts of an ordinary payment
    MaxHeight   \* bound on the heights

ASSUME PayoutsAssumption ==
    /\ Intervals \subseteq Nat \ {0} /\ MaxHeight \in Nat
    /\ Percents \subseteq 1 .. 100
    /\ Guests \subseteq Nat \ {0} /\ Amounts \subseteq Nat \ {0}

VARIABLES
    interval,   \* of the network
    height,     \* of the tip
    issued,     \* what the blocks have paid
    parts,      \* how the last subsidy was divided
    win,        \* the win that is spent, 0 for none
    sent,       \* the wallet's share, <<percent, guests>>, or None for another spend
    outputs,    \* the outputs of the spend
    tag         \* what detect_host_share says of it

chain == <<interval, height, issued, parts>>
vars == <<chain, win, sent, outputs, tag>>

Init ==
    /\ interval \in Intervals /\ height = 0 /\ issued = 0 /\ parts = <<>>
    /\ win = 0 /\ sent = None /\ outputs = <<>> /\ tag = None

\* A block pays its subsidy.
Block ==
    LET subsidy == SubsidyAt(height + 1, interval) IN
    /\ height < MaxHeight
    /\ height' = height + 1
    /\ issued' = issued + subsidy
    /\ parts' = SplitReward(subsidy, WinnerCount(height + 1, interval))
    /\ win' = 0 /\ sent' = None /\ outputs' = <<>> /\ tag' = None
    /\ UNCHANGED interval

\* The wallet's outputs for an amount to each of k guests, the change last.
Pay(amount, each, k) ==
    LET change == amount - each * k
    IN [i \in 1 .. k |-> <<i, each>>] \o (IF change > 0 THEN <<<<Host, change>>>> ELSE <<>>)

\* The winner of amount w sends a share of it to k guests.
SendShare(w, p, k) ==
    LET each == GuestShare(GuestPot(w, p), k) IN
    /\ win = 0
    /\ each > 0
    /\ win' = w
    /\ sent' = <<p, k>>
    /\ outputs' = Pay(w, each, k)
    /\ tag' = Detect(w, outputs')
    /\ UNCHANGED chain

\* The win pays for something else: one or two amounts and change.
SpendWin(w, a, b) ==
    /\ win = 0
    /\ a + b <= w
    /\ win' = w
    /\ outputs' = <<<<1, a>>, <<2, b>>, <<Host, w - a - b>>>>
    /\ tag' = Detect(w, outputs')
    /\ UNCHANGED <<chain, sent>>

Next ==
    \/ Block
    \/ \E w \in {parts[m] : m \in DOMAIN parts} :
          \/ \E p \in Percents, k \in Guests : SendShare(w, p, k)
          \/ \E a \in Amounts, b \in Amounts \cup {0} : SpendWin(w, a, b)

Spec == Init /\ [][Next]_vars

-------------------------------------------------------------------------------

\* "Spendable subsidy issued from height 1 through height": the closed form is
\* what the blocks have paid, at every height of every network, eras' ends
\* included; and once the last paying height is passed, and not before, everything
\* the schedule will ever pay is paid ("max" of the supply page).
SupplyExact ==
    /\ Circulating(height, interval) = issued
    /\ height >= LastPayingHeight(interval) <=> issued = LifetimeSupply(interval)

\* Winners get the whole subsidy, and no two of them differ by more than one
\* indivisible unit.
SplitConserves ==
    parts # <<>> =>
        /\ Total(parts) = SubsidyAt(height, interval)
        /\ \A m, n \in DOMAIN parts : parts[m] - parts[n] <= 1

\* "The explorer tags a spend only when the amounts match that wallet math": the
\* tagged pot is all that went to others, in equal parts, and is the tagged
\* percentage of the win.
TagSound ==
    LET toOthers(o) == IF o[1] # Host THEN o[2] ELSE 0 IN
    tag # None =>
        /\ tag[2] = Total([i \in DOMAIN outputs |-> toOthers(outputs[i])])
        /\ tag[2] = tag[3] * tag[4]
        /\ tag[2] = (win * tag[1]) \div 100
        /\ tag[2] <= win

\* A share whose pot divides evenly among at most MAX_GUESTS guests is tagged
\* with that pot, and with the percentage the host chose unless the win is so
\* small that two percentages give the same pot.
EvenShareTagged ==
    sent # None =>
        LET pot == GuestPot(win, sent[1]) IN
        pot % sent[2] = 0 /\ sent[2] <= MaxGuests =>
            /\ tag # None /\ tag[2] = pot /\ tag[4] = sent[2]
            /\ win >= 100 => tag[1] = sent[1]
===============================================================================
