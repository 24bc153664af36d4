---------------------------- MODULE MCC3Session ----------------------------
EXTENDS C3Session, TLC

CONSTANTS c1, l1, l2

MCInstruments == <<30, 10, 20>>

One(kind, asset, amount) == [kind |-> kind, give |-> << <<asset, amount>> >>, take |-> <<>>]
\* The second liquidation asks twice for one asset, and 20 is listed later.
MCRequests ==
    {One("lend", 10, 1), One("redeem", 30, 1), One("borrow", 20, 1), One("repay", 10, -1),
     One("withdraw", 10, 1), One("deposit", 30, 1),
     [kind |-> "order", give |-> << <<30, 1>> >>, take |-> << <<10, 2>> >>],
     [kind |-> "liquidate", give |-> << <<10, 1>>, <<30, 2>>, <<10, 3>> >>, take |-> << <<10, -1>>, <<30, 1>> >>]}
MCSymmetry == Permutations({l1, l2})
=============================================================================
