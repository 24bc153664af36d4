--------------------------- MODULE TransferPromise ---------------------------
(***************************************************************************)
(* What the session of a transfer promises, with no closures, callers or   *)
(* network: the WormholeDepositResult of a deposit (packages/sdk/src/       *)
(* internal/helpers/deposit.ts), which C3 takes, and the                    *)
(* WormholeWithdrawResult of a withdrawal (entities/account.ts), which the  *)
(* destination chain redeems. The other side takes the transfer at most     *)
(* once, and the session reports it redeemed only after that, for ever.     *)
(***************************************************************************)
VARIABLES
    taken,      \* the other side has taken the transfer
    reported    \* the session says that it was redeemed

vars == <<taken, reported>>

Init == taken = FALSE /\ reported = FALSE

Take ==
    /\ ~taken
    /\ taken' = TRUE
    /\ UNCHANGED reported

Report ==
    /\ taken
    /\ ~reported
    /\ reported' = TRUE
    /\ UNCHANGED taken

Next == Take \/ Report

Spec == Init /\ [][Next]_vars
==============================================================================
