-------------------------- MODULE WormholeWithdraw --------------------------
(***************************************************************************)
(* The session that Account.withdraw returns once the server has taken the  *)
(* withdrawal (packages/sdk/src/entities/account.ts): closures over         *)
(* vaaSequence, vaaSignature and wasRedeemed that follow the transfer from  *)
(* Algorand to an EVM chain or Solana and redeem it there with the          *)
(* account's signer. A withdrawal to Algorand has isTransferCompleted only. *)
(* Calls overlap at their awaits; each await is a step boundary.            *)
(*                                                                         *)
(* The chains, the guardians and other relayers are external. A redeem on   *)
(* Solana is the one of module SolanaRedeem with a progress object of its   *)
(* own, seen from outside: it may land, and then still end in an error; or  *)
(* the chain takes its last transaction with an error that nobody reads,    *)
(* and it ends as if it had landed.                                         *)
(* The session keeps the promise that a deposit's keeps (TransferPromise).  *)
(***************************************************************************)
EXTENDS Naturals

CONSTANT Callers    \* concurrent invocations of the session's closures

VARIABLES
    destinationChain,   \* "algorand", "evm" or "solana": constant of a session
    messageSigner,      \* constant: "evm", "solana", or "other" (Algorand, or no connection)
    isCCTP,             \* constant
    sequenceKnown,  \* vaaSequence is defined
    hasVaa,         \* vaaSignature is defined
    wasRedeemed,
    op,             \* caller -> the closure it called last
    pc,             \* caller -> the await it is suspended at, or "idle"
    bounded,        \* caller -> the VAA fetch has a retry limit
    provider,       \* caller -> it passed a provider of the destination's kind
    result,         \* caller -> how its last call ended, "none" during a call
    confirmed,      \* external: Algorand has confirmed the operation
    signed,         \* external: the guardians have signed the message
    tokenAccount,   \* external: the Solana token account exists
    redeemed,       \* external: the destination chain has redeemed the VAA
    afterLanding,   \* history: caller -> its call, or one before it, began with
                    \* redeemed and hasVaa
    misreported     \* history: wasRedeemed was set after a redeem that failed on
                    \* Solana, while the VAA was not redeemed

constants == <<destinationChain, messageSigner, isCCTP>>
session == <<sequenceKnown, hasVaa, wasRedeemed>>
callVars == <<op, pc, bounded, provider, result>>
outside == <<confirmed, signed, tokenAccount, redeemed>>
history == <<afterLanding, misreported>>
vars == <<constants, session, callVars, outside, history>>

Ops == {"getVAASequence", "waitForWormholeVAA", "isTransferCompleted", "redeemWormholeVAA"}
Redeeming == {"tokenAccount", "newTokenAccount", "evmTx", "evmLanded", "solanaTx", "solanaLanded"}
Awaits == {"confirm", "sequence", "haveSequence", "fetch", "gotVaa", "chain"} \cup Redeeming

TypeOK ==
    /\ destinationChain \in {"algorand", "evm", "solana"}
    /\ messageSigner \in {"evm", "solana", "other"}
    /\ isCCTP \in BOOLEAN
    /\ sequenceKnown \in BOOLEAN /\ hasVaa \in BOOLEAN /\ wasRedeemed \in BOOLEAN
    /\ op \in [Callers -> Ops]
    /\ pc \in [Callers -> Awaits \cup {"idle"}]
    /\ bounded \in [Callers -> BOOLEAN] /\ provider \in [Callers -> BOOLEAN]
    /\ result \in [Callers -> {"none", "ok", "true", "false", "error"}]
    /\ confirmed \in BOOLEAN /\ signed \in BOOLEAN
    /\ tokenAccount \in BOOLEAN /\ redeemed \in BOOLEAN
    /\ afterLanding \in [Callers -> BOOLEAN] /\ misreported \in BOOLEAN
    /\ hasVaa => sequenceKnown /\ signed
    /\ \A c \in Callers : pc[c] \in Redeeming \cup {"gotVaa", "chain"} => hasVaa

Init ==
    /\ destinationChain \in {"algorand", "evm", "solana"}
    /\ messageSigner \in {"evm", "solana", "other"}
    /\ isCCTP \in IF destinationChain = "algorand" THEN {FALSE} ELSE BOOLEAN
    /\ sequenceKnown = FALSE /\ hasVaa = FALSE /\ wasRedeemed = FALSE
    /\ op = [c \in Callers |-> "isTransferCompleted"]
    /\ pc = [c \in Callers |-> "idle"]
    /\ bounded = [c \in Callers |-> TRUE]
    /\ provider = [c \in Callers |-> FALSE]
    /\ result = [c \in Callers |-> "none"]
    /\ confirmed = FALSE /\ signed = FALSE /\ redeemed = FALSE
    /\ tokenAccount \in IF destinationChain = "solana" THEN BOOLEAN ELSE {FALSE}
    /\ afterLanding = [c \in Callers |-> FALSE] /\ misreported = FALSE

----------------------------------------------------------------------------

Await(c, at) ==
    /\ pc' = [pc EXCEPT ![c] = at]
    /\ result' = [result EXCEPT ![c] = "none"]

Settle(c, r) ==
    /\ pc' = [pc EXCEPT ![c] = "idle"]
    /\ result' = [result EXCEPT ![c] = r]

Begin(c, o, b, p) ==
    /\ pc[c] = "idle"
    /\ destinationChain = "algorand" => o = "isTransferCompleted"
    /\ op' = [op EXCEPT ![c] = o]
    /\ bounded' = [bounded EXCEPT ![c] = b]
    /\ provider' = [provider EXCEPT ![c] = p]
    /\ afterLanding' = [afterLanding EXCEPT ![c] =
            (redeemed /\ hasVaa) \/ \E d \in Callers : afterLanding[d]]
    /\ UNCHANGED <<constants, session, outside, misreported>>

AwaitSequence(c) == Await(c, IF sequenceKnown THEN "haveSequence" ELSE "sequence")

FailLookup(c) ==
    Settle(c, IF op[c] = "isTransferCompleted" THEN "false" ELSE "error")

----------------------------------------------------------------------------
(* The closures up to their first await.                                    *)

GetVAASequence(c) ==
    /\ Begin(c, "getVAASequence", TRUE, FALSE)
    /\ IF sequenceKnown THEN Settle(c, "ok") ELSE Await(c, "sequence")

WaitForWormholeVAA(c, b) == Begin(c, "waitForWormholeVAA", b, FALSE) /\ AwaitSequence(c)

\* isSolanaTransferComplete or isEthereumTransferComplete needs the caller's
\* provider or a signer of the destination's kind.
AskChain(c, p) ==
    IF p \/ messageSigner = destinationChain THEN Await(c, "chain") ELSE Settle(c, "error")

PollKeepsNoLimit(b) == b    \* mutant

\* `maxRetryCount || 1`
PollIsBounded(b) == TRUE

IsTransferCompleted(c, b, p) ==
    /\ Begin(c, "isTransferCompleted", PollIsBounded(b), p)
    /\ IF destinationChain = "algorand" THEN Await(c, "confirm")
       ELSE IF wasRedeemed THEN Settle(c, "true")
       ELSE IF hasVaa THEN AskChain(c, p)
       ELSE AwaitSequence(c)

\* The transaction a redeem sends first. A signer of another kind than the
\* destination fails on the address, or is not supported.
StartRedeem(c) ==
    IF messageSigner # destinationChain THEN Settle(c, "error")
    ELSE Await(c, IF messageSigner = "evm" THEN "evmTx" ELSE "tokenAccount")

RedeemWormholeVAA(c, b) ==
    /\ Begin(c, "redeemWormholeVAA", b, FALSE)
    /\ IF isCCTP THEN Settle(c, "ok")
       ELSE IF wasRedeemed THEN Settle(c, "error")
       ELSE IF hasVaa THEN StartRedeem(c)
       ELSE AwaitSequence(c)

----------------------------------------------------------------------------
(* What the closures do when an await resumes.                              *)

Resume(c, at) ==
    /\ pc[c] = at
    /\ UNCHANGED <<constants, op, bounded, provider, confirmed, signed, afterLanding>>

\* To Algorand: waitForConfirmation(id), any failure of which is a false.
Confirmed(c) ==
    /\ Resume(c, "confirm")
    /\ \/ confirmed /\ Settle(c, "true")
       \/ Settle(c, "false")
    /\ UNCHANGED <<session, tokenAccount, redeemed, misreported>>

SequenceFound(c) ==
    /\ Resume(c, "sequence")
    /\ confirmed
    /\ sequenceKnown' = TRUE
    /\ IF op[c] = "getVAASequence" THEN Settle(c, "ok") ELSE Await(c, "haveSequence")
    /\ UNCHANGED <<hasVaa, wasRedeemed, tokenAccount, redeemed, misreported>>

\* waitForConfirmation gives up after ROUNDS_TO_WAIT, or the lookup fails.
SequenceNotFound(c) ==
    /\ Resume(c, "sequence")
    /\ FailLookup(c)
    /\ UNCHANGED <<session, tokenAccount, redeemed, misreported>>

ReturnVaa(c) == IF op[c] = "waitForWormholeVAA" THEN Settle(c, "ok") ELSE Await(c, "gotVaa")

ContinueWithSequence(c) ==
    /\ Resume(c, "haveSequence")
    /\ IF hasVaa THEN ReturnVaa(c) ELSE Await(c, "fetch")
    /\ UNCHANGED <<session, tokenAccount, redeemed, misreported>>

FetchVaa(c) ==
    /\ Resume(c, "fetch")
    /\ signed
    /\ hasVaa' = TRUE
    /\ ReturnVaa(c)
    /\ UNCHANGED <<sequenceKnown, wasRedeemed, tokenAccount, redeemed, misreported>>

FetchFailureDropsVaa(c) ==  \* mutant: the catch clears vaaSignature
    /\ Resume(c, "fetch")
    /\ bounded[c]
    /\ FailLookup(c)
    /\ hasVaa' = FALSE
    /\ UNCHANGED <<sequenceKnown, wasRedeemed, tokenAccount, redeemed, misreported>>

\* Without a limit the guardians are asked again for ever.
FetchGivesUp(c) ==
    /\ Resume(c, "fetch")
    /\ bounded[c]
    /\ FailLookup(c)
    /\ UNCHANGED <<session, tokenAccount, redeemed, misreported>>

ContinueWithVaa(c) ==
    /\ Resume(c, "gotVaa")
    /\ IF op[c] = "isTransferCompleted" THEN AskChain(c, provider[c]) ELSE StartRedeem(c)
    /\ UNCHANGED <<session, tokenAccount, redeemed, misreported>>

\* A query of the destination chain that fails is not caught.
ChainAnswer(c) ==
    /\ Resume(c, "chain")
    /\ \/ Settle(c, IF redeemed THEN "true" ELSE "false")
       \/ Settle(c, "error")
    /\ UNCHANGED <<session, tokenAccount, redeemed, misreported>>

Redeemed(c, landed) ==
    /\ Resume(c, landed)
    /\ wasRedeemed' = TRUE
    /\ Settle(c, "ok")
    /\ UNCHANGED <<sequenceKnown, hasVaa, tokenAccount, redeemed, misreported>>

\* The transaction failed, or it landed and its receipt or its status is lost.
RedeemFails(c, sent, landed) ==
    /\ Resume(c, sent) \/ Resume(c, landed)
    /\ Settle(c, "error")
    /\ UNCHANGED <<session, tokenAccount, redeemed, misreported>>

\* mutant: the status of the receipt is not looked at
ReceiptIgnored(c) == Redeemed(c, "evmTx") \/ Redeemed(c, "evmLanded") \/ RedeemFails(c, "evmTx", "evmLanded")

\* The receipt of createWormholeTxForEthereumRedeem.
EvmReceipt(c) == Redeemed(c, "evmLanded") \/ RedeemFails(c, "evmTx", "evmLanded")

\* createSolanaAtaAccount: getAccountInfo(associatedTokenAddress)
TokenAccountChecked(c) ==
    /\ Resume(c, "tokenAccount")
    /\ \/ Await(c, IF tokenAccount THEN "solanaTx" ELSE "newTokenAccount")
       \/ Settle(c, "error")
    /\ UNCHANGED <<session, tokenAccount, redeemed, misreported>>

\* The account is created unless another call did so meanwhile, which fails this
\* one. confirmTransaction reports a transaction that failed on the chain in a
\* value that nobody reads: the redeem goes on.
TokenAccountCreated(c) ==
    /\ Resume(c, "newTokenAccount")
    /\ \/ ~tokenAccount /\ tokenAccount' \in BOOLEAN /\ Await(c, "solanaTx")
       \/ tokenAccount' \in {tokenAccount, TRUE} /\ Settle(c, "error")
    /\ UNCHANGED <<session, redeemed, misreported>>

\* The chain took the redeem's last transaction with an error that is not read:
\* createWormholeTxForSolanaRedeem returns its signature all the same.
RedeemedWithError(c) ==
    /\ Resume(c, "solanaTx")
    /\ wasRedeemed' = TRUE
    /\ misreported' = (misreported \/ ~redeemed)
    /\ Settle(c, "ok")
    /\ UNCHANGED <<sequenceKnown, hasVaa, tokenAccount, redeemed>>

\* The end of createWormholeTxForSolanaRedeem: module SolanaRedeem.
SolanaRedeems(c) ==
    \/ Redeemed(c, "solanaLanded") \/ RedeemFails(c, "solanaTx", "solanaLanded")
    \/ RedeemedWithError(c)

----------------------------------------------------------------------------
(* External.                                                                *)

AlgorandConfirms ==
    /\ ~confirmed
    /\ confirmed' = TRUE
    /\ UNCHANGED <<constants, session, callVars, signed, tokenAccount, redeemed, history>>

GuardiansSign ==
    /\ confirmed /\ ~signed
    /\ signed' = TRUE
    /\ UNCHANGED <<constants, session, callVars, confirmed, tokenAccount, redeemed, history>>

\* A redeem that a call has sent lands: an EVM transaction, or the last one of a
\* redeem on Solana, where the token account must exist.
RedeemLands(c) ==
    /\ ~redeemed /\ redeemed' = TRUE
    /\ \/ pc[c] = "evmTx" /\ pc' = [pc EXCEPT ![c] = "evmLanded"]
       \/ pc[c] = "solanaTx" /\ tokenAccount /\ pc' = [pc EXCEPT ![c] = "solanaLanded"]
    /\ UNCHANGED <<constants, session, op, bounded, provider, result, confirmed, signed, tokenAccount, history>>

SomebodyRedeems ==
    /\ signed /\ ~redeemed /\ destinationChain # "algorand"
    /\ redeemed' = TRUE
    /\ UNCHANGED <<constants, session, callVars, confirmed, signed, tokenAccount, history>>

----------------------------------------------------------------------------

Call(c) ==
    \/ GetVAASequence(c)
    \/ \E b \in BOOLEAN : \/ WaitForWormholeVAA(c, b)
                          \/ RedeemWormholeVAA(c, b)
                          \/ \E p \in BOOLEAN : IsTransferCompleted(c, b, p)

Continue(c) ==
    \/ Confirmed(c) \/ SequenceFound(c) \/ SequenceNotFound(c) \/ ContinueWithSequence(c)
    \/ FetchVaa(c) \/ FetchGivesUp(c) \/ ContinueWithVaa(c) \/ ChainAnswer(c)
    \/ EvmReceipt(c) \/ TokenAccountChecked(c) \/ TokenAccountCreated(c) \/ SolanaRedeems(c)

Next ==
    \/ \E c \in Callers : Call(c) \/ Continue(c) \/ RedeemLands(c)
    \/ AlgorandConfirms \/ GuardiansSign \/ SomebodyRedeems

Spec == Init /\ [][Next]_vars

\* The event loop runs every continuation, and every request is answered or times
\* out, but for a VAA fetch without a limit and for the receipt of an EVM
\* transaction, which may never be mined. A Solana wallet signs or refuses.
Fairness == \A c \in Callers : WF_vars(pc[c] # "evmTx" /\ Continue(c))

FairSpec == Spec /\ Fairness

----------------------------------------------------------------------------

\* The session believes in a redeem of its own only once the destination chain
\* made it, and for ever after: not if the receipt had no status, nor if another
\* relayer was first.  The transfer is redeemed once, whoever does it.  The one
\* report that is not believed here is that of a redeem which failed on Solana
\* with its error unread, before anyone had redeemed the VAA.
Promise == INSTANCE TransferPromise WITH
    taken <- redeemed, reported <- wasRedeemed /\ ~misreported
KeepsPromise == Promise!Spec

\* A transfer that has landed is never denied once a call found it landed and
\* the VAA in the session: whatever fails afterwards, other calls' fetches and
\* lost confirmations included, each later isTransferCompleted answers true or
\* throws.
LandedIsNeverDenied ==
    \A c \in Callers : afterLanding[c] /\ pc[c] = "idle" => result[c] # "false"

\* A poll always ends, even if the guardians never sign; every other call ends
\* once they have signed, but for a redeem whose EVM transaction is never mined:
\* nothing limits the wait for its receipt.
CallsSettle ==
    \A c \in Callers :
        pc[c] # "idle" /\ (op[c] = "isTransferCompleted" \/ signed)
            ~> pc[c] \in {"idle", "evmTx"}

==============================================================================
