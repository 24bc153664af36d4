--------------------------- MODULE WormholeDeposit ---------------------------
(***************************************************************************)
(* The deposit session that prepareWormholeDeposit returns                 *)
(* (packages/sdk/src/internal/helpers/deposit.ts): five asynchronous       *)
(* closures over the variables vaaSequence, vaaSignature and wasRedeemed.  *)
(* A caller may start one while others are suspended at an await, so every *)
(* await is a step boundary here; the code between two awaits is one step. *)
(*                                                                         *)
(* The guardians, the C3 server and the Algorand node are external: they   *)
(* answer late, not at all, or with an error.                              *)
(***************************************************************************)
EXTENDS Naturals

CONSTANTS
    Callers,        \* concurrent invocations of the session's closures
    SignedVAAs,     \* byte strings the guardians may return for the message
    None,           \* undefined
    Empty           \* the empty Uint8Array of a CCTP transfer

ASSUME VaaAssumption ==
    /\ None \notin SignedVAAs
    /\ Empty \notin SignedVAAs
    /\ None # Empty

VARIABLES
    isCCTP,         \* the transfer goes through Circle: constant of a session
    sequenceKnown,  \* vaaSequence is defined
    vaaSignature,   \* the cached VAA, or None
    wasRedeemed,    \* the session's own redeem succeeded
    op,             \* caller -> the closure it called last
    pc,             \* caller -> the await it is suspended at, or "idle"
    bounded,        \* caller -> the VAA fetch has a retry limit
    vaaOf,          \* caller -> the VAA it carries over an await
    result,         \* caller -> how its last call ended
    signed,         \* external: the guardians have signed the message
    accepted,       \* external: the C3 server accepted the deposit
    settled,        \* external: Algorand has the transfer as completed
    completionSeen, \* history: some isTransferCompleted() returned true
    afterSeen,      \* history: caller -> its call began after completionSeen
    afterRedeem     \* history: caller -> its call began after wasRedeemed

session == <<isCCTP, sequenceKnown, vaaSignature, wasRedeemed>>
history == <<completionSeen, afterSeen, afterRedeem>>
outside == <<signed, accepted, settled>>
callVars == <<op, pc, bounded, vaaOf, result>>
vars == <<session, callVars, outside, history>>

Ops == {"getVAASequence", "waitForWormholeVAA", "isVaaEnqueued",
        "isTransferCompleted", "redeemAndSubmitWormholeVAA"}
Awaits == {"sequence", "haveSequence", "fetch", "gotVaa", "enqueued", "chain",
           "submit", "accepted", "rejected"}
Results == {"none", "ok", "true", "false", "error"}

TypeOK ==
    /\ isCCTP \in BOOLEAN /\ sequenceKnown \in BOOLEAN /\ wasRedeemed \in BOOLEAN
    /\ vaaSignature \in SignedVAAs \cup {None, Empty}
    /\ op \in [Callers -> Ops]
    /\ pc \in [Callers -> Awaits \cup {"idle"}]
    /\ bounded \in [Callers -> BOOLEAN]
    /\ vaaOf \in [Callers -> SignedVAAs \cup {None, Empty}]
    /\ result \in [Callers -> Results]
    /\ signed \in BOOLEAN /\ accepted \in BOOLEAN /\ settled \in BOOLEAN
    /\ completionSeen \in BOOLEAN
    /\ afterSeen \in [Callers -> BOOLEAN] /\ afterRedeem \in [Callers -> BOOLEAN]
    /\ \A c \in Callers : pc[c] \in {"chain", "submit"} => vaaOf[c] # None

Init ==
    /\ isCCTP \in BOOLEAN
    /\ sequenceKnown = FALSE /\ vaaSignature = None /\ wasRedeemed = FALSE
    /\ op = [c \in Callers |-> "getVAASequence"]
    /\ pc = [c \in Callers |-> "idle"]
    /\ bounded = [c \in Callers |-> TRUE]
    /\ vaaOf = [c \in Callers |-> None]
    /\ result = [c \in Callers |-> "none"]
    /\ signed = FALSE /\ accepted = FALSE /\ settled = FALSE
    /\ completionSeen = FALSE
    /\ afterSeen = [c \in Callers |-> FALSE]
    /\ afterRedeem = [c \in Callers |-> FALSE]

----------------------------------------------------------------------------
(* Suspending at an await and settling a call's promise.                    *)

Await(c, at, vaa) ==
    /\ pc' = [pc EXCEPT ![c] = at]
    /\ vaaOf' = [vaaOf EXCEPT ![c] = vaa]
    /\ UNCHANGED <<result, completionSeen>>

\* Only isTransferCompleted settles with "true" or "false".
Settle(c, r) ==
    /\ pc' = [pc EXCEPT ![c] = "idle"]
    /\ vaaOf' = [vaaOf EXCEPT ![c] = None]
    /\ result' = [result EXCEPT ![c] = r]
    /\ completionSeen' = (completionSeen \/ r = "true")

\* A call starts: its first step also runs the code up to its first await.
Begin(c, o, b) ==
    /\ pc[c] = "idle"
    /\ op' = [op EXCEPT ![c] = o]
    /\ bounded' = [bounded EXCEPT ![c] = b]
    /\ afterSeen' = [afterSeen EXCEPT ![c] = completionSeen]
    /\ afterRedeem' = [afterRedeem EXCEPT ![c] = wasRedeemed]
    /\ UNCHANGED <<session, outside>>

\* getVAASequence() as the other closures await it.
AwaitSequence(c) == Await(c, IF sequenceKnown THEN "haveSequence" ELSE "sequence", None)

\* What a rejected sequence lookup or VAA fetch does to the call: only
\* isTransferCompleted has it inside a try, whose catch returns false.
FailLookup(c) ==
    Settle(c, IF op[c] = "isTransferCompleted" THEN "false" ELSE "error")

----------------------------------------------------------------------------
(* The five closures up to their first await.                               *)

GetVAASequence(c) ==
    /\ Begin(c, "getVAASequence", TRUE)
    /\ IF sequenceKnown THEN Settle(c, "ok") ELSE Await(c, "sequence", None)

WaitForWormholeVAA(c, b) == Begin(c, "waitForWormholeVAA", b) /\ AwaitSequence(c)

IsVaaEnqueued(c) == Begin(c, "isVaaEnqueued", TRUE) /\ AwaitSequence(c)

PollKeepsNoLimit(b) == b    \* mutant

\* `maxRetryCount || 1`: a poll without a limit gets one.
PollIsBounded(b) == TRUE

IsTransferCompleted(c, b) ==
    /\ Begin(c, "isTransferCompleted", PollIsBounded(b))
    /\ \/ wasRedeemed /\ Settle(c, "true")
       \/ ~wasRedeemed /\ vaaSignature = None /\ AwaitSequence(c)
       \/ ~wasRedeemed /\ vaaSignature # None /\ Await(c, "chain", vaaSignature)

RedeemWithoutCCTPGuard(c, b) ==  \* mutant
    /\ Begin(c, "redeemAndSubmitWormholeVAA", b)
    /\ \/ wasRedeemed /\ Settle(c, "error")
       \/ ~wasRedeemed /\ vaaSignature = None /\ AwaitSequence(c)
       \/ ~wasRedeemed /\ vaaSignature # None /\ Await(c, "submit", vaaSignature)

RedeemWithoutRedeemedGuard(c, b) ==  \* mutant
    /\ Begin(c, "redeemAndSubmitWormholeVAA", b)
    /\ \/ isCCTP /\ Settle(c, "ok")
       \/ ~isCCTP /\ vaaSignature = None /\ AwaitSequence(c)
       \/ ~isCCTP /\ vaaSignature # None /\ Await(c, "submit", vaaSignature)

RedeemAndSubmitWormholeVAA(c, b) ==
    /\ Begin(c, "redeemAndSubmitWormholeVAA", b)
    /\ \/ isCCTP /\ Settle(c, "ok")
       \/ ~isCCTP /\ wasRedeemed /\ Settle(c, "error")
       \/ ~isCCTP /\ ~wasRedeemed /\ vaaSignature = None /\ AwaitSequence(c)
       \/ ~isCCTP /\ ~wasRedeemed /\ vaaSignature # None /\ Await(c, "submit", vaaSignature)

----------------------------------------------------------------------------
(* What the closures do when an await resumes.                              *)

Resume(c, at) ==
    /\ pc[c] = at
    /\ UNCHANGED <<op, bounded, afterSeen, afterRedeem, isCCTP>>

\* The sequence is parsed from the receipt of the origin chain's transaction.
\* getVAASequence returns it; its caller among the closures resumes later.
SequenceFound(c) ==
    /\ Resume(c, "sequence")
    /\ sequenceKnown' = TRUE
    /\ IF op[c] = "getVAASequence" THEN Settle(c, "ok") ELSE Await(c, "haveSequence", None)
    /\ UNCHANGED <<vaaSignature, wasRedeemed, outside>>

SequenceNotFound(c) ==
    /\ Resume(c, "sequence")
    /\ FailLookup(c)
    /\ UNCHANGED <<sequenceKnown, vaaSignature, wasRedeemed, outside>>

\* waitForWormholeVAA returns vaa: to its user, or to the closure awaiting it.
ReturnVaa(c, vaa) ==
    IF op[c] = "waitForWormholeVAA" THEN Settle(c, "ok") ELSE Await(c, "gotVaa", vaa)

\* The rest of waitForWormholeVAA (or isVaaEnqueued) once the sequence is known.
ContinueWithSequence(c) ==
    /\ Resume(c, "haveSequence")
    /\ sequenceKnown' = TRUE
    /\ \/ op[c] = "isVaaEnqueued" /\ Await(c, "enqueued", None)
       \/ op[c] # "isVaaEnqueued" /\ isCCTP /\ ReturnVaa(c, Empty)
       \/ op[c] # "isVaaEnqueued" /\ ~isCCTP /\ vaaSignature # None
            /\ ReturnVaa(c, vaaSignature)
       \/ op[c] # "isVaaEnqueued" /\ ~isCCTP /\ vaaSignature = None /\ Await(c, "fetch", None)
    /\ UNCHANGED <<vaaSignature, wasRedeemed, outside>>

EnqueuedAnswer(c) ==
    /\ Resume(c, "enqueued")
    /\ \E r \in {"ok", "error"} : Settle(c, r)
    /\ UNCHANGED <<sequenceKnown, vaaSignature, wasRedeemed, outside>>

FetchVaa(c) ==
    /\ Resume(c, "fetch")
    /\ signed
    /\ \E vaa \in SignedVAAs : vaaSignature' = vaa /\ ReturnVaa(c, vaa)
    /\ UNCHANGED <<sequenceKnown, wasRedeemed, outside>>

\* Without a limit getSignedVAAWithRetry asks the guardians again for ever.
FetchGivesUp(c) ==
    /\ Resume(c, "fetch")
    /\ bounded[c]
    /\ FailLookup(c)
    /\ UNCHANGED <<sequenceKnown, vaaSignature, wasRedeemed, outside>>

MarkRedeemedBeforeSubmit(c) ==  \* mutant: the flag is set before the await
    /\ Resume(c, "gotVaa")
    /\ vaaSignature' = vaaOf[c]
    /\ wasRedeemed' = (op[c] # "isTransferCompleted")
    /\ Await(c, IF op[c] = "isTransferCompleted" THEN "chain" ELSE "submit", vaaOf[c])
    /\ UNCHANGED <<sequenceKnown, outside>>

\* `vaaSignature = await waitForWormholeVAA(...)` and the code after it.
ContinueWithVaa(c) ==
    /\ Resume(c, "gotVaa")
    /\ vaaSignature' = vaaOf[c]
    /\ Await(c, IF op[c] = "isTransferCompleted" THEN "chain" ELSE "submit", vaaOf[c])
    /\ UNCHANGED <<sequenceKnown, wasRedeemed, outside>>

\* The node answers for the VAA of this deposit; it cannot parse the empty one,
\* and a failed query is not caught.
ChainAnswer(c) ==
    /\ Resume(c, "chain")
    /\ \/ vaaOf[c] # Empty /\ Settle(c, IF settled THEN "true" ELSE "false")
       \/ Settle(c, "error")
    /\ UNCHANGED <<sequenceKnown, vaaSignature, wasRedeemed, outside>>

\* External: the server takes a deposit once; it may answer a second request
\* for the same one with an error or with the operation it already has.
ServerAccepts(c) ==
    /\ Resume(c, "submit")
    /\ vaaOf[c] \in SignedVAAs
    /\ accepted' = TRUE
    /\ Await(c, "accepted", vaaOf[c])
    /\ UNCHANGED <<sequenceKnown, vaaSignature, wasRedeemed, signed, settled>>

ServerRejects(c) ==
    /\ Resume(c, "submit")
    /\ Await(c, "rejected", vaaOf[c])
    /\ UNCHANGED <<sequenceKnown, vaaSignature, wasRedeemed, outside>>

\* `const { id } = await submitWormholeVAA(...); wasRedeemed = true; return id`
SubmitSucceeds(c) ==
    /\ Resume(c, "accepted")
    /\ wasRedeemed' = TRUE
    /\ Settle(c, "ok")
    /\ UNCHANGED <<sequenceKnown, vaaSignature, outside>>

FailedSubmitMarksRedeemed(c) ==  \* mutant: the flag is set in a finally block
    /\ pc[c] \in {"accepted", "rejected"}
    /\ Resume(c, pc[c])
    /\ Settle(c, "error")
    /\ wasRedeemed' = TRUE
    /\ UNCHANGED <<sequenceKnown, vaaSignature, outside>>

FailedSubmitDropsVaa(c) ==  \* mutant: a failed submit discards the cached VAA
    /\ pc[c] \in {"accepted", "rejected"}
    /\ Resume(c, pc[c])
    /\ Settle(c, "error")
    /\ vaaSignature' = None
    /\ UNCHANGED <<sequenceKnown, wasRedeemed, outside>>

\* The request failed, or its answer was lost: the await throws.
SubmitFails(c) ==
    /\ pc[c] \in {"accepted", "rejected"}
    /\ Resume(c, pc[c])
    /\ Settle(c, "error")
    /\ UNCHANGED <<sequenceKnown, vaaSignature, wasRedeemed, outside>>

----------------------------------------------------------------------------

GuardiansSign ==
    /\ ~signed
    /\ signed' = TRUE
    /\ UNCHANGED <<session, callVars, history, accepted, settled>>

TransferSettles ==
    /\ accepted /\ ~settled
    /\ settled' = TRUE
    /\ UNCHANGED <<session, callVars, history, signed, accepted>>

Call(c) ==
    \/ GetVAASequence(c)
    \/ IsVaaEnqueued(c)
    \/ \E b \in BOOLEAN : \/ WaitForWormholeVAA(c, b)
                          \/ IsTransferCompleted(c, b)
                          \/ RedeemAndSubmitWormholeVAA(c, b)

Continue(c) ==
    \/ SequenceFound(c) \/ SequenceNotFound(c) \/ ContinueWithSequence(c)
    \/ EnqueuedAnswer(c) \/ FetchVaa(c) \/ FetchGivesUp(c) \/ ContinueWithVaa(c)
    \/ ChainAnswer(c) \/ ServerAccepts(c) \/ ServerRejects(c)
    \/ SubmitSucceeds(c) \/ SubmitFails(c)

Next ==
    \/ \E c \in Callers : Call(c) \/ Continue(c)
    \/ GuardiansSign
    \/ TransferSettles

Spec == Init /\ [][Next]_vars

\* Every request that is not a VAA fetch is answered or times out, and the event
\* loop runs every continuation. Nobody promises that the guardians sign, that
\* the server accepts, or that the user calls again.
Fairness == \A c \in Callers : WF_vars(Continue(c))

FairSpec == Spec /\ Fairness

----------------------------------------------------------------------------

\* Nothing a caller is told "redeemed" for is missing from C3: the flag that
\* makes isTransferCompleted answer true without asking the chain, and makes a
\* further redeem throw, is up only if the server took the deposit.
RedeemedMeansAccepted == wasRedeemed => accepted

\* Once some isTransferCompleted() has answered true, no call that begins later
\* answers false: the flag and the cached VAA outlive every later failure.
CompletionNeverRetracted ==
    \A c \in Callers : afterSeen[c] => result[c] # "false" \/ pc[c] # "idle"

\* What reaches the server is a VAA the guardians signed, never the undefined
\* or the empty value that a cached CCTP poll leaves behind.
OnlySignedVaaSubmitted ==
    \A c \in Callers :
        pc[c] \in {"submit", "accepted", "rejected"} =>
            ~isCCTP /\ signed /\ vaaOf[c] \in SignedVAAs

\* A redeem that begins after one succeeded submits nothing. (Two that overlap
\* may both submit: the flag is set only after the server's answer.)
RedeemedStaysQuiet ==
    \A c \in Callers :
        afterRedeem[c] => pc[c] \notin {"fetch", "gotVaa", "submit", "accepted", "rejected"}

\* A poll always ends, even if the guardians never sign; every other call ends
\* once they have signed.
CallsSettle ==
    \A c \in Callers :
        pc[c] # "idle" /\ (op[c] = "isTransferCompleted" \/ signed) ~> pc[c] = "idle"

\* The session keeps the promise of TransferPromise.
Promise == INSTANCE TransferPromise WITH taken <- accepted, reported <- wasRedeemed
KeepsPromise == Promise!Spec

==============================================================================
