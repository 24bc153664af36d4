---------------------------- MODULE SolanaRedeem ----------------------------
(***************************************************************************)
(* Redeeming a VAA on Solana: createWormholeTxForSolanaRedeem              *)
(* (packages/common/src/wormhole/service.ts) and the                       *)
(* custom_postVaaWithRetry it calls (wormhole/internal/                    *)
(* wrappedSolanaTokenBridge.ts). Several transactions verify the           *)
(* guardians' signatures into a fresh signature account, one posts the     *)
(* VAA, one redeems it. A caller that keeps the SolanaRedeemProgress       *)
(* object and calls again resumes where the last attempt failed; a caller  *)
(* that passes a zero one (Account.withdraw does, and a relayer that       *)
(* restarts) starts over.                                                  *)
(*                                                                         *)
(* Attempts on one progress object do not overlap: "The transactionProgress*)
(* object is modified in place, beware of any concurrency issues."         *)
(* A wallet may refuse to sign, or never be asked; a transaction that was  *)
(* sent may land with its confirmation lost. The chain may also take a     *)
(* transaction with an error: its confirmation is fulfilled, and the error *)
(* value in it is read nowhere. Anyone may post or redeem the VAA.         *)
(***************************************************************************)
EXTENDS Integers, FiniteSets

CONSTANTS
    SigTxs,         \* the transactions that verify signatures
    MaxFailures,    \* bound: what fails: queries, signatures, sends, errors on the chain
    MaxFreshStarts  \* bound: calls with a new progress object after the first

ASSUME SigTxsAssumption == IsFiniteSet(SigTxs) /\ SigTxs # {}
ASSUME BoundsAssumption == MaxFailures \in Nat /\ MaxFreshStarts \in Nat

VARIABLES
    pc,             \* where the attempt stands, or "idle"
    outcome,        \* transaction -> how its send ends in this attempt
    result,         \* how the last attempt ended
    \* the SolanaRedeemProgress
    built,          \* signers and postVaaTx are defined
    verifySigTxs,   \* transactions still to be confirmed
    hasSignature,   \* transactions whose `signature` is not null
    successTxCount,
    totalTxCount,
    \* external: the Solana chain
    landed,         \* transactions that wrote the current signature account
    posted,
    redeemed,
    \* history of the current progress object
    confirmed,      \* transactions whose confirmation was counted
    unsigned,       \* transactions whose send ended before they were ever signed
    erred,          \* transactions fulfilled although the chain refused them
    lateErrors,     \* posts and redeems counted although the chain refused them
    failures, freshStarts   \* bound counters

progress == <<built, verifySigTxs, hasSignature, successTxCount, totalTxCount>>
chain == <<landed, posted, redeemed>>
history == <<confirmed, unsigned, erred, lateErrors>>
bounds == <<failures, freshStarts>>
vars == <<pc, outcome, result, progress, chain, history, bounds>>

Total == Cardinality(SigTxs) + 2    \* verifySigs + postVAA + redeem

TypeOK ==
    /\ pc \in {"idle", "check", "build", "fees", "verify", "post", "postSent",
               "redeem", "redeemSent", "redeemLanded"}
    /\ outcome \in [SigTxs -> {"none", "signing", "sent", "ok", "failed"}]
    /\ result \in {"none", "signature", "error"}
    /\ built \in BOOLEAN
    /\ verifySigTxs \subseteq SigTxs /\ hasSignature \subseteq SigTxs
    /\ landed \subseteq hasSignature
    /\ successTxCount \in Nat /\ totalTxCount \in {0, 3, Total}
    /\ posted \in BOOLEAN /\ redeemed \in BOOLEAN
    /\ confirmed \subseteq SigTxs /\ unsigned \subseteq SigTxs /\ erred \subseteq SigTxs
    /\ lateErrors \in Nat
    /\ failures \in 0..MaxFailures /\ freshStarts \in 0..MaxFreshStarts
    /\ pc = "verify" <=> \E t \in SigTxs : outcome[t] # "none"

NoOutcome == [t \in SigTxs |-> "none"]

Init ==
    /\ pc = "idle" /\ outcome = NoOutcome /\ result = "none"
    /\ built = FALSE /\ verifySigTxs = {} /\ hasSignature = {}
    /\ successTxCount = 0 /\ totalTxCount = 0
    /\ landed = {} /\ posted = FALSE /\ redeemed = FALSE
    /\ confirmed = {} /\ unsigned = {} /\ erred = {} /\ lateErrors = 0
    /\ failures = 0 /\ freshStarts = 0

Throw == pc' = "idle" /\ result' = "error"

Failure == failures < MaxFailures /\ failures' = failures + 1 /\ UNCHANGED freshStarts

----------------------------------------------------------------------------
(* The attempt, from await to await.                                        *)

Retry ==
    /\ pc = "idle"
    /\ pc' = "check"
    /\ UNCHANGED <<outcome, result, progress, chain, history, bounds>>

StartOver ==
    /\ pc = "idle"
    /\ freshStarts < MaxFreshStarts
    /\ freshStarts' = freshStarts + 1
    /\ pc' = "check"
    /\ built' = FALSE /\ verifySigTxs' = {} /\ hasSignature' = {} /\ landed' = {}
    /\ successTxCount' = 0 /\ totalTxCount' = 0
    /\ confirmed' = {} /\ unsigned' = {} /\ erred' = {} /\ lateErrors' = 0
    /\ UNCHANGED <<outcome, result, posted, redeemed, failures>>

\* "This VAA has already been posted": a zero progress gets round figures.
VaaAlreadyPosted ==
    /\ pc = "check" /\ posted
    /\ successTxCount' = IF successTxCount = 0 THEN 2 ELSE successTxCount
    /\ totalTxCount' = IF totalTxCount = 0 THEN 3 ELSE totalTxCount
    /\ pc' = "redeem"
    /\ UNCHANGED <<outcome, result, built, verifySigTxs, hasSignature, chain, history, bounds>>

MustBuild == ~built \/ totalTxCount = 0 \/ successTxCount = 0

\* Promise.allSettled over the transactions left; with none left it is over at once.
SendAll(txs) ==
    /\ outcome' = [t \in SigTxs |-> IF t \in txs THEN "signing" ELSE "none"]
    /\ pc' = IF txs = {} THEN "post" ELSE "verify"

VaaNotPosted ==
    /\ pc = "check" /\ ~posted
    /\ \/ MustBuild /\ pc' = "build" /\ UNCHANGED outcome
       \/ ~MustBuild /\ verifySigTxs # {} /\ SendAll(verifySigTxs)
       \/ ~MustBuild /\ verifySigTxs = {} /\ successTxCount >= totalTxCount - 2
            /\ SendAll({})
    /\ UNCHANGED <<result, progress, chain, history, bounds>>

\* Nothing is left to send and too few were confirmed: every retry ends here.
NothingLeftToSend ==
    /\ pc = "check" /\ ~posted /\ ~MustBuild /\ verifySigTxs = {}
    /\ successTxCount < totalTxCount - 2
    /\ Throw
    /\ UNCHANGED <<outcome, progress, chain, history, bounds>>

\* createPostSignedVaaTransactions makes a new signature account.
Build ==
    /\ pc = "build"
    /\ built' = TRUE /\ verifySigTxs' = SigTxs /\ hasSignature' = {} /\ landed' = {}
    /\ pc' = "fees"
    /\ confirmed' = {} /\ unsigned' = {} /\ erred' = {} /\ lateErrors' = 0
    /\ UNCHANGED <<outcome, result, successTxCount, totalTxCount, posted, redeemed, bounds>>

AddFees ==
    /\ pc = "fees"
    /\ successTxCount' = 0
    /\ totalTxCount' = Cardinality(verifySigTxs) + 2
    /\ SendAll(verifySigTxs)
    /\ UNCHANGED <<result, built, verifySigTxs, hasSignature, chain, history, bounds>>

\* A query, or a signature outside the allSettled, fails: the attempt throws.
AttemptFails ==
    /\ pc \in {"check", "build", "fees", "post", "postSent", "redeem", "redeemSent",
               "redeemLanded"}
    /\ Throw
    /\ Failure
    /\ UNCHANGED <<outcome, progress, chain, history>>

Outcome(t, from, to) ==
    /\ outcome[t] = from
    /\ outcome' = [outcome EXCEPT ![t] = to]
    /\ UNCHANGED <<pc, result, built, verifySigTxs, successTxCount, totalTxCount, chain,
                   confirmed, lateErrors>>

\* The wallet signs the transaction object in place, and it is sent.
WalletSigns(t) ==
    /\ Outcome(t, "signing", "sent")
    /\ hasSignature' = hasSignature \cup {t}
    /\ UNCHANGED <<unsigned, erred, bounds>>

\* getLatestBlockhash fails before the wallet is asked, or the wallet refuses.
NotSigned(t) ==
    /\ Outcome(t, "signing", "failed")
    /\ Failure
    /\ unsigned' = unsigned \cup ({t} \ hasSignature)
    /\ UNCHANGED <<hasSignature, erred>>

SendConfirmed(t) ==
    /\ t \in landed
    /\ Outcome(t, "sent", "ok")
    /\ UNCHANGED <<hasSignature, unsigned, erred, bounds>>

\* The transaction is in a block with an error: confirmTransaction still fulfils.
SendConfirmedWithError(t) ==
    /\ Outcome(t, "sent", "ok")
    /\ Failure
    /\ erred' = erred \cup ({t} \ landed)
    /\ UNCHANGED <<hasSignature, unsigned>>

\* Not landed, or landed and the confirmation was lost.
SendFails(t) ==
    /\ Outcome(t, "sent", "failed")
    /\ Failure
    /\ UNCHANGED <<hasSignature, unsigned, erred>>

Succeeded == {t \in SigTxs : outcome[t] = "ok"}

KeepUnsigned == (verifySigTxs \ hasSignature) \ Succeeded    \* mutant: the test is inverted
KeepNone == {}  \* mutant: the whole batch is discarded

\* verifySigTxs.filter(tx => tx.signature && !succeedTxs.find(...))
StillToSend == (verifySigTxs \cap hasSignature) \ Succeeded

PostsOneShort ==  \* mutant: off by one in the test for enough signatures
    /\ pc = "verify"
    /\ \A t \in SigTxs : outcome[t] \in {"none", "ok", "failed"}
    /\ outcome' = NoOutcome
    /\ successTxCount' = successTxCount + Cardinality(Succeeded)
    /\ verifySigTxs' = StillToSend
    /\ confirmed' = confirmed \cup Succeeded
    /\ IF successTxCount' < totalTxCount - 3 THEN Throw ELSE pc' = "post" /\ UNCHANGED result
    /\ UNCHANGED <<built, hasSignature, totalTxCount, chain, unsigned, erred, lateErrors, bounds>>

CountsFailures ==  \* mutant: counts what settled, not what was fulfilled
    /\ pc = "verify"
    /\ \A t \in SigTxs : outcome[t] \in {"none", "ok", "failed"}
    /\ outcome' = NoOutcome
    /\ successTxCount' = successTxCount + Cardinality(verifySigTxs)
    /\ verifySigTxs' = StillToSend
    /\ confirmed' = confirmed \cup Succeeded
    /\ IF successTxCount' < totalTxCount - 2 THEN Throw ELSE pc' = "post" /\ UNCHANGED result
    /\ UNCHANGED <<built, hasSignature, totalTxCount, chain, unsigned, erred, lateErrors, bounds>>

AllSettled ==
    /\ pc = "verify"
    /\ \A t \in SigTxs : outcome[t] \in {"none", "ok", "failed"}
    /\ outcome' = NoOutcome
    /\ successTxCount' = successTxCount + Cardinality(Succeeded)
    /\ verifySigTxs' = StillToSend
    /\ confirmed' = confirmed \cup Succeeded
    /\ IF successTxCount' < totalTxCount - 2 THEN Throw ELSE pc' = "post" /\ UNCHANGED result
    /\ UNCHANGED <<built, hasSignature, totalTxCount, chain, unsigned, erred, lateErrors, bounds>>

SendPost ==
    /\ pc = "post"
    /\ pc' = "postSent"
    /\ UNCHANGED <<outcome, result, progress, chain, history, bounds>>

PostConfirmed ==
    /\ pc = "postSent" /\ posted
    /\ successTxCount' = successTxCount + 1
    /\ pc' = "redeem"
    /\ UNCHANGED <<outcome, result, built, verifySigTxs, hasSignature, totalTxCount, chain, history, bounds>>

\* The preflight of the send finds a signature missing in the signature account.
PostRejected ==
    /\ pc = "postSent" /\ ~posted /\ landed # SigTxs
    /\ Throw
    /\ UNCHANGED <<outcome, progress, chain, history, bounds>>

\* A post or a redeem that the chain took with an error is counted like any other.
CountedWithError ==
    /\ Failure
    /\ successTxCount' = successTxCount + 1
    /\ lateErrors' = lateErrors + 1
    /\ UNCHANGED <<outcome, built, verifySigTxs, hasSignature, totalTxCount, chain,
                   confirmed, unsigned, erred>>

PostConfirmedWithError ==
    /\ pc = "postSent"
    /\ CountedWithError
    /\ pc' = "redeem"
    /\ UNCHANGED result

SendRedeem ==
    /\ pc = "redeem"
    /\ pc' = "redeemSent"
    /\ UNCHANGED <<outcome, result, progress, chain, history, bounds>>

\* A redeem of a VAA that is redeemed already, or not posted, can only fail.
RedeemRejected ==
    /\ pc = "redeemSent" /\ (redeemed \/ ~posted)
    /\ Throw
    /\ UNCHANGED <<outcome, progress, chain, history, bounds>>

RedeemConfirmed ==
    /\ pc = "redeemLanded"
    /\ successTxCount' = successTxCount + 1
    /\ pc' = "idle" /\ result' = "signature"
    /\ UNCHANGED <<outcome, built, verifySigTxs, hasSignature, totalTxCount, chain, history, bounds>>

RedeemConfirmedWithError ==
    /\ pc = "redeemSent"
    /\ CountedWithError
    /\ pc' = "idle" /\ result' = "signature"

----------------------------------------------------------------------------
(* External: the chain. It posts a VAA only once all its signatures are     *)
(* verified, and redeems it once.                                           *)

SigTxLands(t) ==
    /\ t \in hasSignature \ landed
    /\ landed' = landed \cup {t}
    /\ UNCHANGED <<pc, outcome, result, progress, posted, redeemed, history, bounds>>

PostLands ==
    /\ pc = "postSent" /\ ~posted /\ landed = SigTxs
    /\ posted' = TRUE
    /\ UNCHANGED <<pc, outcome, result, progress, landed, redeemed, history, bounds>>

RedeemLands ==
    /\ pc = "redeemSent" /\ posted /\ ~redeemed
    /\ redeemed' = TRUE
    /\ pc' = "redeemLanded"
    /\ UNCHANGED <<outcome, result, progress, landed, posted, history, bounds>>

SomebodyPosts ==
    /\ ~posted
    /\ posted' = TRUE
    /\ UNCHANGED <<pc, outcome, result, progress, landed, redeemed, history, bounds>>

SomebodyRedeems ==
    /\ posted /\ ~redeemed
    /\ redeemed' = TRUE
    /\ UNCHANGED <<pc, outcome, result, progress, landed, posted, history, bounds>>

----------------------------------------------------------------------------

Advance ==
    \/ VaaAlreadyPosted \/ VaaNotPosted \/ NothingLeftToSend \/ Build \/ AddFees
    \/ AllSettled \/ SendPost \/ PostConfirmed \/ PostRejected \/ SendRedeem
    \/ RedeemRejected \/ RedeemConfirmed

Next ==
    \/ Retry \/ StartOver \/ AttemptFails
    \/ Advance
    \/ PostConfirmedWithError \/ RedeemConfirmedWithError
    \/ \E t \in SigTxs : \/ WalletSigns(t) \/ NotSigned(t) \/ SendConfirmed(t)
                         \/ SendConfirmedWithError(t) \/ SendFails(t) \/ SigTxLands(t)
    \/ PostLands \/ RedeemLands \/ SomebodyPosts \/ SomebodyRedeems

Spec == Init /\ [][Next]_vars

\* The event loop runs every continuation and the chain takes what was sent;
\* failures are finitely many by MaxFailures. The user retries until an attempt
\* has returned a signature.
Fairness ==
    /\ WF_vars(Advance) /\ WF_vars(Retry /\ result # "signature")
    /\ \A t \in SigTxs : WF_vars(WalletSigns(t)) /\ WF_vars(SigTxLands(t)) /\ WF_vars(SendConfirmed(t))
    /\ WF_vars(PostLands) /\ WF_vars(RedeemLands)

FairSpec == Spec /\ Fairness

----------------------------------------------------------------------------

\* The VAA is posted only when every signature was verified into the account it
\* refers to, except those whose transaction the chain refused with an error that
\* custom_postVaaWithRetry did not read: across any number of failed, partly
\* landed and rebuilt attempts.
PostNeedsAllSignatures == pc \in {"post", "postSent"} => SigTxs \ erred \subseteq landed

\* The progress a user sees is never more than what the chain has taken: every
\* count stands for a transaction of its own that landed, or whose error on the
\* chain was not read.
ProgressIsHonest == ~posted => successTxCount <= Cardinality(landed \cup erred) + lateErrors

\* Between attempts every signature transaction is either still to be sent or was
\* counted, having landed or failed on the chain unread; except those that were
\* never signed: they leave verifySigTxs with a null `signature`, and no retry
\* with this progress object sends them again.
OnlyUnsignedForgotten ==
    pc = "idle" /\ ~MustBuild /\ ~posted =>
        \A t \in SigTxs \ (verifySigTxs \cup unsigned) : t \in confirmed \cap (landed \cup erred)

\* Retrying with the progress object until it returns a signature ends in a
\* redeemed transfer, unless a signature that was not asked for, or an error on
\* the chain that was not read, has made that object useless, or the signature
\* returned is itself that of a transaction that failed.
RetryingRedeems ==
    <>redeemed \/ <>[](unsigned # {} \/ erred # {} \/ (result = "signature" /\ lateErrors > 0))

==============================================================================
