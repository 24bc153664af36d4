------------------------------ MODULE Pricecaster ------------------------------
(***************************************************************************)
(* PricecasterLib (packages/common/src/pricecaster/pricecaster.ts): calls   *)
(* that create, call and delete the price contract, wait for their          *)
(* transactions and read the contract's slots back. Every library object of *)
(* a process shares the record PRICECASTER_CI, which holds the id of the    *)
(* application and the programs compiled last.                              *)
(*                                                                         *)
(* The Algorand node and the contract are external: a block takes at most   *)
(* one of the transactions, one that is not taken by its last valid round   *)
(* is lost, and the contract does what the comments of the make...Tx        *)
(* methods say.                                                            *)
(***************************************************************************)
EXTENDS Naturals, Sequences

CONSTANTS
    Jobs,           \* calls that may overlap
    Programs,       \* approval programs: one for each choice of templates
    Assets,
    Prices,
    NumPrices,      \* price slots of a contract; the slot after them is the system's
    MaxApps,        \* bound: applications ever created
    Validity,       \* rounds for which a transaction is valid
    MaxRound        \* bound: rounds of the chain

ASSUME PricecasterAssumption ==
    /\ NumPrices \in Nat \ {0} /\ MaxApps \in Nat \ {0}
    /\ Validity \in Nat /\ MaxRound \in Nat /\ Validity < MaxRound

VARIABLES
    round,          \* of the node
    born,           \* applications created: they are 1..born
    live,           \* those not deleted
    slots,          \* of each application, the prices in its allocated slots
    appId,          \* PRICECASTER_CI.appId, 0 while not set
    compiled,       \* PRICECASTER_CI.compiledApproval, as a set of at most one
    job             \* what each call is waiting for

vars == <<round, born, live, slots, appId, compiled, job>>

Apps == 1..MaxApps
SYSTEM_SLOT_INDEX == NumPrices
NUM_SLOTS == NumPrices + 1

\* A slot is an asset with its price; one never allocated reads as zeros.
NoAsset == "none"
Blank == [asa |-> NoAsset, price |-> 0]

Idle == [phase |-> "idle"]
Waiting == {"status", "poll", "block"}
Creating == {"params", "approval", "clear"}

\* An operation of a transaction, and what the contract does with it.
makeAllocSlotTx == [op : {"alloc"}, asa : Assets]
makePriceStoreTx == [op : {"store"}, asa : Assets, slot : 1..NumPrices, price : Prices]
makeResetTx == [op : {"reset"}]
Calls == makeAllocSlotTx \cup makePriceStoreTx \cup makeResetTx

Accepts(body, contract) ==
    /\ body.op = "alloc" => Len(contract) < NumPrices
    /\ body.op = "store" => body.slot <= Len(contract)

Stored(body, contract) ==
    CASE body.op = "alloc" -> Append(contract, [asa |-> body.asa, price |-> 0])
      [] body.op = "store" ->
            [contract EXCEPT ![body.slot] = [asa |-> body.asa, price |-> body.price]]
      [] body.op = "reset" -> <<>>
      [] OTHER -> contract

\* The whole store, and one slot cut from it by its index, which starts at 0.
\* Past the last slot the store still has bytes, which no slot wrote.
fetchGlobalSpace(a) ==
    [i \in 0..NUM_SLOTS |-> IF i < Len(slots[a]) THEN slots[a][i + 1] ELSE Blank]

readSystemSlot(a) == [entryCount |-> Len(slots[a])]

CanParse(slot) == slot <= NUM_SLOTS /\ slot # SYSTEM_SLOT_INDEX

\* mutant: a slot too many is parsed.
ParseOneSlotMore(globalSpace, sysSlot) ==
    [i \in 1..(sysSlot.entryCount + 1) |-> globalSpace[i - 1]]

readParseGlobalState(globalSpace, sysSlot) ==
    [i \in 1..sysSlot.entryCount |-> globalSpace[i - 1]]

\* A contract is deployed and known; nothing was compiled in this process.
Init ==
    /\ round = 0
    /\ born = 1 /\ live = {1}
    /\ slots = [a \in Apps |-> <<>>]
    /\ appId = 1
    /\ compiled = {}
    /\ job = [j \in Jobs |-> Idle]

Become(j, state) == job' = [job EXCEPT ![j] = state]

\* createPricecasterApp is called for a program; like callApp and deleteApp it
\* asks the node for the suggested parameters first. Others is history: the
\* programs of the creations that overlap with this one.
createApp(j, program) ==
    LET creators == {k \in Jobs : job[k].phase \in Creating /\ job[k].body.op = "create"}
    IN  /\ job[j] = Idle
        /\ job' = [k \in Jobs |->
                IF k = j
                THEN [phase |-> "params", body |-> [op |-> "create"], asked |-> program,
                      others |-> {job[i].asked : i \in creators}]
                ELSE IF k \in creators
                THEN [job[k] EXCEPT !.others = @ \cup {program}]
                ELSE job[k]]
        /\ UNCHANGED <<round, born, live, slots, appId, compiled>>

callApp(j, body) ==
    /\ job[j] = Idle
    /\ Become(j, [phase |-> "params", body |-> body])
    /\ UNCHANGED <<round, born, live, slots, appId, compiled>>

\* The parameters bound the life of the transaction. A creation goes on to
\* compile; a call is built for the application known now, signed and sent.
GotParams(j) ==
    LET lastValid == round + Validity
    IN  /\ job[j].phase = "params"
        /\ lastValid < MaxRound
        /\ IF job[j].body.op = "create"
           THEN Become(j, [phase |-> "approval", body |-> job[j].body, asked |-> job[j].asked,
                           others |-> job[j].others, lastValid |-> lastValid])
           ELSE Become(j, [phase |-> "sending", body |-> job[j].body, app |-> appId,
                           lastValid |-> lastValid])
        /\ UNCHANGED <<round, born, live, slots, appId, compiled>>

\* mutant: the program compiled first is kept.
CompileOnce(j) ==
    /\ job[j].phase = "approval"
    /\ compiled' = IF compiled = {} THEN {job[j].asked} ELSE compiled
    /\ Become(j, [job[j] EXCEPT !.phase = "clear"])
    /\ UNCHANGED <<round, born, live, slots, appId>>

compileApprovalProgram(j) ==
    /\ job[j].phase = "approval"
    /\ compiled' = {job[j].asked}
    /\ Become(j, [job[j] EXCEPT !.phase = "clear"])
    /\ UNCHANGED <<round, born, live, slots, appId>>

\* The transaction takes the program from the shared record.
compileClearProgram(j) ==
    /\ job[j].phase = "clear"
    /\ Become(j, [phase |-> "sending", body |-> job[j].body, app |-> 0, program |-> compiled,
                  asked |-> job[j].asked, others |-> job[j].others,
                  lastValid |-> job[j].lastValid])
    /\ UNCHANGED <<round, born, live, slots, appId, compiled>>

\* The node takes the transaction into its pool, and the caller waits for it.
sendRawTransaction(j) ==
    /\ job[j].phase = "sending"
    /\ round < job[j].lastValid
    /\ Become(j, [phase |-> "status", body |-> job[j].body, app |-> job[j].app,
                  lastValid |-> job[j].lastValid, confirmed |-> 0])
    /\ UNCHANGED <<round, born, live, slots, appId, compiled>>

\* Any request of a call may fail, and a transaction that is not valid is
\* refused: the call throws.
RequestFails(j) ==
    /\ job[j].phase \notin {"idle", "answered"}
    /\ Become(j, Idle)
    /\ UNCHANGED <<round, born, live, slots, appId, compiled>>

\* waitForConfirmation: the status of the node, then the transaction, then the
\* next block, or the time the node waits for one, and the transaction again.
GotStatus(j) ==
    /\ job[j].phase = "status"
    /\ Become(j, [job[j] EXCEPT !.phase = "poll"])
    /\ UNCHANGED <<round, born, live, slots, appId, compiled>>

\* mutant: only a confirmation in the latest round counts.
ConfirmedByLatestRound(j) ==
    /\ job[j].phase = "poll"
    /\ \/ /\ job[j].confirmed = round /\ round > 0
          /\ Become(j, Idle)
          /\ appId' = IF job[j].body.op = "create" THEN job[j].app ELSE appId
       \/ /\ job[j].confirmed # round
          /\ Become(j, [job[j] EXCEPT !.phase = "block"])
          /\ UNCHANGED appId
    /\ UNCHANGED <<round, born, live, slots, compiled>>

\* The caller of createApp sets the id it finds in the response.
pendingTransactionInformation(j) ==
    /\ job[j].phase = "poll"
    /\ \/ /\ job[j].confirmed > 0
          /\ Become(j, Idle)
          /\ appId' = IF job[j].body.op = "create" THEN job[j].app ELSE appId
       \/ /\ ~(job[j].confirmed > 0)
          /\ Become(j, [job[j] EXCEPT !.phase = "block"])
          /\ UNCHANGED appId
    /\ UNCHANGED <<round, born, live, slots, compiled>>

statusAfterBlock(j) ==
    /\ job[j].phase = "block"
    /\ Become(j, [job[j] EXCEPT !.phase = "poll"])
    /\ UNCHANGED <<round, born, live, slots, appId, compiled>>

setAppId(a) ==
    /\ a \in live /\ a # appId
    /\ appId' = a
    /\ UNCHANGED <<round, born, live, slots, compiled, job>>

\* readParseGlobalState reads the slots in one request and their number in a
\* second one; readParsePriceSlot cuts one slot from what it read. Listing and
\* moved are history: the contract at the first answer, and that since then the
\* number of its slots changed, or that the requests ask two contracts.
StartList(j) ==
    /\ job[j] = Idle
    /\ Become(j, [phase |-> "first", app |-> appId])
    /\ UNCHANGED <<round, born, live, slots, appId, compiled>>

GotSpace(j) ==
    LET app == job[j].app
    IN  /\ job[j].phase = "first" /\ app \in live
        /\ Become(j, [phase |-> "second", space |-> fetchGlobalSpace(app), app |-> appId,
                      listing |-> slots[app], moved |-> appId # app])
        /\ UNCHANGED <<round, born, live, slots, appId, compiled>>

GotSystemSlot(j) ==
    /\ job[j].phase = "second" /\ job[j].app \in live
    /\ Become(j, [phase |-> "listed", listing |-> job[j].listing, moved |-> job[j].moved,
                  answer |-> readParseGlobalState(job[j].space, readSystemSlot(job[j].app))])
    /\ UNCHANGED <<round, born, live, slots, appId, compiled>>

readParsePriceSlot(j, slot) ==
    /\ job[j] = Idle
    /\ CanParse(slot)
    /\ Become(j, [phase |-> "slot", slot |-> slot, app |-> appId])
    /\ UNCHANGED <<round, born, live, slots, appId, compiled>>

GotSlot(j) ==
    LET app == job[j].app
    IN  /\ job[j].phase = "slot" /\ app \in live
        /\ Become(j, [phase |-> "read", slot |-> job[j].slot, listing |-> slots[app],
                      answer |-> fetchGlobalSpace(app)[job[j].slot]])
        /\ UNCHANGED <<round, born, live, slots, appId, compiled>>

Return(j) ==
    /\ job[j].phase \in {"listed", "read"}
    /\ Become(j, Idle)
    /\ UNCHANGED <<round, born, live, slots, appId, compiled>>

-------------------------------------------------------------------------------
(* The chain. A block runs one transaction of the pool or none.            *)

InPool(j) == job[j].phase \in Waiting /\ job[j].confirmed = 0 /\ round < job[j].lastValid

Lost(j) == job[j].phase \in Waiting /\ job[j].confirmed = 0 /\ round >= job[j].lastValid

EmptyBlock ==
    /\ round < MaxRound
    /\ round' = round + 1
    /\ UNCHANGED <<born, live, slots, appId, compiled, job>>

CreateInBlock(j) ==
    /\ round < MaxRound /\ InPool(j)
    /\ job[j].body.op = "create" /\ born < MaxApps
    /\ round' = round + 1
    /\ born' = born + 1
    /\ live' = live \cup {born'}
    /\ Become(j, [job[j] EXCEPT !.confirmed = round', !.app = born'])
    /\ UNCHANGED <<slots, appId, compiled>>

CallInBlock(j) ==
    LET app == job[j].app
        body == job[j].body
        after == Stored(body, slots[app])
    IN  /\ round < MaxRound /\ InPool(j)
        /\ body \in Calls /\ app \in live /\ Accepts(body, slots[app])
        /\ round' = round + 1
        /\ slots' = [slots EXCEPT ![app] = after]
        /\ job' = [k \in Jobs |->
                IF k = j THEN [job[k] EXCEPT !.confirmed = round']
                ELSE IF job[k].phase = "second" /\ job[k].app = app
                THEN [job[k] EXCEPT !.moved = @ \/ Len(after) # Len(slots[app])]
                ELSE job[k]]
        /\ UNCHANGED <<born, live, appId, compiled>>

DeleteInBlock(j) ==
    /\ round < MaxRound /\ InPool(j)
    /\ job[j].body.op = "delete" /\ job[j].app \in live
    /\ round' = round + 1
    /\ live' = live \ {job[j].app}
    /\ slots' = [slots EXCEPT ![job[j].app] = <<>>]
    /\ Become(j, [job[j] EXCEPT !.confirmed = round'])
    /\ UNCHANGED <<born, appId, compiled>>

NewBlock ==
    \/ EmptyBlock
    \/ \E j \in Jobs : CreateInBlock(j) \/ CallInBlock(j) \/ DeleteInBlock(j)

Next ==
    \/ NewBlock
    \/ \E a \in Apps : setAppId(a)
    \/ \E j \in Jobs :
        \/ \E program \in Programs : createApp(j, program)
        \/ \E body \in Calls \cup [op : {"delete"}] : callApp(j, body)
        \/ GotParams(j) \/ compileApprovalProgram(j) \/ compileClearProgram(j)
        \/ sendRawTransaction(j) \/ RequestFails(j)
        \/ GotStatus(j) \/ pendingTransactionInformation(j) \/ statusAfterBlock(j)
        \/ StartList(j) \/ GotSpace(j) \/ GotSystemSlot(j)
        \/ \E slot \in 0..(NUM_SLOTS + 1) : readParsePriceSlot(j, slot)
        \/ GotSlot(j) \/ Return(j)

\* The node goes on making blocks and answers every request of a wait.
Fairness ==
    /\ WF_vars(NewBlock)
    /\ \A j \in Jobs : WF_vars(GotStatus(j) \/ pendingTransactionInformation(j)
                                    \/ statusAfterBlock(j))

Spec == Init /\ [][Next]_vars /\ Fairness

-------------------------------------------------------------------------------
(* Properties *)

\* createApp assigns what it compiled to the shared PRICECASTER_CI and reads it
\* back after another await. A creation transaction carries the program it was
\* called for, or that of a creation it overlaps with: never one compiled before.
CreatesProgramOfItsTime ==
    \A j \in Jobs :
        job[j].phase = "sending" /\ job[j].body.op = "create" =>
            job[j].program # {} /\ job[j].program \subseteq {job[j].asked} \cup job[j].others

\* readParseGlobalState answers from two requests. Prices stored in between do
\* not show: it is the contract as the first request saw it, unless slots were
\* allocated or dropped in between, or the application was changed; then it is
\* that list, shortened or continued with zeros. readParsePriceSlot is of one
\* moment, with zeros for a slot not allocated and for the one past the last.
ReadsAreOfTheFirstMoment ==
    LET At(listing, i) == IF i <= Len(listing) THEN listing[i] ELSE Blank
    IN  \A j \in Jobs :
        /\ job[j].phase = "listed" =>
            /\ job[j].moved \/ job[j].answer = job[j].listing
            /\ \A i \in DOMAIN job[j].answer : job[j].answer[i] = At(job[j].listing, i)
        /\ job[j].phase = "read" => job[j].answer = At(job[j].listing, job[j].slot + 1)

\* waitForConfirmation has no limit of its own: it ends once the transaction is
\* confirmed, and may go on for ever only for a transaction that is lost.
WaitEndsUnlessLost ==
    \A j \in Jobs : job[j].phase \in Waiting ~> (job[j].phase \notin Waiting \/ Lost(j))

================================================================================
