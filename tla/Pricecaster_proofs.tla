--------------------------- MODULE Pricecaster_proofs ---------------------------
(***************************************************************************)
(* Proofs about Pricecaster for any number of overlapping calls, programs, *)
(* assets, prices, slots, applications and rounds: what a call can be       *)
(* waiting for, which program a creation carries, and which moment of the  *)
(* contract a read is of.                                                  *)
(***************************************************************************)
EXTENDS Pricecaster, SequenceTheorems, TLAPS

Slot == [asa : Assets \cup {NoAsset}, price : Prices \cup {0}]

CreateBody == [op : {"create"}]
CallBodies == Calls \cup [op : {"delete"}]

\* What a call can be waiting for.
NewCreation == [phase : {"params"}, body : CreateBody, asked : Programs, others : SUBSET Programs]
NewCall == [phase : {"params"}, body : CallBodies]
Compiling == [phase : {"approval", "clear"}, body : CreateBody, asked : Programs,
              others : SUBSET Programs, lastValid : Nat]
SendingCreation == [phase : {"sending"}, body : CreateBody, app : {0}, program : SUBSET Programs,
                    asked : Programs, others : SUBSET Programs, lastValid : Nat]
SendingCall == [phase : {"sending"}, body : CallBodies, app : Apps, lastValid : Nat]
WaitingJob == [phase : Waiting, body : CreateBody \cup CallBodies, app : {0} \cup Apps,
               lastValid : Nat, confirmed : Nat]
Listing == [phase : {"first"}, app : Apps]
ListingRead == [phase : {"second"}, space : [0..NUM_SLOTS -> Slot], app : Apps,
                listing : Seq(Slot), moved : BOOLEAN]
ListingDone == [phase : {"listed"}, listing : Seq(Slot), moved : BOOLEAN, answer : Seq(Slot)]
SlotRead == [phase : {"slot"}, slot : 0..NUM_SLOTS, app : Apps]
SlotDone == [phase : {"read"}, slot : 0..NUM_SLOTS, listing : Seq(Slot), answer : Slot]

JobState ==
    {Idle} \cup NewCreation \cup NewCall \cup Compiling \cup SendingCreation \cup SendingCall
    \cup WaitingJob \cup Listing \cup ListingRead \cup ListingDone \cup SlotRead \cup SlotDone

TypeOK ==
    /\ round \in 0..MaxRound
    /\ born \in Apps /\ live \subseteq 1..born /\ appId \in 1..born
    /\ slots \in [Apps -> Seq(Slot)]
    /\ \A a \in Apps : Len(slots[a]) <= NumPrices
    /\ compiled \subseteq Programs
    /\ job \in [Jobs -> JobState]

Creates(x) == x.phase \in Creating /\ x.body.op = "create"

\* The i-th entry of a contract, zeros past its last.
EntryAt(listing, i) == IF i <= Len(listing) THEN listing[i] ELSE Blank

\* A creation finds in the shared record what it compiled, or what one that
\* overlaps with it has compiled since.
CompiledOK(x) ==
    /\ x.phase = "clear" => compiled # {} /\ compiled \subseteq {x.asked} \cup x.others
    /\ x.phase = "sending" /\ x.body.op = "create" =>
            x.program # {} /\ x.program \subseteq {x.asked} \cup x.others

\* No call is built for an application that was not created yet.
AppOK(x) ==
    /\ x.phase = "sending" /\ x.body.op # "create" => x.app <= born
    /\ x.phase \in Waiting => /\ x.app <= born
                              /\ x.body.op # "create" \/ x.confirmed > 0 => x.app # 0
    /\ x.phase \in {"first", "second", "slot"} => x.app <= born

\* Between the two requests of a listing the number of slots is that of the
\* first one, unless it is said to have moved or the contract is gone.
ReadOK(x) ==
    /\ x.phase = "second" =>
        /\ \A i \in 0..NUM_SLOTS : x.space[i] = EntryAt(x.listing, i + 1)
        /\ ~x.moved /\ x.app \in live => Len(x.listing) = Len(slots[x.app])
    /\ x.phase = "listed" =>
        /\ x.moved \/ x.answer = x.listing
        /\ \A i \in DOMAIN x.answer : x.answer[i] = EntryAt(x.listing, i)
    /\ x.phase = "read" => x.answer = EntryAt(x.listing, x.slot + 1)

JobOK(x) == CompiledOK(x) /\ AppOK(x) /\ ReadOK(x)

\* Of two creations that overlap each counts the other's program as possible.
OverlapsKnown ==
    \A j, k \in Jobs : j # k /\ Creates(job[j]) /\ Creates(job[k]) => job[k].asked \in job[j].others

IInv == TypeOK /\ (\A j \in Jobs : JobOK(job[j])) /\ OverlapsKnown

\* The phase and the operation of a job tell its other fields.
LEMMA PhaseTellsFields ==
    ASSUME NEW x \in JobState
    PROVE  /\ x.phase = "params" /\ x.body.op = "create" => x \in NewCreation
           /\ x.phase = "params" /\ x.body.op # "create" => x \in NewCall
           /\ x.phase \in {"approval", "clear"} => x \in Compiling
           /\ x.phase = "sending" /\ x.body.op = "create" => x \in SendingCreation
           /\ x.phase = "sending" /\ x.body.op # "create" => x \in SendingCall
           /\ x.phase \in Waiting => x \in WaitingJob
           /\ x.phase = "first" => x \in Listing
           /\ x.phase = "second" => x \in ListingRead
           /\ x.phase = "listed" => x \in ListingDone
           /\ x.phase = "slot" => x \in SlotRead
           /\ x.phase = "read" => x \in SlotDone
<1>1. /\ \A b \in CreateBody : b.op = "create"
      /\ \A b \in CallBodies : b.op # "create"
  BY DEF CreateBody, CallBodies, Calls, makeAllocSlotTx, makePriceStoreTx, makeResetTx
<1>2. \/ x = Idle \/ x \in NewCreation \/ x \in NewCall \/ x \in Compiling
      \/ x \in SendingCreation \/ x \in SendingCall \/ x \in WaitingJob
      \/ x \in Listing \/ x \in ListingRead \/ x \in ListingDone \/ x \in SlotRead \/ x \in SlotDone
  BY DEF JobState
<1>3. /\ Idle.phase = "idle"
      /\ \A y \in NewCreation : y.phase = "params" /\ y.body.op = "create"
      /\ \A y \in NewCall : y.phase = "params" /\ y.body.op # "create"
      /\ \A y \in Compiling : y.phase \in {"approval", "clear"}
      /\ \A y \in SendingCreation : y.phase = "sending" /\ y.body.op = "create"
      /\ \A y \in SendingCall : y.phase = "sending" /\ y.body.op # "create"
      /\ \A y \in WaitingJob : y.phase \in Waiting
      /\ \A y \in Listing : y.phase = "first"
      /\ \A y \in ListingRead : y.phase = "second"
      /\ \A y \in ListingDone : y.phase = "listed"
      /\ \A y \in SlotRead : y.phase = "slot"
      /\ \A y \in SlotDone : y.phase = "read"
  BY <1>1 DEF Idle, NewCreation, NewCall, Compiling, SendingCreation, SendingCall, WaitingJob,
     Listing, ListingRead, ListingDone, SlotRead, SlotDone
<1>4. Waiting = {"status", "poll", "block"}
  BY DEF Waiting
<1>5. QED
  BY <1>2, <1>3, <1>4

LEMMA InitIInv == Init => IInv
<1> SUFFICES ASSUME Init
             PROVE  IInv
  OBVIOUS
<1>1. TypeOK
  <2>1. Idle \in JobState
    BY DEF JobState
  <2>2. 1 \in Apps /\ 0 \in 0..MaxRound /\ 1 \in 1..1
    BY PricecasterAssumption DEF Apps
  <2>3. <<>> \in Seq(Slot) /\ Len(<<>>) <= NumPrices
    BY PricecasterAssumption
  <2>4. QED
    BY <2>1, <2>2, <2>3 DEF Init, TypeOK
<1>2. \A j \in Jobs : job[j].phase = "idle"
  BY DEF Init, Idle
<1>3. (\A j \in Jobs : JobOK(job[j])) /\ OverlapsKnown
  BY <1>2 DEF JobOK, CompiledOK, AppOK, ReadOK, OverlapsKnown, Creates, Creating, Waiting
<1>4. QED
  BY <1>1, <1>3 DEF IInv

\* One call goes on, and the chain and the programs stay as they are.
LEMMA OneJobMoves ==
    ASSUME IInv, NEW j \in Jobs, NEW new \in JobState, job' = [job EXCEPT ![j] = new],
           JobOK(new), UNCHANGED <<round, born, live, slots, compiled>>, appId' \in 1..born,
           Creates(new) => Creates(job[j]) /\ new.asked = job[j].asked
                                           /\ new.others = job[j].others
    PROVE  IInv'
<1>1. /\ job' \in [Jobs -> JobState] /\ job'[j] = new
      /\ \A k \in Jobs \ {j} : job'[k] = job[k]
  BY DEF IInv, TypeOK
<1>2. TypeOK'
  BY <1>1 DEF IInv, TypeOK
<1>3. \A k \in Jobs : JobOK(job[k])'
  <2>1. ASSUME NEW k \in Jobs, NEW x, x = job'[k]
        PROVE  JobOK(x)
    BY <1>1, <2>1 DEF IInv
  <2>2. ASSUME NEW k \in Jobs
        PROVE  JobOK(job[k])'
    <3> DEFINE x == job'[k]
    <3>1. JobOK(x)
      BY <2>1
    <3>2. QED
      BY <3>1 DEF JobOK, CompiledOK, AppOK, ReadOK
  <2>3. QED
    BY <2>2
<1>4. OverlapsKnown'
  BY <1>1 DEF IInv, OverlapsKnown, Creates
<1>5. QED
  BY <1>2, <1>3, <1>4 DEF IInv

LEMMA BodiesApart ==
    /\ \A b \in CreateBody : b.op = "create" /\ b = [op |-> "create"]
    /\ \A b \in CallBodies : b.op # "create"
    /\ [op |-> "create"] \in CreateBody
    /\ Calls \cup [op : {"delete"}] = CallBodies
BY DEF CreateBody, CallBodies, Calls, makeAllocSlotTx, makePriceStoreTx, makeResetTx

LEMMA CallAppKeepsIInv ==
    ASSUME IInv, NEW j \in Jobs, NEW body \in CallBodies, callApp(j, body)
    PROVE  IInv'
<1> DEFINE new == [phase |-> "params", body |-> body]
<1>1. new \in JobState /\ new.phase = "params" /\ new.body.op # "create"
  BY BodiesApart DEF JobState, NewCall
<1>2. job' = [job EXCEPT ![j] = new] /\ UNCHANGED <<round, born, live, slots, appId, compiled>>
  BY DEF callApp, Become
<1> HIDE DEF new
<1>3. JobOK(new) /\ ~Creates(new)
  BY <1>1 DEF JobOK, CompiledOK, AppOK, ReadOK, Creates, Waiting
<1>4. appId' \in 1..born
  BY <1>2 DEF IInv, TypeOK
<1>5. QED
  BY <1>1, <1>2, <1>3, <1>4, OneJobMoves

\* A call is built for the application known now, which was created before.
LEMMA GotParamsKeepsIInv ==
    ASSUME IInv, NEW j \in Jobs, GotParams(j)
    PROVE  IInv'
<1> DEFINE lastValid == round + Validity
           creation == [phase |-> "approval", body |-> job[j].body, asked |-> job[j].asked,
                        others |-> job[j].others, lastValid |-> lastValid]
           call == [phase |-> "sending", body |-> job[j].body, app |-> appId,
                    lastValid |-> lastValid]
<1>1. /\ job[j] \in JobState /\ job[j].phase = "params" /\ lastValid \in Nat
      /\ appId \in 1..born /\ appId \in Apps /\ appId <= born
  BY PricecasterAssumption DEF IInv, TypeOK, GotParams, Apps
<1>2. UNCHANGED <<round, born, live, slots, compiled>> /\ appId' \in 1..born
  BY <1>1 DEF GotParams
<1>3. CASE job[j].body.op = "create"
  <2>1. job' = [job EXCEPT ![j] = creation]
    BY <1>3 DEF GotParams, Become
  <2>2. job[j] \in NewCreation
    BY <1>1, <1>3, PhaseTellsFields
  <2>3. creation \in Compiling
    BY <1>1, <2>2 DEF NewCreation, Compiling
  <2>4. /\ creation.phase = "approval" /\ creation.asked = job[j].asked
        /\ creation.others = job[j].others
    OBVIOUS
  <2>5. Creates(job[j])
    BY <1>1, <1>3 DEF Creates, Creating
  <2> HIDE DEF creation
  <2>6. JobOK(creation)
    BY <2>4 DEF JobOK, CompiledOK, AppOK, ReadOK, Waiting
  <2>7. creation \in JobState
    BY <2>3 DEF JobState
  <2>8. QED
    BY <1>2, <2>1, <2>4, <2>5, <2>6, <2>7, OneJobMoves
<1>4. CASE job[j].body.op # "create"
  <2>1. job' = [job EXCEPT ![j] = call]
    BY <1>4 DEF GotParams, Become
  <2>2. job[j] \in NewCall
    BY <1>1, <1>4, PhaseTellsFields
  <2>3. call \in SendingCall
    BY <1>1, <2>2 DEF NewCall, SendingCall
  <2>4. call.phase = "sending" /\ call.body.op # "create" /\ call.app <= born
    BY <1>1, <1>4
  <2> HIDE DEF call
  <2>5. JobOK(call) /\ ~Creates(call)
    BY <2>4 DEF JobOK, CompiledOK, AppOK, ReadOK, Creates, Creating, Waiting
  <2>6. call \in JobState
    BY <2>3 DEF JobState
  <2>7. QED
    BY <1>2, <2>1, <2>5, <2>6, OneJobMoves
<1>5. QED
  BY <1>3, <1>4

\* The transaction takes what the shared record holds by then.
LEMMA CompileClearKeepsIInv ==
    ASSUME IInv, NEW j \in Jobs, compileClearProgram(j)
    PROVE  IInv'
<1> DEFINE new == [phase |-> "sending", body |-> job[j].body, app |-> 0, program |-> compiled,
                   asked |-> job[j].asked, others |-> job[j].others,
                   lastValid |-> job[j].lastValid]
<1>1. /\ job[j] \in Compiling /\ job[j].phase = "clear" /\ CompiledOK(job[j])
      /\ compiled \subseteq Programs /\ appId \in 1..born
  BY PhaseTellsFields DEF IInv, TypeOK, JobOK, compileClearProgram
<1>2. new \in SendingCreation
  BY <1>1 DEF Compiling, SendingCreation
<1>3. /\ job' = [job EXCEPT ![j] = new]
      /\ UNCHANGED <<round, born, live, slots, appId, compiled>>
  BY DEF compileClearProgram, Become
<1>4. /\ new.phase = "sending" /\ new.body.op = "create" /\ new.program = compiled
      /\ new.asked = job[j].asked /\ new.others = job[j].others
  BY <1>1, BodiesApart DEF Compiling
<1> HIDE DEF new
<1>5. JobOK(new) /\ ~Creates(new)
  BY <1>1, <1>4 DEF JobOK, CompiledOK, AppOK, ReadOK, Creates, Creating, Waiting
<1>6. new \in JobState
  BY <1>2 DEF JobState
<1>7. QED
  BY <1>1, <1>3, <1>5, <1>6, OneJobMoves

LEMMA SendKeepsIInv ==
    ASSUME IInv, NEW j \in Jobs, sendRawTransaction(j)
    PROVE  IInv'
<1> DEFINE new == [phase |-> "status", body |-> job[j].body, app |-> job[j].app,
                   lastValid |-> job[j].lastValid, confirmed |-> 0]
<1>1. /\ job[j] \in SendingCreation \cup SendingCall /\ job[j].phase = "sending"
      /\ AppOK(job[j]) /\ appId \in 1..born /\ born \in Apps
  BY PhaseTellsFields DEF IInv, TypeOK, JobOK, sendRawTransaction
<1>2. new \in WaitingJob
  BY <1>1 DEF SendingCreation, SendingCall, WaitingJob, Waiting
<1>3. /\ job' = [job EXCEPT ![j] = new]
      /\ UNCHANGED <<round, born, live, slots, appId, compiled>>
  BY DEF sendRawTransaction, Become
<1>4. /\ new.phase = "status" /\ new.confirmed = 0 /\ new.app <= born
      /\ new.body.op # "create" => new.app # 0
  <2>1. CASE job[j] \in SendingCreation
    BY <1>1, <2>1, BodiesApart DEF SendingCreation, Apps
  <2>2. CASE job[j] \in SendingCall
    BY <1>1, <2>2, BodiesApart DEF SendingCall, AppOK, Apps
  <2>3. QED
    BY <1>1, <2>1, <2>2
<1> HIDE DEF new
<1>5. JobOK(new) /\ ~Creates(new)
  BY <1>4 DEF JobOK, CompiledOK, AppOK, ReadOK, Creates, Creating, Waiting
<1>6. new \in JobState
  BY <1>2 DEF JobState
<1>7. QED
  BY <1>1, <1>3, <1>5, <1>6, OneJobMoves

\* A call that ends, with its answer or without one.
LEMMA EndKeepsIInv ==
    ASSUME IInv, NEW j \in Jobs, job' = [job EXCEPT ![j] = Idle],
           UNCHANGED <<round, born, live, slots, compiled>>, appId' \in 1..born
    PROVE  IInv'
<1>1. Idle \in JobState /\ Idle.phase = "idle"
  BY DEF JobState, Idle
<1>2. JobOK(Idle) /\ ~Creates(Idle)
  BY <1>1 DEF JobOK, CompiledOK, AppOK, ReadOK, Creates, Creating, Waiting
<1>3. QED
  BY <1>1, <1>2, OneJobMoves

\* Between two requests of a wait only its phase changes.
LEMMA WaitingKeepsIInv ==
    ASSUME IInv, NEW j \in Jobs, job[j].phase \in Waiting, NEW phase \in Waiting,
           job' = [job EXCEPT ![j] = [job[j] EXCEPT !.phase = phase]],
           UNCHANGED <<round, born, live, slots, appId, compiled>>
    PROVE  IInv'
<1> DEFINE new == [job[j] EXCEPT !.phase = phase]
<1>1. job[j] \in WaitingJob /\ AppOK(job[j]) /\ appId \in 1..born
  BY PhaseTellsFields DEF IInv, TypeOK, JobOK
<1>2. /\ new \in WaitingJob /\ new.phase = phase /\ new.app = job[j].app
      /\ new.body = job[j].body /\ new.confirmed = job[j].confirmed
  BY <1>1 DEF WaitingJob
<1> HIDE DEF new
<1>3. phase \notin Creating /\ phase \notin {"clear", "sending", "first", "second", "slot", "listed", "read"}
  BY DEF Waiting, Creating
<1>4. JobOK(new) /\ ~Creates(new)
  BY <1>1, <1>2, <1>3 DEF JobOK, CompiledOK, AppOK, ReadOK, Creates
<1>5. new \in JobState
  BY <1>2 DEF JobState
<1>6. QED
  BY <1>1, <1>4, <1>5, OneJobMoves DEF new

\* The end of a wait: a creation that was confirmed gives its id away.
LEMMA PendingInformationKeepsIInv ==
    ASSUME IInv, NEW j \in Jobs, pendingTransactionInformation(j)
    PROVE  IInv'
<1>1. /\ job[j].phase = "poll" /\ "poll" \in Waiting /\ "block" \in Waiting
      /\ UNCHANGED <<round, born, live, slots, compiled>>
  BY DEF pendingTransactionInformation, Waiting
<1>2. CASE job[j].confirmed > 0 /\ Become(j, Idle)
  <2>1. job[j] \in WaitingJob /\ AppOK(job[j])
    BY <1>1, PhaseTellsFields DEF IInv, TypeOK, JobOK
  <2>2. job[j].app \in 1..born /\ appId \in 1..born
    BY <1>1, <1>2, <2>1 DEF AppOK, WaitingJob, Apps, IInv, TypeOK
  <2>3. appId' \in 1..born
    BY <1>2, <2>2 DEF pendingTransactionInformation
  <2>4. QED
    BY <1>1, <1>2, <2>3, EndKeepsIInv DEF Become
<1>3. CASE Become(j, [job[j] EXCEPT !.phase = "block"]) /\ UNCHANGED appId
  BY <1>1, <1>3, WaitingKeepsIInv DEF Become
<1>4. QED
  BY <1>2, <1>3 DEF pendingTransactionInformation

\* The store of a contract holds its entries, and zeros past them.
LEMMA SpaceHoldsEntries ==
    ASSUME TypeOK, NEW a \in Apps
    PROVE  /\ fetchGlobalSpace(a) \in [0..NUM_SLOTS -> Slot]
           /\ \A i \in 0..NUM_SLOTS : fetchGlobalSpace(a)[i] = EntryAt(slots[a], i + 1)
<1>1. slots[a] \in Seq(Slot) /\ Len(slots[a]) \in Nat /\ DOMAIN slots[a] = 1..Len(slots[a])
  BY LenProperties DEF TypeOK
<1>2. NUM_SLOTS \in Nat /\ Blank \in Slot
  BY PricecasterAssumption DEF NUM_SLOTS, Blank, Slot
<1>3. ASSUME NEW i \in 0..NUM_SLOTS
      PROVE  /\ fetchGlobalSpace(a)[i] = EntryAt(slots[a], i + 1)
             /\ EntryAt(slots[a], i + 1) \in Slot
  <2>1. i \in Nat /\ (i < Len(slots[a]) <=> i + 1 <= Len(slots[a]))
    BY <1>1, <1>2
  <2>2. fetchGlobalSpace(a)[i] = IF i < Len(slots[a]) THEN slots[a][i + 1] ELSE Blank
    BY DEF fetchGlobalSpace
  <2>3. i < Len(slots[a]) => slots[a][i + 1] \in Slot
    BY <1>1, <2>1, ElementOfSeq
  <2>4. QED
    BY <1>2, <2>1, <2>2, <2>3 DEF EntryAt
<1>4. fetchGlobalSpace(a) = [i \in 0..NUM_SLOTS |-> fetchGlobalSpace(a)[i]]
  BY DEF fetchGlobalSpace
<1>5. QED
  BY <1>3, <1>4

LEMMA StartListKeepsIInv ==
    ASSUME IInv, NEW j \in Jobs, StartList(j)
    PROVE  IInv'
<1> DEFINE new == [phase |-> "first", app |-> appId]
<1>1. appId \in 1..born /\ appId \in Apps /\ appId <= born
  BY PricecasterAssumption DEF IInv, TypeOK, Apps
<1>2. new \in JobState /\ new.phase = "first" /\ new.app <= born
  BY <1>1 DEF JobState, Listing
<1>3. job' = [job EXCEPT ![j] = new] /\ UNCHANGED <<round, born, live, slots, appId, compiled>>
  BY DEF StartList, Become
<1> HIDE DEF new
<1>4. JobOK(new) /\ ~Creates(new)
  BY <1>2 DEF JobOK, CompiledOK, AppOK, ReadOK, Creates, Creating, Waiting
<1>5. QED
  BY <1>1, <1>2, <1>3, <1>4, OneJobMoves

\* The first answer: the contract of this moment, and the application of the
\* second request.
LEMMA GotSpaceKeepsIInv ==
    ASSUME IInv, NEW j \in Jobs, GotSpace(j)
    PROVE  IInv'
<1> DEFINE app == job[j].app
           new == [phase |-> "second", space |-> fetchGlobalSpace(app), app |-> appId,
                   listing |-> slots[app], moved |-> appId # app]
<1>1. /\ TypeOK /\ appId \in 1..born /\ appId \in Apps /\ appId <= born
      /\ job[j] \in Listing /\ app \in Apps /\ slots[app] \in Seq(Slot)
  BY PhaseTellsFields, PricecasterAssumption DEF IInv, TypeOK, Apps, GotSpace, Listing
<1>2. /\ fetchGlobalSpace(app) \in [0..NUM_SLOTS -> Slot]
      /\ \A i \in 0..NUM_SLOTS : fetchGlobalSpace(app)[i] = EntryAt(slots[app], i + 1)
  BY <1>1, SpaceHoldsEntries
<1>3. job' = [job EXCEPT ![j] = new] /\ UNCHANGED <<round, born, live, slots, appId, compiled>>
  BY DEF GotSpace, Become
<1> HIDE DEF app
<1>4. new \in ListingRead
  BY <1>1, <1>2 DEF ListingRead
<1>5. /\ new.phase = "second" /\ new.space = fetchGlobalSpace(app) /\ new.app = appId
      /\ new.listing = slots[app] /\ (~new.moved => appId = app)
  OBVIOUS
<1> HIDE DEF new
<1>6. JobOK(new) /\ ~Creates(new)
  BY <1>1, <1>2, <1>5 DEF JobOK, CompiledOK, AppOK, ReadOK, Creates, Creating, Waiting
<1>7. new \in JobState
  BY <1>4 DEF JobState
<1>8. QED
  BY <1>1, <1>3, <1>6, <1>7, OneJobMoves

\* The second answer cuts the store of the first one.
LEMMA GotSystemSlotKeepsIInv ==
    ASSUME IInv, NEW j \in Jobs, GotSystemSlot(j)
    PROVE  IInv'
<1> DEFINE app == job[j].app
           space == job[j].space
           listing == job[j].listing
           n == Len(slots[app])
           answer == readParseGlobalState(space, readSystemSlot(app))
           new == [phase |-> "listed", listing |-> listing, moved |-> job[j].moved,
                   answer |-> answer]
<1>1. /\ job[j].phase = "second" /\ app \in live
      /\ job' = [job EXCEPT ![j] = new]
      /\ UNCHANGED <<round, born, live, slots, appId, compiled>>
  BY DEF GotSystemSlot, Become
<1>2. /\ job[j] \in ListingRead /\ ReadOK(job[j]) /\ appId \in 1..born
      /\ app \in Apps /\ listing \in Seq(Slot) /\ space \in [0..NUM_SLOTS -> Slot]
      /\ job[j].moved \in BOOLEAN
      /\ n \in Nat /\ n <= NumPrices
  BY <1>1, PhaseTellsFields, LenProperties DEF IInv, TypeOK, JobOK, ListingRead
<1>3. answer = [i \in 1..n |-> space[i - 1]]
  BY DEF readParseGlobalState, readSystemSlot
<1>4. /\ \A i \in 0..NUM_SLOTS : space[i] = EntryAt(listing, i + 1)
      /\ ~job[j].moved => Len(listing) = n
  BY <1>1, <1>2 DEF ReadOK
<1> HIDE DEF answer, listing, space, n, app
<1>5. ASSUME NEW i \in 1..n
      PROVE  answer[i] = EntryAt(listing, i) /\ answer[i] \in Slot
  <2>1. i - 1 \in 0..NUM_SLOTS /\ (i - 1) + 1 = i
    BY <1>2, PricecasterAssumption DEF NUM_SLOTS
  <2>2. space[i - 1] = EntryAt(listing, i)
    BY <1>4, <2>1
  <2>3. QED
    BY <1>2, <1>3, <2>1, <2>2
<1>6. answer \in Seq(Slot) /\ DOMAIN answer = 1..n
  <2>1. answer \in [1..n -> Slot]
    BY <1>3, <1>5
  <2>2. QED
    BY <1>2, <2>1, SeqDef
<1>7. ~job[j].moved => answer = listing
  <2>1. ASSUME ~job[j].moved
        PROVE  answer = listing
    <3>1. DOMAIN listing = 1..n
      BY <1>2, <1>4, <2>1, LenProperties
    <3>2. \A i \in 1..n : answer[i] = listing[i]
      BY <1>2, <1>4, <1>5, <2>1 DEF EntryAt
    <3>3. listing = [i \in 1..n |-> listing[i]] /\ answer = [i \in 1..n |-> answer[i]]
      BY <1>2, <1>3, <3>1, SeqDef
    <3>4. QED
      BY <3>2, <3>3
  <2>2. QED
    BY <2>1
<1>8. new \in JobState
  BY <1>2, <1>6 DEF JobState, ListingDone
<1>9. /\ new.phase = "listed" /\ new.moved = job[j].moved /\ new.listing = listing
      /\ new.answer = answer
  OBVIOUS
<1> HIDE DEF new
<1>10. JobOK(new) /\ ~Creates(new)
  BY <1>5, <1>6, <1>7, <1>9 DEF JobOK, CompiledOK, AppOK, ReadOK, Creates, Creating, Waiting
<1>11. appId' \in 1..born
  BY <1>1, <1>2
<1>12. QED
  BY <1>1, <1>8, <1>10, <1>11, OneJobMoves

\* A single slot is asked for and cut from the store of one moment.
LEMMA ReadSlotKeepsIInv ==
    ASSUME IInv, NEW j \in Jobs, NEW slot \in 0..(NUM_SLOTS + 1), readParsePriceSlot(j, slot)
    PROVE  IInv'
<1> DEFINE new == [phase |-> "slot", slot |-> slot, app |-> appId]
<1>1. appId \in 1..born /\ appId \in Apps /\ appId <= born
  BY PricecasterAssumption DEF IInv, TypeOK, Apps
<1>2. slot \in 0..NUM_SLOTS
  BY PricecasterAssumption DEF readParsePriceSlot, CanParse, NUM_SLOTS
<1>3. new \in JobState /\ new.phase = "slot" /\ new.app <= born
  BY <1>1, <1>2 DEF JobState, SlotRead
<1>4. job' = [job EXCEPT ![j] = new] /\ UNCHANGED <<round, born, live, slots, appId, compiled>>
  BY DEF readParsePriceSlot, Become
<1> HIDE DEF new
<1>5. JobOK(new) /\ ~Creates(new)
  BY <1>3 DEF JobOK, CompiledOK, AppOK, ReadOK, Creates, Creating, Waiting
<1>6. QED
  BY <1>1, <1>3, <1>4, <1>5, OneJobMoves

LEMMA GotSlotKeepsIInv ==
    ASSUME IInv, NEW j \in Jobs, GotSlot(j)
    PROVE  IInv'
<1> DEFINE app == job[j].app
           slot == job[j].slot
           new == [phase |-> "read", slot |-> slot, listing |-> slots[app],
                   answer |-> fetchGlobalSpace(app)[slot]]
<1>1. /\ TypeOK /\ appId \in 1..born /\ job[j] \in SlotRead
      /\ app \in Apps /\ slot \in 0..NUM_SLOTS /\ slots[app] \in Seq(Slot)
  BY PhaseTellsFields DEF IInv, TypeOK, GotSlot, SlotRead
<1>2. /\ fetchGlobalSpace(app)[slot] = EntryAt(slots[app], slot + 1)
      /\ fetchGlobalSpace(app)[slot] \in Slot
  BY <1>1, SpaceHoldsEntries
<1>3. job' = [job EXCEPT ![j] = new] /\ UNCHANGED <<round, born, live, slots, appId, compiled>>
  BY DEF GotSlot, Become
<1> HIDE DEF app, slot
<1>4. new \in JobState /\ new.phase = "read" /\ new.answer = EntryAt(new.listing, new.slot + 1)
  BY <1>1, <1>2 DEF JobState, SlotDone
<1> HIDE DEF new
<1>5. JobOK(new) /\ ~Creates(new)
  BY <1>4 DEF JobOK, CompiledOK, AppOK, ReadOK, Creates, Creating, Waiting
<1>6. QED
  BY <1>1, <1>3, <1>4, <1>5, OneJobMoves

\* One that creates joins those that overlap with it, and they count its program.
LEMMA CreateAppKeepsIInv ==
    ASSUME IInv, NEW j \in Jobs, NEW program \in Programs, createApp(j, program)
    PROVE  IInv'
<1> DEFINE creators == {k \in Jobs : Creates(job[k])}
           new == [phase |-> "params", body |-> [op |-> "create"], asked |-> program,
                   others |-> {job[i].asked : i \in creators}]
<1>1. /\ job[j] = Idle /\ TypeOK
      /\ job' = [k \in Jobs |-> IF k = j THEN new
                                ELSE IF k \in creators
                                THEN [job[k] EXCEPT !.others = @ \cup {program}]
                                ELSE job[k]]
      /\ UNCHANGED <<round, born, live, slots, appId, compiled>>
  BY DEF createApp, Creates, IInv
<1>2. \A k \in creators : job[k] \in NewCreation \cup Compiling
  BY <1>1, PhaseTellsFields DEF TypeOK, Creates, Creating
<1>3. \A k \in creators : job[k].asked \in Programs
  BY <1>2 DEF NewCreation, Compiling
<1>4. new \in NewCreation /\ new.phase = "params" /\ new.asked = program
      /\ \A k \in creators : job[k].asked \in new.others
  BY <1>3, BodiesApart DEF NewCreation
<1>5. j \notin creators
  BY <1>1 DEF Idle, Creates, Creating
<1>6. \A k \in creators :
        /\ job'[k] \in NewCreation \cup Compiling
        /\ job'[k].phase = job[k].phase /\ job'[k].body = job[k].body
        /\ job'[k].asked = job[k].asked /\ job'[k].others = job[k].others \cup {program}
  BY <1>1, <1>2, <1>5 DEF NewCreation, Compiling
<1>7. job'[j] = new /\ \A k \in Jobs \ {j} : k \notin creators => job'[k] = job[k]
  BY <1>1
<1> HIDE DEF new
<1>8. TypeOK'
  <2>1. \A k \in Jobs : job'[k] \in JobState
    BY <1>1, <1>4, <1>6, <1>7 DEF TypeOK, JobState
  <2>2. job' \in [Jobs -> JobState]
    BY <1>1, <2>1
  <2>3. QED
    BY <1>1, <2>2 DEF TypeOK
<1>9. ASSUME NEW k \in Jobs
      PROVE  JobOK(job[k])'
  <2>1. CASE k = j
    BY <1>4, <1>7, <2>1 DEF JobOK, CompiledOK, AppOK, ReadOK, Waiting
  <2>2. CASE k \in creators
    <3>1. JobOK(job[k]) /\ job[k].phase \in Creating
      BY <2>2 DEF IInv, Creates
    <3>2. QED
      BY <1>1, <1>6, <2>2, <3>1 DEF JobOK, CompiledOK, AppOK, ReadOK, Waiting, Creating
  <2>3. CASE k # j /\ k \notin creators
    <3>1. JobOK(job[k]) /\ job'[k] = job[k]
      BY <1>7, <2>3 DEF IInv
    <3>2. QED
      BY <1>1, <3>1 DEF JobOK, CompiledOK, AppOK, ReadOK
  <2>4. QED
    BY <2>1, <2>2, <2>3
<1>10. OverlapsKnown'
  <2>1. \A k \in Jobs : Creates(job[k])' => k = j \/ k \in creators
    BY <1>7 DEF Creates
  <2>2. \A i, k \in creators : i # k => job[k].asked \in job[i].others
    BY DEF IInv, OverlapsKnown
  <2>3. QED
    BY <1>4, <1>6, <1>7, <2>1, <2>2 DEF OverlapsKnown
<1>11. QED
  BY <1>8, <1>9, <1>10 DEF IInv

\* What is compiled now is what the others that overlap may take as well.
LEMMA CompileApprovalKeepsIInv ==
    ASSUME IInv, NEW j \in Jobs, compileApprovalProgram(j)
    PROVE  IInv'
<1> DEFINE new == [job[j] EXCEPT !.phase = "clear"]
<1>1. /\ job[j].phase = "approval" /\ compiled' = {job[j].asked}
      /\ job' = [job EXCEPT ![j] = new] /\ UNCHANGED <<round, born, live, slots, appId>>
      /\ job[j] \in Compiling /\ TypeOK
  BY PhaseTellsFields DEF compileApprovalProgram, Become, IInv, TypeOK
<1>2. /\ new \in Compiling /\ new.phase = "clear" /\ new.body = job[j].body
      /\ new.asked = job[j].asked /\ new.others = job[j].others /\ new.body.op = "create"
      /\ job[j].asked \in Programs
  BY <1>1, BodiesApart DEF Compiling
<1>3. Creates(job[j])
  BY <1>1, <1>2 DEF Creates, Creating
<1> HIDE DEF new
<1>4. job'[j] = new /\ \A k \in Jobs \ {j} : job'[k] = job[k]
  BY <1>1 DEF TypeOK
<1>5. TypeOK'
  BY <1>1, <1>2 DEF TypeOK, JobState
<1>6. ASSUME NEW k \in Jobs
      PROVE  JobOK(job[k])'
  <2>1. CASE k = j
    BY <1>1, <1>2, <1>4, <2>1 DEF JobOK, CompiledOK, AppOK, ReadOK, Waiting
  <2>2. CASE k # j /\ job[k].phase = "clear"
    <3>1. job[k] \in Compiling
      BY <1>1, <2>2, PhaseTellsFields DEF TypeOK
    <3>2. Creates(job[k])
      BY <2>2, <3>1, BodiesApart DEF Creates, Creating, Compiling
    <3>3. job[j].asked \in job[k].others
      BY <1>3, <2>2, <3>2 DEF IInv, OverlapsKnown
    <3>4. QED
      BY <1>1, <1>4, <2>2, <3>3 DEF JobOK, CompiledOK, AppOK, ReadOK, Waiting
  <2>3. CASE k # j /\ job[k].phase # "clear"
    <3>1. JobOK(job[k]) /\ job'[k] = job[k]
      BY <1>4, <2>3 DEF IInv
    <3>2. QED
      BY <1>1, <2>3, <3>1 DEF JobOK, CompiledOK, AppOK, ReadOK
  <2>4. QED
    BY <2>1, <2>2, <2>3
<1>7. OverlapsKnown'
  <2>1. \A k \in Jobs :
            \/ (Creates(job[k])' => Creates(job[k])) /\ job'[k].asked = job[k].asked
            \/ job'[k] = job[k]
    BY <1>2, <1>3, <1>4 DEF Creates
  <2>2. QED
    BY <1>2, <1>3, <1>4 DEF IInv, OverlapsKnown, Creates
<1>8. QED
  BY <1>5, <1>6, <1>7 DEF IInv

\* A block without a transaction of these calls, and another application set.
LEMMA ChainAloneKeepsIInv ==
    ASSUME IInv, round' \in 0..MaxRound, appId' \in 1..born,
           UNCHANGED <<born, live, slots, compiled, job>>
    PROVE  IInv'
<1>1. TypeOK'
  BY DEF IInv, TypeOK
<1>2. ASSUME NEW k \in Jobs
      PROVE  JobOK(job[k])'
  <2>1. JobOK(job[k])
    BY DEF IInv
  <2>2. QED
    BY <2>1 DEF JobOK, CompiledOK, AppOK, ReadOK
<1>3. OverlapsKnown'
  BY DEF IInv, OverlapsKnown, Creates
<1>4. QED
  BY <1>1, <1>2, <1>3 DEF IInv

\* A transaction of job j is confirmed in this block; the application it has
\* created, if it has, is a new one.
LEMMA ConfirmedJob ==
    ASSUME IInv, NEW j \in Jobs, InPool(j), round < MaxRound,
           NEW app \in Apps, round' = round + 1
    PROVE  /\ round' \in 0..MaxRound /\ round' \in Nat /\ round' > 0
           /\ [job[j] EXCEPT !.confirmed = round', !.app = app] \in WaitingJob
           /\ [job[j] EXCEPT !.confirmed = round'] \in WaitingJob
           /\ job[j] \in WaitingJob
<1>1. job[j].phase \in Waiting /\ round \in Nat
  BY PricecasterAssumption DEF InPool, IInv, TypeOK
<1>2. job[j] \in WaitingJob
  BY <1>1, PhaseTellsFields DEF IInv, TypeOK
<1>3. round' \in 0..MaxRound /\ round' \in Nat /\ round' > 0
  BY <1>1, PricecasterAssumption
<1>4. QED
  BY <1>2, <1>3 DEF WaitingJob

\* What is known of a job stays true over a block that leaves the number of the
\* slots it has read alone.
LEMMA JobOKStays ==
    ASSUME NEW x \in JobState, JobOK(x), UNCHANGED compiled,
           born \in Nat, born' \in Nat, born <= born',
           x.phase = "second" /\ x.app \in live' =>
                x.app \in live /\ Len(slots'[x.app]) = Len(slots[x.app])
    PROVE  JobOK(x)'
<1>1. /\ x.phase \in Waiting \cup {"first", "second", "slot"} => x.app \in Nat
      /\ x.phase = "sending" /\ x.body.op # "create" => x.app \in Nat
  BY PhaseTellsFields DEF WaitingJob, Listing, ListingRead, SlotRead, SendingCall, Apps
<1>2. CompiledOK(x)' /\ ReadOK(x)'
  BY DEF JobOK, CompiledOK, ReadOK
<1>3. AppOK(x)'
  BY <1>1 DEF JobOK, AppOK
<1>4. QED
  BY <1>2, <1>3 DEF JobOK

\* A block that confirms the transaction of j and leaves the other jobs alone.
LEMMA BlockConfirmsKeepsIInv ==
    ASSUME IInv, NEW j \in Jobs, NEW new \in WaitingJob, job' = [job EXCEPT ![j] = new],
           TypeOK', born <= born', UNCHANGED compiled, job[j].phase \in Waiting,
           new.app # 0 /\ new.app <= born',
           \A k \in Jobs : job[k].phase = "second" /\ job[k].app \in live' =>
                job[k].app \in live /\ Len(slots'[job[k].app]) = Len(slots[job[k].app])
    PROVE  IInv'
<1>1. job'[j] = new /\ \A k \in Jobs \ {j} : job'[k] = job[k]
  BY DEF IInv, TypeOK
<1>2. new.phase \in Waiting
  BY DEF WaitingJob
<1>3. born \in Nat /\ born' \in Nat
  BY PricecasterAssumption DEF IInv, TypeOK, Apps
<1>4. ASSUME NEW k \in Jobs
      PROVE  JobOK(job[k])'
  <2>1. CASE k = j
    BY <1>1, <1>2, <2>1 DEF JobOK, CompiledOK, AppOK, ReadOK, Waiting
  <2>2. CASE k # j
    <3>1. JobOK(job[k]) /\ job[k] \in JobState /\ job'[k] = job[k]
      BY <1>1, <2>2 DEF IInv, TypeOK
    <3>2. ASSUME NEW x, x = job[k]
          PROVE  JobOK(x)'
      <4>1. JobOK(x)
        BY <3>1, <3>2 DEF JobOK, CompiledOK, AppOK, ReadOK
      <4>2. QED
        BY <1>3, <3>1, <3>2, <4>1, JobOKStays
    <3>3. QED
      BY <3>1, <3>2 DEF JobOK, CompiledOK, AppOK, ReadOK
  <2>3. QED
    BY <2>1, <2>2
<1>5. OverlapsKnown'
  <2>1. ~Creates(job[j])'
    BY <1>1, <1>2 DEF Creates, Creating, Waiting
  <2>2. QED
    BY <1>1, <2>1 DEF IInv, OverlapsKnown, Creates
<1>6. QED
  BY <1>4, <1>5 DEF IInv

LEMMA CreateInBlockKeepsIInv ==
    ASSUME IInv, NEW j \in Jobs, CreateInBlock(j)
    PROVE  IInv'
<1> DEFINE new == [job[j] EXCEPT !.confirmed = round', !.app = born']
<1>1. /\ round < MaxRound /\ InPool(j) /\ born < MaxApps /\ round' = round + 1 /\ born' = born + 1
      /\ live' = live \cup {born'} /\ UNCHANGED <<slots, appId, compiled>>
      /\ job' = [job EXCEPT ![j] = new]
  BY DEF CreateInBlock, Become
<1>2. /\ TypeOK /\ born \in Nat /\ born' \in Apps /\ born <= born' /\ born' # 0 /\ born' \in Nat
      /\ 1..born' = 1..born \cup {born'}
  BY <1>1, PricecasterAssumption DEF IInv, TypeOK, Apps
<1>3. new \in WaitingJob /\ round' \in 0..MaxRound /\ job[j] \in WaitingJob
  BY <1>1, <1>2, ConfirmedJob
<1>4. new.app = born' /\ job[j].phase \in Waiting
  BY <1>3 DEF WaitingJob
<1> HIDE DEF new
<1>5. TypeOK'
  BY <1>1, <1>2, <1>3 DEF TypeOK, JobState
<1>6. ASSUME NEW k \in Jobs, job[k].phase = "second", job[k].app \in live'
      PROVE  job[k].app \in live /\ Len(slots'[job[k].app]) = Len(slots[job[k].app])
  <2>1. job[k].app <= born /\ job[k].app \in Nat
    BY <1>2, <1>6, PhaseTellsFields DEF IInv, JobOK, AppOK, TypeOK, ListingRead, Apps
  <2>2. QED
    BY <1>1, <1>2, <1>6, <2>1
<1>7. new.app # 0 /\ new.app <= born' /\ UNCHANGED compiled /\ born <= born'
  BY <1>1, <1>2, <1>4
<1>8. QED
  BY <1>1, <1>3, <1>4, <1>5, <1>6, <1>7, BlockConfirmsKeepsIInv

\* A contract that is deleted answers no more requests.
LEMMA DeleteInBlockKeepsIInv ==
    ASSUME IInv, NEW j \in Jobs, DeleteInBlock(j)
    PROVE  IInv'
<1> DEFINE app == job[j].app
           new == [job[j] EXCEPT !.confirmed = round']
<1>1. /\ round < MaxRound /\ InPool(j) /\ round' = round + 1 /\ app \in live
      /\ live' = live \ {app} /\ slots' = [slots EXCEPT ![app] = <<>>]
      /\ UNCHANGED <<born, appId, compiled>>
      /\ job' = [job EXCEPT ![j] = new]
  BY DEF DeleteInBlock, Become
<1>2. TypeOK /\ born \in Nat /\ 1..born \subseteq Apps /\ app \in Apps /\ app <= born /\ app # 0
  BY <1>1, PricecasterAssumption DEF IInv, TypeOK, Apps
<1>3. new \in WaitingJob /\ round' \in 0..MaxRound /\ job[j] \in WaitingJob
  BY <1>1, <1>2, ConfirmedJob
<1>4. new.app = app /\ job[j].phase \in Waiting
  BY <1>3 DEF WaitingJob
<1> HIDE DEF new, app
<1>5. TypeOK'
  <2>1. <<>> \in Seq(Slot) /\ Len(<<>>) <= NumPrices
    BY PricecasterAssumption
  <2>2. slots' \in [Apps -> Seq(Slot)] /\ \A a \in Apps : Len(slots'[a]) <= NumPrices
    BY <1>1, <1>2, <2>1 DEF TypeOK
  <2>3. QED
    BY <1>1, <1>2, <1>3, <2>2 DEF TypeOK, JobState
<1>6. \A a \in Apps : a \in live' => a \in live /\ slots'[a] = slots[a]
  BY <1>1, <1>2 DEF TypeOK
<1>7. \A k \in Jobs : job[k].phase = "second" => job[k].app \in Apps
  BY <1>2, PhaseTellsFields DEF TypeOK, ListingRead
<1>8. born <= born'
  BY <1>1, <1>2
<1>9. QED
  BY <1>1, <1>2, <1>3, <1>4, <1>5, <1>6, <1>7, <1>8, BlockConfirmsKeepsIInv

\* What the contract stores is a list of entries that fits its slots.
LEMMA StoredIsAContract ==
    ASSUME NEW contract \in Seq(Slot), Len(contract) <= NumPrices,
           NEW body \in Calls, Accepts(body, contract)
    PROVE  Stored(body, contract) \in Seq(Slot) /\ Len(Stored(body, contract)) <= NumPrices
<1>1. Len(contract) \in Nat /\ DOMAIN contract = 1..Len(contract) /\ NumPrices \in Nat
  BY LenProperties, PricecasterAssumption
<1>2. CASE body \in makeAllocSlotTx
  <2> DEFINE entry == [asa |-> body.asa, price |-> 0]
  <2>1. entry \in Slot /\ Stored(body, contract) = Append(contract, entry)
        /\ Len(contract) < NumPrices
    BY <1>2 DEF makeAllocSlotTx, Slot, Stored, Accepts
  <2> HIDE DEF entry
  <2>2. QED
    BY <1>1, <2>1, AppendProperties
<1>3. CASE body \in makePriceStoreTx
  <2> DEFINE entry == [asa |-> body.asa, price |-> body.price]
  <2>1. /\ entry \in Slot /\ Stored(body, contract) = [contract EXCEPT ![body.slot] = entry]
        /\ body.slot \in 1..Len(contract)
    BY <1>1, <1>3 DEF makePriceStoreTx, Slot, Stored, Accepts
  <2> HIDE DEF entry
  <2>2. QED
    BY <1>1, <2>1, ExceptSeq
<1>4. CASE body \in makeResetTx
  <2>1. Stored(body, contract) = <<>>
    BY <1>4 DEF makeResetTx, Stored
  <2>2. QED
    BY <1>1, <2>1
<1>5. QED
  BY <1>2, <1>3, <1>4 DEF Calls

\* A listing that is between its two requests takes note of a change in number.
LEMMA CallInBlockKeepsIInv ==
    ASSUME IInv, NEW j \in Jobs, CallInBlock(j)
    PROVE  IInv'
<1> DEFINE app == job[j].app
           after == Stored(job[j].body, slots[app])
           reads(k) == job[k].phase = "second" /\ job[k].app = app
           new == [job[j] EXCEPT !.confirmed = round']
<1>1. /\ round < MaxRound /\ InPool(j) /\ round' = round + 1 /\ app \in live
      /\ job[j].body \in Calls /\ Accepts(job[j].body, slots[app])
      /\ slots' = [slots EXCEPT ![app] = after]
      /\ UNCHANGED <<born, live, appId, compiled>>
      /\ job' = [k \in Jobs |->
            IF k = j THEN [job[k] EXCEPT !.confirmed = round']
            ELSE IF reads(k) THEN [job[k] EXCEPT !.moved = @ \/ Len(after) # Len(slots[app])]
            ELSE job[k]]
  BY DEF CallInBlock
<1>2. /\ TypeOK /\ born \in Nat /\ 1..born \subseteq Apps /\ app \in Apps /\ app <= born /\ app # 0
  BY <1>1, PricecasterAssumption DEF IInv, TypeOK, Apps
<1>3. new \in WaitingJob /\ round' \in 0..MaxRound /\ job[j] \in WaitingJob
  BY <1>1, <1>2, ConfirmedJob
<1>4. new.app = app /\ job[j].phase \in Waiting /\ new.phase \in Waiting
  BY <1>3 DEF WaitingJob
<1>5. after \in Seq(Slot) /\ Len(after) <= NumPrices
  BY <1>1, <1>2, StoredIsAContract DEF TypeOK
<1>6. /\ slots' \in [Apps -> Seq(Slot)] /\ slots'[app] = after
      /\ \A a \in Apps : Len(slots'[a]) <= NumPrices /\ (a # app => slots'[a] = slots[a])
  BY <1>1, <1>2, <1>5 DEF TypeOK
<1>7. job'[j] = new /\ \A k \in Jobs \ {j} : ~reads(k) => job'[k] = job[k]
  BY <1>1
<1>8. ASSUME NEW k \in Jobs, reads(k)
      PROVE  /\ k # j /\ job[k] \in ListingRead /\ job'[k] \in ListingRead
             /\ job'[k].phase = "second" /\ job'[k].app = app
             /\ job'[k].space = job[k].space /\ job'[k].listing = job[k].listing
             /\ ~job'[k].moved => ~job[k].moved /\ Len(after) = Len(slots[app])
  <2>1. k # j
    BY <1>4, <1>8 DEF Waiting
  <2>2. job[k] \in ListingRead
    BY <1>2, <1>8, PhaseTellsFields DEF TypeOK
  <2>3. job'[k] = [job[k] EXCEPT !.moved = @ \/ Len(after) # Len(slots[app])]
    BY <1>1, <1>8, <2>1
  <2>4. (job[k].moved \/ Len(after) # Len(slots[app])) \in BOOLEAN
    OBVIOUS
  <2> HIDE DEF after
  <2>5. QED
    BY <1>8, <2>1, <2>2, <2>3, <2>4 DEF ListingRead
<1> HIDE DEF after, new, app
<1>9. TypeOK'
  <2>1. \A k \in Jobs : job'[k] \in JobState
    <3>1. \A k \in Jobs : job'[k] \in WaitingJob \cup ListingRead \/ job'[k] = job[k]
      BY <1>3, <1>7, <1>8
    <3>2. QED
      BY <1>2, <3>1 DEF TypeOK, JobState
  <2>2. job' \in [Jobs -> JobState]
    BY <1>1, <2>1
  <2>3. QED
    BY <1>1, <1>2, <1>3, <1>6, <2>2 DEF TypeOK
<1>10. ASSUME NEW k \in Jobs
       PROVE  JobOK(job[k])'
  <2>1. CASE k = j
    BY <1>1, <1>2, <1>4, <1>7, <2>1 DEF JobOK, CompiledOK, AppOK, ReadOK, Waiting
  <2>2. CASE reads(k)
    <3>1. JobOK(job[k])
      BY DEF IInv
    <3>2. QED
      BY <1>1, <1>2, <1>6, <1>8, <2>2, <3>1 DEF JobOK, CompiledOK, AppOK, ReadOK, Waiting
  <2>3. CASE k # j /\ ~reads(k)
    <3>1. /\ JobOK(job[k]) /\ job[k] \in JobState /\ job'[k] = job[k]
          /\ job[k].phase = "second" => job[k].app \in Apps
      BY <1>2, <1>7, <2>3, PhaseTellsFields DEF IInv, TypeOK, ListingRead
    <3>2. ASSUME NEW x, x = job[k]
          PROVE  JobOK(x)'
      <4>1. JobOK(x)
        BY <3>1, <3>2 DEF JobOK, CompiledOK, AppOK, ReadOK
      <4>2. born <= born'
        BY <1>1, <1>2
      <4>3. x.phase = "second" /\ x.app \in live' =>
                x.app \in live /\ Len(slots'[x.app]) = Len(slots[x.app])
        BY <1>1, <1>6, <2>3, <3>1, <3>2
      <4>4. QED
        BY <1>1, <1>2, <3>1, <3>2, <4>1, <4>2, <4>3, JobOKStays
    <3>3. QED
      BY <3>1, <3>2 DEF JobOK, CompiledOK, AppOK, ReadOK
  <2>4. QED
    BY <2>1, <2>2, <2>3
<1>11. OverlapsKnown'
  <2>1. \A k \in Jobs : Creates(job[k])' => job'[k] = job[k]
    BY <1>4, <1>7, <1>8 DEF Creates, Creating, Waiting
  <2>2. QED
    BY <2>1 DEF IInv, OverlapsKnown, Creates
<1>12. QED
  BY <1>9, <1>10, <1>11 DEF IInv

LEMMA NextKeepsIInv == IInv /\ [Next]_vars => IInv'
<1> SUFFICES ASSUME IInv, [Next]_vars
             PROVE  IInv'
  OBVIOUS
<1>1. round \in 0..MaxRound /\ appId \in 1..born /\ live \subseteq 1..born
  BY DEF IInv, TypeOK
<1>2. CASE EmptyBlock
  <2>1. round' \in 0..MaxRound
    BY <1>1, <1>2, PricecasterAssumption DEF EmptyBlock
  <2>2. QED
    BY <1>1, <1>2, <2>1, ChainAloneKeepsIInv DEF EmptyBlock
<1>3. ASSUME NEW a \in Apps, setAppId(a)
      PROVE  IInv'
  BY <1>1, <1>3, ChainAloneKeepsIInv DEF setAppId
<1>4. ASSUME NEW j \in Jobs, CreateInBlock(j) \/ CallInBlock(j) \/ DeleteInBlock(j)
      PROVE  IInv'
  BY <1>4, CreateInBlockKeepsIInv, CallInBlockKeepsIInv, DeleteInBlockKeepsIInv
<1>5. ASSUME NEW j \in Jobs, NEW program \in Programs, createApp(j, program)
      PROVE  IInv'
  BY <1>5, CreateAppKeepsIInv
<1>6. ASSUME NEW j \in Jobs, NEW body \in Calls \cup [op : {"delete"}], callApp(j, body)
      PROVE  IInv'
  BY <1>6, BodiesApart, CallAppKeepsIInv
<1>7. ASSUME NEW j \in Jobs, \/ GotParams(j) \/ compileApprovalProgram(j)
                             \/ compileClearProgram(j) \/ sendRawTransaction(j)
      PROVE  IInv'
  BY <1>7, GotParamsKeepsIInv, CompileApprovalKeepsIInv, CompileClearKeepsIInv, SendKeepsIInv
<1>8. ASSUME NEW j \in Jobs, RequestFails(j) \/ Return(j)
      PROVE  IInv'
  BY <1>1, <1>8, EndKeepsIInv DEF RequestFails, Return, Become
<1>9. ASSUME NEW j \in Jobs, GotStatus(j) \/ statusAfterBlock(j)
      PROVE  IInv'
  BY <1>9, WaitingKeepsIInv DEF GotStatus, statusAfterBlock, Become, Waiting
<1>10. ASSUME NEW j \in Jobs, pendingTransactionInformation(j)
       PROVE  IInv'
  BY <1>10, PendingInformationKeepsIInv
<1>11. ASSUME NEW j \in Jobs, StartList(j) \/ GotSpace(j) \/ GotSystemSlot(j) \/ GotSlot(j)
       PROVE  IInv'
  BY <1>11, StartListKeepsIInv, GotSpaceKeepsIInv, GotSystemSlotKeepsIInv, GotSlotKeepsIInv
<1>12. ASSUME NEW j \in Jobs, NEW slot \in 0..(NUM_SLOTS + 1), readParsePriceSlot(j, slot)
       PROVE  IInv'
  BY <1>12, ReadSlotKeepsIInv
<1>13. CASE UNCHANGED vars
  BY <1>1, <1>13, ChainAloneKeepsIInv DEF vars
<1>14. QED
  BY <1>2, <1>3, <1>4, <1>5, <1>6, <1>7, <1>8, <1>9, <1>10, <1>11, <1>12, <1>13
     DEF Next, NewBlock

\* Every call waits for what its phase says, for an application that exists, and
\* every answer read fits the contract it was read from.
THEOREM LibraryInvariant == Spec => []IInv
<1>1. Init => IInv
  BY InitIInv
<1>2. IInv /\ [Next]_vars => IInv'
  BY NextKeepsIInv
<1>3. QED
  BY <1>1, <1>2, PTL DEF Spec

\* Every variable keeps its type: the contract has no more entries than slots,
\* and PRICECASTER_CI.appId is the id of an application that was created.
THEOREM TypeCorrect == Spec => []TypeOK
<1>1. IInv => TypeOK
  BY DEF IInv
<1>2. QED
  BY <1>1, LibraryInvariant, PTL

\* A creation carries the program it was called for or that of one it overlaps
\* with, whatever the shared record held before.
THEOREM ProgramOfItsTime == Spec => []CreatesProgramOfItsTime
<1>1. IInv => CreatesProgramOfItsTime
  BY DEF IInv, JobOK, CompiledOK, CreatesProgramOfItsTime
<1>2. QED
  BY <1>1, LibraryInvariant, PTL

\* What a read returns is the contract at its first request, unless the number
\* of slots or the application changed before its second one.
THEOREM ReadsOfFirstMoment == Spec => []ReadsAreOfTheFirstMoment
<1>1. IInv => ReadsAreOfTheFirstMoment
  BY DEF IInv, JobOK, ReadOK, EntryAt, ReadsAreOfTheFirstMoment
<1>2. QED
  BY <1>1, LibraryInvariant, PTL
=============================================================================
