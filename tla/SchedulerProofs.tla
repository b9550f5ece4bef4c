-------------------------- MODULE SchedulerProofs --------------------------
(***************************************************************************)
(* Proofs about the scheduler, for every value of its constants.           *)
(***************************************************************************)
EXTENDS Scheduler, FunctionSums, SequenceTheorems, FiniteSetTheorems, TLAPS

CopyType == [at : Place, attempts : Nat, hash : Nat]
RecordType == [status : Status, attempts : Nat, hash : Nat]

LEMMA CopyNames ==
  ASSUME NEW c \in CopyId
  PROVE  ActionOf(c) \in Action /\ c[2] \in 0..MaxReceives /\ c = <<ActionOf(c), c[2]>>
  BY DEF CopyId, ActionOf

-----------------------------------------------------------------------------
(* Most steps are those of one copy: it moves on, keeps the store or writes*)
(* itself there, and is dropped exactly when it writes a last status, which*)
(* is Done only for an action that was applied or whose answer was made up.*)
(* Its hash is one it had or that of the transaction just sent.  The file  *)
(* becomes what the store is, stays as it was or is lost; it is up to date *)
(* when a copy starts to send.                                             *)

DiskTypes ==
  diskFaults' \in 0..MaxDiskFaults /\ parses' \in BOOLEAN /\ running' \in BOOLEAN

Writes(c, next) ==
  /\ file' \in {file, store', Empty}
  /\ \E rec \in RecordType :
       /\ store' = [store EXCEPT ![ActionOf(c)] = rec]
       /\ rec.status # "absent"
       /\ next.at = "none" <=> rec.status \in {"Done", "Abandoned"}
       /\ rec.status = "Done" => AppliedOrMadeUp(ActionOf(c))
       /\ rec.hash \in {0, copy[c].hash}
       /\ rec.attempts >= copy[c].attempts
       /\ next.at \notin {"none", "stranded"} => next.attempts = rec.attempts
       /\ next.at = "sending" => rec.attempts = copy[c].attempts + 1 /\ file' = store'

NewHash(c, h) ==
  h \in {0, copy[c].hash} \/ (h \in DOMAIN txs' /\ txs'[h].action = ActionOf(c))

Acts(c) ==
  /\ copy[c].at \notin {"none", "stranded"}
  /\ DiskTypes
  /\ \E next \in CopyType :
       /\ copy' = [copy EXCEPT ![c] = next]
       /\ NewHash(c, next.hash)
       /\ next.at \in {"sent", "waiting"} => next.hash # 0
       /\ next.at = "answered" => AppliedOrMadeUp(ActionOf(c))
       /\ \/ /\ UNCHANGED <<store, file>>
             /\ next.at \notin {"none", "stranded", "sending"}
             /\ next.attempts = copy[c].attempts
          \/ Writes(c, next)

LEMMA QuietDisk ==
  ASSUME IInv, UNCHANGED <<diskVars, running>>
  PROVE  DiskTypes
  BY DEF IInv, TypeOK, DiskTypes, diskVars

LEMMA FlushTypes ==
  ASSUME IInv, Flush \/ FlushFails
  PROVE  /\ file' \in {file, store', Empty}
         /\ diskFaults' \in 0..MaxDiskFaults
         /\ parses' \in BOOLEAN
<1>1. diskFaults' \in 0..MaxDiskFaults
  BY SchedulerAssumption DEF SchedulerAssumption, IInv, TypeOK, Flush, FlushFails
<1>2. file' \in {file, store', Empty}
  BY DEF Flush, FlushFails
<1>3. parses' \in BOOLEAN
  BY DEF IInv, TypeOK, Flush, FlushFails
<1> QED
  BY <1>1, <1>2, <1>3

LEMMA StrandedType ==
  /\ Stranded \in CopyType /\ Stranded.at = "stranded" /\ Stranded.hash = 0
  /\ NoCopy \in CopyType /\ NoCopy.at = "none" /\ NoCopy.hash = 0
  BY DEF Stranded, NoCopy, CopyType, Place

LEMMA CopyTyped ==
  ASSUME IInv, NEW c \in CopyId
  PROVE  copy[c] \in CopyType /\ copy[c].attempts \in Nat /\ copy[c].hash \in Nat
         /\ copy[c].attempts >= copy[c].attempts
<1>1. copy[c] \in CopyType
  BY DEF IInv, TypeOK, CopyType
<1> QED
  BY <1>1 DEF CopyType

LEMMA PutActs ==
  ASSUME IInv, NEW c \in CopyId, copy[c].at \notin {"none", "stranded"},
         NEW status \in {"Pending", "InFlight", "Failed"},
         NEW next \in CopyType, next.hash \in {0, copy[c].hash},
         next.at \notin {"none", "stranded", "answered"},
         next.at \in {"sent", "waiting"} => next.hash # 0,
         next.attempts >= copy[c].attempts,
         next.at = "sending" => next.attempts = copy[c].attempts + 1,
         \/ Put(c, status, next)
         \/ PutAnyway(c, status, next) /\ next.at # "sending"
  PROVE  Acts(c)
<1> DEFINE rec == [status |-> status, attempts |-> next.attempts, hash |-> next.hash]
<1>1. /\ rec \in RecordType /\ rec.status \in {"Pending", "InFlight", "Failed"}
      /\ rec.hash = next.hash /\ rec.attempts = next.attempts
  BY DEF CopyType, RecordType, Status
<1>2. store' = [store EXCEPT ![ActionOf(c)] = rec] /\ running' = running
  BY DEF Put, PutAnyway, Stores
<1> HIDE DEF rec
<1>3. (Flush \/ FlushFails) /\ (Flush => file' = store')
  BY DEF Put, PutAnyway, Flush
<1>4. PICK moved \in {next, Stranded} :
        /\ copy' = [copy EXCEPT ![c] = moved]
        /\ moved.at = "sending" => file' = store'
  BY <1>3, StrandedType DEF Put, PutAnyway
<1>5. DiskTypes
  <2>1. running' \in BOOLEAN
    BY <1>2 DEF IInv, TypeOK
  <2> QED
    BY <1>3, <2>1, FlushTypes DEF DiskTypes
<1>6. Writes(c, moved)
  <2>1. file' \in {file, store', Empty}
    BY <1>3, FlushTypes
  <2> QED
    BY <1>1, <1>2, <1>4, <2>1, StrandedType DEF Writes
<1> QED
  BY <1>4, <1>5, <1>6, StrandedType DEF Acts, NewHash

LEMMA FinishActs ==
  ASSUME IInv, NEW c \in CopyId, copy[c].at \notin {"none", "stranded"},
         NEW status \in {"Done", "Abandoned"}, Finish(c, status),
         status = "Done" => AppliedOrMadeUp(ActionOf(c))
  PROVE  Acts(c)
<1> DEFINE rec == [status |-> status, attempts |-> copy[c].attempts, hash |-> copy[c].hash]
<1>1. /\ rec \in RecordType /\ rec.status = status
      /\ rec.hash = copy[c].hash /\ rec.attempts >= copy[c].attempts
  BY CopyTyped DEF RecordType, Status
<1>2. store' = [store EXCEPT ![ActionOf(c)] = rec] /\ running' = running
  BY DEF Finish, Stores
<1> HIDE DEF rec
<1>3. Flush \/ FlushFails
  BY DEF Finish
<1>4. DiskTypes
  <2>1. running' \in BOOLEAN
    BY <1>2 DEF IInv, TypeOK
  <2> QED
    BY <1>3, <2>1, FlushTypes DEF DiskTypes
<1>5. Writes(c, NoCopy)
  <2>1. file' \in {file, store', Empty}
    BY <1>3, FlushTypes
  <2> QED
    BY <1>1, <1>2, <2>1, StrandedType DEF Writes
<1> QED
  BY <1>4, <1>5, StrandedType DEF Finish, Acts, NewHash

LEMMA FailsActs ==
  ASSUME IInv, NEW c \in CopyId, copy[c].at \notin {"none", "stranded"},
         NEW h \in {0, copy[c].hash}, Fails(c, h)
  PROVE  Acts(c)
<1>1. CASE GivesUp(c)
  BY <1>1, FinishActs DEF Fails
<1>2. CASE ~GivesUp(c)
  <2> DEFINE next == [copy[c] EXCEPT !.at = "backoff", !.hash = h]
  <2>1. /\ next \in CopyType /\ next.at = "backoff" /\ next.hash = h
        /\ next.attempts >= copy[c].attempts
    <3>1. copy[c] \in CopyType /\ copy[c].attempts >= copy[c].attempts /\ h \in Nat
      BY CopyTyped
    <3> QED
      BY <3>1 DEF CopyType, Place
  <2> QED
    BY <1>2, <2>1, PutActs DEF Fails
<1> QED
  BY <1>1, <1>2

LEMMA MovedType ==
  ASSUME IInv, NEW c \in CopyId, NEW place \in Place
  PROVE  /\ Moved(c, place) \in CopyType
         /\ Moved(c, place).at = place /\ Moved(c, place).hash = copy[c].hash
         /\ Moved(c, place).attempts = copy[c].attempts
         /\ Moved(c, place).attempts >= copy[c].attempts
  BY CopyTyped DEF Moved, CopyType

LEMMA TakeActs ==
  ASSUME IInv, Take
  PROVE  Head(queue) \in CopyId /\ copy[Head(queue)].at = "queued" /\ Acts(Head(queue))
<1> DEFINE c == Head(queue)
           next == [copy[c] EXCEPT !.at = "sending", !.attempts = Counted(@)]
<1>1. queue \in Seq(CopyId) /\ queue # <<>>
  BY DEF IInv, TypeOK, Take
<1>2. c \in CopyId /\ c = queue[1] /\ 1 \in DOMAIN queue
  BY <1>1
<1>3. copy[c].at = "queued"
  BY <1>2 DEF IInv, QueueHoldsQueued
<1>4. next \in CopyType /\ next.at = "sending" /\ next.hash = copy[c].hash
      /\ next.attempts = copy[c].attempts + 1 /\ next.attempts >= copy[c].attempts
  <2>1. /\ copy[c] \in CopyType /\ copy[c].attempts \in Nat
        /\ Counted(copy[c].attempts) = copy[c].attempts + 1
        /\ Counted(copy[c].attempts) \in Nat
    BY <1>2, CopyTyped DEF Counted
  <2>2. /\ next \in CopyType /\ next.at = "sending" /\ next.hash = copy[c].hash
        /\ next.attempts = Counted(copy[c].attempts)
    BY <2>1 DEF CopyType, Place
  <2> HIDE DEF next, c
  <2> QED
    BY <2>1, <2>2
<1>5. Put(c, "InFlight", next)
  BY DEF Take
<1> QED
  BY <1>2, <1>3, <1>4, <1>5, PutActs

LEMMA NoClientActs ==
  ASSUME IInv, NoClient
  PROVE  Head(queue) \in CopyId /\ copy[Head(queue)].at = "queued" /\ Acts(Head(queue))
<1>1. queue \in Seq(CopyId) /\ queue # <<>>
  BY DEF IInv, TypeOK, NoClient
<1>2. Head(queue) \in CopyId /\ Head(queue) = queue[1] /\ 1 \in DOMAIN queue
  BY <1>1
<1>3. copy[Head(queue)].at = "queued"
  BY <1>2 DEF IInv, QueueHoldsQueued
<1>4. QED
  BY <1>2, <1>3, FailsActs DEF NoClient

LEMMA SendingActs ==
  ASSUME IInv, NEW c \in CopyId, Sends(c)
  PROVE  Acts(c)
<1>1. copy[c].at \in {"sending", "sent"}
  BY DEF Sends, Resume, SendEvm, SendEndpoint, SendSynthetic, SendRefused,
         SendAlreadyHandled, SendFails, RecordHash, MaySend
<1>2. CASE Resume(c) \/ RecordHash(c)
  <2>1. copy[c].hash # 0
    BY <1>2 DEF IInv, HashesAreOwn, Resume, RecordHash
  <2> QED
    BY <1>1, <1>2, <2>1, PutActs, MovedType DEF Resume, RecordHash, Place
<1>3. CASE SendEvm(c) \/ SendEndpoint(c) \/ SendSynthetic(c)
  <2> DEFINE next == [copy[c] EXCEPT !.at = "sent", !.hash = Len(txs) + 1]
  <2>1. copy[c] \in CopyType /\ Len(txs) + 1 \in Nat \ {0}
    BY DEF IInv, TypeOK, CopyType
  <2>2. next \in CopyType /\ next.at = "sent" /\ next.hash = Len(txs) + 1
    BY <2>1 DEF CopyType, Place
  <2>3. /\ copy' = [copy EXCEPT ![c] = next] /\ next.attempts = copy[c].attempts
        /\ UNCHANGED <<store, file>>
    BY <1>3 DEF SendEvm, SendEndpoint, SendSynthetic, Sent, diskVars
  <2>5. DiskTypes
    BY <1>3, QuietDisk DEF SendEvm, SendEndpoint, SendSynthetic
  <2>4. NewHash(c, next.hash)
    <3>1. \E outcome \in {"pending", "ok", "synthetic"} : txs' = Transaction(c, outcome)
      BY <1>3 DEF SendEvm, SendEndpoint, SendSynthetic
    <3>2. txs \in Seq([action : Action,
                      outcome : {"pending", "ok", "reverted", "synthetic"}])
      BY DEF IInv, TypeOK
    <3> QED
      BY <2>1, <2>2, <3>1, <3>2, CopyNames DEF NewHash, Transaction
  <2> QED
    BY <1>1, <2>1, <2>2, <2>3, <2>4, <2>5 DEF Acts
<1>4. CASE SendRefused(c) \/ SendFails(c)
  BY <1>1, <1>4, FailsActs DEF SendRefused, SendFails
<1>5. CASE SendAlreadyHandled(c)
  BY <1>1, <1>5, FinishActs DEF SendAlreadyHandled, AppliedOrMadeUp
<1> QED
  BY <1>2, <1>3, <1>4, <1>5 DEF Sends

LEMMA WaitingActs ==
  ASSUME IInv, NEW c \in CopyId, EndsWait(c)
  PROVE  Acts(c)
<1>1. copy[c].at \in {"waiting", "answered"}
  BY DEF EndsWait, Succeeds, Answers, Completes, Reverted, TimesOut, WaitFails, Waits
<1>2. CASE Succeeds(c) \/ Completes(c)
  <2>1. AppliedOrMadeUp(ActionOf(c))
    <3>1. CASE Succeeds(c)
      BY <1>1, <3>1
         DEF IInv, HashesAreOwn, OwnHash, EffectsAreReal, Succeeds, Outcome, Waits,
             AppliedOrMadeUp
    <3>2. CASE Completes(c)
      BY <3>2 DEF IInv, AnswersAreReal, Completes
    <3>3. QED
      BY <1>2, <3>1, <3>2
  <2> QED
    BY <1>1, <1>2, <2>1, FinishActs DEF Succeeds, Completes
<1>3. CASE Reverted(c) \/ WaitFails(c)
  BY <1>1, <1>3, FailsActs DEF Reverted, WaitFails
<1>4. CASE TimesOut(c)
  BY <1>1, <1>4, FailsActs DEF TimesOut
<1>5. CASE Answers(c)
  <2>1. AppliedOrMadeUp(ActionOf(c))
    BY <1>5 DEF Answers, IInv, EffectsAreReal
  <2> QED
    BY <1>1, <1>5, <2>1, MovedType, QuietDisk DEF Answers, Acts, NewHash, Place, diskVars
<1> QED
  BY <1>2, <1>3, <1>4, <1>5 DEF EndsWait

(* What a step does to copies, store, file, queue and names, and what it   *)
(* sends: it is a step of one copy, an Enqueue, a crash, or leaves them    *)
(* alone.                                                                  *)
NothingSent(a) == SentFor(a)' = SentFor(a)

SendStep(c) ==
  \A a \in Action :
    \/ NothingSent(a)
    \/ /\ a = ActionOf(c) /\ copy[c].at = "sending" /\ copy'[c].at # "sending"
       /\ SentFor(a)' = SentFor(a) \cup {Len(txs) + 1}

CopyStep(c) ==
  /\ Acts(c)
  /\ SendStep(c)
  /\ UNCHANGED received
  /\ \/ copy[c].at # "queued" /\ UNCHANGED queue
     \/ Push(c)
     \/ (Take \/ NoClient) /\ c = Head(queue)

QuietStep ==
  /\ UNCHANGED <<store, file, copy, queue, received, parses, diskFaults, running>>
  /\ \A a \in Action : NothingSent(a)

TxType == [action : Action, outcome : {"pending", "ok", "reverted", "synthetic"}]

LEMMA TxsTyped ==
  ASSUME IInv
  PROVE  txs \in Seq(TxType) /\ \A h \in DOMAIN txs : txs[h] \in TxType
<1>1. txs \in Seq(TxType)
  BY DEF IInv, TypeOK, TxType
<1> QED
  BY <1>1

LEMMA SameTxs ==
  ASSUME UNCHANGED txs
  PROVE  \A a \in Action : NothingSent(a)
  BY DEF NothingSent, SentFor

LEMMA SendsOnce ==
  ASSUME IInv, NEW c \in CopyId, Sends(c)
  PROVE  SendStep(c)
<1>1. CASE UNCHANGED txs
  BY <1>1, SameTxs DEF SendStep
<1>2. ASSUME NEW outcome \in {"pending", "ok", "synthetic"}, txs' = Transaction(c, outcome),
             MaySend(c), copy'[c].at # "sending"
      PROVE  SendStep(c)
  <2> DEFINE tx == [action |-> ActionOf(c), outcome |-> outcome]
  <2>1. txs \in Seq(TxType) /\ tx \in TxType /\ txs' = Append(txs, tx)
    BY <1>2, CopyNames DEF IInv, TypeOK, TxType, Transaction
  <2>2. /\ DOMAIN txs' = DOMAIN txs \cup {Len(txs) + 1}
        /\ \A h \in DOMAIN txs : txs'[h] = txs[h]
        /\ txs'[Len(txs) + 1] = tx
    BY <2>1
  <2>3. tx.action = ActionOf(c)
    OBVIOUS
  <2> HIDE DEF tx
  <2>4. ASSUME NEW a \in Action
        PROVE  SentFor(a)' = IF a = ActionOf(c) THEN SentFor(a) \cup {Len(txs) + 1}
                             ELSE SentFor(a)
    BY <2>2, <2>3 DEF SentFor
  <2> QED
    BY <1>2, <2>4 DEF SendStep, NothingSent, MaySend
<1>3. CASE SendEvm(c) \/ SendEndpoint(c) \/ SendSynthetic(c)
  <2>1. copy'[c].at # "sending"
    <3>1. copy \in [CopyId -> CopyType]
      BY DEF IInv, TypeOK, CopyType
    <3> QED
      BY <1>3, <3>1 DEF SendEvm, SendEndpoint, SendSynthetic, Sent, CopyType
  <2> QED
    BY <1>2, <1>3, <2>1 DEF SendEvm, SendEndpoint, SendSynthetic
<1>4. CASE SendFails(c)
  <2>1. copy'[c].at # "sending"
    <3>1. copy \in [CopyId -> CopyType]
      BY DEF IInv, TypeOK, CopyType
    <3>2. PICK h \in {0} : Fails(c, h)
      BY <1>4 DEF SendFails
    <3>3. CASE GivesUp(c)
      BY <3>1, <3>2, <3>3, StrandedType DEF Fails, Finish
    <3>4. CASE ~GivesUp(c)
      BY <3>1, <3>2, <3>4, StrandedType DEF Fails, Put, CopyType
    <3> QED
      BY <3>3, <3>4
  <2> QED
    BY <1>1, <1>2, <1>4, <2>1 DEF SendFails
<1> QED
  BY <1>1, <1>3, <1>4 DEF Sends, Resume, SendRefused, SendAlreadyHandled, RecordHash, chainVars

LEMMA StepCases ==
  ASSUME IInv, [Next]_vars
  PROVE  \/ \E c \in CopyId : CopyStep(c)
         \/ \E a \in Action : Receive(a)
         \/ Crash
         \/ QuietStep
<1>1. ASSUME NEW c \in CopyId, Record(c) \/ Push(c) \/ BackoffEnds(c)
      PROVE  CopyStep(c)
  <2>1. SendStep(c)
    BY <1>1, SameTxs DEF Record, Push, BackoffEnds, chainVars, SendStep
  <2>2. CASE Record(c) \/ BackoffEnds(c)
    <3>1. Acts(c)
      BY <2>2, PutActs, MovedType DEF Record, BackoffEnds, Place
    <3> QED
      BY <2>1, <2>2, <3>1 DEF Record, BackoffEnds, CopyStep
  <2>3. CASE Push(c)
    <3>1. Acts(c)
      BY <2>3, MovedType, QuietDisk DEF Push, Acts, NewHash, Place, diskVars
    <3> QED
      BY <2>1, <2>3, <3>1 DEF Push, CopyStep
  <2> QED
    BY <1>1, <2>2, <2>3
<1>2. ASSUME NEW c \in CopyId, Sends(c) \/ EndsWait(c)
      PROVE  CopyStep(c)
  <2>1. copy[c].at # "queued" /\ UNCHANGED <<queue, received>>
    BY <1>2 DEF Sends, Resume, SendEvm, SendEndpoint, SendSynthetic, SendRefused,
                SendAlreadyHandled, SendFails, RecordHash, MaySend, EndsWait, Succeeds, Answers, Completes,
                Reverted, TimesOut, WaitFails, Waits
  <2>2. CASE Sends(c)
    BY <2>1, <2>2, SendingActs, SendsOnce DEF CopyStep
  <2>3. CASE EndsWait(c)
    <3>1. UNCHANGED txs
      BY <2>3 DEF EndsWait, Succeeds, Answers, Completes, Reverted, TimesOut, WaitFails,
                  chainVars
    <3>2. SendStep(c)
      BY <3>1, SameTxs DEF SendStep
    <3> QED
      BY <2>1, <2>3, <3>2, WaitingActs DEF CopyStep
  <2> QED
    BY <1>2, <2>2, <2>3
<1>3. CASE Take \/ NoClient
  <2>1. SendStep(Head(queue))
    BY <1>3, SameTxs DEF Take, NoClient, chainVars, SendStep
  <2>2. Head(queue) \in CopyId /\ Acts(Head(queue)) /\ UNCHANGED received
    BY <1>3, TakeActs, NoClientActs DEF Take, NoClient
  <2> QED
    BY <1>3, <2>1, <2>2 DEF CopyStep
<1>4. CASE (\E a \in Action : BecomesReady(a)) \/ UNCHANGED vars
  <2>1. /\ UNCHANGED txs
        /\ UNCHANGED <<store, file, copy, queue, received, parses, diskFaults, running>>
    BY <1>4 DEF BecomesReady, vars, chainVars, diskVars
  <2>2. \A a \in Action : NothingSent(a)
    BY <2>1, SameTxs
  <2> QED
    BY <2>1, <2>2 DEF QuietStep
<1>5. ASSUME NEW h \in DOMAIN txs, Mine(h) PROVE QuietStep
  <2>1. txs \in Seq(TxType) /\ txs[h] \in TxType
    BY TxsTyped
  <2>2. PICK outcome \in {"ok", "reverted"} : txs' = [txs EXCEPT ![h].outcome = outcome]
    BY <1>5 DEF Mine
  <2>3. DOMAIN txs' = DOMAIN txs /\ \A i \in DOMAIN txs : txs'[i].action = txs[i].action
    BY <2>1, <2>2 DEF TxType
  <2> QED
    BY <1>5, <2>3 DEF Mine, diskVars, QuietStep, NothingSent, SentFor
<1> QED
  BY <1>1, <1>2, <1>3, <1>4, <1>5 DEF Next, Block
-----------------------------------------------------------------------------
(* Each conjunct of the invariant is preserved.                            *)

LEMMA StoreTypes ==
  ASSUME IInv, [Next]_vars
  PROVE  /\ store' \in [Action -> RecordType]
         /\ file' \in [Action -> RecordType]
         /\ copy' \in [CopyId -> CopyType]
<1> USE DEF IInv, TypeOK
<1> DEFINE Goal == /\ store' \in [Action -> RecordType]
                   /\ file' \in [Action -> RecordType]
                   /\ copy' \in [CopyId -> CopyType]
<1>0. /\ store \in [Action -> RecordType] /\ copy \in [CopyId -> CopyType]
      /\ file \in [Action -> RecordType] /\ Empty \in [Action -> RecordType]
  BY DEF RecordType, CopyType, Empty, Absent, Status
<1>1. ASSUME NEW c \in CopyId, CopyStep(c)
      PROVE  Goal
  <2>1. copy' \in [CopyId -> CopyType]
    BY <1>0, <1>1 DEF CopyStep, Acts
  <2>2. store' \in [Action -> RecordType]
    BY <1>0, <1>1 DEF CopyStep, Acts, Writes
  <2>3. file' \in {file, store', Empty}
    BY <1>1 DEF CopyStep, Acts, Writes
  <2> QED
    BY <1>0, <2>1, <2>2, <2>3
<1>2. ASSUME NEW a \in Action, Receive(a)
      PROVE  Goal
  <2>1. [NoCopy EXCEPT !.at = "checked"] \in CopyType
    BY DEF NoCopy, CopyType, Place
  <2> QED
    BY <1>0, <1>2, <2>1 DEF Receive, diskVars
<1>3. ASSUME Crash
      PROVE  Goal
  <2>1. NoCopy \in CopyType
    BY DEF NoCopy, CopyType, Place
  <2>2. ASSUME NEW a \in Action PROVE Recovered(a) \in CopyType
    BY <1>0, <2>1 DEF Recovered, RecordType, CopyType, Place
  <2>3. \A c \in CopyId : c[1] \in Action
    BY CopyNames DEF ActionOf
  <2> QED
    BY <1>0, <1>3, <2>1, <2>2, <2>3 DEF Crash, diskVars
<1> QED
  BY <1>0, <1>1, <1>2, <1>3, StepCases DEF QuietStep

LEMMA QueueTypes ==
  ASSUME IInv, [Next]_vars
  PROVE  queue' \in Seq(CopyId) /\ Len(queue') <= QueueCap
<1> USE DEF IInv, TypeOK
<1>0. queue \in Seq(CopyId) /\ Len(queue) <= QueueCap /\ QueueCap \in Nat
  BY SchedulerAssumption DEF SchedulerAssumption
<1>1. ASSUME NEW c \in CopyId, Push(c) PROVE queue' \in Seq(CopyId) /\ Len(queue') <= QueueCap
  BY <1>0, <1>1 DEF Push
<1>2. ASSUME Take \/ NoClient PROVE queue' \in Seq(CopyId) /\ Len(queue') <= QueueCap
  <2>1. queue # <<>> /\ queue' = Tail(queue)
    BY <1>2 DEF Take, NoClient
  <2>2. queue' \in Seq(CopyId) /\ Len(queue') = Len(queue) - 1 /\ Len(queue) \in Nat
    BY <1>0, <2>1
  <2> HIDE DEF IInv, TypeOK
  <2>3. QED
    BY <1>0, <2>2
<1>3. CASE Crash
  BY <1>0, <1>3 DEF Crash
<1> QED
  BY <1>0, <1>1, <1>2, <1>3, StepCases DEF CopyStep, Receive, QuietStep

LEMMA ReceivedTypes ==
  ASSUME IInv, [Next]_vars
  PROVE  received' \in [Action -> 0..MaxReceives]
<1>0. received \in [Action -> 0..MaxReceives] /\ MaxReceives \in Nat
  BY SchedulerAssumption DEF IInv, TypeOK, SchedulerAssumption
<1>1. ASSUME NEW a \in Action, Receive(a) PROVE received' \in [Action -> 0..MaxReceives]
  <2>1. received[a] + 1 <= MaxReceives /\ received' = [received EXCEPT ![a] = received[a] + 1]
    BY <1>1 DEF Receive
  <2>2. received[a] + 1 \in 0..MaxReceives
    BY <1>0, <2>1
  <2> QED
    BY <1>0, <2>1, <2>2
<1>2. ASSUME NEW c \in CopyId, CopyStep(c) PROVE received' = received
  BY <1>2 DEF CopyStep
<1>3. CASE Crash
  BY <1>0, <1>3 DEF Crash
<1>4. CASE QuietStep
  BY <1>0, <1>4 DEF QuietStep
<1> QED
  BY <1>0, <1>1, <1>2, <1>3, <1>4, StepCases

(* A transaction stays what it was sent for, and what is applied stays so. *)

LEMMA ChainTypes ==
  ASSUME IInv, [Next]_vars
  PROVE  /\ txs' \in Seq(TxType)
         /\ \A h \in DOMAIN txs : h \in DOMAIN txs' /\ txs'[h].action = txs[h].action
         /\ \A h \in DOMAIN txs : txs[h].outcome = "synthetic" => txs'[h] = txs[h]
         /\ applied \subseteq applied' /\ applied' \subseteq Action
         /\ \A h \in DOMAIN txs' : txs'[h].outcome = "ok" => txs'[h].action \in applied'
<1> USE DEF IInv, TypeOK, EffectsAreReal
<1> DEFINE Goal ==
      /\ txs' \in Seq(TxType)
      /\ \A h \in DOMAIN txs : h \in DOMAIN txs' /\ txs'[h].action = txs[h].action
      /\ \A h \in DOMAIN txs : txs[h].outcome = "synthetic" => txs'[h] = txs[h]
      /\ applied \subseteq applied' /\ applied' \subseteq Action
      /\ \A h \in DOMAIN txs' : txs'[h].outcome = "ok" => txs'[h].action \in applied'
<1>0. txs \in Seq(TxType) /\ applied \subseteq Action
  BY DEF TxType
<1>1. ASSUME UNCHANGED <<txs, applied>> PROVE Goal
  BY <1>0, <1>1
<1>2. ASSUME NEW c \in CopyId, NEW outcome \in {"pending", "ok", "reverted", "synthetic"},
             txs' = Transaction(c, outcome), applied \subseteq applied',
             applied' \subseteq Action,
             outcome = "ok" => ActionOf(c) \in applied'
      PROVE  Goal
  <2> DEFINE tx == [action |-> ActionOf(c), outcome |-> outcome]
  <2>1. tx \in TxType
    BY CopyNames DEF TxType
  <2>2. txs' = Append(txs, tx)
    BY <1>2 DEF Transaction
  <2>3. txs' \in Seq(TxType) /\ DOMAIN txs' = 1..(Len(txs) + 1) /\ DOMAIN txs = 1..Len(txs)
    BY <1>0, <2>1, <2>2
  <2>4. \A h \in DOMAIN txs : h \in DOMAIN txs' /\ txs'[h] = txs[h]
    BY <1>0, <2>1, <2>2, <2>3
  <2>5. txs'[Len(txs) + 1] = tx
    BY <1>0, <2>1, <2>2
  <2>6. \A h \in DOMAIN txs' : h \in DOMAIN txs \/ h = Len(txs) + 1
    BY <1>0, <2>3
  <2>7. \A h \in DOMAIN txs' : txs'[h].outcome = "ok" => txs'[h].action \in applied'
    <3>1. tx.outcome = outcome /\ tx.action = ActionOf(c)
      OBVIOUS
    <3> HIDE DEF tx
    <3>2. \A h \in DOMAIN txs : txs[h].outcome = "ok" => txs[h].action \in applied'
      BY <1>2
    <3> QED
      BY <1>2, <2>4, <2>5, <2>6, <3>1, <3>2
  <2> QED
    BY <1>2, <2>3, <2>4, <2>7
<1>3. ASSUME NEW c \in CopyId, Sends(c) PROVE Goal
  <2>1. CASE SendEvm(c) \/ SendSynthetic(c)
    BY <1>0, <1>2, <2>1 DEF SendEvm, SendSynthetic
  <2>2. CASE SendEndpoint(c)
    BY <1>0, <1>2, <2>2, CopyNames DEF SendEndpoint
  <2>3. CASE SendFails(c)
    BY <1>0, <1>1, <1>2, <2>3 DEF SendFails
  <2>4. CASE Resume(c) \/ SendRefused(c) \/ SendAlreadyHandled(c) \/ RecordHash(c)
    BY <1>1, <2>4
       DEF Resume, SendRefused, SendAlreadyHandled, RecordHash, chainVars
  <2> QED
    BY <1>3, <2>1, <2>2, <2>3, <2>4 DEF Sends
<1>4. ASSUME NEW c \in CopyId,
             Record(c) \/ Push(c) \/ EndsWait(c) \/ BackoffEnds(c)
      PROVE  Goal
  BY <1>1, <1>4
     DEF Record, Push, EndsWait, Succeeds, Answers, Completes, Reverted, TimesOut,
         WaitFails, BackoffEnds, chainVars
<1>5. ASSUME NEW h \in DOMAIN txs, Mine(h) PROVE Goal
  <2>1. txs[h].action \in Action /\ txs[h] \in TxType
    <3>1. txs[h] \in TxType
      BY <1>0
    <3> QED
      BY <3>1 DEF TxType
  <2>2. PICK outcome \in {"ok", "reverted"} :
          /\ txs' = [txs EXCEPT ![h].outcome = outcome]
          /\ outcome = "ok" => txs[h].action \in applied'
    BY <1>5 DEF Mine
  <2>3. applied \subseteq applied' /\ applied' \subseteq Action
    BY <1>5, <2>1, <1>0 DEF Mine
  <2>4. txs' \in Seq(TxType) /\ DOMAIN txs' = DOMAIN txs
    <3>1. [txs[h] EXCEPT !.outcome = outcome] \in TxType
      BY <2>1 DEF TxType
    <3>2. [txs EXCEPT ![h] = [txs[h] EXCEPT !.outcome = outcome]] \in Seq(TxType)
      <4> HIDE DEF IInv, TypeOK
      <4>1. h \in 1..Len(txs)
        BY <1>0
      <4> QED
        BY <1>0, <3>1, <4>1, ExceptSeq
    <3>3. DOMAIN txs' = DOMAIN txs
      BY <1>0, <2>2
    <3> QED
      BY <2>2, <3>2, <3>3
  <2>5. \A i \in DOMAIN txs : txs'[i].action = txs[i].action
    BY <1>0, <2>1, <2>2 DEF TxType
  <2>6. \A i \in DOMAIN txs' : txs'[i].outcome = "ok" => txs'[i].action \in applied'
    BY <1>0, <2>1, <2>2, <2>3, <2>4, <2>5 DEF TxType
  <2>7. \A i \in DOMAIN txs : txs[i].outcome = "synthetic" => txs'[i] = txs[i]
    <3>1. txs[h].outcome = "pending"
      BY <1>5 DEF Mine
    <3>2. QED
      BY <1>0, <2>2, <3>1
  <2> QED
    BY <2>3, <2>4, <2>5, <2>6, <2>7
<1>6. CASE (\E a \in Action : Receive(a) \/ BecomesReady(a)) \/ Take \/ NoClient \/ Crash
             \/ UNCHANGED vars
  BY <1>1, <1>6 DEF Receive, BecomesReady, Take, NoClient, Crash, vars, chainVars
<1> QED
  BY <1>3, <1>4, <1>5, <1>6 DEF Next, Block

(* What is applied or made up stays so, and an answer that a client holds  *)
(* is of one or the other kind.                                            *)

LEMMA EffectsStay ==
  ASSUME IInv, [Next]_vars
  PROVE  \A a \in Action : AppliedOrMadeUp(a) => AppliedOrMadeUp(a)'
<1>1. /\ applied \subseteq applied' /\ DOMAIN txs \subseteq DOMAIN txs'
      /\ \A h \in DOMAIN txs : txs[h].outcome = "synthetic" => txs'[h] = txs[h]
  BY ChainTypes
<1>2. ASSUME NEW a \in Action, MadeUp(a) PROVE MadeUp(a)'
  <2>1. PICK h \in DOMAIN txs : txs[h] = [action |-> a, outcome |-> "synthetic"]
    BY <1>2 DEF MadeUp
  <2>2. txs'[h] = txs[h] /\ h \in DOMAIN txs'
    BY <1>1, <2>1
  <2>3. QED
    BY <2>1, <2>2 DEF MadeUp
<1>3. QED
  BY <1>1, <1>2 DEF AppliedOrMadeUp

LEMMA EffectsPreserved ==
  ASSUME IInv, [Next]_vars
  PROVE  EffectsAreReal'
<1> DEFINE Kept == \A a \in held' : AppliedOrMadeUp(a)'
<1>1. \A a \in held : AppliedOrMadeUp(a)'
  BY EffectsStay DEF IInv, TypeOK, EffectsAreReal
<1>2. ASSUME NEW c \in CopyId, SendEndpoint(c) PROVE Kept
  BY <1>1, <1>2 DEF SendEndpoint, AppliedOrMadeUp
<1>3. ASSUME NEW c \in CopyId, SendSynthetic(c) PROVE Kept
  <2> DEFINE tx == [action |-> ActionOf(c), outcome |-> "synthetic"]
  <2>1. txs \in Seq(TxType) /\ tx \in TxType /\ txs' = Append(txs, tx)
    BY <1>3, TxsTyped, CopyNames DEF SendSynthetic, Transaction, TxType
  <2>2. Len(txs) + 1 \in DOMAIN txs' /\ txs'[Len(txs) + 1] = tx
    BY <2>1
  <2>3. AppliedOrMadeUp(ActionOf(c))'
    BY <1>3, <2>2 DEF SendSynthetic, AppliedOrMadeUp, MadeUp
  <2>4. held' = held \cup {ActionOf(c)}
    BY <1>3 DEF SendSynthetic
  <2>5. QED
    BY <1>1, <2>3, <2>4
<1>4. ASSUME held' \subseteq held PROVE Kept
  BY <1>1, <1>4
<1>5. ASSUME NEW c \in CopyId, Sends(c) PROVE Kept
  <2>1. CASE \/ Resume(c) \/ SendEvm(c) \/ SendRefused(c) \/ SendAlreadyHandled(c)
             \/ SendFails(c) \/ RecordHash(c)
    <3>1. held' = held
      BY <2>1 DEF Resume, SendEvm, SendRefused, SendAlreadyHandled, SendFails, RecordHash,
                  answerVars
    <3>2. QED
      BY <1>4, <3>1
  <2>2. QED
    BY <1>2, <1>3, <1>5, <2>1 DEF Sends
<1>6. ASSUME NEW c \in CopyId, Record(c) \/ Push(c) \/ EndsWait(c) \/ BackoffEnds(c)
      PROVE  Kept
  <2>1. held' \subseteq held
    BY <1>6 DEF Record, Push, EndsWait, Succeeds, Answers, Completes, Reverted, TimesOut,
                WaitFails, BackoffEnds, answerVars
  <2>2. QED
    BY <1>4, <2>1
<1>7. CASE \/ \E a \in Action : Receive(a) \/ BecomesReady(a)
           \/ Take \/ NoClient \/ Block \/ Crash \/ UNCHANGED vars
  <2>1. held' \subseteq held
    BY <1>7 DEF Receive, BecomesReady, Take, NoClient, Block, Mine, Crash, vars, answerVars
  <2>2. QED
    BY <1>4, <2>1, ChainTypes DEF EffectsAreReal
<1>8. QED
  BY <1>5, <1>6, <1>7, ChainTypes DEF Next, EffectsAreReal

LEMMA BoundTypes ==
  ASSUME IInv, [Next]_vars
  PROVE  /\ ready' \subseteq Action /\ premature' \subseteq Action
         /\ held' \subseteq Action /\ emitted' \subseteq Action /\ dropped' \subseteq Action
         /\ faults' \in 0..MaxFaults /\ crashes' \in 0..MaxCrashes
<1> USE DEF IInv, TypeOK, chainVars, answerVars
<1> DEFINE Goal ==
      /\ ready' \subseteq Action /\ premature' \subseteq Action
      /\ held' \subseteq Action /\ emitted' \subseteq Action /\ dropped' \subseteq Action
      /\ faults' \in 0..MaxFaults /\ crashes' \in 0..MaxCrashes
<1>1. Fault => faults' \in 0..MaxFaults
  BY SchedulerAssumption DEF Fault, SchedulerAssumption
<1>2. ASSUME NEW c \in CopyId, Sends(c) PROVE Goal
  BY <1>1, <1>2, CopyNames
     DEF Sends, Resume, SendEvm, SendEndpoint, SendSynthetic, SendRefused,
         SendAlreadyHandled, SendFails, RecordHash
<1>3. ASSUME NEW c \in CopyId, EndsWait(c) PROVE Goal
  BY <1>1, <1>3, CopyNames
     DEF EndsWait, Succeeds, Answers, Completes, Reverted, TimesOut, WaitFails
<1>4. ASSUME NEW c \in CopyId, Record(c) \/ Push(c) \/ BackoffEnds(c) PROVE Goal
  BY <1>4 DEF Record, Push, BackoffEnds
<1>5. ASSUME NEW h \in DOMAIN txs, Mine(h) PROVE Goal
  <2>1. txs[h] \in TxType
    <3>1. txs \in Seq(TxType)
      BY DEF TxType
    <3> QED
      BY <3>1
  <2>2. txs[h].action \in Action
    BY <2>1 DEF TxType
  <2> QED
    BY <1>5, <2>2 DEF Mine
<1>6. CASE Crash
  BY <1>6, SchedulerAssumption DEF Crash, SchedulerAssumption
<1>7. CASE (\E a \in Action : Receive(a) \/ BecomesReady(a)) \/ Take \/ NoClient
             \/ UNCHANGED vars
  BY <1>7 DEF Receive, BecomesReady, Take, NoClient, vars
<1> QED
  BY <1>2, <1>3, <1>4, <1>5, <1>6, <1>7 DEF Next, Block

LEMMA DisksTyped ==
  ASSUME IInv, [Next]_vars
  PROVE  DiskTypes
<1>1. CASE Crash
  BY <1>1 DEF Crash, diskVars, IInv, TypeOK, DiskTypes
<1>2. ASSUME NEW a \in Action, Receive(a) PROVE DiskTypes
  BY <1>2, QuietDisk DEF Receive
<1>3. CASE QuietStep
  BY <1>3, QuietDisk DEF QuietStep, diskVars
<1> QED
  BY <1>1, <1>2, <1>3, StepCases DEF CopyStep, Acts

LEMMA TypesPreserved ==
  ASSUME IInv, [Next]_vars
  PROVE  TypeOK'
  BY StoreTypes, QueueTypes, ReceivedTypes, ChainTypes, BoundTypes, DisksTyped
     DEF TypeOK, RecordType, CopyType, TxType, DiskTypes

LEMMA QueuePreserved ==
  ASSUME IInv, [Next]_vars
  PROVE  QueueHoldsQueued'
<1> USE DEF QueueHoldsQueued
<1>0. /\ queue \in Seq(CopyId) /\ copy \in [CopyId -> CopyType] /\ QueueHoldsQueued
      /\ DOMAIN queue = 1..Len(queue) /\ Len(queue) \in Nat
      /\ \A i \in DOMAIN queue : queue[i] \in CopyId
  BY DEF IInv, TypeOK, CopyType
<1>1. ASSUME NEW c \in CopyId, Acts(c), copy[c].at # "queued", UNCHANGED queue
      PROVE  QueueHoldsQueued'
  BY <1>0, <1>1 DEF Acts
<1>2. ASSUME NEW c \in CopyId, Push(c) PROVE QueueHoldsQueued'
  <2>1. queue' = Append(queue, c) /\ copy[c].at # "queued"
    BY <1>2 DEF Push
  <2>2. /\ DOMAIN queue' = 1..(Len(queue) + 1)
        /\ \A i \in DOMAIN queue : queue'[i] = queue[i] /\ queue[i] # c
        /\ queue'[Len(queue) + 1] = c
    BY <1>0, <2>1
  <2>3. copy'[c].at = "queued" /\ \A d \in CopyId : d # c => copy'[d] = copy[d]
    BY <1>0, <1>2, MovedType DEF Push, Place
  <2> QED
    BY <1>0, <2>2, <2>3
<1>3. CASE Take \/ NoClient
  <2>1. /\ queue # <<>> /\ queue' = Tail(queue)
        /\ \A d \in CopyId : d # Head(queue) => copy'[d] = copy[d]
    BY <1>0, <1>3 DEF Take, NoClient, Fails, Finish, Put
  <2>2. /\ DOMAIN queue' = 1..(Len(queue) - 1) /\ Head(queue) = queue[1]
        /\ \A i \in DOMAIN queue' : queue'[i] = queue[i + 1]
    BY <1>0, <2>1
  <2>3. \A i \in DOMAIN queue' : i + 1 \in DOMAIN queue /\ 1 \in DOMAIN queue /\ i + 1 # 1
    BY <1>0, <2>2
  <2>4. \A i \in DOMAIN queue' : queue'[i] \in CopyId /\ queue'[i] # Head(queue)
    BY <1>0, <2>2, <2>3
  <2>5. \A i, j \in DOMAIN queue' : queue'[i] = queue'[j] => i = j
    BY <1>0, <2>2, <2>3
  <2> QED
    BY <1>0, <2>1, <2>2, <2>3, <2>4, <2>5
<1>4. ASSUME NEW a \in Action, Receive(a) PROVE QueueHoldsQueued'
  <2>1. \A d \in CopyId : copy[d].at = "queued" => d # <<a, received[a] + 1>>
    <3> SUFFICES ASSUME NEW d \in CopyId, copy[d].at = "queued",
                        d = <<a, received[a] + 1>>
                 PROVE  FALSE
      OBVIOUS
    <3>1. received[a] \in Nat /\ d[1] = a /\ d[2] = received[a] + 1
      BY SchedulerAssumption DEF IInv, TypeOK, SchedulerAssumption
    <3>2. d[2] <= received[d[1]]
      BY DEF IInv, NamesAreGiven
    <3> QED
      BY <3>1, <3>2
  <2>2. \A d \in CopyId : copy[d].at = "queued" => copy'[d] = copy[d]
    BY <1>0, <1>4, <2>1 DEF Receive
  <2> QED
    BY <1>0, <1>4, <2>2 DEF Receive
<1>5. CASE Crash
  BY <1>5 DEF Crash
<1>6. CASE QuietStep
  BY <1>0, <1>6 DEF QuietStep
<1> QED
  BY <1>1, <1>2, <1>3, <1>4, <1>5, <1>6, StepCases DEF CopyStep

LEMMA NamesPreserved ==
  ASSUME IInv, [Next]_vars
  PROVE  NamesAreGiven'
<1> USE DEF NamesAreGiven
<1>0. /\ copy \in [CopyId -> CopyType] /\ received \in [Action -> 0..MaxReceives]
      /\ NamesAreGiven
  BY DEF IInv, TypeOK, CopyType
<1>1. ASSUME NEW c \in CopyId, CopyStep(c) PROVE NamesAreGiven'
  BY <1>0, <1>1 DEF CopyStep, Acts
<1>2. ASSUME NEW a \in Action, Receive(a) PROVE NamesAreGiven'
  <2>1. /\ received' = [received EXCEPT ![a] = received[a] + 1]
        /\ \A d \in CopyId : d # <<a, received[a] + 1>> => copy'[d] = copy[d]
    BY <1>0, <1>2 DEF Receive
  <2> QED
    BY <1>0, <2>1, CopyNames DEF ActionOf
<1>3. CASE Crash
  <2>1. \A c \in CopyId : copy'[c].at # "none" => c[2] = 0
    BY <1>3 DEF Crash, NoCopy
  <2> QED
    BY <1>0, <1>3, <2>1, CopyNames DEF Crash, ActionOf
<1> QED
  BY <1>0, <1>1, <1>2, <1>3, StepCases DEF QuietStep

LEMMA CopiesPreserved ==
  ASSUME IInv, [Next]_vars
  PROVE  AtMostOneCopy' /\ NotStranded' /\ DoneIsApplied' /\ FileIsBehind'
<1> USE DEF AtMostOneCopy, DoneIsApplied, FileIsBehind, Live
<1> DEFINE Goal == AtMostOneCopy' /\ NotStranded' /\ DoneIsApplied' /\ FileIsBehind'
<1>0. /\ copy \in [CopyId -> CopyType] /\ received \in [Action -> 0..MaxReceives]
      /\ store \in [Action -> RecordType] /\ file \in [Action -> RecordType]
      /\ NamesAreGiven /\ AtMostOneCopy /\ DoneIsApplied /\ FileIsBehind
      /\ \A a \in Action : Empty[a] = Absent /\ Absent.status = "absent"
  BY DEF IInv, TypeOK, CopyType, RecordType, Empty, Absent
<1>1. \A a \in Action : AppliedOrMadeUp(a) => AppliedOrMadeUp(a)'
  BY EffectsStay
<1> DEFINE Covered == \A a \in Action : store[a].status \notin Terminal => Live(a) # {}
<1>2. Covered /\ (Covered' => NotStranded')
  BY DEF IInv, NotStranded, Carried, IsStranded
<1>3. ASSUME NEW c \in CopyId, CopyStep(c)
      PROVE  Goal
  <2>1. /\ copy[c].at # "none" /\ received' = received /\ ActionOf(c) \in Action
        /\ \A d \in CopyId : d # c => copy'[d] = copy[d]
        /\ \A a \in Action : a # ActionOf(c) => store'[a] = store[a]
        /\ file' \in {file, store', Empty}
    BY <1>0, <1>3, CopyNames DEF CopyStep, Acts, Writes
  <2>2. \/ store'[ActionOf(c)] = store[ActionOf(c)] /\ copy'[c].at # "none"
        \/ /\ store'[ActionOf(c)].status # "absent"
           /\ copy'[c].at = "none" <=> store'[ActionOf(c)].status \in {"Done", "Abandoned"}
           /\ store'[ActionOf(c)].status = "Done" => AppliedOrMadeUp(ActionOf(c))
    BY <1>0, <1>3, <2>1 DEF CopyStep, Acts, Writes
  <2>3. received[ActionOf(c)] # 0
    BY <1>0, <2>1
  <2>4. AtMostOneCopy'
    BY <1>0, <2>1, <2>2, <2>3
  <2>5. Covered'
    BY <1>0, <1>2, <2>1, <2>2 DEF Terminal
  <2>6. DoneIsApplied'
    BY <1>0, <1>1, <2>1, <2>2
  <2>7. \A a \in Action : received[a] <= 1 /\ store[a].status = "Done" => a # ActionOf(c)
    BY <1>0, <2>1
  <2>8. FileIsBehind'
    <3>1. CASE file' = file
      BY <1>0, <1>1, <2>1, <2>3, <2>7, <3>1
    <3>2. CASE file' = store'
      BY <1>0, <2>1, <2>3, <2>6, <3>2
    <3>3. CASE file' = Empty
      BY <1>0, <3>3
    <3> QED
      BY <2>1, <3>1, <3>2, <3>3
  <2> QED
    BY <1>2, <2>4, <2>5, <2>6, <2>8
<1>4. ASSUME NEW a \in Action, Receive(a)
      PROVE  Goal
  <2> DEFINE new == <<a, received[a] + 1>>
  <2>1. received[a] \in Nat /\ new \in CopyId /\ ActionOf(new) = a
    BY <1>0, <1>4, SchedulerAssumption DEF Receive, CopyId, ActionOf, SchedulerAssumption
  <2>2. /\ store' = store /\ file' = file
        /\ store[a].status # "Done"
        /\ received' = [received EXCEPT ![a] = received[a] + 1]
        /\ copy'[new].at = "checked"
        /\ \A d \in CopyId : d # new => copy'[d] = copy[d]
    BY <1>0, <1>4, <2>1 DEF Receive, diskVars, NoCopy
  <2> HIDE DEF new
  <2>3. AtMostOneCopy'
    BY <1>0, <2>1, <2>2
  <2>4. Covered' /\ DoneIsApplied'
    BY <1>0, <1>1, <1>2, <2>1, <2>2
  <2>5. FileIsBehind'
    BY <1>0, <1>1, <2>1, <2>2
  <2> QED
    BY <1>2, <2>3, <2>4, <2>5
<1>5. ASSUME Crash
      PROVE  Goal
  <2>1. UNCHANGED <<received, file>> /\ store' = file
    BY <1>5 DEF Crash, diskVars
  <2>2. \A c \in CopyId :
          copy'[c].at # "none" <=> c[2] = 0 /\ file[ActionOf(c)].status \notin Terminal
    BY <1>5 DEF Crash, Recovered, NoCopy, ActionOf
  <2>3. \A a \in Action : <<a, 0>> \in CopyId /\ ActionOf(<<a, 0>>) = a /\ <<a, 0>>[2] = 0
    BY SchedulerAssumption DEF CopyId, ActionOf, SchedulerAssumption
  <2>4. \A c \in CopyId : c[2] = 0 => c = <<ActionOf(c), 0>>
    BY CopyNames
  <2>5. AtMostOneCopy'
    BY <1>0, <2>1, <2>2, <2>4 DEF Terminal, Absent
  <2>6. Covered'
    BY <1>0, <2>1, <2>2, <2>3
  <2>7. DoneIsApplied' /\ FileIsBehind'
    BY <1>0, <1>1, <2>1
  <2> QED
    BY <1>2, <2>5, <2>6, <2>7
<1>6. CASE QuietStep
  <2>1. Covered'
    BY <1>2, <1>6 DEF QuietStep
  <2> QED
    BY <1>0, <1>1, <1>2, <1>6, <2>1 DEF QuietStep
<1> QED
  BY <1>3, <1>4, <1>5, <1>6, StepCases

LEMMA AnswersPreserved ==
  ASSUME IInv, [Next]_vars
  PROVE  AnswersAreReal'
<1> USE DEF AnswersAreReal
<1>0. /\ copy \in [CopyId -> CopyType] /\ AnswersAreReal
      /\ \A c \in CopyId :
           AppliedOrMadeUp(ActionOf(c)) => AppliedOrMadeUp(ActionOf(c))'
  BY EffectsStay, CopyNames DEF IInv, TypeOK, CopyType
<1>1. ASSUME NEW c \in CopyId, CopyStep(c) PROVE AnswersAreReal'
  BY <1>0, <1>1 DEF CopyStep, Acts
<1>2. ASSUME NEW a \in Action, Receive(a) PROVE AnswersAreReal'
  BY <1>0, <1>2 DEF Receive, NoCopy
<1>3. CASE Crash
  BY <1>0, <1>3 DEF Crash, Recovered, NoCopy
<1>4. CASE QuietStep
  BY <1>0, <1>4 DEF QuietStep
<1> QED
  BY <1>1, <1>2, <1>3, <1>4, StepCases

LEMMA HashesPreserved ==
  ASSUME IInv, [Next]_vars
  PROVE  HashesAreOwn'
<1> USE DEF HashesAreOwn, OwnHash
<1>0. /\ copy \in [CopyId -> CopyType] /\ store \in [Action -> RecordType]
      /\ HashesAreOwn /\ \A a \in Action : Empty[a].hash = 0
  BY DEF IInv, TypeOK, CopyType, RecordType, Empty, Absent
<1>1. \A h \in DOMAIN txs : h \in DOMAIN txs' /\ txs'[h].action = txs[h].action
  BY ChainTypes
<1>2. ASSUME NEW c \in CopyId, CopyStep(c) PROVE HashesAreOwn'
  <2>1. ActionOf(c) \in Action
    BY CopyNames
  <2>2. PICK next \in CopyType :
          /\ copy' = [copy EXCEPT ![c] = next]
          /\ NewHash(c, next.hash)
          /\ next.at \in {"sent", "waiting"} => next.hash # 0
          /\ UNCHANGED <<store, file>> \/ Writes(c, next)
    BY <1>2 DEF CopyStep, Acts
  <2>3. OwnHash(ActionOf(c), next.hash)' /\ OwnHash(ActionOf(c), copy[c].hash)
    BY <1>0, <1>1, <2>2 DEF NewHash
  <2>4. \A d \in CopyId : /\ (OwnHash(ActionOf(d), copy[d].hash))'
                          /\ copy'[d].at \in {"sent", "waiting"} => copy'[d].hash # 0
    BY <1>0, <1>1, <2>2, <2>3
  <2>5. \A a \in Action : (OwnHash(a, store[a].hash))'
    BY <1>0, <1>1, <2>1, <2>2, <2>3 DEF Writes
  <2>6. \A a \in Action : (OwnHash(a, file[a].hash))'
    <3>1. file' \in {file, store', Empty}
      BY <2>2 DEF Writes
    <3> QED
      BY <1>0, <1>1, <2>5, <3>1
  <2> QED
    BY <2>4, <2>5, <2>6
<1>3. ASSUME NEW a \in Action, Receive(a) PROVE HashesAreOwn'
  <2>1. UNCHANGED <<store, file>>
    BY <1>3 DEF Receive, diskVars
  <2>2. \A d \in CopyId : copy'[d] = copy[d] \/ copy'[d] = [NoCopy EXCEPT !.at = "checked"]
    BY <1>0, <1>3 DEF Receive
  <2> QED
    BY <1>0, <1>1, <2>1, <2>2 DEF NoCopy
<1>4. CASE Crash
  <2>1. store' = file /\ file' = file
    BY <1>4 DEF Crash, diskVars
  <2>2. \A c \in CopyId : /\ copy'[c].at \notin {"sent", "waiting"}
                          /\ copy'[c].hash \in {0, file[ActionOf(c)].hash}
    BY <1>4 DEF Crash, Recovered, NoCopy, ActionOf
  <2> QED
    BY <1>0, <1>1, <2>1, <2>2, CopyNames
<1>5. CASE QuietStep
  BY <1>0, <1>1, <1>5 DEF QuietStep
<1> QED
  BY <1>2, <1>3, <1>4, <1>5, StepCases

(* The count of sends and the records of attempts.                         *)

LEMMA SendCounts ==
  ASSUME IInv, NEW a \in Action
  PROVE  /\ IsFiniteSet(SentFor(a)) /\ Cardinality(SentFor(a)) \in Nat
         /\ IsFiniteSet(SentFor(a) \cup {Len(txs) + 1})
         /\ Cardinality(SentFor(a) \cup {Len(txs) + 1}) = Cardinality(SentFor(a)) + 1
<1>1. Len(txs) \in Nat /\ DOMAIN txs = 1..Len(txs)
  BY TxsTyped
<1>2. IsFiniteSet(1..Len(txs)) /\ SentFor(a) \subseteq 1..Len(txs)
  BY <1>1, FS_Interval DEF SentFor
<1>3. IsFiniteSet(SentFor(a))
  BY <1>2, FS_Subset
<1>4. Len(txs) + 1 \notin SentFor(a)
  BY <1>1, <1>2
<1> QED
  BY <1>3, <1>4, FS_CardinalityType, FS_AddElement

\* The number of sends of action a.
Count(a) == Cardinality(SentFor(a))

LEMMA CountStep ==
  ASSUME IInv, NEW c \in CopyId, SendStep(c), NEW a \in Action
  PROVE  /\ Count(a) \in Nat
         /\ \/ Count(a)' = Count(a)
            \/ /\ a = ActionOf(c) /\ copy[c].at = "sending" /\ copy'[c].at # "sending"
               /\ Count(a)' = Count(a) + 1
  BY SendCounts DEF SendStep, NothingSent, Count

(* What is known of n sends, before and after a step of copy c.            *)
LEMMA KnownStep ==
  ASSUME IInv, NEW c \in CopyId, Acts(c), NEW a \in Action, received[a] <= 1,
         NEW n \in Nat, Known(a, n)
  PROVE  Known(a, n)'
<1>0. /\ copy \in [CopyId -> CopyType] /\ store \in [Action -> RecordType]
      /\ file \in [Action -> RecordType] /\ Empty[a].status = "absent"
  BY DEF IInv, TypeOK, CopyType, RecordType, Empty, Absent
<1>1. PICK next \in CopyType :
        /\ copy' = [copy EXCEPT ![c] = next]
        /\ \/ /\ UNCHANGED <<store, file>> /\ next.attempts = copy[c].attempts
           \/ Writes(c, next)
  BY DEF Acts
<1>2. copy[c].at \notin {"none", "stranded"} /\ ActionOf(c) \in Action
      /\ copy[c].attempts \in Nat
  BY CopyTyped, CopyNames DEF Acts
<1>3. CASE UNCHANGED <<store, file>> /\ next.attempts = copy[c].attempts
  BY <1>0, <1>1, <1>2, <1>3 DEF Known, Live
<1>4. CASE Writes(c, next)
  <2>1. PICK rec \in RecordType :
          /\ store' = [store EXCEPT ![ActionOf(c)] = rec]
          /\ rec.attempts >= copy[c].attempts
          /\ next.at \notin {"none", "stranded"} => next.attempts = rec.attempts
    BY <1>4 DEF Writes
  <2>2. rec.attempts \in Nat
    BY DEF RecordType
  <2>3. a = ActionOf(c) => n <= rec.attempts
    BY <1>2, <2>1, <2>2 DEF Known, Live
  <2>4. store'[a].status # "absent" => n <= store'[a].attempts
    BY <1>0, <1>2, <2>1, <2>3 DEF Known
  <2>5. file'[a].status # "absent" => n <= file'[a].attempts
    <3>1. file' \in {file, store', Empty}
      BY <1>4 DEF Writes
    <3> QED
      BY <1>0, <2>4, <3>1 DEF Known
  <2>6. \A d \in CopyId : ActionOf(d) = a /\ copy'[d].at \notin {"none", "stranded"}
                             => n <= copy'[d].attempts
    BY <1>0, <1>1, <1>2, <2>1, <2>2, <2>3 DEF Known, Live
  <2> QED
    BY <2>4, <2>5, <2>6 DEF Known, Live
<1> QED
  BY <1>1, <1>3, <1>4

(* A copy that starts to send has been counted, and the file knows.        *)
LEMMA KnownWhenTaken ==
  ASSUME IInv, NEW c \in CopyId, Acts(c), copy'[c].at = "sending",
         received[ActionOf(c)] <= 1, NEW n \in Nat, Known(ActionOf(c), n)
  PROVE  Known(ActionOf(c), n + 1)'
<1> DEFINE a == ActionOf(c)
<1>0. /\ copy \in [CopyId -> CopyType] /\ store \in [Action -> RecordType]
      /\ a \in Action /\ copy[c].attempts \in Nat
  BY CopyTyped, CopyNames DEF IInv, TypeOK, CopyType, RecordType
<1>1. PICK next \in CopyType :
        /\ copy' = [copy EXCEPT ![c] = next]
        /\ next.at = "sending" => Writes(c, next)
  BY DEF Acts
<1>2. next.at = "sending" /\ copy[c].at \notin {"none", "stranded"}
  BY <1>0, <1>1 DEF Acts
<1>3. PICK rec \in RecordType :
        /\ store' = [store EXCEPT ![a] = rec] /\ file' = store'
        /\ rec.attempts = copy[c].attempts + 1 /\ next.attempts = rec.attempts
  BY <1>1, <1>2 DEF Writes
<1>4. n + 1 <= rec.attempts
  BY <1>0, <1>2, <1>3 DEF Known, Live
<1>5. \A d \in CopyId : ActionOf(d) = a /\ copy[d].at # "none" => d = c
  BY <1>0, <1>2 DEF IInv, AtMostOneCopy, Live
<1>6. \A d \in CopyId : ActionOf(d) = a /\ copy'[d].at # "none" => d = c
  BY <1>0, <1>1, <1>5
<1> QED
  BY <1>0, <1>1, <1>3, <1>4, <1>6 DEF Known, Live

LEMMA SendsPreserved ==
  ASSUME IInv, [Next]_vars
  PROVE  SendsKnown'
<1> DEFINE
      KnownOf(a) ==
        /\ received[a] = 0 => SentFor(a) = {}
        /\ received[a] <= 1 =>
             /\ Known(a, Count(a))
             /\ \A c \in Live(a) : copy[c].at = "sending" => Known(a, Count(a) + 1)
<1>0. /\ copy \in [CopyId -> CopyType] /\ received \in [Action -> 0..MaxReceives]
      /\ \A a \in Action : KnownOf(a) /\ Count(a) \in Nat
      /\ \A a \in Action : received[a] \in Nat
  <2>1. copy \in [CopyId -> CopyType] /\ received \in [Action -> 0..MaxReceives]
    BY DEF IInv, TypeOK, CopyType
  <2>2. \A a \in Action : KnownOf(a)
    BY DEF IInv, SendsKnown, Count
  <2>3. \A a \in Action : Count(a) \in Nat
    BY SendCounts DEF Count
  <2>4. \A a \in Action : received[a] \in Nat
    BY <2>1, SchedulerAssumption DEF SchedulerAssumption
  <2> HIDE DEF KnownOf
  <2> QED
    BY <2>1, <2>2, <2>3, <2>4
<1>1. (\A a \in Action : KnownOf(a)') => SendsKnown'
  BY DEF SendsKnown, Count
<1>2. ASSUME NEW c \in CopyId, CopyStep(c), NEW a \in Action PROVE KnownOf(a)'
  <2>1. /\ Acts(c) /\ SendStep(c) /\ received' = received
        /\ copy[c].at \notin {"none", "stranded"}
        /\ \A d \in CopyId : d # c => copy'[d] = copy[d]
    BY <1>0, <1>2 DEF CopyStep, Acts
  <2>2. \/ Count(a)' = Count(a)
        \/ /\ a = ActionOf(c) /\ copy[c].at = "sending" /\ copy'[c].at # "sending"
           /\ Count(a)' = Count(a) + 1
    BY <2>1, CountStep
  <2>3. received[a] = 0 => (SentFor(a) = {})'
    <3>1. received[a] = 0 => a # ActionOf(c)
      BY <1>0, <2>1 DEF IInv, AtMostOneCopy, Live
    <3> QED
      BY <1>0, <2>1, <3>1 DEF SendStep, NothingSent
  <2>4. ASSUME received[a] <= 1 PROVE Known(a, Count(a))'
    <3>1. CASE Count(a)' = Count(a)
      BY <1>0, <2>1, <2>4, <3>1, KnownStep DEF Known, Live
    <3>2. CASE /\ a = ActionOf(c) /\ copy[c].at = "sending"
               /\ Count(a)' = Count(a) + 1
      <4>1. Known(a, Count(a) + 1)
        BY <1>0, <2>4, <3>2 DEF Live
      <4> QED
        BY <1>0, <2>1, <2>4, <3>2, <4>1, KnownStep DEF Known, Live
    <3> QED
      BY <2>2, <3>1, <3>2
  <2>5. ASSUME received[a] <= 1, NEW d \in CopyId, ActionOf(d) = a,
               copy'[d].at = "sending"
        PROVE  Known(a, Count(a) + 1)'
    <3>1. CASE d = c
      <4>1. Count(a)' = Count(a)
        BY <2>2, <2>5, <3>1
      <4> QED
        BY <1>0, <2>1, <2>5, <3>1, <4>1, KnownWhenTaken DEF Known, Live
    <3>2. CASE d # c
      <4>1. copy[d].at = "sending"
        BY <2>1, <2>5, <3>2
      <4>2. a # ActionOf(c)
        BY <2>1, <2>5, <3>2, <4>1 DEF IInv, AtMostOneCopy, Live
      <4>3. Count(a)' = Count(a)
        BY <2>2, <4>2
      <4>4. Known(a, Count(a) + 1)
        BY <1>0, <2>5, <4>1 DEF Live
      <4> QED
        BY <1>0, <2>1, <2>5, <4>3, <4>4, KnownStep DEF Known, Live
    <3> QED
      BY <3>1, <3>2
  <2> QED
    BY <2>1, <2>3, <2>4, <2>5 DEF Live
<1>3. ASSUME NEW b \in Action, Receive(b), NEW a \in Action PROVE KnownOf(a)'
  <2> DEFINE new == <<b, received[b] + 1>>
  <2>1. /\ UNCHANGED <<store, file, txs>>
        /\ received' = [received EXCEPT ![b] = received[b] + 1]
        /\ \A d \in CopyId : d # new => copy'[d] = copy[d]
        /\ \A d \in CopyId : ActionOf(d) # b => d # new
    BY <1>0, <1>3 DEF Receive, chainVars, diskVars, ActionOf
  <2>2. (SentFor(a) = {} => (SentFor(a) = {})') /\ Count(a)' = Count(a)
    BY <2>1 DEF SentFor, Count
  <2>3. CASE a # b
    BY <1>0, <2>1, <2>2, <2>3 DEF Known, Live
  <2>4. CASE a = b /\ received[b] = 0
    <3>1. /\ store[a].status = "absent" /\ file[a].status = "absent"
          /\ \A d \in CopyId : ActionOf(d) = a => copy[d].at = "none"
      BY <2>4 DEF IInv, AtMostOneCopy, FileIsBehind, Absent, Live
    <3>2. Count(a) = 0
      BY <1>0, <2>4, FS_EmptySet DEF Count
    <3>3. \A d \in CopyId : d = new => copy'[d].at = "checked" /\ copy'[d].attempts = 0
      BY <1>0, <1>3 DEF Receive, NoCopy
    <3> HIDE DEF new
    <3> QED
      BY <1>0, <2>1, <2>2, <2>4, <3>1, <3>2, <3>3 DEF Known, Live
  <2>5. CASE a = b /\ received[b] # 0
    BY <1>0, <2>1, <2>5
  <2> QED
    BY <2>3, <2>4, <2>5
<1>4. ASSUME Crash, NEW a \in Action PROVE KnownOf(a)'
  <2>1. UNCHANGED <<received, txs, file>> /\ store' = file
    BY <1>4 DEF Crash, chainVars, diskVars
  <2>2. \A d \in CopyId : ActionOf(d) = a /\ copy'[d].at # "none"
          => /\ file[a].status # "absent" /\ copy'[d].attempts = file[a].attempts
             /\ copy'[d].at = "starting"
    BY <1>4 DEF Crash, Recovered, NoCopy, ActionOf, Terminal
  <2>3. (SentFor(a) = {} => (SentFor(a) = {})') /\ Count(a)' = Count(a)
    BY <2>1 DEF SentFor, Count
  <2> QED
    BY <1>0, <2>1, <2>2, <2>3 DEF Known, Live
<1>5. ASSUME QuietStep, NEW a \in Action PROVE KnownOf(a)'
  <2>1. Count(a)' = Count(a) /\ SentFor(a)' = SentFor(a)
    BY <1>5 DEF QuietStep, NothingSent, Count
  <2> QED
    BY <1>0, <1>5, <2>1 DEF QuietStep, Known, Live
<1> QED
  BY <1>1, <1>2, <1>3, <1>4, <1>5, StepCases

-----------------------------------------------------------------------------
(* The theorems.                                                           *)

LEMMA InitInvariant == Init => IInv
<1> SUFFICES ASSUME Init PROVE IInv
  OBVIOUS
<1> USE SchedulerAssumption DEF Init, SchedulerAssumption
<1>1. TypeOK
  <2>1. NoCopy \in [at : Place, attempts : Nat, hash : Nat]
        /\ Absent \in [status : Status, attempts : Nat, hash : Nat]
    BY DEF NoCopy, Absent, Place, Status
  <2> QED
    BY <2>1 DEF TypeOK, Empty
<1>2. QueueHoldsQueued /\ NamesAreGiven /\ EffectsAreReal /\ AnswersAreReal
  BY DEF QueueHoldsQueued, NamesAreGiven, EffectsAreReal, AnswersAreReal, NoCopy
<1>3. AtMostOneCopy /\ NotStranded /\ DoneIsApplied /\ FileIsBehind
  BY DEF AtMostOneCopy, NotStranded, DoneIsApplied, FileIsBehind, Live, NoCopy, Absent,
         Empty, Terminal
<1>4. HashesAreOwn
  BY DEF HashesAreOwn, OwnHash, NoCopy, Absent, Empty
<1>5. SendsKnown
  <2>1. \A a \in Action : SentFor(a) = {}
    BY DEF SentFor
  <2>2. \A a \in Action : store[a].status = "absent" /\ file[a].status = "absent"
    BY DEF Empty, Absent
  <2>3. \A c \in CopyId : copy[c].at = "none"
    BY DEF NoCopy
  <2> QED
    BY <2>1, <2>2, <2>3 DEF SendsKnown, Known, Live
<1> QED
  BY <1>1, <1>2, <1>3, <1>4, <1>5 DEF IInv

(* The strengthened invariant holds in every reachable state, whatever the *)
(* numbers of actions, workers, retries, repeated events and crashes.      *)
THEOREM Invariant == Spec => []IInv
<1>1. IInv /\ [Next]_vars => IInv'
  BY TypesPreserved, QueuePreserved, NamesPreserved, CopiesPreserved, HashesPreserved,
     AnswersPreserved, SendsPreserved, EffectsPreserved DEF IInv
<1> QED
  BY InitInvariant, <1>1, PTL DEF Spec

(* Every variable of the scheduler keeps its type; the channel stays within*)
(* its capacity.                                                           *)
THEOREM TypeCorrect == Spec => []TypeOK
<1>1. IInv => TypeOK
  BY DEF IInv
<1> QED
  BY Invariant, <1>1, PTL

(* An unfinished action is never lost track of, through failed sends,      *)
(* repeated events and crashes.                                            *)
THEOREM NothingStranded == Spec => []NotStranded
<1>1. IInv => NotStranded
  BY DEF IInv
<1> QED
  BY Invariant, <1>1, PTL

(* No restart can make the relayer send an action more often than its file *)
(* has counted: for an action enqueued once and whatever failed in between,*)
(* the file, as long as it has the action, has counted every send.         *)
THEOREM EverySendCounted == Spec => []SendsCounted
<1>1. IInv => SendsCounted
  BY DEF IInv, SendsKnown, Known, SendsCounted
<1> QED
  BY Invariant, <1>1, PTL

(* An action the checkpoint calls done has taken effect on its chain, or   *)
(* its answer was made up by a client that may do so.                      *)
THEOREM DoneMeansApplied == Spec => []DoneIsApplied
<1>1. IInv => DoneIsApplied
  BY DEF IInv
<1> QED
  BY Invariant, <1>1, PTL

(* Of all others, EVM calls and those to a client that answers only for    *)
(* what it has executed, done means executed.                              *)
THEOREM DoneMeansExecuted ==
  Spec => [](\A a \in Action \ Fallback : store[a].status = "Done" => a \in applied)
<1>1. IInv => \A a \in Action \ Fallback : store[a].status = "Done" => a \in applied
  BY DEF IInv, DoneIsApplied, AppliedOrMadeUp
<1> QED
  BY Invariant, <1>1, PTL

(* An action that was enqueued once and is done is never taken up again,   *)
(* as no copy of it is left that could write to the store, unless a restart*)
(* finds that the last write of it did not reach the file.                 *)
THEOREM DoneStaysDone == Spec => DoneIsFinal
<1> DEFINE Final == \A a \in Action :
      store[a].status = "Done" /\ received[a] <= 1
        => \/ store'[a].status = "Done"
           \/ crashes' # crashes /\ file[a].status # "Done"
<1>1. ASSUME IInv, [Next]_vars PROVE Final
  <2> SUFFICES ASSUME NEW a \in Action, store[a].status = "Done", received[a] <= 1
               PROVE  \/ store'[a].status = "Done"
                      \/ crashes' # crashes /\ file[a].status # "Done"
    OBVIOUS
  <2>1. Live(a) = {}
    BY <1>1 DEF IInv, AtMostOneCopy
  <2>2. ASSUME NEW c \in CopyId, CopyStep(c) PROVE store'[a].status = "Done"
    <3>1. ActionOf(c) # a
      BY <2>1, <2>2 DEF CopyStep, Acts, Live
    <3> QED
      BY <1>1, <2>2, <3>1 DEF CopyStep, Acts, Writes, IInv, TypeOK
  <2>3. CASE Crash
    <3>1. crashes \in Nat /\ crashes' = crashes + 1 /\ store' = file
      BY <1>1, <2>3, SchedulerAssumption DEF IInv, TypeOK, Crash, SchedulerAssumption
    <3> QED
      BY <3>1
  <2> QED
    BY <1>1, <2>2, <2>3, StepCases DEF Receive, QuietStep
<1>2. IInv /\ [Next]_vars => [Final]_vars
  BY <1>1
<1> QED
  BY Invariant, <1>2, PTL DEF Spec, DoneIsFinal

-----------------------------------------------------------------------------
(* The bound on the number of sends (SendsBounded).                        *)
(*                                                                         *)
(* Every copy of an action has a budget, the sends it may still make, and  *)
(* an Enqueue brings MaxRetries of them.  Sends use it up, copies never    *)
(* gain any.  A crash replaces all copies of an action by one made from    *)
(* the file, so the budget of that one has to be covered too, by what the  *)
(* copies other than the author of the file's record leave: the author has *)
(* counted every attempt but the last one in that record.                  *)

\* Sends left after n attempts, and those of a copy that is sure to make one.
Left(n) == IF n < MaxRetries THEN MaxRetries - n ELSE 0
AtLeastOne(n) == IF n < MaxRetries THEN MaxRetries - n ELSE 1

\* The send of an attempt that has been counted and not made.
Sending(r) == IF r.at = "sending" /\ r.hash = 0 THEN 1 ELSE 0

\* What a copy may still send.
BudgetOf(r) ==
  IF r.at \in {"none", "stranded"} THEN 0
  ELSE IF r.at \in {"sending", "sent", "waiting", "answered"}
       THEN Left(r.attempts) + Sending(r)
       ELSE AtLeastOne(r.attempts)

Number == 0..MaxReceives
Budgets(copies, a) == [n \in Number |-> BudgetOf(copies[<<a, n>>])]
Total(a) == SumFunction(Budgets(copy, a))
Allowed(a) == MaxRetries * received[a] + crashes

\* The copies of an action keep within what is allowed ...
CopiesCovered == \A a \in Action : Count(a) + Total(a) <= Allowed(a)

\* ... and so does a copy that a crash would make from a record of it, in place
\* of all others, with the send that the crash allows.
RecordCovered(a, rec) ==
  rec.status \notin Terminal =>
    \E n \in Number :
      LET author == copy[<<a, n>>]
      IN Count(a) + AtLeastOne(rec.attempts) + Sending(author)
           + (Total(a) - BudgetOf(author)) <= Allowed(a) + 1

\* The same of a record, after a step.
CoveredAfter(a, rec) ==
  rec.status \notin Terminal =>
    \E n \in Number :
      LET author == copy'[<<a, n>>]
      IN Count(a)' + AtLeastOne(rec.attempts) + Sending(author)
           + (Total(a)' - BudgetOf(author)) <= Allowed(a)' + 1

(* The inductive strengthening of SendsBounded, given IInv.                *)
BudgetInv ==
  /\ CopiesCovered
  /\ \A a \in Action : RecordCovered(a, store[a]) /\ RecordCovered(a, file[a])

-----------------------------------------------------------------------------
(* The types of all this.                                                  *)

LEMMA BudgetTypes ==
  ASSUME NEW r \in CopyType
  PROVE  /\ Left(r.attempts) \in Nat /\ AtLeastOne(r.attempts) \in Nat \ {0}
         /\ AtLeastOne(r.attempts) <= Left(r.attempts) + 1
         /\ Left(r.attempts) <= AtLeastOne(r.attempts)
         /\ Sending(r) \in {0, 1} /\ Sending(r) <= BudgetOf(r)
         /\ BudgetOf(r) \in Nat
  BY SchedulerAssumption
     DEF SchedulerAssumption, CopyType, Left, AtLeastOne, Sending, BudgetOf

LEMMA RecordBudget ==
  ASSUME NEW rec \in RecordType
  PROVE  AtLeastOne(rec.attempts) \in Nat \ {0}
  BY SchedulerAssumption DEF SchedulerAssumption, RecordType, AtLeastOne

LEMMA BudgetsTyped ==
  ASSUME NEW copies \in [CopyId -> CopyType], NEW a \in Action
  PROVE  /\ IsFiniteSet(Number) /\ Budgets(copies, a) \in [Number -> Nat]
         /\ SumFunction(Budgets(copies, a)) \in Nat
         /\ \A n \in Number :
              /\ copies[<<a, n>>] \in CopyType
              /\ Budgets(copies, a)[n] = BudgetOf(copies[<<a, n>>])
              /\ BudgetOf(copies[<<a, n>>]) <= SumFunction(Budgets(copies, a))
<1>1. \A n \in Number : copies[<<a, n>>] \in CopyType
  BY DEF CopyId, Number
<1>2. Budgets(copies, a) \in [Number -> Nat]
  BY <1>1, BudgetTypes DEF Budgets
<1>3. IsFiniteSet(Number)
  BY SchedulerAssumption, FS_Interval DEF SchedulerAssumption, Number
<1>4. /\ SumFunction(Budgets(copies, a)) \in Nat
      /\ \A n \in Number : Budgets(copies, a)[n] <= SumFunction(Budgets(copies, a))
  BY <1>2, <1>3, FunctionSumIsNat, FunctionSumBounds
<1>5. \A n \in Number : Budgets(copies, a)[n] = BudgetOf(copies[<<a, n>>])
  BY DEF Budgets
<1>6. QED
  BY <1>1, <1>2, <1>3, <1>4, <1>5

LEMMA TotalTypes ==
  ASSUME TypeOK, NEW a \in Action
  PROVE  /\ Total(a) \in Nat
         /\ \A n \in Number : /\ copy[<<a, n>>] \in CopyType
                              /\ BudgetOf(copy[<<a, n>>]) <= Total(a)
  BY BudgetsTyped DEF TypeOK, CopyType, Total

LEMMA AllowedType ==
  ASSUME TypeOK, NEW a \in Action
  PROVE  Allowed(a) \in Nat
<1>1. received[a] \in Nat /\ crashes \in Nat /\ MaxRetries \in Nat
  BY SchedulerAssumption DEF SchedulerAssumption, TypeOK
<1>2. MaxRetries * received[a] \in Nat
  BY <1>1
<1>3. QED
  BY <1>1, <1>2 DEF Allowed
-----------------------------------------------------------------------------
(* What a step of copy c that sends n times, once at most, does to budgets:*)
(* nothing is gained, and what it writes to the store is covered by what it*)
(* had.                                                                    *)

Spends(c, n) ==
  /\ \A a \in Action : Count(a)' = IF a = ActionOf(c) THEN Count(a) + n ELSE Count(a)
  /\ file' \in {file, store', Empty}
  /\ UNCHANGED <<received, crashes>>
  /\ \E next \in CopyType :
       /\ copy' = [copy EXCEPT ![c] = next]
       /\ n + BudgetOf(next) <= BudgetOf(copy[c])
       /\ \/ n + Sending(next) <= Sending(copy[c])
          \/ file' = store' /\ store'[ActionOf(c)].status \notin Terminal
       /\ \/ UNCHANGED store /\ n + Sending(next) <= Sending(copy[c])
          \/ \E rec \in RecordType :
               /\ store' = [store EXCEPT ![ActionOf(c)] = rec]
               /\ rec.status \notin Terminal =>
                    n + AtLeastOne(rec.attempts) + Sending(next) <= BudgetOf(copy[c]) + 1

SendsTimes(c, n) ==
  /\ \A a \in Action : Count(a)' = IF a = ActionOf(c) THEN Count(a) + n ELSE Count(a)
  /\ n \in {0, 1} /\ n <= Sending(copy[c])
  /\ UNCHANGED <<received, crashes>>

LEMMA PutSpends ==
  ASSUME IInv, NEW c \in CopyId, NEW n, SendsTimes(c, n),
         NEW status \in {"Pending", "InFlight", "Failed"}, NEW next \in CopyType,
         n + BudgetOf(next) <= BudgetOf(copy[c]),
         n + AtLeastOne(next.attempts) + Sending(next) <= BudgetOf(copy[c]) + 1,
         \/ Put(c, status, next)
         \/ PutAnyway(c, status, next) /\ n + Sending(next) <= Sending(copy[c])
  PROVE  Spends(c, n)
<1> DEFINE rec == [status |-> status, attempts |-> next.attempts, hash |-> next.hash]
<1>0. /\ copy[c] \in CopyType /\ n \in {0, 1} /\ n <= Sending(copy[c])
      /\ store \in [Action -> RecordType] /\ ActionOf(c) \in Action
  BY CopyTyped, CopyNames DEF SendsTimes, IInv, TypeOK, RecordType
<1>1. /\ rec \in RecordType /\ rec.status \notin Terminal /\ rec.attempts = next.attempts
      /\ rec.status = status
  BY DEF CopyType, RecordType, Status, Terminal
<1>2. store' = [store EXCEPT ![ActionOf(c)] = rec]
  BY DEF Put, PutAnyway, Stores
<1> HIDE DEF rec
<1>3. /\ BudgetOf(Stranded) = 0 /\ Sending(Stranded) = 0 /\ Stranded \in CopyType
      /\ Sending(next) \in {0, 1} /\ Sending(copy[c]) \in {0, 1}
      /\ BudgetOf(next) \in Nat /\ BudgetOf(copy[c]) \in Nat
      /\ AtLeastOne(next.attempts) \in Nat
  BY <1>0, StrandedType, BudgetTypes DEF BudgetOf, Sending
<1>4. PICK moved \in {next, Stranded} :
        /\ copy' = [copy EXCEPT ![c] = moved]
        /\ file' \in {file, store', Empty}
        /\ \/ n + Sending(moved) <= Sending(copy[c])
           \/ file' = store'
  <2>1. CASE Flush /\ copy' = [copy EXCEPT ![c] = next]
    BY <2>1 DEF Flush
  <2>2. CASE FlushFails /\ copy' = [copy EXCEPT ![c] = Stranded]
    BY <1>0, <1>3, <2>2, FlushTypes
  <2>3. CASE PutAnyway(c, status, next) /\ n + Sending(next) <= Sending(copy[c])
    BY <2>3, FlushTypes DEF PutAnyway
  <2>4. QED
    BY <2>1, <2>2, <2>3 DEF Put
<1>5. /\ n + BudgetOf(moved) <= BudgetOf(copy[c])
      /\ n + AtLeastOne(rec.attempts) + Sending(moved) <= BudgetOf(copy[c]) + 1
  BY <1>0, <1>1, <1>3
<1>6. store'[ActionOf(c)] = rec
  BY <1>0, <1>2
<1>7. QED
  BY <1>1, <1>2, <1>3, <1>4, <1>5, <1>6 DEF Spends, SendsTimes

LEMMA FinishSpends ==
  ASSUME IInv, NEW c \in CopyId, NEW n, SendsTimes(c, n),
         NEW status \in {"Done", "Abandoned"}, Finish(c, status)
  PROVE  Spends(c, n)
<1> DEFINE rec == [status |-> status, attempts |-> copy[c].attempts, hash |-> copy[c].hash]
<1>0. copy[c] \in CopyType
  BY CopyTyped
<1>1. rec \in RecordType /\ rec.status \in Terminal
  BY <1>0 DEF CopyType, RecordType, Status, Terminal
<1>2. /\ store' = [store EXCEPT ![ActionOf(c)] = rec]
      /\ copy' = [copy EXCEPT ![c] = NoCopy]
  BY DEF Finish, Stores
<1> HIDE DEF rec
<1>3. /\ BudgetOf(NoCopy) = 0 /\ Sending(NoCopy) = 0 /\ NoCopy \in CopyType
      /\ Sending(copy[c]) \in {0, 1} /\ Sending(copy[c]) <= BudgetOf(copy[c])
      /\ BudgetOf(copy[c]) \in Nat
  BY <1>0, StrandedType, BudgetTypes DEF BudgetOf, Sending
<1>4. file' \in {file, store', Empty}
  BY FlushTypes DEF Finish
<1>5. n + BudgetOf(NoCopy) <= BudgetOf(copy[c]) /\ n + Sending(NoCopy) <= Sending(copy[c])
  BY <1>3 DEF SendsTimes
<1>6. QED
  BY <1>1, <1>2, <1>3, <1>4, <1>5 DEF Spends, SendsTimes

LEMMA FailsSpends ==
  ASSUME IInv, NEW c \in CopyId, NEW n, SendsTimes(c, n),
         copy[c].at \in {"queued", "sending", "waiting"},
         NEW h \in {0, copy[c].hash}, Fails(c, h)
  PROVE  Spends(c, n)
<1>1. CASE GivesUp(c)
  BY <1>1, FinishSpends DEF Fails
<1>2. CASE ~GivesUp(c)
  <2> DEFINE next == [copy[c] EXCEPT !.at = "backoff", !.hash = h]
  <2>1. copy[c] \in CopyType /\ copy[c].attempts \in Nat /\ h \in Nat
    BY CopyTyped
  <2>2. /\ next \in CopyType /\ next.at = "backoff"
        /\ next.attempts = copy[c].attempts
    BY <2>1 DEF CopyType, Place
  <2>3. Put(c, "Failed", next)
    BY <1>2 DEF Fails
  <2> HIDE DEF next
  <2>4. copy[c].attempts < MaxRetries
    BY <1>2, <2>1, SchedulerAssumption DEF SchedulerAssumption, GivesUp
  <2>5. /\ AtLeastOne(next.attempts) = Left(copy[c].attempts)
        /\ BudgetOf(next) = Left(copy[c].attempts) /\ Sending(next) = 0
        /\ BudgetOf(copy[c]) = Left(copy[c].attempts) + Sending(copy[c])
    <3>1. /\ AtLeastOne(next.attempts) = Left(copy[c].attempts)
          /\ BudgetOf(next) = AtLeastOne(next.attempts) /\ Sending(next) = 0
      BY <2>2, <2>4 DEF BudgetOf, Sending, AtLeastOne, Left
    <3>2. CASE copy[c].at = "queued"
      <4>1. /\ BudgetOf(copy[c]) = AtLeastOne(copy[c].attempts) /\ Sending(copy[c]) = 0
            /\ AtLeastOne(copy[c].attempts) = Left(copy[c].attempts)
            /\ Left(copy[c].attempts) \in Nat
        BY <2>1, <2>4, <3>2, BudgetTypes DEF BudgetOf, Sending, AtLeastOne, Left
      <4>2. QED
        BY <3>1, <4>1
    <3>3. CASE copy[c].at \in {"sending", "waiting"}
      BY <3>1, <3>3 DEF BudgetOf
    <3>4. QED
      BY <3>2, <3>3
  <2>6. Left(copy[c].attempts) \in Nat /\ Sending(copy[c]) \in {0, 1}
    BY <2>1, BudgetTypes
  <2>7. /\ n + BudgetOf(next) <= BudgetOf(copy[c])
        /\ n + AtLeastOne(next.attempts) + Sending(next) <= BudgetOf(copy[c]) + 1
    BY <2>5, <2>6 DEF SendsTimes
  <2>8. QED
    BY <2>2, <2>3, <2>7, PutSpends
<1>3. QED
  BY <1>1, <1>2
-----------------------------------------------------------------------------
(* The steps.                                                              *)

LEMMA CountUnchanged ==
  ASSUME UNCHANGED txs
  PROVE  \A a \in Action : Count(a)' = Count(a)
  BY SameTxs DEF NothingSent, Count

LEMMA CountSent ==
  ASSUME IInv, NEW c \in CopyId, NEW outcome \in {"pending", "ok", "synthetic"},
         txs' = Transaction(c, outcome)
  PROVE  \A a \in Action : Count(a)' = IF a = ActionOf(c) THEN Count(a) + 1 ELSE Count(a)
<1> DEFINE tx == [action |-> ActionOf(c), outcome |-> outcome]
<1>1. txs \in Seq(TxType) /\ tx \in TxType /\ txs' = Append(txs, tx)
  BY CopyNames DEF IInv, TypeOK, TxType, Transaction
<1>2. /\ DOMAIN txs' = DOMAIN txs \cup {Len(txs) + 1}
      /\ \A h \in DOMAIN txs : txs'[h] = txs[h]
      /\ txs'[Len(txs) + 1] = tx /\ tx.action = ActionOf(c)
  BY <1>1
<1> HIDE DEF tx
<1>3. ASSUME NEW a \in Action
      PROVE  SentFor(a)' = IF a = ActionOf(c) THEN SentFor(a) \cup {Len(txs) + 1}
                           ELSE SentFor(a)
  BY <1>2 DEF SentFor
<1>4. QED
  BY <1>3, SendCounts DEF Count

\* A copy that moves on and writes nothing.
LEMMA MoveSpends ==
  ASSUME IInv, NEW c \in CopyId, NEW n, SendsTimes(c, n), NEW next \in CopyType,
         copy' = [copy EXCEPT ![c] = next], UNCHANGED <<store, file>>,
         n + BudgetOf(next) <= BudgetOf(copy[c]), n + Sending(next) <= Sending(copy[c])
  PROVE  Spends(c, n)
  BY DEF Spends, SendsTimes

LEMMA QueueingSpends ==
  ASSUME IInv, NEW c \in CopyId, Record(c) \/ Push(c) \/ BackoffEnds(c)
  PROVE  Spends(c, 0)
<1> DEFINE place == IF Record(c) THEN "pushing"
                    ELSE IF Push(c) THEN "queued" ELSE "requeueing"
           next == Moved(c, place)
<1>1. copy[c] \in CopyType /\ place \in {"pushing", "queued", "requeueing"}
  BY CopyTyped
<1>2. next \in CopyType /\ next.at = place /\ next.attempts = copy[c].attempts
  BY <1>1, MovedType DEF Place
<1>3. copy[c].at \in {"starting", "checked", "pushing", "requeueing", "backoff"}
  BY DEF Record, Push, BackoffEnds
<1>4. SendsTimes(c, 0)
  <2>1. UNCHANGED <<txs, received, crashes>>
    BY DEF Record, Push, BackoffEnds, chainVars
  <2>2. \A a \in Action : Count(a)' = Count(a) /\ Count(a) \in Nat
    BY <2>1, CountUnchanged, SendCounts DEF Count
  <2>3. 0 <= Sending(copy[c])
    BY <1>1, BudgetTypes
  <2>4. QED
    BY <2>1, <2>2, <2>3 DEF SendsTimes
<1>5. /\ Sending(next) = 0 /\ Sending(copy[c]) = 0
      /\ BudgetOf(next) = AtLeastOne(copy[c].attempts)
      /\ BudgetOf(copy[c]) = AtLeastOne(copy[c].attempts)
      /\ AtLeastOne(copy[c].attempts) \in Nat
  BY <1>1, <1>2, <1>3, BudgetTypes DEF Sending, BudgetOf
<1>6. CASE Record(c)
  <2>1. Put(c, "Pending", next)
    BY <1>6 DEF Record
  <2> HIDE DEF next
  <2>2. QED
    BY <1>2, <1>4, <1>5, <2>1, PutSpends
<1>7. CASE ~Record(c) /\ Push(c)
  <2>1. copy' = [copy EXCEPT ![c] = next] /\ UNCHANGED <<store, file>>
    BY <1>7 DEF Push, diskVars
  <2> HIDE DEF next
  <2>2. 0 + BudgetOf(next) <= BudgetOf(copy[c]) /\ 0 + Sending(next) <= Sending(copy[c])
    BY <1>5
  <2>3. QED
    BY <1>2, <1>4, <2>1, <2>2, MoveSpends
<1>8. CASE ~Record(c) /\ ~Push(c)
  <2>1. PutAnyway(c, "Pending", next)
    BY <1>8 DEF BackoffEnds
  <2> HIDE DEF next
  <2>2. QED
    BY <1>2, <1>4, <1>5, <2>1, PutSpends
<1>9. QED
  BY <1>6, <1>7, <1>8

LEMMA TakeSpends ==
  ASSUME IInv, Take
  PROVE  Head(queue) \in CopyId /\ Spends(Head(queue), 0)
<1> DEFINE c == Head(queue)
           next == [copy[c] EXCEPT !.at = "sending", !.attempts = Counted(@)]
<1>1. c \in CopyId /\ copy[c].at = "queued"
  BY TakeActs
<1>2. Put(c, "InFlight", next)
  BY DEF Take
<1> HIDE DEF c
<1>3. copy[c] \in CopyType /\ copy[c].attempts \in Nat
  BY <1>1, CopyTyped
<1>4. /\ next \in CopyType /\ next.at = "sending" /\ next.hash = copy[c].hash
      /\ next.attempts = copy[c].attempts + 1
  <2>1. Counted(copy[c].attempts) = copy[c].attempts + 1
    BY DEF Counted
  <2>2. Counted(copy[c].attempts) \in Nat
    BY <1>3, <2>1
  <2>3. next \in CopyType /\ next.at = "sending" /\ next.hash = copy[c].hash
        /\ next.attempts = Counted(copy[c].attempts)
    BY <1>3, <2>2 DEF CopyType, Place
  <2>4. QED
    BY <2>1, <2>3
<1> HIDE DEF next
<1>5. SendsTimes(c, 0)
  <2>1. UNCHANGED <<txs, received, crashes>>
    BY DEF Take, chainVars
  <2>2. \A a \in Action : Count(a)' = Count(a) /\ Count(a) \in Nat
    BY <2>1, CountUnchanged, SendCounts DEF Count
  <2>3. 0 <= Sending(copy[c])
    BY <1>3, BudgetTypes
  <2>4. QED
    BY <2>1, <2>2, <2>3 DEF SendsTimes
<1>6. /\ BudgetOf(next) <= BudgetOf(copy[c])
      /\ AtLeastOne(next.attempts) + Sending(next) <= BudgetOf(copy[c]) + 1
  <2>1. /\ BudgetOf(next) = Left(copy[c].attempts + 1) + Sending(next)
        /\ BudgetOf(copy[c]) = AtLeastOne(copy[c].attempts)
        /\ Sending(next) \in {0, 1}
    BY <1>1, <1>4, BudgetTypes DEF BudgetOf
  <2>2. QED
    BY <1>3, <1>4, <2>1, SchedulerAssumption DEF SchedulerAssumption, Left, AtLeastOne
<1>7. BudgetOf(next) \in Nat /\ AtLeastOne(next.attempts) \in Nat /\ Sending(next) \in Nat
  BY <1>4, BudgetTypes
<1>8. Spends(c, 0)
  BY <1>1, <1>2, <1>4, <1>5, <1>6, <1>7, PutSpends
<1>9. QED
  BY <1>1, <1>8 DEF c

LEMMA NoClientSpends ==
  ASSUME IInv, NoClient
  PROVE  Head(queue) \in CopyId /\ Spends(Head(queue), 0)
<1> DEFINE c == Head(queue)
<1>1. c \in CopyId /\ copy[c].at = "queued"
  BY NoClientActs
<1>2. Fails(c, copy[c].hash) /\ UNCHANGED <<txs, received, crashes>>
  BY DEF NoClient, chainVars
<1> HIDE DEF c
<1>3. SendsTimes(c, 0)
  <2>1. \A a \in Action : Count(a)' = Count(a) /\ Count(a) \in Nat
    BY <1>2, CountUnchanged, SendCounts DEF Count
  <2>2. 0 <= Sending(copy[c])
    BY <1>1, CopyTyped, BudgetTypes
  <2>3. QED
    BY <1>2, <2>1, <2>2 DEF SendsTimes
<1>4. QED
  BY <1>1, <1>2, <1>3, FailsSpends DEF c

LEMMA SendingSpends ==
  ASSUME IInv, NEW c \in CopyId, Sends(c)
  PROVE  \E n \in {0, 1} : Spends(c, n)
<1>0. /\ copy[c] \in CopyType /\ copy[c].attempts \in Nat /\ Sending(copy[c]) \in {0, 1}
      /\ Left(copy[c].attempts) \in Nat
      /\ AtLeastOne(copy[c].attempts) \in Nat
      /\ AtLeastOne(copy[c].attempts) <= Left(copy[c].attempts) + 1
  BY CopyTyped, BudgetTypes
<1>1. MaySend(c) => Sending(copy[c]) = 1
  BY DEF MaySend, Sending
<1>2. UNCHANGED <<received, crashes>>
  BY DEF Sends, Resume, SendEvm, SendEndpoint, SendSynthetic, SendRefused,
         SendAlreadyHandled, SendFails, RecordHash
<1>3. ASSUME UNCHANGED txs PROVE SendsTimes(c, 0)
  <2>1. \A a \in Action : Count(a)' = Count(a) /\ Count(a) \in Nat
    BY <1>3, CountUnchanged, SendCounts DEF Count
  <2>2. QED
    BY <1>0, <1>2, <2>1 DEF SendsTimes
<1>4. ASSUME MaySend(c), NEW outcome \in {"pending", "ok", "synthetic"},
             txs' = Transaction(c, outcome)
      PROVE  SendsTimes(c, 1)
  BY <1>1, <1>2, <1>4, CountSent DEF SendsTimes
<1>5. CASE Resume(c) \/ RecordHash(c)
  <2> DEFINE next == Moved(c, "waiting")
  <2>1. /\ next \in CopyType /\ next.at = "waiting"
        /\ next.attempts = copy[c].attempts
    BY MovedType DEF Place
  <2>2. Put(c, "InFlight", next) /\ UNCHANGED txs
    BY <1>5 DEF Resume, RecordHash, chainVars
  <2> HIDE DEF next
  <2>3. copy[c].at \in {"sending", "sent"}
    BY <1>5 DEF Resume, RecordHash
  <2>4. /\ Sending(next) = 0 /\ BudgetOf(next) = Left(copy[c].attempts)
        /\ BudgetOf(copy[c]) = Left(copy[c].attempts) + Sending(copy[c])
    BY <1>0, <2>1, <2>3 DEF BudgetOf, Sending
  <2>5. Spends(c, 0)
    BY <1>0, <1>3, <2>1, <2>2, <2>4, PutSpends
  <2>6. QED
    BY <2>5
<1>6. CASE SendEvm(c) \/ SendEndpoint(c) \/ SendSynthetic(c)
  <2> DEFINE next == [copy[c] EXCEPT !.at = "sent", !.hash = Len(txs) + 1]
  <2>1. Len(txs) + 1 \in Nat
    BY DEF IInv, TypeOK
  <2>2. /\ next \in CopyType /\ next.at = "sent"
        /\ next.attempts = copy[c].attempts
    BY <1>0, <2>1 DEF CopyType, Place
  <2>3. /\ copy' = [copy EXCEPT ![c] = next] /\ UNCHANGED <<store, file>>
        /\ MaySend(c)
        /\ \E outcome \in {"pending", "ok", "synthetic"} : txs' = Transaction(c, outcome)
    BY <1>6 DEF SendEvm, SendEndpoint, SendSynthetic, Sent, diskVars
  <2> HIDE DEF next
  <2>4. SendsTimes(c, 1)
    BY <1>4, <2>3
  <2>5. /\ Sending(next) = 0 /\ BudgetOf(next) = Left(copy[c].attempts)
        /\ BudgetOf(copy[c]) = Left(copy[c].attempts) + Sending(copy[c])
    BY <1>0, <2>2, <2>3 DEF BudgetOf, Sending, MaySend
  <2>6. 1 + BudgetOf(next) <= BudgetOf(copy[c]) /\ 1 + Sending(next) <= Sending(copy[c])
    BY <1>0, <1>1, <2>3, <2>5
  <2>7. Spends(c, 1)
    BY <2>2, <2>3, <2>4, <2>6, MoveSpends
  <2>8. QED
    BY <2>7
<1>7. CASE SendRefused(c)
  <2>1. Fails(c, 0) /\ UNCHANGED txs /\ copy[c].at = "sending"
    BY <1>7 DEF SendRefused, MaySend
  <2>2. Spends(c, 0)
    BY <1>3, <2>1, FailsSpends
  <2>3. QED
    BY <2>2
<1>8. CASE SendAlreadyHandled(c)
  <2>1. Finish(c, "Done") /\ UNCHANGED txs
    BY <1>8 DEF SendAlreadyHandled, chainVars
  <2>2. Spends(c, 0)
    BY <1>3, <2>1, FinishSpends
  <2>3. QED
    BY <2>2
<1>9. CASE SendFails(c)
  <2>1. /\ Fails(c, 0) /\ copy[c].at = "sending" /\ MaySend(c)
        /\ \/ UNCHANGED txs
           \/ \E outcome \in {"pending", "ok"} : txs' = Transaction(c, outcome)
    BY <1>9 DEF SendFails, MaySend
  <2>2. PICK n \in {0, 1} : SendsTimes(c, n)
    BY <1>3, <1>4, <2>1
  <2>3. Spends(c, n)
    BY <2>1, <2>2, FailsSpends
  <2>4. QED
    BY <2>3
<1>10. QED
  BY <1>5, <1>6, <1>7, <1>8, <1>9 DEF Sends

LEMMA WaitingSpends ==
  ASSUME IInv, NEW c \in CopyId, EndsWait(c)
  PROVE  Spends(c, 0)
<1>0. /\ copy[c] \in CopyType /\ Sending(copy[c]) \in {0, 1}
      /\ Left(copy[c].attempts) \in Nat
  BY CopyTyped, BudgetTypes
<1>1. SendsTimes(c, 0)
  <2>1. UNCHANGED <<txs, received, crashes>>
    BY DEF EndsWait, Succeeds, Answers, Completes, Reverted, TimesOut, WaitFails,
           chainVars
  <2>2. \A a \in Action : Count(a)' = Count(a) /\ Count(a) \in Nat
    BY <2>1, CountUnchanged, SendCounts DEF Count
  <2>3. QED
    BY <1>0, <2>1, <2>2 DEF SendsTimes
<1>2. CASE Succeeds(c) \/ Completes(c)
  BY <1>1, <1>2, FinishSpends DEF Succeeds, Completes
<1>3. CASE Reverted(c) \/ TimesOut(c) \/ WaitFails(c)
  <2>1. copy[c].at = "waiting" /\ \E h \in {0, copy[c].hash} : Fails(c, h)
    BY <1>3 DEF Reverted, TimesOut, WaitFails, Waits
  <2>2. QED
    BY <1>1, <2>1, FailsSpends
<1>4. CASE Answers(c)
  <2> DEFINE next == Moved(c, "answered")
  <2>1. /\ next \in CopyType /\ next.at = "answered"
        /\ next.attempts = copy[c].attempts
    BY MovedType DEF Place
  <2>2. /\ copy' = [copy EXCEPT ![c] = next] /\ UNCHANGED <<store, file>>
        /\ copy[c].at = "waiting"
    BY <1>4 DEF Answers, Waits, diskVars
  <2> HIDE DEF next
  <2>3. /\ Sending(next) = 0 /\ Sending(copy[c]) = 0
        /\ BudgetOf(next) = BudgetOf(copy[c]) /\ BudgetOf(copy[c]) \in Nat
    BY <1>0, <2>1, <2>2, BudgetTypes DEF BudgetOf, Sending
  <2>4. 0 + BudgetOf(next) <= BudgetOf(copy[c]) /\ 0 + Sending(next) <= Sending(copy[c])
    BY <2>3
  <2>5. QED
    BY <1>1, <2>1, <2>2, <2>4, MoveSpends
<1>5. QED
  BY <1>2, <1>3, <1>4 DEF EndsWait

NothingSpent ==
  /\ UNCHANGED <<store, file, copy, received, crashes>>
  /\ \A a \in Action : Count(a)' = Count(a)

LEMMA BudgetSteps ==
  ASSUME IInv, [Next]_vars
  PROVE  \/ \E c \in CopyId, n \in {0, 1} : Spends(c, n)
         \/ \E a \in Action : Receive(a)
         \/ Crash
         \/ NothingSpent
<1>1. ASSUME UNCHANGED vars \/ (\E a \in Action : BecomesReady(a)) \/ Block
      PROVE  NothingSpent
  <2>1. \A a \in Action : Count(a)' = Count(a)
    <3>1. CASE Block
      <4>1. PICK h \in DOMAIN txs : Mine(h)
        BY <3>1 DEF Block
      <4>2. txs \in Seq(TxType) /\ txs[h] \in TxType
        BY TxsTyped
      <4>3. PICK outcome \in {"ok", "reverted"} : txs' = [txs EXCEPT ![h].outcome = outcome]
        BY <4>1 DEF Mine
      <4>4. DOMAIN txs' = DOMAIN txs /\ \A i \in DOMAIN txs : txs'[i].action = txs[i].action
        BY <4>2, <4>3 DEF TxType
      <4>5. QED
        BY <4>4 DEF SentFor, Count
    <3>2. CASE UNCHANGED txs
      BY <3>2, CountUnchanged
    <3>3. QED
      BY <1>1, <3>1, <3>2 DEF vars, chainVars, BecomesReady
  <2>2. QED
    BY <1>1, <2>1 DEF NothingSpent, Block, Mine, vars, diskVars, BecomesReady
<1>2. QED
  BY <1>1, QueueingSpends, TakeSpends, NoClientSpends, SendingSpends, WaitingSpends DEF Next
-----------------------------------------------------------------------------
(* The budgets stay covered.                                               *)

LEMMA CoveredAfterStep ==
  ASSUME CopiesCovered',
         \A a \in Action : CoveredAfter(a, store'[a]) /\ CoveredAfter(a, file'[a])
  PROVE  BudgetInv'
<1>1. \A a \in Action : RecordCovered(a, store[a])' /\ RecordCovered(a, file[a])'
  BY DEF RecordCovered, CoveredAfter
<1>2. QED
  BY <1>1 DEF BudgetInv

LEMMA TotalChange ==
  ASSUME TypeOK, TypeOK', NEW c \in CopyId, NEW next \in CopyType,
         copy' = [copy EXCEPT ![c] = next]
  PROVE  \A a \in Action :
           /\ Total(a)' = IF a = ActionOf(c)
                          THEN Total(a) - BudgetOf(copy[c]) + BudgetOf(next) ELSE Total(a)
           /\ \A n \in Number :
                copy'[<<a, n>>] = IF c = <<a, n>> THEN next ELSE copy[<<a, n>>]
<1>1. ASSUME NEW a \in Action, NEW n \in Number
      PROVE  copy'[<<a, n>>] = IF c = <<a, n>> THEN next ELSE copy[<<a, n>>]
  BY DEF TypeOK, CopyId, Number
<1>2. c = <<ActionOf(c), c[2]>> /\ c[2] \in Number /\ ActionOf(c) \in Action
  BY CopyNames DEF Number
<1>3. ASSUME NEW a \in Action, a # ActionOf(c) PROVE Total(a)' = Total(a)
  <2>1. Budgets(copy', a) = Budgets(copy, a)
    BY <1>1, <1>2, <1>3 DEF Budgets
  <2>2. QED
    BY <2>1 DEF Total
<1>4. ASSUME NEW a \in Action, a = ActionOf(c)
      PROVE  Total(a)' = Total(a) - BudgetOf(copy[c]) + BudgetOf(next)
  <2> DEFINE f == Budgets(copy, a)
             g == Budgets(copy', a)
  <2>1. /\ IsFiniteSet(Number) /\ f \in [Number -> Int] /\ g \in [Number -> Int]
        /\ f[c[2]] = BudgetOf(copy[c])
    <3>1. copy \in [CopyId -> CopyType] /\ copy' \in [CopyId -> CopyType]
      BY DEF TypeOK, CopyType
    <3>2. /\ f \in [Number -> Nat] /\ g \in [Number -> Nat] /\ IsFiniteSet(Number)
          /\ f[c[2]] = BudgetOf(copy[<<a, c[2]>>])
      <4>1. /\ f \in [Number -> Nat] /\ IsFiniteSet(Number)
            /\ f[c[2]] = BudgetOf(copy[<<a, c[2]>>])
        BY <1>2, <3>1, BudgetsTyped
      <4>2. g \in [Number -> Nat]
        BY <3>1, BudgetsTyped
      <4>3. QED
        BY <4>1, <4>2
    <3> HIDE DEF f, g
    <3>3. QED
      BY <1>2, <1>4, <3>2
  <2>2. g[c[2]] = BudgetOf(next) /\ \A n \in Number \ {c[2]} : g[n] = f[n]
    BY <1>1, <1>2, <1>4 DEF Budgets
  <2> HIDE DEF f, g
  <2>3. SumFunction(g) = SumFunction(f) - f[c[2]] + g[c[2]]
    BY <1>2, <2>1, <2>2, FunctionSumChange
  <2>4. SumFunction(g) = SumFunction(f) - BudgetOf(copy[c]) + BudgetOf(next)
    BY <2>1, <2>2, <2>3
  <2>5. QED
    BY <2>4 DEF f, g, Total
<1>5. QED
  BY <1>1, <1>3, <1>4

LEMMA SpendingKeepsBudget ==
  ASSUME IInv, TypeOK', BudgetInv, NEW c \in CopyId, NEW n \in {0, 1}, Spends(c, n)
  PROVE  BudgetInv'
<1>1. PICK next \in CopyType :
        /\ copy' = [copy EXCEPT ![c] = next]
        /\ n + BudgetOf(next) <= BudgetOf(copy[c])
        /\ \/ n + Sending(next) <= Sending(copy[c])
           \/ file' = store' /\ store'[ActionOf(c)].status \notin Terminal
        /\ \/ UNCHANGED store /\ n + Sending(next) <= Sending(copy[c])
           \/ \E rec \in RecordType :
                /\ store' = [store EXCEPT ![ActionOf(c)] = rec]
                /\ rec.status \notin Terminal =>
                     n + AtLeastOne(rec.attempts) + Sending(next) <= BudgetOf(copy[c]) + 1
  BY DEF Spends
<1> DEFINE b == ActionOf(c)
<1>0. /\ TypeOK /\ CopiesCovered /\ b \in Action
      /\ \A a \in Action : RecordCovered(a, store[a]) /\ RecordCovered(a, file[a])
      /\ c = <<b, c[2]>> /\ c[2] \in Number
      /\ store \in [Action -> RecordType] /\ file \in [Action -> RecordType]
      /\ \A a \in Action : Empty[a].status \in Terminal
  BY CopyNames DEF IInv, BudgetInv, Number, TypeOK, RecordType, Empty, Absent, Terminal
<1>2. \A a \in Action : /\ Count(a) \in Nat /\ Total(a) \in Nat
                        /\ Allowed(a) \in Nat /\ Allowed(a)' = Allowed(a)
                        /\ Count(a)' = IF a = b THEN Count(a) + n ELSE Count(a)
  BY <1>0, SendCounts, TotalTypes, AllowedType DEF Count, Spends, Allowed
<1>3. /\ BudgetOf(copy[c]) \in Nat /\ BudgetOf(next) \in Nat
      /\ Sending(copy[c]) \in Nat /\ Sending(next) \in Nat
  BY CopyTyped, BudgetTypes
<1>4. \A a \in Action :
        /\ Total(a)' = IF a = b THEN Total(a) - BudgetOf(copy[c]) + BudgetOf(next) ELSE Total(a)
        /\ \A m \in Number : copy'[<<a, m>>] = IF c = <<a, m>> THEN next ELSE copy[<<a, m>>]
  BY <1>0, <1>1, TotalChange
<1> HIDE DEF b
<1>5. CopiesCovered'
  <2>1. ASSUME NEW a \in Action PROVE Count(a)' + Total(a)' <= Allowed(a)'
    BY <1>0, <1>1, <1>2, <1>3, <1>4 DEF CopiesCovered
  <2>2. QED
    BY <2>1 DEF CopiesCovered
(* A record that stays is covered by its author's rest as before.          *)
<1>6. ASSUME NEW a \in Action, NEW rec \in RecordType, RecordCovered(a, rec),
             a # b \/ n + Sending(next) <= Sending(copy[c])
      PROVE  CoveredAfter(a, rec)
  <2>1. SUFFICES ASSUME rec.status \notin Terminal
                 PROVE  CoveredAfter(a, rec)
    BY DEF CoveredAfter
  <2>2. PICK m \in Number :
          Count(a) + AtLeastOne(rec.attempts) + Sending(copy[<<a, m>>])
            + (Total(a) - BudgetOf(copy[<<a, m>>])) <= Allowed(a) + 1
    BY <1>6, <2>1 DEF RecordCovered
  <2>3. /\ AtLeastOne(rec.attempts) \in Nat
        /\ BudgetOf(copy[<<a, m>>]) \in Nat /\ Sending(copy[<<a, m>>]) \in Nat
    BY <1>0, RecordBudget, TotalTypes, BudgetTypes
  <2>4. Count(a)' + AtLeastOne(rec.attempts) + Sending(copy'[<<a, m>>])
            + (Total(a)' - BudgetOf(copy'[<<a, m>>])) <= Allowed(a)' + 1
    <3>1. CASE a # b
      <4>1. c # <<a, m>>
        BY <1>0, <3>1
      <4>2. QED
        BY <1>2, <1>4, <2>2, <3>1, <4>1
    <3>2. CASE a = b /\ c = <<a, m>>
      <4>1. /\ copy'[<<a, m>>] = next
            /\ Total(a)' - BudgetOf(next) = Total(a) - BudgetOf(copy[c])
            /\ Count(a)' = Count(a) + n
        BY <1>2, <1>3, <1>4, <3>2
      <4>2. QED
        BY <1>2, <1>3, <1>6, <2>2, <2>3, <3>2, <4>1
    <3>3. CASE a = b /\ c # <<a, m>>
      <4>1. /\ copy'[<<a, m>>] = copy[<<a, m>>] /\ Total(a)' \in Int
            /\ n + Total(a)' <= Total(a) /\ Count(a)' = Count(a) + n
        BY <1>1, <1>2, <1>3, <1>4, <3>3
      <4>2. QED
        BY <1>2, <2>2, <2>3, <4>1
    <3>4. QED
      BY <3>1, <3>2, <3>3
  <2>5. QED
    BY <2>1, <2>4 DEF CoveredAfter
<1>7. ASSUME NEW a \in Action PROVE CoveredAfter(a, store'[a])
  <2>1. CASE store'[a] = store[a] /\ (a # b \/ n + Sending(next) <= Sending(copy[c]))
    <3>1. CoveredAfter(a, store[a]) /\ store'[a] = store[a]
      BY <1>0, <1>6, <2>1
    <3>2. QED
      BY <3>1
  <2>2. ASSUME NEW rec \in RecordType, a = b, store'[a] = rec,
               rec.status \notin Terminal =>
                 n + AtLeastOne(rec.attempts) + Sending(next) <= BudgetOf(copy[c]) + 1
        PROVE  CoveredAfter(a, store'[a])
    <3>1. SUFFICES ASSUME rec.status \notin Terminal
                   PROVE  CoveredAfter(a, store'[a])
      BY <2>2 DEF CoveredAfter
    <3>2. AtLeastOne(rec.attempts) \in Nat
      BY RecordBudget
    <3>3. copy'[<<a, c[2]>>] = next
      BY <1>0, <1>4, <2>2
    <3>4. Count(a)' + AtLeastOne(rec.attempts) + Sending(next)
            + (Total(a)' - BudgetOf(next)) <= Allowed(a)' + 1
      <4>1. /\ Total(a)' - BudgetOf(next) = Total(a) - BudgetOf(copy[c])
            /\ Count(a)' = Count(a) + n
        BY <1>2, <1>3, <1>4, <2>2
      <4>2. Count(a) + Total(a) <= Allowed(a)
        BY <1>0 DEF CopiesCovered
      <4>3. QED
        BY <1>2, <1>3, <2>2, <3>1, <3>2, <4>1, <4>2
    <3>5. QED
      BY <1>0, <2>2, <3>3, <3>4 DEF CoveredAfter
  <2>3. QED
    <3>1. CASE UNCHANGED store /\ n + Sending(next) <= Sending(copy[c])
      BY <2>1, <3>1
    <3>2. ASSUME NEW rec \in RecordType, store' = [store EXCEPT ![b] = rec],
                 rec.status \notin Terminal =>
                   n + AtLeastOne(rec.attempts) + Sending(next) <= BudgetOf(copy[c]) + 1
          PROVE  CoveredAfter(a, store'[a])
      <4>1. CASE a = b
        BY <1>0, <2>2, <3>2, <4>1
      <4>2. CASE a # b
        BY <1>0, <2>1, <3>2, <4>2
      <4>3. QED
        BY <4>1, <4>2
    <3>3. QED
      BY <1>1, <3>1, <3>2 DEF b
<1>8. ASSUME NEW a \in Action PROVE CoveredAfter(a, file'[a])
  <2>1. CASE file' = store'
    BY <1>7, <2>1
  <2>2. CASE file' = Empty
    BY <1>0, <2>2 DEF CoveredAfter
  <2>3. CASE file' = file /\ n + Sending(next) <= Sending(copy[c])
    <3>1. CoveredAfter(a, file[a]) /\ file'[a] = file[a]
      BY <1>0, <1>6, <2>3
    <3>2. QED
      BY <3>1
  <2>4. QED
    BY <1>1, <2>1, <2>2, <2>3 DEF Spends
<1>9. QED
  BY <1>5, <1>7, <1>8, CoveredAfterStep

(* An Enqueue brings the budget of the copy it makes.                      *)
LEMMA ReceivingKeepsBudget ==
  ASSUME IInv, TypeOK', BudgetInv, NEW b \in Action, Receive(b)
  PROVE  BudgetInv'
<1> DEFINE k == received[b] + 1
           c == <<b, k>>
           next == [NoCopy EXCEPT !.at = "checked"]
<1>1. /\ TypeOK /\ NamesAreGiven /\ CopiesCovered
      /\ \A a \in Action : RecordCovered(a, store[a]) /\ RecordCovered(a, file[a])
      /\ store \in [Action -> RecordType] /\ file \in [Action -> RecordType]
      /\ received \in [Action -> 0..MaxReceives] /\ crashes \in Nat
  <2>1. MaxCrashes \in Nat
    BY SchedulerAssumption DEF SchedulerAssumption
  <2>2. TypeOK /\ NamesAreGiven
    BY DEF IInv
  <2>3. crashes \in Nat
    BY <2>1, <2>2 DEF TypeOK
  <2>4. QED
    BY <2>2, <2>3 DEF BudgetInv, TypeOK, RecordType
<1>2. /\ k \in Number /\ c \in CopyId /\ ActionOf(c) = b
      /\ received' = [received EXCEPT ![b] = k]
      /\ copy' = [copy EXCEPT ![c] = next]
      /\ UNCHANGED <<store, file, crashes, txs>>
  BY <1>1, SchedulerAssumption
     DEF SchedulerAssumption, Receive, Number, CopyId, ActionOf, chainVars, diskVars
<1>3. /\ next \in CopyType /\ BudgetOf(next) = MaxRetries /\ Sending(next) = 0
      /\ MaxRetries \in Nat
  BY SchedulerAssumption
     DEF SchedulerAssumption, NoCopy, CopyType, Place, BudgetOf, AtLeastOne, Sending
<1>4. copy[c].at = "none" /\ BudgetOf(copy[c]) = 0 /\ Sending(copy[c]) = 0
  <2>1. c[1] = b /\ c[2] = k /\ ~(k <= received[b])
    BY <1>1, SchedulerAssumption DEF SchedulerAssumption
  <2>2. copy[c].at = "none"
    BY <1>1, <1>2, <2>1 DEF NamesAreGiven
  <2>3. QED
    BY <2>2 DEF BudgetOf, Sending
<1> HIDE DEF next
<1>5. \A a \in Action :
        /\ Count(a) \in Nat /\ Count(a)' = Count(a)
        /\ Total(a) \in Nat /\ Allowed(a) \in Nat
        /\ Total(a)' = IF a = b THEN Total(a) + MaxRetries ELSE Total(a)
        /\ Allowed(a)' = IF a = b THEN Allowed(a) + MaxRetries ELSE Allowed(a)
        /\ \A m \in Number : copy'[<<a, m>>] = IF c = <<a, m>> THEN next ELSE copy[<<a, m>>]
  <2>1. ASSUME NEW a \in Action
        PROVE  Allowed(a)' = IF a = b THEN Allowed(a) + MaxRetries ELSE Allowed(a)
    <3>1. received[a] \in Nat /\ received'[a] = IF a = b THEN received[a] + 1 ELSE received[a]
      BY <1>1, <1>2
    <3>2. MaxRetries * (received[a] + 1) = MaxRetries * received[a] + MaxRetries
          /\ MaxRetries * received[a] \in Nat
      BY <1>3, <3>1
    <3>3. QED
      BY <1>1, <1>2, <1>3, <3>1, <3>2 DEF Allowed
  <2>2. \A a \in Action : Count(a) \in Nat /\ Count(a)' = Count(a)
    BY <1>2, CountUnchanged, SendCounts DEF Count
  <2>3. \A a \in Action : Total(a) \in Nat /\ Allowed(a) \in Nat
    BY <1>1, TotalTypes, AllowedType
  <2>4. \A a \in Action :
          /\ Total(a)' = IF a = b THEN Total(a) - BudgetOf(copy[c]) + BudgetOf(next)
                         ELSE Total(a)
          /\ \A m \in Number :
               copy'[<<a, m>>] = IF c = <<a, m>> THEN next ELSE copy[<<a, m>>]
    <3> HIDE DEF c
    <3>1. \A a \in Action :
            /\ Total(a)' = IF a = ActionOf(c) THEN Total(a) - BudgetOf(copy[c]) + BudgetOf(next)
                           ELSE Total(a)
            /\ \A m \in Number :
                 copy'[<<a, m>>] = IF c = <<a, m>> THEN next ELSE copy[<<a, m>>]
      BY <1>1, <1>2, <1>3, TotalChange
    <3>2. QED
      BY <1>2, <3>1
  <2>5. \A a \in Action : Total(a)' = IF a = b THEN Total(a) + MaxRetries ELSE Total(a)
    BY <1>3, <1>4, <2>3, <2>4
  <2>6. QED
    BY <2>1, <2>2, <2>3, <2>4, <2>5
<1>6. CopiesCovered'
  <2>1. ASSUME NEW a \in Action PROVE Count(a)' + Total(a)' <= Allowed(a)'
    BY <1>1, <1>3, <1>5 DEF CopiesCovered
  <2>2. QED
    BY <2>1 DEF CopiesCovered
<1>7. ASSUME NEW a \in Action, NEW rec \in RecordType, RecordCovered(a, rec)
      PROVE  CoveredAfter(a, rec)
  <2>1. SUFFICES ASSUME rec.status \notin Terminal
                 PROVE  CoveredAfter(a, rec)
    BY DEF CoveredAfter
  <2>2. PICK m \in Number :
          Count(a) + AtLeastOne(rec.attempts) + Sending(copy[<<a, m>>])
            + (Total(a) - BudgetOf(copy[<<a, m>>])) <= Allowed(a) + 1
    BY <1>7, <2>1 DEF RecordCovered
  <2>3. /\ AtLeastOne(rec.attempts) \in Nat
        /\ BudgetOf(copy[<<a, m>>]) \in Nat /\ Sending(copy[<<a, m>>]) \in Nat
    BY <1>1, RecordBudget, TotalTypes, BudgetTypes
  <2>4. Count(a)' + AtLeastOne(rec.attempts) + Sending(copy'[<<a, m>>])
            + (Total(a)' - BudgetOf(copy'[<<a, m>>])) <= Allowed(a)' + 1
    <3>1. CASE c = <<a, m>>
      <4>1. a = b /\ copy'[<<a, m>>] = next
        BY <1>5, <3>1
      <4>2. Count(a) + AtLeastOne(rec.attempts) + Total(a) <= Allowed(a) + 1
        BY <1>4, <1>5, <2>2, <2>3, <3>1
      <4>3. QED
        BY <1>3, <1>5, <2>3, <4>1, <4>2
    <3>2. CASE c # <<a, m>>
      <4>1. copy'[<<a, m>>] = copy[<<a, m>>]
        BY <1>5, <3>2
      <4>2. QED
        BY <1>3, <1>5, <2>2, <2>3, <4>1
    <3>3. QED
      BY <3>1, <3>2
  <2>5. QED
    BY <2>1, <2>4 DEF CoveredAfter
<1>8. ASSUME NEW a \in Action
      PROVE  CoveredAfter(a, store'[a]) /\ CoveredAfter(a, file'[a])
  <2>1. CoveredAfter(a, store[a]) /\ CoveredAfter(a, file[a])
    BY <1>1, <1>7
  <2>2. QED
    BY <1>2, <2>1
<1>9. QED
  BY <1>6, <1>8, CoveredAfterStep

(* A crash leaves each action the copy that its record in the file makes.  *)
LEMMA CrashKeepsBudget ==
  ASSUME IInv, TypeOK', BudgetInv, Crash
  PROVE  BudgetInv'
<1>1. /\ TypeOK /\ CopiesCovered
      /\ \A a \in Action : RecordCovered(a, file[a])
      /\ file \in [Action -> RecordType] /\ crashes \in Nat
      /\ store' = file /\ file' = file /\ crashes' = crashes + 1
      /\ UNCHANGED <<received, txs>>
  BY DEF IInv, BudgetInv, TypeOK, RecordType, Crash, diskVars, chainVars
<1>2. ASSUME NEW a \in Action
      PROVE  /\ Count(a) \in Nat /\ Count(a)' = Count(a)
             /\ Total(a) \in Nat /\ Allowed(a) \in Nat
             /\ Allowed(a)' = Allowed(a) + 1
  <2>1. received[a] \in Nat /\ MaxRetries \in Nat
    BY <1>1, SchedulerAssumption DEF SchedulerAssumption, TypeOK
  <2>2. MaxRetries * received[a] \in Nat
    BY <2>1
  <2>3. Allowed(a)' = Allowed(a) + 1
    BY <1>1, <2>2 DEF Allowed
  <2>4. QED
    BY <1>1, <2>3, CountUnchanged, SendCounts, TotalTypes, AllowedType DEF Count
<1>3. ASSUME NEW a \in Action
      PROVE  /\ 0 \in Number /\ copy'[<<a, 0>>] = Recovered(a)
             /\ Total(a)' = BudgetOf(Recovered(a))
  <2>1. /\ 0 \in Number
        /\ \A n \in Number : copy'[<<a, n>>] = IF n = 0 THEN Recovered(a) ELSE NoCopy
    BY SchedulerAssumption DEF SchedulerAssumption, Crash, CopyId, Number
  <2> DEFINE f == [n \in Number |-> 0]
             g == Budgets(copy', a)
  <2>2. IsFiniteSet(Number) /\ g \in [Number -> Nat] /\ Total(a)' = SumFunction(g)
    <3>1. copy' \in [CopyId -> CopyType]
      BY DEF TypeOK, CopyType
    <3>2. QED
      BY <3>1, BudgetsTyped DEF Total
  <2>3. g[0] = BudgetOf(Recovered(a)) /\ \A n \in Number \ {0} : g[n] = 0
    BY <2>1, StrandedType DEF Budgets, BudgetOf
  <2> HIDE DEF g
  <2>4. SumFunction(f) = 0
    BY <2>2, FunctionSumOfZeros
  <2>5. /\ f \in [Number -> Int] /\ g \in [Number -> Int] /\ f[0] = 0
        /\ \A n \in Number \ {0} : g[n] = f[n]
    BY <2>1, <2>2, <2>3
  <2> HIDE DEF f
  <2>6. SumFunction(g) = SumFunction(f) - f[0] + g[0]
    BY <2>1, <2>2, <2>5, FunctionSumChange
  <2>7. g[0] \in Int
    BY <2>1, <2>5
  <2>8. QED
    BY <2>1, <2>2, <2>3, <2>4, <2>5, <2>6, <2>7
<1>4. ASSUME NEW a \in Action
      PROVE  /\ file[a].status \in Terminal => BudgetOf(Recovered(a)) = 0
             /\ file[a].status \notin Terminal =>
                  /\ BudgetOf(Recovered(a)) = AtLeastOne(file[a].attempts)
                  /\ Sending(Recovered(a)) = 0
  BY DEF Recovered, BudgetOf, Sending, NoCopy
<1>5. ASSUME NEW a \in Action, file[a].status \notin Terminal
      PROVE  /\ AtLeastOne(file[a].attempts) \in Nat
             /\ Count(a) + AtLeastOne(file[a].attempts) <= Allowed(a) + 1
  <2>1. PICK m \in Number :
          Count(a) + AtLeastOne(file[a].attempts) + Sending(copy[<<a, m>>])
            + (Total(a) - BudgetOf(copy[<<a, m>>])) <= Allowed(a) + 1
    BY <1>1, <1>5 DEF RecordCovered
  <2>2. /\ BudgetOf(copy[<<a, m>>]) <= Total(a) /\ BudgetOf(copy[<<a, m>>]) \in Nat
        /\ Sending(copy[<<a, m>>]) \in Nat /\ AtLeastOne(file[a].attempts) \in Nat
    BY <1>1, TotalTypes, BudgetTypes, RecordBudget
  <2>3. QED
    BY <1>2, <2>1, <2>2
<1>6. ASSUME NEW a \in Action PROVE Count(a)' + Total(a)' <= Allowed(a)'
  <2>1. CASE file[a].status \in Terminal
    <3>1. Count(a) + Total(a) <= Allowed(a)
      BY <1>1 DEF CopiesCovered
    <3>2. Total(a)' = 0
      BY <1>3, <1>4, <2>1
    <3>3. QED
      BY <1>2, <3>1, <3>2
  <2>2. CASE file[a].status \notin Terminal
    BY <1>2, <1>3, <1>4, <1>5, <2>2
  <2>3. QED
    BY <2>1, <2>2
<1>7. ASSUME NEW a \in Action PROVE CoveredAfter(a, file[a])
  <2>1. SUFFICES ASSUME file[a].status \notin Terminal
                 PROVE  CoveredAfter(a, file[a])
    BY <1>1 DEF CoveredAfter
  <2>2. Count(a)' + AtLeastOne(file[a].attempts) + Sending(copy'[<<a, 0>>])
          + (Total(a)' - BudgetOf(copy'[<<a, 0>>])) <= Allowed(a)' + 1
    BY <1>2, <1>3, <1>4, <1>5, <2>1
  <2>3. QED
    BY <1>1, <1>3, <2>1, <2>2 DEF CoveredAfter
<1>8. QED
  BY <1>1, <1>6, <1>7, CoveredAfterStep DEF CopiesCovered

LEMMA InitBudget == Init => BudgetInv
<1> SUFFICES ASSUME Init PROVE BudgetInv
  OBVIOUS
<1>0. IsFiniteSet(Number)
  BY SchedulerAssumption, FS_Interval DEF SchedulerAssumption, Number
<1>1. TypeOK
  BY InitInvariant DEF IInv
<1>2. ASSUME NEW a \in Action
      PROVE  Count(a) = 0 /\ Total(a) = 0 /\ Allowed(a) \in Nat
  <2>1. SentFor(a) = {}
    BY DEF Init, SentFor
  <2>2. Budgets(copy, a) = [n \in Number |-> 0]
    BY DEF Init, Budgets, BudgetOf, NoCopy, CopyId, Number
  <2>3. QED
    BY <1>0, <1>1, <2>1, <2>2, FS_EmptySet, AllowedType, FunctionSumOfZeros
       DEF Count, Total
<1>3. QED
  BY <1>2 DEF Init, Empty, Absent, Terminal, BudgetInv, CopiesCovered, RecordCovered

LEMMA BudgetKept ==
  ASSUME IInv, TypeOK', BudgetInv, [Next]_vars
  PROVE  BudgetInv'
<1>1. CASE NothingSpent
  <2>1. \A a \in Action : /\ Count(a)' = Count(a) /\ Total(a)' = Total(a)
                          /\ Allowed(a)' = Allowed(a)
    BY <1>1 DEF NothingSpent, Total, Budgets, Allowed
  <2>2. CopiesCovered'
    BY <2>1 DEF BudgetInv, CopiesCovered
  <2>3. ASSUME NEW a \in Action
        PROVE  CoveredAfter(a, store'[a]) /\ CoveredAfter(a, file'[a])
    BY <1>1, <2>1 DEF BudgetInv, RecordCovered, CoveredAfter, NothingSpent
  <2>4. QED
    BY <2>2, <2>3, CoveredAfterStep
<1>2. QED
  BY <1>1, BudgetSteps, SpendingKeepsBudget, ReceivingKeepsBudget, CrashKeepsBudget

(* However copies of an action multiply, back off, fail to write the file  *)
(* and are recovered from one that is behind, its chain sees at most       *)
(* MaxRetries sends for every Enqueue and one more for every crash.        *)
THEOREM SendsAreBounded == Spec => []SendsBounded
<1>1. IInv /\ IInv' /\ BudgetInv /\ [Next]_vars => BudgetInv'
  BY BudgetKept DEF IInv
<1>2. IInv /\ BudgetInv => SendsBounded
  <2>1. ASSUME IInv, BudgetInv, NEW a \in Action
        PROVE  Cardinality(SentFor(a)) <= MaxRetries * received[a] + crashes
    <3>1. /\ Count(a) \in Nat /\ Total(a) \in Nat /\ Allowed(a) \in Nat
          /\ Count(a) + Total(a) <= Allowed(a)
      BY <2>1, SendCounts, TotalTypes, AllowedType DEF IInv, BudgetInv, CopiesCovered, Count
    <3>2. Count(a) <= Allowed(a)
      BY <3>1
    <3>3. QED
      BY <3>2 DEF Count, Allowed
  <2>2. QED
    BY <2>1 DEF SendsBounded
<1>3. QED
  BY InitBudget, Invariant, <1>1, <1>2, PTL DEF Spec
=============================================================================
