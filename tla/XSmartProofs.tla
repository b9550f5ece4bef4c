---------------------------- MODULE XSmartProofs ----------------------------
(***************************************************************************)
(* Proofs about XSmart, for every value of its constants.                  *)
(***************************************************************************)
EXTENDS XSmart, FiniteSetTheorems, SequenceTheorems, TLAPS, FunctionSums

-----------------------------------------------------------------------------
(* How a decision is reached does not matter to most of what follows.      *)

Decides(t) ==
  \/ \E data \in Payload, hash \in SUBSET Payload : DecideCommit(t, data, hash)
  \/ AbortExecution(t)

(* Every execution entry point, called by the initiator or by the relayer, *)
(* either decides to commit to some payload or aborts.                     *)
LEMMA ExecutionDecides ==
  ASSUME TypeOK, NEW t \in Tx, InitiatorExecutes(t) \/ RelayerExecutes(t) \/ TimesOut(t)
  PROVE  Decides(t)
<1>1. ASSUME NEW locked \in Answers(t), ExecuteIntegratedLogic(t, locked)
      PROVE  Decides(t)
  <2>1. \A s \in Contract : locked[s] \in LockResponse
    BY DEF Answers, TypeOK, InvokedTypeOK
  <2>2. ASSUME LogicSucceeds(locked) PROVE NewRemain(locked) \in Payload
    BY <2>1, <2>2, ManifestAssumption
       DEF LogicSucceeds, NewRemain, Payload, LockResponse, ManifestAssumption
  <2> QED
    BY <1>1, <2>2 DEF ExecuteIntegratedLogic, Decides
<1>2. ASSUME NEW result \in RootResults, CallTreeCommits(t, result)
      PROVE  Decides(t)
  <2>1. [s \in Contract |-> result] \in Payload
    BY XSmartAssumption DEF XSmartAssumption, Payload
  <2>2. updateHash[t] \in SUBSET Payload
    BY DEF TypeOK, ExecTypeOK
  <2> QED
    BY <1>2, <2>1, <2>2 DEF CallTreeCommits, Decides
<1>3. CASE InitiatorExecutes(t)
  BY <1>1, <1>2, <1>3
     DEF InitiatorExecutes, ExecuteIntegratedLogicWithProofs, CallTreeFails, Decides
<1>4. CASE RelayerExecutes(t)
  BY <1>2, <1>4 DEF RelayerExecutes, CallTreeFails, Decides
<1>5. CASE TimesOut(t)
  BY <1>5 DEF TimesOut, TimeoutExecution, Decides
<1> QED
  BY <1>3, <1>4, <1>5

-----------------------------------------------------------------------------
(* Type correctness, by party.                                             *)

LEMMA ExecutionTypes ==
  ASSUME TypeOK, [Next]_vars
  PROVE  ExecTypeOK'
<1> USE DEF ExecTypeOK, TypeOK, feeVars, Phase
<1>1. ASSUME NEW t \in Tx, Starts(t) PROVE ExecTypeOK'
  BY <1>1, ExecutionBridgeAssumption
     DEF Starts, RequestLockStates, ExecutionBridgeAssumption
<1>2. ASSUME NEW t \in Tx, Decides(t) PROVE ExecTypeOK'
  <2>1. ASSUME NEW data \in Payload, NEW hash \in SUBSET Payload,
               DecideCommit(t, data, hash)
        PROVE  ExecTypeOK'
    <3>1. updateHash' \in [Tx -> SUBSET Payload]
      BY <2>1 DEF DecideCommit
    <3>2. updateRequested' \subseteq [tx : Tx, data : Payload]
      BY <2>1 DEF DecideCommit
    <3>3. phase' \in [Tx -> Phase]
      BY <2>1 DEF DecideCommit
    <3> QED
      BY <2>1, <3>1, <3>2, <3>3 DEF DecideCommit
  <2>2. ASSUME AbortExecution(t) PROVE ExecTypeOK'
    <3>1. phase' \in [Tx -> Phase] /\ active' \in [Tx -> BOOLEAN]
      BY <2>2 DEF AbortExecution
    <3> QED
      BY <2>2, <3>1 DEF AbortExecution
  <2> QED
    BY <1>2, <2>1, <2>2 DEF Decides
<1>3. ASSUME NEW t \in Tx, InitiatorRequestsUpdate(t) PROVE ExecTypeOK'
  <2>1. PICK locked \in Answers(t) :
          LogicSucceeds(locked) /\ RequestUpdate(t, NewRemain(locked))
    BY <1>3 DEF InitiatorRequestsUpdate
  <2>2. \A s \in Contract : locked[s] \in LockResponse
    BY DEF Answers, InvokedTypeOK
  <2>3. NewRemain(locked) \in Payload
    <3>1. ASSUME NEW s \in Contract PROVE locked[s].remain - Num[s] \in Nat
      <4>1. locked[s].remain \in Nat /\ locked[s].remain >= Num[s]
        BY <2>1, <2>2 DEF LogicSucceeds, LockResponse
      <4>2. Num[s] \in Nat
        BY ManifestAssumption DEF ManifestAssumption
      <4>3. QED
        BY <4>1, <4>2
    <3> QED
      BY <3>1 DEF NewRemain, Payload
  <2> QED
    BY <2>1, <2>3 DEF RequestUpdate
<1>4. ASSUME NEW t \in Tx, NEW key \in TargetKeys, RelayerRecordsAck(t, key)
      PROVE  ExecTypeOK'
  <2> USE DEF RelayerRecordsAck, RecordUpdateAckAndMaybeComplete, LastAck, CreditFee
  <2>1. phase' \in [Tx -> Phase] /\ active' \in [Tx -> BOOLEAN]
    BY <1>4
  <2>2. collectedFees' \in [Tx -> Nat] /\ pendingFees' \in Nat
    BY <1>4
  <2>3. ackRecorded' \in [Tx -> SUBSET TargetKeys] /\ ackCount' \in [Tx -> Nat]
    BY <1>4
  <2> QED
    BY <1>4, <2>1, <2>2, <2>3
<1>5. ASSUME Withdraws PROVE ExecTypeOK'
  BY <1>5 DEF Withdraws, WithdrawFee
<1>6. ASSUME Block PROVE ExecTypeOK'
  BY <1>6 DEF Block, MineBlock
<1>7. ASSUME UNCHANGED execVars PROVE ExecTypeOK'
  BY <1>7 DEF execVars
<1> QED
  BY <1>1, <1>2, <1>3, <1>4, <1>5, <1>6, <1>7, ExecutionDecides
     DEF Next, vars, DeliverLock, DeliverUpdate, DeliverRollback, HandleLockResponse,
         HandleUpdateAck, RelayerRestart, ThirdPartyUnlocks, LocalCustomer

(* The contracts locked before the k-th, and the k-th, are state contracts. *)
LEMMA BatchOrder ==
  ASSUME NEW c \in Chain, NEW k \in DOMAIN Batch[c]
  PROVE  /\ Batch[c][k] \in Contract
         /\ \A i \in 1..(k - 1) : Batch[c][i] \in Contract
<1>1. Batch[c] \in Seq(Contract)
  BY ManifestAssumption DEF ManifestAssumption
<1>2. /\ Len(Batch[c]) \in Nat
      /\ DOMAIN Batch[c] = 1..Len(Batch[c])
      /\ Batch[c] \in [1..Len(Batch[c]) -> Contract]
  BY <1>1, LenProperties
<1> QED
  BY <1>2

LEMMA InvokedTypes ==
  ASSUME TypeOK, [Next]_vars
  PROVE  InvokedTypeOK'
<1> USE DEF InvokedTypeOK, StateTypeOK, TypeOK, poolVars, stateVars
<1>0. /\ \A s \in Contract : LockAmount(s) \in Nat /\ Num[s] \in Nat
      /\ \A t \in Tx, kind \in {"lock", "update", "rollback"} : <<kind, t>> \in RequestKey
  BY ManifestAssumption, StateContractsAssumption
     DEF LockAmount, ManifestAssumption, StateContractsAssumption, RequestKey
<1>1. ASSUME NEW t \in Tx, NEW c \in Chain, DeliverLock(c, t) PROVE InvokedTypeOK'
  <2> USE <1>0, <1>1 DEF DeliverLock, ReceiveLockRequest
  <2>1. processed' \in [Chain -> SUBSET RequestKey]
    BY DEF MarkProcessed
  <2>0. \A s \in Contract :
          Locked(s, t) \in LockResponse /\ LockFailed(s, t) \in LockResponse
    BY DEF Locked, LockFailed, LockResponse
  <2>2. CASE LockWholeBatch(c, t)
    <3>1. /\ bag' \in [Contract -> [Tx -> Nat]]
          /\ lockedTotal' \in [Contract -> Nat]
          /\ bagCount' \in [Contract -> Nat]
      BY <2>2 DEF LockWholeBatch, LockBags
    <3>2. lockResponse' \subseteq LockResponse
      BY <2>0, <2>2 DEF LockWholeBatch, Members
    <3> QED
      BY <2>1, <2>2, <3>1, <3>2 DEF LockWholeBatch
  <2>3. ASSUME NEW k \in DOMAIN Batch[c], LockStopsAt(c, t, k) PROVE InvokedTypeOK'
    <3>2. lockResponse' \subseteq LockResponse
      BY <2>0, <2>3, BatchOrder DEF LockStopsAt
    <3>3. unlockAttempts' \in [Contract -> [Tx -> Nat]]
      BY <2>3 DEF LockStopsAt, ClearAttempts
    <3> QED
      BY <2>1, <2>3, <3>2, <3>3 DEF LockStopsAt
  <2> QED
    BY <2>2, <2>3
<1>2. ASSUME NEW c \in Chain, NEW m \in updateRequested, DeliverUpdate(c, m)
      PROVE  InvokedTypeOK'
  <2> USE <1>0, <1>2 DEF DeliverUpdate, ReceiveUpdateRequest, UpdateStates
  <2>1. m.tx \in Tx /\ m.data \in [Contract -> Nat]
    BY DEF ExecTypeOK, Payload
  <2>2. /\ bag' \in [Contract -> [Tx -> Nat]]
        /\ lockedTotal' \in [Contract -> Nat]
        /\ bagCount' \in [Contract -> Nat]
    BY <2>1 DEF UnlockBags, CanUnlock, Members
  <2>3. remain' \in [Contract -> Nat] /\ bookings' \in [Contract -> [Tx -> Nat]]
    BY <2>1
  <2>4. processed' \in [Chain -> SUBSET RequestKey]
    BY <2>1 DEF MarkProcessed
  <2>5. updateAck' \subseteq (Tx \X Contract)
    BY <2>1 DEF Members
  <2> QED
    BY <2>2, <2>3, <2>4, <2>5
<1>3. ASSUME NEW t \in Tx, NEW c \in Chain, DeliverRollback(c, t) PROVE InvokedTypeOK'
  <2> USE <1>0, <1>3 DEF DeliverRollback, ReceiveRollbackRequest, Released
  <2>1. /\ bag' \in [Contract -> [Tx -> Nat]]
        /\ lockedTotal' \in [Contract -> Nat]
        /\ bagCount' \in [Contract -> Nat]
    BY DEF UnlockBags, CanUnlock
  <2>2. unlockAttempts' \in [Contract -> [Tx -> Nat]]
    OBVIOUS
  <2>3. processed' \in [Chain -> SUBSET RequestKey]
    BY DEF MarkProcessed
  <2> QED
    BY <2>1, <2>2, <2>3
<1>4. ASSUME NEW t \in Tx, NEW s \in Contract, ThirdPartyUnlocks(s, t)
      PROVE  InvokedTypeOK'
  BY <1>0, <1>4
     DEF ThirdPartyUnlocks, RetryUnlock, UnlockBags, CanUnlock, ClearAttempts
<1>5. ASSUME NEW s \in Contract, LocalCustomer(s) PROVE InvokedTypeOK'
  <2>1. PICK n \in LocalBookings[s] : BookLocal(s, n)
    BY <1>5 DEF LocalCustomer, BookRoom
  <2>2. n \in Nat
    BY StateContractsAssumption DEF StateContractsAssumption
  <2>3. remain' \in [Contract -> Nat] /\ localBooked' \in [Contract -> Nat]
    BY <2>1, <2>2 DEF BookLocal, Available
  <2> QED
    BY <1>5, <2>1, <2>3 DEF LocalCustomer, BookRoom, BookLocal
<1>6. ASSUME UNCHANGED invokedVars PROVE InvokedTypeOK'
  BY <1>6 DEF invokedVars
<1> QED
  BY <1>1, <1>2, <1>3, <1>4, <1>5, <1>6
     DEF Next, vars, Starts, TimesOut, InitiatorExecutes, InitiatorRequestsUpdate,
         RelayerExecutes, RelayerRecordsAck, HandleUpdateAck, HandleLockResponse,
         RelayerRestart, Withdraws, Block

LEMMA RelayerTypes ==
  ASSUME TypeOK, [Next]_vars
  PROVE  RelayerTypeOK'
<1> USE DEF RelayerTypeOK, TypeOK, memoryVars
<1>0. ASSUME NEW s \in Contract PROVE TargetKey(s) \in TargetKeys
  BY ManifestAssumption DEF ManifestAssumption, TargetKey, TargetKeys
<1>1. ASSUME NEW r \in lockResponse, HandleLockResponse(r) PROVE RelayerTypeOK'
  <2>1. r.tx \in Tx /\ TargetKey(r.con) \in TargetKeys
    BY <1>0 DEF InvokedTypeOK, LockResponse
  <2> QED
    BY <1>1, <2>1 DEF HandleLockResponse
<1>2. ASSUME NEW t \in Tx, NEW s \in Contract, HandleUpdateAck(t, s)
      PROVE  RelayerTypeOK'
  BY <1>0, <1>2 DEF HandleUpdateAck
<1>3. ASSUME NEW t \in Tx, RelayerExecutes(t) PROVE RelayerTypeOK'
  BY <1>3 DEF RelayerExecutes
<1>4. ASSUME RelayerRestart PROVE RelayerTypeOK'
  BY <1>4 DEF RelayerRestart, EmptyMemory
<1>5. ASSUME UNCHANGED relayerVars PROVE RelayerTypeOK'
  BY <1>5 DEF relayerVars
<1> QED
  BY <1>1, <1>2, <1>3, <1>4, <1>5
     DEF Next, vars, Starts, TimesOut, InitiatorExecutes, InitiatorRequestsUpdate,
         RelayerRecordsAck, DeliverLock, DeliverUpdate, DeliverRollback,
         ThirdPartyUnlocks, LocalCustomer, Withdraws, Block

LEMMA InitTypes == Init => TypeOK
<1> SUFFICES ASSUME Init PROVE TypeOK
  OBVIOUS
<1>1. ExecTypeOK
  BY DEF Init, ExecInit, ExecTypeOK, Phase
<1>2. InvokedTypeOK
  BY StateContractsAssumption
     DEF Init, InvokedInit, StateInit, InvokedTypeOK, StateTypeOK, StateContractsAssumption
<1>3. RelayerTypeOK
  BY DEF Init, RelayerInit, RelayerTypeOK, EmptyMemory
<1> QED
  BY <1>1, <1>2, <1>3 DEF TypeOK

(* Every reachable state is well typed: in particular the checked          *)
(* arithmetic of the pools never goes below zero.                          *)
THEOREM TypeCorrect == Spec => []TypeOK
<1>1. TypeOK /\ [Next]_vars => TypeOK'
  BY ExecutionTypes, InvokedTypes, RelayerTypes DEF TypeOK
<1> QED
  BY InitTypes, <1>1, PTL DEF Spec
-----------------------------------------------------------------------------
(* The steps of the protocol, without who takes them.                      *)

ExecutionStep(t) ==
  \/ RequestLockStates(t)
  \/ Decides(t)
  \/ \E data \in Payload : RequestUpdate(t, data)
  \/ \E key \in TargetKeys :
       <<t, key>> \in ackAction /\ RecordUpdateAckAndMaybeComplete(t, key)

InvokedStep ==
  \/ \E c \in Chain, t \in Tx : ReceiveLockRequest(c, t) \/ ReceiveRollbackRequest(c, t)
  \/ \E c \in Chain, m \in updateRequested : ReceiveUpdateRequest(c, m.tx, m.data)
  \/ \E s \in Contract, t \in Tx : RetryUnlock(s, t)
  \/ \E s \in Contract : BookRoom(s)

\* Nothing the safety properties speak of changes.
QuietStep ==
  UNCHANGED <<phase, active, ackCount, ackRecorded, updateRequested, invokedVars, ackAction>>

LEMMA StepCases ==
  ASSUME TypeOK, [Next]_vars
  PROVE  \/ UNCHANGED <<invokedVars, ackAction>> /\ \E t \in Tx : ExecutionStep(t)
         \/ UNCHANGED <<execVars, ackAction>> /\ InvokedStep
         \/ \E t \in Tx, s \in Contract : HandleUpdateAck(t, s)
         \/ QuietStep
<1>1. ASSUME NEW t \in Tx, Starts(t) PROVE ExecutionStep(t)
  BY <1>1 DEF Starts, ExecutionStep
<1>2. ASSUME NEW t \in Tx, TimesOut(t) \/ InitiatorExecutes(t) \/ RelayerExecutes(t)
      PROVE  ExecutionStep(t)
  BY <1>2, ExecutionDecides DEF ExecutionStep
<1>3. ASSUME NEW t \in Tx, InitiatorRequestsUpdate(t) PROVE ExecutionStep(t)
  <2>1. PICK locked \in Answers(t) :
          LogicSucceeds(locked) /\ RequestUpdate(t, NewRemain(locked))
    BY <1>3 DEF InitiatorRequestsUpdate
  <2>2. \A s \in Contract : locked[s] \in LockResponse
    BY DEF Answers, TypeOK, InvokedTypeOK
  <2>3. NewRemain(locked) \in Payload
    BY <2>1, <2>2, ManifestAssumption
       DEF LogicSucceeds, NewRemain, Payload, LockResponse, ManifestAssumption
  <2> QED
    BY <2>1, <2>3 DEF ExecutionStep
<1>4. ASSUME NEW t \in Tx, NEW key \in TargetKeys, RelayerRecordsAck(t, key)
      PROVE  ExecutionStep(t)
  BY <1>4 DEF RelayerRecordsAck, ExecutionStep
<1>5. ASSUME \E t \in Tx : \/ Starts(t) \/ TimesOut(t) \/ InitiatorExecutes(t)
                           \/ RelayerExecutes(t) \/ InitiatorRequestsUpdate(t)
                           \/ \E key \in TargetKeys : RelayerRecordsAck(t, key)
      PROVE  UNCHANGED <<invokedVars, ackAction>>
  BY <1>5 DEF Starts, TimesOut, InitiatorExecutes, RelayerExecutes,
              InitiatorRequestsUpdate, RelayerRecordsAck, relayerVars
<1>6. ASSUME \/ \E c \in Chain, t \in Tx : DeliverLock(c, t) \/ DeliverRollback(c, t)
             \/ \E c \in Chain, m \in updateRequested : DeliverUpdate(c, m)
             \/ \E s \in Contract, t \in Tx : ThirdPartyUnlocks(s, t)
             \/ \E s \in Contract : LocalCustomer(s)
      PROVE  UNCHANGED <<execVars, ackAction>> /\ InvokedStep
  BY <1>6 DEF DeliverLock, DeliverRollback, DeliverUpdate, ThirdPartyUnlocks,
              LocalCustomer, InvokedStep, relayerVars
<1>7. ASSUME \/ RelayerRestart \/ Withdraws \/ Block \/ UNCHANGED vars
             \/ \E r \in lockResponse : HandleLockResponse(r)
      PROVE  QuietStep
  BY <1>7 DEF RelayerRestart, Withdraws, WithdrawFee, Block, MineBlock, vars,
              HandleLockResponse, QuietStep, execVars, relayerVars
<1> QED
  BY <1>1, <1>2, <1>3, <1>4, <1>5, <1>6, <1>7 DEF Next

-----------------------------------------------------------------------------
(* Acknowledgments that are as many as the contracts, each with its own    *)
(* key and each that of an applied update, leave no contract out.          *)
LEMMA AllAcknowledged ==
  ASSUME NEW t \in Tx, NEW K \in SUBSET AppliedKeys(t), NEW n \in Nat,
         n <= Cardinality(K), EnoughAcks(n)
  PROVE  \A s \in Contract : Updated(s, t)
<1> DEFINE A == {s \in Contract : Updated(s, t)}
           g == [key \in K |-> CHOOSE s \in A : TargetKey(s) = key]
<1>1. IsFiniteSet(Contract) /\ IsFiniteSet(A) /\ Cardinality(A) <= Cardinality(Contract)
      /\ (Cardinality(Contract) = Cardinality(A) => Contract = A)
  BY ManifestAssumption, FS_Subset, A \in SUBSET Contract DEF ManifestAssumption
<1>2. \A key \in K : g[key] \in A /\ TargetKey(g[key]) = key
  BY DEF AppliedKeys
<1>3. g \in Injection(K, A)
  BY <1>2 DEF Injection, IsInjective
<1>4. IsFiniteSet(K) /\ Cardinality(K) <= Cardinality(A)
  BY <1>1, <1>3, FS_Injection
<1>5. Cardinality(A) \in Nat /\ Cardinality(K) \in Nat /\ Cardinality(Contract) \in Nat
  BY <1>1, <1>4, FS_CardinalityType
<1>6. Cardinality(A) = Cardinality(Contract)
  BY <1>1, <1>4, <1>5 DEF EnoughAcks
<1> QED
  BY <1>1, <1>6

(* Recorded acknowledgments are finitely many: one key per contract.       *)
LEMMA AcksFinite ==
  ASSUME AcksAreReal, NEW t \in Tx
  PROVE  IsFiniteSet(ackRecorded[t]) /\ Cardinality(ackRecorded[t]) \in Nat
<1> DEFINE A == {s \in Contract : Updated(s, t)}
           K == ackRecorded[t]
           g == [key \in K |-> CHOOSE s \in A : TargetKey(s) = key]
<1>1. IsFiniteSet(A)
  BY ManifestAssumption, FS_Subset, A \in SUBSET Contract DEF ManifestAssumption
<1>2. \A key \in K : g[key] \in A /\ TargetKey(g[key]) = key
  BY DEF AppliedKeys, AcksAreReal
<1>3. g \in Injection(K, A)
  BY <1>2 DEF Injection, IsInjective
<1> QED
  BY <1>1, <1>3, FS_Injection, FS_CardinalityType

(* When the execution chain moves, the invoked chains do not.  Only a      *)
(* fresh commit, which no update precedes, and the last acknowledgment,    *)
(* which AllAcknowledged justifies, could disturb the invariant.           *)
LEMMA ExecutionStepInductive ==
  ASSUME IInv, [Next]_vars, UNCHANGED <<invokedVars, ackAction>>,
         NEW t \in Tx, ExecutionStep(t)
  PROVE  IInv'
<1> USE DEF IInv
<1>0. /\ TypeOK'
      /\ \A s \in Contract, u \in Tx : Updated(s, u)' <=> Updated(s, u)
      /\ \A u \in Tx : AppliedKeys(u)' = AppliedKeys(u)
  BY ExecutionTypes, InvokedTypes, RelayerTypes
     DEF TypeOK, Updated, AlreadyProcessed, AppliedKeys, invokedVars
<1>1. LockedOnlyOnce' /\ NoLockAfterUpdate' /\ BookedExactlyOnce'
  BY <1>0 DEF LockedOnlyOnce, NoLockAfterUpdate, BookedExactlyOnce, AlreadyProcessed,
              invokedVars, stateVars, poolVars
<1>2. \/ RequestLockStates(t) \/ Decides(t)
      \/ \E data \in Payload : RequestUpdate(t, data)
      => AcksAreReal'
  BY <1>0 DEF Decides, RequestLockStates, DecideCommit, AbortExecution, RequestUpdate,
              AcksAreReal, invokedVars
<1>3. CASE RequestLockStates(t)
  <2> USE <1>3 DEF RequestLockStates, TypeOK, ExecTypeOK
  <2>1. ActiveWhileOpen'
    BY DEF ActiveWhileOpen
  <2>2. AcksAreCounted'
    <3>1. \A u \in Tx : Cardinality(ackRecorded[u]) >= ackCount[u] /\ ackCount[u] >= 0
      BY DEF AcksAreCounted
    <3>2. ~EnoughAcks(0)
      BY ManifestAssumption, FS_EmptySet, FS_CardinalityType DEF EnoughAcks, ManifestAssumption
    <3>3. \A u \in Tx : Cardinality(ackRecorded[u]) \in Int => ackCount'[u] <= Cardinality(ackRecorded'[u])
      BY <3>1
    <3>4. \A u \in Tx : Cardinality(ackRecorded[u]) \in Int
      BY AcksFinite
    <3>5. \A u \in Tx : active'[u] => ~EnoughAcks(ackCount'[u])
      BY <3>2 DEF AcksAreCounted
    <3> QED
      BY <3>3, <3>4, <3>5 DEF AcksAreCounted, EnoughAcks
  <2>3. OldUpdatesAreApplied' /\ CompletedImpliesUpdated'
    BY <1>0 DEF OldUpdatesAreApplied, CompletedImpliesUpdated, ActiveWhileOpen
  <2> QED
    BY <1>0, <1>1, <1>2, <1>3, <2>1, <2>2, <2>3
<1>4. CASE Decides(t)
  <2> USE DEF TypeOK, ExecTypeOK
  <2>1. phase[t] = "Requested" /\ active[t]
    BY <1>4 DEF Decides, DecideCommit, AbortExecution, InPhase
  <2>2. ActiveWhileOpen'
    BY <1>4, <2>1 DEF Decides, DecideCommit, AbortExecution, ActiveWhileOpen
  <2>3. AcksAreCounted'
    BY <1>4, <2>1 DEF Decides, DecideCommit, AbortExecution, AcksAreCounted, EnoughAcks
  <2>4. CompletedImpliesUpdated'
    BY <1>0, <1>4 DEF Decides, DecideCommit, AbortExecution, CompletedImpliesUpdated
  <2>5. OldUpdatesAreApplied'
    BY <1>0, <1>4, <2>1 DEF Decides, DecideCommit, AbortExecution, OldUpdatesAreApplied
  <2> QED
    BY <1>0, <1>1, <1>2, <1>4, <2>2, <2>3, <2>4, <2>5
<1>5. ASSUME NEW data \in Payload, RequestUpdate(t, data) PROVE IInv'
  <2> USE <1>5 DEF RequestUpdate, InPhase
  <2>1. ActiveWhileOpen' /\ AcksAreCounted' /\ CompletedImpliesUpdated'
    BY <1>0 DEF ActiveWhileOpen, AcksAreCounted, CompletedImpliesUpdated, EnoughAcks
  <2>2. OldUpdatesAreApplied'
    <3> SUFFICES ASSUME NEW m \in updateRequested', phase'[m.tx] # "CommitDecided"
                 PROVE  \A s \in Contract : Updated(s, m.tx)
      BY <1>0, <1>5 DEF OldUpdatesAreApplied, TypeOK, ExecTypeOK
    <3>1. CASE m \in updateRequested
      BY <3>1 DEF OldUpdatesAreApplied
    <3>2. CASE m.tx = t
      BY <3>2
    <3> QED
      BY <3>1, <3>2
  <2> QED
    BY <1>0, <1>1, <1>2, <2>1, <2>2
<1>6. ASSUME NEW key \in TargetKeys, <<t, key>> \in ackAction,
             RecordUpdateAckAndMaybeComplete(t, key)
      PROVE  IInv'
  <2> USE <1>6 DEF RecordUpdateAckAndMaybeComplete, LastAck, CreditFee,
                       TypeOK, ExecTypeOK
  <2> DEFINE K == ackRecorded[t] \cup {key}
             n == ackCount[t] + 1
  <2>1. K \in SUBSET AppliedKeys(t)
    BY DEF AcksAreReal
  <2>2. n \in Nat /\ n <= Cardinality(K)
    <3>1. IsFiniteSet(ackRecorded[t]) /\ Cardinality(ackRecorded[t]) \in Nat
      BY AcksFinite
    <3>2. Cardinality(K) = Cardinality(ackRecorded[t]) + 1
      BY <3>1, FS_AddElement
    <3> QED
      BY <3>1, <3>2 DEF AcksAreCounted
  <2>3. EnoughAcks(n) => \A s \in Contract : Updated(s, t)
    BY <2>1, <2>2, AllAcknowledged
  <2>4. ActiveWhileOpen'
    BY DEF ActiveWhileOpen, InPhase
  <2>5. AcksAreReal'
    BY <1>0, <2>1 DEF AcksAreReal, invokedVars
  <2>6. AcksAreCounted'
    BY <2>2 DEF AcksAreCounted, EnoughAcks
  <2>7. CompletedImpliesUpdated' /\ OldUpdatesAreApplied'
    BY <1>0, <2>3 DEF CompletedImpliesUpdated, OldUpdatesAreApplied
  <2> QED
    BY <1>0, <1>1, <2>4, <2>5, <2>6, <2>7
<1> QED
  BY <1>3, <1>4, <1>5, <1>6 DEF ExecutionStep

(* When an invoked chain moves, the execution chain does not, so what      *)
(* rests on the phase only needs updates to be permanent.                  *)
LEMMA UpdatesPermanent ==
  ASSUME IInv, [Next]_vars, UNCHANGED <<execVars, ackAction>>,
         \A s \in Contract, t \in Tx : Updated(s, t) => Updated(s, t)',
         \A s \in Contract, t \in Tx : <<t, s>> \in updateAck' => Updated(s, t)',
         LockedOnlyOnce', NoLockAfterUpdate', BookedExactlyOnce'
  PROVE  IInv'
<1> USE DEF IInv
<1>1. TypeOK'
  BY ExecutionTypes, InvokedTypes, RelayerTypes DEF TypeOK
<1>2. \A t \in Tx : AppliedKeys(t) \subseteq AppliedKeys(t)'
  BY DEF AppliedKeys
<1>3. AcksAreReal'
  BY <1>2 DEF AcksAreReal, execVars
<1>4. ActiveWhileOpen' /\ AcksAreCounted'
  BY DEF ActiveWhileOpen, AcksAreCounted, EnoughAcks, execVars
<1>5. OldUpdatesAreApplied' /\ CompletedImpliesUpdated'
  BY DEF OldUpdatesAreApplied, CompletedImpliesUpdated, TypeOK, ExecTypeOK, execVars
<1> QED
  BY <1>1, <1>3, <1>4, <1>5

LEMMA InvokedStepInductive ==
  ASSUME IInv, [Next]_vars, UNCHANGED <<execVars, ackAction>>, InvokedStep
  PROVE  IInv'
<1> USE DEF IInv, Updated, AlreadyProcessed
<1> USE DEF TypeOK, InvokedTypeOK, StateTypeOK
<1>0. ChainOf \in [Contract -> Chain] /\ Num \in [Contract -> Nat]
  BY ManifestAssumption DEF ManifestAssumption
<1>1. ASSUME NEW c \in Chain, NEW t \in Tx, ReceiveLockRequest(c, t) PROVE IInv'
  <2> USE <1>0, <1>1 DEF ReceiveLockRequest, MarkProcessed
  <2>1. \A s \in Contract, u \in Tx : /\ Updated(s, u)' <=> Updated(s, u)
                                      /\ AlreadyProcessed("lock", ChainOf[s], u)
                                         => AlreadyProcessed("lock", ChainOf[s], u)'
    OBVIOUS
  <2>2. \A s \in Contract, u \in Tx :
          bag'[s][u] = bag[s][u] \/ (u = t /\ ChainOf[s] = c)
    <3>1. CASE LockWholeBatch(c, t)
      BY <3>1 DEF LockWholeBatch, LockBags, Members
    <3>2. CASE UNCHANGED poolVars
      BY <3>2 DEF poolVars
    <3> QED
      BY <3>1, <3>2 DEF LockStopsAt
  <2>3. LockedOnlyOnce'
    BY <2>1, <2>2 DEF LockedOnlyOnce
  <2>4. NoLockAfterUpdate'
    BY <2>1, <2>2 DEF NoLockAfterUpdate, LockedOnlyOnce
  <2>5. BookedExactlyOnce'
    BY <2>1 DEF BookedExactlyOnce
  <2>6. \A s \in Contract, u \in Tx : <<u, s>> \in updateAck' => Updated(s, u)'
    BY <2>1 DEF AcksAreReal
  <2> QED
    BY <2>1, <2>3, <2>4, <2>5, <2>6, UpdatesPermanent
<1>2. ASSUME NEW c \in Chain, NEW m \in updateRequested,
             ReceiveUpdateRequest(c, m.tx, m.data)
      PROVE  IInv'
  <2> USE <1>0, <1>2 DEF ReceiveUpdateRequest, UpdateStates, UnlockBags, MarkProcessed, Members
  <2>0. m.tx \in Tx
    BY DEF ExecTypeOK
  <2>1. \A s \in Contract, u \in Tx :
          /\ Updated(s, u)' <=> Updated(s, u) \/ (u = m.tx /\ ChainOf[s] = c)
          /\ AlreadyProcessed("lock", ChainOf[s], u)' <=> AlreadyProcessed("lock", ChainOf[s], u)
    BY <2>0
  <2>2. \A s \in Contract, u \in Tx :
          bag'[s][u] = IF u = m.tx /\ ChainOf[s] = c THEN 0 ELSE bag[s][u]
    BY <2>0
  <2>3. LockedOnlyOnce'
    BY <2>0, <2>1, <2>2 DEF LockedOnlyOnce, CanUnlock
  <2>4. NoLockAfterUpdate'
    BY <2>1, <2>2 DEF NoLockAfterUpdate
  <2>5. BookedExactlyOnce'
    <3>1. \A s \in Contract, u \in Tx :
            bookings'[s][u] = IF u = m.tx /\ ChainOf[s] = c THEN bookings[s][u] + Num[s]
                              ELSE bookings[s][u]
      BY <2>0
    <3>2. \A s \in Contract : ChainOf[s] = c => bookings[s][m.tx] = 0
      BY <2>0 DEF BookedExactlyOnce
    <3>3. ASSUME NEW s \in Contract, NEW u \in Tx
          PROVE  bookings'[s][u] = IF Updated(s, u)' THEN Num[s] ELSE 0
      <4>1. CASE u = m.tx /\ ChainOf[s] = c
        BY <2>1, <3>1, <3>2, <4>1
      <4>2. CASE ~(u = m.tx /\ ChainOf[s] = c)
        BY <2>1, <3>1, <4>2 DEF BookedExactlyOnce
      <4> QED
        BY <4>1, <4>2
    <3> QED
      BY <3>3 DEF BookedExactlyOnce
  <2>6. \A s \in Contract, u \in Tx : <<u, s>> \in updateAck' => Updated(s, u)'
    BY <2>1 DEF AcksAreReal
  <2> QED
    BY <2>1, <2>3, <2>4, <2>5, <2>6, UpdatesPermanent
<1>3. ASSUME NEW c \in Chain, NEW t \in Tx, ReceiveRollbackRequest(c, t) PROVE IInv'
  <2> USE <1>0, <1>3 DEF ReceiveRollbackRequest, Released, UnlockBags, MarkProcessed
  <2>1. \A s \in Contract, u \in Tx :
          /\ Updated(s, u)' <=> Updated(s, u)
          /\ AlreadyProcessed("lock", ChainOf[s], u)' <=> AlreadyProcessed("lock", ChainOf[s], u)
    OBVIOUS
  <2>2. \A s \in Contract, u \in Tx : bag'[s][u] = bag[s][u] \/ bag'[s][u] = 0
    OBVIOUS
  <2>3. LockedOnlyOnce' /\ NoLockAfterUpdate'
    BY <2>1, <2>2 DEF LockedOnlyOnce, NoLockAfterUpdate
  <2>4. BookedExactlyOnce'
    BY <2>1 DEF BookedExactlyOnce
  <2>5. \A s \in Contract, u \in Tx : <<u, s>> \in updateAck' => Updated(s, u)'
    BY <2>1 DEF AcksAreReal
  <2> QED
    BY <2>1, <2>3, <2>4, <2>5, UpdatesPermanent
<1>4. ASSUME NEW s \in Contract,
             BookRoom(s) \/ \E t \in Tx : RetryUnlock(s, t)
      PROVE  IInv'
  <2>1. /\ UNCHANGED <<processed, bookings, updateAck>>
        /\ \A r \in Contract, u \in Tx : bag'[r][u] = bag[r][u] \/ bag'[r][u] = 0
    <3>1. CASE BookRoom(s)
      BY <3>1 DEF BookRoom, BookLocal, poolVars
    <3>2. ASSUME NEW t \in Tx, RetryUnlock(s, t)
          PROVE  /\ UNCHANGED <<processed, bookings, updateAck>>
                 /\ \A r \in Contract, u \in Tx : bag'[r][u] = bag[r][u] \/ bag'[r][u] = 0
      BY <3>2 DEF RetryUnlock, UnlockBags
    <3> QED
      BY <1>4, <3>1, <3>2
  <2>2. \A r \in Contract, u \in Tx :
          /\ Updated(r, u)' <=> Updated(r, u)
          /\ AlreadyProcessed("lock", ChainOf[r], u)' <=> AlreadyProcessed("lock", ChainOf[r], u)
          /\ bag'[r][u] > 0 => bag[r][u] > 0
          /\ bag[r][u] = 0 => bag'[r][u] = 0
    BY <1>0, <2>1
  <2>3. LockedOnlyOnce' /\ NoLockAfterUpdate'
    BY <2>2 DEF LockedOnlyOnce, NoLockAfterUpdate
  <2>4. BookedExactlyOnce'
    BY <2>1 DEF BookedExactlyOnce
  <2>5. \A r \in Contract, u \in Tx : <<u, r>> \in updateAck' => Updated(r, u)'
    BY <2>1 DEF AcksAreReal
  <2> QED
    BY <2>1, <2>3, <2>4, <2>5, UpdatesPermanent
<1> QED
  BY <1>1, <1>2, <1>3, <1>4 DEF InvokedStep

LEMMA AckStepInductive ==
  ASSUME IInv, [Next]_vars, NEW t \in Tx, NEW s \in Contract, HandleUpdateAck(t, s)
  PROVE  IInv'
<1> USE DEF IInv
<1>1. TypeOK'
  BY ExecutionTypes, InvokedTypes, RelayerTypes DEF TypeOK
<1>2. UNCHANGED <<execVars, invokedVars>> /\ ackAction' = ackAction \cup {<<t, TargetKey(s)>>}
  BY DEF HandleUpdateAck
<1>3. \A r \in Contract, u \in Tx : Updated(r, u)' <=> Updated(r, u)
  BY <1>2 DEF Updated, AlreadyProcessed, invokedVars
<1>4. \A u \in Tx : AppliedKeys(u)' = AppliedKeys(u)
  BY <1>3 DEF AppliedKeys
<1>5. TargetKey(s) \in AppliedKeys(t)
  BY DEF HandleUpdateAck, AcksAreReal, AppliedKeys
<1>6. AcksAreReal'
  BY <1>2, <1>3, <1>4, <1>5 DEF AcksAreReal, execVars, invokedVars
<1>7. LockedOnlyOnce' /\ NoLockAfterUpdate' /\ BookedExactlyOnce'
  BY <1>2, <1>3 DEF LockedOnlyOnce, NoLockAfterUpdate, BookedExactlyOnce,
                    AlreadyProcessed, invokedVars, stateVars, poolVars
<1>8. ActiveWhileOpen' /\ AcksAreCounted' /\ OldUpdatesAreApplied' /\ CompletedImpliesUpdated'
  BY <1>2, <1>3 DEF ActiveWhileOpen, AcksAreCounted, OldUpdatesAreApplied, EnoughAcks,
                    CompletedImpliesUpdated, TypeOK, ExecTypeOK, execVars
<1> QED
  BY <1>1, <1>6, <1>7, <1>8

LEMMA QuietStepInductive ==
  ASSUME IInv, [Next]_vars, QuietStep
  PROVE  IInv'
<1> USE DEF IInv
<1>1. TypeOK'
  BY ExecutionTypes, InvokedTypes, RelayerTypes DEF TypeOK
<1>2. /\ \A r \in Contract, u \in Tx : Updated(r, u)' <=> Updated(r, u)
      /\ \A u \in Tx : AppliedKeys(u)' = AppliedKeys(u)
  BY DEF Updated, AlreadyProcessed, AppliedKeys, QuietStep, invokedVars
<1>3. AcksAreReal'
  BY <1>2 DEF AcksAreReal, QuietStep, invokedVars
<1>4. LockedOnlyOnce' /\ NoLockAfterUpdate' /\ BookedExactlyOnce'
  BY <1>2 DEF LockedOnlyOnce, NoLockAfterUpdate, BookedExactlyOnce,
              AlreadyProcessed, QuietStep, invokedVars, stateVars, poolVars
<1>5. ActiveWhileOpen' /\ AcksAreCounted' /\ OldUpdatesAreApplied' /\ CompletedImpliesUpdated'
  BY <1>2 DEF ActiveWhileOpen, AcksAreCounted, OldUpdatesAreApplied, EnoughAcks,
              CompletedImpliesUpdated, TypeOK, ExecTypeOK, QuietStep
<1> QED
  BY <1>1, <1>3, <1>4, <1>5

LEMMA InitInvariant == Init => IInv
<1> SUFFICES ASSUME Init PROVE IInv
  OBVIOUS
<1> USE InitTypes DEF Init, ExecInit, InvokedInit, StateInit, RelayerInit
<1>0. \A s \in Contract, t \in Tx : ~Updated(s, t)
  BY ManifestAssumption DEF Updated, AlreadyProcessed, ManifestAssumption
<1>1. ActiveWhileOpen /\ LockedOnlyOnce /\ NoLockAfterUpdate /\ AcksAreReal
  BY <1>0 DEF ActiveWhileOpen, LockedOnlyOnce, NoLockAfterUpdate, AcksAreReal
<1>2. AcksAreCounted
  BY FS_EmptySet DEF AcksAreCounted
<1>3. OldUpdatesAreApplied /\ CompletedImpliesUpdated /\ BookedExactlyOnce
  BY <1>0 DEF OldUpdatesAreApplied, CompletedImpliesUpdated, BookedExactlyOnce
<1> QED
  BY <1>1, <1>2, <1>3 DEF IInv

(* The inductive invariant holds in every reachable state, for any number  *)
(* of transactions, contracts, chains, attempts and relayer restarts.      *)
THEOREM Invariant == Spec => []IInv
<1>1. IInv /\ [Next]_vars => IInv'
  BY StepCases, ExecutionStepInductive, InvokedStepInductive, AckStepInductive,
     QuietStepInductive DEF IInv
<1> QED
  BY InitInvariant, <1>1, PTL DEF Spec

-----------------------------------------------------------------------------
(* The safety properties.                                                  *)

(* Completion means that every state contract applied its update.          *)
THEOREM CompletedIsApplied == Spec => []CompletedImpliesUpdated
<1>1. IInv => CompletedImpliesUpdated
  BY DEF IInv
<1> QED
  BY Invariant, <1>1, PTL

(* No contract holds rooms for a transaction it has been updated by.       *)
THEOREM UpdateEndsLock == Spec => []NoLockAfterUpdate
<1>1. IInv => NoLockAfterUpdate
  BY DEF IInv
<1> QED
  BY Invariant, <1>1, PTL

(* Every contract books a transaction's rooms once, with its update.       *)
THEOREM BooksOnce == Spec => []BookedExactlyOnce
<1>1. IInv => BookedExactlyOnce
  BY DEF IInv
<1> QED
  BY Invariant, <1>1, PTL

(* The guard of completeExecution is false in every reachable state.       *)
THEOREM CompleteExecutionUnreachable == Spec => []AcksBelowThreshold
<1>1. IInv => AcksBelowThreshold
  BY DEF IInv, AcksAreCounted, AcksBelowThreshold, InPhase
<1> QED
  BY Invariant, <1>1, PTL

(* A step that applies an update finds the execution chain committed.      *)
LEMMA UpdateStepWhileCommitted ==
  ASSUME IInv, [Next]_vars, NEW s \in Contract, NEW t \in Tx,
         ~Updated(s, t), Updated(s, t)'
  PROVE  phase[t] = "CommitDecided"
<1> USE DEF IInv, TypeOK, InvokedTypeOK
<1>0. ChainOf \in [Contract -> Chain]
  BY ManifestAssumption DEF ManifestAssumption
<1>1. ~UNCHANGED processed
  BY DEF Updated, AlreadyProcessed
<1>2. InvokedStep
  BY <1>1, StepCases DEF QuietStep, invokedVars, HandleUpdateAck
<1>3. PICK c \in Chain, m \in updateRequested : ReceiveUpdateRequest(c, m.tx, m.data)
  <2>1. ASSUME NEW c \in Chain, NEW u \in Tx,
               ReceiveLockRequest(c, u) \/ ReceiveRollbackRequest(c, u)
        PROVE  FALSE
    <3>1. MarkProcessed("lock", c, u) \/ MarkProcessed("rollback", c, u)
      BY <2>1 DEF ReceiveLockRequest, ReceiveRollbackRequest
    <3>2. processed'[ChainOf[s]] \subseteq
            processed[ChainOf[s]] \cup {<<"lock", u>>, <<"rollback", u>>}
      BY <1>0, <3>1 DEF MarkProcessed
    <3> QED
      BY <3>2 DEF Updated, AlreadyProcessed
  <2>2. ASSUME NEW r \in Contract, BookRoom(r) \/ \E u \in Tx : RetryUnlock(r, u)
        PROVE  FALSE
    BY <1>1, <2>2 DEF BookRoom, RetryUnlock
  <2> QED
    BY <1>2, <2>1, <2>2 DEF InvokedStep
<1>4. m.tx = t
  BY <1>0, <1>3 DEF ReceiveUpdateRequest, MarkProcessed, Updated, AlreadyProcessed, ExecTypeOK
<1> QED
  BY <1>3, <1>4 DEF OldUpdatesAreApplied

(* Updates are applied only under a standing decision to commit.           *)
THEOREM UpdatesUnderCommit == Spec => UpdateOnlyWhileCommitDecided
<1>1. IInv /\ [Next]_vars =>
        [\A s \in Contract, t \in Tx :
           ~Updated(s, t) /\ Updated(s, t)' => phase[t] = "CommitDecided"]_vars
  BY UpdateStepWhileCommitted
<1> QED
  BY Invariant, <1>1, PTL DEF Spec, UpdateOnlyWhileCommitDecided

-----------------------------------------------------------------------------
(* XSmart implements AtomicCommit.                                         *)

LEMMA DecisionOf ==
  ASSUME TypeOK, NEW t \in Tx
  PROVE  /\ phase[t] = "None" => Decision[t] = "none"
         /\ phase[t] = "Requested" => Decision[t] = "open"
         /\ phase[t] = "CommitDecided" => Decision[t] = "commit"
         /\ phase[t] = "AbortDecided" => Decision[t] = "abort"
         /\ phase[t] = "Completed" => Decision[t] = "done"
  BY DEF Decision, DecisionIn, TypeOK, ExecTypeOK, Phase

(* A change of one transaction's phase is a change of its decision.        *)
LEMMA PhaseChange ==
  ASSUME TypeOK, NEW t \in Tx, NEW p \in Phase, phase' = [phase EXCEPT ![t] = p]
  PROVE  Decision' = [Decision EXCEPT ![t] = Decision'[t]]
<1>1. phase \in [Tx -> Phase]
  BY DEF TypeOK, ExecTypeOK
<1> QED
  BY <1>1 DEF Decision

LEMMA ExecutionStepRefines ==
  ASSUME IInv, IInv', UNCHANGED <<invokedVars, ackAction>>, NEW t \in Tx, ExecutionStep(t)
  PROVE  Commitment!Next \/ UNCHANGED <<Decision, Effect>>
<1> USE DEF IInv
<1>0. UNCHANGED Effect
  BY DEF Effect, Updated, AlreadyProcessed, invokedVars
<1>1. ASSUME NEW from, NEW p \in Phase,
             phase' = [phase EXCEPT ![t] = p], Decision[t] \in from
      PROVE  Commitment!Decide(t, from, Decision'[t])
  BY <1>0, <1>1, PhaseChange DEF Commitment!Decide
<1>2. /\ phase[t] \in Phase
      /\ \A p \in Phase : phase' = [phase EXCEPT ![t] = p] => phase'[t] = p
  BY DEF TypeOK, ExecTypeOK
<1>3. CASE RequestLockStates(t)
  <2>1. phase[t] \in {"None", "AbortDecided", "Completed"}
    BY <1>2, <1>3 DEF RequestLockStates, ActiveWhileOpen, Phase
  <2>2. Decision[t] \in {"none", "abort", "done"}
    BY <2>1, DecisionOf
  <2>3. Decision'[t] = "open" /\ phase' = [phase EXCEPT ![t] = "Requested"]
    BY <1>2, <1>3, DecisionOf DEF RequestLockStates, Phase, Decision, DecisionIn
  <2> QED
    BY <1>1, <2>2, <2>3 DEF Commitment!Next, Commitment!Begin, Phase
<1>4. CASE Decides(t)
  <2>1. Decision[t] = "open"
    BY <1>4, DecisionOf DEF Decides, DecideCommit, AbortExecution, InPhase
  <2>2. CASE phase' = [phase EXCEPT ![t] = "CommitDecided"]
    <3>1. Decision'[t] = "commit"
      BY <1>2, <2>2 DEF Phase, Decision, DecisionIn
    <3> QED
      BY <1>1, <2>1, <2>2, <3>1 DEF Commitment!Next, Commitment!Commit, Phase
  <2>3. CASE phase' = [phase EXCEPT ![t] = "AbortDecided"]
    <3>1. Decision'[t] = "abort"
      BY <1>2, <2>3 DEF Phase, Decision, DecisionIn
    <3> QED
      BY <1>1, <2>1, <2>3, <3>1 DEF Commitment!Next, Commitment!Abort, Phase
  <2> QED
    BY <1>4, <2>2, <2>3 DEF Decides, DecideCommit, AbortExecution
<1>5. ASSUME NEW data \in Payload, RequestUpdate(t, data) PROVE UNCHANGED Decision
  BY <1>5 DEF RequestUpdate, Decision
<1>6. ASSUME NEW key \in TargetKeys, RecordUpdateAckAndMaybeComplete(t, key)
      PROVE  Commitment!Next \/ UNCHANGED Decision
  <2>1. CASE UNCHANGED phase
    BY <2>1 DEF Decision
  <2>2. CASE phase' = [phase EXCEPT ![t] = "Completed"]
    <3>1. Decision[t] = "commit"
      BY <1>6, DecisionOf DEF RecordUpdateAckAndMaybeComplete, InPhase
    <3>2. Decision'[t] = "done" /\ phase'[t] = "Completed"
      BY <1>2, <2>2 DEF Phase, Decision, DecisionIn
    <3>3. Effect[t] = Contract
      BY <1>0, <3>2 DEF CompletedImpliesUpdated, Effect
    <3> QED
      BY <1>1, <2>2, <3>1, <3>2, <3>3 DEF Commitment!Next, Commitment!Finish, Phase
  <2> QED
    BY <1>6, <2>1, <2>2 DEF RecordUpdateAckAndMaybeComplete
<1> QED
  BY <1>0, <1>3, <1>4, <1>5, <1>6 DEF ExecutionStep

LEMMA InvokedStepRefines ==
  ASSUME IInv, IInv', [Next]_vars, UNCHANGED <<execVars, ackAction>>, InvokedStep
  PROVE  Commitment!Next \/ UNCHANGED <<Decision, Effect>>
<1> USE DEF IInv
<1>0. UNCHANGED Decision /\ ChainOf \in [Contract -> Chain]
  BY ManifestAssumption DEF Decision, execVars, ManifestAssumption
<1>1. processed \in [Chain -> SUBSET RequestKey]
  BY DEF TypeOK, InvokedTypeOK
<1>2. ASSUME NEW c \in Chain, NEW m \in updateRequested,
             ReceiveUpdateRequest(c, m.tx, m.data)
      PROVE  Commitment!Next \/ UNCHANGED Effect
  <2> DEFINE t == m.tx
             S == Members(c)
  <2>0. t \in Tx
    BY DEF TypeOK, ExecTypeOK
  <2>1. \A s \in Contract, u \in Tx :
          Updated(s, u)' <=> Updated(s, u) \/ (u = t /\ s \in S)
    BY <1>0, <1>1, <1>2, <2>0
       DEF ReceiveUpdateRequest, MarkProcessed, Updated, AlreadyProcessed, Members
  <2>2. \A s \in S : ~Updated(s, t)
    BY <1>2 DEF ReceiveUpdateRequest, Updated, AlreadyProcessed, Members
  <2>3. S \in SUBSET Contract
    BY DEF Members
  <2> HIDE DEF S
  <2>4. Effect' = [Effect EXCEPT ![t] = Effect[t] \cup S]
    BY <2>0, <2>1, <2>3 DEF Effect
  <2>5. S \cap Effect[t] = {}
    BY <2>0, <2>2 DEF Effect
  <2>6. CASE phase[t] = "CommitDecided"
    <3>1. Decision[t] = "commit"
      BY <2>0, <2>6, DecisionOf
    <3> QED
      BY <1>0, <2>0, <2>3, <2>4, <2>5, <3>1 DEF Commitment!Next, Commitment!Apply
  <2>7. CASE phase[t] # "CommitDecided"
    <3>1. \A s \in Contract : Updated(s, t)
      BY <2>7 DEF OldUpdatesAreApplied
    <3>2. S = {}
      BY <2>2, <2>3, <3>1
    <3> QED
      BY <2>0, <2>4, <3>2 DEF Effect
  <2> QED
    BY <2>6, <2>7
<1>3. ASSUME UNCHANGED processed PROVE UNCHANGED Effect
  BY <1>3 DEF Effect, Updated, AlreadyProcessed
<1>4. ASSUME NEW c \in Chain, NEW u \in Tx,
             ReceiveLockRequest(c, u) \/ ReceiveRollbackRequest(c, u)
      PROVE  UNCHANGED Effect
  <2>1. MarkProcessed("lock", c, u) \/ MarkProcessed("rollback", c, u)
    BY <1>4 DEF ReceiveLockRequest, ReceiveRollbackRequest
  <2>2. ASSUME NEW s \in Contract, NEW t \in Tx PROVE Updated(s, t)' <=> Updated(s, t)
    BY <1>0, <1>1, <2>1 DEF MarkProcessed, Updated, AlreadyProcessed
  <2> QED
    BY <2>2 DEF Effect
<1>5. ASSUME NEW r \in Contract, BookRoom(r) \/ \E u \in Tx : RetryUnlock(r, u)
      PROVE  UNCHANGED Effect
  BY <1>3, <1>5 DEF BookRoom, RetryUnlock
<1> QED
  BY <1>0, <1>2, <1>4, <1>5 DEF InvokedStep

LEMMA InitRefines == Init => Commitment!Init
<1> SUFFICES ASSUME Init PROVE Commitment!Init
  OBVIOUS
<1>1. Decision = [t \in Tx |-> "none"]
  BY DEF Init, ExecInit, Decision, DecisionIn
<1>2. \A s \in Contract, t \in Tx : ~Updated(s, t)
  BY ManifestAssumption
     DEF Init, InvokedInit, Updated, AlreadyProcessed, ManifestAssumption
<1> QED
  BY <1>1, <1>2 DEF Effect, Commitment!Init

(* The protocol implements atomic commitment: a transaction is decided     *)
(* once per attempt, takes effect on a contract once and only under the    *)
(* decision to commit, and is done only when it took effect everywhere.    *)
THEOREM Implements == Spec => Refinement
<1>1. IInv /\ IInv' /\ [Next]_vars => [Commitment!Next]_<<Decision, Effect>>
  <2> SUFFICES ASSUME IInv, IInv', [Next]_vars
               PROVE  Commitment!Next \/ UNCHANGED <<Decision, Effect>>
    OBVIOUS
  <2>1. ASSUME UNCHANGED <<phase, processed>> PROVE UNCHANGED <<Decision, Effect>>
    BY <2>1 DEF Decision, Effect, Updated, AlreadyProcessed
  <2>2. QuietStep \/ (\E t \in Tx, s \in Contract : HandleUpdateAck(t, s))
          => UNCHANGED <<phase, processed>>
    BY DEF QuietStep, HandleUpdateAck, invokedVars, execVars
  <2> QED
    BY <2>1, <2>2, StepCases, ExecutionStepRefines, InvokedStepRefines DEF IInv
<1> QED
  BY InitRefines, Invariant, <1>1, PTL
     DEF Spec, Refinement, Commitment!Spec, Commitment!vars

-----------------------------------------------------------------------------
(* The sums: the fees, the lock pools' totals, the rooms.  First the fees. *)

FeesUnchanged == UNCHANGED feeVars

(* What a step does to the fees: a request adds one, the last acknowledgment*)
(* moves one to the relayer, the relayer takes what is due to it.          *)
LEMMA FeeSteps ==
  ASSUME TypeOK, [Next]_vars
  PROVE  \/ FeesUnchanged
         \/ \E t \in Tx : /\ collectedFees' = [collectedFees EXCEPT ![t] = Fee]
                          /\ balance' = balance + Fee /\ pendingFees' = pendingFees
         \/ \E t \in Tx : CreditFee(t) /\ balance' = balance
         \/ WithdrawFee
<1>1. ASSUME NEW t \in Tx, ExecutionStep(t)
      PROVE  \/ FeesUnchanged
             \/ /\ collectedFees' = [collectedFees EXCEPT ![t] = Fee]
                /\ balance' = balance + Fee /\ pendingFees' = pendingFees
             \/ CreditFee(t) /\ balance' = balance
  <2>1. CASE RequestLockStates(t)
    BY <2>1 DEF RequestLockStates
  <2>2. CASE Decides(t)
    BY <2>2 DEF Decides, DecideCommit, AbortExecution, FeesUnchanged
  <2>3. CASE \E data \in Payload : RequestUpdate(t, data)
    BY <2>3 DEF RequestUpdate, FeesUnchanged
  <2>4. CASE \E key \in TargetKeys : RecordUpdateAckAndMaybeComplete(t, key)
    BY <2>4 DEF RecordUpdateAckAndMaybeComplete, FeesUnchanged, feeVars
  <2>5. QED
    BY <1>1, <2>1, <2>2, <2>3, <2>4 DEF ExecutionStep
<1>2. CASE Withdraws
  BY <1>2 DEF Withdraws
<1>3. CASE ~Withdraws
  <2>1. \/ \E t \in Tx : ExecutionStep(t)
        \/ FeesUnchanged
    <3>1. ASSUME NEW t \in Tx,
                 \/ Starts(t) \/ TimesOut(t) \/ InitiatorExecutes(t) \/ RelayerExecutes(t)
          PROVE  ExecutionStep(t)
      BY <3>1, ExecutionDecides DEF Starts, ExecutionStep
    <3>2. ASSUME NEW t \in Tx, InitiatorRequestsUpdate(t) PROVE FeesUnchanged
      BY <3>2 DEF InitiatorRequestsUpdate, RequestUpdate, FeesUnchanged
    <3>3. ASSUME NEW t \in Tx, NEW key \in TargetKeys, RelayerRecordsAck(t, key)
          PROVE  ExecutionStep(t)
      BY <3>3 DEF RelayerRecordsAck, ExecutionStep
    <3>4. ASSUME Block PROVE FeesUnchanged
      BY <3>4 DEF Block, MineBlock, FeesUnchanged
    <3>5. ASSUME UNCHANGED execVars PROVE FeesUnchanged
      BY <3>5 DEF execVars, FeesUnchanged
    <3>6. QED
      BY <1>3, <3>1, <3>2, <3>3, <3>4, <3>5
         DEF Next, vars, DeliverLock, DeliverUpdate, DeliverRollback, HandleLockResponse,
             HandleUpdateAck, RelayerRestart, ThirdPartyUnlocks, LocalCustomer
  <2>2. QED
    BY <1>1, <2>1
<1>4. QED
  BY <1>2, <1>3

(* The bridge can always pay: no order of requests, aborted attempts,      *)
(* completions and withdrawals leaves it with less than it owes.           *)
THEOREM FeesAreCovered == Spec => []FeeSolvency
<1>0. IsFiniteSet(Tx) /\ Fee \in Nat
  BY ManifestAssumption, ExecutionBridgeAssumption
     DEF ManifestAssumption, ExecutionBridgeAssumption
<1>1. ASSUME Init PROVE FeeSolvency
  <2>1. SumFunction(collectedFees) = 0
    BY <1>0, <1>1, FunctionSumOfZeros DEF Init, ExecInit
  <2>2. QED
    BY <1>1, <2>1 DEF Init, ExecInit, FeeSolvency
<1>2. ASSUME FeeSolvency, TypeOK, TypeOK', [Next]_vars PROVE FeeSolvency'
  <2> DEFINE due == SumFunction(collectedFees)
  <2>1. /\ collectedFees \in [Tx -> Nat] /\ collectedFees' \in [Tx -> Nat]
        /\ pendingFees \in Nat /\ balance \in Nat
    BY <1>2 DEF TypeOK, ExecTypeOK
  <2>2. due \in Nat /\ due' \in Nat
    BY <1>0, <2>1, FunctionSumIsNat
  <2>3. ASSUME NEW t \in Tx, \A u \in Tx \ {t} : collectedFees'[u] = collectedFees[u]
        PROVE  due' = due - collectedFees[t] + collectedFees'[t]
    BY <1>0, <2>1, <2>3, FunctionSumChange
  <2>4. CASE FeesUnchanged
    BY <1>2, <2>4 DEF FeesUnchanged, feeVars, FeeSolvency
  <2>5. ASSUME NEW t \in Tx, collectedFees' = [collectedFees EXCEPT ![t] = Fee],
               balance' = balance + Fee, pendingFees' = pendingFees
        PROVE  FeeSolvency'
    <3>1. due' = due - collectedFees[t] + Fee
      BY <2>1, <2>3, <2>5
    <3> HIDE DEF due
    <3>2. balance >= pendingFees + due
      BY <1>2 DEF FeeSolvency, due
    <3>3. balance' >= pendingFees' + due'
      BY <1>0, <2>1, <2>2, <2>5, <3>1, <3>2
    <3>4. QED
      BY <3>3 DEF FeeSolvency, due
  <2>6. ASSUME NEW t \in Tx, CreditFee(t), balance' = balance
        PROVE  FeeSolvency'
    <3>0. collectedFees' = [collectedFees EXCEPT ![t] = 0]
      BY <2>6 DEF CreditFee
    <3>1. due' = due - collectedFees[t] + 0
      BY <2>1, <2>3, <3>0
    <3> HIDE DEF due
    <3>2. balance >= pendingFees + due
      BY <1>2 DEF FeeSolvency, due
    <3>3. balance' >= pendingFees' + due'
      BY <2>1, <2>2, <2>6, <3>1, <3>2 DEF CreditFee
    <3>4. QED
      BY <3>3 DEF FeeSolvency, due
  <2>7. CASE WithdrawFee
    BY <1>2, <2>1, <2>2, <2>7 DEF WithdrawFee, FeeSolvency
  <2>8. QED
    BY <1>2, <2>4, <2>5, <2>6, <2>7, FeeSteps
<1>3. QED
  BY <1>1, <1>2, TypeCorrect, PTL DEF Spec
-----------------------------------------------------------------------------
(* The lock pools.                                                         *)

BagsIn(b) == {t \in Tx : b[t] > 0}

(* One pool when a bag is filled, and when one is emptied.                 *)
LEMMA BagFilled ==
  ASSUME NEW b \in [Tx -> Nat], NEW t \in Tx, b[t] = 0, NEW n \in Nat, n > 0
  PROVE  LET after == [b EXCEPT ![t] = n]
         IN /\ SumFunction(after) = SumFunction(b) + n
            /\ Cardinality(BagsIn(after)) = Cardinality(BagsIn(b)) + 1
<1> DEFINE after == [b EXCEPT ![t] = n]
<1>0. IsFiniteSet(Tx)
  BY ManifestAssumption DEF ManifestAssumption
<1>1. after \in [Tx -> Nat] /\ after[t] = n /\ \A u \in Tx \ {t} : after[u] = b[u]
  OBVIOUS
<1>2. SumFunction(b) \in Nat
  BY <1>0, FunctionSumIsNat
<1> HIDE DEF after
<1>3. SumFunction(after) = SumFunction(b) - b[t] + after[t]
  BY <1>0, <1>1, FunctionSumChange
<1>4. BagsIn(after) = BagsIn(b) \cup {t} /\ t \notin BagsIn(b)
  BY <1>1 DEF BagsIn
<1>5. Cardinality(BagsIn(after)) = Cardinality(BagsIn(b)) + 1
  <2>1. IsFiniteSet(BagsIn(b))
    BY <1>0, FS_Subset DEF BagsIn
  <2>2. QED
    BY <1>4, <2>1, FS_AddElement
<1>6. QED
  BY <1>1, <1>2, <1>3, <1>5 DEF after

LEMMA BagEmptied ==
  ASSUME NEW b \in [Tx -> Nat], NEW t \in Tx, b[t] > 0
  PROVE  LET after == [b EXCEPT ![t] = 0]
         IN /\ SumFunction(after) = SumFunction(b) - b[t]
            /\ Cardinality(BagsIn(after)) = Cardinality(BagsIn(b)) - 1
<1> DEFINE after == [b EXCEPT ![t] = 0]
<1>0. IsFiniteSet(Tx)
  BY ManifestAssumption DEF ManifestAssumption
<1>1. after \in [Tx -> Nat] /\ after[t] = 0 /\ \A u \in Tx \ {t} : after[u] = b[u]
  OBVIOUS
<1>2. SumFunction(b) \in Nat
  BY <1>0, FunctionSumIsNat
<1> HIDE DEF after
<1>3. SumFunction(after) = SumFunction(b) - b[t] + after[t]
  BY <1>0, <1>1, FunctionSumChange
<1>4. BagsIn(after) = BagsIn(b) \ {t} /\ t \in BagsIn(b)
  BY <1>1 DEF BagsIn
<1>5. Cardinality(BagsIn(after)) = Cardinality(BagsIn(b)) - 1
  <2>1. IsFiniteSet(BagsIn(b))
    BY <1>0, FS_Subset DEF BagsIn
  <2>2. QED
    BY <1>4, <2>1, FS_RemoveElement
<1>6. QED
  BY <1>1, <1>2, <1>3, <1>5 DEF after

(* The pools of several contracts at once, as the bridge changes them.     *)
PoolExact(s) ==
  lockedTotal[s] = SumFunction(bag[s]) /\ bagCount[s] = Cardinality(BagsIn(bag[s]))

LEMMA LockingKeepsAccount ==
  ASSUME TypeOK, LockAccounting, NEW S \in SUBSET Contract, NEW t \in Tx,
         \A s \in S : CanLock(s, t), LockBags(S, t)
  PROVE  LockAccounting'
<1>1. \A s \in Contract : bag[s] \in [Tx -> Nat]
  BY DEF TypeOK, InvokedTypeOK, StateTypeOK
<1>2. ASSUME NEW s \in Contract PROVE PoolExact(s)'
  <2>0. PoolExact(s)
    BY DEF LockAccounting, PoolExact, BagsIn
  <2>1. CASE s \in S
    <3>1. LockAmount(s) \in Nat /\ LockAmount(s) > 0 /\ bag[s][t] = 0
      BY <2>1, ManifestAssumption, StateContractsAssumption
         DEF CanLock, LockAmount, ManifestAssumption, StateContractsAssumption
    <3>2. /\ bag'[s] = [bag[s] EXCEPT ![t] = LockAmount(s)]
          /\ lockedTotal'[s] = lockedTotal[s] + LockAmount(s)
          /\ bagCount'[s] = bagCount[s] + 1
      BY <2>1 DEF LockBags
    <3>3. QED
      BY <1>1, <2>0, <3>1, <3>2, BagFilled DEF PoolExact
  <2>2. CASE s \notin S
    <3>1. lockedTotal[s] \in Nat /\ bagCount[s] \in Nat
      BY DEF TypeOK, InvokedTypeOK, StateTypeOK
    <3>2. bag'[s] = bag[s] /\ lockedTotal'[s] = lockedTotal[s] /\ bagCount'[s] = bagCount[s]
      BY <2>2, <3>1 DEF LockBags
    <3>3. QED
      BY <2>0, <3>2 DEF PoolExact
  <2>3. QED
    BY <2>1, <2>2
<1>3. QED
  BY <1>2 DEF LockAccounting, PoolExact, BagsIn

LEMMA UnlockingKeepsAccount ==
  ASSUME TypeOK, LockAccounting, NEW S \in SUBSET Contract, NEW t \in Tx,
         \A s \in S : CanUnlock(s, t), UnlockBags(S, t)
  PROVE  LockAccounting'
<1>1. \A s \in Contract : bag[s] \in [Tx -> Nat]
  BY DEF TypeOK, InvokedTypeOK, StateTypeOK
<1>2. ASSUME NEW s \in Contract PROVE PoolExact(s)'
  <2>0. PoolExact(s)
    BY DEF LockAccounting, PoolExact, BagsIn
  <2>1. CASE s \in S
    <3>1. /\ bag'[s] = [bag[s] EXCEPT ![t] = 0]
          /\ lockedTotal'[s] = lockedTotal[s] - bag[s][t]
          /\ bagCount'[s] = bagCount[s] - 1
          /\ bag[s][t] > 0
      BY <2>1 DEF UnlockBags, CanUnlock
    <3>2. QED
      BY <1>1, <2>0, <3>1, BagEmptied DEF PoolExact
  <2>2. CASE s \notin S
    <3>1. lockedTotal[s] \in Nat /\ bagCount[s] \in Nat
      BY DEF TypeOK, InvokedTypeOK, StateTypeOK
    <3>2. bag'[s] = bag[s] /\ lockedTotal'[s] = lockedTotal[s] /\ bagCount'[s] = bagCount[s]
      BY <2>2, <3>1 DEF UnlockBags
    <3>3. QED
      BY <2>0, <3>2 DEF PoolExact
  <2>3. QED
    BY <2>1, <2>2
<1>3. QED
  BY <1>2 DEF LockAccounting, PoolExact, BagsIn

(* The pool of every contract counts its bags exactly, whatever the order  *)
(* in which locks, updates, rollbacks and third-party unlocks reach it.    *)
THEOREM PoolsAreExact == Spec => []LockAccounting
<1>1. ASSUME Init PROVE LockAccounting
  <2>1. ASSUME NEW s \in Contract
        PROVE  SumFunction(bag[s]) = 0 /\ {t \in Tx : bag[s][t] > 0} = {}
    BY <1>1, ManifestAssumption, FunctionSumOfZeros
       DEF Init, InvokedInit, StateInit, ManifestAssumption
  <2>2. QED
    BY <1>1, <2>1, FS_EmptySet DEF Init, InvokedInit, StateInit, LockAccounting
<1>2. ASSUME LockAccounting, TypeOK, [Next]_vars PROVE LockAccounting'
  <2>0. ASSUME UNCHANGED poolVars PROVE LockAccounting'
    BY <1>2, <2>0 DEF poolVars, LockAccounting
  <2>1. ASSUME NEW c \in Chain, NEW t \in Tx, ReceiveLockRequest(c, t)
        PROVE  LockAccounting'
    <3>1. CASE LockWholeBatch(c, t)
      BY <1>2, <3>1, LockingKeepsAccount DEF LockWholeBatch, Members
    <3>2. QED
      BY <2>0, <2>1, <3>1 DEF ReceiveLockRequest, LockStopsAt
  <2>2. ASSUME NEW c \in Chain, NEW t \in Tx, ReceiveRollbackRequest(c, t)
        PROVE  LockAccounting'
    BY <1>2, <2>2, UnlockingKeepsAccount DEF ReceiveRollbackRequest, Released, Members
  <2>3. ASSUME NEW c \in Chain, NEW m \in updateRequested,
               ReceiveUpdateRequest(c, m.tx, m.data)
        PROVE  LockAccounting'
    <3>1. m.tx \in Tx
      BY <1>2 DEF TypeOK, ExecTypeOK
    <3>2. QED
      BY <1>2, <2>3, <3>1, UnlockingKeepsAccount
         DEF ReceiveUpdateRequest, UpdateStates, Members
  <2>4. ASSUME NEW s \in Contract, NEW t \in Tx, RetryUnlock(s, t)
        PROVE  LockAccounting'
    BY <1>2, <2>4, UnlockingKeepsAccount DEF RetryUnlock
  <2>5. ASSUME NEW s \in Contract, BookRoom(s) PROVE LockAccounting'
    BY <2>0, <2>5 DEF BookRoom, BookLocal
  <2>6. InvokedStep \/ UNCHANGED poolVars
    BY <1>2, StepCases DEF HandleUpdateAck, QuietStep, invokedVars, stateVars
  <2>7. QED
    BY <2>0, <2>1, <2>2, <2>3, <2>4, <2>5, <2>6 DEF InvokedStep
<1>3. QED
  BY <1>1, <1>2, TypeCorrect, PTL DEF Spec
-----------------------------------------------------------------------------
(* The rooms, when executions take the logic path: RootResults is empty,   *)
(* since the call tree writes one number to every contract, unrelated to   *)
(* what the contract had left.                                             *)

(* What the logic computes comes from answers of the contracts.            *)
LEMMA UpdatesComeFromAnswers ==
  ASSUME TypeOK, [Next]_vars, RootResults = {}
  PROVE  \A m \in updateRequested' \ updateRequested :
           \E locked \in Answers(m.tx) :
             LogicSucceeds(locked) /\ m.data = NewRemain(locked)
<1> DEFINE Computed(m) == \E locked \in Answers(m.tx) :
                            LogicSucceeds(locked) /\ m.data = NewRemain(locked)
           New == updateRequested' \ updateRequested
<1>1. ASSUME NEW t \in Tx, NEW locked \in Answers(t), LogicSucceeds(locked),
             updateRequested' = updateRequested \cup {[tx |-> t, data |-> NewRemain(locked)]}
      PROVE  \A m \in New : Computed(m)
  BY <1>1
<1>2. ASSUME UNCHANGED updateRequested PROVE New = {}
  BY <1>2
<1>3. ASSUME NEW t \in Tx, InitiatorExecutes(t) PROVE \A m \in New : Computed(m)
  <2>1. ASSUME NEW locked \in Answers(t), ExecuteIntegratedLogic(t, locked)
        PROVE  \A m \in New : Computed(m)
    <3>1. CASE LogicSucceeds(locked)
      BY <1>1, <2>1, <3>1 DEF ExecuteIntegratedLogic, DecideCommit
    <3>2. CASE AbortExecution(t)
      BY <1>2, <3>2 DEF AbortExecution
    <3>3. QED
      BY <2>1, <3>1, <3>2 DEF ExecuteIntegratedLogic
  <2>2. CASE AbortExecution(t)
    BY <1>2, <2>2 DEF AbortExecution
  <2>3. QED
    BY <1>3, <2>1, <2>2
       DEF InitiatorExecutes, ExecuteIntegratedLogicWithProofs, CallTreeFails
<1>4. ASSUME NEW t \in Tx, InitiatorRequestsUpdate(t) PROVE \A m \in New : Computed(m)
  BY <1>1, <1>4 DEF InitiatorRequestsUpdate, RequestUpdate
<1>5. CASE \A t \in Tx : ~InitiatorExecutes(t) /\ ~InitiatorRequestsUpdate(t)
  <2>1. UNCHANGED updateRequested
    BY <1>5 DEF Next, vars, execVars, Starts, RequestLockStates, TimesOut,
         TimeoutExecution, AbortExecution, RelayerExecutes, CallTreeFails,
         RelayerRecordsAck, RecordUpdateAckAndMaybeComplete, DeliverLock,
         DeliverUpdate, DeliverRollback, HandleLockResponse, HandleUpdateAck,
         RelayerRestart, ThirdPartyUnlocks, LocalCustomer, Withdraws, WithdrawFee,
         Block, MineBlock
  <2>2. QED
    BY <1>2, <2>1
<1>6. QED
  BY <1>3, <1>4, <1>5

Sold(s) == SumFunction(bookings[s]) + localBooked[s]

(* Answers give the rooms left when they were locked, updates take that    *)
(* number less the booking: rooms no longer counted as left are booked.    *)
THEOREM RoomsAreNeverLost ==
  ASSUME RootResults = {}
  PROVE  Spec => []RoomsNeverLost
<1>0. /\ IsFiniteSet(Tx) /\ ChainOf \in [Contract -> Chain]
      /\ \A s \in Contract : Num[s] \in Nat /\ Rooms[s] \in Nat
      /\ \A s \in Contract : LocalBookings[s] \subseteq Nat
  BY ManifestAssumption, StateContractsAssumption
     DEF ManifestAssumption, StateContractsAssumption
<1>1. ASSUME Init PROVE RoomsNeverLost
  <2>1. ASSUME NEW s \in Contract PROVE Counted(s, remain[s])
    <3>1. bookings[s] = [t \in Tx |-> 0] /\ remain[s] = Rooms[s] /\ localBooked[s] = 0
      BY <1>1 DEF Init, InvokedInit, StateInit
    <3>2. SumFunction(bookings[s]) = 0
      BY <1>0, <3>1, FunctionSumOfZeros
    <3>3. QED
      BY <1>0, <3>1, <3>2 DEF Counted
  <2>2. QED
    BY <1>1, <2>1 DEF Init, ExecInit, InvokedInit, RoomsNeverLost
<1>2. ASSUME RoomsNeverLost, TypeOK, TypeOK', [Next]_vars PROVE RoomsNeverLost'
  <2>1. \A s \in Contract : /\ bookings[s] \in [Tx -> Nat] /\ bookings'[s] \in [Tx -> Nat]
                            /\ localBooked[s] \in Nat /\ localBooked'[s] \in Nat
                            /\ remain[s] \in Nat /\ remain'[s] \in Nat
    BY <1>2 DEF TypeOK, InvokedTypeOK, StateTypeOK
  <2>2. \A s \in Contract : /\ SumFunction(bookings[s]) \in Nat
                            /\ SumFunction(bookings'[s]) \in Nat
    BY <1>0, <2>1, FunctionSumIsNat
  <2>3. ASSUME NEW s \in Contract, NEW n \in Int, Counted(s, n), Sold(s)' >= Sold(s)
        PROVE  Counted(s, n)'
    BY <1>0, <2>1, <2>2, <2>3 DEF Counted, Sold
  (* Nothing that was booked is given back, and what leaves the rooms left *)
  (* is booked.                                                            *)
  <2>4. \A s \in Contract :
          /\ Sold(s)' >= Sold(s)
          /\ Counted(s, remain[s])'
    <3>1. ASSUME NEW s \in Contract, UNCHANGED <<remain, bookings, localBooked>>
          PROVE  /\ Sold(s)' >= Sold(s)
                 /\ Counted(s, remain[s])'
      BY <1>2, <2>1, <2>2, <3>1 DEF Counted, Sold, RoomsNeverLost
    <3>2. ASSUME NEW c \in Chain, NEW m \in updateRequested,
                 ReceiveUpdateRequest(c, m.tx, m.data), NEW s \in Contract
          PROVE  /\ Sold(s)' >= Sold(s)
                 /\ Counted(s, remain[s])'
      <4>1. m.tx \in Tx /\ m.data[s] \in Nat
        BY <1>2 DEF TypeOK, ExecTypeOK, Payload
      <4>2. CASE s \in Members(c)
        <5>1. /\ bookings'[s] = [bookings[s] EXCEPT ![m.tx] = @ + Num[s]]
              /\ remain'[s] = m.data[s] /\ localBooked' = localBooked
          BY <3>2, <4>2 DEF ReceiveUpdateRequest, UpdateStates
        <5>2. /\ bookings'[s][m.tx] = bookings[s][m.tx] + Num[s]
              /\ \A u \in Tx \ {m.tx} : bookings'[s][u] = bookings[s][u]
          BY <2>1, <4>1, <5>1
        <5>3. SumFunction(bookings'[s])
                = SumFunction(bookings[s]) - bookings[s][m.tx] + bookings'[s][m.tx]
          BY <1>0, <2>1, <4>1, <5>2, FunctionSumChange
        <5>4. SumFunction(bookings'[s]) = SumFunction(bookings[s]) + Num[s]
          BY <1>0, <2>1, <2>2, <4>1, <5>2, <5>3
        <5>5. Counted(s, m.data[s] + Num[s])
          BY <1>2 DEF RoomsNeverLost
        <5>6. QED
          BY <1>0, <2>1, <2>2, <4>1, <5>1, <5>4, <5>5 DEF Counted, Sold
      <4>3. CASE s \notin Members(c)
        <5>1. /\ bookings'[s] = bookings[s] /\ remain'[s] = remain[s]
              /\ localBooked' = localBooked
          BY <3>2, <4>3 DEF ReceiveUpdateRequest, UpdateStates
        <5>2. QED
          BY <1>2, <2>1, <2>2, <5>1 DEF Counted, Sold, RoomsNeverLost
      <4>4. QED
        BY <4>2, <4>3
    <3>3. ASSUME NEW r \in Contract, BookRoom(r), NEW s \in Contract
          PROVE  /\ Sold(s)' >= Sold(s)
                 /\ Counted(s, remain[s])'
      <4>1. PICK n \in LocalBookings[r] : BookLocal(r, n)
        BY <3>3 DEF BookRoom
      <4>2. n \in Nat
        BY <1>0
      <4>3. Counted(s, remain[s]) /\ lockedTotal[r] \in Nat
        BY <1>2 DEF RoomsNeverLost, TypeOK, InvokedTypeOK, StateTypeOK
      <4>4. bookings' = bookings
        BY <4>1 DEF BookLocal
      <4>5. \/ remain'[s] = remain[s] /\ localBooked'[s] = localBooked[s]
            \/ remain'[s] = remain[s] - n /\ localBooked'[s] = localBooked[s] + n
        BY <1>2, <2>1, <4>1, <4>2, <4>3
           DEF BookLocal, Available, TypeOK, InvokedTypeOK, StateTypeOK
      <4>6. QED
        BY <1>0, <2>1, <2>2, <4>2, <4>3, <4>4, <4>5 DEF Counted, Sold
    <3>4. \/ UNCHANGED <<remain, bookings, localBooked>>
          \/ \E c \in Chain, m \in updateRequested : ReceiveUpdateRequest(c, m.tx, m.data)
          \/ \E r \in Contract : BookRoom(r)
      BY <1>2, StepCases
         DEF InvokedStep, ReceiveLockRequest, ReceiveRollbackRequest, RetryUnlock,
             HandleUpdateAck, QuietStep, invokedVars, stateVars
    <3>5. QED
      BY <3>1, <3>2, <3>3, <3>4
  <2>5. \A r \in lockResponse' : r.ok => Counted(r.con, r.remain)'
    <3>1. ASSUME NEW r \in lockResponse, r.ok PROVE Counted(r.con, r.remain)'
      <4>1. r.con \in Contract /\ r.remain \in Int /\ Counted(r.con, r.remain)
        BY <1>2, <3>1 DEF RoomsNeverLost, TypeOK, InvokedTypeOK, LockResponse
      <4>2. QED
        BY <2>3, <2>4, <4>1
    <3>2. ASSUME NEW r \in lockResponse' \ lockResponse, r.ok
          PROVE  r.con \in Contract /\ r.remain = remain'[r.con]
      <4>1. \E c \in Chain, t \in Tx : ReceiveLockRequest(c, t)
        BY <1>2, <3>2, StepCases
           DEF InvokedStep, ReceiveUpdateRequest, ReceiveRollbackRequest, RetryUnlock,
               BookRoom, HandleUpdateAck, QuietStep, invokedVars
      <4>2. PICK c \in Chain, t \in Tx : ReceiveLockRequest(c, t)
        BY <4>1
      <4>3. remain' = remain
        BY <4>2 DEF ReceiveLockRequest
      <4>4. \/ \E s \in Contract : r = Locked(s, t)
            \/ \E s \in Contract : r = LockFailed(s, t)
        <5>1. CASE LockWholeBatch(c, t)
          BY <3>2, <5>1 DEF LockWholeBatch, Members
        <5>2. ASSUME NEW k \in DOMAIN Batch[c], LockStopsAt(c, t, k)
              PROVE  \/ \E s \in Contract : r = Locked(s, t)
                     \/ \E s \in Contract : r = LockFailed(s, t)
          BY <3>2, <5>2, BatchOrder DEF LockStopsAt
        <5>3. QED
          BY <4>2, <5>1, <5>2 DEF ReceiveLockRequest
      <4>5. QED
        BY <3>2, <4>3, <4>4 DEF Locked, LockFailed
    <3>3. QED
      BY <2>4, <3>1, <3>2
  <2>6. \A m \in updateRequested', s \in Contract : Counted(s, m.data[s] + Num[s])'
    <3>1. ASSUME NEW m \in updateRequested', NEW s \in Contract
          PROVE  m.data[s] + Num[s] \in Int /\ Counted(s, m.data[s] + Num[s])
      <4>1. m.data[s] \in Nat /\ m.tx \in Tx
        BY <1>2 DEF TypeOK, ExecTypeOK, Payload
      <4>2. CASE m \in updateRequested
        BY <1>0, <1>2, <4>1, <4>2 DEF RoomsNeverLost
      <4>3. CASE m \notin updateRequested
        <5>1. PICK locked \in Answers(m.tx) :
                LogicSucceeds(locked) /\ m.data = NewRemain(locked)
          BY <1>2, <3>1, <4>3, UpdatesComeFromAnswers
        <5>2. locked[s] \in lockResponse /\ locked[s].con = s /\ locked[s].ok
          BY <5>1 DEF Answers, LogicSucceeds
        <5>3. locked[s].remain \in Nat
          BY <1>2, <5>2 DEF TypeOK, InvokedTypeOK, LockResponse
        <5>4. m.data[s] + Num[s] = locked[s].remain
          BY <1>0, <5>1, <5>3 DEF NewRemain
        <5>5. QED
          BY <1>0, <1>2, <4>1, <5>2, <5>4 DEF RoomsNeverLost
      <4>4. QED
        BY <4>2, <4>3
    <3>2. ASSUME NEW m \in updateRequested', NEW s \in Contract
          PROVE  Counted(s, m.data[s] + Num[s])'
      <4> DEFINE n == m.data[s] + Num[s]
      <4>1. n \in Int /\ Counted(s, n)
        BY <3>1
      <4>2. Counted(s, n)'
        BY <2>3, <2>4, <4>1
      <4>3. QED
        BY <4>2
    <3>3. QED
      BY <3>2
  <2>7. QED
    BY <2>4, <2>5, <2>6 DEF RoomsNeverLost
<1>3. QED
  BY <1>1, <1>2, TypeCorrect, PTL DEF Spec
=============================================================================
