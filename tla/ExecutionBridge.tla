-------------------------- MODULE ExecutionBridge --------------------------
(***************************************************************************)
(* XBridgingContract as it runs on the execution chain (bc1): the record   *)
(* of each cross-chain execution, the decision to commit or abort, the     *)
(* acknowledgments that complete it, and the fee.                          *)
(*                                                                         *)
(* An execution covers the contracts of the manifest.  A transaction id may *)
(* be requested again once its record is inactive: requestLockStates only  *)
(* refuses an active one.  The phase RolledBack is absent, no function     *)
(* assigns it, and so is completeExecution: the acknowledgment that would  *)
(* enable it already completes the record (AcksBelowThreshold in XSmart).  *)
(***************************************************************************)
EXTENDS Manifest

CONSTANTS
  Fee,           \* crossChainFee, paid in full by every initiator
  DappTimeout,   \* timeout asked for, in blocks
  BridgeTimeout, \* bridgeTimeoutBlocks
  MaxAttempts    \* bound: how often a transaction id is requested

ASSUME ExecutionBridgeAssumption ==
  /\ Fee \in Nat /\ DappTimeout \in Nat /\ BridgeTimeout \in Nat
  /\ MaxAttempts \in Nat

VARIABLES
  phase,              \* exec.phase
  active,             \* exec.active
  elapsed,            \* block.number - exec.startBlock, up to EffectiveTimeout + 1
  attempts,           \* requests so far (the bound, not a variable of the code)
  ackCount,           \* exec.updateAckCount
  ackRecorded,        \* updateAckRecorded: never cleared
  updateHash,         \* updateRequestHashes: {} is the zero hash, else {payload}
  collectedFees,      \* fee held for an execution
  pendingFees,        \* pendingWithdrawals of the relayer account
  balance,            \* ether held by the bridge
  lockRequested,      \* CrossChainLockRequested events
  updateRequested,    \* updates asked for: CrossChainUpdateRequested and the
                      \* root CallTreeNodeExecuted, as [tx, data]
  rollbackRequested   \* CrossChainRollback events

feeVars == <<collectedFees, pendingFees, balance>>
execVars == <<phase, active, elapsed, attempts, ackCount, ackRecorded, updateHash,
              feeVars, lockRequested, updateRequested, rollbackRequested>>

Phase == {"None", "Requested", "CommitDecided", "AbortDecided", "Completed"}
Payload == [Contract -> Nat]

ExecTypeOK ==
  /\ phase \in [Tx -> Phase]
  /\ active \in [Tx -> BOOLEAN]
  /\ elapsed \in [Tx -> Nat]
  /\ attempts \in [Tx -> Nat]
  /\ ackCount \in [Tx -> Nat]
  /\ ackRecorded \in [Tx -> SUBSET TargetKeys]
  /\ updateHash \in [Tx -> SUBSET Payload]
  /\ collectedFees \in [Tx -> Nat]
  /\ pendingFees \in Nat
  /\ balance \in Nat
  /\ lockRequested \subseteq Tx
  /\ updateRequested \subseteq [tx : Tx, data : Payload]
  /\ rollbackRequested \subseteq Tx

ExecInit ==
  /\ phase = [t \in Tx |-> "None"]
  /\ active = [t \in Tx |-> FALSE]
  /\ elapsed = [t \in Tx |-> 0]
  /\ attempts = [t \in Tx |-> 0]
  /\ ackCount = [t \in Tx |-> 0]
  /\ ackRecorded = [t \in Tx |-> {}]
  /\ updateHash = [t \in Tx |-> {}]
  /\ collectedFees = [t \in Tx |-> 0]
  /\ pendingFees = 0
  /\ balance = 0
  /\ lockRequested = {}
  /\ updateRequested = {}
  /\ rollbackRequested = {}
-----------------------------------------------------------------------------
EffectiveTimeout == IF DappTimeout < BridgeTimeout THEN DappTimeout ELSE BridgeTimeout

InAnyPhase(t, p) == active[t]   \* mutant of InPhase: the phase is not checked
InPhase(t, p) == active[t] /\ phase[t] = p

(* A new record replaces the old one.  updateAckRecorded is not reset, and *)
(* the fee of an aborted attempt stays in the balance without an owner.    *)
RequestLockStates(t) ==
  /\ attempts[t] < MaxAttempts
  /\ ~active[t]
  /\ active' = [active EXCEPT ![t] = TRUE]
  /\ phase' = [phase EXCEPT ![t] = "Requested"]
  /\ elapsed' = [elapsed EXCEPT ![t] = 0]
  /\ attempts' = [attempts EXCEPT ![t] = @ + 1]
  /\ ackCount' = [ackCount EXCEPT ![t] = 0]
  /\ updateHash' = [updateHash EXCEPT ![t] = {}]
  /\ collectedFees' = [collectedFees EXCEPT ![t] = Fee]
  /\ balance' = balance + Fee
  /\ lockRequested' = lockRequested \cup {t}
  /\ UNCHANGED <<ackRecorded, pendingFees, updateRequested, rollbackRequested>>

(* _decideCommit, with the update payload handed to the relayers.  Only    *)
(* the logic path binds the payload to the record (hash).                  *)
DecideCommit(t, data, hash) ==
  /\ InPhase(t, "Requested")
  /\ phase' = [phase EXCEPT ![t] = "CommitDecided"]
  /\ updateHash' = [updateHash EXCEPT ![t] = hash]
  /\ updateRequested' = updateRequested \cup {[tx |-> t, data |-> data]}
  /\ UNCHANGED <<active, elapsed, attempts, ackCount, ackRecorded, feeVars,
                 lockRequested, rollbackRequested>>

(* _abortExecution: the record becomes inactive and relayers are told.     *)
AbortExecution(t) ==
  /\ InPhase(t, "Requested")
  /\ active' = [active EXCEPT ![t] = FALSE]
  /\ phase' = [phase EXCEPT ![t] = "AbortDecided"]
  /\ rollbackRequested' = rollbackRequested \cup {t}
  /\ UNCHANGED <<elapsed, attempts, ackCount, ackRecorded, updateHash, feeVars,
                 lockRequested, updateRequested>>

(* The cloned logic books Num[s] rooms in the locked state of every        *)
(* contract (LHotel.book).  It reverts on an empty answer or on too few    *)
(* rooms, and the bridge then aborts.                                      *)
LogicSucceeds(locked) ==
  \A s \in Contract : locked[s].ok /\ locked[s].remain >= Num[s]

NewRemain(locked) == [s \in Contract |-> locked[s].remain - Num[s]]

ExecuteIntegratedLogic(t, locked) ==
  \/ /\ LogicSucceeds(locked)
     /\ DecideCommit(t, NewRemain(locked), {NewRemain(locked)})
  \/ ~LogicSucceeds(locked) /\ AbortExecution(t)

(* The same, after the proof adapter accepted a proof of every state: an   *)
(* answer that carries no state has none, so the call reverts.             *)
ExecuteIntegratedLogicWithProofs(t, locked) ==
  /\ \A s \in Contract : locked[s].ok
  /\ ExecuteIntegratedLogic(t, locked)

(* executeIntegratedCallTree: a translation that does not verify or a node *)
(* that reverts aborts; otherwise the root's result, one number, is what   *)
(* relayers write to every target.  No update hash is recorded.            *)
CallTreeCommits(t, result) ==
  DecideCommit(t, [s \in Contract |-> result], updateHash[t])

CallTreeFails(t) == AbortExecution(t)

\* Mutant of RequestUpdate: before the decision as well as after it.
RequestUpdateWhileActive(t, data) ==
  /\ active[t]
  /\ updateHash[t] \subseteq {data}
  /\ updateHash' = [updateHash EXCEPT ![t] = {data}]
  /\ updateRequested' = updateRequested \cup {[tx |-> t, data |-> data]}
  /\ UNCHANGED <<phase, active, elapsed, attempts, ackCount, ackRecorded, feeVars,
                 lockRequested, rollbackRequested>>

(* requestUpdate: the first payload fixes the hash if the record has none. *)
RequestUpdate(t, data) ==
  /\ InPhase(t, "CommitDecided")
  /\ updateHash[t] \subseteq {data}
  /\ updateHash' = [updateHash EXCEPT ![t] = {data}]
  /\ updateRequested' = updateRequested \cup {[tx |-> t, data |-> data]}
  /\ UNCHANGED <<phase, active, elapsed, attempts, ackCount, ackRecorded, feeVars,
                 lockRequested, rollbackRequested>>

TimeoutExecution(t) == elapsed[t] > EffectiveTimeout /\ AbortExecution(t)

(* The acknowledgment that reaches the number of state contracts completes *)
(* the execution in the same call and credits the fee to the relayer.      *)
EnoughAcksEarly(n) == n + 1 >= Cardinality(Contract)   \* mutants of EnoughAcks
EnoughAcksLate(n) == n > Cardinality(Contract)
EnoughAcks(n) == n >= Cardinality(Contract)

LastAckBefore(t) == EnoughAcks(ackCount[t])   \* mutant: tested before the increment
LastAck(t) == EnoughAcks(ackCount[t] + 1)

\* Mutant of CreditFee: the fee credited stays collected.
CreditFeeAndKeep(t) ==
  /\ pendingFees' = pendingFees + collectedFees[t]
  /\ UNCHANGED collectedFees

CreditFee(t) ==
  /\ pendingFees' = pendingFees + collectedFees[t]
  /\ collectedFees' = [collectedFees EXCEPT ![t] = 0]

RecordUpdateAckAndMaybeComplete(t, key) ==
  /\ InPhase(t, "CommitDecided")
  /\ key \notin ackRecorded[t]
  /\ ackRecorded' = [ackRecorded EXCEPT ![t] = @ \cup {key}]
  /\ ackCount' = [ackCount EXCEPT ![t] = @ + 1]
  /\ \/ /\ ~LastAck(t)
        /\ UNCHANGED <<active, phase, collectedFees, pendingFees>>
     \/ /\ LastAck(t)
        /\ active' = [active EXCEPT ![t] = FALSE]
        /\ phase' = [phase EXCEPT ![t] = "Completed"]
        /\ CreditFee(t)
  /\ UNCHANGED <<elapsed, attempts, updateHash, balance, lockRequested,
                 updateRequested, rollbackRequested>>

WithdrawFee ==
  /\ pendingFees > 0
  /\ balance >= pendingFees
  /\ balance' = balance - pendingFees
  /\ pendingFees' = 0
  /\ UNCHANGED <<phase, active, elapsed, attempts, ackCount, ackRecorded, updateHash,
                 collectedFees, lockRequested, updateRequested, rollbackRequested>>

(* A block is mined.  Beyond the timeout the exact age no longer matters.  *)
Aging(t) == InPhase(t, "Requested") /\ elapsed[t] <= EffectiveTimeout

MineBlock ==
  /\ \E t \in Tx : Aging(t)
  /\ elapsed' = [t \in Tx |-> IF Aging(t) THEN elapsed[t] + 1 ELSE elapsed[t]]
  /\ UNCHANGED <<phase, active, attempts, ackCount, ackRecorded, updateHash, feeVars,
                 lockRequested, updateRequested, rollbackRequested>>
=============================================================================
