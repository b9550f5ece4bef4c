------------------------------- MODULE XSmart -------------------------------
(***************************************************************************)
(* The XSmart protocol: the execution chain, the invoked chains and the    *)
(* relayer that carries events of one as calls to the other.               *)
(*                                                                         *)
(* Events are sets that only grow and a call made for an event may happen  *)
(* at any later time, never, or again: the relayer's queue, its retries,   *)
(* its restarts and several relayers side by side deliver nothing else.    *)
(***************************************************************************)
EXTENDS ExecutionBridge, InvokedBridge

CONSTANTS
  ExecuteThreshold,     \* manifest execute_threshold
  UpdateAckThreshold,   \* manifest update_ack_threshold
  RootResults,          \* numbers the root of the call tree may return
  InitiatorActs,        \* whether the initiator calls the bridge itself
  AnyoneUnlocks,        \* whether a third party calls retryUnlock
  MaxRestarts           \* bound: relayer restarts

ASSUME XSmartAssumption ==
  /\ ExecuteThreshold \in Nat /\ UpdateAckThreshold \in Nat
  /\ RootResults \subseteq Nat
  /\ InitiatorActs \in BOOLEAN /\ AnyoneUnlocks \in BOOLEAN
  /\ MaxRestarts \in Nat

(* The executor keeps these in memory, except the actions it has enqueued, *)
(* which the checkpoint file holds across restarts.                        *)
VARIABLES
  lockResponses,   \* lockResponses[t]: target keys that answered
  updateAcks,      \* updateAcks[t]: target keys whose ack was seen
  executedTx,      \* transactions whose execution was enqueued
  completedTx,     \* transactions whose last acknowledgment was enqueued
  execAction,      \* executeIntegratedCallTree: "none", "pending" or "done"
  ackAction,       \* recordUpdateAckAndMaybeComplete calls enqueued, <<t, key>>
  restarts

memoryVars == <<lockResponses, updateAcks, executedTx, completedTx>>
relayerVars == <<memoryVars, execAction, ackAction, restarts>>
vars == <<execVars, invokedVars, relayerVars>>

RelayerTypeOK ==
  /\ lockResponses \in [Tx -> SUBSET TargetKeys]
  /\ updateAcks \in [Tx -> SUBSET TargetKeys]
  /\ executedTx \subseteq Tx
  /\ completedTx \subseteq Tx
  /\ execAction \in [Tx -> {"none", "pending", "done"}]
  /\ ackAction \subseteq (Tx \X TargetKeys)
  /\ restarts \in Nat

EmptyMemory ==
  [lockResponses |-> [t \in Tx |-> {}], updateAcks |-> [t \in Tx |-> {}]]

RelayerInit ==
  /\ lockResponses = EmptyMemory.lockResponses
  /\ updateAcks = EmptyMemory.updateAcks
  /\ executedTx = {}
  /\ completedTx = {}
  /\ execAction = [t \in Tx |-> "none"]
  /\ ackAction = {}
  /\ restarts = 0

Init == ExecInit /\ InvokedInit /\ RelayerInit
-----------------------------------------------------------------------------
(* The relayer sends a call to an invoked chain for an event of bc1.       *)

DeliverLock(c, t) ==
  /\ t \in lockRequested
  /\ ReceiveLockRequest(c, t)
  /\ UNCHANGED <<execVars, relayerVars>>

DeliverUpdate(c, m) ==
  /\ m \in updateRequested
  /\ ReceiveUpdateRequest(c, m.tx, m.data)
  /\ UNCHANGED <<execVars, relayerVars>>

DeliverRollback(c, t) ==
  /\ t \in rollbackRequested
  /\ ReceiveRollbackRequest(c, t)
  /\ UNCHANGED <<execVars, relayerVars>>

(* handleCrossChainLockResponse: any answer counts, the empty one too.     *)
HandleLockResponse(r) ==
  LET seen == lockResponses[r.tx] \cup {TargetKey(r.con)}
      execute == Cardinality(seen) >= ExecuteThreshold
  IN /\ r \in lockResponse
     /\ r.tx \notin executedTx
     /\ lockResponses' = [lockResponses EXCEPT ![r.tx] = seen]
     /\ executedTx' = IF execute THEN executedTx \cup {r.tx} ELSE executedTx
     /\ execAction' = IF execute /\ execAction[r.tx] = "none"
                      THEN [execAction EXCEPT ![r.tx] = "pending"] ELSE execAction
     /\ UNCHANGED <<execVars, invokedVars, updateAcks, completedTx, ackAction, restarts>>

(* The enqueued execution reaches bc1.  Its action id is the same for every*)
(* attempt of a transaction id, so once done it is never enqueued again.   *)
RelayerExecutes(t) ==
  /\ execAction[t] = "pending"
  /\ execAction' = [execAction EXCEPT ![t] = "done"]
  /\ \/ CallTreeFails(t)
     \/ \E result \in RootResults : CallTreeCommits(t, result)
  /\ UNCHANGED <<invokedVars, memoryVars, ackAction, restarts>>

(* handleCrossChainUpdateAck: one call per target key.                     *)
HandleUpdateAck(t, s) ==
  LET seen == updateAcks[t] \cup {TargetKey(s)}
  IN /\ <<t, s>> \in updateAck
     /\ t \notin completedTx
     /\ TargetKey(s) \notin updateAcks[t]
     /\ updateAcks' = [updateAcks EXCEPT ![t] = seen]
     /\ completedTx' = IF Cardinality(seen) >= UpdateAckThreshold
                       THEN completedTx \cup {t} ELSE completedTx
     /\ ackAction' = ackAction \cup {<<t, TargetKey(s)>>}
     /\ UNCHANGED <<execVars, invokedVars, lockResponses, executedTx, execAction, restarts>>

RelayerRecordsAck(t, key) ==
  /\ <<t, key>> \in ackAction
  /\ RecordUpdateAckAndMaybeComplete(t, key)
  /\ UNCHANGED <<invokedVars, relayerVars>>

RelayerRestart ==
  /\ restarts < MaxRestarts
  /\ restarts' = restarts + 1
  /\ lockResponses' = EmptyMemory.lockResponses
  /\ updateAcks' = EmptyMemory.updateAcks
  /\ executedTx' = {}
  /\ completedTx' = {}
  /\ UNCHANGED <<execVars, invokedVars, execAction, ackAction>>
-----------------------------------------------------------------------------
(* The initiator of t may call the bridge too.  It reads the answers of    *)
(* the invoked chains, one per contract.                                   *)

Answers(t) ==
  {locked \in [Contract -> {r \in lockResponse : r.tx = t}] :
     \A s \in Contract : locked[s].con = s}

InitiatorExecutes(t) ==
  /\ InitiatorActs
  /\ \/ \E locked \in Answers(t) :
          \/ ExecuteIntegratedLogic(t, locked)
          \/ ExecuteIntegratedLogicWithProofs(t, locked)
     \/ CallTreeFails(t)
     \/ \E result \in RootResults : CallTreeCommits(t, result)
  /\ UNCHANGED <<invokedVars, relayerVars>>

InitiatorRequestsUpdate(t) ==
  /\ InitiatorActs
  /\ \E locked \in Answers(t) :
       /\ LogicSucceeds(locked)
       /\ RequestUpdate(t, NewRemain(locked))
  /\ UNCHANGED <<invokedVars, relayerVars>>

Starts(t)   == RequestLockStates(t) /\ UNCHANGED <<invokedVars, relayerVars>>
TimesOut(t) == TimeoutExecution(t) /\ UNCHANGED <<invokedVars, relayerVars>>
Withdraws   == WithdrawFee /\ UNCHANGED <<invokedVars, relayerVars>>
Block       == MineBlock /\ UNCHANGED <<invokedVars, relayerVars>>

ThirdPartyUnlocks(s, t) ==
  AnyoneUnlocks /\ RetryUnlock(s, t) /\ UNCHANGED <<execVars, relayerVars>>

LocalCustomer(s) == BookRoom(s) /\ UNCHANGED <<execVars, relayerVars>>

Next ==
  \/ \E t \in Tx :
       \/ Starts(t) \/ TimesOut(t)
       \/ InitiatorExecutes(t) \/ InitiatorRequestsUpdate(t) \/ RelayerExecutes(t)
       \/ \E key \in TargetKeys : RelayerRecordsAck(t, key)
       \/ \E c \in Chain : DeliverLock(c, t) \/ DeliverRollback(c, t)
       \/ \E s \in Contract : HandleUpdateAck(t, s) \/ ThirdPartyUnlocks(s, t)
  \/ \E c \in Chain, m \in updateRequested : DeliverUpdate(c, m)
  \/ \E r \in lockResponse : HandleLockResponse(r)
  \/ \E s \in Contract : LocalCustomer(s)
  \/ RelayerRestart \/ Withdraws \/ Block

Spec == Init /\ [][Next]_vars
-----------------------------------------------------------------------------
(* Fairness.  The relayer's event loop and its workers keep running and    *)
(* retry, so a call that stays possible is made and an event that is there *)
(* is handled.  Nobody owes the system a timeout, a request, a local       *)
(* booking, an unlock or a withdrawal.                                     *)

HandlesResponseOf(t, s) ==
  \E r \in lockResponse : r.tx = t /\ r.con = s /\ HandleLockResponse(r)

DeliversUpdateOf(c, t) == \E m \in updateRequested : m.tx = t /\ DeliverUpdate(c, m)

RelayerFairness ==
  \A t \in Tx :
    /\ WF_vars(RelayerExecutes(t))
    /\ \A key \in TargetKeys : WF_vars(RelayerRecordsAck(t, key))
    /\ \A c \in Chain :
         /\ WF_vars(DeliverLock(c, t))
         /\ WF_vars(DeliverRollback(c, t))
         /\ WF_vars(DeliversUpdateOf(c, t))
    /\ \A s \in Contract :
         /\ WF_vars(HandlesResponseOf(t, s))
         /\ WF_vars(HandleUpdateAck(t, s))

FairSpec == Spec /\ RelayerFairness
-----------------------------------------------------------------------------
(* Safety.                                                                 *)

Updated(s, t) == AlreadyProcessed("update", ChainOf[s], t)

(* Every variable keeps the type its declaration in the code gives it.     *)
TypeOK == ExecTypeOK /\ InvokedTypeOK /\ RelayerTypeOK

(* A Completed execution has been applied on every state contract, however *)
(* acknowledgments were delayed, repeated or counted after a restart.      *)
CompletedImpliesUpdated ==
  \A t \in Tx : phase[t] = "Completed" => \A s \in Contract : Updated(s, t)

(* A contract applies an update only while the execution chain stands by   *)
(* its decision to commit: never for an attempt that is aborted, completed *)
(* or only requested, whatever old update events are still in flight.      *)
UpdateOnlyWhileCommitDecided ==
  [][\A s \in Contract, t \in Tx :
       ~Updated(s, t) /\ Updated(s, t)' => phase[t] = "CommitDecided"]_vars

(* Once updated, a contract never holds rooms for that transaction again,  *)
(* not even when the transaction id is requested a second time.            *)
NoLockAfterUpdate ==
  \A s \in Contract, t \in Tx : Updated(s, t) => bag[s][t] = 0

(* The acknowledgment counter of an open commit stays below the number of  *)
(* contracts, so completeExecution, which demands that many, never runs.   *)
AcksBelowThreshold ==
  \A t \in Tx : InPhase(t, "CommitDecided") => ~EnoughAcks(ackCount[t])

(* A transaction books its rooms exactly when its update is applied, and   *)
(* once: a retried, duplicated or late update books nothing more.          *)
BookedExactlyOnce ==
  \A s \in Contract, t \in Tx : bookings[s][t] = IF Updated(s, t) THEN Num[s] ELSE 0

(* The pool's totals are the sum and the number of its bags, through every *)
(* order of lock, update, rollback, partial batch and third-party unlock.  *)
LockAccounting ==
  \A s \in Contract :
    /\ lockedTotal[s] = SumFunction(bag[s])
    /\ bagCount[s] = Cardinality({t \in Tx : bag[s][t] > 0})

(* The bridge holds the fee of every open execution and every fee credited *)
(* but not withdrawn, also after a transaction id is requested again.      *)
FeeSolvency == balance >= pendingFees + SumFunction(collectedFees)

(* Overwriting remain with a value computed from the locked state never    *)
(* makes rooms disappear: neither the number a contract has left nor one   *)
(* it answered, or will be updated from, is too small for what was booked. *)
(* (It may sell some rooms twice: see NeverOversold.)                      *)
Counted(s, n) == n + SumFunction(bookings[s]) + localBooked[s] >= Rooms[s]

RoomsNeverLost ==
  \A s \in Contract :
    /\ Counted(s, remain[s])
    /\ \A r \in lockResponse : r.con = s /\ r.ok => Counted(s, r.remain)
    /\ \A m \in updateRequested : Counted(s, m.data[s] + Num[s])

(* The protocol implements atomic commitment: the phase is the decision    *)
(* and the updated contracts are the effect.                               *)
DecisionIn ==
  [None |-> "none", Requested |-> "open", CommitDecided |-> "commit",
   AbortDecided |-> "abort", Completed |-> "done"]
Decision == [t \in Tx |-> DecisionIn[phase[t]]]
Effect == [t \in Tx |-> {s \in Contract : Updated(s, t)}]

Commitment == INSTANCE AtomicCommit WITH decision <- Decision, effect <- Effect
Refinement == Commitment!Spec
-----------------------------------------------------------------------------
(* The inductive invariant behind the safety theorems (XSmartProofs).      *)

\* A record is active exactly between the request and its outcome.
ActiveWhileOpen ==
  \A t \in Tx : active[t] <=> phase[t] \in {"Requested", "CommitDecided"}

\* Rooms are held, and updates applied, only after the one lock request a
\* chain accepts for a transaction.
LockedOnlyOnce ==
  \A s \in Contract, t \in Tx :
    bag[s][t] > 0 \/ Updated(s, t) => AlreadyProcessed("lock", ChainOf[s], t)

\* An acknowledgment, at every stage of its way, is that of an applied update.
AppliedKeys(t) == {TargetKey(s) : s \in {u \in Contract : Updated(u, t)}}

AcksAreReal ==
  /\ \A t \in Tx, s \in Contract : <<t, s>> \in updateAck => Updated(s, t)
  /\ \A t \in Tx, key \in TargetKeys : <<t, key>> \in ackAction => key \in AppliedKeys(t)
  /\ \A t \in Tx : ackRecorded[t] \subseteq AppliedKeys(t)

\* A record counts no more acknowledgments than were ever recorded.
AcksAreCounted ==
  \A t \in Tx :
    /\ ackCount[t] <= Cardinality(ackRecorded[t])
    /\ active[t] => ~EnoughAcks(ackCount[t])

\* An update event outlives its commit only when it has nothing left to do.
OldUpdatesAreApplied ==
  \A m \in updateRequested :
    phase[m.tx] # "CommitDecided" => \A s \in Contract : Updated(s, m.tx)

(* The strengthening of the safety invariants that every step preserves.   *)
IInv ==
  /\ TypeOK
  /\ ActiveWhileOpen
  /\ LockedOnlyOnce
  /\ NoLockAfterUpdate
  /\ AcksAreReal
  /\ AcksAreCounted
  /\ OldUpdatesAreApplied
  /\ CompletedImpliesUpdated
  /\ BookedExactlyOnce
-----------------------------------------------------------------------------
(* What comments of the code say of the program, and it does not do.       *)

(* "Rollback [...] triggered by execution chain when locking fails": no    *)
(* execution is committed after a contract refused to lock.                *)
FailedLockNeverCommits ==
  \A r \in lockResponse : ~r.ok => phase[r.tx] \notin {"CommitDecided", "Completed"}

(* "Unlock all locked states on invoked chains": an aborted execution ends *)
(* with no contract holding rooms for it.                                  *)
AbortReleasesLocks ==
  \A t \in Tx : phase[t] = "AbortDecided" ~> \A s \in Contract : bag[s][t] = 0

(* "Unrelated transactions can proceed concurrently on the unlocked        *)
(* portion": a contract never sells more rooms than it has.                *)
NeverOversold ==
  \A s \in Contract : SumFunction(bookings[s]) + localBooked[s] <= Rooms[s]
-----------------------------------------------------------------------------
(* Liveness, under FairSpec.                                               *)

(* A committed execution completes, unless a contract that still has to be *)
(* updated holds no lock: receiveUpdateRequest can then only revert.       *)
CommitCompletes ==
  \A t \in Tx : phase[t] = "CommitDecided" ~>
    \/ phase[t] = "Completed"
    \/ \E s \in Contract : ~Updated(s, t) /\ bag[s][t] = 0

(* Once every contract has answered, the execution is decided.             *)
AnsweredIsDecided ==
  \A t \in Tx :
    (/\ phase[t] = "Requested"
     /\ \A s \in Contract : \E r \in lockResponse : r.tx = t /\ r.con = s)
    ~> phase[t] # "Requested"

(* Rooms an aborted execution holds on a chain that has not consumed the   *)
(* rollback yet are released.                                              *)
RollbackReleasesHeld ==
  \A t \in Tx, s \in Contract :
    (/\ phase[t] = "AbortDecided"
     /\ bag[s][t] > 0
     /\ ~AlreadyProcessed("rollback", ChainOf[s], t))
    ~> bag[s][t] = 0
=============================================================================
