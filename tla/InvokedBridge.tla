--------------------------- MODULE InvokedBridge ---------------------------
(***************************************************************************)
(* XBridgingContract as it runs on the invoked chains: it locks, updates   *)
(* and releases the state contracts of its chain on behalf of a relayer.   *)
(* Each request kind is consumed once per transaction id, for ever:        *)
(* processed is processedCrossChainTxs, keyed by (txId, chain, kind).      *)
(* The events it emits are kept in sets that only grow, as a log is.       *)
(***************************************************************************)
EXTENDS StateContracts

VARIABLES
  processed,        \* processed[c]: request keys <<kind, t>> chain c consumed
  unlockAttempts,   \* failed unlocks of a contract for a transaction
  lockResponse,     \* CrossChainLockResponse events; ok = FALSE is the empty one
  updateAck         \* CrossChainUpdateAck(success) events, as <<t, s>>

invokedVars == <<stateVars, processed, unlockAttempts, lockResponse, updateAck>>

RequestKey == {"lock", "update", "rollback"} \X Tx
LockResponse == [tx : Tx, con : Contract, ok : BOOLEAN, remain : Nat]

InvokedTypeOK ==
  /\ StateTypeOK
  /\ processed \in [Chain -> SUBSET RequestKey]
  /\ unlockAttempts \in [Contract -> [Tx -> Nat]]
  /\ lockResponse \subseteq LockResponse
  /\ updateAck \subseteq (Tx \X Contract)

InvokedInit ==
  /\ StateInit
  /\ processed = [c \in Chain |-> {}]
  /\ unlockAttempts = [s \in Contract |-> [t \in Tx |-> 0]]
  /\ lockResponse = {}
  /\ updateAck = {}
-----------------------------------------------------------------------------
AlreadyProcessed(kind, c, t) == <<kind, t>> \in processed[c]

\* Mutant of MarkProcessed: a chain remembers its last request only.
RememberOnly(kind, c, t) == processed' = [processed EXCEPT ![c] = {<<kind, t>>}]

MarkProcessed(kind, c, t) ==
  processed' = [processed EXCEPT ![c] = @ \cup {<<kind, t>>}]

Locked(s, t) == [tx |-> t, con |-> s, ok |-> TRUE, remain |-> remain[s]]
LockFailed(s, t) == [tx |-> t, con |-> s, ok |-> FALSE, remain |-> 0]

\* _unlockState clears the attempts of a contract it released.
ClearAttempts(S, t) ==
  unlockAttempts' = [s \in Contract |->
    IF s \in S THEN [unlockAttempts[s] EXCEPT ![t] = 0] ELSE unlockAttempts[s]]

(* _executeLocks: lock in order and answer per contract.  The first lock   *)
(* that fails releases the ones before it, answers with empty data and     *)
(* stops; the transaction succeeds and the answers already emitted stay.   *)
LockWholeBatch(c, t) ==
  /\ \A s \in Members(c) : CanLock(s, t)
  /\ LockBags(Members(c), t)
  /\ lockResponse' = lockResponse \cup {Locked(s, t) : s \in Members(c)}
  /\ UNCHANGED unlockAttempts

LockStopsAt(c, t, k) ==
  LET earlier == {Batch[c][i] : i \in 1..(k - 1)}
  IN /\ \A s \in earlier : CanLock(s, t)
     /\ ~CanLock(Batch[c][k], t)
     /\ lockResponse' = lockResponse \cup {Locked(s, t) : s \in earlier}
                                     \cup {LockFailed(Batch[c][k], t)}
     /\ ClearAttempts(earlier, t)
     /\ UNCHANGED poolVars

\* Mutant of ReceiveLockRequest: a repeated request locks again.
LockEveryTime(c, t) ==
  /\ MarkProcessed("lock", c, t)
  /\ LockWholeBatch(c, t) \/ \E k \in DOMAIN Batch[c] : LockStopsAt(c, t, k)
  /\ UNCHANGED <<remain, bookings, localBooked, updateAck>>

ReceiveLockRequest(c, t) ==
  /\ ~AlreadyProcessed("lock", c, t)
  /\ MarkProcessed("lock", c, t)
  /\ \/ LockWholeBatch(c, t)
     \/ \E k \in DOMAIN Batch[c] : LockStopsAt(c, t, k)
  /\ UNCHANGED <<remain, bookings, localBooked, updateAck>>

\* Mutant of ReceiveUpdateRequest: the request is applied and not consumed.
UpdateUnmarked(c, t, data) ==
  /\ ~AlreadyProcessed("update", c, t)
  /\ \A s \in Members(c) : CanUnlock(s, t)
  /\ UpdateStates(Members(c), t, data)
  /\ updateAck' = updateAck \cup {<<t, s>> : s \in Members(c)}
  /\ UNCHANGED <<processed, unlockAttempts, lockResponse>>

(* All updates of the chain's batch succeed or the transaction reverts, in *)
(* which case the key is not consumed and a relayer may try again.         *)
ReceiveUpdateRequest(c, t, data) ==
  /\ ~AlreadyProcessed("update", c, t)
  /\ \A s \in Members(c) : CanUnlock(s, t)
  /\ UpdateStates(Members(c), t, data)
  /\ updateAck' = updateAck \cup {<<t, s>> : s \in Members(c)}
  /\ MarkProcessed("update", c, t)
  /\ UNCHANGED <<unlockAttempts, lockResponse>>

\* Mutant of Released: one contract that cannot be unlocked keeps all locked.
ReleasedTogether(c, t) ==
  IF \A s \in Members(c) : CanUnlock(s, t) THEN Members(c) ELSE {}

(* A contract that cannot be unlocked is counted and reported, not fatal.  *)
Released(c, t) == {s \in Members(c) : CanUnlock(s, t)}

ReceiveRollbackRequest(c, t) ==
  LET released == Released(c, t)
  IN /\ ~AlreadyProcessed("rollback", c, t)
     /\ MarkProcessed("rollback", c, t)
     /\ UnlockBags(released, t)
     /\ unlockAttempts' = [s \in Contract |->
          IF s \notin Members(c) THEN unlockAttempts[s]
          ELSE [unlockAttempts[s] EXCEPT ![t] = IF s \in released THEN 0 ELSE @ + 1]]
     /\ UNCHANGED <<remain, bookings, localBooked, lockResponse, updateAck>>

(* retryUnlock: anyone, at any time.  unlockOnTimeout, the fallback, needs *)
(* the bag that unlockState did not find, so it can only fail as well.     *)
RetryUnlock(s, t) ==
  /\ CanUnlock(s, t)
  /\ UnlockBags({s}, t)
  /\ ClearAttempts({s}, t)
  /\ UNCHANGED <<remain, bookings, localBooked, processed, lockResponse, updateAck>>

BookRoom(s) ==
  /\ \E n \in LocalBookings[s] : BookLocal(s, n)
  /\ UNCHANGED <<processed, unlockAttempts, lockResponse, updateAck>>
=============================================================================
