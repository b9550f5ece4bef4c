-------------------------- MODULE StateContracts --------------------------
(***************************************************************************)
(* The state contracts of the invoked chains (SHotel, STrain, SFlight,     *)
(* STaxi) and the fine-grained lock pool they share (LockPoolLib).         *)
(*                                                                         *)
(* A contract sells rooms (seats, ...) at a fixed price.  The pool counts  *)
(* in currency, always in whole multiples of that price, so the module     *)
(* counts in rooms.  A require that fails reverts the call: it is a guard. *)
(* The operators below change the pools of a set of contracts at once,     *)
(* since the bridge calls the contracts of one chain in one transaction.   *)
(***************************************************************************)
EXTENDS Manifest

CONSTANTS
  LockSize,       \* rooms locked when Num is zero (lockSize)
  Rooms,          \* rooms a contract is deployed with
  LocalBookings   \* LocalBookings[s]: party sizes of the local customers of s

ASSUME StateContractsAssumption ==
  /\ LockSize \in [Contract -> Nat]
  /\ Rooms \in [Contract -> Nat]
  /\ LocalBookings \in [Contract -> SUBSET Nat]

VARIABLES
  remain,         \* rooms not sold, the locked ones included
  bag,            \* bag[s][t]: rooms locked in s for transaction t, 0 if none
  lockedTotal,    \* LockPool.lockedTotal
  bagCount,       \* LockPool.bagCount
  bookings,       \* bookings[s][t]: rooms booked in s for the user of t
  localBooked     \* rooms booked in s by local customers

poolVars == <<bag, lockedTotal, bagCount>>
stateVars == <<remain, poolVars, bookings, localBooked>>

StateTypeOK ==
  /\ remain \in [Contract -> Nat]
  /\ bag \in [Contract -> [Tx -> Nat]]
  /\ lockedTotal \in [Contract -> Nat]
  /\ bagCount \in [Contract -> Nat]
  /\ bookings \in [Contract -> [Tx -> Nat]]
  /\ localBooked \in [Contract -> Nat]

StateInit ==
  /\ remain = Rooms
  /\ bag = [s \in Contract |-> [t \in Tx |-> 0]]
  /\ lockedTotal = [s \in Contract |-> 0]
  /\ bagCount = [s \in Contract |-> 0]
  /\ bookings = [s \in Contract |-> [t \in Tx |-> 0]]
  /\ localBooked = [s \in Contract |-> 0]
-----------------------------------------------------------------------------
(* Locking and unlocking.                                                  *)

\* An exact amount when the caller gives one, a fixed increment otherwise.
LockAmount(s) == IF Num[s] > 0 THEN Num[s] ELSE LockSize[s]

\* remain - lockedRooms is checked arithmetic: it reverts below zero.
Available(s) == remain[s] - lockedTotal[s]

CanLock(s, t) ==
  /\ Available(s) >= 0
  /\ Available(s) >= Num[s]
  /\ LockAmount(s) > 0
  /\ bag[s][t] = 0

LockBags(S, t) ==
  /\ bag' = [s \in Contract |->
               IF s \in S THEN [bag[s] EXCEPT ![t] = LockAmount(s)] ELSE bag[s]]
  /\ lockedTotal' = [s \in Contract |->
               lockedTotal[s] + IF s \in S THEN LockAmount(s) ELSE 0]
  /\ bagCount' = [s \in Contract |-> bagCount[s] + IF s \in S THEN 1 ELSE 0]

\* Mutants of CanUnlock: a missing bag unlocks nothing and is counted as a bag,
\* with and without the check that the pool still counts one.
CanUnlockNoBag(s, t) == lockedTotal[s] >= bag[s][t] /\ bagCount[s] >= 1
CanUnlockUnchecked(s, t) == lockedTotal[s] >= bag[s][t]

\* bag found, and neither subtraction of unlock underflows.
CanUnlock(s, t) ==
  /\ bag[s][t] > 0
  /\ lockedTotal[s] >= bag[s][t]
  /\ bagCount[s] >= 1

UnlockBags(S, t) ==
  /\ bag' = [s \in Contract |-> IF s \in S THEN [bag[s] EXCEPT ![t] = 0] ELSE bag[s]]
  /\ lockedTotal' = [s \in Contract |->
               lockedTotal[s] - IF s \in S THEN bag[s][t] ELSE 0]
  /\ bagCount' = [s \in Contract |-> bagCount[s] - IF s \in S THEN 1 ELSE 0]
-----------------------------------------------------------------------------
(* updateState: release the lock, overwrite remain, credit the booking.    *)
(* data[s] is the absolute newRemain of the update payload.                *)

UpdateStates(S, t, data) ==
  /\ UnlockBags(S, t)
  /\ remain' = [s \in Contract |-> IF s \in S THEN data[s] ELSE remain[s]]
  /\ bookings' = [s \in Contract |->
        IF s \in S THEN [bookings[s] EXCEPT ![t] = @ + Num[s]] ELSE bookings[s]]
  /\ UNCHANGED localBooked

\* Mutant of BookLocal: the locked rooms are dropped from remain.
BookLocalOfAvailable(s, n) ==
  /\ Available(s) >= n
  /\ remain' = [remain EXCEPT ![s] = Available(s) - n]
  /\ localBooked' = [localBooked EXCEPT ![s] = @ + n]
  /\ UNCHANGED <<poolVars, bookings>>

(* bookLocal: a local customer books n of the rooms no transaction locked. *)
BookLocal(s, n) ==
  /\ Available(s) >= 0
  /\ Available(s) >= n
  /\ remain' = [remain EXCEPT ![s] = lockedTotal[s] + (Available(s) - n)]
  /\ localBooked' = [localBooked EXCEPT ![s] = @ + n]
  /\ UNCHANGED <<poolVars, bookings>>
=============================================================================
