----------------------------- MODULE AtomRemote -----------------------------
(***************************************************************************)
(* The ATOM remote contracts, one per operation (hotel, train, flight,     *)
(* taxi): a lock takes the units at once and remembers how many there were *)
(* before; unlock books them, undo puts the remembered number back.        *)
(***************************************************************************)
EXTENDS AtomTypes

CONSTANTS
  Rooms,    \* Rooms[op]: units at the start
  Amount,   \* Amount[op]: units an invocation asks for
  NoKey     \* the empty hash key; the key drawn for an invocation is its id

ASSUME RemoteAssumption ==
  /\ Rooms \in [Op -> Nat] /\ Amount \in [Op -> Nat \ {0}]
  /\ NoKey \notin Inv

VARIABLES
  remain,   \* remain[op], or seats
  hold,     \* pendingBookings[op][i]
  booked,   \* units booked, per invocation (of its user)
  locks     \* locks[op][i]: how often i locked op; numbers its Locked events

remoteVars == <<remain, hold, booked, locks>>

NoHold == [locked |-> FALSE, lockHash |-> NoKey, backup |-> 0]

RemoteTypeOK ==
  /\ remain \in [Op -> Nat]
  /\ hold \in [Op -> [Inv -> [locked : BOOLEAN, lockHash : Inv \cup {NoKey}, backup : Nat]]]
  /\ booked \in [Op -> [Inv -> Nat]]
  /\ locks \in [Op -> [Inv -> Nat]]

RemoteInit ==
  /\ remain = Rooms
  /\ hold = [op \in Op |-> [i \in Inv |-> NoHold]]
  /\ booked = [op \in Op |-> [i \in Inv |-> 0]]
  /\ locks = [op \in Op |-> [i \in Inv |-> 0]]

(* A server without a key has no user either: "Zero user".                 *)
CanLock(op, i, key) ==
  key # NoKey /\ ~hold[op][i].locked /\ remain[op] >= Amount[op]

BookLockDo(op, i, key) ==
  /\ CanLock(op, i, key)
  /\ hold' = [hold EXCEPT ![op][i] = [locked |-> TRUE, lockHash |-> key, backup |-> remain[op]]]
  /\ remain' = [remain EXCEPT ![op] = @ - Amount[op]]
  /\ locks' = [locks EXCEPT ![op][i] = @ + 1]
  /\ UNCHANGED booked

CanUnlock(op, i, key) == hold[op][i].locked /\ hold[op][i].lockHash = key

BookUnlock(op, i, key) ==
  /\ CanUnlock(op, i, key)
  /\ booked' = [booked EXCEPT ![op][i] = @ + Amount[op]]
  /\ hold' = [hold EXCEPT ![op][i] = NoHold]
  /\ UNCHANGED <<remain, locks>>

\* Mutant of Released: the units are not put back.
ReleasedNothing(op, i) == remain[op]
Released(op, i) == hold[op][i].backup

BookUndoUnlock(op, i, key) ==
  /\ CanUnlock(op, i, key)
  /\ remain' = [remain EXCEPT ![op] = Released(op, i)]
  /\ hold' = [hold EXCEPT ![op][i] = NoHold]
  /\ UNCHANGED <<booked, locks>>
=============================================================================
