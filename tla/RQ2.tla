--------------------------------- MODULE RQ2 ---------------------------------
(***************************************************************************)
(* The two RQ2 runners side by side: the initial state chooses which of    *)
(* them is run, and the variables of the other rest.  The runners share    *)
(* the contracts under test and the results file; each draws its cases     *)
(* from sets of its own.                                                   *)
(***************************************************************************)
EXTENDS Naturals, FiniteSets

CONSTANTS Users, NoUser, NCases, MaxLaunches, MaxFaults, MaxOps, MaxSent,
          LocalDraws, LiveDraws   \* what the generator draws for each runner

VARIABLES runner, contract, step, launches, results, file, init, original,
          translated, touched, ops, escrow, at, op, answer, outcome, sent, faults

Local == INSTANCE RQ2Local WITH
  Namespaces <- {1},
  LockIds <- LocalDraws.lockIds, AuctionIds <- LocalDraws.auctionIds,
  Amounts <- LocalDraws.amounts, TokenAmounts <- LocalDraws.tokenAmounts,
  DexAmounts <- LocalDraws.dexAmounts, Prices <- LocalDraws.prices,
  Rooms <- LocalDraws.rooms, LockSizes <- LocalDraws.lockSizes,
  OpeningBalances <- LocalDraws.openings

Live == INSTANCE RQ2Live WITH
  Namespaces <- (1..MaxLaunches) \X (1..NCases),
  LockIds <- LiveDraws.lockIds, AuctionIds <- LiveDraws.auctionIds,
  Amounts <- LiveDraws.amounts, TokenAmounts <- LiveDraws.tokenAmounts,
  DexAmounts <- LiveDraws.dexAmounts, Prices <- LiveDraws.prices,
  Rooms <- LiveDraws.rooms, LockSizes <- LiveDraws.lockSizes,
  OpeningBalances <- LiveDraws.openings

\* A room costs something and a lock takes a room at least (makeTravelCase).
IsDraws(d) ==
  /\ IsFiniteSet(d.lockIds) /\ IsFiniteSet(d.auctionIds)
  /\ d.amounts \cup d.tokenAmounts \cup d.dexAmounts \cup d.rooms \cup d.openings \subseteq Nat
  /\ d.prices \cup d.lockSizes \subseteq Nat \ {0}

ASSUME RQ2Assumption ==
  /\ IsFiniteSet(Users) /\ NoUser \notin Users
  /\ {NCases, MaxLaunches, MaxFaults, MaxOps} \subseteq Nat
  /\ MaxSent \in [{"HotelBooking", "TrainBooking", "TokenTransfer", "AuctionLogic", "DEXSwap"} -> Nat]
  /\ IsDraws(LocalDraws) /\ IsDraws(LiveDraws)

liveOnly == <<at, op, answer, outcome, sent, faults>>
vars == <<runner, escrow, Live!vars>>

Init ==
  \/ /\ runner = "local" /\ Local!Init
     /\ at = 1 /\ op = <<>> /\ answer = <<>> /\ outcome = <<>> /\ sent = 0 /\ faults = 0
  \/ runner = "live" /\ Live!Init /\ escrow = 0

Next ==
  \/ runner = "local" /\ Local!Next /\ UNCHANGED <<runner, liveOnly>>
  \/ runner = "live" /\ Live!Next /\ UNCHANGED <<runner, escrow>>

Spec == Init /\ [][Next]_vars

-----------------------------------------------------------------------------
(* The properties of RQ2Local and RQ2Live, each where its runner runs.     *)

\* The variables of the runner have the types its main gives them.
TypeOK == IF runner = "local" THEN Local!TypeOK ELSE Live!TypeOK

\* run-rq2a: every case passes.
EveryCasePasses == runner = "local" => Local!EveryCasePasses

\* run-rq2a: the books of both instances of a case balance.
LedgersBalance == runner = "local" => Local!LedgersBalance

\* run-rq2a: no operation of the pool lowers what a share is worth.
NeverDiluted == [][runner = "local" => Local!WorthKeptHere]_vars

\* run-rq2a-vm-full: without a fault every case passes.
NoFalseAlarm == runner = "live" => Live!NoFalseAlarm

\* run-rq2a-vm-full: a case that passed left the same state on both chains.
PassedAgree == runner = "live" => Live!PassedAgree

\* run-rq2a-vm-full: the results file only grows, by one new case at a time.
RecordedOnce == [][runner = "live" => Live!RecordsNewCase]_vars
=============================================================================
