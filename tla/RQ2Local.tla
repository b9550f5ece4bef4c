------------------------------ MODULE RQ2Local ------------------------------
(***************************************************************************)
(* scripts/rq2/run-rq2a.ts: every case runs the source's model in the      *)
(* process and a translated contract deployed for that case alone, one     *)
(* operation after the other, then compares two snapshots.  The results    *)
(* are written once, when every case has run.                              *)
(***************************************************************************)
EXTENDS RQ2Cases, Sequences

CONSTANTS NCases, MaxOps, MaxLaunches

VARIABLES
  contract,      \* the contract under test, fixed for the run
  step,          \* "off", "case": between cases, "ops": inside one
  launches,      \* processes started so far
  results,       \* the results in memory
  file,          \* the results on disk
  init,          \* the initial state of the case
  original,      \* the state of the source's model
  translated,    \* the state of the deployed contract
  touched,       \* the keys the operations so far name
  ops,           \* how many operations the case has run
  escrow         \* history: bids accepted less amounts withdrawn

vars == <<contract, step, launches, results, file, init, original, translated,
          touched, ops, escrow>>
caseVars == <<init, original, translated, touched, ops, escrow>>

\* Each case has instances of its own: one namespace is enough.
Here == CHOOSE n \in Namespaces : TRUE

-----------------------------------------------------------------------------
(* The two instances of a case.                                            *)

TokenModel(opening) ==
  [NewToken EXCEPT !.balances[Here] = opening, !.totalSupply = SumFunction(opening)]

\* initTranslatedToken.
TokenDeployed(opening) == Minted(NewToken, Here, opening, Users)

\* The hotel is deployed empty and given its meta and lock total.
Model(i) ==
  CASE contract \in Travel -> NewTravel(i)
    [] contract = "TokenTransfer" -> TokenModel(i)
    [] contract = "AuctionLogic" -> NewAuctions
    [] contract = "DEXSwap" -> NewDex

Deployed(i) ==
  CASE contract = "HotelBooking" -> ResetHotel(NewTravel(i), i)
    [] contract = "TrainBooking" -> ResetTrain(NewTravel(i), i)
    [] contract = "TokenTransfer" -> TokenDeployed(i)
    [] contract = "AuctionLogic" -> NewAuctions
    [] contract = "DEXSwap" -> NewDex

-----------------------------------------------------------------------------
(* The runner.                                                             *)

Init ==
  /\ contract \in Contracts
  /\ step = "off" /\ launches = 0
  /\ results = <<>> /\ file = <<>>
  /\ init = <<>> /\ original = <<>> /\ translated = <<>>
  /\ touched = TouchedAtFirst(contract) /\ ops = 0 /\ escrow = 0

\* The instances of a case are dropped with it.
Dropped ==
  /\ init' = <<>> /\ original' = <<>> /\ translated' = <<>>
  /\ touched' = TouchedAtFirst(contract) /\ ops' = 0 /\ escrow' = 0

Launch ==
  /\ step = "off" /\ launches < MaxLaunches
  /\ launches' = launches + 1
  /\ step' = "case" /\ results' = <<>>
  /\ UNCHANGED <<contract, file, caseVars>>

BeginCase ==
  /\ step = "case" /\ Len(results) < NCases
  /\ \E i \in Initials(contract) :
       /\ init' = i
       /\ original' = Model(i)
       /\ translated' = Deployed(i)
  /\ step' = "ops"
  /\ UNCHANGED <<contract, launches, results, file, touched, ops, escrow>>

\* What an accepted operation brings into the auctions, or takes out.
Paid(o, a) ==
  CASE o.kind = "Bid" /\ a.ok -> escrow + o.amount
    [] o.kind = "Withdraw" -> escrow - a.values[1]
    [] OTHER -> escrow

Fail(category) ==
  /\ results' = Append(results, [pass |-> FALSE, category |-> category])
  /\ step' = "case" /\ Dropped

Operate(o) ==
  LET a == Original(contract, original, Here, o)
      b == Translated(contract, translated, Here, o)
  IN /\ step = "ops" /\ ops < MaxOps
     /\ \/ /\ SameResult(a, b)
           /\ original' = a.state /\ translated' = b.state
           /\ touched' = Also(touched, Touched(contract, o))
           /\ ops' = ops + 1 /\ escrow' = Paid(o, a)
           /\ UNCHANGED <<step, results, init>>
        \/ /\ ~SameResult(a, b)
           /\ Fail(IF a.ok # b.ok THEN "status_mismatch" ELSE "return_mismatch")
     /\ UNCHANGED <<contract, launches, file>>

SameSnapshots ==
  OriginalSnapshot(contract, original, Here, touched)
    = TranslatedSnapshot(contract, translated, Here, init, touched)

FinishCase ==
  /\ step = "ops" /\ ops > 0
  /\ \/ /\ SameSnapshots
        /\ results' = Append(results, [pass |-> TRUE, category |-> "none"])
        /\ step' = "case" /\ Dropped
     \/ ~SameSnapshots /\ Fail("state_mismatch")
  /\ UNCHANGED <<contract, launches, file>>

WriteResults ==
  /\ step = "case" /\ Len(results) = NCases
  /\ file' = results
  /\ step' = "off"
  /\ UNCHANGED <<contract, launches, results, caseVars>>

\* The process ends, or an exception that no case catches leaves main.
Die ==
  /\ step # "off"
  /\ step' = "off" /\ Dropped
  /\ UNCHANGED <<contract, launches, results, file>>

Next == Launch \/ BeginCase \/ FinishCase \/ WriteResults \/ Die
        \/ \E o \in Operations(contract) : Operate(o)

Spec == Init /\ [][Next]_vars

-----------------------------------------------------------------------------
(* Properties.                                                             *)

Outcomes == [pass : BOOLEAN,
             category : {"none", "status_mismatch", "return_mismatch", "state_mismatch"}]

\* The runner's own variables have the types main gives them.
TypeOK ==
  /\ contract \in Contracts
  /\ step \in {"off", "case", "ops"}
  /\ launches \in 0..MaxLaunches /\ ops \in 0..MaxOps
  /\ results \in Seq(Outcomes)
  /\ Len(results) <= NCases
  /\ Len(file) \in {0, NCases}
  /\ \A u \in touched.users : u \in Users
  /\ escrow \in Nat

\* The translated contract refines the source over every sequence of
\* operations the generator can draw: no result differs and no snapshot
\* differs, so every case passes (normalizeCompare, run*Case).
EveryCasePasses == \A i \in DOMAIN results : results[i].pass

\* Each contract's books balance in both instances, whatever the sequence:
\* rooms booked and left add up and locks add up to lockedTotal; balances to
\* the supply; standing bids and pending returns to the bids paid and not
\* withdrawn; shares to their total, and an empty pool has no shares.
Balanced(s) ==
  CASE contract \in Travel ->
         /\ s.remain + SumFunction(s.bookings[Here]) = init.remain
         /\ s.lockedTotal = SumFunction(s.locks[Here])
         /\ \A u \in Users : s.accounts[Here][u] = s.price * s.bookings[Here][u]
    [] contract = "TokenTransfer" -> SumFunction(s.balances[Here]) = s.totalSupply
    [] contract = "AuctionLogic" ->
         LET standing == [a \in AuctionIds |-> IF s.auctions[Here][a].open
                                               THEN s.auctions[Here][a].highestBid ELSE 0]
         IN SumFunction(standing) + SumFunction(s.pending[Here]) = escrow
    [] contract = "DEXSwap" ->
         /\ SumFunction(s.shares[Here]) = s.totalShares
         /\ (s.totalShares = 0) <=> (s.reserveA = 0)
         /\ (s.totalShares = 0) <=> (s.reserveB = 0)

LedgersBalance == step = "ops" => Balanced(original) /\ Balanced(translated)

\* No operation of the pool lowers what a share is worth: the product of the
\* reserves over the square of the shares never falls, although every
\* division rounds (AddLiquidity, RemoveLiquidity, SwapAForB).
WorthKept(s, t) ==
  s.totalShares > 0 /\ t.totalShares > 0 =>
    t.reserveA * t.reserveB * s.totalShares * s.totalShares
      >= s.reserveA * s.reserveB * t.totalShares * t.totalShares

WorthKeptHere ==
  contract = "DEXSwap" /\ step = "ops" /\ step' = "ops"
    => WorthKept(original, original') /\ WorthKept(translated, translated')

NeverDiluted == [][WorthKeptHere]_vars

=============================================================================
