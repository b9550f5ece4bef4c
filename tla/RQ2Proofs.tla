------------------------------ MODULE RQ2Proofs ------------------------------
(***************************************************************************)
(* The two RQ2 runners: the invariants of each, and what follows from them *)
(* about the results, the books and the states of the contracts.           *)
(***************************************************************************)
EXTENDS RQ2Contracts, SequenceTheorems

-----------------------------------------------------------------------------
(* Both runners use the same contracts: an operation does not depend on    *)
(* what the generator draws.                                               *)

LEMMA SameTravel ==
  \A s, n, o : /\ Local!TravelExecute(s, n, o) = Live!TravelExecute(s, n, o)
               /\ \A c : Local!TravelTarget(c, s, n, o) = Live!TravelTarget(c, s, n, o)
  BY DEF Local!TravelExecute, Live!TravelExecute, Local!TravelTarget, Live!TravelTarget,
         Local!BookLocal, Live!BookLocal, Local!LockState, Live!LockState,
         Local!UnlockState, Live!UnlockState, Local!TravelView, Live!TravelView,
         Local!HotelBook, Live!HotelBook, Local!TrainBook, Live!TrainBook,
         Local!LockTarget, Live!LockTarget, Local!UnlockTarget, Live!UnlockTarget,
         Local!TravelGet, Live!TravelGet, Local!availableRemain, Live!availableRemain,
         Local!availableUnits, Live!availableUnits, Local!Monus, Live!Monus,
         Local!Accepted, Live!Accepted, Local!Refused, Live!Refused, Local!Read, Live!Read

LEMMA SameToken ==
  \A s, n, o : /\ Local!TokenExecute(s, n, o) = Live!TokenExecute(s, n, o)
               /\ Local!TokenTarget(s, n, o) = Live!TokenTarget(s, n, o)
  BY DEF Local!TokenExecute, Live!TokenExecute, Local!TokenTarget, Live!TokenTarget,
         Local!Mint, Live!Mint, Local!Move, Live!Move, Local!Transfer, Live!Transfer,
         Local!Approve, Live!Approve, Local!TransferFrom, Live!TransferFrom,
         Local!TokenView, Live!TokenView, Local!TargetMove, Live!TargetMove,
         Local!Accepted, Live!Accepted, Local!Refused, Live!Refused, Local!Read, Live!Read

LEMMA SameAuctions ==
  \A s, n, o : /\ Local!AuctionExecute(s, n, o) = Live!AuctionExecute(s, n, o)
               /\ Local!AuctionTarget(s, n, o) = Live!AuctionTarget(s, n, o)
  BY DEF Local!AuctionExecute, Live!AuctionExecute, Local!AuctionTarget, Live!AuctionTarget,
         Local!CreateAuction, Live!CreateAuction, Local!Bid, Live!Bid, Local!Close, Live!Close,
         Local!Withdraw, Live!Withdraw, Local!AuctionView, Live!AuctionView,
         Local!Owing, Live!Owing, Local!Owed, Live!Owed, Local!CreateTarget, Live!CreateTarget,
         Local!BidTarget, Live!BidTarget, Local!CloseTarget, Live!CloseTarget,
         Local!Accepted, Live!Accepted, Local!Refused, Live!Refused, Local!Read, Live!Read

LEMMA SameDex ==
  \A s, n, o : /\ Local!DexExecute(s, n, o) = Live!DexExecute(s, n, o)
               /\ Local!DexTarget(s, n, o) = Live!DexTarget(s, n, o)
  BY DEF Local!DexExecute, Live!DexExecute, Local!DexTarget, Live!DexTarget,
         Local!AddLiquidity, Live!AddLiquidity, Local!AddTarget, Live!AddTarget,
         Local!RemoveLiquidity, Live!RemoveLiquidity, Local!RemoveTarget, Live!RemoveTarget,
         Local!SwapAForB, Live!SwapAForB, Local!SwapTarget, Live!SwapTarget,
         Local!SharesFor, Live!SharesFor, Local!Least, Live!Least, Local!Divides, Live!Divides,
         Local!AmountOut, Live!AmountOut, Local!TargetAmountOut, Live!TargetAmountOut,
         Local!DexView, Live!DexView,
         Local!Accepted, Live!Accepted, Local!Refused, Live!Refused, Local!Read, Live!Read

LEMMA SameContracts ==
  \A c, s, n, o : /\ Local!Original(c, s, n, o) = Live!Original(c, s, n, o)
                  /\ Local!Translated(c, s, n, o) = Live!Translated(c, s, n, o)
<1>1. ASSUME NEW c, NEW s, NEW n, NEW o
      PROVE  /\ Local!Original(c, s, n, o) = Live!Original(c, s, n, o)
             /\ Local!Translated(c, s, n, o) = Live!Translated(c, s, n, o)
  <2>1. /\ Local!TravelExecute(s, n, o) = Live!TravelExecute(s, n, o)
        /\ Local!TravelTarget(c, s, n, o) = Live!TravelTarget(c, s, n, o)
    BY SameTravel
  <2>2. /\ Local!TokenExecute(s, n, o) = Live!TokenExecute(s, n, o)
        /\ Local!TokenTarget(s, n, o) = Live!TokenTarget(s, n, o)
    BY SameToken
  <2>3. /\ Local!AuctionExecute(s, n, o) = Live!AuctionExecute(s, n, o)
        /\ Local!AuctionTarget(s, n, o) = Live!AuctionTarget(s, n, o)
    BY SameAuctions
  <2>4. /\ Local!DexExecute(s, n, o) = Live!DexExecute(s, n, o)
        /\ Local!DexTarget(s, n, o) = Live!DexTarget(s, n, o)
    BY SameDex
  <2>5. Local!Original(c, s, n, o) = Live!Original(c, s, n, o)
    BY <2>1, <2>2, <2>3, <2>4 DEF Local!Original, Live!Original, Local!Travel, Live!Travel
  <2>6. Local!Translated(c, s, n, o) = Live!Translated(c, s, n, o)
    BY <2>1, <2>2, <2>3, <2>4 DEF Local!Translated, Live!Translated, Local!Travel, Live!Travel
  <2>7. QED
    BY <2>5, <2>6
<1>2. QED
  BY <1>1

-----------------------------------------------------------------------------
(* run-rq2a.ts: a case on instances of its own.                            *)

LEMMA SameSums ==
  \A f : /\ Local!SumFunction(f) = SumFunction(f)
         /\ \A S : Local!SumFunctionOnSet(f, S) = SumFunctionOnSet(f, S)
  BY DEF Local!SumFunction, SumFunction, Local!SumFunctionOnSet, SumFunctionOnSet,
         Local!FoldFunctionOnSet, FoldFunctionOnSet, Local!MapThenFoldSet, MapThenFoldSet

LEMMA OneNamespace == Local!Here = 1
  BY DEF Local!Here

LEMMA LocalOps ==
  ASSUME NEW c \in Live!Contracts, NEW o \in Local!Operations(c)
  PROVE  Op(c, o, LocalDraws.lockIds, LocalDraws.auctionIds)
<1>1. /\ LocalDraws.amounts \subseteq Nat /\ LocalDraws.tokenAmounts \subseteq Nat
      /\ LocalDraws.dexAmounts \subseteq Nat
  BY RQ2Assumption DEF IsDraws
<1>2. CASE c \in Live!Travel
  <2>1. o \in Local!TravelOps
    BY <1>2 DEF Local!Operations, Local!Travel, Live!Travel
  <2>2. TravelOp(o, LocalDraws.lockIds)
    BY <1>1, <2>1 DEF Local!TravelOps, TravelOp
  <2>3. QED
    BY <1>2, <2>2 DEF Op, Live!Travel
<1>3. CASE c = "TokenTransfer"
  <2>1. o \in Local!TokenOps
    BY <1>3 DEF Local!Operations, Local!Travel
  <2>2. TokenOp(o)
    BY <1>1, <2>1 DEF Local!TokenOps, TokenOp
  <2>3. QED
    BY <1>3, <2>2 DEF Op, Live!Travel
<1>4. CASE c = "AuctionLogic"
  <2>1. o \in Local!AuctionOps
    BY <1>4 DEF Local!Operations, Local!Travel
  <2>2. AuctionOp(o, LocalDraws.auctionIds)
    BY <1>1, <2>1 DEF Local!AuctionOps, AuctionOp
  <2>3. QED
    BY <1>4, <2>2 DEF Op, Live!Travel
<1>5. CASE c = "DEXSwap"
  <2>1. o \in Local!DexOps
    BY <1>5 DEF Local!Operations, Local!Travel
  <2>2. DexOp(o)
    BY <1>1, <2>1 DEF Local!DexOps, DexOp
  <2>3. QED
    BY <1>5, <2>2 DEF Op, Live!Travel
<1>6. QED
  BY <1>2, <1>3, <1>4, <1>5 DEF Live!Contracts, Live!Travel

\* The books of a contract whose case began with rooms, or holds held.
Books(c, s, n, A, rooms, held) ==
  /\ c \in Live!Travel => TravelBooks(s, n, rooms)
  /\ c = "TokenTransfer" => SumFunction(s.balances[n]) = s.totalSupply
  /\ c = "AuctionLogic" => AuctionBooks(s, n, A, held)
  /\ c = "DEXSwap" => DexBooks(s, n)

\* An operation keeps the books, and what the generator can draw next finds
\* a sound state.
LEMMA BooksKept ==
  ASSUME NEW c \in Live!Contracts, NEW N, NEW L, IsFiniteSet(L), NEW A, IsFiniteSet(A),
         NEW s, State(c, s, N, L, A), NEW n \in N, NEW o, Op(c, o, L, A),
         NEW rooms, NEW held \in Nat, Books(c, s, n, A, rooms, held),
         NEW a, a = Live!Original(c, s, n, o)
  PROVE  /\ State(c, a.state, N, L, A)
         /\ Books(c, a.state, n, A, rooms, PaidIn(o, a, held)) /\ PaidIn(o, a, held) \in Nat
         /\ c \in Live!Travel => a.state.lockSize = s.lockSize
         /\ c = "DEXSwap" => Local!WorthKept(s, a.state)
<1>. IsFiniteSet(Users)
  BY RQ2Assumption
<1>1. PICK r : r = a.state
  OBVIOUS
<1>2. CASE c \in Live!Travel
  <2>1. TravelState(s, N, L) /\ TravelOp(o, L)
    BY <1>2 DEF State, Op
  <2>2. r = Live!TravelExecute(s, n, o).state
    BY <1>1, <1>2 DEF Live!Original, Live!Travel
  <2>3. TravelStep(s, n, o, r)
    BY <2>1, <2>2, TravelSteps
  <2>4. TravelState(r, N, L) /\ TravelFrame(s, n, o, r, N, L)
    BY <2>1, <2>3, TravelEffects
  <2>5. TravelBooks(s, n, rooms)
    BY <1>2 DEF Books
  <2>6. TravelBooks(r, n, rooms)
    BY <2>1, <2>3, <2>5, TravelKeepsBooks
  <2>7. PaidIn(o, a, held) = held
    BY <2>1 DEF TravelOp, PaidIn
  <2>8. QED
    BY <1>1, <1>2, <2>4, <2>6, <2>7 DEF State, Books, TravelFrame, Live!Travel
<1>3. CASE c = "TokenTransfer"
  <2>1. TokenState(s, N) /\ TokenOp(o)
    BY <1>3 DEF State, Op
  <2>2. r = Live!TokenExecute(s, n, o).state
    BY <1>1, <1>3 DEF Live!Original, Live!Travel
  <2>3. TokenStep(s, n, o, r)
    BY <2>1, <2>2, TokenSteps
  <2>4. /\ TokenState(r, N)
        /\ SumFunction(s.balances[n]) = s.totalSupply => SumFunction(r.balances[n]) = r.totalSupply
    BY <2>1, <2>3, TokenEffects
  <2>5. PaidIn(o, a, held) = held
    BY <2>1 DEF TokenOp, PaidIn
  <2>6. QED
    BY <1>1, <1>3, <2>4, <2>5 DEF State, Books, Live!Travel
<1>4. CASE c = "AuctionLogic"
  <2>1. AuctionState(s, N, A) /\ AuctionOp(o, A) /\ AuctionBooks(s, n, A, held)
    BY <1>4 DEF State, Op, Books
  <2>2. a = Live!AuctionExecute(s, n, o)
    BY <1>4 DEF Live!Original, Live!Travel
  <2>3. AuctionStep(s, n, o, r)
    BY <1>1, <2>1, <2>2, AuctionSteps
  <2>4. AuctionState(r, N, A)
    BY <2>1, <2>3, AuctionEffects
  <2>5. AuctionBooks(r, n, A, PaidIn(o, a, held))
    BY <1>1, <2>1, <2>2, AuctionKeepsBooks
  <2>6. PaidIn(o, a, held) \in Nat
    BY <2>4, <2>5, BooksHoldNat
  <2>7. QED
    BY <1>1, <1>4, <2>4, <2>5, <2>6 DEF State, Books, Live!Travel
<1>5. CASE c = "DEXSwap"
  <2>1. DexState(s, N) /\ DexOp(o) /\ DexBooks(s, n)
    BY <1>5 DEF State, Op, Books
  <2>2. r = Live!DexExecute(s, n, o).state
    BY <1>1, <1>5 DEF Live!Original, Live!Travel
  <2>3. DexStep(s, n, o, r)
    BY <2>1, <2>2, DexSteps
  <2>4. DexCovered(s, n)
    BY <2>1 DEF DexBooks, DexCovered, DexState
  <2>5. DexState(r, N)
    BY <2>1, <2>3, <2>4, DexEffects
  <2>6. DexBooks(r, n) /\ Local!WorthKept(s, r)
    BY <2>1, <2>3, DexKeepsBooks, DexKeepsWorth
  <2>7. PaidIn(o, a, held) = held
    BY <2>1 DEF DexOp, PaidIn
  <2>8. QED
    BY <1>1, <1>5, <2>5, <2>6, <2>7 DEF State, Books, Live!Travel
<1>6. QED
  BY <1>2, <1>3, <1>4, <1>5 DEF Live!Contracts, Live!Travel

\* A case begins with two sound states that are equal and balanced.
LEMMA CaseBegins ==
  ASSUME contract \in Live!Contracts, NEW i \in Local!Initials(contract)
  PROVE  /\ Local!Deployed(i) = Local!Model(i)
         /\ State(contract, Local!Model(i), {1}, LocalDraws.lockIds, LocalDraws.auctionIds)
         /\ Books(contract, Local!Model(i), 1, LocalDraws.auctionIds, i.remain, 0)
         /\ contract \in Live!Travel => Local!Model(i).lockSize = i.lockSize
<1>. DEFINE L == LocalDraws.lockIds
            A == LocalDraws.auctionIds
<1>. IsFiniteSet(Users) /\ IsFiniteSet(L) /\ IsFiniteSet(A)
  BY RQ2Assumption DEF IsDraws
<1>. PICK s : s = Local!Model(i)
  OBVIOUS
<1>. DEFINE zeros == [u \in Users |-> 0]
<1>1. SumFunction(zeros) = 0
  BY FunctionSumOfZeros
<1>2. CASE contract \in Live!Travel
  <2>1. i.price \in Nat \ {0} /\ i.remain \in Nat /\ i.lockSize \in Nat \ {0}
    BY <1>2, RQ2Assumption DEF Local!Initials, Local!Travel, Live!Travel, IsDraws
  <2>2. s = Local!NewTravel(i)
    BY <1>2 DEF Local!Model, Local!Travel, Live!Travel
  <2>3. s = [price |-> i.price, remain |-> i.remain, lockSize |-> i.lockSize, lockedTotal |-> 0,
             accounts |-> [n \in {1} |-> zeros], bookings |-> [n \in {1} |-> zeros],
             locks |-> [n \in {1} |-> [l \in L |-> 0]]]
    BY <2>1, <2>2 DEF Local!NewTravel, Local!ForAllUsers
  <2>4. TravelState(s, {1}, L) /\ s.lockSize = i.lockSize
    BY <2>1, <2>3 DEF TravelState
  <2>5. SumFunction([l \in L |-> 0]) = 0
    BY FunctionSumOfZeros
  <2>6. TravelBooks(s, 1, i.remain)
    <3>1. /\ s.remain = i.remain /\ s.lockedTotal = 0 /\ s.price = i.price
          /\ s.bookings[1] = zeros /\ s.accounts[1] = zeros /\ s.locks[1] = [l \in L |-> 0]
      BY <2>3
    <3>2. s.remain + SumFunction(s.bookings[1]) = i.remain
      BY <1>1, <2>1, <3>1
    <3>3. s.lockedTotal = SumFunction(s.locks[1])
      BY <2>5, <3>1
    <3>4. \A u \in Users : s.accounts[1][u] = s.price * s.bookings[1][u]
      BY <2>1, <3>1
    <3>5. QED
      BY <3>2, <3>3, <3>4 DEF TravelBooks
  <2>7. Local!Deployed(i) = s
    <3>1. Local!ResetHotel(s, i) = s /\ Local!ResetTrain(s, i) = s
      <4>1. /\ s = [x \in DOMAIN s |-> s[x]]
            /\ DOMAIN s = {"price", "remain", "lockSize", "lockedTotal", "accounts", "bookings",
                          "locks"}
        BY <2>3
      <4>2. /\ s.price = i.price /\ s.remain = i.remain /\ s.lockSize = i.lockSize
            /\ s.lockedTotal = 0 /\ i.lockSize # 0
        BY <2>1, <2>3
      <4>3. Local!ResetHotel(s, i) = s
        BY <4>1, <4>2 DEF Local!ResetHotel, Local!ResetHotelTotal, Local!ResetHotelMeta
      <4>4. Local!ResetTrain(s, i) = s
        BY <4>1, <4>2 DEF Local!ResetTrain
      <4>5. QED
        BY <4>3, <4>4
    <3>2. QED
      BY <1>2, <2>2, <3>1 DEF Local!Deployed, Live!Travel
  <2>8. QED
    BY <1>2, <2>4, <2>6, <2>7 DEF State, Books, Live!Travel
<1>3. CASE contract = "TokenTransfer"
  <2>1. i \in [Users -> Nat]
    BY <1>3, RQ2Assumption DEF Local!Initials, Local!Travel, IsDraws
  <2>2. SumFunction(i) \in Nat
    BY <2>1, FunctionSumIsNat
  <2>3. Local!NewToken = [totalSupply |-> 0, balances |-> [n \in {1} |-> zeros],
                          allowances |-> [n \in {1} |-> [p \in Users \X Users |-> 0]]]
    BY DEF Local!NewToken, Local!ForAllUsers
  <2>9. PICK sum : sum = SumFunction(i)
    OBVIOUS
  <2>10. s = [Local!NewToken EXCEPT !.balances[1] = i, !.totalSupply = sum]
    <3>1. PICK h : h = Local!Here
      OBVIOUS
    <3>2. s = [Local!NewToken EXCEPT !.balances[h] = i, !.totalSupply = sum]
      BY <1>3, <2>9, <3>1, SameSums DEF Local!Model, Local!TokenModel, Local!Travel
    <3>3. QED
      BY <3>1, <3>2, OneNamespace
  <2>4. s = [totalSupply |-> sum, balances |-> [n \in {1} |-> i],
             allowances |-> [n \in {1} |-> [p \in Users \X Users |-> 0]]]
    <3>1. PICK zero : zero = [p \in Users \X Users |-> 0]
      OBVIOUS
    <3>2. PICK t : t = [totalSupply |-> 0, balances |-> [n \in {1} |-> zeros],
                        allowances |-> [n \in {1} |-> zero]]
      OBVIOUS
    <3>3. s = [t EXCEPT !.balances[1] = i, !.totalSupply = sum]
      BY <2>3, <2>10, <3>1, <3>2
    <3>4. s = [totalSupply |-> sum, balances |-> [n \in {1} |-> i], allowances |-> [n \in {1} |-> zero]]
      <4>1. PICK b, c : b = [n \in {1} |-> zeros] /\ c = [n \in {1} |-> zero]
        OBVIOUS
      <4>2. [b EXCEPT ![1] = i] = [n \in {1} |-> i]
        BY <4>1
      <4>3. t = [totalSupply |-> 0, balances |-> b, allowances |-> c]
        BY <3>2, <4>1
      <4>4. s = [totalSupply |-> sum, balances |-> [b EXCEPT ![1] = i], allowances |-> c]
        BY <3>3, <4>3
      <4>5. QED
        BY <4>1, <4>2, <4>4
    <3>5. QED
      BY <3>1, <3>4
  <2>5. TokenState(s, {1})
    BY <2>1, <2>2, <2>4, <2>9 DEF TokenState
  <2>6. SumFunction(s.balances[1]) = s.totalSupply
    BY <2>4, <2>9
  <2>7. Local!Deployed(i) = s
    <3>1. sum = SumFunctionOnSet(i, Users)
      BY <2>1, <2>9 DEF SumFunction
    <3>3. PICK given : given = [u \in Users |-> zeros[u] + IF u \in Users THEN i[u] ELSE 0]
      OBVIOUS
    <3>4. given = i
      BY <2>1, <3>3
    <3>5. PICK h : h = Local!Here
      OBVIOUS
    <3>6. Local!Deployed(i)
            = [Local!NewToken EXCEPT
                 !.balances[h] = [u \in Users |-> @[u] + IF u \in Users THEN i[u] ELSE 0],
                 !.totalSupply = @ + sum]
      BY <1>3, <3>1, <3>5, SameSums DEF Local!Deployed, Local!TokenDeployed, Local!Minted
    <3>7. Local!NewToken.balances[1] = zeros /\ Local!NewToken.totalSupply = 0
      BY <2>3
    <3>8. Local!Deployed(i) = [Local!NewToken EXCEPT !.balances[1] = given, !.totalSupply = sum]
      <4>1. h = 1 /\ 0 + sum = sum
        BY <2>2, <2>9, <3>5, OneNamespace
      <4>2. PICK credit : credit = [u \in Users |-> Local!NewToken.balances[h][u]
                                                    + IF u \in Users THEN i[u] ELSE 0]
        OBVIOUS
      <4>3. credit = given
        BY <3>3, <3>7, <4>1, <4>2
      <4>4. PICK total : total = Local!NewToken.totalSupply + sum
        OBVIOUS
      <4>5. total = sum
        BY <3>7, <4>1, <4>4
      <4>6. Local!Deployed(i)
              = [Local!NewToken EXCEPT !.balances[h] = credit, !.totalSupply = total]
        BY <3>6, <4>2, <4>4
      <4>7. QED
        BY <4>1, <4>3, <4>5, <4>6
    <3>9. QED
      BY <2>10, <3>4, <3>8
  <2>8. QED
    BY <1>3, <2>5, <2>6, <2>7 DEF State, Books, Live!Travel
<1>4. CASE contract = "AuctionLogic"
  <2>1. s = Local!NewAuctions /\ Local!Deployed(i) = s
    BY <1>4 DEF Local!Model, Local!Deployed, Local!Travel
  <2>2. s = [auctions |-> [n \in {1} |-> [x \in A |-> Local!NoAuction]],
             pending |-> [n \in {1} |-> zeros]]
    BY <2>1 DEF Local!NewAuctions, Local!ForAllUsers
  <2>3. AuctionRecord(Local!NoAuction) /\ ~Local!NoAuction.open
    BY DEF Local!NoAuction, AuctionRecord, Party
  <2>4. AuctionState(s, {1}, A)
    BY <2>2, <2>3 DEF AuctionState
  <2>5. Standing(s, 1, A) = [x \in A |-> 0] /\ s.pending[1] = zeros
    BY <2>2, <2>3 DEF Standing
  <2>6. SumFunction([x \in A |-> 0]) = 0
    BY FunctionSumOfZeros
  <2>7. AuctionBooks(s, 1, A, 0)
    BY <1>1, <2>5, <2>6 DEF AuctionBooks
  <2>8. QED
    BY <1>4, <2>1, <2>4, <2>7 DEF State, Books, Live!Travel
<1>5. CASE contract = "DEXSwap"
  <2>1. s = Local!NewDex /\ Local!Deployed(i) = s
    BY <1>5 DEF Local!Model, Local!Deployed, Local!Travel
  <2>2. s = [reserveA |-> 0, reserveB |-> 0, totalShares |-> 0, shares |-> [n \in {1} |-> zeros]]
    BY <2>1 DEF Local!NewDex, Local!ForAllUsers
  <2>3. DexState(s, {1})
    BY <2>2 DEF DexState
  <2>4. DexBooks(s, 1)
    BY <1>1, <2>2 DEF DexBooks
  <2>5. QED
    BY <1>5, <2>1, <2>3, <2>4 DEF State, Books, Live!Travel
<1>6. QED
  BY <1>2, <1>3, <1>4, <1>5 DEF Live!Contracts, Live!Travel

\* Equal states give equal snapshots, when the lock size is the case's own.
LEMMA SnapshotsAgree ==
  ASSUME NEW c \in Live!Contracts, NEW N, NEW L, NEW A, NEW s, State(c, s, N, L, A), NEW n,
         NEW i, c \in Live!Travel => s.lockSize = i.lockSize, NEW t
  PROVE  Local!OriginalSnapshot(c, s, n, t) = Local!TranslatedSnapshot(c, s, n, i, t)
<1>1. CASE c \in Live!Travel
  <2>1. TravelState(s, N, L)
    BY <1>1 DEF State
  <2>2. Live!availableUnits(s) = Live!availableRemain(s)
    BY <2>1, AvailableAgrees
  <2>3. Local!availableUnits(s) = Local!availableRemain(s)
    BY <2>2 DEF Local!availableUnits, Live!availableUnits, Local!availableRemain,
                Live!availableRemain, Local!Monus, Live!Monus
  <2>4. PICK have : have = Local!availableUnits(s)
    OBVIOUS
  <2>5. PICK entries : entries = Local!TravelEntries(s, n, s.lockSize, t, have)
    OBVIOUS
  <2>6. c \in Local!Travel
    BY <1>1 DEF Local!Travel, Live!Travel
  <2>7. Local!OriginalSnapshot(c, s, n, t) = Local!CanonicalSnapshot(c, entries)
    BY <2>3, <2>4, <2>5, <2>6 DEF Local!OriginalSnapshot, Local!Travel
  <2>8. Local!TranslatedSnapshot(c, s, n, i, t) = Local!CanonicalSnapshot(c, entries)
    BY <1>1, <2>4, <2>5, <2>6 DEF Local!TranslatedSnapshot, Local!Travel
  <2>9. QED
    BY <2>7, <2>8
<1>2. CASE c \in {"TokenTransfer", "AuctionLogic", "DEXSwap"}
  BY <1>2 DEF Local!OriginalSnapshot, Local!TranslatedSnapshot, Local!Travel
<1>3. QED
  BY <1>1, <1>2 DEF Live!Contracts, Live!Travel

LEMMA TouchedUsers ==
  ASSUME NEW c \in Live!Contracts, NEW L, NEW A, NEW o, Op(c, o, L, A)
  PROVE  Local!Touched(c, o).users \subseteq Users
<1>1. Local!Touched(c, o).users = Local!TouchedUsers(c, o)
  BY DEF Local!Touched
<1>2. CASE c \in Live!Travel
  <2>1. TravelOp(o, L)
    BY <1>2 DEF Op
  <2>2. Local!TouchedUsers(c, o) = {o[f] : f \in {"user"} \cap DOMAIN o}
    BY <1>2 DEF Local!TouchedUsers, Local!NamesIn, Local!Travel, Live!Travel
  <2>3. "user" \in DOMAIN o => o["user"] \in Users
    BY <2>1 DEF TravelOp
  <2>4. QED
    BY <1>1, <2>2, <2>3
<1>3. CASE c = "TokenTransfer"
  <2>1. TokenOp(o)
    BY <1>3 DEF Op
  <2>2. Local!TouchedUsers(c, o)
          = {o[f] : f \in {"user", "to", "from", "owner", "spender"} \cap DOMAIN o}
    BY <1>3 DEF Local!TouchedUsers, Local!NamesIn, Local!Travel
  <2>3. \A f \in {"user", "to", "from", "owner", "spender"} : f \in DOMAIN o => o[f] \in Users
    BY <2>1 DEF TokenOp
  <2>4. QED
    BY <1>1, <2>2, <2>3
<1>4. CASE c = "AuctionLogic"
  <2>1. AuctionOp(o, A)
    BY <1>4 DEF Op
  <2>2. Local!TouchedUsers(c, o) = {o[f] : f \in {"seller", "bidder", "user"} \cap DOMAIN o}
    BY <1>4 DEF Local!TouchedUsers, Local!NamesIn, Local!Travel
  <2>3. \A f \in {"seller", "bidder", "user"} : f \in DOMAIN o => o[f] \in Users
    BY <2>1 DEF AuctionOp
  <2>4. QED
    BY <1>1, <2>2, <2>3
<1>5. CASE c = "DEXSwap"
  <2>1. DexOp(o)
    BY <1>5 DEF Op
  <2>2. Local!TouchedUsers(c, o) = {o[f] : f \in {"user"} \cap DOMAIN o}
    BY <1>5 DEF Local!TouchedUsers, Local!NamesIn, Local!Travel
  <2>3. "user" \in DOMAIN o => o["user"] \in Users
    BY <2>1 DEF DexOp
  <2>4. QED
    BY <1>1, <2>2, <2>3
<1>6. QED
  BY <1>2, <1>3, <1>4, <1>5 DEF Live!Contracts, Live!Travel

\* The keys a case touches, of which only users of the case are users.
Keys == {"users", "locks", "pairs", "ids"}
IsTouched(t) == DOMAIN t = Keys /\ t.users \subseteq Users

LEMMA TouchedTypes ==
  ASSUME NEW c \in Live!Contracts
  PROVE  /\ IsTouched(Local!TouchedAtFirst(c))
         /\ \A t, o, L, A : IsTouched(t) /\ Op(c, o, L, A) =>
                              IsTouched(Local!Also(t, Local!Touched(c, o)))
<1>1. IsTouched(Local!TouchedAtFirst(c))
  BY DEF IsTouched, Local!TouchedAtFirst, Keys
<1>2. ASSUME NEW t, NEW o, NEW L, NEW A, IsTouched(t), Op(c, o, L, A)
      PROVE  IsTouched(Local!Also(t, Local!Touched(c, o)))
  <2>1. PICK more : more = Local!Touched(c, o)
    OBVIOUS
  <2>2. more.users \subseteq Users
    BY <1>2, <2>1, TouchedUsers
  <2>3. QED
    BY <1>2, <2>1, <2>2 DEF IsTouched, Local!Also, Keys
<1>3. QED
  BY <1>1, <1>2

\* A case under way has two instances in the same sound and balanced state,
\* and those before it passed.
LocalInv ==
  /\ contract \in Live!Contracts
  /\ step \in {"off", "case", "ops"}
  /\ launches \in 0..MaxLaunches /\ ops \in 0..MaxOps /\ escrow \in Nat
  /\ results \in Seq(Local!Outcomes) /\ Len(results) <= NCases
  /\ Len(file) \in {0, NCases}
  /\ Local!EveryCasePasses
  /\ IsTouched(touched)
  /\ step # "ops" => touched = Local!TouchedAtFirst(contract) /\ ops = 0 /\ escrow = 0
  /\ step = "ops" =>
       /\ Len(results) < NCases
       /\ translated = original
       /\ State(contract, original, {1}, LocalDraws.lockIds, LocalDraws.auctionIds)
       /\ Books(contract, original, 1, LocalDraws.auctionIds, init.remain, escrow)
       /\ contract \in Live!Travel => original.lockSize = init.lockSize

LEMMA LocalInit == Local!Init => LocalInv
<1>1. SUFFICES ASSUME Local!Init PROVE LocalInv
  OBVIOUS
<1>2. contract \in Live!Contracts /\ touched = Local!TouchedAtFirst(contract)
  BY <1>1 DEF Local!Init, Local!Contracts, Live!Contracts
<1>3. IsTouched(touched)
  BY <1>2, TouchedTypes
<1>4. Len(<<>>) = 0 /\ <<>> \in Seq(Local!Outcomes) /\ DOMAIN <<>> = {}
  OBVIOUS
<1>5. QED
  BY <1>1, <1>2, <1>3, <1>4, RQ2Assumption DEF Local!Init, LocalInv, Local!EveryCasePasses

\* What the operation of a case under way does.
LEMMA LocalOperate ==
  ASSUME LocalInv, NEW o \in Local!Operations(contract), Local!Operate(o)
  PROVE  LocalInv' /\ (contract = "DEXSwap" => Local!WorthKept(original, original')
                                               /\ Local!WorthKept(translated, translated'))
<1>. DEFINE L == LocalDraws.lockIds
            A == LocalDraws.auctionIds
<1>. IsFiniteSet(L) /\ IsFiniteSet(A)
  BY RQ2Assumption DEF IsDraws
<1>1. PICK a : a = Live!Original(contract, original, 1, o)
  OBVIOUS
<1>2. step = "ops" /\ translated = original /\ contract \in Live!Contracts /\ escrow \in Nat
  BY DEF Local!Operate, LocalInv
<1>3. /\ State(contract, original, {1}, L, A)
      /\ Books(contract, original, 1, A, init.remain, escrow)
      /\ contract \in Live!Travel => original.lockSize = init.lockSize
  BY <1>2 DEF LocalInv
<1>4. Op(contract, o, L, A)
  BY <1>2, LocalOps
<1>5. Local!Original(contract, original, Local!Here, o) = a
  BY <1>1, SameContracts, OneNamespace
<1>6. Local!Translated(contract, translated, Local!Here, o) = a
  <2>1. Live!Translated(contract, original, 1, o) = a
    <3>1. 1 \in {1}
      OBVIOUS
    <3>2. QED
      BY <1>1, <1>2, <1>3, <1>4, <3>1, TranslationAgrees
  <2>2. QED
    BY <1>2, <2>1, SameContracts, OneNamespace
<1>7. /\ ops < MaxOps /\ ops' = ops + 1
      /\ original' = a.state /\ translated' = a.state
      /\ touched' = Local!Also(touched, Local!Touched(contract, o))
      /\ escrow' = Local!Paid(o, a)
      /\ UNCHANGED <<contract, launches, file, step, results, init>>
  BY <1>5, <1>6 DEF Local!Operate, Local!SameResult
<1>8. escrow' = PaidIn(o, a, escrow)
  BY <1>7 DEF Local!Paid, PaidIn
<1>9. /\ State(contract, a.state, {1}, L, A)
      /\ Books(contract, a.state, 1, A, init.remain, PaidIn(o, a, escrow))
      /\ PaidIn(o, a, escrow) \in Nat
      /\ contract \in Live!Travel => a.state.lockSize = original.lockSize
      /\ contract = "DEXSwap" => Local!WorthKept(original, a.state)
  <2>1. 1 \in {1}
    OBVIOUS
  <2>2. QED
    BY <1>1, <1>2, <1>3, <1>4, <2>1, BooksKept
<1>10. IsTouched(touched')
  BY <1>2, <1>4, <1>7, TouchedTypes DEF LocalInv
<1>11. ops' \in 0..MaxOps
  BY <1>7, RQ2Assumption DEF LocalInv
<1>12. LocalInv'
  BY <1>2, <1>3, <1>7, <1>8, <1>9, <1>10, <1>11 DEF LocalInv, Local!EveryCasePasses
<1>13. QED
  BY <1>2, <1>7, <1>9, <1>12

LEMMA LocalBeginCase == LocalInv /\ Local!BeginCase => LocalInv'
<1>1. SUFFICES ASSUME LocalInv, Local!BeginCase PROVE LocalInv'
  OBVIOUS
<1>2. contract \in Live!Contracts /\ step = "case" /\ Len(results) < NCases
  BY <1>1 DEF LocalInv, Local!BeginCase
<1>3. PICK i \in Local!Initials(contract) :
        init' = i /\ original' = Local!Model(i) /\ translated' = Local!Deployed(i)
  BY <1>1 DEF Local!BeginCase
<1>4. step' = "ops" /\ UNCHANGED <<contract, launches, results, file, touched, ops, escrow>>
  BY <1>1 DEF Local!BeginCase
<1>5. /\ Local!Deployed(i) = Local!Model(i)
      /\ State(contract, Local!Model(i), {1}, LocalDraws.lockIds, LocalDraws.auctionIds)
      /\ Books(contract, Local!Model(i), 1, LocalDraws.auctionIds, i.remain, 0)
      /\ contract \in Live!Travel => Local!Model(i).lockSize = i.lockSize
  BY <1>2, CaseBegins
<1>6. escrow = 0
  BY <1>1, <1>2 DEF LocalInv
<1>7. QED
  BY <1>1, <1>2, <1>3, <1>4, <1>5, <1>6 DEF LocalInv, Local!EveryCasePasses

LEMMA LocalFinishCase == LocalInv /\ Local!FinishCase => LocalInv'
<1>1. SUFFICES ASSUME LocalInv, Local!FinishCase PROVE LocalInv'
  OBVIOUS
<1>2. /\ contract \in Live!Contracts /\ step = "ops" /\ Len(results) < NCases
      /\ translated = original
      /\ State(contract, original, {1}, LocalDraws.lockIds, LocalDraws.auctionIds)
      /\ contract \in Live!Travel => original.lockSize = init.lockSize
  BY <1>1 DEF LocalInv, Local!FinishCase
<1>3. Local!SameSnapshots
  BY <1>2, SnapshotsAgree DEF Local!SameSnapshots
<1>4. /\ results' = Append(results, [pass |-> TRUE, category |-> "none"])
      /\ step' = "case" /\ UNCHANGED <<contract, launches, file>>
      /\ touched' = Local!TouchedAtFirst(contract) /\ ops' = 0 /\ escrow' = 0
  BY <1>1, <1>3 DEF Local!FinishCase, Local!Dropped
<1>5. results \in Seq(Local!Outcomes)
  BY <1>1 DEF LocalInv
<1>6. /\ results' \in Seq(Local!Outcomes)
      /\ Len(results') = Len(results) + 1
      /\ \A i \in DOMAIN results' : \/ i \in DOMAIN results /\ results'[i] = results[i]
                                    \/ results'[i] = [pass |-> TRUE, category |-> "none"]
  <2>1. PICK r : r = [pass |-> TRUE, category |-> "none"]
    OBVIOUS
  <2>2. r \in Local!Outcomes
    BY <2>1 DEF Local!Outcomes
  <2>3. results' = Append(results, r)
    BY <1>4, <2>1
  <2>4. /\ Append(results, r) \in Seq(Local!Outcomes)
        /\ Len(Append(results, r)) = Len(results) + 1
        /\ \A i \in 1..Len(results) : Append(results, r)[i] = results[i]
        /\ Append(results, r)[Len(results) + 1] = r
    BY <1>5, <2>2, AppendProperties
  <2>5. /\ DOMAIN results = 1..Len(results) /\ Len(results) \in Nat
        /\ DOMAIN results' = 1..(Len(results) + 1)
    BY <1>5, <2>3, <2>4
  <2>6. QED
    BY <2>1, <2>3, <2>4, <2>5
<1>7. Len(results') <= NCases
  BY <1>2, <1>5, <1>6, RQ2Assumption
<1>8. \A i \in DOMAIN results' : results'[i].pass
  BY <1>1, <1>6 DEF LocalInv, Local!EveryCasePasses
<1>9. IsTouched(touched')
  BY <1>2, <1>4, TouchedTypes
<1>10. QED
  BY <1>1, <1>2, <1>4, <1>6, <1>7, <1>8, <1>9, RQ2Assumption DEF LocalInv, Local!EveryCasePasses

LEMMA LocalOthers ==
  LocalInv /\ (Local!Launch \/ Local!WriteResults \/ Local!Die \/ UNCHANGED Local!vars)
    => LocalInv'
<1>1. CASE LocalInv /\ Local!Launch
  <2>1. /\ results' = <<>> /\ step' = "case" /\ launches' = launches + 1 /\ launches < MaxLaunches
        /\ step = "off" /\ UNCHANGED <<contract, file, init, original, translated, touched, ops, escrow>>
    BY <1>1 DEF Local!Launch, Local!caseVars
  <2>2. Len(<<>>) = 0 /\ <<>> \in Seq(Local!Outcomes) /\ DOMAIN <<>> = {}
    OBVIOUS
  <2>3. launches' \in 0..MaxLaunches /\ 0 <= NCases
    BY <1>1, <2>1, RQ2Assumption DEF LocalInv
  <2>4. QED
    BY <1>1, <2>1, <2>2, <2>3 DEF LocalInv, Local!EveryCasePasses
<1>2. CASE LocalInv /\ Local!WriteResults
  <2>1. /\ step = "case" /\ step' = "off" /\ file' = results /\ Len(results) = NCases
        /\ UNCHANGED <<contract, launches, results, init, original, translated, touched, ops, escrow>>
    BY <1>2 DEF Local!WriteResults, Local!caseVars
  <2>2. QED
    BY <1>2, <2>1 DEF LocalInv, Local!EveryCasePasses
<1>3. CASE LocalInv /\ Local!Die
  <2>1. /\ step' = "off" /\ UNCHANGED <<contract, launches, results, file>>
        /\ touched' = Local!TouchedAtFirst(contract) /\ ops' = 0 /\ escrow' = 0
    BY <1>3 DEF Local!Die, Local!Dropped
  <2>2. IsTouched(touched')
    BY <1>3, <2>1, TouchedTypes DEF LocalInv
  <2>3. QED
    BY <1>3, <2>1, <2>2, RQ2Assumption DEF LocalInv, Local!EveryCasePasses
<1>4. CASE LocalInv /\ UNCHANGED Local!vars
  BY <1>4 DEF LocalInv, Local!vars, Local!EveryCasePasses
<1>5. QED
  BY <1>1, <1>2, <1>3, <1>4

LEMMA LocalKept == LocalInv /\ [Local!Next]_(Local!vars) => LocalInv'
  BY LocalOperate, LocalBeginCase, LocalFinishCase, LocalOthers DEF Local!Next

\* What the invariant says of the properties of the run.
LEMMA LocalMeans == LocalInv => Local!TypeOK /\ Local!EveryCasePasses /\ Local!LedgersBalance
<1>1. SUFFICES ASSUME LocalInv PROVE Local!TypeOK /\ Local!LedgersBalance
  BY DEF LocalInv
<1>2. Local!TypeOK
  BY <1>1 DEF LocalInv, Local!TypeOK, IsTouched, Local!Contracts, Live!Contracts
<1>3. ASSUME step = "ops" PROVE Local!Balanced(original) /\ Local!Balanced(translated)
  <2>1. /\ contract \in Live!Contracts /\ translated = original
        /\ Books(contract, original, 1, LocalDraws.auctionIds, init.remain, escrow)
    BY <1>1, <1>3 DEF LocalInv
  <2>2. Local!Balanced(original)
    BY <2>1, OneNamespace, SameSums
       DEF Books, TravelBooks, AuctionBooks, Standing, DexBooks, Local!Balanced,
           Local!Travel, Live!Travel, Live!Contracts
  <2>3. QED
    BY <2>1, <2>2
<1>4. QED
  BY <1>2, <1>3 DEF Local!LedgersBalance
-----------------------------------------------------------------------------
(* What the invariant of run-rq2a shows about it.                          *)

LocalRunnerInv == runner = "local" => LocalInv

LEMMA RestsBetweenSteps == UNCHANGED vars => UNCHANGED Local!vars /\ UNCHANGED runner
  BY DEF vars, Local!vars, Live!vars, Live!chains

LEMMA LocalRunner == Spec => []LocalRunnerInv
<1>1. Init => LocalRunnerInv
  BY LocalInit DEF Init, LocalRunnerInv
<1>2. LocalRunnerInv /\ [Next]_vars => LocalRunnerInv'
  <2>1. SUFFICES ASSUME LocalRunnerInv, [Next]_vars, runner' = "local"
                 PROVE  LocalInv'
    BY DEF LocalRunnerInv
  <2>2. runner = "local" /\ [Local!Next]_(Local!vars)
    BY <2>1, RestsBetweenSteps DEF Next
  <2>3. QED
    BY <2>1, <2>2, LocalKept DEF LocalRunnerInv
<1>3. QED
  BY <1>1, <1>2, PTL DEF Spec

\* run-rq2a: the translated contracts answer every sequence of operations
\* the generator can draw as the source's models do and end in the same
\* snapshots, so every case passes, for any users, draws and bounds.
THEOREM EveryCasePassesAlways == Spec => []EveryCasePasses
<1>1. LocalRunnerInv => EveryCasePasses
  BY LocalMeans DEF LocalRunnerInv, EveryCasePasses
<1>2. QED
  BY <1>1, LocalRunner, PTL

\* run-rq2a: in both instances of a case the books of the contract balance
\* after every operation: rooms, locks, supply, bids and shares add up.
THEOREM LedgersAlwaysBalance == Spec => []LedgersBalance
<1>1. LocalRunnerInv => LedgersBalance
  BY LocalMeans DEF LocalRunnerInv, LedgersBalance
<1>2. QED
  BY <1>1, LocalRunner, PTL

\* run-rq2a: no operation of the pool lowers the product of the reserves
\* over the square of the shares, although every division rounds.
THEOREM SharesNeverDiluted == Spec => NeverDiluted
<1>1. LocalRunnerInv /\ [Next]_vars => [runner = "local" => Local!WorthKeptHere]_vars
  <2>1. SUFFICES ASSUME LocalRunnerInv, Next, runner = "local", contract = "DEXSwap",
                        step = "ops", step' = "ops"
                 PROVE  /\ Local!WorthKept(original, original')
                        /\ Local!WorthKept(translated, translated')
    BY DEF Local!WorthKeptHere
  <2>2. LocalInv /\ Local!Next
    BY <2>1 DEF LocalRunnerInv, Next
  <2>3. PICK o \in Local!Operations(contract) : Local!Operate(o)
    BY <2>1, <2>2 DEF Local!Next, Local!Launch, Local!BeginCase, Local!FinishCase, Local!Fail,
                      Local!WriteResults, Local!Die
  <2>4. QED
    BY <2>1, <2>2, <2>3, LocalOperate
<1>2. QED
  BY <1>1, LocalRunner, PTL DEF Spec, NeverDiluted
-----------------------------------------------------------------------------
(* run-rq2a-vm-full.ts: the results and the file.                          *)

LEMMA LeastInteger ==
  ASSUME NEW n \in Nat, NEW B, B \subseteq 0..n, B # {}
  PROVE  \E m \in B : \A k \in B : m <= k
<1>. DEFINE Below(i) == 0..i
<1>1. PICK C : C = {Below(i) : i \in B}
  OBVIOUS
<1>2. IsFiniteSet(0..n) /\ C \subseteq SUBSET (0..n) /\ C # {}
  <2>1. \A i \in B : Below(i) \subseteq 0..n
    OBVIOUS
  <2>2. C \subseteq SUBSET (0..n) /\ C # {}
    BY <1>1, <2>1
  <2>3. QED
    BY <2>2, FS_Interval
<1>3. PICK T \in C : \A U \in SUBSET T : U # T => U \notin C
  BY <1>2, SmallestSubset
<1>4. PICK m \in B : T = Below(m)
  BY <1>1, <1>3
<1>5. ASSUME NEW k \in B, ~(m <= k) PROVE FALSE
  <2>1. k < m /\ k \in Nat /\ m \in Nat
    BY <1>5
  <2>2. Below(k) \in SUBSET T /\ Below(k) # T
    <3>1. m \in Below(m) /\ m \notin Below(k)
      BY <2>1
    <3>2. QED
      BY <1>4, <2>1, <3>1
  <2>3. Below(k) \in C
    BY <1>1
  <2>4. QED
    BY <1>3, <2>2, <2>3
<1>6. QED
  BY <1>5

\* The filter of results keeps a list whose cases are all cases of the run.
LEMMA AllIsKept ==
  ASSUME NEW T, NEW rs \in Seq(T), \A i \in DOMAIN rs : rs[i].case \in 1..NCases
  PROVE  Live!KeptOf(rs) = rs
<1>. DEFINE F(f) == [i \in 0..Len(rs) |->
                       IF i = 0 THEN <<>>
                       ELSE IF rs[i].case \in 1..NCases THEN Append(f[i - 1], rs[i])
                            ELSE f[i - 1]]
            g == [i \in 0..Len(rs) |-> SubSeq(rs, 1, i)]
            kept == CHOOSE f : f = F(f)
<1>1. Len(rs) \in Nat /\ DOMAIN rs = 1..Len(rs)
  OBVIOUS
<1>2. Live!KeptOf(rs) = kept[Len(rs)]
  BY DEF Live!KeptOf
<1>3. \A i \in 1..Len(rs) : Append(SubSeq(rs, 1, i - 1), rs[i]) = SubSeq(rs, 1, i)
  <2>1. TAKE i \in 1..Len(rs)
  <2>2. SubSeq(rs, 1, i) = SubSeq(rs, 1, i - 1) \o <<rs[i]>>
    BY <1>1, SubSeqRecursiveSecond
  <2>3. SubSeq(rs, 1, i - 1) \in Seq(T) /\ rs[i] \in T
    BY <1>1, SubSeqProperties
  <2>4. QED
    BY <2>2, <2>3, AppendIsConcat
<1>4. g = F(g)
  <2>1. ASSUME NEW i \in 0..Len(rs) PROVE g[i] = F(g)[i]
    <3>1. CASE i = 0
      BY <1>1, <3>1
    <3>2. CASE i # 0
      <4>1. i \in 1..Len(rs) /\ i - 1 \in 0..Len(rs)
        BY <1>1, <3>2
      <4>2. rs[i].case \in 1..NCases
        BY <1>1, <4>1
      <4>3. F(g)[i] = Append(SubSeq(rs, 1, i - 1), rs[i])
        BY <3>2, <4>1, <4>2
      <4>4. QED
        BY <1>3, <4>1, <4>3
    <3>3. QED
      BY <3>1, <3>2
  <2>2. QED
    BY <2>1
<1>5. kept = F(kept)
  BY <1>4
<1>6. \A i \in 0..Len(rs) : kept[i] = g[i]
  <2>. HIDE DEF kept
  <2>1. SUFFICES ASSUME {i \in 0..Len(rs) : kept[i] # g[i]} # {} PROVE FALSE
    OBVIOUS
  <2>2. PICK m \in {i \in 0..Len(rs) : kept[i] # g[i]} :
          \A k \in {i \in 0..Len(rs) : kept[i] # g[i]} : m <= k
    BY <1>1, <2>1, LeastInteger
  <2>3. kept[m] = F(kept)[m] /\ g[m] = F(g)[m]
    BY <1>4, <1>5
  <2>4. CASE m = 0
    BY <2>2, <2>3, <2>4
  <2>5. CASE m # 0
    <3>1. m \in 1..Len(rs) /\ m - 1 \in 0..Len(rs) /\ ~(m <= m - 1)
      BY <1>1, <2>2, <2>5
    <3>2. kept[m - 1] = g[m - 1]
      BY <2>2, <3>1
    <3>3. rs[m].case \in 1..NCases
      BY <1>1, <3>1
    <3>4. kept[m] = Append(kept[m - 1], rs[m]) /\ g[m] = Append(g[m - 1], rs[m])
      BY <2>3, <2>5, <3>1, <3>3
    <3>5. QED
      BY <2>2, <3>2, <3>4
  <2>6. QED
    BY <2>4, <2>5
<1>7. kept[Len(rs)] = SubSeq(rs, 1, Len(rs))
  <2>. HIDE DEF kept
  <2>1. Len(rs) \in 0..Len(rs)
    BY <1>1
  <2>2. QED
    BY <1>6, <2>1
<1>8. QED
  BY <1>2, <1>7, SubSeqFull

\* The file holds the results, each of a case of its own, and a case under
\* way is one that has no result yet.
RecordsInv ==
  /\ contract \in Live!Contracts /\ step \in Live!Steps
  /\ launches \in 0..MaxLaunches /\ at \in 1..(NCases + 1)
  /\ results \in Seq(Live!Outcomes) /\ file = results
  /\ sent \in Nat /\ ops \in 0..sent /\ faults \in 0..MaxFaults
  /\ step = "confirm" => ops < sent
  /\ step # "off" => launches >= 1
  /\ step \notin {"off", "next"} => at <= NCases /\ at \notin Live!Completed
  /\ step = "record" => /\ outcome \in Live!Outcomes
                        /\ outcome.case = at /\ outcome.run = launches

Categories == {"none", "operation_mismatch", "state_mismatch", "runner_exception"}

CaseStep ==
  \/ Live!ResetOriginal \/ Live!ResetTranslated \/ Live!ResetTotal \/ Live!MintOpening
  \/ \E o \in Live!Operations(contract) : Live!ApplyOriginal(o)
  \/ Live!ApplyTranslated \/ Live!Snapshot \/ Live!SnapshotMisread

\* What every step inside a case leaves alone, and where it leads.
LEMMA CaseSteps ==
  CaseStep =>
    /\ step \notin {"off", "next", "record"}
    /\ UNCHANGED <<contract, launches, at, results, file>>
    /\ Live!Fault \/ Live!NoFault
    /\ \/ sent' = sent /\ ops' = ops /\ step' # "confirm"
       \/ sent' = sent + 1 /\ ops' = ops /\ step' = "confirm"
       \/ step = "confirm" /\ sent' = sent /\ ops' = ops + 1 /\ step' # "confirm"
    /\ \/ step' \in {"resetTranslated", "resetTotal", "mint", "apply", "confirm"}
       \/ \E category \in Categories, misread \in BOOLEAN : Live!Ends(category, misread)
<1>. USE DEF Categories, Live!Ends, Live!Fault, Live!NoFault
<1>1. CASE Live!ResetOriginal
  BY <1>1 DEF Live!ResetOriginal
<1>2. CASE Live!ResetTranslated \/ Live!ResetTotal
  BY <1>2 DEF Live!ResetTranslated, Live!ResetTotal, Live!ResetTo
<1>3. CASE Live!MintOpening
  BY <1>3 DEF Live!MintOpening
<1>4. ASSUME NEW o \in Live!Operations(contract), Live!ApplyOriginal(o)
      PROVE  /\ step = "apply" /\ UNCHANGED <<contract, launches, at, results, file>>
             /\ Live!Fault \/ Live!NoFault
             /\ sent' = sent + 1 /\ ops' = ops /\ step' = "confirm"
  BY <1>4 DEF Live!ApplyOriginal
<1>5. CASE Live!ApplyTranslated
  <2>1. PICK b : Live!Compare(b)
    BY <1>5 DEF Live!ApplyTranslated
  <2>2. /\ step = "confirm" /\ UNCHANGED <<contract, launches, at, results, file, sent>>
        /\ Live!Fault \/ Live!NoFault
    BY <1>5 DEF Live!ApplyTranslated
  <2>3. \/ step' = "apply" /\ ops' = ops + 1
        \/ ops' = ops /\ Live!Ends("operation_mismatch", FALSE)
    BY <2>1 DEF Live!Compare
  <2>4. QED
    BY <2>2, <2>3
<1>6. CASE Live!Snapshot
  BY <1>6 DEF Live!Snapshot
<1>7. CASE Live!SnapshotMisread
  BY <1>7 DEF Live!SnapshotMisread
<1>8. QED
  BY <1>1, <1>2, <1>3, <1>4, <1>5, <1>6, <1>7 DEF CaseStep

LEMMA CaseKeepsRecords == RecordsInv /\ CaseStep => RecordsInv'
<1>1. SUFFICES ASSUME RecordsInv, CaseStep PROVE RecordsInv'
  OBVIOUS
<1>2. /\ step \notin {"off", "next", "record"}
      /\ UNCHANGED <<contract, launches, at, results, file>>
      /\ Live!Fault \/ Live!NoFault
      /\ \/ sent' = sent /\ ops' = ops /\ step' # "confirm"
         \/ sent' = sent + 1 /\ ops' = ops /\ step' = "confirm"
         \/ step = "confirm" /\ sent' = sent /\ ops' = ops + 1 /\ step' # "confirm"
      /\ \/ step' \in {"resetTranslated", "resetTotal", "mint", "apply", "confirm"}
         \/ \E category \in Categories, misread \in BOOLEAN : Live!Ends(category, misread)
  BY <1>1, CaseSteps
<1>3. launches \in 1..MaxLaunches /\ at \in 1..NCases /\ at \notin Live!Completed
      /\ contract \in Live!Contracts /\ results \in Seq(Live!Outcomes) /\ file = results
  BY <1>1, <1>2, RQ2Assumption DEF RecordsInv
<1>4. sent' \in Nat /\ ops' \in 0..sent' /\ (step' = "confirm" => ops' < sent')
  <2>1. sent \in Nat /\ ops \in 0..sent /\ (step = "confirm" => ops < sent)
    BY <1>1 DEF RecordsInv
  <2>2. CASE sent' = sent /\ ops' = ops /\ step' # "confirm"
    BY <2>1, <2>2
  <2>3. CASE sent' = sent + 1 /\ ops' = ops /\ step' = "confirm"
    BY <2>1, <2>3
  <2>4. CASE step = "confirm" /\ sent' = sent /\ ops' = ops + 1 /\ step' # "confirm"
    BY <2>1, <2>4
  <2>5. QED
    BY <1>2, <2>2, <2>3, <2>4
<1>5. faults' \in 0..MaxFaults
  BY <1>1, <1>2, RQ2Assumption DEF RecordsInv, Live!Fault, Live!NoFault
<1>6. /\ step' \in Live!Steps \ {"off", "next"}
      /\ step' = "record" => /\ outcome' \in Live!Outcomes
                             /\ outcome'.case = at /\ outcome'.run = launches
  <2>1. CASE step' \in {"resetTranslated", "resetTotal", "mint", "apply", "confirm"}
    BY <2>1 DEF Live!Steps
  <2>2. ASSUME NEW category \in Categories, NEW misread \in BOOLEAN, Live!Ends(category, misread)
        PROVE  step' = "record" /\ outcome' \in Live!Outcomes
               /\ outcome'.case = at /\ outcome'.run = launches
    <3>1. PICK pass \in BOOLEAN : pass = (category = "none")
      OBVIOUS
    <3>2. outcome' = [case |-> at, run |-> launches, pass |-> pass, category |-> category,
                      misread |-> misread] /\ step' = "record"
      BY <2>2, <3>1 DEF Live!Ends
    <3>3. QED
      BY <1>3, <3>2 DEF Live!Outcomes, Categories
  <2>3. QED
    BY <1>2, <2>1, <2>2 DEF Live!Steps
<1>7. Live!Completed' = Live!Completed
  BY <1>2 DEF Live!Completed
<1>8. QED
  BY <1>2, <1>3, <1>4, <1>5, <1>6, <1>7, RQ2Assumption DEF RecordsInv

LEMMA CasesOfResults ==
  RecordsInv => /\ results \in Seq(Live!Outcomes)
                /\ \A i \in DOMAIN results : results[i].case \in 1..NCases
<1>1. SUFFICES ASSUME RecordsInv, NEW i \in DOMAIN results PROVE results[i].case \in 1..NCases
  BY DEF RecordsInv
<1>2. results[i] \in Live!Outcomes
  BY <1>1 DEF RecordsInv
<1>3. QED
  BY <1>2 DEF Live!Outcomes

LEMMA MainKeepsRecords ==
  RecordsInv /\ (\/ Live!Launch \/ Live!SkipDone \/ Live!BeginCase \/ Live!EndRun \/ Live!Die
                 \/ UNCHANGED Live!vars) => RecordsInv'
<1>. USE RQ2Assumption
<1>1. CASE RecordsInv /\ Live!Launch
  <2>1. results \in Seq(Live!Outcomes) /\ \A i \in DOMAIN results : results[i].case \in 1..NCases
    BY <1>1, CasesOfResults
  <2>2. Live!KeptOf(file) = results
    BY <1>1, <2>1, AllIsKept DEF RecordsInv
  <2>3. /\ step' = "next" /\ results' = results /\ launches < MaxLaunches /\ at' = 1
        /\ launches' = launches + 1 /\ UNCHANGED <<contract, file, ops, sent, faults>>
    BY <1>1, <2>2 DEF Live!Launch
  <2>4. QED
    BY <1>1, <2>3 DEF RecordsInv, Live!Steps
<1>2. CASE RecordsInv /\ Live!SkipDone
  <2>1. Live!Completed \subseteq 1..NCases
    BY <1>2, CasesOfResults DEF Live!Completed
  <2>2. /\ step' = "next" /\ step = "next" /\ at' = at + 1 /\ at \in 1..NCases
        /\ UNCHANGED <<contract, launches, results, file, ops, sent, faults>>
    BY <1>2, <2>1 DEF Live!SkipDone
  <2>3. QED
    BY <1>2, <2>2 DEF RecordsInv
<1>3. CASE RecordsInv /\ Live!BeginCase
  <2>1. /\ step' = "resetOriginal" /\ step = "next" /\ at \in (1..NCases) \ Live!Completed
        /\ UNCHANGED <<contract, launches, at, results, file, ops, sent, faults>>
    BY <1>3 DEF Live!BeginCase
  <2>2. Live!Completed' = Live!Completed
    BY <2>1 DEF Live!Completed
  <2>3. QED
    BY <1>3, <2>1, <2>2 DEF RecordsInv, Live!Steps
<1>4. CASE RecordsInv /\ Live!EndRun
  BY <1>4 DEF RecordsInv, Live!EndRun, Live!Steps
<1>5. CASE RecordsInv /\ Live!Die
  BY <1>5 DEF RecordsInv, Live!Die, Live!Forgotten, Live!Steps
<1>6. CASE RecordsInv /\ UNCHANGED Live!vars
  BY <1>6 DEF RecordsInv, Live!vars, Live!Completed
<1>7. QED
  BY <1>1, <1>2, <1>3, <1>4, <1>5, <1>6

\* A record adds the outcome of a case that had no result.
LEMMA RecordKeepsRecords ==
  RecordsInv /\ Live!Record =>
    RecordsInv' /\ outcome \in Live!Outcomes /\ file' = Append(file, outcome)
    /\ outcome.case \notin {file[i].case : i \in DOMAIN file}
<1>1. SUFFICES ASSUME RecordsInv, Live!Record
               PROVE  RecordsInv' /\ outcome \in Live!Outcomes /\ file' = Append(file, outcome)
                      /\ outcome.case \notin {file[i].case : i \in DOMAIN file}
  OBVIOUS
<1>2. /\ step = "record" /\ results' = Append(results, outcome) /\ file' = results'
      /\ \/ step' = "next" /\ at' = at + 1
         \/ step' = "off" /\ at' = 1
      /\ ops' = 0 /\ UNCHANGED <<contract, launches, sent, faults>>
  BY <1>1 DEF Live!Record, Live!Forgotten
<1>3. /\ outcome \in Live!Outcomes /\ outcome.case = at /\ at \in 1..NCases
      /\ at \notin Live!Completed /\ file = results /\ results \in Seq(Live!Outcomes)
  BY <1>1, <1>2, RQ2Assumption DEF RecordsInv
<1>4. results' \in Seq(Live!Outcomes)
  BY <1>2, <1>3, AppendProperties
<1>5. RecordsInv'
  BY <1>1, <1>2, <1>3, <1>4, RQ2Assumption DEF RecordsInv, Live!Steps
<1>6. QED
  BY <1>2, <1>3, <1>5 DEF Live!Completed

LEMMA LiveSteps ==
  Live!Next <=> \/ Live!Launch \/ Live!SkipDone \/ Live!BeginCase \/ Live!EndRun \/ Live!Die
                \/ CaseStep \/ Live!Record
  BY DEF Live!Next, CaseStep

LEMMA RecordsInit == Live!Init => RecordsInv
<1>1. SUFFICES ASSUME Live!Init PROVE RecordsInv
  OBVIOUS
<1>2. /\ contract \in Live!Contracts /\ step = "off" /\ launches = 0 /\ at = 1
      /\ results = <<>> /\ file = <<>> /\ ops = 0 /\ sent = 0 /\ faults = 0
  BY <1>1 DEF Live!Init
<1>3. <<>> \in Seq(Live!Outcomes)
  OBVIOUS
<1>4. QED
  BY <1>2, <1>3, RQ2Assumption DEF RecordsInv, Live!Steps

LEMMA RecordsKept == RecordsInv /\ [Live!Next]_(Live!vars) => RecordsInv'
  BY LiveSteps, CaseKeepsRecords, MainKeepsRecords, RecordKeepsRecords

LEMMA LiveRestsBetweenSteps == UNCHANGED vars => UNCHANGED Live!vars /\ UNCHANGED runner
  BY DEF vars

LiveRecords == runner = "live" => RecordsInv

LEMMA LiveRunner == Spec => []LiveRecords
<1>1. Init => LiveRecords
  BY RecordsInit DEF Init, LiveRecords
<1>2. LiveRecords /\ [Next]_vars => LiveRecords'
  <2>1. SUFFICES ASSUME LiveRecords, [Next]_vars, runner' = "live"
                 PROVE  RecordsInv'
    BY DEF LiveRecords
  <2>2. runner = "live" /\ [Live!Next]_(Live!vars)
    BY <2>1, LiveRestsBetweenSteps DEF Next
  <2>3. QED
    BY <2>1, <2>2, RecordsKept DEF LiveRecords
<1>3. QED
  BY <1>1, <1>2, PTL DEF Spec

\* run-rq2a-vm-full: across crashes, reruns and resumption the results file
\* only grows, each time by the result of a case it does not have.
THEOREM ResultsRecordedOnce == Spec => RecordedOnce
<1>1. LiveRecords /\ [Next]_vars => [runner = "live" => Live!RecordsNewCase]_vars
  <2>1. SUFFICES ASSUME LiveRecords, Next, runner = "live", file' # file
                 PROVE  \E r \in Live!Outcomes :
                          /\ file' = Append(file, r)
                          /\ r.case \notin {file[i].case : i \in DOMAIN file}
    BY DEF Live!RecordsNewCase
  <2>2. RecordsInv /\ Live!Next
    BY <2>1 DEF LiveRecords, Next
  <2>3. CASE Live!Record
    BY <2>2, <2>3, RecordKeepsRecords
  <2>4. CASE CaseStep
    BY <2>1, <2>4, CaseSteps
  <2>5. CASE Live!Launch \/ Live!SkipDone \/ Live!BeginCase \/ Live!EndRun \/ Live!Die
    BY <2>1, <2>5 DEF Live!Launch, Live!SkipDone, Live!BeginCase, Live!EndRun, Live!Die
  <2>6. QED
    BY <2>2, <2>3, <2>4, <2>5, LiveSteps
<1>2. QED
  BY <1>1, LiveRunner, PTL DEF Spec, RecordedOnce

\* Both runners: the variables have the types main gives them, a case under
\* way is one of the list, and every count stays inside its bound.
THEOREM TypeCorrect == Spec => []TypeOK
<1>. DEFINE Runners == runner \in {"local", "live"}
<1>1. Init => Runners
  BY DEF Init
<1>2. Runners /\ [Next]_vars => Runners'
  BY DEF Next, vars
<1>3. Runners /\ LocalRunnerInv /\ LiveRecords => TypeOK
  <2>1. SUFFICES ASSUME Runners, LocalRunnerInv, LiveRecords PROVE TypeOK
    OBVIOUS
  <2>2. CASE runner = "local"
    BY <2>1, <2>2, LocalMeans DEF LocalRunnerInv, TypeOK
  <2>3. CASE runner = "live"
    BY <2>1, <2>3 DEF LiveRecords, RecordsInv, TypeOK, Live!TypeOK
  <2>4. QED
    BY <2>1, <2>2, <2>3
<1>4. QED
  BY <1>1, <1>2, <1>3, LocalRunner, LiveRunner, PTL DEF Spec
-----------------------------------------------------------------------------
(* run-rq2a-vm-full.ts: the states of the two contracts.                   *)

Runs == (1..MaxLaunches) \X (1..NCases)
LockIds == LiveDraws.lockIds
AuctionIds == LiveDraws.auctionIds
Here == Live!namespacedCaseId
Sound(s) == State(contract, s, Runs, LockIds, AuctionIds)
Unwritten(s, n) == Fresh(contract, s, n, LockIds, AuctionIds)

\* The namespaces a step may have written to: those of earlier processes, of
\* earlier cases, and of the case under way from its first operation on.
Used(n) ==
  \/ n[1] < launches
  \/ n[1] = launches /\ \/ step = "off" \/ n[2] < at
                        \/ n[2] = at /\ step \in {"apply", "confirm", "record"}

Clear(s) == \A n \in Runs : ~Used(n) => Unwritten(s, n)

\* The keys that the snapshots will read.
KeysSoFar ==
  IF step = "confirm" THEN Live!Also(touched, Live!Touched(contract, op)) ELSE touched

\* The first of the hotel's two resets is done.
MetaIsReset(s) ==
  /\ contract = "HotelBooking"
  /\ s.price = init.price /\ s.remain = init.remain /\ s.lockSize = init.lockSize

\* Both contracts are in a sound state, nothing was written under a
\* namespace not used yet, and under that of the case they differ at most in
\* the keys that the snapshots will read.
ChainsInv ==
  /\ Sound(original) /\ Sound(translated)
  /\ Clear(original) /\ Clear(translated)
  /\ DOMAIN touched = Keys
  /\ step \notin {"apply", "confirm", "record"} => touched = Live!TouchedAtFirst(contract)
  /\ step \notin {"off", "next", "record"} => init \in Live!Initials(contract)
  /\ step = "resetTotal" => MetaIsReset(translated)
  /\ step = "mint" => contract = "TokenTransfer"
  /\ step = "confirm" => op \in Live!Operations(contract)
  /\ step \in {"apply", "confirm"} =>
       /\ Covered(contract, original, Here) /\ Covered(contract, translated, Here)
       /\ SameOff(contract, original, translated, Here, KeysSoFar, LockIds, AuctionIds)
       /\ Named(contract, original, Here, KeysSoFar, AuctionIds)
       /\ Named(contract, translated, Here, KeysSoFar, AuctionIds)
       /\ contract \in Live!Travel => translated.lockSize = init.lockSize

\* The states of the contracts agree about the case of result r.
Agreed(r) == SameAt(contract, original, translated, <<r.run, r.case>>)

\* A case that passed with its reads answered left the same state.
PassedInv ==
  /\ \A i \in DOMAIN results : results[i].pass /\ ~results[i].misread => Agreed(results[i])
  /\ step = "record" /\ outcome.pass /\ ~outcome.misread =>
       Agreed(outcome) /\ Live!SameScalars

\* The scalars are those the reset of a case leaves.
IsReset(s) ==
  /\ contract \in Live!Travel => /\ s.price = init.price /\ s.remain = init.remain
                                 /\ s.lockSize = init.lockSize /\ s.lockedTotal = 0
  /\ contract = "TokenTransfer" => s.totalSupply = 0
  /\ contract = "DEXSwap" => s.reserveA = 0 /\ s.reserveB = 0 /\ s.totalShares = 0

\* Without a fault the contracts are twins whenever both have done the same.
TwinsInv ==
  faults = 0 =>
    /\ \A i \in DOMAIN results : results[i].pass
    /\ step = "record" => outcome.pass
    /\ step \in {"resetTranslated", "resetTotal"} => IsReset(original)
    /\ step \in {"mint", "apply"} => Twins(contract, original, translated, Here)
    /\ step = "confirm" =>
         LET a == Live!Original(contract, translated, Here, op)
         IN Twins(contract, original, a.state, Here) /\ answer = Live!Answer(a)

\* What the generator draws are operations of the contract.
LEMMA LiveOps ==
  ASSUME NEW c \in Live!Contracts, NEW o \in Live!Operations(c)
  PROVE  Op(c, o, LockIds, AuctionIds)
<1>1. /\ LiveDraws.amounts \subseteq Nat /\ LiveDraws.tokenAmounts \subseteq Nat
      /\ LiveDraws.dexAmounts \subseteq Nat
  BY RQ2Assumption DEF IsDraws
<1>2. CASE c \in Live!Travel
  <2>1. o \in Live!TravelOps
    BY <1>2 DEF Live!Operations, Live!Travel
  <2>2. TravelOp(o, LockIds)
    BY <1>1, <2>1 DEF Live!TravelOps, TravelOp, LockIds
  <2>3. QED
    BY <1>2, <2>2 DEF Op, Live!Travel
<1>3. CASE c = "TokenTransfer"
  <2>1. o \in Live!TokenOps
    BY <1>3 DEF Live!Operations, Live!Travel
  <2>2. TokenOp(o)
    BY <1>1, <2>1 DEF Live!TokenOps, TokenOp
  <2>3. QED
    BY <1>3, <2>2 DEF Op, Live!Travel
<1>4. CASE c = "AuctionLogic"
  <2>1. o \in Live!AuctionOps
    BY <1>4 DEF Live!Operations, Live!Travel
  <2>2. AuctionOp(o, AuctionIds)
    BY <1>1, <2>1 DEF Live!AuctionOps, AuctionOp, AuctionIds
  <2>3. QED
    BY <1>4, <2>2 DEF Op, Live!Travel
<1>5. CASE c = "DEXSwap"
  <2>1. o \in Live!DexOps
    BY <1>5 DEF Live!Operations, Live!Travel
  <2>2. DexOp(o)
    BY <1>1, <2>1 DEF Live!DexOps, DexOp
  <2>3. QED
    BY <1>5, <2>2 DEF Op, Live!Travel
<1>6. QED
  BY <1>2, <1>3, <1>4, <1>5 DEF Live!Contracts, Live!Travel

\* The contracts as they are deployed: nothing is written anywhere.
LEMMA DeployedFresh ==
  ASSUME contract \in Live!Contracts, NEW i \in Live!Initials(contract)
  PROVE  Sound(Live!DeployedWith(i)) /\ \A n \in Runs : Unwritten(Live!DeployedWith(i), n)
<1>. DEFINE zeros == [u \in Users |-> 0]
<1>1. PICK s : s = Live!DeployedWith(i)
  OBVIOUS
<1>2. CASE contract \in Live!Travel
  <2>1. i.price \in Nat \ {0} /\ i.remain \in Nat /\ i.lockSize \in Nat \ {0}
    BY <1>2, RQ2Assumption DEF Live!Initials, Live!Travel, IsDraws
  <2>2. s = Live!NewTravel(i)
    BY <1>1, <1>2 DEF Live!DeployedWith, Live!Travel
  <2>3. s = [price |-> i.price, remain |-> i.remain, lockSize |-> i.lockSize, lockedTotal |-> 0,
             accounts |-> [n \in Runs |-> zeros], bookings |-> [n \in Runs |-> zeros],
             locks |-> [n \in Runs |-> [l \in LockIds |-> 0]]]
    BY <2>1, <2>2 DEF Live!NewTravel, Live!ForAllUsers, Runs, LockIds
  <2>4. TravelState(s, Runs, LockIds)
    BY <2>1, <2>3 DEF TravelState
  <2>5. QED
    BY <1>1, <1>2, <2>3, <2>4 DEF Sound, State, Unwritten, Fresh, Live!Travel
<1>3. CASE contract = "TokenTransfer"
  <2>1. s = [totalSupply |-> 0, balances |-> [n \in Runs |-> zeros],
             allowances |-> [n \in Runs |-> [p \in Users \X Users |-> 0]]]
    BY <1>1, <1>3 DEF Live!DeployedWith, Live!NewToken, Live!ForAllUsers, Runs, Live!Travel
  <2>2. TokenState(s, Runs)
    BY <2>1 DEF TokenState
  <2>3. QED
    BY <1>1, <1>3, <2>1, <2>2 DEF Sound, State, Unwritten, Fresh, Live!Travel
<1>4. CASE contract = "AuctionLogic"
  <2>1. s = [auctions |-> [n \in Runs |-> [x \in AuctionIds |-> Live!NoAuction]],
             pending |-> [n \in Runs |-> zeros]]
    BY <1>1, <1>4 DEF Live!DeployedWith, Live!NewAuctions, Live!ForAllUsers, Runs, AuctionIds,
                      Live!Travel
  <2>2. AuctionRecord(Live!NoAuction)
    BY DEF Live!NoAuction, AuctionRecord, Party
  <2>3. AuctionState(s, Runs, AuctionIds)
    BY <2>1, <2>2 DEF AuctionState
  <2>4. QED
    BY <1>1, <1>4, <2>1, <2>3 DEF Sound, State, Unwritten, Fresh, Live!Travel
<1>5. CASE contract = "DEXSwap"
  <2>1. s = [reserveA |-> 0, reserveB |-> 0, totalShares |-> 0, shares |-> [n \in Runs |-> zeros]]
    BY <1>1, <1>5 DEF Live!DeployedWith, Live!NewDex, Live!ForAllUsers, Runs, Live!Travel
  <2>2. DexState(s, Runs)
    BY <2>1 DEF DexState
  <2>3. QED
    BY <1>1, <1>5, <2>1, <2>2 DEF Sound, State, Unwritten, Fresh, Live!Travel
<1>6. QED
  BY <1>2, <1>3, <1>4, <1>5 DEF Live!Contracts, Live!Travel

\* A reset writes the scalars and no key.
LEMMA ResetKeeps ==
  ASSUME contract \in Live!Contracts, init \in Live!Initials(contract), NEW s, Sound(s)
  PROVE  /\ Sound(Live!ResetOf(s)) /\ IsReset(Live!ResetOf(s))
         /\ \A m \in Runs : SameAt(contract, s, Live!ResetOf(s), m)
<1>1. PICK r : r = Live!ResetOf(s)
  OBVIOUS
<1>2. CASE contract \in Live!Travel
  <2>1. init.price \in Nat \ {0} /\ init.remain \in Nat /\ init.lockSize \in Nat \ {0}
    BY <1>2, RQ2Assumption DEF Live!Initials, Live!Travel, IsDraws
  <2>2. TravelState(s, Runs, LockIds)
    BY <1>2 DEF Sound, State
  <2>3. r = [s EXCEPT !.price = init.price, !.remain = init.remain,
                      !.lockSize = init.lockSize, !.lockedTotal = 0]
    <3>1. CASE contract = "HotelBooking"
      BY <1>1, <2>2, <3>1 DEF Live!ResetOf, Live!ResetHotel, Live!ResetHotelTotal,
                              Live!ResetHotelMeta, TravelState
    <3>2. CASE contract = "TrainBooking"
      <4>1. r = Live!ResetTrain(s, init) /\ init.lockSize # 0
        BY <1>1, <2>1, <3>2 DEF Live!ResetOf
      <4>2. QED
        BY <2>2, <4>1 DEF Live!ResetTrain, TravelState
    <3>3. QED
      BY <1>2, <3>1, <3>2 DEF Live!Travel
  <2>4. /\ TravelState(r, Runs, LockIds)
        /\ r.price = init.price /\ r.remain = init.remain /\ r.lockSize = init.lockSize
        /\ r.lockedTotal = 0
        /\ r.accounts = s.accounts /\ r.bookings = s.bookings /\ r.locks = s.locks
    BY <2>1, <2>2, <2>3 DEF TravelState
  <2>5. QED
    BY <1>1, <1>2, <2>4 DEF Sound, State, IsReset, SameAt, Live!Travel
<1>3. CASE contract = "TokenTransfer"
  <2>1. TokenState(s, Runs) /\ r = [s EXCEPT !.totalSupply = 0]
    BY <1>1, <1>3 DEF Sound, State, Live!ResetOf, Live!ResetToken
  <2>2. /\ TokenState(r, Runs) /\ r.totalSupply = 0
        /\ r.balances = s.balances /\ r.allowances = s.allowances
    BY <2>1 DEF TokenState
  <2>3. QED
    BY <1>1, <1>3, <2>2 DEF Sound, State, IsReset, SameAt, Live!Travel
<1>4. CASE contract = "AuctionLogic"
  BY <1>4 DEF Sound, Live!ResetOf, IsReset, SameAt, Live!Travel
<1>5. CASE contract = "DEXSwap"
  <2>1. DexState(s, Runs) /\ r = [s EXCEPT !.reserveA = 0, !.reserveB = 0, !.totalShares = 0]
    BY <1>1, <1>5 DEF Sound, State, Live!ResetOf, Live!ResetDex
  <2>2. /\ DexState(r, Runs) /\ r.reserveA = 0 /\ r.reserveB = 0 /\ r.totalShares = 0
        /\ r.shares = s.shares
    BY <2>1 DEF DexState
  <2>3. QED
    BY <1>1, <1>5, <2>2 DEF Sound, State, IsReset, SameAt, Live!Travel
<1>6. QED
  BY <1>2, <1>3, <1>4, <1>5 DEF Live!Contracts, Live!Travel

\* The two halves of the hotel's reset.
LEMMA HalvesKeep ==
  ASSUME contract = "HotelBooking", init \in Live!Initials(contract), NEW s, Sound(s)
  PROVE  LET meta == Live!ResetHotelMeta(s, init)
             total == Live!ResetHotelTotal(s)
         IN /\ Sound(meta) /\ MetaIsReset(meta)
            /\ Sound(total) /\ (MetaIsReset(s) => IsReset(total))
            /\ \A m \in Runs : SameAt(contract, s, meta, m) /\ SameAt(contract, s, total, m)
<1>1. init.price \in Nat \ {0} /\ init.remain \in Nat /\ init.lockSize \in Nat \ {0}
  BY RQ2Assumption DEF Live!Initials, Live!Travel, IsDraws
<1>2. TravelState(s, Runs, LockIds)
  BY DEF Sound, State, Live!Travel
<1>3. PICK meta : meta = Live!ResetHotelMeta(s, init)
  OBVIOUS
<1>4. PICK total : total = Live!ResetHotelTotal(s)
  OBVIOUS
<1>5. /\ TravelState(meta, Runs, LockIds)
      /\ meta.price = init.price /\ meta.remain = init.remain /\ meta.lockSize = init.lockSize
      /\ meta.accounts = s.accounts /\ meta.bookings = s.bookings /\ meta.locks = s.locks
  BY <1>1, <1>2, <1>3 DEF Live!ResetHotelMeta, TravelState
<1>6. /\ TravelState(total, Runs, LockIds)
      /\ total.price = s.price /\ total.remain = s.remain /\ total.lockSize = s.lockSize
      /\ total.lockedTotal = 0
      /\ total.accounts = s.accounts /\ total.bookings = s.bookings /\ total.locks = s.locks
  BY <1>2, <1>4 DEF Live!ResetHotelTotal, TravelState
<1>7. Sound(meta) /\ MetaIsReset(meta) /\ \A m \in Runs : SameAt(contract, s, meta, m)
  BY <1>5 DEF Sound, State, MetaIsReset, SameAt, Live!Travel
<1>8. /\ Sound(total) /\ (MetaIsReset(s) => IsReset(total))
      /\ \A m \in Runs : SameAt(contract, s, total, m)
  BY <1>6 DEF Sound, State, MetaIsReset, IsReset, SameAt, Live!Travel
<1>9. QED
  BY <1>3, <1>4, <1>7, <1>8

LEMMA ResetTwins ==
  ASSUME NEW s, NEW r, IsReset(s), IsReset(r), NEW n, SameAt(contract, s, r, n)
  PROVE  Twins(contract, s, r, n)
BY DEF IsReset, Twins

LEMMA LiveSums == \A f, S : Live!SumFunctionOnSet(f, S) = SumFunctionOnSet(f, S)
  BY DEF Live!SumFunctionOnSet, SumFunctionOnSet, Live!FoldFunctionOnSet, FoldFunctionOnSet,
         Live!MapThenFoldSet, MapThenFoldSet

\* What the mints of opening balances leave under the case: balances, supply.
Given(s, users) ==
  [u \in Users |-> s.balances[Here][u] + IF u \in users THEN init[u] ELSE 0]
Supply(s, users) == s.totalSupply + SumFunctionOnSet(init, users)
IsMinted(r, s, b, t) == r = [s EXCEPT !.balances[Here] = b, !.totalSupply = t]

LEMMA MintEffects ==
  ASSUME contract = "TokenTransfer", init \in Live!Initials(contract), Here \in Runs,
         NEW s, Sound(s), NEW users \in SUBSET Users
  PROVE  /\ Given(s, users) \in [Users -> Nat] /\ Supply(s, users) \in Nat
         /\ IsMinted(Live!MintedTo(s, users), s, Given(s, users), Supply(s, users))
<1>1. TokenState(s, Runs) /\ init \in [Users -> Nat]
  BY RQ2Assumption DEF Sound, State, Live!Initials, Live!Travel, IsDraws
<1>2. IsFiniteSet(users) /\ users \subseteq Users
  BY RQ2Assumption, FS_Subset
<1>3. SumFunctionOnSet(init, users) \in Nat
  BY <1>1, <1>2, SumIsNat
<1>4. Supply(s, users) \in Nat
  BY <1>1, <1>3 DEF TokenState, Supply
<1>5. Given(s, users) \in [Users -> Nat]
  <2>1. s.balances[Here] \in [Users -> Nat]
    BY <1>1 DEF TokenState
  <2>2. QED
    BY <1>1, <2>1 DEF Given
<1>6. IsMinted(Live!MintedTo(s, users), s, Given(s, users), Supply(s, users))
  <2>1. Live!SumFunctionOnSet(init, users) = SumFunctionOnSet(init, users)
    BY LiveSums
  <2>2. PICK sum : sum = SumFunctionOnSet(init, users)
    OBVIOUS
  <2>3. PICK h : h = Here
    OBVIOUS
  <2>4. Live!MintedTo(s, users)
          = [s EXCEPT !.balances[h] = [u \in Users |-> @[u] + IF u \in users THEN init[u] ELSE 0],
                      !.totalSupply = @ + sum]
    BY <2>1, <2>2, <2>3 DEF Live!MintedTo, Live!Minted, Here
  <2>5. QED
    BY <2>2, <2>3, <2>4 DEF IsMinted, Given, Supply
<1>7. QED
  BY <1>4, <1>5, <1>6

\* The mints write balances of the case under way.
LEMMA MintKeeps ==
  ASSUME contract = "TokenTransfer", init \in Live!Initials(contract), Here \in Runs,
         NEW s, Sound(s), NEW users \in SUBSET Users
  PROVE  /\ Sound(Live!MintedTo(s, users)) /\ Live!MintedTo(s, users).allowances = s.allowances
         /\ \A m \in Runs \ {Here} : SameAt(contract, s, Live!MintedTo(s, users), m)
<1>1. TokenState(s, Runs)
  BY DEF Sound, State
<1>2. PICK r : r = Live!MintedTo(s, users)
  OBVIOUS
<1>3. PICK b : b = Given(s, users)
  OBVIOUS
<1>4. PICK t : t = Supply(s, users)
  OBVIOUS
<1>5. b \in [Users -> Nat] /\ t \in Nat /\ IsMinted(r, s, b, t)
  BY <1>2, <1>3, <1>4, MintEffects
<1>6. /\ TokenState(r, Runs) /\ r.allowances = s.allowances
      /\ \A m \in Runs \ {Here} : r.balances[m] = s.balances[m]
  BY <1>1, <1>5 DEF TokenState, IsMinted
<1>7. QED
  BY <1>2, <1>6 DEF Sound, State, SameAt, Live!Travel

LEMMA MintTwins ==
  ASSUME contract = "TokenTransfer", init \in Live!Initials(contract), Here \in Runs,
         NEW s, Sound(s), NEW q, Sound(q), NEW users \in SUBSET Users,
         Twins(contract, s, q, Here)
  PROVE  Twins(contract, Live!MintedTo(s, users), Live!MintedTo(q, users), Here)
<1>1. TokenState(s, Runs) /\ TokenState(q, Runs)
  BY DEF Sound, State
<1>2. /\ s.totalSupply = q.totalSupply /\ s.balances[Here] = q.balances[Here]
      /\ s.allowances[Here] = q.allowances[Here]
  BY DEF Twins, SameAt
<1>3. PICK r : r = Live!MintedTo(s, users)
  OBVIOUS
<1>4. PICK p : p = Live!MintedTo(q, users)
  OBVIOUS
<1>5. PICK b : b = Given(s, users)
  OBVIOUS
<1>6. PICK t : t = Supply(s, users)
  OBVIOUS
<1>7. b = Given(q, users) /\ t = Supply(q, users)
  BY <1>2, <1>5, <1>6 DEF Given, Supply
<1>8. /\ b \in [Users -> Nat] /\ t \in Nat
      /\ IsMinted(r, s, b, t) /\ IsMinted(p, q, b, t)
  BY <1>3, <1>4, <1>5, <1>6, <1>7, MintEffects
<1>9. /\ r.totalSupply = p.totalSupply /\ r.balances[Here] = p.balances[Here]
      /\ r.allowances[Here] = p.allowances[Here]
  BY <1>1, <1>2, <1>8 DEF TokenState, IsMinted
<1>10. QED
  BY <1>3, <1>4, <1>9 DEF Twins, SameAt, Live!Travel

\* A call leaves the state as it was or as the operation makes it; either
\* way only keys that K names may differ.
LEMMA OpMay ==
  ASSUME contract \in Live!Contracts, Here \in Runs, NEW s, Sound(s),
         Covered(contract, s, Here), NEW o \in Live!Operations(contract),
         NEW K, Names(K, contract, o), Named(contract, s, Here, K, AuctionIds),
         NEW r \in Live!MayApply(s, Live!Original(contract, s, Here, o).state)
  PROVE  /\ Sound(r) /\ Covered(contract, r, Here) /\ Named(contract, r, Here, K, AuctionIds)
         /\ \A m \in Runs \ {Here} : SameAt(contract, s, r, m)
         /\ SameOff(contract, s, r, Here, K, LockIds, AuctionIds)
         /\ contract \in Live!Travel => r.lockSize = s.lockSize
<1>1. CASE r = s
  BY <1>1 DEF SameAt, SameOff
<1>2. CASE r = Live!Original(contract, s, Here, o).state
  <2>1. Op(contract, o, LockIds, AuctionIds) /\ State(contract, s, Runs, LockIds, AuctionIds)
    BY LiveOps DEF Sound
  <2>2. /\ State(contract, r, Runs, LockIds, AuctionIds)
        /\ Covered(contract, r, Here) /\ Named(contract, r, Here, K, AuctionIds)
        /\ \A m \in Runs \ {Here} : SameAt(contract, s, r, m)
        /\ SameOff(contract, s, r, Here, K, LockIds, AuctionIds)
        /\ contract \in Live!Travel => r.lockSize = s.lockSize
    BY <1>2, <2>1, OpTouches
  <2>3. QED
    BY <2>2 DEF Sound
<1>3. QED
  BY <1>1, <1>2 DEF Live!MayApply

LEMMA TranslatedIs ==
  ASSUME contract \in Live!Contracts, Here \in Runs, NEW s, Sound(s),
         NEW o \in Live!Operations(contract)
  PROVE  Live!Translated(contract, s, Here, o) = Live!Original(contract, s, Here, o)
<1>1. Op(contract, o, LockIds, AuctionIds) /\ State(contract, s, Runs, LockIds, AuctionIds)
  BY LiveOps DEF Sound
<1>2. QED
  BY <1>1, TranslationAgrees

LEMMA KeysGrow ==
  ASSUME NEW t, DOMAIN t = Keys, NEW c, NEW o
  PROVE  LET K == Live!Also(t, Live!Touched(c, o))
         IN DOMAIN K = Keys /\ Names(K, c, o) /\ Contains(K, t)
BY DEF Keys, Live!Also, Names, Contains

LEMMA FirstKeys ==
  ASSUME NEW c
  PROVE  /\ DOMAIN Live!TouchedAtFirst(c) = Keys
         /\ c = "TokenTransfer" => Live!TouchedAtFirst(c).users = Users
BY DEF Live!TouchedAtFirst, Keys

\* Once operations are sent, a case goes on with them or ends.
LEMMA LaterSteps ==
  CaseStep /\ step \in {"apply", "confirm"} => step' \in {"apply", "confirm", "record"}
BY DEF CaseStep, Live!ResetOriginal, Live!ResetTranslated, Live!ResetTotal, Live!ResetTo,
       Live!MintOpening,
       Live!ApplyOriginal, Live!ApplyTranslated, Live!Compare, Live!Snapshot,
       Live!SnapshotMisread, Live!Ends

\* Inside a case: its namespace, which is used from the first operation on.
LEMMA CaseHere ==
  RecordsInv /\ CaseStep =>
    /\ Here \in Runs /\ Here' = Here
    /\ step \notin {"apply", "confirm"} => ~Used(Here)
    /\ \A n \in Runs : Used(n) => Used(n)'
    /\ step' \in {"apply", "confirm", "record"} => Used(Here)'
<1>1. SUFFICES ASSUME RecordsInv, CaseStep
               PROVE  /\ Here \in Runs /\ Here' = Here
                      /\ step \notin {"apply", "confirm"} => ~Used(Here)
                      /\ \A n \in Runs : Used(n) => Used(n)'
                      /\ step' \in {"apply", "confirm", "record"} => Used(Here)'
  OBVIOUS
<1>2. /\ step \notin {"off", "next", "record"} /\ launches' = launches /\ at' = at
      /\ \/ step' \in {"resetTranslated", "resetTotal", "mint", "apply", "confirm"}
         \/ step' = "record"
  BY <1>1, CaseSteps DEF Live!Ends
<1>3. launches \in 1..MaxLaunches /\ at \in 1..NCases
  BY <1>1, <1>2, RQ2Assumption DEF RecordsInv
<1>4. Here = <<launches, at>> /\ Here' = <<launches, at>>
  BY <1>2 DEF Here, Live!namespacedCaseId
<1>5. Here \in Runs
  BY <1>3, <1>4 DEF Runs
<1>6. step \notin {"apply", "confirm"} => ~Used(Here)
  BY <1>2, <1>3, <1>4 DEF Used
<1>7. step' \in {"apply", "confirm", "record"} => Used(Here)'
  BY <1>2, <1>4 DEF Used
<1>8. ASSUME NEW n \in Runs, Used(n) PROVE Used(n)'
  <2>1. CASE n[1] < launches \/ (n[1] = launches /\ n[2] < at)
    BY <1>2, <2>1 DEF Used
  <2>2. CASE n[1] = launches /\ n[2] = at /\ step \in {"apply", "confirm", "record"}
    <3>1. step' \in {"apply", "confirm", "record"}
      BY <1>1, <1>2, <2>2, LaterSteps
    <3>2. QED
      BY <1>2, <2>2, <3>1 DEF Used
  <2>3. QED
    BY <1>2, <1>8, <2>1, <2>2 DEF Used
<1>9. QED
  BY <1>4, <1>5, <1>6, <1>7, <1>8

\* A step that writes under no namespace but those used after it leaves the
\* others as they were.
LEMMA ClearStays ==
  ASSUME NEW s, NEW r, Clear(s), contract' = contract,
         \A n \in Runs : Used(n) => Used(n)',
         \A n \in Runs : Used(n)' \/ SameAt(contract, s, r, n)
  PROVE  \A n \in Runs : ~(Used(n)') => Fresh(contract', r, n, LockIds, AuctionIds)
<1>1. TAKE n \in Runs
<1>2. HAVE ~(Used(n)')
<1>3. Fresh(contract, s, n, LockIds, AuctionIds)
  BY <1>2 DEF Clear, Unwritten
<1>4. SameAt(contract, s, r, n)
  BY <1>2
<1>5. QED
  BY <1>3, <1>4, FreshStays

\* Nothing is written outside the namespace of the case.
Elsewhere ==
  \A m \in Runs \ {Here} : /\ SameAt(contract, original, original', m)
                            /\ SameAt(contract, translated, translated', m)

LEMMA ResetOriginalKeeps ==
  RecordsInv /\ ChainsInv /\ Live!ResetOriginal => ChainsInv' /\ Elsewhere
<1>1. SUFFICES ASSUME RecordsInv, ChainsInv, Live!ResetOriginal PROVE ChainsInv' /\ Elsewhere
  OBVIOUS
<1>2. /\ step = "resetOriginal" /\ step' \in {"resetTranslated", "record"}
      /\ original' \in {original, Live!ResetOf(original)} /\ translated' = translated
      /\ UNCHANGED <<contract, init, touched>> /\ CaseStep
  BY <1>1 DEF Live!ResetOriginal, Live!Ends, Live!MayApply, CaseStep
<1>3. contract \in Live!Contracts /\ init \in Live!Initials(contract)
  BY <1>1, <1>2 DEF RecordsInv, ChainsInv
<1>4. /\ Sound(Live!ResetOf(original))
      /\ \A m \in Runs : SameAt(contract, original, Live!ResetOf(original), m)
  BY <1>1, <1>3, ResetKeeps DEF ChainsInv
<1>5. Sound(original) /\ \A m \in Runs : SameAt(contract, original, original, m)
  BY <1>1 DEF ChainsInv, SameAt
<1>6. Sound(original') /\ \A m \in Runs : SameAt(contract, original, original', m)
  BY <1>2, <1>4, <1>5
<1>7. \A n \in Runs : Used(n) => Used(n)'
  BY <1>1, <1>2, CaseHere
<1>8. Clear(original)'
  <2>1. Clear(original)
    BY <1>1 DEF ChainsInv
  <2>2. \A n \in Runs : ~(Used(n)') => Fresh(contract', original', n, LockIds, AuctionIds)
    BY <1>2, <1>6, <1>7, <2>1, ClearStays
  <2>3. QED
    BY <2>2 DEF Clear, Unwritten, Runs, LockIds, AuctionIds
<1>9. Clear(translated)'
  <2>1. Clear(translated) /\ \A m \in Runs : SameAt(contract, translated, translated, m)
    BY <1>1 DEF ChainsInv, SameAt
  <2>2. \A n \in Runs : ~(Used(n)') => Fresh(contract', translated, n, LockIds, AuctionIds)
    BY <1>2, <1>7, <2>1, ClearStays
  <2>3. QED
    BY <1>2, <2>2 DEF Clear, Unwritten, Runs, LockIds, AuctionIds
<1>10. Sound(original)' /\ Sound(translated)'
  BY <1>1, <1>2, <1>6 DEF Sound, ChainsInv, Runs, LockIds, AuctionIds
<1>11. Elsewhere
  BY <1>2, <1>6 DEF Elsewhere, SameAt
<1>12. QED
  BY <1>1, <1>2, <1>8, <1>9, <1>10, <1>11 DEF ChainsInv

\* What a transaction of the translated contract's reset aims at.
LEMMA ResetAims ==
  ASSUME RecordsInv, ChainsInv, Live!ResetTranslated \/ Live!ResetTotal
  PROVE  \E t, next :
           /\ Live!ResetTo(t, next) /\ Sound(t)
           /\ \A m \in Runs : SameAt(contract, translated, t, m)
           /\ \/ next = "resetTotal" /\ MetaIsReset(t)
              \/ /\ next \in {"mint", "apply"} /\ (next = "mint" => contract = "TokenTransfer")
                 /\ IsReset(t)
<1>1. /\ contract \in Live!Contracts /\ init \in Live!Initials(contract) /\ Sound(translated)
      /\ step = "resetTotal" => MetaIsReset(translated)
  BY DEF RecordsInv, ChainsInv, Live!ResetTranslated, Live!ResetTotal
<1>2. CASE Live!ResetTotal
  <2>1. contract = "HotelBooking" /\ MetaIsReset(translated)
    BY <1>1, <1>2 DEF Live!ResetTotal, MetaIsReset
  <2>2. Live!ResetTo(Live!ResetHotelTotal(translated), "apply")
    BY <1>2 DEF Live!ResetTotal
  <2>3. QED
    BY <1>1, <2>1, <2>2, HalvesKeep
<1>3. CASE Live!ResetTranslated /\ contract = "HotelBooking"
  <2>1. Live!ResetTo(Live!ResetHotelMeta(translated, init), "resetTotal")
    BY <1>3 DEF Live!ResetTranslated
  <2>2. QED
    BY <1>1, <1>3, <2>1, HalvesKeep
<1>4. CASE Live!ResetTranslated /\ contract # "HotelBooking"
  <2>1. PICK next \in {"mint", "apply"} :
          /\ next = "mint" => contract = "TokenTransfer"
          /\ Live!ResetTo(Live!ResetOf(translated), next)
    BY <1>4 DEF Live!ResetTranslated
  <2>2. QED
    BY <1>1, <2>1, ResetKeeps
<1>5. QED
  BY <1>2, <1>3, <1>4

LEMMA ResetTranslatedKeeps ==
  RecordsInv /\ ChainsInv /\ (Live!ResetTranslated \/ Live!ResetTotal)
    => ChainsInv' /\ Elsewhere
<1>1. SUFFICES ASSUME RecordsInv, ChainsInv, Live!ResetTranslated \/ Live!ResetTotal
               PROVE  ChainsInv' /\ Elsewhere
  OBVIOUS
<1>2. PICK t, next :
        /\ Live!ResetTo(t, next) /\ Sound(t)
        /\ \A m \in Runs : SameAt(contract, translated, t, m)
        /\ \/ next = "resetTotal" /\ MetaIsReset(t)
           \/ /\ next \in {"mint", "apply"} /\ (next = "mint" => contract = "TokenTransfer")
              /\ IsReset(t)
  BY <1>1, ResetAims
<1>3. /\ step \in {"resetTranslated", "resetTotal"}
      /\ \/ step' = next /\ translated' = t
         \/ step' = "record"
      /\ translated' \in {translated, t} /\ original' = original
      /\ UNCHANGED <<contract, init, touched, op>> /\ CaseStep
  BY <1>1, <1>2 DEF Live!ResetTranslated, Live!ResetTotal, Live!ResetTo, Live!Ends,
                    Live!MayApply, CaseStep
<1>4. contract \in Live!Contracts /\ init \in Live!Initials(contract)
  BY <1>1, <1>3 DEF RecordsInv, ChainsInv
<1>5. Sound(translated) /\ \A m \in Runs : SameAt(contract, translated, translated, m)
  BY <1>1 DEF ChainsInv, SameAt
<1>6. Sound(translated') /\ \A m \in Runs : SameAt(contract, translated, translated', m)
  BY <1>2, <1>3, <1>5
<1>7. /\ \A n \in Runs : Used(n) => Used(n)'
      /\ Here \in Runs /\ Here' = Here /\ ~Used(Here)
  BY <1>1, <1>3, CaseHere
<1>8. Clear(translated)'
  <2>1. Clear(translated)
    BY <1>1 DEF ChainsInv
  <2>2. \A n \in Runs : ~(Used(n)') => Fresh(contract', translated', n, LockIds, AuctionIds)
    BY <1>3, <1>6, <1>7, <2>1, ClearStays
  <2>3. QED
    BY <2>2 DEF Clear, Unwritten, Runs, LockIds, AuctionIds
<1>9. Clear(original)'
  <2>1. Clear(original) /\ \A m \in Runs : SameAt(contract, original, original, m)
    BY <1>1 DEF ChainsInv, SameAt
  <2>2. \A n \in Runs : ~(Used(n)') => Fresh(contract', original, n, LockIds, AuctionIds)
    BY <1>3, <1>7, <2>1, ClearStays
  <2>3. QED
    BY <1>3, <2>2 DEF Clear, Unwritten, Runs, LockIds, AuctionIds
<1>10. Sound(original)' /\ Sound(translated)'
  BY <1>1, <1>3, <1>6 DEF Sound, ChainsInv, Runs, LockIds, AuctionIds
<1>11. ASSUME step' = "apply"
       PROVE  /\ Covered(contract, original, Here) /\ Covered(contract, translated', Here)
              /\ SameOff(contract, original, translated', Here, touched, LockIds, AuctionIds)
              /\ Named(contract, original, Here, touched, AuctionIds)
              /\ Named(contract, translated', Here, touched, AuctionIds)
              /\ contract \in Live!Travel => translated'.lockSize = init.lockSize
  <2>1. /\ Fresh(contract, original, Here, LockIds, AuctionIds)
        /\ Fresh(contract, translated, Here, LockIds, AuctionIds)
    BY <1>1, <1>7 DEF ChainsInv, Clear, Unwritten
  <2>2. Fresh(contract, translated', Here, LockIds, AuctionIds)
    BY <1>6, <1>7, <2>1, FreshStays
  <2>3. /\ State(contract, original, Runs, LockIds, AuctionIds)
        /\ State(contract, translated', Runs, LockIds, AuctionIds)
    BY <1>1, <1>6 DEF ChainsInv, Sound
  <2>4. Covered(contract, original, Here) /\ Covered(contract, translated', Here)
    BY <1>7, <2>1, <2>2, <2>3, FreshIsCovered
  <2>5. SameAt(contract, original, translated', Here)
    BY <2>1, <2>2, FreshAgree
  <2>6. SameOff(contract, original, translated', Here, touched, LockIds, AuctionIds)
    BY <2>5, SameAtOff
  <2>7. /\ Named(contract, original, Here, touched, AuctionIds)
        /\ Named(contract, translated', Here, touched, AuctionIds)
    BY <2>1, <2>2, FreshNames
  <2>8. contract \in Live!Travel => translated'.lockSize = init.lockSize
    BY <1>2, <1>3, <1>11 DEF IsReset
  <2>9. QED
    BY <2>4, <2>6, <2>7, <2>8
<1>12. step' = "apply" => KeysSoFar' = touched
  BY <1>3 DEF KeysSoFar
<1>13. Elsewhere
  BY <1>3, <1>6 DEF Elsewhere, SameAt
<1>14. step' = "resetTotal" => MetaIsReset(translated)'
  BY <1>2, <1>3 DEF MetaIsReset
<1>15. /\ step' \in {"resetTotal", "mint", "apply", "record"}
       /\ step' = "mint" => contract = "TokenTransfer"
  BY <1>2, <1>3
<1>16. QED
  BY <1>1, <1>3, <1>4, <1>7, <1>8, <1>9, <1>10, <1>11, <1>12, <1>13, <1>14, <1>15
     DEF ChainsInv, LockIds, AuctionIds

LEMMA MintOpeningKeeps ==
  RecordsInv /\ ChainsInv /\ Live!MintOpening => ChainsInv' /\ Elsewhere
<1>1. SUFFICES ASSUME RecordsInv, ChainsInv, Live!MintOpening PROVE ChainsInv' /\ Elsewhere
  OBVIOUS
<1>2. /\ step = "mint" /\ step' \in {"apply", "record"}
      /\ \E half, done \in SUBSET Users : /\ original' = Live!MintedTo(original, half)
                                          /\ translated' = Live!MintedTo(translated, done)
      /\ UNCHANGED <<contract, init, touched, op>> /\ CaseStep
  <2>1. Users \in SUBSET Users
    OBVIOUS
  <2>2. QED
    BY <1>1, <2>1 DEF Live!MintOpening, Live!Ends, CaseStep
<1>3. /\ contract = "TokenTransfer" /\ contract \in Live!Contracts
      /\ init \in Live!Initials(contract)
  BY <1>1, <1>2 DEF RecordsInv, ChainsInv
<1>4. /\ \A n \in Runs : Used(n) => Used(n)'
      /\ Here \in Runs /\ Here' = Here /\ ~Used(Here) /\ Used(Here)'
  BY <1>1, <1>2, CaseHere
<1>5. /\ Sound(original') /\ original'.allowances = original.allowances
      /\ \A m \in Runs \ {Here} : SameAt(contract, original, original', m)
  <2>1. PICK half \in SUBSET Users : original' = Live!MintedTo(original, half)
    BY <1>2
  <2>2. Sound(original)
    BY <1>1 DEF ChainsInv
  <2>3. QED
    BY <1>3, <1>4, <2>1, <2>2, MintKeeps
<1>6. /\ Sound(translated') /\ translated'.allowances = translated.allowances
      /\ \A m \in Runs \ {Here} : SameAt(contract, translated, translated', m)
  <2>1. PICK done \in SUBSET Users : translated' = Live!MintedTo(translated, done)
    BY <1>2
  <2>2. Sound(translated)
    BY <1>1 DEF ChainsInv
  <2>3. QED
    BY <1>3, <1>4, <2>1, <2>2, MintKeeps
<1>7. Clear(original)'
  <2>1. Clear(original) /\ \A m \in Runs : Used(m)' \/ SameAt(contract, original, original', m)
    BY <1>1, <1>4, <1>5 DEF ChainsInv
  <2>2. \A n \in Runs : ~(Used(n)') => Fresh(contract', original', n, LockIds, AuctionIds)
    BY <1>2, <1>4, <2>1, ClearStays
  <2>3. QED
    BY <2>2 DEF Clear, Unwritten, Runs, LockIds, AuctionIds
<1>8. Clear(translated)'
  <2>1. /\ Clear(translated)
        /\ \A m \in Runs : Used(m)' \/ SameAt(contract, translated, translated', m)
    BY <1>1, <1>4, <1>6 DEF ChainsInv
  <2>2. \A n \in Runs : ~(Used(n)') => Fresh(contract', translated', n, LockIds, AuctionIds)
    BY <1>2, <1>4, <2>1, ClearStays
  <2>3. QED
    BY <2>2 DEF Clear, Unwritten, Runs, LockIds, AuctionIds
<1>9. Sound(original)' /\ Sound(translated)'
  BY <1>2, <1>5, <1>6 DEF Sound, Runs, LockIds, AuctionIds
<1>10. SameOff(contract, original', translated', Here, touched, LockIds, AuctionIds)
  <2>1. /\ Fresh(contract, original, Here, LockIds, AuctionIds)
        /\ Fresh(contract, translated, Here, LockIds, AuctionIds)
    BY <1>1, <1>4 DEF ChainsInv, Clear, Unwritten
  <2>2. original'.allowances[Here] = translated'.allowances[Here]
    BY <1>3, <1>5, <1>6, <2>1 DEF Fresh
  <2>3. touched.users = Users
    BY <1>1, <1>2, <1>3, FirstKeys DEF ChainsInv
  <2>4. QED
    BY <1>3, <2>2, <2>3 DEF SameOff, Live!Travel
<1>11. /\ Covered(contract, original', Here) /\ Covered(contract, translated', Here)
       /\ Named(contract, original', Here, touched, AuctionIds)
       /\ Named(contract, translated', Here, touched, AuctionIds)
       /\ contract \notin Live!Travel
  BY <1>3 DEF Covered, Named, Live!Travel
<1>12. step' = "apply" => KeysSoFar' = touched
  BY <1>2 DEF KeysSoFar
<1>13. Elsewhere
  BY <1>5, <1>6 DEF Elsewhere
<1>14. QED
  BY <1>1, <1>2, <1>4, <1>7, <1>8, <1>9, <1>10, <1>11, <1>12, <1>13
     DEF ChainsInv, LockIds, AuctionIds

\* The original's answer: what it may write is among the keys so far, which
\* now name those of the operation.
LEMMA ApplyOriginalKeeps ==
  RecordsInv /\ ChainsInv /\ (\E o \in Live!Operations(contract) : Live!ApplyOriginal(o))
    => ChainsInv' /\ Elsewhere
<1>1. SUFFICES ASSUME RecordsInv, ChainsInv, NEW o \in Live!Operations(contract),
                      Live!ApplyOriginal(o)
               PROVE  ChainsInv' /\ Elsewhere
  OBVIOUS
<1>2. /\ step = "apply" /\ step' = "confirm" /\ op' = o
      /\ original' \in Live!MayApply(original, Live!Original(contract, original, Here, o).state)
      /\ translated' = translated /\ UNCHANGED <<contract, init, touched>> /\ CaseStep
  BY <1>1 DEF Live!ApplyOriginal, Live!MayApply, CaseStep, Here
<1>3. /\ \A n \in Runs : Used(n) => Used(n)'
      /\ Here \in Runs /\ Here' = Here /\ Used(Here)'
  BY <1>1, <1>2, CaseHere
<1>4. /\ contract \in Live!Contracts /\ DOMAIN touched = Keys
      /\ Sound(original) /\ Sound(translated)
      /\ Covered(contract, original, Here) /\ Covered(contract, translated, Here)
      /\ SameOff(contract, original, translated, Here, touched, LockIds, AuctionIds)
      /\ Named(contract, original, Here, touched, AuctionIds)
      /\ Named(contract, translated, Here, touched, AuctionIds)
      /\ contract \in Live!Travel => translated.lockSize = init.lockSize
  BY <1>1, <1>2 DEF RecordsInv, ChainsInv, KeysSoFar
<1>5. PICK K : K = Live!Also(touched, Live!Touched(contract, o))
  OBVIOUS
<1>6. Names(K, contract, o) /\ Contains(K, touched) /\ KeysSoFar' = K
  BY <1>2, <1>4, <1>5, KeysGrow DEF KeysSoFar
<1>7. /\ Named(contract, original, Here, K, AuctionIds)
      /\ Named(contract, translated, Here, K, AuctionIds)
      /\ SameOff(contract, original, translated, Here, K, LockIds, AuctionIds)
  BY <1>4, <1>6, NamedGrows, SameOffGrows
<1>8. /\ Sound(original') /\ Covered(contract, original', Here)
      /\ Named(contract, original', Here, K, AuctionIds)
      /\ \A m \in Runs \ {Here} : SameAt(contract, original, original', m)
      /\ SameOff(contract, original, original', Here, K, LockIds, AuctionIds)
  BY <1>1, <1>2, <1>3, <1>4, <1>6, <1>7, OpMay
<1>9. SameOff(contract, original', translated', Here, K, LockIds, AuctionIds)
  BY <1>2, <1>7, <1>8, SameOffSymmetric, SameOffJoins
<1>10. Clear(original)'
  <2>1. Clear(original) /\ \A m \in Runs : Used(m)' \/ SameAt(contract, original, original', m)
    BY <1>1, <1>3, <1>8 DEF ChainsInv
  <2>2. \A n \in Runs : ~(Used(n)') => Fresh(contract', original', n, LockIds, AuctionIds)
    BY <1>2, <1>3, <2>1, ClearStays
  <2>3. QED
    BY <2>2 DEF Clear, Unwritten, Runs, LockIds, AuctionIds
<1>11. Clear(translated)'
  <2>1. Clear(translated) /\ \A m \in Runs : SameAt(contract, translated, translated, m)
    BY <1>1 DEF ChainsInv, SameAt
  <2>2. \A n \in Runs : ~(Used(n)') => Fresh(contract', translated, n, LockIds, AuctionIds)
    BY <1>2, <1>3, <2>1, ClearStays
  <2>3. QED
    BY <1>2, <2>2 DEF Clear, Unwritten, Runs, LockIds, AuctionIds
<1>12. Sound(original)' /\ Sound(translated)'
  BY <1>2, <1>4, <1>8 DEF Sound, Runs, LockIds, AuctionIds
<1>13. Elsewhere
  BY <1>2, <1>8 DEF Elsewhere, SameAt
<1>14. QED
  BY <1>1, <1>2, <1>3, <1>4, <1>6, <1>7, <1>8, <1>9, <1>10, <1>11, <1>12, <1>13
     DEF ChainsInv, LockIds, AuctionIds

LEMMA ApplyTranslatedKeeps ==
  RecordsInv /\ ChainsInv /\ Live!ApplyTranslated => ChainsInv' /\ Elsewhere
<1>1. SUFFICES ASSUME RecordsInv, ChainsInv, Live!ApplyTranslated PROVE ChainsInv' /\ Elsewhere
  OBVIOUS
<1>2. PICK K : K = KeysSoFar
  OBVIOUS
<1>3. /\ step = "confirm" /\ original' = original /\ UNCHANGED <<contract, init>> /\ CaseStep
      /\ translated' \in Live!MayApply(translated,
                                       Live!Translated(contract, translated, Here, op).state)
      /\ \/ step' = "apply" /\ touched' = K
         \/ step' = "record" /\ touched' = touched
  BY <1>1, <1>2 DEF Live!ApplyTranslated, Live!MayApply, Live!Compare, Live!Ends, CaseStep, Here,
                    KeysSoFar
<1>4. /\ \A n \in Runs : Used(n) => Used(n)'
      /\ Here \in Runs /\ Here' = Here /\ Used(Here)'
  BY <1>1, <1>3, CaseHere
<1>5. /\ contract \in Live!Contracts /\ DOMAIN touched = Keys /\ op \in Live!Operations(contract)
      /\ Sound(original) /\ Sound(translated)
      /\ Covered(contract, original, Here) /\ Covered(contract, translated, Here)
      /\ SameOff(contract, original, translated, Here, K, LockIds, AuctionIds)
      /\ Named(contract, original, Here, K, AuctionIds)
      /\ Named(contract, translated, Here, K, AuctionIds)
      /\ contract \in Live!Travel => translated.lockSize = init.lockSize
  BY <1>1, <1>2, <1>3 DEF RecordsInv, ChainsInv
<1>6. Names(K, contract, op) /\ DOMAIN K = Keys
  BY <1>2, <1>3, <1>5, KeysGrow DEF KeysSoFar
<1>7. translated' \in Live!MayApply(translated,
                                    Live!Original(contract, translated, Here, op).state)
  BY <1>3, <1>4, <1>5, TranslatedIs
<1>8. /\ Sound(translated') /\ Covered(contract, translated', Here)
      /\ Named(contract, translated', Here, K, AuctionIds)
      /\ \A m \in Runs \ {Here} : SameAt(contract, translated, translated', m)
      /\ SameOff(contract, translated, translated', Here, K, LockIds, AuctionIds)
      /\ contract \in Live!Travel => translated'.lockSize = translated.lockSize
  BY <1>4, <1>5, <1>6, <1>7, OpMay
<1>9. SameOff(contract, original, translated', Here, K, LockIds, AuctionIds)
  BY <1>5, <1>8, SameOffJoins
<1>10. Clear(original)'
  <2>1. Clear(original) /\ \A m \in Runs : SameAt(contract, original, original, m)
    BY <1>1 DEF ChainsInv, SameAt
  <2>2. \A n \in Runs : ~(Used(n)') => Fresh(contract', original, n, LockIds, AuctionIds)
    BY <1>3, <1>4, <2>1, ClearStays
  <2>3. QED
    BY <1>3, <2>2 DEF Clear, Unwritten, Runs, LockIds, AuctionIds
<1>11. Clear(translated)'
  <2>1. /\ Clear(translated)
        /\ \A m \in Runs : Used(m)' \/ SameAt(contract, translated, translated', m)
    BY <1>1, <1>4, <1>8 DEF ChainsInv
  <2>2. \A n \in Runs : ~(Used(n)') => Fresh(contract', translated', n, LockIds, AuctionIds)
    BY <1>3, <1>4, <2>1, ClearStays
  <2>3. QED
    BY <2>2 DEF Clear, Unwritten, Runs, LockIds, AuctionIds
<1>12. Sound(original)' /\ Sound(translated)'
  BY <1>3, <1>5, <1>8 DEF Sound, Runs, LockIds, AuctionIds
<1>13. step' = "apply" => KeysSoFar' = K
  BY <1>3 DEF KeysSoFar
<1>14. Elsewhere
  BY <1>3, <1>8 DEF Elsewhere, SameAt
<1>15. QED
  BY <1>1, <1>3, <1>4, <1>5, <1>6, <1>8, <1>9, <1>10, <1>11, <1>12, <1>13, <1>14
     DEF ChainsInv, LockIds, AuctionIds

\* The other steps leave the contracts alone; the namespaces stay used.
LEMMA ChainsRest ==
  ASSUME ChainsInv, UNCHANGED <<contract, original, translated>>,
         \A n \in Runs : Used(n) => Used(n)'
  PROVE  Sound(original)' /\ Sound(translated)' /\ Clear(original)' /\ Clear(translated)'
<1>1. /\ \A n \in Runs : ~(Used(n)') => Fresh(contract', original', n, LockIds, AuctionIds)
      /\ \A n \in Runs : ~(Used(n)') => Fresh(contract', translated', n, LockIds, AuctionIds)
  BY DEF ChainsInv, Clear, Unwritten
<1>2. Clear(original)' /\ Clear(translated)'
  BY <1>1 DEF Clear, Unwritten, Runs, LockIds, AuctionIds
<1>3. Sound(original)' /\ Sound(translated)'
  BY DEF ChainsInv, Sound, Runs, LockIds, AuctionIds
<1>4. QED
  BY <1>2, <1>3

LEMMA SnapshotKeeps ==
  RecordsInv /\ ChainsInv /\ (Live!Snapshot \/ Live!SnapshotMisread) => ChainsInv' /\ Elsewhere
<1>1. SUFFICES ASSUME RecordsInv, ChainsInv, Live!Snapshot \/ Live!SnapshotMisread
               PROVE  ChainsInv' /\ Elsewhere
  OBVIOUS
<1>2. /\ step' = "record" /\ CaseStep
      /\ UNCHANGED <<contract, original, translated, init, touched>>
  BY <1>1 DEF Live!Snapshot, Live!SnapshotMisread, Live!Ends, Live!chains, CaseStep
<1>3. \A n \in Runs : Used(n) => Used(n)'
  BY <1>1, <1>2, CaseHere
<1>4. Sound(original)' /\ Sound(translated)' /\ Clear(original)' /\ Clear(translated)'
  BY <1>1, <1>2, <1>3, ChainsRest
<1>5. Elsewhere
  BY <1>2 DEF Elsewhere, SameAt
<1>6. QED
  BY <1>1, <1>2, <1>4, <1>5 DEF ChainsInv

LEMMA MainKeepsChains ==
  RecordsInv /\ ChainsInv
  /\ (\/ Live!Launch \/ Live!SkipDone \/ Live!BeginCase \/ Live!EndRun \/ Live!Die
      \/ Live!Record)
    => ChainsInv'
<1>1. SUFFICES ASSUME RecordsInv, ChainsInv,
                      \/ Live!Launch \/ Live!SkipDone \/ Live!BeginCase \/ Live!EndRun \/ Live!Die
                      \/ Live!Record
               PROVE  ChainsInv'
  OBVIOUS
<1>2. UNCHANGED <<contract, original, translated>>
  BY <1>1 DEF Live!Launch, Live!SkipDone, Live!BeginCase, Live!EndRun, Live!Die, Live!Record,
              Live!chains
<1>3. \/ step = "off" /\ launches' = launches + 1 /\ step' = "next"
      \/ step = "next" /\ launches' = launches /\ step' = "next" /\ at' = at + 1
      \/ step = "next" /\ launches' = launches /\ step' = "resetOriginal" /\ at' = at
      \/ launches' = launches /\ step' = "off"
      \/ step = "record" /\ launches' = launches /\ step' = "next" /\ at' = at + 1
  BY <1>1 DEF Live!Launch, Live!SkipDone, Live!BeginCase, Live!EndRun, Live!Die, Live!Record
<1>4. launches \in Nat /\ at \in Nat
  BY <1>1, RQ2Assumption DEF RecordsInv
<1>5. \A n \in Runs : Used(n) => Used(n)'
  <2>1. TAKE n \in Runs
  <2>2. n[1] \in Nat /\ n[2] \in Nat
    BY RQ2Assumption DEF Runs
  <2>3. CASE step = "off" /\ launches' = launches + 1
    BY <1>4, <2>2, <2>3 DEF Used
  <2>4. CASE step = "next" /\ launches' = launches /\ at' = at + 1
    BY <1>4, <2>2, <2>4 DEF Used
  <2>5. CASE step = "next" /\ launches' = launches /\ at' = at
    BY <1>4, <2>2, <2>5 DEF Used
  <2>6. CASE launches' = launches /\ step' = "off"
    BY <1>4, <2>2, <2>6 DEF Used
  <2>7. CASE step = "record" /\ launches' = launches /\ at' = at + 1
    BY <1>4, <2>2, <2>7 DEF Used
  <2>8. QED
    BY <1>3, <2>3, <2>4, <2>5, <2>6, <2>7
<1>6. Sound(original)' /\ Sound(translated)' /\ Clear(original)' /\ Clear(translated)'
  BY <1>1, <1>2, <1>5, ChainsRest
<1>7. touched' = Live!TouchedAtFirst(contract)
  <2>1. CASE step \in {"off", "next"} /\ touched' = touched
    BY <1>1, <2>1 DEF ChainsInv
  <2>2. CASE touched' = Live!TouchedAtFirst(contract)
    BY <2>2
  <2>3. QED
    BY <1>1, <2>1, <2>2 DEF Live!Launch, Live!SkipDone, Live!BeginCase, Live!EndRun, Live!Die,
                            Live!Record, Live!Forgotten
<1>8. step' = "resetOriginal" => init' \in Live!Initials(contract)
  BY <1>1 DEF Live!Launch, Live!SkipDone, Live!BeginCase, Live!EndRun, Live!Die, Live!Record
<1>9. DOMAIN touched' = Keys
  BY <1>7, FirstKeys
<1>10. step' \in {"off", "next", "resetOriginal"}
  BY <1>3
<1>11. QED
  BY <1>2, <1>6, <1>7, <1>8, <1>9, <1>10 DEF ChainsInv

LEMMA ChainsInit == Live!Init => RecordsInv /\ ChainsInv
<1>1. SUFFICES ASSUME Live!Init PROVE ChainsInv
  BY RecordsInit
<1>2. /\ contract \in Live!Contracts /\ step = "off"
      /\ touched = Live!TouchedAtFirst(contract) /\ init = Live!Nothing
  BY <1>1 DEF Live!Init
<1>3. PICK i \in Live!Initials(contract) :
        original = Live!DeployedWith(i) /\ translated = Live!DeployedWith(i)
  BY <1>1 DEF Live!Init
<1>4. /\ Sound(original) /\ Sound(translated)
      /\ \A n \in Runs : Unwritten(original, n) /\ Unwritten(translated, n)
  BY <1>2, <1>3, DeployedFresh
<1>5. QED
  BY <1>2, <1>4, FirstKeys DEF ChainsInv, Clear

LEMMA CaseKeepsChains == RecordsInv /\ ChainsInv /\ CaseStep => ChainsInv' /\ Elsewhere
  BY ResetOriginalKeeps, ResetTranslatedKeeps, MintOpeningKeeps, ApplyOriginalKeeps,
     ApplyTranslatedKeeps, SnapshotKeeps DEF CaseStep

LEMMA ChainsKept == RecordsInv /\ ChainsInv /\ [Live!Next]_(Live!vars) => RecordsInv' /\ ChainsInv'
<1>1. SUFFICES ASSUME RecordsInv, ChainsInv, [Live!Next]_(Live!vars) PROVE ChainsInv'
  BY RecordsKept
<1>2. CASE CaseStep
  BY <1>1, <1>2, CaseKeepsChains
<1>3. CASE UNCHANGED Live!vars
  <2>1. UNCHANGED <<contract, step, launches, at, init, touched, op>>
        /\ UNCHANGED <<original, translated>>
    BY <1>3 DEF Live!vars, Live!chains
  <2>2. /\ \A n \in Runs : Used(n) => Used(n)'
        /\ KeysSoFar' = KeysSoFar /\ Here' = Here
    BY <2>1 DEF Used, KeysSoFar, Here, Live!namespacedCaseId
  <2>3. Sound(original)' /\ Sound(translated)' /\ Clear(original)' /\ Clear(translated)'
    BY <1>1, <2>1, <2>2, ChainsRest
  <2>4. QED
    BY <1>1, <2>1, <2>2, <2>3 DEF ChainsInv, MetaIsReset, LockIds, AuctionIds
<1>4. QED
  BY <1>1, <1>2, <1>3, LiveSteps, MainKeepsChains
-----------------------------------------------------------------------------
(* What a snapshot says: the value under every key it reads.               *)

\* The entries of a snapshot, as functions of the values read.
TravelBytes(price, remain, lockSize, total, have, accounts, bookings, locks, t) ==
       {Live!Entry(<<"meta", "price">>, "uint256", price),
        Live!Entry(<<"meta", "remain">>, "uint256", remain),
        Live!Entry(<<"meta", "lockSize">>, "uint256", lockSize),
        Live!Entry(<<"lockedTotal">>, "uint256", total),
        Live!Entry(<<"availableRemain">>, "uint256", have)}
  \cup {Live!Entry(<<"accounts", u>>, "uint256", accounts[u]) : u \in t.users}
  \cup {Live!Entry(<<"bookings", u>>, "uint256", bookings[u]) : u \in t.users}
  \cup {Live!Entry(<<"locks", l, "active">>, "bool", locks[l] # 0) : l \in t.locks}
  \cup {Live!Entry(<<"locks", l, "lockedAmount">>, "uint256", locks[l]) : l \in t.locks}

TokenBytes(supply, balances, allowances, t) ==
       {Live!Entry(<<"totalSupply">>, "uint256", supply)}
  \cup {Live!Entry(<<"balances", u>>, "uint256", balances[u]) : u \in t.users}
  \cup {Live!Entry(<<"allowances", p>>, "uint256", allowances[p]) : p \in t.pairs}

AuctionBytes(auctions, pending, t) ==
       (UNION {{Live!Entry(<<"auction", i, "seller">>, "string", auctions[i].seller),
                Live!Entry(<<"auction", i, "minPrice">>, "uint256", auctions[i].minPrice),
                Live!Entry(<<"auction", i, "highestBidder">>, "string", auctions[i].highestBidder),
                Live!Entry(<<"auction", i, "highestBid">>, "uint256", auctions[i].highestBid),
                Live!Entry(<<"auction", i, "open">>, "bool", auctions[i].open),
                Live!Entry(<<"auction", i, "exists">>, "bool", auctions[i].exists)}
               : i \in t.ids})
  \cup {Live!Entry(<<"pending", u>>, "uint256", pending[u]) : u \in t.users}

DexBytes(a, b, total, shares, t) ==
       {Live!Entry(<<"reserveA">>, "uint256", a),
        Live!Entry(<<"reserveB">>, "uint256", b),
        Live!Entry(<<"totalShares">>, "uint256", total)}
  \cup {Live!Entry(<<"shares", u>>, "uint256", shares[u]) : u \in t.users}

LEMMA EntriesAreBytes ==
  ASSUME NEW s, NEW n, NEW t
  PROVE  /\ \A z, have : Live!TravelEntries(s, n, z, t, have)
              = TravelBytes(s.price, s.remain, z, s.lockedTotal, have, s.accounts[n],
                            s.bookings[n], s.locks[n], t)
         /\ Live!TokenEntries(s, n, t)
              = TokenBytes(s.totalSupply, s.balances[n], s.allowances[n], t)
         /\ Live!AuctionEntries(s, n, t) = AuctionBytes(s.auctions[n], s.pending[n], t)
         /\ Live!DexEntries(s, n, t)
              = DexBytes(s.reserveA, s.reserveB, s.totalShares, s.shares[n], t)
BY DEF Live!TravelEntries, Live!TokenEntries, Live!AuctionEntries, Live!DexEntries,
       TravelBytes, TokenBytes, AuctionBytes, DexBytes

ReadsTravel(E, v, p, r, z, w, a, b, l, t) ==
  /\ Live!Entry(<<"meta", "price">>, "uint256", v) \in E <=> v = p
  /\ Live!Entry(<<"meta", "remain">>, "uint256", v) \in E <=> v = r
  /\ Live!Entry(<<"meta", "lockSize">>, "uint256", v) \in E <=> v = z
  /\ Live!Entry(<<"lockedTotal">>, "uint256", v) \in E <=> v = w
  /\ \A u \in t.users :
       /\ Live!Entry(<<"accounts", u>>, "uint256", v) \in E <=> v = a[u]
       /\ Live!Entry(<<"bookings", u>>, "uint256", v) \in E <=> v = b[u]
  /\ \A i \in t.locks :
       Live!Entry(<<"locks", i, "lockedAmount">>, "uint256", v) \in E <=> v = l[i]

LEMMA TravelRead ==
  ASSUME NEW p, NEW r, NEW z, NEW w, NEW h, NEW a, NEW b, NEW l, NEW t, NEW v
  PROVE  ReadsTravel(TravelBytes(p, r, z, w, h, a, b, l, t), v, p, r, z, w, a, b, l, t)
BY DEF ReadsTravel, TravelBytes, Live!Entry, Live!EncodeValue

ReadsToken(E, v, w, a, b, t) ==
  /\ Live!Entry(<<"totalSupply">>, "uint256", v) \in E <=> v = w
  /\ \A u \in t.users : Live!Entry(<<"balances", u>>, "uint256", v) \in E <=> v = a[u]
  /\ \A p \in t.pairs : Live!Entry(<<"allowances", p>>, "uint256", v) \in E <=> v = b[p]

LEMMA TokenRead ==
  ASSUME NEW w, NEW a, NEW b, NEW t, NEW v
  PROVE  ReadsToken(TokenBytes(w, a, b, t), v, w, a, b, t)
BY DEF ReadsToken, TokenBytes, Live!Entry, Live!EncodeValue

ReadsAuction(E, v, a, p, t) ==
  /\ \A u \in t.users : Live!Entry(<<"pending", u>>, "uint256", v) \in E <=> v = p[u]
  /\ \A i \in t.ids :
       /\ Live!Entry(<<"auction", i, "seller">>, "string", v) \in E <=> v = a[i].seller
       /\ Live!Entry(<<"auction", i, "minPrice">>, "uint256", v) \in E
            <=> v = a[i].minPrice
       /\ Live!Entry(<<"auction", i, "highestBidder">>, "string", v) \in E
            <=> v = a[i].highestBidder
       /\ Live!Entry(<<"auction", i, "highestBid">>, "uint256", v) \in E
            <=> v = a[i].highestBid
       /\ Live!Entry(<<"auction", i, "open">>, "bool", v) \in E <=> v = a[i].open
       /\ Live!Entry(<<"auction", i, "exists">>, "bool", v) \in E <=> v = a[i].exists

LEMMA AuctionRead ==
  ASSUME NEW a, NEW p, NEW t, NEW v
  PROVE  ReadsAuction(AuctionBytes(a, p, t), v, a, p, t)
<1>. DEFINE E == AuctionBytes(a, p, t)
<1>1. ASSUME NEW e
      PROVE  e \in E <=>
        \/ \E i \in t.ids :
             \/ e = Live!Entry(<<"auction", i, "seller">>, "string", a[i].seller)
             \/ e = Live!Entry(<<"auction", i, "minPrice">>, "uint256", a[i].minPrice)
             \/ e = Live!Entry(<<"auction", i, "highestBidder">>, "string", a[i].highestBidder)
             \/ e = Live!Entry(<<"auction", i, "highestBid">>, "uint256", a[i].highestBid)
             \/ e = Live!Entry(<<"auction", i, "open">>, "bool", a[i].open)
             \/ e = Live!Entry(<<"auction", i, "exists">>, "bool", a[i].exists)
        \/ \E u \in t.users : e = Live!Entry(<<"pending", u>>, "uint256", p[u])
  <2>. DEFINE Six(i) == {Live!Entry(<<"auction", i, "seller">>, "string", a[i].seller),
                         Live!Entry(<<"auction", i, "minPrice">>, "uint256", a[i].minPrice),
                         Live!Entry(<<"auction", i, "highestBidder">>, "string", a[i].highestBidder),
                         Live!Entry(<<"auction", i, "highestBid">>, "uint256", a[i].highestBid),
                         Live!Entry(<<"auction", i, "open">>, "bool", a[i].open),
                         Live!Entry(<<"auction", i, "exists">>, "bool", a[i].exists)}
              Owes(u) == Live!Entry(<<"pending", u>>, "uint256", p[u])
  <2>1. E = (UNION {Six(i) : i \in t.ids}) \cup {Owes(u) : u \in t.users}
    BY DEF AuctionBytes
  <2>. HIDE DEF Six, Owes, E
  <2>2. e \in E <=> (\E i \in t.ids : e \in Six(i)) \/ (\E u \in t.users : e = Owes(u))
    BY <2>1
  <2>3. QED
    BY <2>2 DEF Six, Owes
<1>. HIDE DEF E
<1>2. ASSUME NEW i \in t.ids
      PROVE  Live!Entry(<<"auction", i, "seller">>, "string", v) \in E <=> v = a[i].seller
  BY <1>1 DEF Live!Entry, Live!EncodeValue
<1>3. ASSUME NEW i \in t.ids
      PROVE  Live!Entry(<<"auction", i, "minPrice">>, "uint256", v) \in E <=> v = a[i].minPrice
  BY <1>1 DEF Live!Entry, Live!EncodeValue
<1>4. ASSUME NEW i \in t.ids
      PROVE  Live!Entry(<<"auction", i, "highestBidder">>, "string", v) \in E
               <=> v = a[i].highestBidder
  BY <1>1 DEF Live!Entry, Live!EncodeValue
<1>5. ASSUME NEW i \in t.ids
      PROVE  Live!Entry(<<"auction", i, "highestBid">>, "uint256", v) \in E <=> v = a[i].highestBid
  BY <1>1 DEF Live!Entry, Live!EncodeValue
<1>6. ASSUME NEW i \in t.ids
      PROVE  Live!Entry(<<"auction", i, "open">>, "bool", v) \in E <=> v = a[i].open
  BY <1>1 DEF Live!Entry, Live!EncodeValue
<1>7. ASSUME NEW i \in t.ids
      PROVE  Live!Entry(<<"auction", i, "exists">>, "bool", v) \in E <=> v = a[i].exists
  BY <1>1 DEF Live!Entry, Live!EncodeValue
<1>8. ASSUME NEW u \in t.users
      PROVE  Live!Entry(<<"pending", u>>, "uint256", v) \in E <=> v = p[u]
  BY <1>1 DEF Live!Entry, Live!EncodeValue
<1>9. QED
  BY <1>2, <1>3, <1>4, <1>5, <1>6, <1>7, <1>8 DEF ReadsAuction, E

ReadsDex(E, v, a, b, w, m, t) ==
  /\ Live!Entry(<<"reserveA">>, "uint256", v) \in E <=> v = a
  /\ Live!Entry(<<"reserveB">>, "uint256", v) \in E <=> v = b
  /\ Live!Entry(<<"totalShares">>, "uint256", v) \in E <=> v = w
  /\ \A u \in t.users : Live!Entry(<<"shares", u>>, "uint256", v) \in E <=> v = m[u]

LEMMA DexRead ==
  ASSUME NEW a, NEW b, NEW w, NEW m, NEW t, NEW v
  PROVE  ReadsDex(DexBytes(a, b, w, m, t), v, a, b, w, m, t)
BY DEF ReadsDex, DexBytes, Live!Entry, Live!EncodeValue

\* Equal snapshots were read from equal values.
LEMMA TravelReadSame ==
  ASSUME NEW p, NEW r, NEW z, NEW w, NEW h, NEW a, NEW b, NEW l, NEW t,
         NEW p2, NEW r2, NEW z2, NEW w2, NEW h2, NEW a2, NEW b2, NEW l2,
         TravelBytes(p, r, z, w, h, a, b, l, t) = TravelBytes(p2, r2, z2, w2, h2, a2, b2, l2, t)
  PROVE  /\ p = p2 /\ r = r2 /\ z = z2 /\ w = w2
         /\ \A u \in t.users : a[u] = a2[u] /\ b[u] = b2[u]
         /\ \A i \in t.locks : l[i] = l2[i]
<1>1. ASSUME NEW v
      PROVE  /\ (v = p <=> v = p2) /\ (v = r <=> v = r2) /\ (v = z <=> v = z2)
             /\ v = w <=> v = w2
             /\ \A u \in t.users : (v = a[u] <=> v = a2[u]) /\ (v = b[u] <=> v = b2[u])
             /\ \A i \in t.locks : v = l[i] <=> v = l2[i]
  <2>1. PICK E : E = TravelBytes(p, r, z, w, h, a, b, l, t)
    OBVIOUS
  <2>2. ReadsTravel(E, v, p, r, z, w, a, b, l, t) /\ ReadsTravel(E, v, p2, r2, z2, w2, a2, b2, l2, t)
    BY <2>1, TravelRead
  <2>3. QED
    BY <2>2 DEF ReadsTravel
<1>2. QED
  BY <1>1

LEMMA TokenReadSame ==
  ASSUME NEW w, NEW a, NEW b, NEW t, NEW w2, NEW a2, NEW b2,
         TokenBytes(w, a, b, t) = TokenBytes(w2, a2, b2, t)
  PROVE  /\ w = w2 /\ \A u \in t.users : a[u] = a2[u]
         /\ \A p \in t.pairs : b[p] = b2[p]
<1>1. ASSUME NEW v
      PROVE  /\ v = w <=> v = w2
             /\ \A u \in t.users : v = a[u] <=> v = a2[u]
             /\ \A p \in t.pairs : v = b[p] <=> v = b2[p]
  <2>1. PICK E : E = TokenBytes(w, a, b, t)
    OBVIOUS
  <2>2. ReadsToken(E, v, w, a, b, t) /\ ReadsToken(E, v, w2, a2, b2, t)
    BY <2>1, TokenRead
  <2>3. QED
    BY <2>2 DEF ReadsToken
<1>2. QED
  BY <1>1

LEMMA AuctionReadSame ==
  ASSUME NEW a, NEW p, NEW t, NEW a2, NEW p2, AuctionBytes(a, p, t) = AuctionBytes(a2, p2, t)
  PROVE  /\ \A u \in t.users : p[u] = p2[u]
         /\ \A i \in t.ids : /\ a[i].seller = a2[i].seller /\ a[i].minPrice = a2[i].minPrice
                             /\ a[i].highestBidder = a2[i].highestBidder
                             /\ a[i].highestBid = a2[i].highestBid
                             /\ a[i].open = a2[i].open /\ a[i].exists = a2[i].exists
<1>1. ASSUME NEW v
      PROVE  /\ \A u \in t.users : v = p[u] <=> v = p2[u]
             /\ \A i \in t.ids :
                  /\ v = a[i].seller <=> v = a2[i].seller
                  /\ v = a[i].minPrice <=> v = a2[i].minPrice
                  /\ v = a[i].highestBidder <=> v = a2[i].highestBidder
                  /\ v = a[i].highestBid <=> v = a2[i].highestBid
                  /\ v = a[i].open <=> v = a2[i].open
                  /\ v = a[i].exists <=> v = a2[i].exists
  <2>1. PICK E : E = AuctionBytes(a, p, t)
    OBVIOUS
  <2>2. ReadsAuction(E, v, a, p, t) /\ ReadsAuction(E, v, a2, p2, t)
    BY <2>1, AuctionRead
  <2>3. QED
    BY <2>2 DEF ReadsAuction
<1>2. QED
  BY <1>1

LEMMA DexReadSame ==
  ASSUME NEW a, NEW b, NEW w, NEW m, NEW t, NEW a2, NEW b2, NEW w2, NEW m2,
         DexBytes(a, b, w, m, t) = DexBytes(a2, b2, w2, m2, t)
  PROVE  a = a2 /\ b = b2 /\ w = w2 /\ \A u \in t.users : m[u] = m2[u]
<1>1. ASSUME NEW v
      PROVE  /\ (v = a <=> v = a2) /\ (v = b <=> v = b2) /\ (v = w <=> v = w2)
             /\ \A u \in t.users : v = m[u] <=> v = m2[u]
  <2>1. PICK E : E = DexBytes(a, b, w, m, t)
    OBVIOUS
  <2>2. ReadsDex(E, v, a, b, w, m, t) /\ ReadsDex(E, v, a2, b2, w2, m2, t)
    BY <2>1, DexRead
  <2>3. QED
    BY <2>2 DEF ReadsDex
<1>2. QED
  BY <1>1

\* The entries the two snapshots are made of.
Originals == IF contract = "TrainBooking" THEN [original EXCEPT !.lockSize = init.lockSize]
             ELSE original

LEMMA SnapshotBytes ==
  ASSUME contract \in Live!Contracts
  PROVE
  /\ \A have, units :
       contract \in Live!Travel /\ have = Live!availableRemain(Originals)
       /\ units = Live!availableUnits(translated) =>
         (Live!SameSnapshots <=>
            TravelBytes(Originals.price, Originals.remain, Originals.lockSize,
                        Originals.lockedTotal, have, Originals.accounts[Here],
                        Originals.bookings[Here], Originals.locks[Here], touched)
            = TravelBytes(translated.price, translated.remain, init.lockSize,
                          translated.lockedTotal, units, translated.accounts[Here],
                          translated.bookings[Here], translated.locks[Here], touched))
  /\ contract = "TokenTransfer" =>
       (Live!SameSnapshots <=>
          TokenBytes(original.totalSupply, original.balances[Here],
                     original.allowances[Here], touched)
          = TokenBytes(translated.totalSupply, translated.balances[Here],
                       translated.allowances[Here], touched))
  /\ contract = "AuctionLogic" =>
       (Live!SameSnapshots <=>
          AuctionBytes(original.auctions[Here], original.pending[Here], touched)
          = AuctionBytes(translated.auctions[Here], translated.pending[Here], touched))
  /\ contract = "DEXSwap" =>
       (Live!SameSnapshots <=>
          DexBytes(original.reserveA, original.reserveB, original.totalShares,
                   original.shares[Here], touched)
          = DexBytes(translated.reserveA, translated.reserveB, translated.totalShares,
                     translated.shares[Here], touched))
<1>1. PICK q : q = Originals
  OBVIOUS
<1>2. Live!SameSnapshots <=>
        Live!OriginalSnapshot(contract, q, Here, touched)
        = Live!TranslatedSnapshot(contract, translated, Here, init, touched)
  BY <1>1 DEF Live!SameSnapshots, Live!LiveSnapshot, Originals, Here
<1>3. CASE contract \in Live!Travel
  <2>1. PICK have : have = Live!availableRemain(q)
    OBVIOUS
  <2>2. PICK units : units = Live!availableUnits(translated)
    OBVIOUS
  <2>3. PICK mine : mine = Live!TravelEntries(q, Here, q.lockSize, touched, have)
    OBVIOUS
  <2>4. PICK its : its = Live!TravelEntries(translated, Here, init.lockSize, touched, units)
    OBVIOUS
  <2>5. /\ Live!OriginalSnapshot(contract, q, Here, touched)
             = Live!CanonicalSnapshot(contract, mine)
        /\ Live!TranslatedSnapshot(contract, translated, Here, init, touched)
             = Live!CanonicalSnapshot(contract, its)
    <3>1. Live!OriginalSnapshot(contract, q, Here, touched)
            = Live!CanonicalSnapshot(contract, mine)
      BY <1>3, <2>1, <2>3 DEF Live!OriginalSnapshot, Live!Travel
    <3>2. Live!TranslatedSnapshot(contract, translated, Here, init, touched)
            = Live!CanonicalSnapshot(contract, its)
      BY <1>3, <2>2, <2>4 DEF Live!TranslatedSnapshot, Live!Travel
    <3>3. QED
      BY <3>1, <3>2
  <2>6. Live!SameSnapshots <=> mine = its
    BY <1>2, <2>5 DEF Live!CanonicalSnapshot
  <2>7. /\ mine = TravelBytes(q.price, q.remain, q.lockSize, q.lockedTotal, have,
                              q.accounts[Here], q.bookings[Here], q.locks[Here], touched)
        /\ its = TravelBytes(translated.price, translated.remain, init.lockSize,
                             translated.lockedTotal, units, translated.accounts[Here],
                             translated.bookings[Here], translated.locks[Here], touched)
    BY <2>3, <2>4, EntriesAreBytes
  <2>8. QED
    BY <1>1, <1>3, <2>1, <2>2, <2>6, <2>7 DEF Live!Travel
<1>4. CASE contract = "TokenTransfer"
  <2>1. Live!SameSnapshots <=>
          Live!TokenEntries(original, Here, touched) = Live!TokenEntries(translated, Here, touched)
    BY <1>1, <1>2, <1>4 DEF Originals, Live!OriginalSnapshot, Live!TranslatedSnapshot,
                            Live!CanonicalSnapshot, Live!Travel
  <2>2. QED
    BY <1>4, <2>1, EntriesAreBytes DEF Live!Travel
<1>5. CASE contract = "AuctionLogic"
  <2>1. Live!SameSnapshots <=>
          Live!AuctionEntries(original, Here, touched)
          = Live!AuctionEntries(translated, Here, touched)
    BY <1>1, <1>2, <1>5 DEF Originals, Live!OriginalSnapshot, Live!TranslatedSnapshot,
                            Live!CanonicalSnapshot, Live!Travel
  <2>2. QED
    BY <1>5, <2>1, EntriesAreBytes DEF Live!Travel
<1>6. CASE contract = "DEXSwap"
  <2>1. Live!SameSnapshots <=>
          Live!DexEntries(original, Here, touched) = Live!DexEntries(translated, Here, touched)
    BY <1>1, <1>2, <1>6 DEF Originals, Live!OriginalSnapshot, Live!TranslatedSnapshot,
                            Live!CanonicalSnapshot, Live!Travel
  <2>2. QED
    BY <1>6, <2>1, EntriesAreBytes DEF Live!Travel
<1>7. QED
  BY <1>3, <1>4, <1>5, <1>6 DEF Live!Contracts, Live!Travel

\* What the snapshot reads of the original: all but the train's lock size.
LEMMA OriginalsFields ==
  ASSUME contract \in Live!Travel, Sound(original)
  PROVE  /\ Originals.price = original.price /\ Originals.remain = original.remain
         /\ Originals.lockedTotal = original.lockedTotal
         /\ Originals.accounts = original.accounts /\ Originals.bookings = original.bookings
         /\ Originals.locks = original.locks
         /\ Originals.lockSize = IF contract = "TrainBooking" THEN init.lockSize
                                 ELSE original.lockSize
<1>1. TravelState(original, Runs, LockIds)
  BY DEF Sound, State
<1>2. CASE contract = "TrainBooking"
  BY <1>1, <1>2 DEF Originals, TravelState
<1>3. CASE contract # "TrainBooking"
  BY <1>3 DEF Originals
<1>4. QED
  BY <1>2, <1>3

\* Twins have the same snapshots.
LEMMA SnapshotsOfTwins ==
  ASSUME contract \in Live!Contracts, Sound(original), Sound(translated),
         Twins(contract, original, translated, Here),
         contract \in Live!Travel => translated.lockSize = init.lockSize
  PROVE  Live!SameSnapshots
<1>1. CASE contract \in Live!Travel
  <2>1. PICK have : have = Live!availableRemain(Originals)
    OBVIOUS
  <2>2. PICK units : units = Live!availableUnits(translated)
    OBVIOUS
  <2>3. /\ Originals.price = translated.price /\ Originals.remain = translated.remain
        /\ Originals.lockedTotal = translated.lockedTotal
        /\ Originals.lockSize = init.lockSize
        /\ Originals.accounts[Here] = translated.accounts[Here]
        /\ Originals.bookings[Here] = translated.bookings[Here]
        /\ Originals.locks[Here] = translated.locks[Here]
    BY <1>1, OriginalsFields DEF Twins, SameAt
  <2>4. have = units
    <3>1. TravelState(translated, Runs, LockIds)
      BY <1>1 DEF Sound, State
    <3>2. Live!availableUnits(translated) = Live!availableRemain(translated)
      BY <3>1, AvailableAgrees
    <3>3. Live!availableRemain(Originals) = Live!availableRemain(translated)
      BY <2>3 DEF Live!availableRemain
    <3>4. QED
      BY <2>1, <2>2, <3>2, <3>3
  <2>5. Live!SameSnapshots <=>
          TravelBytes(Originals.price, Originals.remain, Originals.lockSize,
                      Originals.lockedTotal, have, Originals.accounts[Here],
                      Originals.bookings[Here], Originals.locks[Here], touched)
          = TravelBytes(translated.price, translated.remain, init.lockSize,
                        translated.lockedTotal, units, translated.accounts[Here],
                        translated.bookings[Here], translated.locks[Here], touched)
    BY <1>1, <2>1, <2>2, SnapshotBytes
  <2>6. QED
    BY <2>3, <2>4, <2>5
<1>2. CASE contract = "TokenTransfer"
  <2>1. /\ original.totalSupply = translated.totalSupply
        /\ original.balances[Here] = translated.balances[Here]
        /\ original.allowances[Here] = translated.allowances[Here]
    BY <1>2 DEF Twins, SameAt
  <2>2. QED
    BY <1>2, <2>1, SnapshotBytes
<1>3. CASE contract = "AuctionLogic"
  <2>1. /\ original.auctions[Here] = translated.auctions[Here]
        /\ original.pending[Here] = translated.pending[Here]
    BY <1>3 DEF Twins, SameAt
  <2>2. QED
    BY <1>3, <2>1, SnapshotBytes
<1>4. CASE contract = "DEXSwap"
  <2>1. /\ original.reserveA = translated.reserveA /\ original.reserveB = translated.reserveB
        /\ original.totalShares = translated.totalShares
        /\ original.shares[Here] = translated.shares[Here]
    BY <1>4 DEF Twins, SameAt
  <2>2. QED
    BY <1>4, <2>1, SnapshotBytes
<1>5. QED
  BY <1>1, <1>2, <1>3, <1>4 DEF Live!Contracts, Live!Travel

\* Equal snapshots mean equal states: the keys they do not read were written
\* by no operation of the case.
LEMMA SnapshotsMean ==
  ASSUME contract \in Live!Contracts, Sound(original), Sound(translated), Here \in Runs,
         SameOff(contract, original, translated, Here, touched, LockIds, AuctionIds),
         contract \in Live!Travel => translated.lockSize = init.lockSize,
         Live!SameSnapshots
  PROVE  SameAt(contract, original, translated, Here) /\ Live!SameScalars
<1>1. CASE contract \in Live!Travel
  <2>1. PICK have : have = Live!availableRemain(Originals)
    OBVIOUS
  <2>2. PICK units : units = Live!availableUnits(translated)
    OBVIOUS
  <2>3. TravelBytes(Originals.price, Originals.remain, Originals.lockSize,
                    Originals.lockedTotal, have, Originals.accounts[Here],
                    Originals.bookings[Here], Originals.locks[Here], touched)
        = TravelBytes(translated.price, translated.remain, init.lockSize,
                      translated.lockedTotal, units, translated.accounts[Here],
                      translated.bookings[Here], translated.locks[Here], touched)
    BY <1>1, <2>1, <2>2, SnapshotBytes
  <2>4. /\ Originals.price = translated.price /\ Originals.remain = translated.remain
        /\ Originals.lockSize = init.lockSize
        /\ Originals.lockedTotal = translated.lockedTotal
        /\ \A u \in touched.users : /\ Originals.accounts[Here][u] = translated.accounts[Here][u]
                                    /\ Originals.bookings[Here][u] = translated.bookings[Here][u]
        /\ \A l \in touched.locks : Originals.locks[Here][l] = translated.locks[Here][l]
    BY <2>3, TravelReadSame
  <2>5. /\ original.price = translated.price /\ original.remain = translated.remain
        /\ original.lockedTotal = translated.lockedTotal
        /\ contract # "TrainBooking" => original.lockSize = translated.lockSize
        /\ \A u \in touched.users : /\ original.accounts[Here][u] = translated.accounts[Here][u]
                                    /\ original.bookings[Here][u] = translated.bookings[Here][u]
        /\ \A l \in touched.locks : original.locks[Here][l] = translated.locks[Here][l]
    BY <1>1, <2>4, OriginalsFields
  <2>6. SameAt(contract, original, translated, Here)
    BY <1>1, <2>5, SameThroughout DEF Sound, Live!Travel
  <2>7. Live!SameScalars
    <3>1. TravelState(original, Runs, LockIds)
      BY <1>1 DEF Sound, State
    <3>2. DOMAIN original = {"price", "remain", "lockSize", "lockedTotal", "accounts", "bookings",
                             "locks"}
      BY <3>1 DEF TravelState
    <3>3. DOMAIN original \ (Live!Mappings \cup Live!Unread)
            \subseteq {"price", "remain", "lockedTotal"} \cup
                      (IF contract = "TrainBooking" THEN {} ELSE {"lockSize"})
      BY <3>2 DEF Live!Mappings, Live!Unread
    <3>4. QED
      BY <2>5, <3>3 DEF Live!SameScalars
  <2>8. QED
    BY <2>6, <2>7
<1>2. CASE contract = "TokenTransfer"
  <2>1. TokenBytes(original.totalSupply, original.balances[Here],
                   original.allowances[Here], touched)
        = TokenBytes(translated.totalSupply, translated.balances[Here],
                     translated.allowances[Here], touched)
    BY <1>2, SnapshotBytes
  <2>2. /\ original.totalSupply = translated.totalSupply
        /\ \A u \in touched.users : original.balances[Here][u] = translated.balances[Here][u]
        /\ \A p \in touched.pairs : original.allowances[Here][p] = translated.allowances[Here][p]
    BY <2>1, TokenReadSame
  <2>3. SameAt(contract, original, translated, Here)
    BY <1>2, <2>2, SameThroughout DEF Sound, Live!Travel
  <2>4. Live!SameScalars
    <3>1. TokenState(original, Runs)
      BY <1>2 DEF Sound, State
    <3>2. DOMAIN original \ (Live!Mappings \cup Live!Unread) \subseteq {"totalSupply"}
      BY <3>1 DEF TokenState, Live!Mappings, Live!Unread
    <3>3. QED
      BY <2>2, <3>2 DEF Live!SameScalars
  <2>5. QED
    BY <2>3, <2>4
<1>3. CASE contract = "AuctionLogic"
  <2>1. AuctionBytes(original.auctions[Here], original.pending[Here], touched)
        = AuctionBytes(translated.auctions[Here], translated.pending[Here], touched)
    BY <1>3, SnapshotBytes
  <2>2. PICK a : a = original.auctions[Here]
    OBVIOUS
  <2>3. PICK b : b = translated.auctions[Here]
    OBVIOUS
  <2>4. /\ \A u \in touched.users : original.pending[Here][u] = translated.pending[Here][u]
        /\ \A i \in touched.ids : /\ a[i].seller = b[i].seller /\ a[i].minPrice = b[i].minPrice
                                  /\ a[i].highestBidder = b[i].highestBidder
                                  /\ a[i].highestBid = b[i].highestBid
                                  /\ a[i].open = b[i].open /\ a[i].exists = b[i].exists
    BY <2>1, <2>2, <2>3, AuctionReadSame
  <2>5. AuctionState(original, Runs, AuctionIds) /\ AuctionState(translated, Runs, AuctionIds)
    BY <1>3 DEF Sound, State
  <2>6. ASSUME NEW i \in AuctionIds \cap touched.ids
        PROVE  a[i] = b[i]
    <3>1. PICK x : x = a[i]
      OBVIOUS
    <3>2. PICK y : y = b[i]
      OBVIOUS
    <3>3. AuctionRecord(x) /\ AuctionRecord(y)
      BY <2>2, <2>3, <2>5, <3>1, <3>2 DEF AuctionState
    <3>4. /\ x.seller = y.seller /\ x.minPrice = y.minPrice
          /\ x.highestBidder = y.highestBidder /\ x.highestBid = y.highestBid
          /\ x.open = y.open /\ x.exists = y.exists
      BY <2>4, <3>1, <3>2
    <3>5. DOMAIN x = DOMAIN y /\ \A f \in DOMAIN x : x[f] = y[f]
      BY <3>3, <3>4 DEF AuctionRecord
    <3>6. x = y
      BY <3>3, <3>5 DEF AuctionRecord
    <3>7. QED
      BY <3>1, <3>2, <3>6
  <2>7. SameAt(contract, original, translated, Here)
    BY <1>3, <2>2, <2>3, <2>4, <2>6, SameThroughout DEF Sound, Live!Travel
  <2>8. Live!SameScalars
    BY <2>5 DEF Live!SameScalars, AuctionState, Live!Mappings
  <2>9. QED
    BY <2>7, <2>8
<1>4. CASE contract = "DEXSwap"
  <2>1. DexBytes(original.reserveA, original.reserveB, original.totalShares,
                 original.shares[Here], touched)
        = DexBytes(translated.reserveA, translated.reserveB, translated.totalShares,
                   translated.shares[Here], touched)
    BY <1>4, SnapshotBytes
  <2>2. /\ original.reserveA = translated.reserveA /\ original.reserveB = translated.reserveB
        /\ original.totalShares = translated.totalShares
        /\ \A u \in touched.users : original.shares[Here][u] = translated.shares[Here][u]
    BY <2>1, DexReadSame
  <2>3. SameAt(contract, original, translated, Here)
    BY <1>4, <2>2, SameThroughout DEF Sound, Live!Travel
  <2>4. Live!SameScalars
    <3>1. DexState(original, Runs)
      BY <1>4 DEF Sound, State
    <3>2. DOMAIN original \ (Live!Mappings \cup Live!Unread)
            \subseteq {"reserveA", "reserveB", "totalShares"}
      BY <3>1 DEF DexState, Live!Mappings
    <3>3. QED
      BY <2>2, <3>2 DEF Live!SameScalars
  <2>5. QED
    BY <2>3, <2>4
<1>5. QED
  BY <1>1, <1>2, <1>3, <1>4 DEF Live!Contracts, Live!Travel
-----------------------------------------------------------------------------
(* The verdict on a case, and what a pass means.                           *)

LEMMA EndsAs ==
  ASSUME NEW category, NEW misread \in BOOLEAN, Live!Ends(category, misread)
  PROVE  /\ outcome'.pass <=> category = "none"
         /\ outcome'.misread <=> misread
         /\ outcome'.case = at /\ outcome'.run = launches
<1>1. PICK pass \in BOOLEAN : pass <=> category = "none"
  OBVIOUS
<1>2. outcome' = [case |-> at, run |-> launches, pass |-> pass, category |-> category,
                  misread |-> misread]
  BY <1>1 DEF Live!Ends
<1>3. QED
  BY <1>1, <1>2

\* The ways a case ends.
LEMMA CaseEnds ==
  CaseStep /\ step' = "record" =>
    \/ Live!Fault /\ Live!Ends("runner_exception", FALSE)
    \/ Live!ApplyTranslated /\ Live!Ends("operation_mismatch", FALSE)
    \/ Live!Snapshot
    \/ Live!Fault /\ \E category : Live!Ends(category, TRUE)
<1>1. CASE Live!ResetOriginal
  BY <1>1 DEF Live!ResetOriginal
<1>2. CASE Live!ResetTranslated \/ Live!ResetTotal
  BY <1>2 DEF Live!ResetTranslated, Live!ResetTotal, Live!ResetTo
<1>3. CASE Live!MintOpening
  BY <1>3 DEF Live!MintOpening
<1>4. ASSUME NEW o \in Live!Operations(contract), Live!ApplyOriginal(o)
      PROVE  step' = "confirm"
  BY <1>4 DEF Live!ApplyOriginal
<1>5. CASE Live!ApplyTranslated
  BY <1>5 DEF Live!ApplyTranslated, Live!Compare
<1>6. CASE Live!SnapshotMisread
  BY <1>6 DEF Live!SnapshotMisread
<1>7. QED
  BY <1>1, <1>2, <1>3, <1>4, <1>5, <1>6 DEF CaseStep

\* A case passes, its reads answered, only by equal snapshots.
LEMMA PassedBySnapshots ==
  CaseStep /\ step' = "record" /\ outcome'.pass /\ ~outcome'.misread =>
    Live!Snapshot /\ Live!SameSnapshots
<1>1. SUFFICES ASSUME CaseStep, step' = "record", outcome'.pass, ~outcome'.misread
               PROVE  Live!Snapshot /\ Live!SameSnapshots
  OBVIOUS
<1>2. ASSUME NEW category, category # "none" PROVE ~Live!Ends(category, FALSE)
  BY <1>1, <1>2, EndsAs
<1>3. ASSUME NEW category PROVE ~Live!Ends(category, TRUE)
  BY <1>1, EndsAs
<1>4. Live!Snapshot
  BY <1>1, <1>2, <1>3, CaseEnds
<1>5. PICK category : /\ category = IF Live!SameSnapshots THEN "none" ELSE "state_mismatch"
                      /\ Live!Ends(category, FALSE)
  BY <1>4 DEF Live!Snapshot
<1>6. category = "none"
  BY <1>1, <1>5, EndsAs
<1>7. QED
  BY <1>4, <1>5, <1>6

\* The case under way is none of those recorded.
LEMMA RecordedElsewhere ==
  ASSUME RecordsInv, step \notin {"off", "next"}, NEW i \in DOMAIN results
  PROVE  <<results[i].run, results[i].case>> \in Runs \ {Here}
<1>1. results[i] \in Live!Outcomes /\ at \notin Live!Completed
  BY DEF RecordsInv
<1>2. results[i].run \in 1..MaxLaunches /\ results[i].case \in 1..NCases
  BY <1>1 DEF Live!Outcomes
<1>3. results[i].case # at
  BY <1>1 DEF Live!Completed
<1>4. QED
  BY <1>2, <1>3 DEF Runs, Here, Live!namespacedCaseId

LEMMA CaseKeepsPassed == RecordsInv /\ ChainsInv /\ PassedInv /\ CaseStep => PassedInv'
<1>1. SUFFICES ASSUME RecordsInv, ChainsInv, PassedInv, CaseStep PROVE PassedInv'
  OBVIOUS
<1>2. step \notin {"off", "next", "record"} /\ UNCHANGED <<contract, launches, at, results>>
  BY <1>1, CaseSteps
<1>3. Elsewhere
  BY <1>1, CaseKeepsChains
<1>4. ASSUME NEW i \in DOMAIN results, results[i].pass, ~results[i].misread
      PROVE  SameAt(contract, original', translated', <<results[i].run, results[i].case>>)
  <2>1. PICK m \in Runs \ {Here} : m = <<results[i].run, results[i].case>>
    BY <1>1, <1>2, RecordedElsewhere
  <2>2. SameAt(contract, original, translated, m)
    BY <1>1, <1>4, <2>1 DEF PassedInv, Agreed
  <2>3. SameAt(contract, original', original, m) /\ SameAt(contract, translated, translated', m)
    BY <1>3, <2>1, SameAtSymmetric DEF Elsewhere
  <2>4. SameAt(contract, original', translated', m)
    BY <2>2, <2>3, SameAtJoins
  <2>5. QED
    BY <2>1, <2>4
<1>5. ASSUME step' = "record", outcome'.pass, ~outcome'.misread
      PROVE  Agreed(outcome)' /\ Live!SameScalars'
  <2>1. Live!Snapshot /\ Live!SameSnapshots
    BY <1>1, <1>5, PassedBySnapshots
  <2>2. step = "apply" /\ UNCHANGED <<original, translated>>
    BY <2>1 DEF Live!Snapshot, Live!chains
  <2>3. outcome'.run = launches /\ outcome'.case = at
    BY <2>1, EndsAs DEF Live!Snapshot
  <2>4. contract \in Live!Contracts /\ Here \in Runs
    BY <1>1, CaseHere DEF RecordsInv
  <2>5. /\ Sound(original) /\ Sound(translated)
        /\ SameOff(contract, original, translated, Here, touched, LockIds, AuctionIds)
        /\ contract \in Live!Travel => translated.lockSize = init.lockSize
    BY <1>1, <2>2 DEF ChainsInv, KeysSoFar
  <2>6. SameAt(contract, original, translated, Here) /\ Live!SameScalars
    BY <2>1, <2>4, <2>5, SnapshotsMean
  <2>7. Agreed(outcome)'
    BY <1>2, <2>2, <2>3, <2>6 DEF Agreed, Here, Live!namespacedCaseId
  <2>8. Live!SameScalars'
    BY <1>2, <2>2, <2>6 DEF Live!SameScalars, Live!Unread
  <2>9. QED
    BY <2>7, <2>8
<1>6. QED
  BY <1>2, <1>4, <1>5 DEF PassedInv, Agreed

\* The steps of main add no result but the outcome they record.
LEMMA MainResults ==
  RecordsInv /\ (\/ Live!Launch \/ Live!SkipDone \/ Live!BeginCase \/ Live!EndRun \/ Live!Die)
    => /\ UNCHANGED <<contract, original, translated, results, faults>>
       /\ step' \in {"off", "next", "resetOriginal"}
<1>1. CASE RecordsInv /\ Live!Launch
  <2>1. results \in Seq(Live!Outcomes) /\ \A i \in DOMAIN results : results[i].case \in 1..NCases
    BY <1>1, CasesOfResults
  <2>2. Live!KeptOf(file) = results
    BY <1>1, <2>1, AllIsKept DEF RecordsInv
  <2>3. QED
    BY <1>1, <2>2 DEF Live!Launch, Live!chains
<1>2. CASE Live!SkipDone
  BY <1>2 DEF Live!SkipDone, Live!chains
<1>3. CASE Live!BeginCase
  BY <1>3 DEF Live!BeginCase, Live!chains
<1>4. CASE Live!EndRun
  BY <1>4 DEF Live!EndRun, Live!chains
<1>5. CASE Live!Die
  BY <1>5 DEF Live!Die, Live!chains
<1>6. QED
  BY <1>1, <1>2, <1>3, <1>4, <1>5

\* The results after a record: those before, and the outcome.
LEMMA RecordResults ==
  RecordsInv /\ Live!Record =>
    /\ UNCHANGED <<contract, original, translated, faults>>
    /\ step = "record" /\ step' \in {"off", "next"}
    /\ \A i \in DOMAIN results' :
         results'[i] = outcome \/ \E j \in DOMAIN results : results'[i] = results[j]
<1>1. SUFFICES ASSUME RecordsInv, Live!Record, NEW i \in DOMAIN results'
               PROVE  /\ UNCHANGED <<contract, original, translated, faults>>
                      /\ step = "record" /\ step' \in {"off", "next"}
                      /\ results'[i] = outcome \/ \E j \in DOMAIN results : results'[i] = results[j]
  BY DEF Live!Record, Live!chains
<1>2. /\ UNCHANGED <<contract, original, translated, faults>>
      /\ step = "record" /\ step' \in {"off", "next"} /\ results' = Append(results, outcome)
  BY <1>1 DEF Live!Record, Live!chains
<1>3. results \in Seq(Live!Outcomes)
  BY <1>1 DEF RecordsInv
<1>4. i \in 1..(Len(results) + 1) /\ Len(results) \in Nat /\ DOMAIN results = 1..Len(results)
  BY <1>1, <1>2, <1>3
<1>5. CASE i = Len(results) + 1
  BY <1>2, <1>3, <1>5
<1>6. CASE i # Len(results) + 1
  BY <1>2, <1>3, <1>4, <1>6
<1>7. QED
  BY <1>2, <1>5, <1>6

LEMMA PassedKept ==
  RecordsInv /\ ChainsInv /\ PassedInv /\ [Live!Next]_(Live!vars) => PassedInv'
<1>1. SUFFICES ASSUME RecordsInv, ChainsInv, PassedInv, [Live!Next]_(Live!vars) PROVE PassedInv'
  OBVIOUS
<1>2. CASE CaseStep
  BY <1>1, <1>2, CaseKeepsPassed
<1>3. CASE Live!Record
  BY <1>1, <1>3, RecordResults DEF PassedInv, Agreed
<1>4. CASE Live!Launch \/ Live!SkipDone \/ Live!BeginCase \/ Live!EndRun \/ Live!Die
  BY <1>1, <1>4, MainResults DEF PassedInv, Agreed
<1>5. CASE UNCHANGED Live!vars
  BY <1>1, <1>5 DEF PassedInv, Agreed, Live!vars, Live!chains, Live!SameScalars, Live!Unread
<1>6. QED
  BY <1>1, <1>2, <1>3, <1>4, <1>5, LiveSteps

\* PassedInv is what PassedAgree says, field by field.
LEMMA PassedMeans == RecordsInv /\ ChainsInv /\ PassedInv => Live!PassedAgree
<1>1. SUFFICES ASSUME RecordsInv, ChainsInv, PassedInv PROVE Live!PassedAgree
  OBVIOUS
<1>2. ASSUME NEW r, Agreed(r) PROVE Live!SameKeys(r)
  <2>1. contract \in Live!Contracts /\ Sound(original)
    BY <1>1 DEF RecordsInv, ChainsInv
  <2>2. CASE contract \in Live!Travel
    <3>1. DOMAIN original \cap Live!Mappings = {"accounts", "bookings", "locks"}
      BY <2>1, <2>2 DEF Sound, State, TravelState, Live!Mappings
    <3>2. QED
      BY <1>2, <2>2, <3>1 DEF Agreed, SameAt, Live!SameKeys
  <2>3. CASE contract = "TokenTransfer"
    <3>1. DOMAIN original \cap Live!Mappings = {"balances", "allowances"}
      BY <2>1, <2>3 DEF Sound, State, TokenState, Live!Mappings
    <3>2. QED
      BY <1>2, <2>3, <3>1 DEF Agreed, SameAt, Live!SameKeys
  <2>4. CASE contract = "AuctionLogic"
    <3>1. DOMAIN original \cap Live!Mappings = {"auctions", "pending"}
      BY <2>1, <2>4 DEF Sound, State, AuctionState, Live!Mappings
    <3>2. QED
      BY <1>2, <2>4, <3>1 DEF Agreed, SameAt, Live!SameKeys
  <2>5. CASE contract = "DEXSwap"
    <3>1. DOMAIN original \cap Live!Mappings = {"shares"}
      BY <2>1, <2>5 DEF Sound, State, DexState, Live!Mappings
    <3>2. QED
      BY <1>2, <2>5, <3>1 DEF Agreed, SameAt, Live!SameKeys
  <2>6. QED
    BY <2>1, <2>2, <2>3, <2>4, <2>5 DEF Live!Contracts, Live!Travel
<1>3. QED
  BY <1>1, <1>2 DEF PassedInv, Live!PassedAgree
-----------------------------------------------------------------------------
(* Without a fault the two contracts move together.                        *)

\* As long as no fault is counted no call has failed.
LEMMA QuietCase ==
  RecordsInv /\ CaseStep /\ faults' = 0 => faults = 0 /\ ~Live!Fault
<1>1. SUFFICES ASSUME RecordsInv, CaseStep, faults' = 0 PROVE faults = 0 /\ ~Live!Fault
  OBVIOUS
<1>2. faults \in Nat /\ (Live!Fault \/ Live!NoFault)
  BY <1>1, CaseSteps, RQ2Assumption DEF RecordsInv
<1>3. QED
  BY <1>1, <1>2 DEF Live!Fault, Live!NoFault

LEMMA QuietReset ==
  ASSUME RecordsInv, ChainsInv, TwinsInv, faults' = 0,
         Live!ResetOriginal \/ Live!ResetTranslated \/ Live!ResetTotal
  PROVE  TwinsInv'
<1>1. CaseStep /\ faults = 0 /\ ~Live!Fault
  BY QuietCase DEF CaseStep
<1>2. UNCHANGED <<contract, init, results>>
  BY DEF Live!ResetOriginal, Live!ResetTranslated, Live!ResetTotal, Live!ResetTo
<1>3. /\ contract \in Live!Contracts /\ Sound(original) /\ Sound(translated)
      /\ step \notin {"apply", "confirm", "record", "off", "next"}
      /\ init \in Live!Initials(contract)
  BY DEF RecordsInv, ChainsInv, Live!ResetOriginal, Live!ResetTranslated, Live!ResetTotal
<1>4. Here \in Runs /\ Here' = Here /\ ~Used(Here)
  BY <1>1, <1>3, CaseHere
<1>5. CASE Live!ResetOriginal
  <2>1. original' = Live!ResetOf(original) /\ step' = "resetTranslated"
    BY <1>1, <1>5 DEF Live!ResetOriginal
  <2>2. IsReset(Live!ResetOf(original))
    BY <1>3, ResetKeeps
  <2>3. IsReset(original)'
    BY <1>2, <2>1, <2>2 DEF IsReset
  <2>4. QED
    BY <1>1, <1>2, <2>1, <2>3 DEF TwinsInv
<1>6. CASE Live!ResetTranslated \/ Live!ResetTotal
  <2>1. PICK t, next :
          /\ Live!ResetTo(t, next) /\ \A m \in Runs : SameAt(contract, translated, t, m)
          /\ \/ next = "resetTotal"
             \/ next \in {"mint", "apply"} /\ IsReset(t)
    BY <1>6, ResetAims
  <2>2. /\ translated' = t /\ step' = next /\ original' = original
        /\ step \in {"resetTranslated", "resetTotal"}
    BY <1>1, <1>6, <2>1 DEF Live!ResetTranslated, Live!ResetTotal, Live!ResetTo
  <2>3. IsReset(original) /\ IsReset(original)'
    BY <1>1, <1>2, <2>2 DEF TwinsInv, IsReset
  <2>4. CASE next = "resetTotal"
    BY <1>1, <1>2, <2>2, <2>3, <2>4 DEF TwinsInv
  <2>5. CASE next \in {"mint", "apply"} /\ IsReset(t)
    <3>1. SameAt(contract, original, translated, Here)
      <4>1. Unwritten(original, Here) /\ Unwritten(translated, Here)
        BY <1>4 DEF ChainsInv, Clear
      <4>2. QED
        BY <4>1, FreshAgree DEF Unwritten
    <3>2. SameAt(contract, original, t, Here)
      BY <1>4, <2>1, <3>1, SameAtJoins
    <3>3. Twins(contract, original, t, Here)
      BY <2>3, <2>5, <3>2, ResetTwins
    <3>4. QED
      BY <1>1, <1>2, <1>4, <2>2, <2>5, <3>3 DEF TwinsInv
  <2>6. QED
    BY <2>1, <2>4, <2>5
<1>7. QED
  BY <1>5, <1>6

LEMMA QuietMint ==
  ASSUME RecordsInv, ChainsInv, TwinsInv, faults' = 0, Live!MintOpening
  PROVE  TwinsInv'
<1>1. CaseStep /\ faults = 0 /\ ~Live!Fault
  BY QuietCase DEF CaseStep
<1>2. /\ original' = Live!MintedTo(original, Users) /\ step' = "apply" /\ step = "mint"
      /\ translated' = Live!MintedTo(translated, Users) /\ UNCHANGED <<contract, results>>
  BY <1>1 DEF Live!MintOpening
<1>3. /\ contract = "TokenTransfer" /\ init \in Live!Initials(contract)
      /\ Sound(original) /\ Sound(translated)
      /\ Twins(contract, original, translated, Here)
  BY <1>1, <1>2 DEF ChainsInv, TwinsInv
<1>4. Here \in Runs /\ Here' = Here /\ Users \in SUBSET Users
  BY <1>1, CaseHere
<1>5. Twins(contract, original', translated', Here)
  BY <1>2, <1>3, <1>4, MintTwins
<1>6. QED
  BY <1>1, <1>2, <1>4, <1>5 DEF TwinsInv

\* The translated contract will answer the operation as the original did.
LEMMA QuietOriginal ==
  ASSUME RecordsInv, ChainsInv, TwinsInv, faults' = 0,
         NEW o \in Live!Operations(contract), Live!ApplyOriginal(o)
  PROVE  TwinsInv'
<1>1. CaseStep /\ faults = 0 /\ ~Live!Fault
  BY QuietCase DEF CaseStep
<1>2. PICK a : a = Live!Original(contract, original, Here, o)
  OBVIOUS
<1>3. PICK b : b = Live!Original(contract, translated, Here, o)
  OBVIOUS
<1>4. /\ step = "apply" /\ op' = o /\ step' = "confirm"
      /\ original' = a.state /\ answer' = Live!Answer(a)
      /\ translated' = translated /\ UNCHANGED <<contract, results>>
  BY <1>1, <1>2 DEF Live!ApplyOriginal, Here
<1>5. /\ contract \in Live!Contracts /\ Twins(contract, original, translated, Here)
      /\ State(contract, original, Runs, LockIds, AuctionIds)
      /\ State(contract, translated, Runs, LockIds, AuctionIds)
  BY <1>1, <1>4 DEF RecordsInv, ChainsInv, TwinsInv, Sound
<1>6. Here \in Runs /\ Here' = Here
  BY <1>1, CaseHere
<1>7. TwinAnswers(contract, a, b, Here)
  <2>1. Op(contract, o, LockIds, AuctionIds)
    BY <1>5, LiveOps
  <2>2. QED
    BY <1>2, <1>3, <1>5, <1>6, <2>1, TwinsAnswerAlike
<1>8. answer' = Live!Answer(b) /\ Twins(contract, original', b.state, Here)
  BY <1>4, <1>7 DEF TwinAnswers, Live!Answer
<1>9. b = Live!Original(contract', translated', Here', op')
  BY <1>3, <1>4, <1>6
<1>10. QED
  BY <1>1, <1>4, <1>6, <1>8, <1>9 DEF TwinsInv

LEMMA QuietTranslated ==
  ASSUME RecordsInv, ChainsInv, TwinsInv, faults' = 0, Live!ApplyTranslated
  PROVE  TwinsInv'
<1>1. CaseStep /\ faults = 0 /\ ~Live!Fault
  BY QuietCase DEF CaseStep
<1>2. PICK a : a = Live!Original(contract, translated, Here, op)
  OBVIOUS
<1>3. step = "confirm" /\ original' = original /\ UNCHANGED <<contract, results>>
  BY DEF Live!ApplyTranslated
<1>4. /\ contract \in Live!Contracts /\ op \in Live!Operations(contract) /\ Sound(translated)
      /\ Twins(contract, original, a.state, Here) /\ answer = Live!Answer(a)
  BY <1>1, <1>2, <1>3 DEF RecordsInv, ChainsInv, TwinsInv
<1>5. Here \in Runs /\ Here' = Here
  BY <1>1, CaseHere
<1>6. a = Live!Translated(contract, translated, Here, op)
  BY <1>2, <1>4, <1>5, TranslatedIs
<1>7. translated' = a.state /\ Live!Compare(Live!Answer(a))
  BY <1>1, <1>6 DEF Live!ApplyTranslated, Here
<1>8. step' = "apply"
  BY <1>4, <1>7 DEF Live!Compare, Live!compareOp
<1>9. Twins(contract, original', translated', Here)
  BY <1>3, <1>4, <1>7
<1>10. QED
  BY <1>1, <1>3, <1>5, <1>8, <1>9 DEF TwinsInv

LEMMA QuietSnapshot ==
  ASSUME RecordsInv, ChainsInv, TwinsInv, faults' = 0, Live!Snapshot \/ Live!SnapshotMisread
  PROVE  TwinsInv'
<1>1. CaseStep /\ faults = 0 /\ ~Live!Fault
  BY QuietCase DEF CaseStep
<1>2. Live!Snapshot
  BY <1>1 DEF Live!SnapshotMisread
<1>3. step = "apply" /\ step' = "record" /\ UNCHANGED <<contract, results>>
  BY <1>2 DEF Live!Snapshot, Live!Ends
<1>4. /\ contract \in Live!Contracts /\ Sound(original) /\ Sound(translated)
      /\ Twins(contract, original, translated, Here)
      /\ contract \in Live!Travel => translated.lockSize = init.lockSize
  BY <1>1, <1>3 DEF RecordsInv, ChainsInv, TwinsInv
<1>5. Live!SameSnapshots
  BY <1>4, SnapshotsOfTwins
<1>6. Live!Ends("none", FALSE)
  BY <1>2, <1>5 DEF Live!Snapshot
<1>7. outcome'.pass
  BY <1>6, EndsAs
<1>8. QED
  BY <1>1, <1>3, <1>7 DEF TwinsInv

LEMMA TwinsKept ==
  RecordsInv /\ ChainsInv /\ TwinsInv /\ [Live!Next]_(Live!vars) => TwinsInv'
<1>1. SUFFICES ASSUME RecordsInv, ChainsInv, TwinsInv, [Live!Next]_(Live!vars), faults' = 0
               PROVE  TwinsInv'
  BY DEF TwinsInv
<1>2. CASE CaseStep
  BY <1>1, <1>2, QuietReset, QuietMint, QuietOriginal, QuietTranslated, QuietSnapshot
     DEF CaseStep
<1>3. CASE Live!Record
  <2>1. /\ faults = 0 /\ step = "record" /\ step' \in {"off", "next"}
        /\ \A i \in DOMAIN results' :
             results'[i] = outcome \/ \E j \in DOMAIN results : results'[i] = results[j]
    BY <1>1, <1>3, RecordResults
  <2>2. QED
    BY <1>1, <2>1 DEF TwinsInv
<1>4. CASE Live!Launch \/ Live!SkipDone \/ Live!BeginCase \/ Live!EndRun \/ Live!Die
  BY <1>1, <1>4, MainResults DEF TwinsInv
<1>5. CASE UNCHANGED Live!vars
  BY <1>1, <1>5 DEF TwinsInv, Live!vars, Live!chains, IsReset, Here, Live!namespacedCaseId
<1>6. QED
  BY <1>1, <1>2, <1>3, <1>4, <1>5, LiveSteps
-----------------------------------------------------------------------------
(* run-rq2a-vm-full.ts: what its results mean.                             *)

LiveInv == RecordsInv /\ ChainsInv /\ PassedInv /\ TwinsInv
LiveRunnerInv == runner = "live" => LiveInv

LEMMA LiveKept == Spec => []LiveRunnerInv
<1>1. Init => LiveRunnerInv
  <2>1. SUFFICES ASSUME Live!Init PROVE LiveInv
    BY DEF Init, LiveRunnerInv
  <2>2. step = "off" /\ results = <<>>
    BY <2>1 DEF Live!Init
  <2>3. PassedInv /\ TwinsInv
    BY <2>2 DEF PassedInv, TwinsInv
  <2>4. QED
    BY <2>1, <2>3, ChainsInit DEF LiveInv
<1>2. LiveRunnerInv /\ [Next]_vars => LiveRunnerInv'
  <2>1. SUFFICES ASSUME LiveRunnerInv, [Next]_vars, runner' = "live" PROVE LiveInv'
    BY DEF LiveRunnerInv
  <2>2. runner = "live" /\ [Live!Next]_(Live!vars)
    BY <2>1, LiveRestsBetweenSteps DEF Next
  <2>3. QED
    BY <2>1, <2>2, ChainsKept, PassedKept, TwinsKept DEF LiveRunnerInv, LiveInv
<1>3. QED
  BY <1>1, <1>2, PTL DEF Spec

\* run-rq2a-vm-full: a case that passed with its reads answered left the same
\* state on both chains, whatever calls failed, processes died and cases came
\* after it.
THEOREM PassesAlwaysMeanAgreement == Spec => []PassedAgree
<1>1. LiveRunnerInv => PassedAgree
  BY PassedMeans DEF LiveRunnerInv, LiveInv, PassedAgree
<1>2. QED
  BY <1>1, LiveKept, PTL

\* run-rq2a-vm-full: without a fault every recorded case has passed, whatever
\* earlier cases and killed processes left in the contracts.
THEOREM NeverFalseAlarm == Spec => []NoFalseAlarm
<1>1. LiveRunnerInv => NoFalseAlarm
  BY DEF LiveRunnerInv, LiveInv, TwinsInv, NoFalseAlarm, Live!NoFalseAlarm
<1>2. QED
  BY <1>1, LiveKept, PTL

=============================================================================
