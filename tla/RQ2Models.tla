------------------------------ MODULE RQ2Models ------------------------------
(***************************************************************************)
(* The source semantics of the five contracts that the RQ2 validation      *)
(* translates: scripts/rq2/hotel-booking-model.ts (HotelBooking, and       *)
(* TrainBooking which inherits it) and scripts/rq2/rq2-models.ts           *)
(* (TokenTransfer, AuctionLogic, DEXSwap).                                 *)
(*                                                                         *)
(* A contract's state is a record.  Its mappings are indexed by a          *)
(* namespace first: the live runner prefixes every user, lock and auction  *)
(* id with the name of the run and of the case, and never clears a         *)
(* mapping.  Numbers are naturals: the models use bigint.                  *)
(***************************************************************************)
EXTENDS Naturals, FiniteSets

CONSTANTS Users, LockIds, AuctionIds, Namespaces,
          NoUser        \* the empty string, as a seller or a bidder

\* What execute returns, with the state it leaves behind.
Accepted(s, values) == [ok |-> TRUE, state |-> s, values |-> values]
Refused(s) == [ok |-> FALSE, state |-> s, values |-> <<>>]

Read(s, values) == Accepted(s, values)
Monus(a, b) == IF a > b THEN a - b ELSE 0

ForAllUsers(value) == [n \in Namespaces |-> [u \in Users |-> value]]

-----------------------------------------------------------------------------
(* HotelBooking and TrainBooking.  A lock that is not active has amount 0; *)
(* an active one is worth at least the price of a room.                    *)

NewTravel(init) ==
  [ price |-> init.price,
    remain |-> init.remain,
    lockSize |-> IF init.lockSize = 0 THEN 1 ELSE init.lockSize,
    lockedTotal |-> 0,
    accounts |-> ForAllUsers(0),
    bookings |-> ForAllUsers(0),
    locks |-> [n \in Namespaces |-> [l \in LockIds |-> 0]] ]

availableRemain(s) == Monus(s.remain, s.lockedTotal \div s.price)

BookLocal(s, n, o) ==
  IF o.amount # 0 /\ availableRemain(s) >= o.amount
  THEN Accepted([s EXCEPT !.remain = @ - o.amount,
                          !.accounts[n][o.user] = @ + s.price * o.amount,
                          !.bookings[n][o.user] = @ + o.amount],
                <<s.price * o.amount>>)
  ELSE Refused(s)

\* An amount of 0 passes the test of availability and locks lockSize rooms.
LockState(s, n, o) ==
  LET worth == (IF o.amount > 0 THEN o.amount ELSE s.lockSize) * s.price
  IN IF s.locks[n][o.lockId] = 0 /\ availableRemain(s) >= o.amount
     THEN Accepted([s EXCEPT !.locks[n][o.lockId] = worth,
                             !.lockedTotal = @ + worth],
                   <<s.price, s.remain>>)
     ELSE Refused(s)

UnlockState(s, n, o) ==
  IF s.locks[n][o.lockId] # 0
  THEN Accepted([s EXCEPT !.lockedTotal = Monus(@, s.locks[n][o.lockId]),
                          !.locks[n][o.lockId] = 0], <<>>)
  ELSE Refused(s)

TravelView(s, n, o) ==
  CASE o.kind = "GetPrice" -> <<s.price>>
    [] o.kind = "GetRemain" -> <<s.remain>>
    [] o.kind = "GetAvailableRemain" -> <<availableRemain(s)>>
    [] o.kind = "GetAccountBalance" -> <<s.accounts[n][o.user]>>
    [] o.kind = "GetBooking" -> <<s.bookings[n][o.user]>>
    [] o.kind = "IsStateLocked" -> <<s.locks[n][o.lockId] # 0>>

TravelExecute(s, n, o) ==
  CASE o.kind = "BookLocal" -> BookLocal(s, n, o)
    [] o.kind = "LockState" -> LockState(s, n, o)
    [] o.kind = "UnlockState" -> UnlockState(s, n, o)
    [] OTHER -> Read(s, TravelView(s, n, o))

-----------------------------------------------------------------------------
(* TokenTransfer.                                                          *)

NewToken ==
  [ totalSupply |-> 0,
    balances |-> ForAllUsers(0),
    allowances |-> [n \in Namespaces |-> [p \in Users \X Users |-> 0]] ]

\* The constructor's balances, one after the other, whatever their order.
Mint(s, n, o) ==
  IF o.amount # 0
  THEN Accepted([s EXCEPT !.balances[n][o.to] = @ + o.amount,
                          !.totalSupply = @ + o.amount], <<>>)
  ELSE Refused(s)

\* A transfer to oneself leaves the balance as it was.
Move(s, n, o) ==
  LET paid == [s.balances[n] EXCEPT ![o.from] = @ - o.amount]
  IN [s EXCEPT !.balances[n] = [paid EXCEPT ![o.to] = @ + o.amount]]

Transfer(s, n, o) ==
  IF s.balances[n][o.from] >= o.amount
  THEN Accepted(Move(s, n, o), <<>>)
  ELSE Refused(s)

Approve(s, n, o) ==
  Accepted([s EXCEPT !.allowances[n][<<o.owner, o.spender>>] = o.amount], <<>>)

TransferFrom(s, n, o) ==
  LET key == <<o.from, o.spender>>
  IN IF s.allowances[n][key] >= o.amount /\ s.balances[n][o.from] >= o.amount
     THEN Accepted(Move([s EXCEPT !.allowances[n][key] = @ - o.amount], n, o), <<>>)
     ELSE Refused(s)

TokenView(s, n, o) ==
  CASE o.kind = "BalanceOf" -> <<s.balances[n][o.user]>>
    [] o.kind = "Allowance" -> <<s.allowances[n][<<o.owner, o.spender>>]>>
    [] o.kind = "TotalSupply" -> <<s.totalSupply>>

TokenExecute(s, n, o) ==
  CASE o.kind = "Mint" -> Mint(s, n, o)
    [] o.kind = "Transfer" -> Transfer(s, n, o)
    [] o.kind = "Approve" -> Approve(s, n, o)
    [] o.kind = "TransferFrom" -> TransferFrom(s, n, o)
    [] OTHER -> Read(s, TokenView(s, n, o))

-----------------------------------------------------------------------------
(* AuctionLogic.                                                           *)

NoAuction == [seller |-> NoUser, minPrice |-> 0, highestBidder |-> NoUser,
              highestBid |-> 0, open |-> FALSE, exists |-> FALSE]

NewAuctions ==
  [ auctions |-> [n \in Namespaces |-> [a \in AuctionIds |-> NoAuction]],
    pending |-> ForAllUsers(0) ]

CreateAuction(s, n, o) ==
  IF ~s.auctions[n][o.id].exists /\ o.minPrice # 0
  THEN Accepted([s EXCEPT !.auctions[n][o.id] =
                   [seller |-> o.seller, minPrice |-> o.minPrice, highestBidder |-> NoUser,
                    highestBid |-> 0, open |-> TRUE, exists |-> TRUE]], <<>>)
  ELSE Refused(s)

\* Mutant: the bidder who is outbid, and the seller, get nothing.
NothingOwed(s, n, user, amount) == s

\* pending grows by what the auction owes to the user the step releases.
Owing(s, n, user, amount) ==
  IF amount > 0 THEN [s EXCEPT !.pending[n][user] = @ + amount] ELSE s

Bid(s, n, o) ==
  LET a == s.auctions[n][o.id]
  IN IF a.exists /\ a.open /\ o.amount >= a.minPrice /\ o.amount > a.highestBid
     THEN Accepted([Owing(s, n, a.highestBidder, a.highestBid) EXCEPT
                      !.auctions[n][o.id] = [a EXCEPT !.highestBidder = o.bidder,
                                                      !.highestBid = o.amount]], <<>>)
     ELSE Refused(s)

Close(s, n, o) ==
  LET a == s.auctions[n][o.id]
  IN IF a.exists /\ a.open
     THEN Accepted([Owing(s, n, a.seller, a.highestBid) EXCEPT
                      !.auctions[n][o.id] = [a EXCEPT !.open = FALSE]], <<>>)
     ELSE Refused(s)

Withdraw(s, n, o) ==
  Accepted([s EXCEPT !.pending[n][o.user] = 0], <<s.pending[n][o.user]>>)

AuctionView(s, n, o) ==
  CASE o.kind = "GetAuction" -> <<s.auctions[n][o.id]>>
    [] o.kind = "PendingReturn" -> <<s.pending[n][o.user]>>

AuctionExecute(s, n, o) ==
  CASE o.kind = "CreateAuction" -> CreateAuction(s, n, o)
    [] o.kind = "Bid" -> Bid(s, n, o)
    [] o.kind = "Close" -> Close(s, n, o)
    [] o.kind = "Withdraw" -> Withdraw(s, n, o)
    [] OTHER -> Read(s, AuctionView(s, n, o))

-----------------------------------------------------------------------------
(* DEXSwap.                                                                *)

NewDex == [reserveA |-> 0, reserveB |-> 0, totalShares |-> 0,
           shares |-> ForAllUsers(0)]

Least(a, b) == IF a < b THEN a ELSE b

\* A division by zero throws, in the model as in the contract.
Divides(s) == s.totalShares = 0 \/ (s.reserveA # 0 /\ s.reserveB # 0)

SharesFor(s, amountA, amountB) ==
  IF s.totalShares = 0
  THEN amountA + amountB
  ELSE Least((amountA * s.totalShares) \div s.reserveA,
             (amountB * s.totalShares) \div s.reserveB)

AddLiquidity(s, n, o) ==
  LET minted == SharesFor(s, o.amountA, o.amountB)
  IN IF o.amountA # 0 /\ o.amountB # 0 /\ Divides(s) /\ minted # 0
     THEN Accepted([s EXCEPT !.reserveA = @ + o.amountA,
                             !.reserveB = @ + o.amountB,
                             !.totalShares = @ + minted,
                             !.shares[n][o.user] = @ + minted], <<minted>>)
     ELSE Refused(s)

RemoveLiquidity(s, n, o) ==
  LET partOf(reserve) == (reserve * o.shares) \div s.totalShares
  IN IF o.shares # 0 /\ s.shares[n][o.user] >= o.shares /\ s.totalShares # 0
     THEN Accepted([s EXCEPT !.shares[n][o.user] = @ - o.shares,
                             !.totalShares = @ - o.shares,
                             !.reserveA = @ - partOf(@),
                             !.reserveB = @ - partOf(@)],
                   <<partOf(s.reserveA), partOf(s.reserveB)>>)
     ELSE Refused(s)

AmountOut(s, amountIn) ==
  (amountIn * 997 * s.reserveB) \div (s.reserveA * 1000 + amountIn * 997)

\* Mutant: what the user pays in is not credited to the pool.
SwapUnpaid(s, n, o) ==
  IF /\ o.amountIn # 0 /\ s.reserveA # 0 /\ s.reserveB # 0
     /\ AmountOut(s, o.amountIn) # 0
     /\ AmountOut(s, o.amountIn) < s.reserveB
  THEN Accepted([s EXCEPT !.reserveB = @ - AmountOut(s, o.amountIn)],
                <<AmountOut(s, o.amountIn)>>)
  ELSE Refused(s)

SwapAForB(s, n, o) ==
  IF /\ o.amountIn # 0 /\ s.reserveA # 0 /\ s.reserveB # 0
     /\ AmountOut(s, o.amountIn) # 0
     /\ AmountOut(s, o.amountIn) < s.reserveB
  THEN Accepted([s EXCEPT !.reserveA = @ + o.amountIn,
                          !.reserveB = @ - AmountOut(s, o.amountIn)],
                <<AmountOut(s, o.amountIn)>>)
  ELSE Refused(s)

DexView(s, n, o) ==
  CASE o.kind = "GetReserves" -> <<s.reserveA, s.reserveB>>
    [] o.kind = "GetShares" -> <<s.shares[n][o.user]>>
    [] o.kind = "TotalShares" -> <<s.totalShares>>

DexExecute(s, n, o) ==
  CASE o.kind = "AddLiquidity" -> AddLiquidity(s, n, o)
    [] o.kind = "RemoveLiquidity" -> RemoveLiquidity(s, n, o)
    [] o.kind = "SwapAForB" -> SwapAForB(s, n, o)
    [] OTHER -> Read(s, DexView(s, n, o))

=============================================================================
