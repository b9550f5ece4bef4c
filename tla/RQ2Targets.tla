------------------------------ MODULE RQ2Targets ------------------------------
(***************************************************************************)
(* The translated contracts, from their Solidity: HotelBookingTranslated   *)
(* (generated) and the Train, Token, Auction and DEX targets of            *)
(* RQ2TranslatedTargets.sol.  The state has the shape of the source        *)
(* contract's; a revert changes nothing.  Values stay far below 2^256, so  *)
(* the checked arithmetic of the compiler never reverts.                   *)
(***************************************************************************)
EXTENDS RQ2Models

\* The constructors and the reset entry points the runners call.  A reset
\* writes the scalars and leaves every mapping as it is.
ResetHotelMeta(s, init) ==
  [s EXCEPT !.price = init.price, !.remain = init.remain, !.lockSize = init.lockSize]

ResetHotelTotal(s) == [s EXCEPT !.lockedTotal = 0]

ResetHotel(s, init) == ResetHotelTotal(ResetHotelMeta(s, init))

ResetTrain(s, init) ==
  [s EXCEPT !.price = init.price, !.remain = init.remain, !.lockedTotal = 0,
            !.lockSize = IF init.lockSize = 0 THEN 1 ELSE init.lockSize]

ResetToken(s) == [s EXCEPT !.totalSupply = 0]

ResetDex(s) == [s EXCEPT !.reserveA = 0, !.reserveB = 0, !.totalShares = 0]

-----------------------------------------------------------------------------
(* The travel contracts.  Only the hotel guards against a price of 0,      *)
(* which the train's constructor and reset refuse.                         *)

availableUnits(s) ==
  IF s.price = 0 THEN 0
  ELSE LET lockedUnits == s.lockedTotal \div s.price
       IN IF s.remain > lockedUnits THEN s.remain - lockedUnits ELSE 0

HotelBook(s, n, o) ==
  IF o.amount > 0 /\ availableUnits(s) >= o.amount
  THEN Accepted([s EXCEPT !.remain = Monus(@, o.amount),
                          !.accounts[n][o.user] = @ + s.price * o.amount,
                          !.bookings[n][o.user] = @ + o.amount],
                <<s.price * o.amount>>)
  ELSE Refused(s)

TrainBook(s, n, o) ==
  IF o.amount > 0 /\ availableUnits(s) >= o.amount
  THEN Accepted([s EXCEPT !.remain = @ - o.amount,
                          !.accounts[n][o.user] = @ + s.price * o.amount,
                          !.bookings[n][o.user] = @ + o.amount],
                <<s.price * o.amount>>)
  ELSE Refused(s)

\* Mutant: the translation drops the lock size that stands for an amount of 0.
LockTargetOfAmount(s, n, o) ==
  IF s.locks[n][o.lockId] = 0 /\ availableUnits(s) >= o.amount
  THEN Accepted([s EXCEPT !.locks[n][o.lockId] = s.price * o.amount,
                          !.lockedTotal = @ + s.price * o.amount], <<s.price, s.remain>>)
  ELSE Refused(s)

LockTarget(s, n, o) ==
  LET amount == IF o.amount > 0 THEN s.price * o.amount ELSE s.price * s.lockSize
  IN IF s.locks[n][o.lockId] = 0 /\ availableUnits(s) >= o.amount
     THEN Accepted([s EXCEPT !.locks[n][o.lockId] = amount,
                             !.lockedTotal = @ + amount],
                   <<s.price, s.remain>>)
     ELSE Refused(s)

UnlockTarget(s, n, o) ==
  LET amount == s.locks[n][o.lockId]
  IN IF amount > 0
     THEN Accepted([s EXCEPT !.lockedTotal = Monus(@, amount),
                             !.locks[n][o.lockId] = 0], <<>>)
     ELSE Refused(s)

TravelGet(s, n, o) ==
  CASE o.kind = "GetPrice" -> <<s.price>>
    [] o.kind = "GetRemain" -> <<s.remain>>
    [] o.kind = "GetAvailableRemain" -> <<availableUnits(s)>>
    [] o.kind = "GetAccountBalance" -> <<s.accounts[n][o.user]>>
    [] o.kind = "GetBooking" -> <<s.bookings[n][o.user]>>
    [] o.kind = "IsStateLocked" -> <<s.locks[n][o.lockId] > 0>>

TravelTarget(contract, s, n, o) ==
  CASE o.kind = "BookLocal" /\ contract = "HotelBooking" -> HotelBook(s, n, o)
    [] o.kind = "BookLocal" /\ contract = "TrainBooking" -> TrainBook(s, n, o)
    [] o.kind = "LockState" -> LockTarget(s, n, o)
    [] o.kind = "UnlockState" -> UnlockTarget(s, n, o)
    [] OTHER -> Read(s, TravelGet(s, n, o))

-----------------------------------------------------------------------------
(* TokenTransferTranslated, which keys an allowance by a hash of the pair. *)

TargetMove(s, n, from, to, amount) ==
  LET less == [s.balances[n] EXCEPT ![from] = @ - amount]
  IN [s EXCEPT !.balances[n] = [less EXCEPT ![to] = @ + amount]]

TokenTarget(s, n, o) ==
  CASE o.kind = "Mint" ->
         IF o.amount > 0
         THEN Accepted([s EXCEPT !.balances[n][o.to] = @ + o.amount,
                                 !.totalSupply = @ + o.amount], <<>>)
         ELSE Refused(s)
    [] o.kind = "Transfer" ->
         IF s.balances[n][o.from] >= o.amount
         THEN Accepted(TargetMove(s, n, o.from, o.to, o.amount), <<>>)
         ELSE Refused(s)
    [] o.kind = "Approve" ->
         Accepted([s EXCEPT !.allowances[n][<<o.owner, o.spender>>] = o.amount], <<>>)
    [] o.kind = "TransferFrom" ->
         LET key == <<o.from, o.spender>>
             spent == [s EXCEPT !.allowances[n][key] = @ - o.amount]
         IN IF s.allowances[n][key] >= o.amount /\ s.balances[n][o.from] >= o.amount
            THEN Accepted(TargetMove(spent, n, o.from, o.to, o.amount), <<>>)
            ELSE Refused(s)
    [] OTHER -> Read(s, TokenView(s, n, o))

-----------------------------------------------------------------------------
(* AuctionLogicTranslated.                                                 *)

CreateTarget(s, n, o) ==
  LET created == [seller |-> o.seller, minPrice |-> o.minPrice,
                  highestBidder |-> NoUser, highestBid |-> 0,
                  open |-> TRUE, exists |-> TRUE]
  IN IF ~s.auctions[n][o.id].exists /\ o.minPrice > 0
     THEN Accepted([s EXCEPT !.auctions[n][o.id] = created], <<>>)
     ELSE Refused(s)

\* pendingReturns[user] += amount, under the if of Bid and of Close.
Owed(pending, a, user) ==
  IF a.highestBid > 0 THEN [pending EXCEPT ![user] = @ + a.highestBid] ELSE pending

BidTarget(s, n, o) ==
  LET a == s.auctions[n][o.id]
  IN IF a.exists /\ a.open /\ o.amount >= a.minPrice /\ o.amount > a.highestBid
     THEN Accepted([s EXCEPT !.pending[n] = Owed(@, a, a.highestBidder),
                             !.auctions[n][o.id] = [a EXCEPT !.highestBidder = o.bidder,
                                                             !.highestBid = o.amount]], <<>>)
     ELSE Refused(s)

CloseTarget(s, n, o) ==
  LET a == s.auctions[n][o.id]
  IN IF a.exists /\ a.open
     THEN Accepted([s EXCEPT !.pending[n] = Owed(@, a, a.seller),
                             !.auctions[n][o.id] = [a EXCEPT !.open = FALSE]], <<>>)
     ELSE Refused(s)

AuctionTarget(s, n, o) ==
  CASE o.kind = "CreateAuction" -> CreateTarget(s, n, o)
    [] o.kind = "Bid" -> BidTarget(s, n, o)
    [] o.kind = "Close" -> CloseTarget(s, n, o)
    [] o.kind = "Withdraw" ->
         Accepted([s EXCEPT !.pending[n][o.user] = 0], <<s.pending[n][o.user]>>)
    [] OTHER -> Read(s, AuctionView(s, n, o))

-----------------------------------------------------------------------------
(* DEXSwapTranslated.                                                      *)

AddTarget(s, n, o) ==
  LET shareA == (o.amountA * s.totalShares) \div s.reserveA
      shareB == (o.amountB * s.totalShares) \div s.reserveB
      minted == IF s.totalShares = 0 THEN o.amountA + o.amountB
                ELSE IF shareA < shareB THEN shareA ELSE shareB
  IN IF o.amountA > 0 /\ o.amountB > 0 /\ Divides(s) /\ minted > 0
     THEN Accepted([s EXCEPT !.reserveA = @ + o.amountA, !.reserveB = @ + o.amountB,
                             !.totalShares = @ + minted,
                             !.shares[n][o.user] = @ + minted], <<minted>>)
     ELSE Refused(s)

RemoveTarget(s, n, o) ==
  LET amountA == (s.reserveA * o.shares) \div s.totalShares
      amountB == (s.reserveB * o.shares) \div s.totalShares
  IN IF o.shares > 0 /\ s.shares[n][o.user] >= o.shares /\ s.totalShares > 0
     THEN Accepted([s EXCEPT !.reserveA = @ - amountA, !.reserveB = @ - amountB,
                             !.totalShares = @ - o.shares,
                             !.shares[n][o.user] = @ - o.shares], <<amountA, amountB>>)
     ELSE Refused(s)

TargetAmountOut(s, amountIn) ==
  LET withFee == amountIn * 997
  IN (withFee * s.reserveB) \div (s.reserveA * 1000 + withFee)

SwapTarget(s, n, o) ==
  LET amountOut == TargetAmountOut(s, o.amountIn)
  IN IF /\ o.amountIn > 0 /\ s.reserveA > 0 /\ s.reserveB > 0
        /\ amountOut > 0 /\ amountOut < s.reserveB
     THEN Accepted([s EXCEPT !.reserveA = @ + o.amountIn,
                             !.reserveB = @ - amountOut], <<amountOut>>)
     ELSE Refused(s)

DexTarget(s, n, o) ==
  CASE o.kind = "AddLiquidity" -> AddTarget(s, n, o)
    [] o.kind = "RemoveLiquidity" -> RemoveTarget(s, n, o)
    [] o.kind = "SwapAForB" -> SwapTarget(s, n, o)
    [] OTHER -> Read(s, DexView(s, n, o))

=============================================================================
