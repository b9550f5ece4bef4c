---------------------------- MODULE RQ2Contracts ----------------------------
(***************************************************************************)
(* What the contracts under test do, for every value of the constants: on  *)
(* every state a contract can be in, the translation does what its source  *)
(* does (TranslationAgrees).                                               *)
(***************************************************************************)
EXTENDS RQ2, FunctionSums

(***************************************************************************)
(* The states of the contracts, with namespaces N, locks L and auctions A. *)
(***************************************************************************)
TravelState(s, N, L) ==
  /\ DOMAIN s = {"price", "remain", "lockSize", "lockedTotal", "accounts", "bookings", "locks"}
  /\ s.price \in Nat \ {0} /\ s.lockSize \in Nat \ {0}
  /\ s.remain \in Nat /\ s.lockedTotal \in Nat
  /\ s.accounts \in [N -> [Users -> Nat]] /\ s.bookings \in [N -> [Users -> Nat]]
  /\ s.locks \in [N -> [L -> Nat]]

TokenState(s, N) ==
  /\ DOMAIN s = {"totalSupply", "balances", "allowances"}
  /\ s.totalSupply \in Nat
  /\ s.balances \in [N -> [Users -> Nat]]
  /\ s.allowances \in [N -> [Users \X Users -> Nat]]

\* An auction has a seller, and a bid its bidder.
Party == Users \cup {NoUser}
AuctionRecord(a) ==
  /\ DOMAIN a = {"seller", "minPrice", "highestBidder", "highestBid", "open", "exists"}
  /\ a = [x \in DOMAIN a |-> a[x]]
  /\ a.seller \in Party /\ a.highestBidder \in Party
  /\ a.minPrice \in Nat /\ a.highestBid \in Nat
  /\ a.open \in BOOLEAN /\ a.exists \in BOOLEAN
  /\ a.exists => a.seller \in Users
  /\ ~a.exists => ~a.open
  /\ a.highestBid > 0 => a.highestBidder \in Users

AuctionState(s, N, A) ==
  /\ DOMAIN s = {"auctions", "pending"}
  /\ DOMAIN s.auctions = N
  /\ \A n \in N : /\ s.auctions[n] = [i \in A |-> s.auctions[n][i]]
                  /\ \A i \in A : AuctionRecord(s.auctions[n][i])
  /\ s.pending \in [N -> [Users -> Nat]]

DexState(s, N) ==
  /\ DOMAIN s = {"reserveA", "reserveB", "totalShares", "shares"}
  /\ s.reserveA \in Nat /\ s.reserveB \in Nat /\ s.totalShares \in Nat
  /\ s.shares \in [N -> [Users -> Nat]]

State(c, s, N, L, A) ==
  /\ c \in Live!Travel => TravelState(s, N, L)
  /\ c = "TokenTransfer" => TokenState(s, N)
  /\ c = "AuctionLogic" => AuctionState(s, N, A)
  /\ c = "DEXSwap" => DexState(s, N)

(***************************************************************************)
(* The operations, whatever the generator draws.                           *)
(***************************************************************************)
TravelOp(o, L) ==
  \/ o \in [kind : {"BookLocal"}, user : Users, amount : Nat]
  \/ o \in [kind : {"LockState"}, lockId : L, amount : Nat]
  \/ o \in [kind : {"UnlockState", "IsStateLocked"}, lockId : L]
  \/ o \in [kind : {"GetAccountBalance", "GetBooking"}, user : Users]
  \/ o \in [kind : {"GetAvailableRemain", "GetRemain", "GetPrice"}]

TokenOp(o) ==
  \/ o \in [kind : {"Mint"}, to : Users, amount : Nat]
  \/ o \in [kind : {"Transfer"}, from : Users, to : Users, amount : Nat]
  \/ o \in [kind : {"Approve"}, owner : Users, spender : Users, amount : Nat]
  \/ o \in [kind : {"TransferFrom"}, spender : Users, from : Users, to : Users, amount : Nat]
  \/ o \in [kind : {"BalanceOf"}, user : Users]
  \/ o \in [kind : {"Allowance"}, owner : Users, spender : Users]
  \/ o \in [kind : {"TotalSupply"}]

AuctionOp(o, A) ==
  \/ o \in [kind : {"CreateAuction"}, id : A, seller : Users, minPrice : Nat]
  \/ o \in [kind : {"Bid"}, id : A, bidder : Users, amount : Nat]
  \/ o \in [kind : {"Close", "GetAuction"}, id : A]
  \/ o \in [kind : {"Withdraw", "PendingReturn"}, user : Users]

DexOp(o) ==
  \/ o \in [kind : {"AddLiquidity"}, user : Users, amountA : Nat, amountB : Nat]
  \/ o \in [kind : {"RemoveLiquidity"}, user : Users, shares : Nat]
  \/ o \in [kind : {"SwapAForB"}, user : Users, amountIn : Nat]
  \/ o \in [kind : {"GetShares"}, user : Users]
  \/ o \in [kind : {"GetReserves", "TotalShares"}]

Op(c, o, L, A) ==
  /\ c \in Live!Travel => TravelOp(o, L)
  /\ c = "TokenTransfer" => TokenOp(o)
  /\ c = "AuctionLogic" => AuctionOp(o, A)
  /\ c = "DEXSwap" => DexOp(o)

-----------------------------------------------------------------------------
(* On every state the translation does what its source does.               *)

LEMMA DivIsNat == \A p \in Nat, q \in Nat \ {0} : p \div q \in Nat
OBVIOUS

LEMMA AvailableAgrees ==
  ASSUME NEW N, NEW L, NEW s, TravelState(s, N, L)
  PROVE  /\ Live!availableUnits(s) = Live!availableRemain(s)
         /\ Live!availableRemain(s) \in Nat /\ Live!availableRemain(s) <= s.remain
<1>1. s.lockedTotal \div s.price \in Nat
  BY DivIsNat DEF TravelState
<1>2. s.price # 0 /\ s.remain \in Nat
  BY DEF TravelState
<1>3. PICK d \in Nat : d = s.lockedTotal \div s.price
  BY <1>1
<1>4. QED
  BY <1>2, <1>3 DEF Live!availableUnits, Live!availableRemain, Live!Monus

LEMMA BookAgrees ==
  ASSUME NEW N, NEW L, NEW s, TravelState(s, N, L), NEW n \in N,
         NEW o \in [kind : {"BookLocal"}, user : Users, amount : Nat]
  PROVE  /\ Live!HotelBook(s, n, o) = Live!BookLocal(s, n, o)
         /\ Live!TrainBook(s, n, o) = Live!BookLocal(s, n, o)
<1>1. /\ Live!availableUnits(s) = Live!availableRemain(s)
      /\ Live!availableRemain(s) \in Nat /\ Live!availableRemain(s) <= s.remain
  BY AvailableAgrees
<1>2. s.remain \in Nat /\ o.amount \in Nat
  BY DEF TravelState
<1>3. ASSUME Live!availableRemain(s) >= o.amount
      PROVE  Live!Monus(s.remain, o.amount) = s.remain - o.amount
  BY <1>1, <1>2, <1>3 DEF Live!Monus
<1>4. (o.amount > 0) = (o.amount # 0)
  BY <1>2
<1>5. Live!HotelBook(s, n, o) = Live!BookLocal(s, n, o)
  <2>1. CASE o.amount # 0 /\ Live!availableRemain(s) >= o.amount
    <3>1. PICK left : left = s.remain - o.amount
      OBVIOUS
    <3>2. Live!Monus(s.remain, o.amount) = left
      BY <1>3, <2>1, <3>1
    <3>3. Live!HotelBook(s, n, o) =
            Live!Accepted([s EXCEPT !.remain = left,
                                    !.accounts[n][o.user] = @ + s.price * o.amount,
                                    !.bookings[n][o.user] = @ + o.amount],
                          <<s.price * o.amount>>)
      BY <1>1, <1>4, <2>1, <3>2 DEF Live!HotelBook
    <3>4. Live!BookLocal(s, n, o) =
            Live!Accepted([s EXCEPT !.remain = left,
                                    !.accounts[n][o.user] = @ + s.price * o.amount,
                                    !.bookings[n][o.user] = @ + o.amount],
                          <<s.price * o.amount>>)
      BY <2>1, <3>1 DEF Live!BookLocal
    <3>5. QED
      BY <3>3, <3>4
  <2>2. CASE ~(o.amount # 0 /\ Live!availableRemain(s) >= o.amount)
    BY <1>1, <1>4, <2>2 DEF Live!HotelBook, Live!BookLocal
  <2>3. QED
    BY <2>1, <2>2
<1>6. Live!TrainBook(s, n, o) = Live!BookLocal(s, n, o)
  BY <1>1, <1>4 DEF Live!TrainBook, Live!BookLocal
<1>7. QED
  BY <1>5, <1>6

LEMMA LockAgrees ==
  ASSUME NEW N, NEW L, NEW s, TravelState(s, N, L), NEW n \in N,
         NEW o \in [kind : {"LockState"}, lockId : L, amount : Nat]
  PROVE  Live!LockTarget(s, n, o) = Live!LockState(s, n, o)
<1>1. Live!availableUnits(s) = Live!availableRemain(s)
  BY AvailableAgrees
<1>2. /\ s.price \in Nat /\ s.lockSize \in Nat /\ o.amount \in Nat
  BY DEF TravelState
<1>3. s.price * o.amount = o.amount * s.price /\ s.price * s.lockSize = s.lockSize * s.price
  BY <1>2
<1>4. (IF o.amount > 0 THEN s.price * o.amount ELSE s.price * s.lockSize)
        = (IF o.amount > 0 THEN o.amount ELSE s.lockSize) * s.price
  BY <1>3
<1>5. QED
  BY <1>1, <1>4 DEF Live!LockTarget, Live!LockState

LEMMA UnlockAgrees ==
  ASSUME NEW N, NEW L, NEW s, TravelState(s, N, L), NEW n \in N,
         NEW o \in [kind : {"UnlockState", "IsStateLocked"}, lockId : L]
  PROVE  /\ Live!UnlockTarget(s, n, o) = Live!UnlockState(s, n, o)
         /\ (s.locks[n][o.lockId] > 0) = (s.locks[n][o.lockId] # 0)
BY DEF TravelState, Live!UnlockTarget, Live!UnlockState

LEMMA TravelAgrees ==
  ASSUME NEW c \in Live!Travel, NEW N, NEW L, NEW s, TravelState(s, N, L), NEW n \in N,
         NEW o, TravelOp(o, L)
  PROVE  Live!TravelTarget(c, s, n, o) = Live!TravelExecute(s, n, o)
<1>1. CASE o \in [kind : {"BookLocal"}, user : Users, amount : Nat]
  <2>1. o.kind = "BookLocal"
    BY <1>1
  <2>2. /\ Live!HotelBook(s, n, o) = Live!BookLocal(s, n, o)
        /\ Live!TrainBook(s, n, o) = Live!BookLocal(s, n, o)
    BY <1>1, BookAgrees
  <2>3. QED
    BY <2>1, <2>2 DEF Live!TravelTarget, Live!TravelExecute, Live!Travel
<1>2. CASE o \in [kind : {"LockState"}, lockId : L, amount : Nat]
  <2>1. o.kind = "LockState"
    BY <1>2
  <2>2. QED
    BY <1>2, <2>1, LockAgrees DEF Live!TravelTarget, Live!TravelExecute
<1>3. CASE o \in [kind : {"UnlockState", "IsStateLocked"}, lockId : L]
  <2>1. o.kind \in {"UnlockState", "IsStateLocked"}
    BY <1>3
  <2>2. /\ Live!UnlockTarget(s, n, o) = Live!UnlockState(s, n, o)
        /\ (s.locks[n][o.lockId] > 0) = (s.locks[n][o.lockId] # 0)
    BY <1>3, UnlockAgrees
  <2>3. QED
    BY <2>1, <2>2 DEF Live!TravelTarget, Live!TravelExecute, Live!TravelGet, Live!TravelView
<1>4. ASSUME o.kind \in {"GetAccountBalance", "GetBooking", "GetAvailableRemain", "GetRemain",
                         "GetPrice"}
      PROVE  Live!TravelTarget(c, s, n, o) = Live!TravelExecute(s, n, o)
  <2>1. Live!TravelGet(s, n, o) = Live!TravelView(s, n, o)
    BY <1>4, AvailableAgrees DEF Live!TravelGet, Live!TravelView
  <2>2. QED
    BY <1>4, <2>1 DEF Live!TravelTarget, Live!TravelExecute
<1>5. QED
  BY <1>1, <1>2, <1>3, <1>4 DEF TravelOp

LEMMA TokenAgrees ==
  ASSUME NEW N, NEW s, TokenState(s, N), NEW n \in N, NEW o, TokenOp(o)
  PROVE  Live!TokenTarget(s, n, o) = Live!TokenExecute(s, n, o)
<1>1. CASE o \in [kind : {"Mint"}, to : Users, amount : Nat]
  <2>1. o.kind = "Mint" /\ o.amount \in Nat
    BY <1>1
  <2>2. CASE o.amount = 0
    BY <2>1, <2>2 DEF Live!TokenTarget, Live!TokenExecute, Live!Mint
  <2>3. CASE o.amount > 0
    BY <2>1, <2>3 DEF Live!TokenTarget, Live!TokenExecute, Live!Mint
  <2>4. QED
    BY <2>1, <2>2, <2>3
<1>2. CASE o \in [kind : {"Transfer"}, from : Users, to : Users, amount : Nat]
  BY <1>2 DEF Live!TokenTarget, Live!TokenExecute, Live!Transfer, Live!Move, Live!TargetMove
<1>3. CASE o \in [kind : {"Approve"}, owner : Users, spender : Users, amount : Nat]
  <2>1. o.kind = "Approve"
    BY <1>3
  <2>2. QED
    BY <2>1 DEF Live!TokenTarget, Live!TokenExecute, Live!Approve
<1>4. CASE o \in [kind : {"TransferFrom"}, spender : Users, from : Users, to : Users, amount : Nat]
  BY <1>4 DEF Live!TokenTarget, Live!TokenExecute, Live!TransferFrom, Live!Move, Live!TargetMove
<1>5. CASE o.kind \in {"BalanceOf", "Allowance", "TotalSupply"}
  BY <1>5 DEF Live!TokenTarget, Live!TokenExecute
<1>6. QED
  BY <1>1, <1>2, <1>3, <1>4, <1>5 DEF TokenOp

(***************************************************************************)
(* The auctions.  Bid and Close write a field or two of one record; the    *)
(* translation writes the record whole.                                    *)
(***************************************************************************)
LEMMA CreateAgrees ==
  ASSUME NEW N, NEW A, NEW s, AuctionState(s, N, A), NEW n \in N,
         NEW o \in [kind : {"CreateAuction"}, id : A, seller : Users, minPrice : Nat]
  PROVE  Live!CreateTarget(s, n, o) = Live!CreateAuction(s, n, o)
<1>1. (o.minPrice > 0) = (o.minPrice # 0)
  OBVIOUS
<1>2. QED
  BY <1>1 DEF Live!CreateTarget, Live!CreateAuction

LEMMA BidAgrees ==
  ASSUME NEW N, NEW A, NEW s, AuctionState(s, N, A), NEW n \in N,
         NEW o \in [kind : {"Bid"}, id : A, bidder : Users, amount : Nat]
  PROVE  Live!BidTarget(s, n, o) = Live!Bid(s, n, o)
<1>1. PICK a : a = s.auctions[n][o.id]
  OBVIOUS
<1>2. AuctionRecord(a)
  BY <1>1 DEF AuctionState
<1>3. PICK b : b = [a EXCEPT !.highestBidder = o.bidder, !.highestBid = o.amount]
  OBVIOUS
<1>4. PICK r : r = [s.auctions EXCEPT ![n][o.id] = b]
  OBVIOUS
<1>5. PICK w : w = Live!Owing(s, n, a.highestBidder, a.highestBid)
  OBVIOUS
<1>6. PICK p : p = [s.pending EXCEPT ![n] = Live!Owed(s.pending[n], a, a.highestBidder)]
  OBVIOUS
<1>7. /\ [w EXCEPT !.auctions = r] = [s EXCEPT !.pending = p, !.auctions = r]
      /\ w.auctions = s.auctions
  <2>1. CASE a.highestBid > 0
    <3>1. w = [s EXCEPT !.pending = p]
      BY <1>5, <1>6, <2>1 DEF Live!Owing, Live!Owed
    <3>2. QED
      BY <3>1 DEF AuctionState
  <2>2. CASE ~(a.highestBid > 0)
    <3>1. w = s /\ p = s.pending
      BY <1>5, <1>6, <2>2 DEF Live!Owing, Live!Owed, AuctionState
    <3>2. QED
      BY <3>1 DEF AuctionState
  <2>3. QED
    BY <2>1, <2>2
<1>8. [w EXCEPT !.auctions[n][o.id] = b] = [w EXCEPT !.auctions = r]
  BY <1>4, <1>7
<1>9. [s EXCEPT !.pending = p, !.auctions[n][o.id] = b] = [s EXCEPT !.pending = p, !.auctions = r]
  BY <1>4
<1>10. Live!Bid(s, n, o) =
         IF a.exists /\ a.open /\ o.amount >= a.minPrice /\ o.amount > a.highestBid
         THEN Live!Accepted([w EXCEPT !.auctions[n][o.id] = b], <<>>)
         ELSE Live!Refused(s)
  BY <1>1, <1>3, <1>5 DEF Live!Bid
<1>11. Live!BidTarget(s, n, o) =
         IF a.exists /\ a.open /\ o.amount >= a.minPrice /\ o.amount > a.highestBid
         THEN Live!Accepted([s EXCEPT !.pending = p, !.auctions[n][o.id] = b], <<>>)
         ELSE Live!Refused(s)
  BY <1>1, <1>3, <1>6 DEF Live!BidTarget
<1>12. QED
  BY <1>7, <1>8, <1>9, <1>10, <1>11

LEMMA CloseAgrees ==
  ASSUME NEW N, NEW A, NEW s, AuctionState(s, N, A), NEW n \in N,
         NEW o \in [kind : {"Close", "GetAuction"}, id : A]
  PROVE  Live!CloseTarget(s, n, o) = Live!Close(s, n, o)
<1>1. PICK a : a = s.auctions[n][o.id]
  OBVIOUS
<1>2. AuctionRecord(a)
  BY <1>1 DEF AuctionState
<1>3. PICK b : b = [a EXCEPT !.open = FALSE]
  OBVIOUS
<1>4. PICK r : r = [s.auctions EXCEPT ![n][o.id] = b]
  OBVIOUS
<1>5. PICK w : w = Live!Owing(s, n, a.seller, a.highestBid)
  OBVIOUS
<1>6. PICK p : p = [s.pending EXCEPT ![n] = Live!Owed(s.pending[n], a, a.seller)]
  OBVIOUS
<1>7. /\ [w EXCEPT !.auctions = r] = [s EXCEPT !.pending = p, !.auctions = r]
      /\ w.auctions = s.auctions
  <2>1. CASE a.highestBid > 0
    <3>1. w = [s EXCEPT !.pending = p]
      BY <1>5, <1>6, <2>1 DEF Live!Owing, Live!Owed
    <3>2. QED
      BY <3>1 DEF AuctionState
  <2>2. CASE ~(a.highestBid > 0)
    <3>1. w = s /\ p = s.pending
      BY <1>5, <1>6, <2>2 DEF Live!Owing, Live!Owed, AuctionState
    <3>2. QED
      BY <3>1 DEF AuctionState
  <2>3. QED
    BY <2>1, <2>2
<1>8. [w EXCEPT !.auctions[n][o.id] = b] = [w EXCEPT !.auctions = r]
  BY <1>4, <1>7
<1>9. [s EXCEPT !.pending = p, !.auctions[n][o.id] = b] = [s EXCEPT !.pending = p, !.auctions = r]
  BY <1>4
<1>10. Live!Close(s, n, o) =
         IF a.exists /\ a.open
         THEN Live!Accepted([w EXCEPT !.auctions[n][o.id] = b], <<>>)
         ELSE Live!Refused(s)
  BY <1>1, <1>3, <1>5 DEF Live!Close
<1>11. Live!CloseTarget(s, n, o) =
         IF a.exists /\ a.open
         THEN Live!Accepted([s EXCEPT !.pending = p, !.auctions[n][o.id] = b], <<>>)
         ELSE Live!Refused(s)
  BY <1>1, <1>3, <1>6 DEF Live!CloseTarget
<1>12. QED
  BY <1>7, <1>8, <1>9, <1>10, <1>11

LEMMA AuctionAgrees ==
  ASSUME NEW N, NEW A, NEW s, AuctionState(s, N, A), NEW n \in N, NEW o, AuctionOp(o, A)
  PROVE  Live!AuctionTarget(s, n, o) = Live!AuctionExecute(s, n, o)
<1>1. CASE o \in [kind : {"CreateAuction"}, id : A, seller : Users, minPrice : Nat]
  <2>1. o.kind = "CreateAuction" /\ Live!CreateTarget(s, n, o) = Live!CreateAuction(s, n, o)
    BY <1>1, CreateAgrees
  <2>2. QED
    BY <2>1 DEF Live!AuctionTarget, Live!AuctionExecute
<1>2. CASE o \in [kind : {"Bid"}, id : A, bidder : Users, amount : Nat]
  <2>1. o.kind = "Bid" /\ Live!BidTarget(s, n, o) = Live!Bid(s, n, o)
    BY <1>2, BidAgrees
  <2>2. QED
    BY <2>1 DEF Live!AuctionTarget, Live!AuctionExecute
<1>3. CASE o \in [kind : {"Close", "GetAuction"}, id : A]
  <2>1. o.kind \in {"Close", "GetAuction"} /\ Live!CloseTarget(s, n, o) = Live!Close(s, n, o)
    BY <1>3, CloseAgrees
  <2>2. QED
    BY <2>1 DEF Live!AuctionTarget, Live!AuctionExecute
<1>4. CASE o \in [kind : {"Withdraw", "PendingReturn"}, user : Users]
  <2>1. o.kind \in {"Withdraw", "PendingReturn"}
    BY <1>4
  <2>2. QED
    BY <2>1 DEF Live!AuctionTarget, Live!AuctionExecute, Live!Withdraw
<1>5. QED
  BY <1>1, <1>2, <1>3, <1>4 DEF AuctionOp

(***************************************************************************)
(* The pool.                                                               *)
(***************************************************************************)
LEMMA AddAgrees ==
  ASSUME NEW N, NEW s, DexState(s, N), NEW n \in N,
         NEW o \in [kind : {"AddLiquidity"}, user : Users, amountA : Nat, amountB : Nat]
  PROVE  Live!AddTarget(s, n, o) = Live!AddLiquidity(s, n, o)
<1>1. PICK shareA : shareA = (o.amountA * s.totalShares) \div s.reserveA
  OBVIOUS
<1>2. PICK shareB : shareB = (o.amountB * s.totalShares) \div s.reserveB
  OBVIOUS
<1>3. PICK minted : minted = Live!SharesFor(s, o.amountA, o.amountB)
  OBVIOUS
<1>4. (IF s.totalShares = 0 THEN o.amountA + o.amountB
       ELSE IF shareA < shareB THEN shareA ELSE shareB) = minted
  BY <1>1, <1>2, <1>3 DEF Live!SharesFor, Live!Least
<1>5. Live!Divides(s) => minted \in Nat
  <2>1. CASE s.totalShares = 0
    BY <2>1, <1>3 DEF Live!SharesFor, DexState
  <2>2. CASE s.totalShares # 0 /\ s.reserveA # 0 /\ s.reserveB # 0
    <3>1. o.amountA * s.totalShares \in Nat /\ o.amountB * s.totalShares \in Nat
      BY DEF DexState
    <3>2. shareA \in Nat /\ shareB \in Nat
      BY <1>1, <1>2, <2>2, <3>1, DivIsNat DEF DexState
    <3>3. QED
      BY <1>4, <2>2, <3>2
  <2>3. QED
    BY <2>1, <2>2 DEF Live!Divides
<1>6. CASE o.amountA # 0 /\ o.amountB # 0 /\ Live!Divides(s) /\ minted # 0
  <2>1. o.amountA > 0 /\ o.amountB > 0 /\ minted > 0
    BY <1>5, <1>6
  <2>2. Live!AddLiquidity(s, n, o) =
          Live!Accepted([s EXCEPT !.reserveA = @ + o.amountA, !.reserveB = @ + o.amountB,
                                  !.totalShares = @ + minted,
                                  !.shares[n][o.user] = @ + minted], <<minted>>)
    BY <1>3, <1>6 DEF Live!AddLiquidity
  <2>3. Live!AddTarget(s, n, o) =
          Live!Accepted([s EXCEPT !.reserveA = @ + o.amountA, !.reserveB = @ + o.amountB,
                                  !.totalShares = @ + minted,
                                  !.shares[n][o.user] = @ + minted], <<minted>>)
    BY <1>1, <1>2, <1>4, <1>6, <2>1 DEF Live!AddTarget
  <2>4. QED
    BY <2>2, <2>3
<1>7. CASE ~(o.amountA # 0 /\ o.amountB # 0 /\ Live!Divides(s) /\ minted # 0)
  <2>1. ~(o.amountA > 0 /\ o.amountB > 0 /\ Live!Divides(s) /\ minted > 0)
    BY <1>5, <1>7
  <2>2. QED
    BY <1>1, <1>2, <1>3, <1>4, <1>7, <2>1 DEF Live!AddTarget, Live!AddLiquidity
<1>8. QED
  BY <1>6, <1>7

LEMMA RemoveAgrees ==
  ASSUME NEW N, NEW s, DexState(s, N), NEW n \in N,
         NEW o \in [kind : {"RemoveLiquidity"}, user : Users, shares : Nat]
  PROVE  Live!RemoveTarget(s, n, o) = Live!RemoveLiquidity(s, n, o)
<1>1. PICK amountA : amountA = (s.reserveA * o.shares) \div s.totalShares
  OBVIOUS
<1>2. PICK amountB : amountB = (s.reserveB * o.shares) \div s.totalShares
  OBVIOUS
<1>3. (o.shares > 0) = (o.shares # 0) /\ (s.totalShares > 0) = (s.totalShares # 0)
  BY DEF DexState
<1>4. [s EXCEPT !.reserveA = @ - amountA, !.reserveB = @ - amountB,
                !.totalShares = @ - o.shares, !.shares[n][o.user] = @ - o.shares]
        = [s EXCEPT !.shares[n][o.user] = @ - o.shares, !.totalShares = @ - o.shares,
                    !.reserveA = @ - amountA, !.reserveB = @ - amountB]
  BY DEF DexState
<1>5. QED
  BY <1>1, <1>2, <1>3, <1>4 DEF Live!RemoveTarget, Live!RemoveLiquidity

LEMMA SwapAgrees ==
  ASSUME NEW N, NEW s, DexState(s, N), NEW n \in N,
         NEW o \in [kind : {"SwapAForB"}, user : Users, amountIn : Nat]
  PROVE  Live!SwapTarget(s, n, o) = Live!SwapAForB(s, n, o)
<1>1. PICK out : out = Live!AmountOut(s, o.amountIn)
  OBVIOUS
<1>2. out = Live!TargetAmountOut(s, o.amountIn)
  BY <1>1 DEF Live!AmountOut, Live!TargetAmountOut
<1>3. CASE o.amountIn # 0 /\ s.reserveA # 0 /\ s.reserveB # 0
  <2>1. out \in Nat
    <3>1. o.amountIn * 997 * s.reserveB \in Nat
      BY DEF DexState
    <3>2. s.reserveA * 1000 + o.amountIn * 997 \in Nat \ {0}
      BY <1>3 DEF DexState
    <3>3. QED
      BY <1>1, <3>1, <3>2, DivIsNat DEF Live!AmountOut
  <2>2. o.amountIn > 0 /\ s.reserveA > 0 /\ s.reserveB > 0 /\ (out > 0) = (out # 0)
    BY <1>3, <2>1 DEF DexState
  <2>3. Live!SwapAForB(s, n, o) =
          IF out # 0 /\ out < s.reserveB
          THEN Live!Accepted([s EXCEPT !.reserveA = @ + o.amountIn,
                                       !.reserveB = @ - out], <<out>>)
          ELSE Live!Refused(s)
    BY <1>1, <1>3 DEF Live!SwapAForB
  <2>4. Live!SwapTarget(s, n, o) =
          IF out > 0 /\ out < s.reserveB
          THEN Live!Accepted([s EXCEPT !.reserveA = @ + o.amountIn,
                                       !.reserveB = @ - out], <<out>>)
          ELSE Live!Refused(s)
    BY <1>2, <2>2 DEF Live!SwapTarget
  <2>5. QED
    BY <2>2, <2>3, <2>4
<1>4. CASE ~(o.amountIn # 0 /\ s.reserveA # 0 /\ s.reserveB # 0)
  <2>1. ~(o.amountIn > 0 /\ s.reserveA > 0 /\ s.reserveB > 0)
    BY <1>4 DEF DexState
  <2>2. QED
    BY <1>4, <2>1 DEF Live!SwapTarget, Live!SwapAForB
<1>5. QED
  BY <1>3, <1>4

LEMMA DexAgrees ==
  ASSUME NEW N, NEW s, DexState(s, N), NEW n \in N, NEW o, DexOp(o)
  PROVE  Live!DexTarget(s, n, o) = Live!DexExecute(s, n, o)
<1>1. CASE o \in [kind : {"AddLiquidity"}, user : Users, amountA : Nat, amountB : Nat]
  <2>1. o.kind = "AddLiquidity" /\ Live!AddTarget(s, n, o) = Live!AddLiquidity(s, n, o)
    BY <1>1, AddAgrees
  <2>2. QED
    BY <2>1 DEF Live!DexTarget, Live!DexExecute
<1>2. CASE o \in [kind : {"RemoveLiquidity"}, user : Users, shares : Nat]
  <2>1. o.kind = "RemoveLiquidity" /\ Live!RemoveTarget(s, n, o) = Live!RemoveLiquidity(s, n, o)
    BY <1>2, RemoveAgrees
  <2>2. QED
    BY <2>1 DEF Live!DexTarget, Live!DexExecute
<1>3. CASE o \in [kind : {"SwapAForB"}, user : Users, amountIn : Nat]
  <2>1. o.kind = "SwapAForB" /\ Live!SwapTarget(s, n, o) = Live!SwapAForB(s, n, o)
    BY <1>3, SwapAgrees
  <2>2. QED
    BY <2>1 DEF Live!DexTarget, Live!DexExecute
<1>4. CASE o.kind \in {"GetShares", "GetReserves", "TotalShares"}
  BY <1>4 DEF Live!DexTarget, Live!DexExecute
<1>5. QED
  BY <1>1, <1>2, <1>3, <1>4 DEF DexOp

(* The translation does what its source does: on every state a contract    *)
(* can be in and for every operation, it accepts the same operations,      *)
(* returns the same values and leaves the same state (the translated       *)
(* Solidity against hotel-booking-model.ts and rq2-models.ts).             *)
THEOREM TranslationAgrees ==
  ASSUME NEW c \in Live!Contracts, NEW N, NEW L, NEW A, NEW s, State(c, s, N, L, A),
         NEW n \in N, NEW o, Op(c, o, L, A)
  PROVE  Live!Translated(c, s, n, o) = Live!Original(c, s, n, o)
<1>1. CASE c \in Live!Travel
  <2>1. Live!TravelTarget(c, s, n, o) = Live!TravelExecute(s, n, o)
    <3>1. TravelState(s, N, L) /\ TravelOp(o, L)
      BY <1>1 DEF State, Op
    <3>2. QED
      BY <1>1, <3>1, TravelAgrees
  <2>2. QED
    BY <1>1, <2>1 DEF Live!Translated, Live!Original
<1>2. CASE c = "TokenTransfer"
  <2>1. TokenState(s, N) /\ TokenOp(o)
    BY <1>2 DEF State, Op
  <2>2. Live!TokenTarget(s, n, o) = Live!TokenExecute(s, n, o)
    BY <2>1, TokenAgrees
  <2>3. QED
    BY <1>2, <2>2 DEF Live!Translated, Live!Original, Live!Travel
<1>3. CASE c = "AuctionLogic"
  <2>1. AuctionState(s, N, A) /\ AuctionOp(o, A)
    BY <1>3 DEF State, Op
  <2>2. Live!AuctionTarget(s, n, o) = Live!AuctionExecute(s, n, o)
    BY <2>1, AuctionAgrees
  <2>3. QED
    BY <1>3, <2>2 DEF Live!Translated, Live!Original, Live!Travel
<1>4. CASE c = "DEXSwap"
  <2>1. DexState(s, N) /\ DexOp(o)
    BY <1>4 DEF State, Op
  <2>2. Live!DexTarget(s, n, o) = Live!DexExecute(s, n, o)
    BY <2>1, DexAgrees
  <2>3. QED
    BY <1>4, <2>2 DEF Live!Translated, Live!Original, Live!Travel
<1>5. QED
  BY <1>1, <1>2, <1>3, <1>4 DEF Live!Contracts, Live!Travel

-----------------------------------------------------------------------------
(* What an operation does to the state: nothing, or one of these.          *)

Booked(s, n, u, k) ==
  [s EXCEPT !.remain = @ - k, !.accounts[n][u] = @ + s.price * k, !.bookings[n][u] = @ + k]
Locked(s, n, l, worth) == [s EXCEPT !.locks[n][l] = worth, !.lockedTotal = @ + worth]
Unlocked(s, n, l) ==
  [s EXCEPT !.lockedTotal = Live!Monus(@, s.locks[n][l]), !.locks[n][l] = 0]

TravelStep(s, n, o, r) ==
  \/ r = s
  \/ \E k \in Nat : o.kind = "BookLocal" /\ k <= s.remain /\ r = Booked(s, n, o.user, k)
  \/ \E worth \in Nat : /\ o.kind = "LockState" /\ s.locks[n][o.lockId] = 0
                        /\ r = Locked(s, n, o.lockId, worth)
  \/ o.kind = "UnlockState" /\ r = Unlocked(s, n, o.lockId)

LEMMA TravelSteps ==
  ASSUME NEW N, NEW L, NEW s, TravelState(s, N, L), NEW n \in N, NEW o, TravelOp(o, L)
  PROVE  TravelStep(s, n, o, Live!TravelExecute(s, n, o).state)
<1>1. CASE o \in [kind : {"BookLocal"}, user : Users, amount : Nat]
  <2>1. o.kind = "BookLocal" /\ o.amount \in Nat
    BY <1>1
  <2>2. Live!availableRemain(s) \in Nat /\ Live!availableRemain(s) <= s.remain
    BY AvailableAgrees
  <2>3. CASE o.amount # 0 /\ Live!availableRemain(s) >= o.amount
    <3>1. Live!TravelExecute(s, n, o).state = Booked(s, n, o.user, o.amount)
      BY <2>1, <2>3 DEF Live!TravelExecute, Live!BookLocal, Live!Accepted, Booked
    <3>2. o.amount <= s.remain
      BY <2>1, <2>2, <2>3 DEF TravelState
    <3>3. QED
      BY <2>1, <3>1, <3>2 DEF TravelStep
  <2>4. CASE ~(o.amount # 0 /\ Live!availableRemain(s) >= o.amount)
    BY <2>1, <2>4 DEF Live!TravelExecute, Live!BookLocal, Live!Refused, TravelStep
  <2>5. QED
    BY <2>3, <2>4
<1>2. CASE o \in [kind : {"LockState"}, lockId : L, amount : Nat]
  <2>1. o.kind = "LockState" /\ o.amount \in Nat
    BY <1>2
  <2>2. PICK worth : worth = (IF o.amount > 0 THEN o.amount ELSE s.lockSize) * s.price
    OBVIOUS
  <2>3. worth \in Nat
    BY <2>1, <2>2 DEF TravelState
  <2>4. CASE s.locks[n][o.lockId] = 0 /\ Live!availableRemain(s) >= o.amount
    <3>1. Live!TravelExecute(s, n, o).state = Locked(s, n, o.lockId, worth)
      BY <2>1, <2>2, <2>4 DEF Live!TravelExecute, Live!LockState, Live!Accepted, Locked
    <3>2. QED
      BY <2>1, <2>3, <2>4, <3>1 DEF TravelStep
  <2>5. CASE ~(s.locks[n][o.lockId] = 0 /\ Live!availableRemain(s) >= o.amount)
    BY <2>1, <2>5 DEF Live!TravelExecute, Live!LockState, Live!Refused, TravelStep
  <2>6. QED
    BY <2>4, <2>5
<1>3. CASE o.kind = "UnlockState"
  BY <1>3 DEF Live!TravelExecute, Live!UnlockState, Live!Accepted, Live!Refused, Unlocked,
              TravelStep
<1>4. CASE o.kind \in {"IsStateLocked", "GetAccountBalance", "GetBooking", "GetAvailableRemain",
                       "GetRemain", "GetPrice"}
  BY <1>4 DEF Live!TravelExecute, Live!Read, Live!Accepted, TravelStep
<1>5. QED
  BY <1>1, <1>2, <1>3, <1>4 DEF TravelOp

\* What a step of a travel contract leaves as it was.
TravelFrame(s, n, o, r, N, L) ==
  /\ r.price = s.price /\ r.lockSize = s.lockSize
  /\ \A m \in N \ {n} : /\ r.accounts[m] = s.accounts[m]
                         /\ r.bookings[m] = s.bookings[m] /\ r.locks[m] = s.locks[m]
  /\ \A u \in Users : (o.kind = "BookLocal" => u # o.user) =>
       r.accounts[n][u] = s.accounts[n][u] /\ r.bookings[n][u] = s.bookings[n][u]
  /\ \A l \in L : (o.kind \in {"LockState", "UnlockState"} => l # o.lockId) =>
       r.locks[n][l] = s.locks[n][l]

LEMMA TravelEffects ==
  ASSUME NEW N, NEW L, NEW s, TravelState(s, N, L), NEW n \in N, NEW o, TravelOp(o, L),
         NEW r, TravelStep(s, n, o, r)
  PROVE  TravelState(r, N, L) /\ TravelFrame(s, n, o, r, N, L)
<1>1. CASE r = s
  BY <1>1 DEF TravelFrame
<1>2. ASSUME NEW k \in Nat, o.kind = "BookLocal", k <= s.remain, r = Booked(s, n, o.user, k)
      PROVE  TravelState(r, N, L) /\ TravelFrame(s, n, o, r, N, L)
  <2>1. o.user \in Users
    BY <1>2 DEF TravelOp
  <2>2. s.price * k \in Nat /\ s.remain - k \in Nat
    BY <1>2 DEF TravelState
  <2>3. PICK due \in Nat : due = s.price * k
    BY <2>2
  <2>4. r = [s EXCEPT !.remain = s.remain - k, !.accounts[n][o.user] = @ + due,
                      !.bookings[n][o.user] = @ + k]
    BY <1>2, <2>3 DEF Booked
  <2>5. TravelState(r, N, L)
    BY <2>1, <2>2, <2>4 DEF TravelState
  <2>6. TravelFrame(s, n, o, r, N, L)
    BY <1>2, <2>1, <2>4 DEF TravelState, TravelFrame
  <2>7. QED
    BY <2>5, <2>6
<1>3. ASSUME NEW worth \in Nat, o.kind = "LockState", r = Locked(s, n, o.lockId, worth)
      PROVE  TravelState(r, N, L) /\ TravelFrame(s, n, o, r, N, L)
  <2>1. o.lockId \in L
    BY <1>3 DEF TravelOp
  <2>2. QED
    BY <1>3, <2>1 DEF TravelState, TravelFrame, Locked
<1>4. ASSUME o.kind = "UnlockState", r = Unlocked(s, n, o.lockId)
      PROVE  TravelState(r, N, L) /\ TravelFrame(s, n, o, r, N, L)
  <2>1. o.lockId \in L
    BY <1>4 DEF TravelOp
  <2>2. Live!Monus(s.lockedTotal, s.locks[n][o.lockId]) \in Nat
    BY <2>1 DEF Live!Monus, TravelState
  <2>3. QED
    BY <1>4, <2>1, <2>2 DEF TravelState, TravelFrame, Unlocked
<1>5. QED
  BY <1>1, <1>2, <1>3, <1>4 DEF TravelStep

\* The books of a travel contract: rooms, locks and what the users paid.
TravelBooks(s, n, rooms) ==
  /\ s.remain + SumFunction(s.bookings[n]) = rooms
  /\ s.lockedTotal = SumFunction(s.locks[n])
  /\ \A u \in Users : s.accounts[n][u] = s.price * s.bookings[n][u]

LEMMA TravelKeepsBooks ==
  ASSUME IsFiniteSet(Users), NEW N, NEW L, IsFiniteSet(L), NEW s, TravelState(s, N, L),
         NEW n \in N, NEW o, TravelOp(o, L), NEW r, TravelStep(s, n, o, r),
         NEW rooms, TravelBooks(s, n, rooms)
  PROVE  TravelBooks(r, n, rooms)
<1>1. TravelState(r, N, L) /\ TravelFrame(s, n, o, r, N, L)
  BY TravelEffects
<1>2. /\ s.bookings[n] \in [Users -> Nat] /\ r.bookings[n] \in [Users -> Nat]
      /\ s.locks[n] \in [L -> Nat] /\ r.locks[n] \in [L -> Nat]
  BY <1>1 DEF TravelState
<1>3. CASE r = s
  BY <1>3
<1>4. ASSUME NEW k \in Nat, o.kind = "BookLocal", k <= s.remain, r = Booked(s, n, o.user, k)
      PROVE  TravelBooks(r, n, rooms)
  <2>1. o.user \in Users
    BY <1>4 DEF TravelOp
  <2>2. /\ r.remain = s.remain - k /\ r.lockedTotal = s.lockedTotal /\ r.locks = s.locks
        /\ r.bookings[n][o.user] = s.bookings[n][o.user] + k
        /\ r.accounts[n][o.user] = s.accounts[n][o.user] + s.price * k
    BY <1>4, <2>1 DEF Booked, TravelState
  <2>3. SumFunction(r.bookings[n])
          = SumFunction(s.bookings[n]) - s.bookings[n][o.user] + r.bookings[n][o.user]
    BY <1>1, <1>2, <1>4, <2>1, FunctionSumChange DEF TravelFrame
  <2>4. SumFunction(s.bookings[n]) \in Nat
    BY <1>2, FunctionSumIsNat
  <2>5. r.remain + SumFunction(r.bookings[n]) = rooms
    BY <1>2, <2>1, <2>2, <2>3, <2>4 DEF TravelBooks, TravelState
  <2>6. ASSUME NEW u \in Users PROVE r.accounts[n][u] = r.price * r.bookings[n][u]
    <3>1. CASE u # o.user
      BY <1>1, <3>1 DEF TravelFrame, TravelBooks
    <3>2. CASE u = o.user
      <4>1. s.price \in Nat /\ s.bookings[n][u] \in Nat
        BY <1>2 DEF TravelState
      <4>2. s.price * (s.bookings[n][u] + k) = s.price * s.bookings[n][u] + s.price * k
        BY <4>1
      <4>3. QED
        BY <1>1, <2>2, <3>2, <4>2 DEF TravelFrame, TravelBooks
    <3>3. QED
      BY <3>1, <3>2
  <2>7. QED
    BY <2>2, <2>5, <2>6 DEF TravelBooks
<1>5. ASSUME NEW worth \in Nat, o.kind = "LockState", s.locks[n][o.lockId] = 0,
             r = Locked(s, n, o.lockId, worth)
      PROVE  TravelBooks(r, n, rooms)
  <2>1. o.lockId \in L
    BY <1>5 DEF TravelOp
  <2>2. /\ r.remain = s.remain /\ r.lockedTotal = s.lockedTotal + worth
        /\ r.bookings = s.bookings /\ r.accounts = s.accounts /\ r.price = s.price
        /\ r.locks[n][o.lockId] = worth
    BY <1>5, <2>1 DEF Locked, TravelState
  <2>3. SumFunction(r.locks[n])
          = SumFunction(s.locks[n]) - s.locks[n][o.lockId] + r.locks[n][o.lockId]
    BY <1>1, <1>2, <1>5, <2>1, FunctionSumChange DEF TravelFrame
  <2>4. SumFunction(s.locks[n]) \in Nat
    BY <1>2, FunctionSumIsNat
  <2>5. QED
    BY <1>5, <2>2, <2>3, <2>4 DEF TravelBooks
<1>6. ASSUME o.kind = "UnlockState", r = Unlocked(s, n, o.lockId)
      PROVE  TravelBooks(r, n, rooms)
  <2>1. o.lockId \in L
    BY <1>6 DEF TravelOp
  <2>2. /\ r.remain = s.remain
        /\ r.lockedTotal = Live!Monus(s.lockedTotal, s.locks[n][o.lockId])
        /\ r.bookings = s.bookings /\ r.accounts = s.accounts /\ r.price = s.price
        /\ r.locks[n][o.lockId] = 0
    BY <1>6, <2>1 DEF Unlocked, TravelState
  <2>3. SumFunction(r.locks[n])
          = SumFunction(s.locks[n]) - s.locks[n][o.lockId] + r.locks[n][o.lockId]
    BY <1>1, <1>2, <1>6, <2>1, FunctionSumChange DEF TravelFrame
  <2>4. SumFunction(s.locks[n]) \in Nat /\ s.locks[n][o.lockId] <= SumFunction(s.locks[n])
    BY <1>2, <2>1, FunctionSumIsNat, FunctionSumBounds
  <2>5. Live!Monus(s.lockedTotal, s.locks[n][o.lockId]) = s.lockedTotal - s.locks[n][o.lockId]
    BY <1>2, <2>1, <2>4 DEF Live!Monus, TravelBooks
  <2>6. QED
    BY <1>2, <2>1, <2>2, <2>3, <2>4, <2>5 DEF TravelBooks
<1>7. QED
  BY <1>3, <1>4, <1>5, <1>6 DEF TravelStep

-----------------------------------------------------------------------------
(* The token.                                                              *)

Credited(s, n, u, k) == [s EXCEPT !.balances[n][u] = @ + k, !.totalSupply = @ + k]
Allowed(s, n, p, k) == [s EXCEPT !.allowances[n][p] = k]

TokenStep(s, n, o, r) ==
  \/ r = s
  \/ \E k \in Nat : o.kind = "Mint" /\ r = Credited(s, n, o.to, k)
  \/ \E k \in Nat : /\ o.kind = "Transfer" /\ k <= s.balances[n][o.from]
                    /\ r = Live!TargetMove(s, n, o.from, o.to, k)
  \/ \E k \in Nat : o.kind = "Approve" /\ r = Allowed(s, n, <<o.owner, o.spender>>, k)
  \/ \E k \in Nat, left \in Nat :
       /\ o.kind = "TransferFrom" /\ k <= s.balances[n][o.from]
       /\ r = Live!TargetMove(Allowed(s, n, <<o.from, o.spender>>, left), n, o.from, o.to, k)

TokenFrame(s, n, o, r, N) ==
  /\ \A m \in N \ {n} : r.balances[m] = s.balances[m] /\ r.allowances[m] = s.allowances[m]
  /\ \A u \in Users :
       /\ o.kind = "Mint" => u # o.to
       /\ o.kind \in {"Transfer", "TransferFrom"} => u # o.from /\ u # o.to
       => r.balances[n][u] = s.balances[n][u]
  /\ \A p \in Users \X Users :
       /\ o.kind = "Approve" => p # <<o.owner, o.spender>>
       /\ o.kind = "TransferFrom" => p # <<o.from, o.spender>>
       => r.allowances[n][p] = s.allowances[n][p]

LEMMA TokenSteps ==
  ASSUME NEW N, NEW s, TokenState(s, N), NEW n \in N, NEW o, TokenOp(o)
  PROVE  TokenStep(s, n, o, Live!TokenExecute(s, n, o).state)
<1>1. Live!TokenExecute(s, n, o) = Live!TokenTarget(s, n, o)
  BY TokenAgrees
<1>2. CASE o \in [kind : {"Mint"}, to : Users, amount : Nat]
  <2>1. o.kind = "Mint" /\ o.amount \in Nat
    BY <1>2
  <2>2. Live!TokenExecute(s, n, o).state = IF o.amount > 0 THEN Credited(s, n, o.to, o.amount) ELSE s
    BY <1>1, <2>1 DEF Live!TokenTarget, Live!Accepted, Live!Refused, Credited
  <2>3. QED
    BY <2>1, <2>2 DEF TokenStep
<1>3. CASE o \in [kind : {"Transfer"}, from : Users, to : Users, amount : Nat]
  <2>1. o.kind = "Transfer" /\ o.amount \in Nat /\ o.from \in Users
    BY <1>3
  <2>2. s.balances[n][o.from] \in Nat
    BY <2>1 DEF TokenState
  <2>3. QED
    BY <1>1, <2>1, <2>2 DEF Live!TokenTarget, Live!Accepted, Live!Refused, TokenStep
<1>4. CASE o \in [kind : {"Approve"}, owner : Users, spender : Users, amount : Nat]
  <2>1. o.kind = "Approve" /\ o.amount \in Nat
    BY <1>4
  <2>2. QED
    BY <1>1, <2>1 DEF Live!TokenTarget, Live!Accepted, Allowed, TokenStep
<1>5. CASE o \in [kind : {"TransferFrom"}, spender : Users, from : Users, to : Users, amount : Nat]
  <2>1. o.kind = "TransferFrom" /\ o.amount \in Nat /\ o.from \in Users /\ o.spender \in Users
    BY <1>5
  <2>2. PICK key : key = <<o.from, o.spender>>
    OBVIOUS
  <2>3. s.balances[n][o.from] \in Nat /\ s.allowances[n][key] \in Nat
    BY <2>1, <2>2 DEF TokenState
  <2>4. CASE s.allowances[n][key] >= o.amount /\ s.balances[n][o.from] >= o.amount
    <3>1. PICK left \in Nat : left = s.allowances[n][key] - o.amount
      BY <2>1, <2>3, <2>4
    <3>2. Live!TokenExecute(s, n, o).state =
            Live!TargetMove([s EXCEPT !.allowances[n][key] = left], n, o.from, o.to, o.amount)
      BY <1>1, <2>1, <2>2, <2>4, <3>1 DEF Live!TokenTarget, Live!Accepted
    <3>3. QED
      BY <2>1, <2>2, <2>3, <2>4, <3>1, <3>2 DEF Allowed, TokenStep
  <2>5. CASE ~(s.allowances[n][key] >= o.amount /\ s.balances[n][o.from] >= o.amount)
    BY <1>1, <2>1, <2>2, <2>5 DEF Live!TokenTarget, Live!Refused, TokenStep
  <2>6. QED
    BY <2>4, <2>5
<1>6. CASE o.kind \in {"BalanceOf", "Allowance", "TotalSupply"}
  BY <1>6 DEF Live!TokenExecute, Live!Read, Live!Accepted, TokenStep
<1>7. QED
  BY <1>2, <1>3, <1>4, <1>5, <1>6 DEF TokenOp

\* A transfer moves an amount from one balance to another, or to the same.
LEMMA MoveEffects ==
  ASSUME NEW N, NEW s, TokenState(s, N), NEW n \in N, NEW from \in Users, NEW to \in Users,
         NEW k \in Nat, k <= s.balances[n][from], NEW r, r = Live!TargetMove(s, n, from, to, k)
  PROVE  /\ TokenState(r, N) /\ r.totalSupply = s.totalSupply /\ r.allowances = s.allowances
         /\ \A m \in N \ {n} : r.balances[m] = s.balances[m]
         /\ \A u \in Users : u # from /\ u # to => r.balances[n][u] = s.balances[n][u]
         /\ IsFiniteSet(Users) => SumFunction(r.balances[n]) = SumFunction(s.balances[n])
<1>1. PICK less : less = [s.balances[n] EXCEPT ![from] = @ - k]
  OBVIOUS
<1>2. PICK more : more = [less EXCEPT ![to] = @ + k]
  OBVIOUS
<1>3. s.balances[n] \in [Users -> Nat] /\ s.balances[n][from] - k \in Nat
  BY DEF TokenState
<1>4. less \in [Users -> Nat]
  BY <1>1, <1>3
<1>5. more \in [Users -> Nat]
  BY <1>2, <1>4
<1>6. r = [s EXCEPT !.balances[n] = more]
  BY <1>1, <1>2 DEF Live!TargetMove
<1>7. /\ TokenState(r, N) /\ r.totalSupply = s.totalSupply /\ r.allowances = s.allowances
      /\ r.balances[n] = more /\ \A m \in N \ {n} : r.balances[m] = s.balances[m]
  <2>1. /\ DOMAIN r = DOMAIN s /\ r.totalSupply = s.totalSupply /\ r.allowances = s.allowances
        /\ r.balances = [s.balances EXCEPT ![n] = more]
    BY <1>6 DEF TokenState
  <2>2. r.balances \in [N -> [Users -> Nat]]
    BY <1>5, <2>1 DEF TokenState
  <2>3. r.balances[n] = more /\ \A m \in N \ {n} : r.balances[m] = s.balances[m]
    BY <2>1 DEF TokenState
  <2>4. QED
    BY <2>1, <2>2, <2>3 DEF TokenState
<1>8. \A u \in Users : u # from /\ u # to => more[u] = s.balances[n][u]
  BY <1>1, <1>2, <1>3, <1>4
<1>9. ASSUME IsFiniteSet(Users) PROVE SumFunction(more) = SumFunction(s.balances[n])
  <2>1. SumFunction(less) = SumFunction(s.balances[n]) - s.balances[n][from] + less[from]
    <3>1. less \in [Users -> Int] /\ s.balances[n] \in [Users -> Int]
      BY <1>3, <1>4
    <3>2. \A x \in Users \ {from} : less[x] = s.balances[n][x]
      BY <1>1, <1>3
    <3>3. QED
      BY <1>9, <3>1, <3>2, FunctionSumChange
  <2>2. SumFunction(more) = SumFunction(less) - less[to] + more[to]
    <3>1. less \in [Users -> Int] /\ more \in [Users -> Int]
      BY <1>4, <1>5
    <3>2. \A x \in Users \ {to} : more[x] = less[x]
      BY <1>2, <1>4
    <3>3. QED
      BY <1>9, <3>1, <3>2, FunctionSumChange
  <2>3. SumFunction(s.balances[n]) \in Nat
    BY <1>3, <1>9, FunctionSumIsNat
  <2>4. less[from] = s.balances[n][from] - k /\ more[to] = less[to] + k
    BY <1>1, <1>2, <1>3, <1>4
  <2>5. QED
    BY <1>3, <1>4, <2>1, <2>2, <2>3, <2>4
<1>10. QED
  BY <1>7, <1>8, <1>9

LEMMA TokenEffects ==
  ASSUME NEW N, NEW s, TokenState(s, N), NEW n \in N, NEW o, TokenOp(o),
         NEW r, TokenStep(s, n, o, r)
  PROVE  /\ TokenState(r, N) /\ TokenFrame(s, n, o, r, N)
         /\ IsFiniteSet(Users) /\ SumFunction(s.balances[n]) = s.totalSupply
              => SumFunction(r.balances[n]) = r.totalSupply
<1>1. CASE r = s
  BY <1>1 DEF TokenFrame
<1>2. ASSUME NEW k \in Nat, o.kind = "Mint", r = Credited(s, n, o.to, k)
      PROVE  /\ TokenState(r, N) /\ TokenFrame(s, n, o, r, N)
             /\ IsFiniteSet(Users) /\ SumFunction(s.balances[n]) = s.totalSupply
                  => SumFunction(r.balances[n]) = r.totalSupply
  <2>1. o.to \in Users
    BY <1>2 DEF TokenOp
  <2>2. TokenState(r, N)
    <3>1. PICK more : more = [s.balances EXCEPT ![n][o.to] = @ + k]
      OBVIOUS
    <3>2. more \in [N -> [Users -> Nat]]
      BY <2>1, <3>1 DEF TokenState
    <3>3. /\ DOMAIN r = {"totalSupply", "balances", "allowances"}
          /\ r.balances = more /\ r.allowances = s.allowances
          /\ r.totalSupply = s.totalSupply + k
      BY <1>2, <3>1 DEF Credited, TokenState
    <3>4. s.totalSupply \in Nat /\ s.allowances \in [N -> [Users \X Users -> Nat]]
      BY DEF TokenState
    <3>5. r.totalSupply \in Nat
      BY <3>3, <3>4
    <3>6. QED
      BY <3>2, <3>3, <3>4, <3>5 DEF TokenState
  <2>3. TokenFrame(s, n, o, r, N)
    BY <1>2, <2>1 DEF TokenState, TokenFrame, Credited
  <2>4. /\ r.totalSupply = s.totalSupply + k
        /\ r.balances[n][o.to] = s.balances[n][o.to] + k
        /\ \A x \in Users \ {o.to} : r.balances[n][x] = s.balances[n][x]
        /\ s.balances[n] \in [Users -> Nat] /\ r.balances[n] \in [Users -> Nat]
    BY <1>2, <2>1, <2>2 DEF TokenState, Credited
  <2>5. ASSUME IsFiniteSet(Users), SumFunction(s.balances[n]) = s.totalSupply
        PROVE  SumFunction(r.balances[n]) = r.totalSupply
    <3>1. SumFunction(r.balances[n])
            = SumFunction(s.balances[n]) - s.balances[n][o.to] + r.balances[n][o.to]
      BY <2>1, <2>4, <2>5, FunctionSumChange
    <3>2. s.totalSupply \in Nat /\ s.balances[n][o.to] \in Nat
      BY <2>1, <2>4 DEF TokenState
    <3>3. QED
      BY <2>4, <2>5, <3>1, <3>2
  <2>6. QED
    BY <2>2, <2>3, <2>5
<1>3. ASSUME NEW k \in Nat, o.kind = "Transfer", k <= s.balances[n][o.from],
             r = Live!TargetMove(s, n, o.from, o.to, k)
      PROVE  /\ TokenState(r, N) /\ TokenFrame(s, n, o, r, N)
             /\ IsFiniteSet(Users) => /\ SumFunction(r.balances[n]) = SumFunction(s.balances[n])
                                      /\ r.totalSupply = s.totalSupply
  <2>1. o.from \in Users /\ o.to \in Users
    BY <1>3 DEF TokenOp
  <2>2. /\ TokenState(r, N) /\ r.totalSupply = s.totalSupply /\ r.allowances = s.allowances
        /\ \A m \in N \ {n} : r.balances[m] = s.balances[m]
        /\ \A u \in Users : u # o.from /\ u # o.to => r.balances[n][u] = s.balances[n][u]
        /\ IsFiniteSet(Users) => SumFunction(r.balances[n]) = SumFunction(s.balances[n])
    BY <1>3, <2>1, MoveEffects
  <2>3. QED
    BY <1>3, <2>2 DEF TokenFrame
<1>4. ASSUME NEW k \in Nat, o.kind = "Approve", r = Allowed(s, n, <<o.owner, o.spender>>, k)
      PROVE  /\ TokenState(r, N) /\ TokenFrame(s, n, o, r, N)
             /\ r.balances = s.balances /\ r.totalSupply = s.totalSupply
  <2>1. <<o.owner, o.spender>> \in Users \X Users
    BY <1>4 DEF TokenOp
  <2>2. PICK p \in Users \X Users : p = <<o.owner, o.spender>>
    BY <2>1
  <2>3. r = [s EXCEPT !.allowances[n][p] = k]
    BY <1>4, <2>2 DEF Allowed
  <2>4. /\ TokenState(r, N) /\ r.balances = s.balances /\ r.totalSupply = s.totalSupply
        /\ \A m \in N \ {n} : r.allowances[m] = s.allowances[m]
        /\ \A q \in Users \X Users : q # p => r.allowances[n][q] = s.allowances[n][q]
    BY <2>2, <2>3 DEF TokenState
  <2>5. QED
    BY <1>4, <2>2, <2>4 DEF TokenFrame
<1>5. ASSUME NEW k \in Nat, NEW left \in Nat, o.kind = "TransferFrom",
             k <= s.balances[n][o.from],
             r = Live!TargetMove(Allowed(s, n, <<o.from, o.spender>>, left), n, o.from, o.to, k)
      PROVE  /\ TokenState(r, N) /\ TokenFrame(s, n, o, r, N)
             /\ IsFiniteSet(Users) => /\ SumFunction(r.balances[n]) = SumFunction(s.balances[n])
                                      /\ r.totalSupply = s.totalSupply
  <2>1. o.from \in Users /\ o.to \in Users /\ o.spender \in Users
    BY <1>5 DEF TokenOp
  <2>2. PICK p \in Users \X Users : p = <<o.from, o.spender>>
    BY <2>1
  <2>3. PICK t : t = [s EXCEPT !.allowances[n][p] = left]
    OBVIOUS
  <2>4. /\ TokenState(t, N) /\ t.balances = s.balances /\ t.totalSupply = s.totalSupply
        /\ \A m \in N \ {n} : t.allowances[m] = s.allowances[m]
        /\ \A q \in Users \X Users : q # p => t.allowances[n][q] = s.allowances[n][q]
    BY <2>2, <2>3 DEF TokenState
  <2>5. r = Live!TargetMove(t, n, o.from, o.to, k) /\ k <= t.balances[n][o.from]
    BY <1>5, <2>2, <2>3, <2>4 DEF Allowed
  <2>. TokenState(t, N)
    BY <2>4
  <2>6. /\ TokenState(r, N) /\ r.totalSupply = t.totalSupply /\ r.allowances = t.allowances
        /\ \A m \in N \ {n} : r.balances[m] = t.balances[m]
        /\ \A u \in Users : u # o.from /\ u # o.to => r.balances[n][u] = t.balances[n][u]
        /\ IsFiniteSet(Users) => SumFunction(r.balances[n]) = SumFunction(t.balances[n])
    BY <2>1, <2>5, MoveEffects
  <2>7. QED
    BY <1>5, <2>2, <2>4, <2>6 DEF TokenFrame
<1>6. QED
  BY <1>1, <1>2, <1>3, <1>4, <1>5 DEF TokenStep

-----------------------------------------------------------------------------
(* The auctions.                                                           *)

Created(o) == [seller |-> o.seller, minPrice |-> o.minPrice, highestBidder |-> NoUser,
               highestBid |-> 0, open |-> TRUE, exists |-> TRUE]
Settled(s, n, i, payee, b) ==
  [s EXCEPT !.pending[n] = Live!Owed(@, s.auctions[n][i], payee), !.auctions[n][i] = b]
Outbid(a, o) == [a EXCEPT !.highestBidder = o.bidder, !.highestBid = o.amount]
Closed(a) == [a EXCEPT !.open = FALSE]
Withdrawn(s, n, u) == [s EXCEPT !.pending[n][u] = 0]

LEMMA ClosedFields ==
  ASSUME NEW a, AuctionRecord(a)
  PROVE  /\ AuctionRecord(Closed(a)) /\ ~Closed(a).open
         /\ Closed(a).highestBidder = a.highestBidder /\ Closed(a).seller = a.seller
BY DEF Closed, AuctionRecord

AuctionStep(s, n, o, r) ==
  \/ r = s
  \/ /\ o.kind = "CreateAuction" /\ ~s.auctions[n][o.id].exists
     /\ r = [s EXCEPT !.auctions[n][o.id] = Created(o)]
  \/ LET a == s.auctions[n][o.id]
     IN /\ o.kind = "Bid" /\ a.exists /\ a.open
        /\ r = Settled(s, n, o.id, a.highestBidder, Outbid(a, o))
  \/ LET a == s.auctions[n][o.id]
     IN /\ o.kind = "Close" /\ a.exists /\ a.open
        /\ r = Settled(s, n, o.id, a.seller, Closed(a))
  \/ o.kind = "Withdraw" /\ r = Withdrawn(s, n, o.user)

\* Who is paid when a bid is outbid or an auction closed.
Payees(s, n, o) ==
  CASE o.kind = "Bid" -> {s.auctions[n][o.id].highestBidder}
    [] o.kind = "Close" -> {s.auctions[n][o.id].seller}
    [] o.kind = "Withdraw" -> {o.user}
    [] OTHER -> {}

AuctionFrame(s, n, o, r, N, A) ==
  /\ \A m \in N \ {n} : r.auctions[m] = s.auctions[m] /\ r.pending[m] = s.pending[m]
  /\ \A i \in A : (o.kind \in {"CreateAuction", "Bid", "Close"} => i # o.id) =>
       r.auctions[n][i] = s.auctions[n][i]
  /\ \A u \in Users : u \notin Payees(s, n, o) => r.pending[n][u] = s.pending[n][u]

LEMMA AuctionSteps ==
  ASSUME NEW N, NEW A, NEW s, AuctionState(s, N, A), NEW n \in N, NEW o, AuctionOp(o, A)
  PROVE  AuctionStep(s, n, o, Live!AuctionExecute(s, n, o).state)
<1>1. PICK r : r = Live!AuctionTarget(s, n, o).state
  OBVIOUS
<1>2. Live!AuctionExecute(s, n, o).state = r
  BY <1>1, AuctionAgrees
<1>3. CASE o.kind = "CreateAuction"
  <2>1. PICK d : d = Created(o)
    OBVIOUS
  <2>2. r = IF ~s.auctions[n][o.id].exists /\ o.minPrice > 0
            THEN [s EXCEPT !.auctions[n][o.id] = d] ELSE s
    BY <1>1, <1>3, <2>1
       DEF Live!AuctionTarget, Live!CreateTarget, Live!Accepted, Live!Refused, Created
  <2>3. QED
    BY <1>2, <1>3, <2>1, <2>2 DEF AuctionStep
<1>4. CASE o.kind = "Bid"
  <2>1. PICK a : a = s.auctions[n][o.id]
    OBVIOUS
  <2>2. \/ r = s
        \/ a.exists /\ a.open /\ r = Settled(s, n, o.id, a.highestBidder, Outbid(a, o))
    BY <1>1, <1>4, <2>1 DEF Live!AuctionTarget, Live!BidTarget, Live!Accepted, Live!Refused,
                            Settled, Outbid
  <2>3. QED
    BY <1>2, <1>4, <2>1, <2>2 DEF AuctionStep
<1>5. CASE o.kind = "Close"
  <2>1. PICK a : a = s.auctions[n][o.id]
    OBVIOUS
  <2>2. \/ r = s
        \/ a.exists /\ a.open /\ r = Settled(s, n, o.id, a.seller, Closed(a))
    BY <1>1, <1>5, <2>1 DEF Live!AuctionTarget, Live!CloseTarget, Live!Accepted, Live!Refused,
                            Settled, Closed
  <2>3. QED
    BY <1>2, <1>5, <2>1, <2>2 DEF AuctionStep
<1>6. CASE o.kind = "Withdraw"
  BY <1>1, <1>2, <1>6 DEF Live!AuctionTarget, Live!Accepted, AuctionStep, Withdrawn
<1>7. CASE o.kind \in {"GetAuction", "PendingReturn"}
  BY <1>1, <1>2, <1>7 DEF Live!AuctionTarget, Live!Read, Live!Accepted, AuctionStep
<1>8. QED
  BY <1>3, <1>4, <1>5, <1>6, <1>7 DEF AuctionOp

\* What is standing in an auction: the highest bid, until it closes.
Standing(s, n, A) ==
  [i \in A |-> IF s.auctions[n][i].open THEN s.auctions[n][i].highestBid ELSE 0]
AuctionBooks(s, n, A, held) == SumFunction(Standing(s, n, A)) + SumFunction(s.pending[n]) = held

IsSettled(s, n, i, payee, b, r, N, A) ==
  /\ AuctionState(r, N, A) /\ r.auctions[n][i] = b
  /\ \A m \in N \ {n} : r.auctions[m] = s.auctions[m] /\ r.pending[m] = s.pending[m]
  /\ \A j \in A \ {i} : r.auctions[n][j] = s.auctions[n][j]
  /\ \A u \in Users \ {payee} : r.pending[n][u] = s.pending[n][u]
  /\ IsFiniteSet(Users) =>
       SumFunction(r.pending[n]) - s.auctions[n][i].highestBid = SumFunction(s.pending[n])

LEMMA SettledEffects ==
  ASSUME NEW N, NEW A, NEW s, AuctionState(s, N, A), NEW n \in N, NEW i \in A,
         NEW payee, s.auctions[n][i].highestBid > 0 => payee \in Users,
         NEW b, AuctionRecord(b), NEW r, r = Settled(s, n, i, payee, b)
  PROVE  IsSettled(s, n, i, payee, b, r, N, A)
<1>1. PICK bid : bid = s.auctions[n][i].highestBid
  OBVIOUS
<1>2. bid \in Nat
  BY <1>1 DEF AuctionState, AuctionRecord
<1>3. PICK p : p = Live!Owed(s.pending[n], s.auctions[n][i], payee)
  OBVIOUS
<1>4. s.pending[n] \in [Users -> Nat]
  BY DEF AuctionState
<1>5. p = IF bid > 0 THEN [s.pending[n] EXCEPT ![payee] = @ + bid] ELSE s.pending[n]
  BY <1>1, <1>3 DEF Live!Owed
<1>6. /\ p \in [Users -> Nat] /\ \A u \in Users \ {payee} : p[u] = s.pending[n][u]
      /\ bid > 0 => payee \in Users /\ p[payee] = s.pending[n][payee] + bid
  BY <1>1, <1>2, <1>4, <1>5
<1>7. PICK q : q = [s.auctions[n] EXCEPT ![i] = b]
  OBVIOUS
<1>8. r = [s EXCEPT !.pending[n] = p, !.auctions[n] = q]
  BY <1>3, <1>7 DEF Settled
<1>9. /\ DOMAIN r = {"auctions", "pending"}
      /\ r.pending = [s.pending EXCEPT ![n] = p] /\ r.auctions = [s.auctions EXCEPT ![n] = q]
  BY <1>8 DEF AuctionState
<1>10. /\ q[i] = b /\ \A j \in A \ {i} : q[j] = s.auctions[n][j]
       /\ q = [j \in A |-> q[j]]
  BY <1>7 DEF AuctionState
<1>11. /\ r.pending[n] = p /\ r.auctions[n] = q
       /\ \A m \in N \ {n} : r.auctions[m] = s.auctions[m] /\ r.pending[m] = s.pending[m]
  BY <1>9 DEF AuctionState
<1>12. AuctionState(r, N, A)
  <2>1. r.pending \in [N -> [Users -> Nat]] /\ DOMAIN r.auctions = N
    BY <1>6, <1>9 DEF AuctionState
  <2>2. \A j \in A : AuctionRecord(q[j])
    BY <1>10 DEF AuctionState
  <2>3. QED
    BY <1>9, <1>10, <1>11, <2>1, <2>2 DEF AuctionState
<1>13. ASSUME IsFiniteSet(Users) PROVE SumFunction(p) - bid = SumFunction(s.pending[n])
  <2>1. SumFunction(s.pending[n]) \in Nat
    BY <1>4, <1>13, FunctionSumIsNat
  <2>2. CASE bid > 0
    <3>1. SumFunction(p) = SumFunction(s.pending[n]) - s.pending[n][payee] + p[payee]
      BY <1>4, <1>6, <1>13, <2>2, FunctionSumChange
    <3>2. QED
      BY <1>2, <1>4, <1>6, <2>1, <2>2, <3>1
  <2>3. CASE bid = 0
    BY <1>5, <2>1, <2>3
  <2>4. QED
    BY <1>2, <2>2, <2>3
<1>14. QED
  BY <1>1, <1>6, <1>10, <1>11, <1>12, <1>13 DEF IsSettled

LEMMA AuctionSums ==
  ASSUME NEW N, NEW A, NEW s, AuctionState(s, N, A), NEW n \in N
  PROVE  /\ Standing(s, n, A) \in [A -> Nat] /\ s.pending[n] \in [Users -> Nat]
         /\ IsFiniteSet(A) => SumFunction(Standing(s, n, A)) \in Nat
         /\ IsFiniteSet(Users) => SumFunction(s.pending[n]) \in Nat
<1>1. Standing(s, n, A) \in [A -> Nat]
  <2>1. \A i \in A : s.auctions[n][i].highestBid \in Nat
    BY DEF AuctionState, AuctionRecord
  <2>2. QED
    BY <2>1 DEF Standing
<1>2. s.pending[n] \in [Users -> Nat]
  BY DEF AuctionState
<1>3. QED
  BY <1>1, <1>2, FunctionSumIsNat

\* Under n, the states differ in auction i at most.
OneAuction(s, r, n, i, N, A) ==
  /\ AuctionState(s, N, A) /\ AuctionState(r, N, A) /\ n \in N /\ i \in A
  /\ \A j \in A \ {i} : r.auctions[n][j] = s.auctions[n][j]

\* The standing bids have changed by what that auction's has.
BidsMoved(s, r, n, i, A) ==
  SumFunction(Standing(r, n, A)) - Standing(r, n, A)[i]
    = SumFunction(Standing(s, n, A)) - Standing(s, n, A)[i]

LEMMA StandingChange ==
  ASSUME NEW N, NEW A, IsFiniteSet(A), NEW s, NEW r, NEW n, NEW i, OneAuction(s, r, n, i, N, A)
  PROVE  BidsMoved(s, r, n, i, A)
<1>0. AuctionState(s, N, A) /\ AuctionState(r, N, A) /\ n \in N /\ i \in A
  BY DEF OneAuction
<1>1. Standing(s, n, A) \in [A -> Nat] /\ Standing(r, n, A) \in [A -> Nat]
  BY <1>0, AuctionSums
<1>2. \A j \in A \ {i} : Standing(r, n, A)[j] = Standing(s, n, A)[j]
  BY DEF Standing, OneAuction
<1>3. SumFunction(Standing(r, n, A))
        = SumFunction(Standing(s, n, A)) - Standing(s, n, A)[i] + Standing(r, n, A)[i]
  BY <1>0, <1>1, <1>2, FunctionSumChange
<1>4. SumFunction(Standing(s, n, A)) \in Nat
  BY <1>0, AuctionSums
<1>5. QED
  BY <1>0, <1>1, <1>3, <1>4 DEF BidsMoved

\* A bid is replaced by another, and what it held goes to the pending refunds.
LEMMA BidReplaced ==
  ASSUME NEW x \in Nat, NEW y \in Nat, NEW u \in Nat, NEW w \in Nat,
         NEW bid \in Nat, NEW newBid \in Nat, x - newBid = u - bid, y - bid = w
  PROVE  x + y = u + w + newBid
OBVIOUS

\* A bid the target accepts settles the standing bid and puts the new one in its place.
LEMMA BidOutcome ==
  ASSUME NEW s, NEW n, NEW o, NEW x, x = s.auctions[n][o.id],
         NEW a, a = Live!BidTarget(s, n, o)
  PROVE  \/ ~a.ok /\ a.state = s
         \/ /\ a.ok /\ x.exists /\ x.open
            /\ a.state = Settled(s, n, o.id, x.highestBidder, Outbid(x, o))
<1>1. PICK t : t = Settled(s, n, o.id, x.highestBidder, Outbid(x, o))
  OBVIOUS
<1>2. CASE x.exists /\ x.open /\ o.amount >= x.minPrice /\ o.amount > x.highestBid
  <2>1. a = Live!Accepted(t, <<>>)
    BY <1>1, <1>2 DEF Live!BidTarget, Settled, Outbid
  <2>2. QED
    BY <1>1, <1>2, <2>1 DEF Live!Accepted
<1>3. CASE ~(x.exists /\ x.open /\ o.amount >= x.minPrice /\ o.amount > x.highestBid)
  <2>1. a = Live!Refused(s)
    BY <1>3 DEF Live!BidTarget
  <2>2. QED
    BY <2>1 DEF Live!Refused
<1>4. QED
  BY <1>2, <1>3

LEMMA CreatedEffects ==
  ASSUME NEW N, NEW A, NEW s, AuctionState(s, N, A), NEW n \in N, NEW o, AuctionOp(o, A),
         o.kind = "CreateAuction", ~s.auctions[n][o.id].exists,
         NEW r, r = [s EXCEPT !.auctions[n][o.id] = Created(o)]
  PROVE  /\ AuctionState(r, N, A) /\ AuctionFrame(s, n, o, r, N, A)
         /\ r.pending = s.pending
         /\ IsFiniteSet(A) => SumFunction(Standing(r, n, A)) = SumFunction(Standing(s, n, A))
<1>1. o.id \in A /\ o.seller \in Users /\ o.minPrice \in Nat
  BY DEF AuctionOp
<1>2. PICK d : d = Created(o)
  OBVIOUS
<1>3. AuctionRecord(d) /\ d.highestBid = 0
  BY <1>1, <1>2 DEF Created, AuctionRecord, Party
<1>4. PICK q : q = [s.auctions[n] EXCEPT ![o.id] = d]
  OBVIOUS
<1>5. q[o.id] = d /\ (\A j \in A \ {o.id} : q[j] = s.auctions[n][j]) /\ q = [j \in A |-> q[j]]
  BY <1>1, <1>4 DEF AuctionState
<1>6. r = [s EXCEPT !.auctions[n] = q]
  BY <1>2, <1>4
<1>7. /\ DOMAIN r = {"auctions", "pending"} /\ r.pending = s.pending
      /\ DOMAIN r.auctions = N /\ r.auctions[n] = q
      /\ \A m \in N \ {n} : r.auctions[m] = s.auctions[m]
  BY <1>6 DEF AuctionState
<1>8. AuctionState(r, N, A)
  <2>1. \A j \in A : AuctionRecord(q[j])
    BY <1>3, <1>5 DEF AuctionState
  <2>2. QED
    BY <1>5, <1>7, <2>1 DEF AuctionState
<1>9. AuctionFrame(s, n, o, r, N, A)
  BY <1>5, <1>7 DEF AuctionFrame
<1>10. ASSUME IsFiniteSet(A)
       PROVE  SumFunction(Standing(r, n, A)) = SumFunction(Standing(s, n, A))
  <2>1. ~s.auctions[n][o.id].open
    BY <1>1 DEF AuctionState, AuctionRecord
  <2>2. Standing(s, n, A)[o.id] = 0 /\ Standing(r, n, A)[o.id] = 0
    BY <1>1, <1>3, <1>5, <1>7, <2>1 DEF Standing
  <2>3. \A j \in A : Standing(r, n, A)[j] = Standing(s, n, A)[j]
    BY <1>5, <1>7, <2>2 DEF Standing
  <2>4. Standing(r, n, A) = Standing(s, n, A)
    BY <2>3 DEF Standing
  <2>5. QED
    BY <2>4
<1>11. QED
  BY <1>7, <1>8, <1>9, <1>10

LEMMA BidEffects ==
  ASSUME NEW N, NEW A, NEW s, AuctionState(s, N, A), NEW n \in N, NEW o, AuctionOp(o, A),
         o.kind = "Bid", NEW a, a = s.auctions[n][o.id], a.exists, a.open,
         NEW r, r = Settled(s, n, o.id, a.highestBidder, Outbid(a, o))
  PROVE  /\ AuctionState(r, N, A) /\ AuctionFrame(s, n, o, r, N, A)
         /\ r.auctions[n][o.id].highestBidder = o.bidder
         /\ r.auctions[n][o.id].seller = a.seller
         /\ IsFiniteSet(Users) /\ IsFiniteSet(A) =>
              \A held : AuctionBooks(s, n, A, held) => AuctionBooks(r, n, A, held + o.amount)
<1>1. o.id \in A /\ o.bidder \in Users /\ o.amount \in Nat
  BY DEF AuctionOp
<1>2. AuctionRecord(a)
  BY <1>1 DEF AuctionState
<1>3. PICK b : b = Outbid(a, o)
  OBVIOUS
<1>4. AuctionRecord(b) /\ b.open /\ b.highestBid = o.amount /\ b.highestBidder = o.bidder
      /\ b.seller = a.seller
  BY <1>1, <1>2, <1>3 DEF Outbid, AuctionRecord, Party
<1>5. PICK payee : payee = a.highestBidder
  OBVIOUS
<1>6. s.auctions[n][o.id].highestBid > 0 => payee \in Users
  BY <1>2, <1>5 DEF AuctionRecord
<1>7. r = Settled(s, n, o.id, payee, b)
  BY <1>3, <1>5
<1>8. /\ AuctionState(r, N, A) /\ r.auctions[n][o.id] = b
      /\ \A m \in N \ {n} : r.auctions[m] = s.auctions[m] /\ r.pending[m] = s.pending[m]
      /\ \A j \in A \ {o.id} : r.auctions[n][j] = s.auctions[n][j]
      /\ \A u \in Users \ {payee} : r.pending[n][u] = s.pending[n][u]
      /\ IsFiniteSet(Users) => SumFunction(r.pending[n]) - s.auctions[n][o.id].highestBid
                                = SumFunction(s.pending[n])
  <2>1. AuctionRecord(b) /\ o.id \in A
    BY <1>1, <1>4
  <2>2. IsSettled(s, n, o.id, payee, b, r, N, A)
    BY <1>6, <1>7, <2>1, SettledEffects
  <2>3. QED
    BY <2>2 DEF IsSettled
<1>9. AuctionFrame(s, n, o, r, N, A)
  BY <1>5, <1>8 DEF AuctionFrame, Payees
<1>10. ASSUME IsFiniteSet(Users), IsFiniteSet(A)
       PROVE  SumFunction(Standing(r, n, A)) + SumFunction(r.pending[n])
                = SumFunction(Standing(s, n, A)) + SumFunction(s.pending[n]) + o.amount
  <2>1. BidsMoved(s, r, n, o.id, A)
    <3>1. OneAuction(s, r, n, o.id, N, A)
      BY <1>1, <1>8 DEF OneAuction
    <3>2. QED
      BY <1>10, <3>1, StandingChange
  <2>2. Standing(s, n, A)[o.id] = a.highestBid /\ Standing(r, n, A)[o.id] = o.amount
    BY <1>1, <1>4, <1>8 DEF Standing
  <2>3. a.highestBid \in Nat
    BY <1>2 DEF AuctionRecord
  <2>4. SumFunction(Standing(s, n, A)) \in Nat /\ SumFunction(s.pending[n]) \in Nat
    BY <1>10, AuctionSums
  <2>5. SumFunction(Standing(r, n, A)) \in Nat /\ SumFunction(r.pending[n]) \in Nat
    BY <1>8, <1>10, AuctionSums
  <2>6. SumFunction(r.pending[n]) - a.highestBid = SumFunction(s.pending[n])
    BY <1>8, <1>10
  <2>7. PICK x \in Nat, y \in Nat, u \in Nat, w \in Nat :
          /\ x = SumFunction(Standing(r, n, A)) /\ y = SumFunction(r.pending[n])
          /\ u = SumFunction(Standing(s, n, A)) /\ w = SumFunction(s.pending[n])
    BY <2>4, <2>5
  <2>8. x - o.amount = u - a.highestBid /\ y - a.highestBid = w
    BY <2>1, <2>2, <2>6, <2>7 DEF BidsMoved
  <2>9. x + y = u + w + o.amount
    BY <1>1, <2>3, <2>8, BidReplaced
  <2>10. QED
    BY <2>7, <2>9
<1>11. ASSUME IsFiniteSet(Users), IsFiniteSet(A), NEW held, AuctionBooks(s, n, A, held)
       PROVE  AuctionBooks(r, n, A, held + o.amount)
  <2>1. held = SumFunction(Standing(s, n, A)) + SumFunction(s.pending[n])
    BY <1>11 DEF AuctionBooks
  <2>2. SumFunction(Standing(r, n, A)) + SumFunction(r.pending[n]) = held + o.amount
    BY <1>10, <1>11, <2>1
  <2>3. QED
    BY <2>2 DEF AuctionBooks
<1>12. QED
  BY <1>4, <1>8, <1>9, <1>11

\* An open auction is closed and its bid owed to the seller.
Closing(s, r, n, o, a) ==
  /\ a = s.auctions[n][o.id] /\ a.exists /\ a.open
  /\ r = Settled(s, n, o.id, a.seller, Closed(a))

LEMMA CloseEffects ==
  ASSUME NEW N, NEW A, NEW s, AuctionState(s, N, A), NEW n \in N, NEW o, AuctionOp(o, A),
         o.kind = "Close", NEW a, NEW r, Closing(s, r, n, o, a)
  PROVE  /\ AuctionState(r, N, A) /\ AuctionFrame(s, n, o, r, N, A)
         /\ r.auctions[n][o.id].highestBidder = a.highestBidder
         /\ r.auctions[n][o.id].seller = a.seller
         /\ IsFiniteSet(Users) /\ IsFiniteSet(A) =>
              \A held : AuctionBooks(s, n, A, held) => AuctionBooks(r, n, A, held)
<1> USE DEF Closing
<1>1. o.id \in A
  BY DEF AuctionOp
<1>2. AuctionRecord(a)
  BY <1>1 DEF AuctionState
<1>3. PICK b : b = Closed(a)
  OBVIOUS
<1>4. AuctionRecord(b) /\ ~b.open /\ b.highestBidder = a.highestBidder /\ b.seller = a.seller
  BY <1>2, <1>3, ClosedFields
<1>5. PICK payee : payee = a.seller
  OBVIOUS
<1>6. s.auctions[n][o.id].highestBid > 0 => payee \in Users
  BY <1>2, <1>5 DEF AuctionRecord
<1>7. r = Settled(s, n, o.id, payee, b)
  BY <1>3, <1>5
<1>8. /\ AuctionState(r, N, A) /\ r.auctions[n][o.id] = b
      /\ \A m \in N \ {n} : r.auctions[m] = s.auctions[m] /\ r.pending[m] = s.pending[m]
      /\ \A j \in A \ {o.id} : r.auctions[n][j] = s.auctions[n][j]
      /\ \A u \in Users \ {payee} : r.pending[n][u] = s.pending[n][u]
      /\ IsFiniteSet(Users) => SumFunction(r.pending[n]) - s.auctions[n][o.id].highestBid
                                = SumFunction(s.pending[n])
  <2>1. AuctionRecord(b) /\ o.id \in A
    BY <1>1, <1>4
  <2>2. IsSettled(s, n, o.id, payee, b, r, N, A)
    BY <1>6, <1>7, <2>1, SettledEffects
  <2>3. QED
    BY <2>2 DEF IsSettled
<1>9. AuctionFrame(s, n, o, r, N, A)
  BY <1>5, <1>8 DEF AuctionFrame, Payees
<1>10. ASSUME IsFiniteSet(Users), IsFiniteSet(A)
       PROVE  SumFunction(Standing(r, n, A)) + SumFunction(r.pending[n])
                = SumFunction(Standing(s, n, A)) + SumFunction(s.pending[n])
  <2>1. BidsMoved(s, r, n, o.id, A)
    <3>1. OneAuction(s, r, n, o.id, N, A)
      BY <1>1, <1>8 DEF OneAuction
    <3>2. QED
      BY <1>10, <3>1, StandingChange
  <2>2. Standing(s, n, A)[o.id] = a.highestBid /\ Standing(r, n, A)[o.id] = 0
    BY <1>1, <1>4, <1>8 DEF Standing
  <2>3. a.highestBid \in Nat
    BY <1>2 DEF AuctionRecord
  <2>4. SumFunction(Standing(s, n, A)) \in Nat /\ SumFunction(s.pending[n]) \in Nat
    BY <1>10, AuctionSums
  <2>5. SumFunction(Standing(r, n, A)) \in Nat /\ SumFunction(r.pending[n]) \in Nat
    BY <1>8, <1>10, AuctionSums
  <2>6. SumFunction(r.pending[n]) - a.highestBid = SumFunction(s.pending[n])
    BY <1>8, <1>10
  <2>7. PICK x \in Nat, y \in Nat, u \in Nat, w \in Nat, bid \in Nat :
          /\ x = SumFunction(Standing(r, n, A)) /\ y = SumFunction(r.pending[n])
          /\ u = SumFunction(Standing(s, n, A)) /\ w = SumFunction(s.pending[n])
          /\ bid = a.highestBid
    BY <2>3, <2>4, <2>5
  <2>8. x - 0 = u - bid
    BY <2>1, <2>2, <2>7 DEF BidsMoved
  <2>9. y - bid = w
    BY <2>6, <2>7
  <2>10. x + y = u + w
    BY <2>8, <2>9
  <2>11. QED
    BY <2>7, <2>10
<1>11. ASSUME IsFiniteSet(Users), IsFiniteSet(A), NEW held, AuctionBooks(s, n, A, held)
       PROVE  AuctionBooks(r, n, A, held)
  <2>1. held = SumFunction(Standing(s, n, A)) + SumFunction(s.pending[n])
    BY <1>11 DEF AuctionBooks
  <2>2. SumFunction(Standing(r, n, A)) + SumFunction(r.pending[n]) = held
    BY <1>10, <1>11, <2>1
  <2>3. QED
    BY <2>2 DEF AuctionBooks
<1>12. QED
  BY <1>4, <1>8, <1>9, <1>11

LEMMA WithdrawEffects ==
  ASSUME NEW N, NEW A, NEW s, AuctionState(s, N, A), NEW n \in N, NEW o, AuctionOp(o, A),
         o.kind = "Withdraw", NEW r, r = Withdrawn(s, n, o.user),
         NEW due, due = s.pending[n][o.user]
  PROVE  /\ AuctionState(r, N, A) /\ AuctionFrame(s, n, o, r, N, A)
         /\ r.auctions = s.auctions
         /\ IsFiniteSet(Users) => SumFunction(r.pending[n]) = SumFunction(s.pending[n]) - due
<1>1. o.user \in Users
  BY DEF AuctionOp
<1>2. PICK p : p = [s.pending[n] EXCEPT ![o.user] = 0]
  OBVIOUS
<1>3. s.pending[n] \in [Users -> Nat]
  BY DEF AuctionState
<1>4. p \in [Users -> Nat] /\ p[o.user] = 0 /\ \A u \in Users \ {o.user} : p[u] = s.pending[n][u]
  BY <1>1, <1>2, <1>3
<1>5. /\ DOMAIN r = {"auctions", "pending"} /\ r.auctions = s.auctions
      /\ r.pending = [s.pending EXCEPT ![n] = p]
  BY <1>2 DEF AuctionState, Withdrawn
<1>6. /\ r.pending \in [N -> [Users -> Nat]] /\ r.pending[n] = p
      /\ \A m \in N \ {n} : r.pending[m] = s.pending[m]
  BY <1>4, <1>5 DEF AuctionState
<1>7. AuctionState(r, N, A)
  BY <1>5, <1>6 DEF AuctionState
<1>8. AuctionFrame(s, n, o, r, N, A)
  BY <1>4, <1>5, <1>6 DEF AuctionFrame, Payees
<1>9. ASSUME IsFiniteSet(Users)
      PROVE  SumFunction(r.pending[n]) = SumFunction(s.pending[n]) - due
  <2>1. SumFunction(p) = SumFunction(s.pending[n]) - s.pending[n][o.user] + p[o.user]
    BY <1>1, <1>3, <1>4, <1>9, FunctionSumChange
  <2>2. SumFunction(s.pending[n]) \in Nat
    BY <1>3, <1>9, FunctionSumIsNat
  <2>3. QED
    BY <1>1, <1>3, <1>4, <1>6, <2>1, <2>2
<1>10. QED
  BY <1>5, <1>7, <1>8, <1>9

LEMMA AuctionEffects ==
  ASSUME NEW N, NEW A, NEW s, AuctionState(s, N, A), NEW n \in N, NEW o, AuctionOp(o, A),
         NEW r, AuctionStep(s, n, o, r)
  PROVE  AuctionState(r, N, A) /\ AuctionFrame(s, n, o, r, N, A)
<1>1. CASE r = s
  BY <1>1 DEF AuctionFrame
<1>2. CASE /\ o.kind = "CreateAuction" /\ ~s.auctions[n][o.id].exists
           /\ r = [s EXCEPT !.auctions[n][o.id] = Created(o)]
  BY <1>2, CreatedEffects
<1>3. ASSUME NEW a, a = s.auctions[n][o.id], o.kind = "Bid", a.exists, a.open,
             r = Settled(s, n, o.id, a.highestBidder, Outbid(a, o))
      PROVE  AuctionState(r, N, A) /\ AuctionFrame(s, n, o, r, N, A)
  BY <1>3, BidEffects
<1>4. ASSUME NEW a, a = s.auctions[n][o.id], o.kind = "Close", a.exists, a.open,
             r = Settled(s, n, o.id, a.seller, Closed(a))
      PROVE  AuctionState(r, N, A) /\ AuctionFrame(s, n, o, r, N, A)
  <2>1. Closing(s, r, n, o, a)
    BY <1>4 DEF Closing
  <2>2. QED
    BY <1>4, <2>1, CloseEffects
<1>5. CASE o.kind = "Withdraw" /\ r = Withdrawn(s, n, o.user)
  <2>1. PICK due : due = s.pending[n][o.user]
    OBVIOUS
  <2>2. QED
    BY <1>5, <2>1, WithdrawEffects
<1>6. QED
  BY <1>1, <1>2, <1>3, <1>4, <1>5 DEF AuctionStep

\* What an operation with answer a brings into the auctions, or takes out.
PaidIn(o, a, held) ==
  CASE o.kind = "Bid" /\ a.ok -> held + o.amount
    [] o.kind = "Withdraw" -> held - a.values[1]
    [] OTHER -> held

LEMMA AuctionKeepsBooks ==
  ASSUME IsFiniteSet(Users), NEW N, NEW A, IsFiniteSet(A), NEW s, AuctionState(s, N, A),
         NEW n \in N, NEW o, AuctionOp(o, A), NEW held, AuctionBooks(s, n, A, held),
         NEW a, a = Live!AuctionExecute(s, n, o)
  PROVE  AuctionBooks(a.state, n, A, PaidIn(o, a, held))
<1>1. a = Live!AuctionTarget(s, n, o)
  BY AuctionAgrees
<1>2. PICK r : r = a.state
  OBVIOUS
<1>3. AuctionStep(s, n, o, r)
  BY <1>2, AuctionSteps
<1>4. CASE o.kind = "Bid"
  <2>1. PICK x : x = s.auctions[n][o.id]
    OBVIOUS
  <2>2. \/ ~a.ok /\ r = s
        \/ a.ok /\ x.exists /\ x.open /\ r = Settled(s, n, o.id, x.highestBidder, Outbid(x, o))
    <3>1. a = Live!BidTarget(s, n, o)
      BY <1>1, <1>4 DEF Live!AuctionTarget
    <3>2. QED
      BY <1>2, <2>1, <3>1, BidOutcome
  <2>3. CASE ~a.ok /\ r = s
    BY <1>2, <1>4, <2>3 DEF PaidIn
  <2>4. CASE a.ok /\ x.exists /\ x.open /\ r = Settled(s, n, o.id, x.highestBidder, Outbid(x, o))
    <3>1. AuctionBooks(r, n, A, held + o.amount)
      BY <1>4, <2>1, <2>4, BidEffects
    <3>2. PaidIn(o, a, held) = held + o.amount
      BY <1>4, <2>4 DEF PaidIn
    <3>3. QED
      BY <1>2, <3>1, <3>2
  <2>5. QED
    BY <2>2, <2>3, <2>4
<1>5. CASE o.kind = "Close"
  <2>1. PaidIn(o, a, held) = held
    BY <1>5 DEF PaidIn
  <2>2. PICK x : x = s.auctions[n][o.id]
    OBVIOUS
  <2>3. CASE r = s
    BY <1>2, <2>1, <2>3
  <2>4. CASE x.exists /\ x.open /\ r = Settled(s, n, o.id, x.seller, Closed(x))
    <3>1. Closing(s, r, n, o, x)
      BY <2>2, <2>4 DEF Closing
    <3>2. AuctionBooks(r, n, A, held)
      BY <1>5, <3>1, CloseEffects
    <3>3. QED
      BY <1>2, <2>1, <3>2
  <2>5. r = s \/ (x.exists /\ x.open /\ r = Settled(s, n, o.id, x.seller, Closed(x)))
    <3>1. o.kind # "CreateAuction" /\ o.kind # "Bid" /\ o.kind # "Withdraw"
      BY <1>5
    <3>2. QED
      BY <1>3, <2>2, <3>1 DEF AuctionStep
  <2>6. QED
    BY <2>3, <2>4, <2>5
<1>6. CASE o.kind = "CreateAuction"
  <2>1. PaidIn(o, a, held) = held
    BY <1>6 DEF PaidIn
  <2>2. r = s \/ (~s.auctions[n][o.id].exists /\ r = [s EXCEPT !.auctions[n][o.id] = Created(o)])
    <3>1. o.kind # "Close" /\ o.kind # "Bid" /\ o.kind # "Withdraw"
      BY <1>6
    <3>2. QED
      BY <1>3, <3>1 DEF AuctionStep
  <2>3. CASE ~s.auctions[n][o.id].exists /\ r = [s EXCEPT !.auctions[n][o.id] = Created(o)]
    <3>1. r.pending = s.pending /\ SumFunction(Standing(r, n, A)) = SumFunction(Standing(s, n, A))
      BY <1>6, <2>3, CreatedEffects
    <3>2. QED
      BY <1>2, <2>1, <3>1 DEF AuctionBooks
  <2>4. QED
    BY <1>2, <2>1, <2>2, <2>3
<1>7. CASE o.kind = "Withdraw"
  <2>1. r = Withdrawn(s, n, o.user) /\ a.values = <<s.pending[n][o.user]>>
    BY <1>1, <1>2, <1>7 DEF Live!AuctionTarget, Live!Accepted, Withdrawn
  <2>. PICK due : due = s.pending[n][o.user]
    OBVIOUS
  <2>2. r.auctions = s.auctions /\ SumFunction(r.pending[n]) = SumFunction(s.pending[n]) - due
    BY <1>7, <2>1, WithdrawEffects
  <2>3. Standing(r, n, A) = Standing(s, n, A)
    BY <2>2 DEF Standing
  <2>4. PaidIn(o, a, held) = held - due
    BY <1>7, <2>1 DEF PaidIn
  <2>5. o.user \in Users
    BY <1>7 DEF AuctionOp
  <2>6. /\ s.pending[n][o.user] \in Nat
        /\ SumFunction(Standing(s, n, A)) \in Nat /\ SumFunction(s.pending[n]) \in Nat
    BY <2>5, AuctionSums
  <2>7. QED
    BY <1>2, <2>2, <2>3, <2>4, <2>6 DEF AuctionBooks
<1>8. CASE o.kind \in {"GetAuction", "PendingReturn"}
  BY <1>2, <1>3, <1>8 DEF AuctionStep, PaidIn
<1>9. QED
  BY <1>4, <1>5, <1>6, <1>7, <1>8 DEF AuctionOp

\* The books hold what is not negative.
LEMMA BooksHoldNat ==
  ASSUME IsFiniteSet(Users), NEW N, NEW A, IsFiniteSet(A), NEW s, AuctionState(s, N, A),
         NEW n \in N, NEW held, AuctionBooks(s, n, A, held)
  PROVE  held \in Nat
<1>1. SumFunction(Standing(s, n, A)) \in Nat /\ SumFunction(s.pending[n]) \in Nat
  BY AuctionSums
<1>2. QED
  BY <1>1 DEF AuctionBooks

-----------------------------------------------------------------------------
(* The arithmetic of the pool, whose divisions round down.                 *)

LEMMA DivFloor == \A p \in Nat, q \in Nat \ {0} :
                    /\ p \div q \in Nat /\ (p \div q) * q <= p /\ p < ((p \div q) + 1) * q
  OBVIOUS

LEMMA TimesMonotone == \A a \in Nat, b \in Nat, c \in Nat : a <= b => a * c <= b * c
<1>1. ASSUME NEW a \in Nat, NEW b \in Nat, NEW c \in Nat, a <= b PROVE a * c <= b * c
  <2>1. PICK d \in Nat : b = a + d
    <3>1. b - a \in Nat /\ b = a + (b - a)
      BY <1>1
    <3>2. QED
      BY <3>1
  <2>2. b * c = a * c + d * c /\ d * c \in Nat /\ a * c \in Nat
    BY <2>1
  <2>3. QED
    BY <2>2
<1>2. QED
  BY <1>1

LEMMA TimesCancels == \A a \in Nat, b \in Nat, c \in Nat : a * c < b * c => a < b
<1>1. ASSUME NEW a \in Nat, NEW b \in Nat, NEW c \in Nat, a * c < b * c, ~(a < b) PROVE FALSE
  <2>1. b * c <= a * c
    BY <1>1, TimesMonotone
  <2>2. a * c \in Nat /\ b * c \in Nat
    OBVIOUS
  <2>3. QED
    BY <1>1, <2>1, <2>2
<1>2. QED
  BY <1>1

LEMMA ProductsCompare ==
  ASSUME NEW a \in Nat, NEW b \in Nat, NEW t \in Nat, NEW x \in Nat, NEW y \in Nat, NEW z \in Nat,
         a * z <= x * t, b * z <= y * t
  PROVE  x * y * t * t >= a * b * z * z
<1>1. PICK p \in Nat : p = a * z
  BY SMT
<1>2. PICK q \in Nat : q = b * z
  BY SMT
<1>3. PICK v \in Nat : v = x * t
  BY SMT
<1>4. PICK w \in Nat : w = y * t
  BY SMT
<1>5. p * q <= v * w
  <2>1. p * q <= v * q
    BY <1>1, <1>3, TimesMonotone
  <2>2. q * v <= w * v
    BY <1>2, <1>4, TimesMonotone
  <2>3. q * v = v * q /\ w * v = v * w /\ p * q \in Nat /\ v * q \in Nat /\ v * w \in Nat
    OBVIOUS
  <2>4. QED
    BY <2>1, <2>2, <2>3
<1>6. v * w = x * y * t * t
  BY <1>3, <1>4
<1>7. p * q = a * b * z * z
  BY <1>1, <1>2
<1>8. p * q \in Nat /\ v * w \in Nat
  OBVIOUS
<1>9. QED
  BY <1>5, <1>6, <1>7, <1>8

-----------------------------------------------------------------------------
(* The pool.                                                               *)

Added(s, n, u, a, b, m) ==
  [s EXCEPT !.reserveA = @ + a, !.reserveB = @ + b, !.totalShares = @ + m, !.shares[n][u] = @ + m]
Removed(s, n, u, k, p, q) ==
  [s EXCEPT !.reserveA = @ - p, !.reserveB = @ - q, !.totalShares = @ - k, !.shares[n][u] = @ - k]
Swapped(s, i, out) == [s EXCEPT !.reserveA = @ + i, !.reserveB = @ - out]

\* What is minted for a and b, paid for k shares, and paid for i, rounds down.
FairMint(s, a, b, m) ==
  s.totalShares # 0 => /\ s.reserveA # 0 /\ s.reserveB # 0
                       /\ m * s.reserveA <= a * s.totalShares
                       /\ m * s.reserveB <= b * s.totalShares
FairPart(reserve, total, k, p) ==
  /\ p * total <= reserve * k
  /\ reserve * k < (p + 1) * total
FairSwap(s, i, out) ==
  out * (s.reserveA * 1000 + i * 997) <= i * 997 * s.reserveB

DexStep(s, n, o, r) ==
  \/ r = s
  \/ \E a \in Nat \ {0}, b \in Nat \ {0}, m \in Nat \ {0} :
       o.kind = "AddLiquidity" /\ FairMint(s, a, b, m) /\ r = Added(s, n, o.user, a, b, m)
  \/ \E k \in Nat \ {0}, p \in Nat, q \in Nat :
       /\ o.kind = "RemoveLiquidity" /\ k <= s.shares[n][o.user] /\ s.totalShares # 0
       /\ FairPart(s.reserveA, s.totalShares, k, p) /\ FairPart(s.reserveB, s.totalShares, k, q)
       /\ r = Removed(s, n, o.user, k, p, q)
  \/ \E i \in Nat \ {0}, out \in Nat :
       /\ o.kind = "SwapAForB" /\ s.reserveA # 0 /\ out < s.reserveB
       /\ FairSwap(s, i, out) /\ r = Swapped(s, i, out)

DexFrame(s, n, o, r, N) ==
  /\ \A m \in N \ {n} : r.shares[m] = s.shares[m]
  /\ \A u \in Users : (o.kind \in {"AddLiquidity", "RemoveLiquidity"} => u # o.user) =>
       r.shares[n][u] = s.shares[n][u]

LEMMA MintIsFair ==
  ASSUME NEW N, NEW s, DexState(s, N), NEW a \in Nat, NEW b \in Nat,
         Live!Divides(s), NEW m, m = Live!SharesFor(s, a, b)
  PROVE  m \in Nat /\ FairMint(s, a, b, m)
<1>1. CASE s.totalShares = 0
  BY <1>1 DEF Live!SharesFor, FairMint
<1>2. CASE s.totalShares # 0
  <2>1. s.reserveA \in Nat \ {0} /\ s.reserveB \in Nat \ {0}
    BY <1>2 DEF Live!Divides, DexState
  <2>2. a * s.totalShares \in Nat /\ b * s.totalShares \in Nat
    BY DEF DexState
  <2>3. PICK x : x = (a * s.totalShares) \div s.reserveA
    OBVIOUS
  <2>4. PICK y : y = (b * s.totalShares) \div s.reserveB
    OBVIOUS
  <2>5. /\ x \in Nat /\ x * s.reserveA <= a * s.totalShares
        /\ y \in Nat /\ y * s.reserveB <= b * s.totalShares
    BY <2>1, <2>2, <2>3, <2>4, DivFloor
  <2>6. m \in Nat /\ m <= x /\ m <= y
    BY <1>2, <2>3, <2>4, <2>5 DEF Live!SharesFor, Live!Least
  <2>7. m * s.reserveA <= x * s.reserveA /\ m * s.reserveB <= y * s.reserveB
    BY <2>1, <2>5, <2>6, TimesMonotone
  <2>8. m * s.reserveA <= a * s.totalShares
    <3>1. m * s.reserveA \in Nat /\ x * s.reserveA \in Nat
      BY <2>1, <2>5, <2>6
    <3>2. QED
      BY <2>2, <2>5, <2>7, <3>1
  <2>9. m * s.reserveB <= b * s.totalShares
    <3>1. m * s.reserveB \in Nat /\ y * s.reserveB \in Nat
      BY <2>1, <2>5, <2>6
    <3>2. QED
      BY <2>2, <2>5, <2>7, <3>1
  <2>10. QED
    BY <2>1, <2>6, <2>8, <2>9 DEF FairMint
<1>3. QED
  BY <1>1, <1>2

LEMMA DexSteps ==
  ASSUME NEW N, NEW s, DexState(s, N), NEW n \in N, NEW o, DexOp(o)
  PROVE  DexStep(s, n, o, Live!DexExecute(s, n, o).state)
<1>1. PICK r : r = Live!DexExecute(s, n, o).state
  OBVIOUS
<1>2. CASE o \in [kind : {"AddLiquidity"}, user : Users, amountA : Nat, amountB : Nat]
  <2>1. o.kind = "AddLiquidity" /\ o.amountA \in Nat /\ o.amountB \in Nat
    BY <1>2
  <2>2. PICK m : m = Live!SharesFor(s, o.amountA, o.amountB)
    OBVIOUS
  <2>3. r = IF o.amountA # 0 /\ o.amountB # 0 /\ Live!Divides(s) /\ m # 0
            THEN Added(s, n, o.user, o.amountA, o.amountB, m) ELSE s
    BY <1>1, <2>1, <2>2 DEF Live!DexExecute, Live!AddLiquidity, Live!Accepted, Live!Refused, Added
  <2>4. Live!Divides(s) => m \in Nat /\ FairMint(s, o.amountA, o.amountB, m)
    BY <2>1, <2>2, MintIsFair
  <2>5. QED
    BY <1>1, <2>1, <2>3, <2>4 DEF DexStep
<1>3. CASE o \in [kind : {"RemoveLiquidity"}, user : Users, shares : Nat]
  <2>1. o.kind = "RemoveLiquidity" /\ o.shares \in Nat
    BY <1>3
  <2>2. PICK p : p = (s.reserveA * o.shares) \div s.totalShares
    OBVIOUS
  <2>3. PICK q : q = (s.reserveB * o.shares) \div s.totalShares
    OBVIOUS
  <2>4. r = Live!RemoveTarget(s, n, o).state
    BY <1>1, <1>3, <2>1, RemoveAgrees DEF Live!DexExecute
  <2>5. r = IF o.shares > 0 /\ s.shares[n][o.user] >= o.shares /\ s.totalShares > 0
            THEN Removed(s, n, o.user, o.shares, p, q) ELSE s
    BY <2>2, <2>3, <2>4 DEF Live!RemoveTarget, Live!Accepted, Live!Refused, Removed
  <2>6. CASE o.shares > 0 /\ s.shares[n][o.user] >= o.shares /\ s.totalShares > 0
    <3>1. s.totalShares \in Nat \ {0} /\ o.shares \in Nat \ {0}
      BY <2>1, <2>6 DEF DexState
    <3>2. s.reserveA * o.shares \in Nat /\ s.reserveB * o.shares \in Nat
      BY <2>1 DEF DexState
    <3>3. p \in Nat /\ FairPart(s.reserveA, s.totalShares, o.shares, p)
      BY <2>2, <3>1, <3>2, DivFloor DEF FairPart
    <3>4. q \in Nat /\ FairPart(s.reserveB, s.totalShares, o.shares, q)
      BY <2>3, <3>1, <3>2, DivFloor DEF FairPart
    <3>5. o.shares <= s.shares[n][o.user]
      <4>1. o.user \in Users
        BY <1>3
      <4>2. s.shares[n][o.user] \in Nat
        BY <4>1 DEF DexState
      <4>3. QED
        BY <2>1, <2>6, <4>2
    <3>6. r = Removed(s, n, o.user, o.shares, p, q) /\ s.totalShares # 0
      BY <2>5, <2>6, <3>1
    <3>7. QED
      BY <1>1, <2>1, <3>1, <3>3, <3>4, <3>5, <3>6 DEF DexStep
  <2>7. QED
    BY <1>1, <2>5, <2>6 DEF DexStep
<1>4. CASE o \in [kind : {"SwapAForB"}, user : Users, amountIn : Nat]
  <2>1. o.kind = "SwapAForB" /\ o.amountIn \in Nat
    BY <1>4
  <2>2. PICK out : out = Live!AmountOut(s, o.amountIn)
    OBVIOUS
  <2>3. r = IF /\ o.amountIn # 0 /\ s.reserveA # 0 /\ s.reserveB # 0
               /\ out # 0 /\ out < s.reserveB
            THEN Swapped(s, o.amountIn, out) ELSE s
    BY <1>1, <2>1, <2>2 DEF Live!DexExecute, Live!SwapAForB, Live!Accepted, Live!Refused, Swapped
  <2>4. CASE /\ o.amountIn # 0 /\ s.reserveA # 0 /\ s.reserveB # 0
             /\ out # 0 /\ out < s.reserveB
    <3>1. o.amountIn * 997 * s.reserveB \in Nat
      BY <2>1 DEF DexState
    <3>2. s.reserveA * 1000 + o.amountIn * 997 \in Nat \ {0}
      BY <2>1, <2>4 DEF DexState
    <3>3. out \in Nat /\ FairSwap(s, o.amountIn, out)
      BY <2>2, <3>1, <3>2, DivFloor DEF Live!AmountOut, FairSwap
    <3>4. QED
      BY <1>1, <2>1, <2>3, <2>4, <3>3 DEF DexStep
  <2>5. QED
    BY <1>1, <2>3, <2>4 DEF DexStep
<1>5. CASE o.kind \in {"GetShares", "GetReserves", "TotalShares"}
  BY <1>5 DEF Live!DexExecute, Live!Read, Live!Accepted, DexStep
<1>6. QED
  BY <1>2, <1>3, <1>4, <1>5 DEF DexOp

\* The shares of a namespace, and the pool's own total: one that was not
\* reset has shares of earlier cases in it.
DexCovered(s, n) == SumFunction(s.shares[n]) <= s.totalShares
DexExact(s, n) == SumFunction(s.shares[n]) = s.totalShares

\* What of the shares an operation changes, and by how much the total.
SharesMoved(s, n, u, r, N, d) ==
  /\ r.shares \in [N -> [Users -> Nat]]
  /\ \A m \in N \ {n} : r.shares[m] = s.shares[m]
  /\ \A v \in Users \ {u} : r.shares[n][v] = s.shares[n][v]
  /\ SumFunction(r.shares[n]) - SumFunction(s.shares[n]) = d

LEMMA SharesMove ==
  ASSUME IsFiniteSet(Users), NEW N, NEW s, DexState(s, N), NEW n \in N, NEW u \in Users,
         NEW k \in Nat, NEW r, r.shares = [s.shares EXCEPT ![n][u] = k],
         NEW d, d = k - s.shares[n][u]
  PROVE  SharesMoved(s, n, u, r, N, d)
<1>1. s.shares \in [N -> [Users -> Nat]]
  BY DEF DexState
<1>2. /\ r.shares \in [N -> [Users -> Nat]] /\ r.shares[n][u] = k
      /\ \A m \in N \ {n} : r.shares[m] = s.shares[m]
      /\ \A v \in Users \ {u} : r.shares[n][v] = s.shares[n][v]
  BY <1>1
<1>3. s.shares[n] \in [Users -> Nat] /\ r.shares[n] \in [Users -> Nat]
  BY <1>1, <1>2
<1>4. SumFunction(r.shares[n]) = SumFunction(s.shares[n]) - s.shares[n][u] + r.shares[n][u]
  BY <1>2, <1>3, FunctionSumChange
<1>5. SumFunction(s.shares[n]) \in Nat /\ s.shares[n][u] \in Nat
  BY <1>3, FunctionSumIsNat
<1>6. SumFunction(r.shares[n]) - SumFunction(s.shares[n]) = d
  BY <1>2, <1>4, <1>5
<1>7. QED
  BY <1>2, <1>6 DEF SharesMoved

LEMMA DexEffects ==
  ASSUME IsFiniteSet(Users), NEW N, NEW s, DexState(s, N), NEW n \in N, NEW o, DexOp(o),
         NEW r, DexStep(s, n, o, r), DexCovered(s, n)
  PROVE  /\ DexState(r, N) /\ DexFrame(s, n, o, r, N) /\ DexCovered(r, n)
         /\ DexExact(s, n) => DexExact(r, n)
<1>. s.shares[n] \in [Users -> Nat]
  BY DEF DexState
<1>. SumFunction(s.shares[n]) \in Nat
  BY FunctionSumIsNat
<1>1. CASE r = s
  BY <1>1 DEF DexFrame
<1>2. ASSUME NEW a \in Nat \ {0}, NEW b \in Nat \ {0}, NEW m \in Nat \ {0},
             o.kind = "AddLiquidity", r = Added(s, n, o.user, a, b, m)
      PROVE  /\ DexState(r, N) /\ DexFrame(s, n, o, r, N) /\ DexCovered(r, n)
             /\ DexExact(s, n) => DexExact(r, n)
  <2>1. o.user \in Users
    BY <1>2 DEF DexOp
  <2>2. PICK k : k = s.shares[n][o.user] + m
    OBVIOUS
  <2>3. k \in Nat /\ m = k - s.shares[n][o.user]
    BY <2>1, <2>2
  <2>4. /\ DOMAIN r = {"reserveA", "reserveB", "totalShares", "shares"}
        /\ r.reserveA = s.reserveA + a /\ r.reserveB = s.reserveB + b
        /\ r.totalShares = s.totalShares + m /\ r.shares = [s.shares EXCEPT ![n][o.user] = k]
    BY <1>2, <2>2 DEF Added, DexState
  <2>5. SharesMoved(s, n, o.user, r, N, m)
    BY <2>1, <2>3, <2>4, SharesMove
  <2>6. DexState(r, N) /\ DexFrame(s, n, o, r, N)
    BY <1>2, <2>4, <2>5 DEF DexState, DexFrame, SharesMoved
  <2>7. SumFunction(r.shares[n]) \in Nat
    <3>1. r.shares[n] \in [Users -> Nat]
      BY <2>6 DEF DexState
    <3>2. QED
      BY <3>1, FunctionSumIsNat
  <2>8. DexCovered(r, n) /\ (DexExact(s, n) => DexExact(r, n))
    BY <2>4, <2>5, <2>7 DEF DexCovered, DexExact, SharesMoved, DexState
  <2>9. QED
    BY <2>6, <2>8
<1>3. ASSUME NEW k \in Nat \ {0}, NEW p \in Nat, NEW q \in Nat, o.kind = "RemoveLiquidity",
             k <= s.shares[n][o.user], s.totalShares # 0,
             FairPart(s.reserveA, s.totalShares, k, p), FairPart(s.reserveB, s.totalShares, k, q),
             r = Removed(s, n, o.user, k, p, q)
      PROVE  /\ DexState(r, N) /\ DexFrame(s, n, o, r, N) /\ DexCovered(r, n)
             /\ DexExact(s, n) => DexExact(r, n)
  <2>1. o.user \in Users
    BY <1>3 DEF DexOp
  <2>2. PICK left : left = s.shares[n][o.user] - k
    OBVIOUS
  <2>3. PICK d : d = left - s.shares[n][o.user]
    OBVIOUS
  <2>4. left \in Nat /\ d = 0 - k
    BY <1>3, <2>1, <2>2, <2>3
  <2>5. /\ DOMAIN r = {"reserveA", "reserveB", "totalShares", "shares"}
        /\ r.reserveA = s.reserveA - p /\ r.reserveB = s.reserveB - q
        /\ r.totalShares = s.totalShares - k /\ r.shares = [s.shares EXCEPT ![n][o.user] = left]
    BY <1>3, <2>2 DEF Removed, DexState
  <2>6. SharesMoved(s, n, o.user, r, N, d)
    BY <2>1, <2>3, <2>4, <2>5, SharesMove
  <2>7. s.reserveA \in Nat /\ s.reserveB \in Nat /\ s.totalShares \in Nat \ {0}
    BY <1>3 DEF DexState
  <2>8. k <= s.totalShares
    BY <2>1, <2>7, <1>3, FunctionSumBounds DEF DexCovered
  <2>9. ASSUME NEW x \in Nat, NEW y \in Nat, FairPart(x, s.totalShares, k, y)
        PROVE  y <= x
    <3>1. y * s.totalShares <= x * k
      BY <2>9 DEF FairPart
    <3>2. x * k <= x * s.totalShares
      <4>1. k * x <= s.totalShares * x
        BY <2>7, <2>8, TimesMonotone
      <4>2. k * x = x * k /\ s.totalShares * x = x * s.totalShares
        BY <2>7
      <4>3. QED
        BY <4>1, <4>2
    <3>3. y * s.totalShares < (x + 1) * s.totalShares
      <4>1. (x + 1) * s.totalShares = x * s.totalShares + s.totalShares
        BY <2>7
      <4>2. x * k \in Nat /\ x * s.totalShares \in Nat /\ y * s.totalShares \in Nat
        BY <2>7
      <4>3. QED
        BY <2>7, <3>1, <3>2, <4>1, <4>2
    <3>4. x + 1 \in Nat /\ s.totalShares \in Nat
      BY <2>7
    <3>5. y < x + 1
      BY <3>3, <3>4, TimesCancels
    <3>6. QED
      BY <3>5
  <2>10. p <= s.reserveA /\ q <= s.reserveB
    BY <1>3, <2>7, <2>9
  <2>11. r.reserveA \in Nat /\ r.reserveB \in Nat /\ r.totalShares \in Nat
    BY <2>5, <2>7, <2>8, <2>10
  <2>12. DexState(r, N) /\ DexFrame(s, n, o, r, N)
    BY <1>3, <2>5, <2>6, <2>11 DEF DexState, DexFrame, SharesMoved
  <2>13. SumFunction(r.shares[n]) \in Nat
    <3>1. r.shares[n] \in [Users -> Nat]
      BY <2>12 DEF DexState
    <3>2. QED
      BY <3>1, FunctionSumIsNat
  <2>14. DexCovered(r, n) /\ (DexExact(s, n) => DexExact(r, n))
    <3>1. SumFunction(r.shares[n]) - SumFunction(s.shares[n]) = 0 - k
      BY <2>4, <2>6 DEF SharesMoved
    <3>2. SumFunction(r.shares[n]) = SumFunction(s.shares[n]) - k
      BY <2>13, <3>1
    <3>3. QED
      BY <2>5, <2>7, <3>2 DEF DexCovered, DexExact
  <2>15. QED
    BY <2>12, <2>14
<1>4. ASSUME NEW i \in Nat \ {0}, NEW out \in Nat, o.kind = "SwapAForB", out < s.reserveB,
             r = Swapped(s, i, out)
      PROVE  /\ DexState(r, N) /\ DexFrame(s, n, o, r, N) /\ DexCovered(r, n)
             /\ DexExact(s, n) => DexExact(r, n)
  <2>1. /\ DOMAIN r = {"reserveA", "reserveB", "totalShares", "shares"}
        /\ r.reserveA = s.reserveA + i /\ r.reserveB = s.reserveB - out
        /\ r.totalShares = s.totalShares /\ r.shares = s.shares
    BY <1>4 DEF Swapped, DexState
  <2>2. QED
    BY <1>4, <2>1 DEF DexState, DexFrame, DexCovered, DexExact
<1>5. QED
  BY <1>1, <1>2, <1>3, <1>4 DEF DexStep

\* The books of the pool: shares add up, and an empty pool has none.
DexBooks(s, n) ==
  /\ SumFunction(s.shares[n]) = s.totalShares
  /\ (s.totalShares = 0) <=> (s.reserveA = 0)
  /\ (s.totalShares = 0) <=> (s.reserveB = 0)

\* A part of the reserve is all of it exactly when the shares are.
LEMMA PartOfReserve ==
  ASSUME NEW x \in Nat \ {0}, NEW t \in Nat \ {0}, NEW k \in Nat, k <= t,
         NEW y \in Nat, FairPart(x, t, k, y)
  PROVE  y <= x /\ (y = x <=> k = t)
<1>1. y * t <= x * k /\ x * k < (y + 1) * t
  BY DEF FairPart
<1>2. CASE k = t
  <2>1. x * t < (y + 1) * t
    BY <1>1, <1>2
  <2>2. x < y + 1
    BY <2>1, TimesCancels
  <2>3. y < x + 1
    <3>1. (x + 1) * t = x * t + t /\ x * t \in Nat /\ y * t \in Nat
      OBVIOUS
    <3>2. y * t < (x + 1) * t
      BY <1>1, <1>2, <3>1
    <3>3. QED
      BY <3>2, TimesCancels
  <2>4. QED
    BY <1>2, <2>2, <2>3
<1>3. CASE k < t
  <2>1. x * k < x * t
    <3>1. k + 1 <= t
      BY <1>3
    <3>2. (k + 1) * x <= t * x
      BY <3>1, TimesMonotone
    <3>3. (k + 1) * x = x * k + x /\ t * x = x * t /\ x * k \in Nat /\ x * t \in Nat
      OBVIOUS
    <3>4. QED
      BY <3>2, <3>3
  <2>2. y * t < x * t
    <3>1. y * t \in Nat /\ x * k \in Nat /\ x * t \in Nat
      OBVIOUS
    <3>2. QED
      BY <1>1, <2>1, <3>1
  <2>3. y < x
    BY <2>2, TimesCancels
  <2>4. QED
    BY <1>3, <2>3
<1>4. QED
  BY <1>2, <1>3

LEMMA DexKeepsBooks ==
  ASSUME IsFiniteSet(Users), NEW N, NEW s, DexState(s, N), NEW n \in N, NEW o, DexOp(o),
         NEW r, DexStep(s, n, o, r), DexBooks(s, n)
  PROVE  DexBooks(r, n)
<1>1. s.reserveA \in Nat /\ s.reserveB \in Nat /\ s.totalShares \in Nat
  BY DEF DexState
<1>2. DexCovered(s, n) /\ DexExact(s, n)
  BY <1>1 DEF DexBooks, DexCovered, DexExact
<1>3. DexExact(r, n) /\ DexState(r, N)
  BY <1>2, DexEffects
<1>4. CASE r = s
  BY <1>4
<1>5. ASSUME NEW a \in Nat \ {0}, NEW b \in Nat \ {0}, NEW m \in Nat \ {0},
             r = Added(s, n, o.user, a, b, m)
      PROVE  DexBooks(r, n)
  <2>1. /\ r.reserveA = s.reserveA + a /\ r.reserveB = s.reserveB + b
        /\ r.totalShares = s.totalShares + m
    BY <1>5 DEF Added, DexState
  <2>2. r.reserveA # 0 /\ r.reserveB # 0 /\ r.totalShares # 0
    BY <1>1, <2>1
  <2>3. QED
    BY <1>3, <2>2 DEF DexBooks, DexExact
<1>6. ASSUME NEW k \in Nat \ {0}, NEW p \in Nat, NEW q \in Nat, o.kind = "RemoveLiquidity",
             k <= s.shares[n][o.user], s.totalShares # 0,
             FairPart(s.reserveA, s.totalShares, k, p), FairPart(s.reserveB, s.totalShares, k, q),
             r = Removed(s, n, o.user, k, p, q)
      PROVE  DexBooks(r, n)
  <2>1. /\ r.reserveA = s.reserveA - p /\ r.reserveB = s.reserveB - q
        /\ r.totalShares = s.totalShares - k
    BY <1>6 DEF Removed, DexState
  <2>2. s.reserveA \in Nat \ {0} /\ s.reserveB \in Nat \ {0} /\ s.totalShares \in Nat \ {0}
    BY <1>1, <1>6 DEF DexBooks
  <2>3. k <= s.totalShares
    <3>1. o.user \in Users
      BY <1>6 DEF DexOp
    <3>2. s.shares[n] \in [Users -> Nat]
      BY DEF DexState
    <3>3. s.shares[n][o.user] <= s.totalShares
      BY <3>1, <3>2, FunctionSumBounds DEF DexBooks
    <3>4. QED
      BY <1>1, <1>6, <3>1, <3>2, <3>3
  <2>4. p <= s.reserveA /\ (p = s.reserveA <=> k = s.totalShares)
    BY <1>6, <2>2, <2>3, PartOfReserve
  <2>5. q <= s.reserveB /\ (q = s.reserveB <=> k = s.totalShares)
    BY <1>6, <2>2, <2>3, PartOfReserve
  <2>6. /\ (r.totalShares = 0) <=> (r.reserveA = 0)
        /\ (r.totalShares = 0) <=> (r.reserveB = 0)
    BY <2>1, <2>2, <2>3, <2>4, <2>5
  <2>7. QED
    BY <1>3, <2>6 DEF DexBooks, DexExact
<1>7. ASSUME NEW i \in Nat \ {0}, NEW out \in Nat, s.reserveA # 0, out < s.reserveB,
             r = Swapped(s, i, out)
      PROVE  DexBooks(r, n)
  <2>1. /\ r.reserveA = s.reserveA + i /\ r.reserveB = s.reserveB - out
        /\ r.totalShares = s.totalShares
    BY <1>7 DEF Swapped, DexState
  <2>2. r.reserveA # 0 /\ r.reserveB # 0 /\ r.totalShares # 0
    BY <1>1, <1>7, <2>1 DEF DexBooks
  <2>3. QED
    BY <1>3, <2>2 DEF DexBooks, DexExact
<1>8. QED
  BY <1>4, <1>5, <1>6, <1>7 DEF DexStep

\* No operation lowers what a share is worth.
LEMMA DexKeepsWorth ==
  ASSUME IsFiniteSet(Users), NEW N, NEW s, DexState(s, N), NEW n \in N, NEW o, DexOp(o),
         NEW r, DexStep(s, n, o, r), DexBooks(s, n)
  PROVE  Local!WorthKept(s, r)
<1>1. s.reserveA \in Nat /\ s.reserveB \in Nat /\ s.totalShares \in Nat
  BY DEF DexState
<1>2. r.reserveA \in Nat /\ r.reserveB \in Nat /\ r.totalShares \in Nat
  <2>1. DexCovered(s, n)
    BY <1>1 DEF DexBooks, DexCovered
  <2>2. DexState(r, N)
    BY <2>1, DexEffects
  <2>3. QED
    BY <2>2 DEF DexState
<1>3. SUFFICES ASSUME s.totalShares > 0, r.totalShares > 0
               PROVE  r.reserveA * r.reserveB * s.totalShares * s.totalShares
                        >= s.reserveA * s.reserveB * r.totalShares * r.totalShares
  BY DEF Local!WorthKept
<1>4. CASE /\ s.reserveA * r.totalShares <= r.reserveA * s.totalShares
           /\ s.reserveB * r.totalShares <= r.reserveB * s.totalShares
  BY <1>1, <1>2, <1>4, ProductsCompare
<1>5. CASE r = s
  <2>1. s.reserveA * s.reserveB * s.totalShares * s.totalShares \in Nat
    BY <1>1
  <2>2. QED
    BY <1>5, <2>1
<1>6. ASSUME NEW a \in Nat \ {0}, NEW b \in Nat \ {0}, NEW m \in Nat \ {0},
             FairMint(s, a, b, m), r = Added(s, n, o.user, a, b, m)
      PROVE  /\ s.reserveA * r.totalShares <= r.reserveA * s.totalShares
             /\ s.reserveB * r.totalShares <= r.reserveB * s.totalShares
  <2>1. /\ r.reserveA = s.reserveA + a /\ r.reserveB = s.reserveB + b
        /\ r.totalShares = s.totalShares + m
    BY <1>6 DEF Added, DexState
  <2>2. m * s.reserveA <= a * s.totalShares /\ m * s.reserveB <= b * s.totalShares
    BY <1>1, <1>3, <1>6 DEF FairMint
  <2>3. ASSUME NEW x \in Nat, NEW y \in Nat, m * x <= y * s.totalShares
        PROVE  x * (s.totalShares + m) <= (x + y) * s.totalShares
    <3>1. /\ x * (s.totalShares + m) = x * s.totalShares + m * x
          /\ (x + y) * s.totalShares = x * s.totalShares + y * s.totalShares
      BY <1>1
    <3>2. x * s.totalShares \in Nat /\ m * x \in Nat /\ y * s.totalShares \in Nat
      BY <1>1
    <3>3. QED
      BY <2>3, <3>1, <3>2
  <2>4. QED
    BY <1>1, <2>1, <2>2, <2>3
<1>7. ASSUME NEW k \in Nat \ {0}, NEW p \in Nat, NEW q \in Nat,
             FairPart(s.reserveA, s.totalShares, k, p), FairPart(s.reserveB, s.totalShares, k, q),
             r = Removed(s, n, o.user, k, p, q)
      PROVE  /\ s.reserveA * r.totalShares <= r.reserveA * s.totalShares
             /\ s.reserveB * r.totalShares <= r.reserveB * s.totalShares
  <2>1. /\ r.reserveA = s.reserveA - p /\ r.reserveB = s.reserveB - q
        /\ r.totalShares = s.totalShares - k
    BY <1>7 DEF Removed, DexState
  <2>2. ASSUME NEW x \in Nat, NEW y \in Nat, y * s.totalShares <= x * k
        PROVE  x * (s.totalShares - k) <= (x - y) * s.totalShares
    <3>1. /\ x * (s.totalShares - k) = x * s.totalShares - x * k
          /\ (x - y) * s.totalShares = x * s.totalShares - y * s.totalShares
      BY <1>1
    <3>2. x * s.totalShares \in Nat /\ x * k \in Nat /\ y * s.totalShares \in Nat
      BY <1>1
    <3>3. QED
      BY <2>2, <3>1, <3>2
  <2>3. p * s.totalShares <= s.reserveA * k /\ q * s.totalShares <= s.reserveB * k
    BY <1>7 DEF FairPart
  <2>4. QED
    BY <1>1, <2>1, <2>2, <2>3
<1>8. ASSUME NEW i \in Nat \ {0}, NEW out \in Nat, out < s.reserveB, FairSwap(s, i, out),
             r = Swapped(s, i, out)
      PROVE  r.reserveA * r.reserveB >= s.reserveA * s.reserveB /\ r.totalShares = s.totalShares
  <2>1. /\ r.reserveA = s.reserveA + i /\ r.reserveB = s.reserveB - out
        /\ r.totalShares = s.totalShares
    BY <1>8 DEF Swapped, DexState
  <2>2. PICK ai \in Nat : ai = out * s.reserveA
    BY <1>1
  <2>3. PICK oi \in Nat : oi = out * i
    BY <1>1
  <2>4. PICK bi \in Nat : bi = i * s.reserveB
    BY <1>1
  <2>5. ai * 1000 + oi * 997 <= bi * 997
    <3>1. out * (s.reserveA * 1000 + i * 997) <= i * 997 * s.reserveB
      BY <1>8 DEF FairSwap
    <3>2. /\ out * (s.reserveA * 1000 + i * 997) = ai * 1000 + oi * 997
          /\ i * 997 * s.reserveB = bi * 997
      BY <1>1, <2>2, <2>3, <2>4
    <3>3. QED
      BY <3>1, <3>2
  <2>6. oi <= bi
    <3>1. out * i <= s.reserveB * i
      BY <1>1, <1>8, TimesMonotone
    <3>2. s.reserveB * i = i * s.reserveB
      BY <1>1
    <3>3. QED
      BY <2>3, <2>4, <3>1, <3>2
  <2>7. ai + oi <= bi
    BY <2>5, <2>6
  <2>8. (s.reserveA + i) * (s.reserveB - out) = s.reserveA * s.reserveB + bi - ai - oi
    BY <1>1, <2>2, <2>3, <2>4
  <2>9. s.reserveA * s.reserveB \in Nat
    BY <1>1
  <2>10. QED
    BY <2>1, <2>7, <2>8, <2>9
<1>9. CASE r.reserveA * r.reserveB >= s.reserveA * s.reserveB /\ r.totalShares = s.totalShares
  <2>1. PICK x \in Nat : x = r.reserveA * r.reserveB
    BY <1>2
  <2>2. PICK y \in Nat : y = s.reserveA * s.reserveB
    BY <1>1
  <2>3. y * s.totalShares <= x * s.totalShares
    BY <1>1, <1>9, <2>1, <2>2, TimesMonotone
  <2>4. y * s.totalShares \in Nat /\ x * s.totalShares \in Nat
    BY <1>1
  <2>5. y * s.totalShares * s.totalShares <= x * s.totalShares * s.totalShares
    BY <1>1, <2>3, <2>4, TimesMonotone
  <2>6. y * s.totalShares * s.totalShares \in Nat /\ x * s.totalShares * s.totalShares \in Nat
    BY <1>1, <2>4
  <2>7. QED
    BY <1>9, <2>1, <2>2, <2>5, <2>6
<1>10. QED
  BY <1>4, <1>5, <1>6, <1>7, <1>8, <1>9 DEF DexStep

-----------------------------------------------------------------------------
(* The keys of a namespace.  K names keys as a case does: users, locks,    *)
(* pairs of users and auctions.                                            *)

\* No key of the namespace was written.
Fresh(c, s, n, L, A) ==
  /\ c \in Live!Travel => /\ s.accounts[n] = [u \in Users |-> 0]
                          /\ s.bookings[n] = [u \in Users |-> 0]
                          /\ s.locks[n] = [l \in L |-> 0]
  /\ c = "TokenTransfer" => /\ s.balances[n] = [u \in Users |-> 0]
                            /\ s.allowances[n] = [p \in Users \X Users |-> 0]
  /\ c = "AuctionLogic" => /\ s.auctions[n] = [i \in A |-> Live!NoAuction]
                           /\ s.pending[n] = [u \in Users |-> 0]
  /\ c = "DEXSwap" => s.shares[n] = [u \in Users |-> 0]

\* The two states have the same values under the keys of namespace n.
SameAt(c, s, r, n) ==
  /\ c \in Live!Travel => /\ s.accounts[n] = r.accounts[n] /\ s.bookings[n] = r.bookings[n]
                          /\ s.locks[n] = r.locks[n]
  /\ c = "TokenTransfer" => s.balances[n] = r.balances[n] /\ s.allowances[n] = r.allowances[n]
  /\ c = "AuctionLogic" => s.auctions[n] = r.auctions[n] /\ s.pending[n] = r.pending[n]
  /\ c = "DEXSwap" => s.shares[n] = r.shares[n]

\* The same under the keys that K does not name.
SameOff(c, s, r, n, K, L, A) ==
  /\ c \in Live!Travel =>
       /\ \A u \in Users \ K.users : /\ s.accounts[n][u] = r.accounts[n][u]
                                     /\ s.bookings[n][u] = r.bookings[n][u]
       /\ \A l \in L \ K.locks : s.locks[n][l] = r.locks[n][l]
  /\ c = "TokenTransfer" =>
       /\ \A u \in Users \ K.users : s.balances[n][u] = r.balances[n][u]
       /\ \A p \in (Users \X Users) \ K.pairs : s.allowances[n][p] = r.allowances[n][p]
  /\ c = "AuctionLogic" =>
       /\ \A i \in A \ K.ids : s.auctions[n][i] = r.auctions[n][i]
       /\ \A u \in Users \ K.users : s.pending[n][u] = r.pending[n][u]
  /\ c = "DEXSwap" => \A u \in Users \ K.users : s.shares[n][u] = r.shares[n][u]

\* K names every seller and bidder of the namespace.
Named(c, s, n, K, A) ==
  c = "AuctionLogic" =>
    \A i \in A : /\ s.auctions[n][i].seller \in K.users \cup {NoUser}
                 /\ s.auctions[n][i].highestBidder \in K.users \cup {NoUser}

Covered(c, s, n) == c = "DEXSwap" => DexCovered(s, n)

\* K names the keys that o names.
Names(K, c, o) ==
  LET t == Live!Touched(c, o)
  IN t.users \subseteq K.users /\ t.locks \subseteq K.locks /\ t.pairs \subseteq K.pairs
     /\ t.ids \subseteq K.ids

LEMMA NamesTravel ==
  ASSUME NEW c \in Live!Travel, NEW L, NEW o, TravelOp(o, L), NEW K, Names(K, c, o)
  PROVE  /\ o.kind = "BookLocal" => o.user \in K.users
         /\ o.kind \in {"LockState", "UnlockState"} => o.lockId \in K.locks
<1>1. /\ {o[f] : f \in {"user"} \cap DOMAIN o} \subseteq K.users
      /\ {o[f] : f \in {"lockId"} \cap DOMAIN o} \subseteq K.locks
  BY DEF Names, Live!Touched, Live!TouchedUsers, Live!NamesIn, Live!Travel
<1>2. /\ o.kind = "BookLocal" => "user" \in DOMAIN o
      /\ o.kind \in {"LockState", "UnlockState"} => "lockId" \in DOMAIN o
  BY DEF TravelOp
<1>3. QED
  BY <1>1, <1>2

LEMMA NamesToken ==
  ASSUME NEW o, TokenOp(o), NEW K, Names(K, "TokenTransfer", o)
  PROVE  /\ o.kind = "Mint" => o.to \in K.users
         /\ o.kind \in {"Transfer", "TransferFrom"} => o.from \in K.users /\ o.to \in K.users
         /\ o.kind = "Approve" => <<o.owner, o.spender>> \in K.pairs
         /\ o.kind = "TransferFrom" => <<o.from, o.spender>> \in K.pairs
<1>1. {o[f] : f \in {"user", "to", "from", "owner", "spender"} \cap DOMAIN o} \subseteq K.users
  BY DEF Names, Live!Touched, Live!TouchedUsers, Live!NamesIn, Live!Travel
<1>2. /\ o.kind = "Mint" => "to" \in DOMAIN o
      /\ o.kind \in {"Transfer", "TransferFrom"} => "from" \in DOMAIN o /\ "to" \in DOMAIN o
  BY DEF TokenOp
<1>3. Live!TouchedPairs(o) \subseteq K.pairs
  BY DEF Names, Live!Touched
<1>4. /\ o.kind = "Approve" => <<o.owner, o.spender>> \in K.pairs
      /\ o.kind = "TransferFrom" => <<o.from, o.spender>> \in K.pairs
  BY <1>3 DEF Live!TouchedPairs
<1>5. QED
  BY <1>1, <1>2, <1>4

LEMMA NamesAuction ==
  ASSUME NEW A, NEW o, AuctionOp(o, A), NEW K, Names(K, "AuctionLogic", o)
  PROVE  /\ o.kind \in {"CreateAuction", "Bid", "Close"} => o.id \in K.ids
         /\ o.kind = "CreateAuction" => o.seller \in K.users
         /\ o.kind = "Bid" => o.bidder \in K.users
         /\ o.kind = "Withdraw" => o.user \in K.users
<1>1. /\ {o[f] : f \in {"seller", "bidder", "user"} \cap DOMAIN o} \subseteq K.users
      /\ {o[f] : f \in {"id"} \cap DOMAIN o} \subseteq K.ids
  BY DEF Names, Live!Touched, Live!TouchedUsers, Live!NamesIn, Live!Travel
<1>2. /\ o.kind \in {"CreateAuction", "Bid", "Close"} => "id" \in DOMAIN o
      /\ o.kind = "CreateAuction" => "seller" \in DOMAIN o
      /\ o.kind = "Bid" => "bidder" \in DOMAIN o
      /\ o.kind = "Withdraw" => "user" \in DOMAIN o
  BY DEF AuctionOp
<1>3. QED
  BY <1>1, <1>2

LEMMA NamesDex ==
  ASSUME NEW o, DexOp(o), NEW K, Names(K, "DEXSwap", o)
  PROVE  o.kind \in {"AddLiquidity", "RemoveLiquidity"} => o.user \in K.users
<1>1. {o[f] : f \in {"user"} \cap DOMAIN o} \subseteq K.users
  BY DEF Names, Live!Touched, Live!TouchedUsers, Live!NamesIn, Live!Travel
<1>2. o.kind \in {"AddLiquidity", "RemoveLiquidity"} => "user" \in DOMAIN o
  BY DEF DexOp
<1>3. QED
  BY <1>1, <1>2

\* The sellers and bidders after an operation are those before and its own.
LEMMA PartiesNamed ==
  ASSUME NEW N, NEW A, NEW s, AuctionState(s, N, A), NEW n \in N, NEW o, AuctionOp(o, A),
         NEW r, AuctionStep(s, n, o, r), NEW K, Names(K, "AuctionLogic", o),
         Named("AuctionLogic", s, n, K, A)
  PROVE  Named("AuctionLogic", r, n, K, A)
<1>1. AuctionFrame(s, n, o, r, N, A)
  BY AuctionEffects
<1>2. SUFFICES ASSUME NEW i \in A, o.kind \in {"CreateAuction", "Bid", "Close"}, i = o.id,
                      r # s
               PROVE  /\ r.auctions[n][i].seller \in K.users \cup {NoUser}
                      /\ r.auctions[n][i].highestBidder \in K.users \cup {NoUser}
  <2>1. CASE r = s
    BY <2>1
  <2>2. CASE o.kind \notin {"CreateAuction", "Bid", "Close"}
    <3>1. \A i \in A : r.auctions[n][i] = s.auctions[n][i]
      BY <1>1, <2>2 DEF AuctionFrame
    <3>2. QED
      BY <3>1 DEF Named
  <2>3. CASE o.kind \in {"CreateAuction", "Bid", "Close"} /\ r # s
    <3>1. \A i \in A \ {o.id} : r.auctions[n][i] = s.auctions[n][i]
      BY <1>1, <2>3 DEF AuctionFrame
    <3>2. QED
      BY <1>2, <2>3, <3>1 DEF Named
  <2>4. QED
    BY <2>1, <2>2, <2>3
<1>3. /\ s.auctions[n][i].seller \in K.users \cup {NoUser}
      /\ s.auctions[n][i].highestBidder \in K.users \cup {NoUser}
  BY <1>2 DEF Named
<1>4. PICK x : x = s.auctions[n][o.id]
  OBVIOUS
<1>5. AuctionRecord(x)
  BY <1>2, <1>4 DEF AuctionState
<1>6. CASE o.kind = "CreateAuction"
  <2>1. o.seller \in K.users
    BY <1>6, NamesAuction
  <2>2. r = [s EXCEPT !.auctions[n][o.id] = Created(o)]
    BY <1>2, <1>6 DEF AuctionStep
  <2>3. r.auctions[n][o.id] = Created(o)
    <3>1. PICK d : d = Created(o)
      OBVIOUS
    <3>2. s.auctions[n] = [j \in A |-> s.auctions[n][j]] /\ DOMAIN s = {"auctions", "pending"}
          /\ DOMAIN s.auctions = N
      BY DEF AuctionState
    <3>3. o.id \in A
      BY <1>2
    <3>4. r = [s EXCEPT !.auctions[n][o.id] = d]
      BY <2>2, <3>1
    <3>5. QED
      BY <3>1, <3>2, <3>3, <3>4
  <2>4. QED
    BY <1>2, <2>1, <2>3 DEF Created
<1>7. CASE o.kind = "Bid"
  <2>1. o.bidder \in K.users
    BY <1>7, NamesAuction
  <2>2. x.exists /\ x.open /\ r = Settled(s, n, o.id, x.highestBidder, Outbid(x, o))
    BY <1>2, <1>4, <1>7 DEF AuctionStep
  <2>3. r.auctions[n][o.id].highestBidder = o.bidder /\ r.auctions[n][o.id].seller = x.seller
    <3>1. PICK b : b = Outbid(x, o)
      OBVIOUS
    <3>2. PICK payee : payee = x.highestBidder
      OBVIOUS
    <3>3. o.bidder \in Users /\ o.amount \in Nat
      BY <1>7 DEF AuctionOp
    <3>4. AuctionRecord(b) /\ b.highestBidder = o.bidder /\ b.seller = x.seller
      BY <1>5, <2>2, <3>1, <3>3 DEF Outbid, AuctionRecord, Party
    <3>5. s.auctions[n][o.id].highestBid > 0 => payee \in Users
      BY <1>4, <1>5, <3>2 DEF AuctionRecord
    <3>6. r = Settled(s, n, o.id, payee, b) /\ o.id \in A
      BY <1>2, <2>2, <3>1, <3>2
    <3>7. IsSettled(s, n, o.id, payee, b, r, N, A)
      BY <3>4, <3>5, <3>6, SettledEffects
    <3>8. QED
      BY <3>4, <3>7 DEF IsSettled
  <2>4. QED
    BY <1>2, <1>3, <1>4, <2>1, <2>3
<1>8. CASE o.kind = "Close"
  <2>1. x.exists /\ x.open /\ r = Settled(s, n, o.id, x.seller, Closed(x))
    BY <1>2, <1>4, <1>8 DEF AuctionStep
  <2>2. /\ r.auctions[n][o.id].highestBidder = x.highestBidder
        /\ r.auctions[n][o.id].seller = x.seller
    <3>1. PICK b : b = Closed(x)
      OBVIOUS
    <3>2. PICK payee : payee = x.seller
      OBVIOUS
    <3>3. AuctionRecord(b) /\ b.highestBidder = x.highestBidder /\ b.seller = x.seller
      BY <1>5, <3>1, ClosedFields
    <3>4. s.auctions[n][o.id].highestBid > 0 => payee \in Users
      BY <1>4, <1>5, <2>1, <3>2 DEF AuctionRecord
    <3>5. r = Settled(s, n, o.id, payee, b) /\ o.id \in A
      BY <1>2, <2>1, <3>1, <3>2
    <3>6. IsSettled(s, n, o.id, payee, b, r, N, A)
      BY <3>3, <3>4, <3>5, SettledEffects
    <3>7. QED
      BY <3>3, <3>6 DEF IsSettled
  <2>3. QED
    BY <1>2, <1>3, <1>4, <2>2
<1>9. QED
  BY <1>2, <1>6, <1>7, <1>8

\* An operation writes in its namespace alone, and there under keys that it
\* or an earlier operation named.
LEMMA OpTouches ==
  ASSUME NEW c \in Live!Contracts, NEW N, NEW L, NEW A, NEW s, State(c, s, N, L, A),
         NEW n \in N, Covered(c, s, n), NEW o, Op(c, o, L, A),
         NEW K, Names(K, c, o), Named(c, s, n, K, A),
         NEW r, r = Live!Original(c, s, n, o).state
  PROVE  /\ State(c, r, N, L, A) /\ Covered(c, r, n) /\ Named(c, r, n, K, A)
         /\ \A m \in N \ {n} : SameAt(c, s, r, m)
         /\ SameOff(c, s, r, n, K, L, A)
         /\ c \in Live!Travel => r.lockSize = s.lockSize
<1>. IsFiniteSet(Users) /\ NoUser \notin Users
  BY RQ2Assumption
<1>1. CASE c \in Live!Travel
  <2>1. TravelState(s, N, L) /\ TravelOp(o, L)
    BY <1>1 DEF State, Op
  <2>2. r = Live!TravelExecute(s, n, o).state
    BY <1>1 DEF Live!Original, Live!Travel
  <2>3. TravelStep(s, n, o, r)
    BY <2>1, <2>2, TravelSteps
  <2>4. TravelState(r, N, L) /\ TravelFrame(s, n, o, r, N, L)
    BY <2>1, <2>3, TravelEffects
  <2>5. /\ o.kind = "BookLocal" => o.user \in K.users
        /\ o.kind \in {"LockState", "UnlockState"} => o.lockId \in K.locks
    BY <1>1, <2>1, NamesTravel
  <2>6. SameOff(c, s, r, n, K, L, A)
    BY <1>1, <2>4, <2>5 DEF SameOff, TravelFrame, Live!Travel
  <2>7. \A m \in N \ {n} : SameAt(c, s, r, m)
    BY <1>1, <2>4 DEF SameAt, TravelFrame, Live!Travel
  <2>8. QED
    BY <1>1, <2>4, <2>6, <2>7 DEF State, Covered, Named, TravelFrame, Live!Travel
<1>2. CASE c = "TokenTransfer"
  <2>1. TokenState(s, N) /\ TokenOp(o)
    BY <1>2 DEF State, Op
  <2>2. r = Live!TokenExecute(s, n, o).state
    BY <1>2 DEF Live!Original, Live!Travel
  <2>3. TokenStep(s, n, o, r)
    BY <2>1, <2>2, TokenSteps
  <2>4. TokenState(r, N) /\ TokenFrame(s, n, o, r, N)
    BY <2>1, <2>3, TokenEffects
  <2>5. /\ o.kind = "Mint" => o.to \in K.users
        /\ o.kind \in {"Transfer", "TransferFrom"} => o.from \in K.users /\ o.to \in K.users
        /\ o.kind = "Approve" => <<o.owner, o.spender>> \in K.pairs
        /\ o.kind = "TransferFrom" => <<o.from, o.spender>> \in K.pairs
    BY <1>2, <2>1, NamesToken
  <2>6. SameOff(c, s, r, n, K, L, A)
    <3>1. \A u \in Users \ K.users : s.balances[n][u] = r.balances[n][u]
      BY <2>4, <2>5 DEF TokenFrame
    <3>2. \A p \in (Users \X Users) \ K.pairs : s.allowances[n][p] = r.allowances[n][p]
      <4>1. TAKE p \in (Users \X Users) \ K.pairs
      <4>2. /\ o.kind = "Approve" => p # <<o.owner, o.spender>>
            /\ o.kind = "TransferFrom" => p # <<o.from, o.spender>>
        BY <2>5
      <4>3. QED
        BY <2>4, <4>2 DEF TokenFrame
    <3>3. QED
      BY <1>2, <3>1, <3>2 DEF SameOff, Live!Travel
  <2>7. \A m \in N \ {n} : SameAt(c, s, r, m)
    BY <1>2, <2>4 DEF SameAt, TokenFrame, Live!Travel
  <2>8. QED
    BY <1>2, <2>4, <2>6, <2>7 DEF State, Covered, Named, Live!Travel
<1>3. CASE c = "AuctionLogic"
  <2>1. AuctionState(s, N, A) /\ AuctionOp(o, A) /\ Names(K, "AuctionLogic", o)
        /\ Named("AuctionLogic", s, n, K, A)
    BY <1>3 DEF State, Op
  <2>2. r = Live!AuctionExecute(s, n, o).state
    BY <1>3 DEF Live!Original, Live!Travel
  <2>3. AuctionStep(s, n, o, r)
    BY <2>1, <2>2, AuctionSteps
  <2>4. AuctionState(r, N, A) /\ AuctionFrame(s, n, o, r, N, A)
    BY <2>1, <2>3, AuctionEffects
  <2>5. /\ o.kind \in {"CreateAuction", "Bid", "Close"} => o.id \in K.ids
        /\ o.kind = "Withdraw" => o.user \in K.users
    BY <2>1, NamesAuction
  <2>6. Named("AuctionLogic", r, n, K, A)
    BY <2>1, <2>3, PartiesNamed
  <2>7. \A u \in Users \ K.users : u \notin Payees(s, n, o)
    <3>1. TAKE u \in Users \ K.users
    <3>2. CASE o.kind \in {"Bid", "Close"}
      <4>1. o.id \in A
        BY <2>1, <3>2 DEF AuctionOp
      <4>2. /\ s.auctions[n][o.id].seller \in K.users \cup {NoUser}
            /\ s.auctions[n][o.id].highestBidder \in K.users \cup {NoUser}
        BY <2>1, <4>1 DEF Named
      <4>3. QED
        BY <3>2, <4>2 DEF Payees
    <3>3. CASE o.kind \notin {"Bid", "Close"}
      BY <2>5, <3>3 DEF Payees
    <3>4. QED
      BY <3>2, <3>3
  <2>8. SameOff(c, s, r, n, K, L, A)
    <3>1. \A i \in A \ K.ids : s.auctions[n][i] = r.auctions[n][i]
      BY <2>4, <2>5 DEF AuctionFrame
    <3>2. \A u \in Users \ K.users : s.pending[n][u] = r.pending[n][u]
      BY <2>4, <2>7 DEF AuctionFrame
    <3>3. QED
      BY <1>3, <3>1, <3>2 DEF SameOff, Live!Travel
  <2>9. \A m \in N \ {n} : SameAt(c, s, r, m)
    BY <1>3, <2>4 DEF SameAt, AuctionFrame, Live!Travel
  <2>10. QED
    BY <1>3, <2>4, <2>6, <2>8, <2>9 DEF State, Covered, Live!Travel
<1>4. CASE c = "DEXSwap"
  <2>1. DexState(s, N) /\ DexOp(o) /\ DexCovered(s, n)
    BY <1>4 DEF State, Op, Covered
  <2>2. r = Live!DexExecute(s, n, o).state
    BY <1>4 DEF Live!Original, Live!Travel
  <2>3. DexStep(s, n, o, r)
    BY <2>1, <2>2, DexSteps
  <2>4. DexState(r, N) /\ DexFrame(s, n, o, r, N) /\ DexCovered(r, n)
    BY <2>1, <2>3, DexEffects
  <2>5. o.kind \in {"AddLiquidity", "RemoveLiquidity"} => o.user \in K.users
    BY <1>4, <2>1, NamesDex
  <2>6. SameOff(c, s, r, n, K, L, A)
    BY <1>4, <2>4, <2>5 DEF SameOff, DexFrame, Live!Travel
  <2>7. \A m \in N \ {n} : SameAt(c, s, r, m)
    BY <1>4, <2>4 DEF SameAt, DexFrame, Live!Travel
  <2>8. QED
    BY <1>4, <2>4, <2>6, <2>7 DEF State, Covered, Named, Live!Travel
<1>5. QED
  BY <1>1, <1>2, <1>3, <1>4 DEF Live!Contracts, Live!Travel
-----------------------------------------------------------------------------
(* Two states of a contract, key by key.                                   *)

LEMMA SameAtSymmetric ==
  ASSUME NEW c, NEW s, NEW r, NEW n, SameAt(c, s, r, n)
  PROVE  SameAt(c, r, s, n)
BY DEF SameAt

LEMMA SameAtJoins ==
  ASSUME NEW c, NEW s, NEW r, NEW q, NEW n, SameAt(c, s, r, n), SameAt(c, r, q, n)
  PROVE  SameAt(c, s, q, n)
BY DEF SameAt

LEMMA FreshAgree ==
  ASSUME NEW c, NEW s, NEW r, NEW n, NEW L, NEW A, Fresh(c, s, n, L, A), Fresh(c, r, n, L, A)
  PROVE  SameAt(c, s, r, n)
BY DEF Fresh, SameAt

LEMMA FreshStays ==
  ASSUME NEW c, NEW s, NEW r, NEW n, NEW L, NEW A, Fresh(c, s, n, L, A), SameAt(c, s, r, n)
  PROVE  Fresh(c, r, n, L, A)
BY DEF Fresh, SameAt

LEMMA FreshNames ==
  ASSUME NEW c, NEW s, NEW n, NEW L, NEW A, Fresh(c, s, n, L, A), NEW K
  PROVE  Named(c, s, n, K, A)
BY DEF Fresh, Named, Live!NoAuction

LEMMA FreshIsCovered ==
  ASSUME NEW c, NEW N, NEW L, NEW A, NEW s, State(c, s, N, L, A), NEW n \in N,
         Fresh(c, s, n, L, A)
  PROVE  Covered(c, s, n)
<1>1. SUFFICES ASSUME c = "DEXSwap" PROVE DexCovered(s, n)
  BY DEF Covered
<1>2. s.shares[n] = [u \in Users |-> 0] /\ s.totalShares \in Nat
  BY <1>1 DEF Fresh, State, DexState
<1>3. SumFunction([u \in Users |-> 0]) = 0
  BY FunctionSumOfZeros, RQ2Assumption
<1>4. QED
  BY <1>2, <1>3 DEF DexCovered

LEMMA SameAtOff ==
  ASSUME NEW c, NEW s, NEW r, NEW n, SameAt(c, s, r, n), NEW K, NEW L, NEW A
  PROVE  SameOff(c, s, r, n, K, L, A)
BY DEF SameAt, SameOff

LEMMA SameOffSymmetric ==
  ASSUME NEW c, NEW s, NEW r, NEW n, NEW K, NEW L, NEW A, SameOff(c, s, r, n, K, L, A)
  PROVE  SameOff(c, r, s, n, K, L, A)
BY DEF SameOff

LEMMA SameOffJoins ==
  ASSUME NEW c, NEW s, NEW r, NEW q, NEW n, NEW K, NEW L, NEW A,
         SameOff(c, s, r, n, K, L, A), SameOff(c, r, q, n, K, L, A)
  PROVE  SameOff(c, s, q, n, K, L, A)
BY DEF SameOff

\* K has at least the keys of J.
Contains(K, J) ==
  /\ J.users \subseteq K.users /\ J.locks \subseteq K.locks
  /\ J.pairs \subseteq K.pairs /\ J.ids \subseteq K.ids

LEMMA SameOffGrows ==
  ASSUME NEW c, NEW s, NEW r, NEW n, NEW J, NEW K, Contains(K, J), NEW L, NEW A,
         SameOff(c, s, r, n, J, L, A)
  PROVE  SameOff(c, s, r, n, K, L, A)
BY DEF SameOff, Contains

LEMMA NamedGrows ==
  ASSUME NEW c, NEW s, NEW n, NEW J, NEW K, Contains(K, J), NEW A, Named(c, s, n, J, A)
  PROVE  Named(c, s, n, K, A)
BY DEF Named, Contains

\* Once every key of the list was read and found the same, the states agree.
LEMMA SameThroughout ==
  ASSUME NEW c \in Live!Contracts, NEW N, NEW L, NEW A,
         NEW s, State(c, s, N, L, A), NEW r, State(c, r, N, L, A), NEW n \in N,
         NEW K, SameOff(c, s, r, n, K, L, A),
         c \in Live!Travel => /\ \A u \in Users \cap K.users : /\ s.accounts[n][u] = r.accounts[n][u]
                                                              /\ s.bookings[n][u] = r.bookings[n][u]
                              /\ \A l \in L \cap K.locks : s.locks[n][l] = r.locks[n][l],
         c = "TokenTransfer" =>
           /\ \A u \in Users \cap K.users : s.balances[n][u] = r.balances[n][u]
           /\ \A p \in (Users \X Users) \cap K.pairs : s.allowances[n][p] = r.allowances[n][p],
         c = "AuctionLogic" =>
           /\ \A i \in A \cap K.ids : s.auctions[n][i] = r.auctions[n][i]
           /\ \A u \in Users \cap K.users : s.pending[n][u] = r.pending[n][u],
         c = "DEXSwap" => \A u \in Users \cap K.users : s.shares[n][u] = r.shares[n][u]
  PROVE  SameAt(c, s, r, n)
<1>1. CASE c \in Live!Travel
  <2>1. /\ \A u \in Users : s.accounts[n][u] = r.accounts[n][u] /\ s.bookings[n][u] = r.bookings[n][u]
        /\ \A l \in L : s.locks[n][l] = r.locks[n][l]
    BY <1>1 DEF SameOff
  <2>2. /\ s.accounts[n] \in [Users -> Nat] /\ r.accounts[n] \in [Users -> Nat]
        /\ s.bookings[n] \in [Users -> Nat] /\ r.bookings[n] \in [Users -> Nat]
        /\ s.locks[n] \in [L -> Nat] /\ r.locks[n] \in [L -> Nat]
    BY <1>1 DEF State, TravelState
  <2>3. /\ s.accounts[n] = r.accounts[n] /\ s.bookings[n] = r.bookings[n]
        /\ s.locks[n] = r.locks[n]
    BY <2>1, <2>2
  <2>4. QED
    BY <1>1, <2>3 DEF SameAt, Live!Travel
<1>2. CASE c = "TokenTransfer"
  <2>1. /\ \A u \in Users : s.balances[n][u] = r.balances[n][u]
        /\ \A p \in Users \X Users : s.allowances[n][p] = r.allowances[n][p]
    BY <1>2 DEF SameOff
  <2>2. /\ s.balances[n] \in [Users -> Nat] /\ r.balances[n] \in [Users -> Nat]
        /\ s.allowances[n] \in [Users \X Users -> Nat]
        /\ r.allowances[n] \in [Users \X Users -> Nat]
    BY <1>2 DEF State, TokenState
  <2>3. s.balances[n] = r.balances[n] /\ s.allowances[n] = r.allowances[n]
    BY <2>1, <2>2
  <2>4. QED
    BY <1>2, <2>3 DEF SameAt, Live!Travel
<1>3. CASE c = "AuctionLogic"
  <2>1. /\ \A i \in A : s.auctions[n][i] = r.auctions[n][i]
        /\ \A u \in Users : s.pending[n][u] = r.pending[n][u]
    BY <1>3 DEF SameOff
  <2>2. /\ s.pending[n] \in [Users -> Nat] /\ r.pending[n] \in [Users -> Nat]
        /\ s.auctions[n] = [i \in A |-> s.auctions[n][i]]
        /\ r.auctions[n] = [i \in A |-> r.auctions[n][i]]
    BY <1>3 DEF State, AuctionState
  <2>3. s.auctions[n] = r.auctions[n] /\ s.pending[n] = r.pending[n]
    BY <2>1, <2>2
  <2>4. QED
    BY <1>3, <2>3 DEF SameAt, Live!Travel
<1>4. CASE c = "DEXSwap"
  <2>1. \A u \in Users : s.shares[n][u] = r.shares[n][u]
    BY <1>4 DEF SameOff
  <2>2. s.shares[n] \in [Users -> Nat] /\ r.shares[n] \in [Users -> Nat]
    BY <1>4 DEF State, DexState
  <2>3. s.shares[n] = r.shares[n]
    BY <2>1, <2>2
  <2>4. QED
    BY <1>4, <2>3 DEF SameAt, Live!Travel
<1>5. QED
  BY <1>1, <1>2, <1>3, <1>4 DEF Live!Contracts, Live!Travel
-----------------------------------------------------------------------------
(* Twins: two states that give the same answers to the operations of a     *)
(* namespace, and stay twins.                                              *)

Twins(c, s, r, n) ==
  /\ SameAt(c, s, r, n)
  /\ c \in Live!Travel => /\ s.price = r.price /\ s.remain = r.remain
                          /\ s.lockSize = r.lockSize /\ s.lockedTotal = r.lockedTotal
  /\ c = "TokenTransfer" => s.totalSupply = r.totalSupply
  /\ c = "DEXSwap" => /\ s.reserveA = r.reserveA /\ s.reserveB = r.reserveB
                      /\ s.totalShares = r.totalShares

\* Two answers that agree, and the states they leave.
TwinAnswers(c, a, b, n) == a.ok = b.ok /\ a.values = b.values /\ Twins(c, a.state, b.state, n)

LEMMA TravelTwins ==
  ASSUME NEW N, NEW L, NEW s, TravelState(s, N, L), NEW r, TravelState(r, N, L), NEW n \in N,
         NEW c \in Live!Travel, Twins(c, s, r, n), NEW o, TravelOp(o, L),
         NEW a, a = Live!TravelExecute(s, n, o), NEW b, b = Live!TravelExecute(r, n, o)
  PROVE  TwinAnswers(c, a, b, n)
<1>1. /\ s.price = r.price /\ s.remain = r.remain
      /\ s.lockSize = r.lockSize /\ s.lockedTotal = r.lockedTotal
      /\ s.accounts[n] = r.accounts[n] /\ s.bookings[n] = r.bookings[n]
      /\ s.locks[n] = r.locks[n]
  BY DEF Twins, SameAt
<1>2. Live!availableRemain(s) = Live!availableRemain(r)
  BY <1>1 DEF Live!availableRemain
<1>3. CASE a = Live!Refused(s) /\ b = Live!Refused(r)
  BY <1>3 DEF Live!Refused, TwinAnswers
<1>4. CASE o.kind = "BookLocal"
  <2>1. a = Live!BookLocal(s, n, o) /\ b = Live!BookLocal(r, n, o)
    BY <1>4 DEF Live!TravelExecute
  <2>2. PICK x : x = s.remain - o.amount
    OBVIOUS
  <2>3. PICK y : y = s.accounts[n][o.user] + s.price * o.amount
    OBVIOUS
  <2>4. PICK z : z = s.bookings[n][o.user] + o.amount
    OBVIOUS
  <2>5. PICK v : v = s.price * o.amount
    OBVIOUS
  <2>6. CASE o.amount # 0 /\ Live!availableRemain(s) >= o.amount
    <3>1. /\ a = Live!Accepted([s EXCEPT !.remain = x, !.accounts[n][o.user] = y,
                                         !.bookings[n][o.user] = z], <<v>>)
          /\ b = Live!Accepted([r EXCEPT !.remain = x, !.accounts[n][o.user] = y,
                                         !.bookings[n][o.user] = z], <<v>>)
      BY <1>1, <1>2, <2>1, <2>2, <2>3, <2>4, <2>5, <2>6 DEF Live!BookLocal
    <3>2. /\ a.ok = b.ok /\ a.values = b.values
          /\ a.state = [s EXCEPT !.remain = x, !.accounts[n][o.user] = y, !.bookings[n][o.user] = z]
          /\ b.state = [r EXCEPT !.remain = x, !.accounts[n][o.user] = y, !.bookings[n][o.user] = z]
      BY <3>1 DEF Live!Accepted
    <3>3. PICK p : p = [s.accounts[n] EXCEPT ![o.user] = y]
      OBVIOUS
    <3>4. PICK q : q = [s.bookings[n] EXCEPT ![o.user] = z]
      OBVIOUS
    <3>5. /\ a.state = [s EXCEPT !.remain = x, !.accounts[n] = p, !.bookings[n] = q]
          /\ b.state = [r EXCEPT !.remain = x, !.accounts[n] = p, !.bookings[n] = q]
      <4>1. a.state = [s EXCEPT !.remain = x, !.accounts[n] = p, !.bookings[n] = q]
        BY <3>2, <3>3, <3>4 DEF TravelState
      <4>2. p = [r.accounts[n] EXCEPT ![o.user] = y] /\ q = [r.bookings[n] EXCEPT ![o.user] = z]
        BY <1>1, <3>3, <3>4
      <4>3. b.state = [r EXCEPT !.remain = x, !.accounts[n] = p, !.bookings[n] = q]
        BY <3>2, <4>2 DEF TravelState
      <4>4. QED
        BY <4>1, <4>3
    <3>6. /\ a.state.price = s.price /\ a.state.remain = x /\ a.state.lockSize = s.lockSize
          /\ a.state.lockedTotal = s.lockedTotal /\ a.state.accounts[n] = p
          /\ a.state.bookings[n] = q /\ a.state.locks = s.locks
      BY <3>5 DEF TravelState
    <3>7. /\ b.state.price = r.price /\ b.state.remain = x /\ b.state.lockSize = r.lockSize
          /\ b.state.lockedTotal = r.lockedTotal /\ b.state.accounts[n] = p
          /\ b.state.bookings[n] = q /\ b.state.locks = r.locks
      BY <3>5 DEF TravelState
    <3>8. QED
      BY <1>1, <3>2, <3>6, <3>7 DEF TwinAnswers, Twins, SameAt, Live!Travel
  <2>7. CASE ~(o.amount # 0 /\ Live!availableRemain(s) >= o.amount)
    BY <1>2, <1>3, <2>1, <2>7 DEF Live!BookLocal
  <2>8. QED
    BY <2>6, <2>7
<1>5. CASE o.kind = "LockState"
  <2>1. a = Live!LockState(s, n, o) /\ b = Live!LockState(r, n, o)
    BY <1>5 DEF Live!TravelExecute
  <2>2. PICK w : w = (IF o.amount > 0 THEN o.amount ELSE s.lockSize) * s.price
    OBVIOUS
  <2>3. PICK x : x = s.lockedTotal + w
    OBVIOUS
  <2>4. CASE s.locks[n][o.lockId] = 0 /\ Live!availableRemain(s) >= o.amount
    <3>1. /\ a = Live!Accepted([s EXCEPT !.locks[n][o.lockId] = w, !.lockedTotal = x],
                               <<s.price, s.remain>>)
          /\ b = Live!Accepted([r EXCEPT !.locks[n][o.lockId] = w, !.lockedTotal = x],
                               <<s.price, s.remain>>)
      BY <1>1, <1>2, <2>1, <2>2, <2>3, <2>4 DEF Live!LockState
    <3>2. /\ a.ok = b.ok /\ a.values = b.values
          /\ a.state = [s EXCEPT !.locks[n][o.lockId] = w, !.lockedTotal = x]
          /\ b.state = [r EXCEPT !.locks[n][o.lockId] = w, !.lockedTotal = x]
      BY <3>1 DEF Live!Accepted
    <3>3. PICK p : p = [s.locks[n] EXCEPT ![o.lockId] = w]
      OBVIOUS
    <3>4. /\ a.state = [s EXCEPT !.locks[n] = p, !.lockedTotal = x]
          /\ b.state = [r EXCEPT !.locks[n] = p, !.lockedTotal = x]
      BY <1>1, <3>2, <3>3
    <3>5. /\ a.state.price = s.price /\ a.state.remain = s.remain
          /\ a.state.lockSize = s.lockSize /\ a.state.lockedTotal = x
          /\ a.state.accounts = s.accounts /\ a.state.bookings = s.bookings
          /\ a.state.locks[n] = p
      BY <3>4 DEF TravelState
    <3>6. /\ b.state.price = r.price /\ b.state.remain = r.remain
          /\ b.state.lockSize = r.lockSize /\ b.state.lockedTotal = x
          /\ b.state.accounts = r.accounts /\ b.state.bookings = r.bookings
          /\ b.state.locks[n] = p
      BY <3>4 DEF TravelState
    <3>7. QED
      BY <1>1, <3>2, <3>5, <3>6 DEF TwinAnswers, Twins, SameAt, Live!Travel
  <2>5. CASE ~(s.locks[n][o.lockId] = 0 /\ Live!availableRemain(s) >= o.amount)
    BY <1>1, <1>2, <1>3, <2>1, <2>5 DEF Live!LockState
  <2>6. QED
    BY <2>4, <2>5
<1>6. CASE o.kind = "UnlockState"
  <2>1. a = Live!UnlockState(s, n, o) /\ b = Live!UnlockState(r, n, o)
    BY <1>6 DEF Live!TravelExecute
  <2>2. PICK x : x = Live!Monus(s.lockedTotal, s.locks[n][o.lockId])
    OBVIOUS
  <2>3. CASE s.locks[n][o.lockId] # 0
    <3>1. /\ a = Live!Accepted([s EXCEPT !.lockedTotal = x, !.locks[n][o.lockId] = 0], <<>>)
          /\ b = Live!Accepted([r EXCEPT !.lockedTotal = x, !.locks[n][o.lockId] = 0], <<>>)
      BY <1>1, <2>1, <2>2, <2>3 DEF Live!UnlockState
    <3>2. /\ a.ok = b.ok /\ a.values = b.values
          /\ a.state = [s EXCEPT !.lockedTotal = x, !.locks[n][o.lockId] = 0]
          /\ b.state = [r EXCEPT !.lockedTotal = x, !.locks[n][o.lockId] = 0]
      BY <3>1 DEF Live!Accepted
    <3>3. PICK p : p = [s.locks[n] EXCEPT ![o.lockId] = 0]
      OBVIOUS
    <3>4. /\ a.state.price = s.price /\ a.state.remain = s.remain
          /\ a.state.lockSize = s.lockSize /\ a.state.lockedTotal = x
          /\ a.state.accounts = s.accounts /\ a.state.bookings = s.bookings
          /\ a.state.locks[n] = p
      BY <3>2, <3>3 DEF TravelState
    <3>5. /\ b.state.price = r.price /\ b.state.remain = r.remain
          /\ b.state.lockSize = r.lockSize /\ b.state.lockedTotal = x
          /\ b.state.accounts = r.accounts /\ b.state.bookings = r.bookings
          /\ b.state.locks[n] = p
      BY <1>1, <3>2, <3>3 DEF TravelState
    <3>6. QED
      BY <1>1, <3>2, <3>4, <3>5 DEF TwinAnswers, Twins, SameAt, Live!Travel
  <2>4. CASE s.locks[n][o.lockId] = 0
    BY <1>1, <1>3, <2>1, <2>4 DEF Live!UnlockState
  <2>5. QED
    BY <2>3, <2>4
<1>7. CASE o.kind \notin {"BookLocal", "LockState", "UnlockState"}
  <2>1. Live!TravelView(s, n, o) = Live!TravelView(r, n, o)
    BY <1>1, <1>2 DEF Live!TravelView
  <2>2. PICK v : v = Live!TravelView(s, n, o)
    OBVIOUS
  <2>3. a = Live!Accepted(s, v) /\ b = Live!Accepted(r, v)
    BY <1>7, <2>1, <2>2 DEF Live!TravelExecute, Live!Read
  <2>4. QED
    BY <2>3 DEF Live!Accepted, TwinAnswers
<1>8. QED
  BY <1>4, <1>5, <1>6, <1>7
\* The supply of a token, and its balances and allowances in a namespace.
TokenAt(s, n, supply, p, q) == s.totalSupply = supply /\ s.balances[n] = p /\ s.allowances[n] = q

LEMMA TokenTwins ==
  ASSUME NEW N, NEW s, TokenState(s, N), NEW r, TokenState(r, N), NEW n \in N,
         Twins("TokenTransfer", s, r, n), NEW o, TokenOp(o),
         NEW a, a = Live!TokenExecute(s, n, o), NEW b, b = Live!TokenExecute(r, n, o)
  PROVE  TwinAnswers("TokenTransfer", a, b, n)
<1>1. PICK p : p = s.balances[n]
  OBVIOUS
<1>2. PICK q : q = s.allowances[n]
  OBVIOUS
<1>3. TokenAt(s, n, s.totalSupply, p, q) /\ TokenAt(r, n, s.totalSupply, p, q)
  BY <1>1, <1>2 DEF Twins, SameAt, TokenAt
<1>4. ASSUME NEW x, NEW y, NEW z, TokenAt(a.state, n, x, y, z), TokenAt(b.state, n, x, y, z),
             a.ok = b.ok, a.values = b.values
      PROVE  TwinAnswers("TokenTransfer", a, b, n)
  BY <1>4 DEF TwinAnswers, Twins, SameAt, TokenAt, Live!Travel
<1>5. CASE a = Live!Refused(s) /\ b = Live!Refused(r)
  <2>1. a.ok = b.ok /\ a.values = b.values /\ a.state = s /\ b.state = r
    BY <1>5 DEF Live!Refused
  <2>2. TokenAt(a.state, n, s.totalSupply, p, q) /\ TokenAt(b.state, n, s.totalSupply, p, q)
    BY <1>3, <2>1
  <2>3. QED
    BY <1>4, <2>1, <2>2
<1>6. CASE o.kind = "Mint"
  <2>1. a = Live!Mint(s, n, o) /\ b = Live!Mint(r, n, o)
    BY <1>6 DEF Live!TokenExecute
  <2>2. PICK x : x = s.totalSupply + o.amount
    OBVIOUS
  <2>3. PICK y : y = [p EXCEPT ![o.to] = p[o.to] + o.amount]
    OBVIOUS
  <2>4. CASE o.amount # 0
    <3>1. /\ a = Live!Accepted([s EXCEPT !.balances[n] = y, !.totalSupply = x], <<>>)
          /\ b = Live!Accepted([r EXCEPT !.balances[n] = y, !.totalSupply = x], <<>>)
      <4>1. a = Live!Accepted([s EXCEPT !.balances[n] = y, !.totalSupply = x], <<>>)
        BY <1>1, <2>1, <2>2, <2>3, <2>4 DEF Live!Mint, TokenState
      <4>2. r.balances[n] = p /\ r.totalSupply = s.totalSupply
        BY <1>3 DEF TokenAt
      <4>3. b = Live!Accepted([r EXCEPT !.balances[n] = y, !.totalSupply = x], <<>>)
        BY <2>1, <2>2, <2>3, <2>4, <4>2 DEF Live!Mint, TokenState
      <4>4. QED
        BY <4>1, <4>3
    <3>2. /\ a.ok = b.ok /\ a.values = b.values
          /\ a.state = [s EXCEPT !.balances[n] = y, !.totalSupply = x]
          /\ b.state = [r EXCEPT !.balances[n] = y, !.totalSupply = x]
      BY <3>1 DEF Live!Accepted
    <3>3. TokenAt(a.state, n, x, y, q) /\ TokenAt(b.state, n, x, y, q)
      BY <1>3, <3>2 DEF TokenAt, TokenState
    <3>4. QED
      BY <1>4, <3>2, <3>3
  <2>5. CASE o.amount = 0
    BY <1>5, <2>1, <2>5 DEF Live!Mint
  <2>6. QED
    BY <2>4, <2>5
<1>. DEFINE y == [[p EXCEPT ![o.from] = @ - o.amount] EXCEPT ![o.to] = @ + o.amount]
<1>7. CASE o.kind = "Transfer"
  <2>1. a = Live!Transfer(s, n, o) /\ b = Live!Transfer(r, n, o)
    BY <1>7 DEF Live!TokenExecute
  <2>2. s.balances[n] = p /\ r.balances[n] = p
    BY <1>3 DEF TokenAt
  <2>3. CASE p[o.from] >= o.amount
    <3>1. /\ a = Live!Accepted([s EXCEPT !.balances[n] = y], <<>>)
          /\ b = Live!Accepted([r EXCEPT !.balances[n] = y], <<>>)
      BY <2>1, <2>2, <2>3 DEF Live!Transfer, Live!Move
    <3>2. PICK z : z = y
      OBVIOUS
    <3>3. /\ a.ok = b.ok /\ a.values = b.values
          /\ a.state = [s EXCEPT !.balances[n] = z] /\ b.state = [r EXCEPT !.balances[n] = z]
      BY <3>1, <3>2 DEF Live!Accepted
    <3>4. TokenAt(a.state, n, s.totalSupply, z, q) /\ TokenAt(b.state, n, s.totalSupply, z, q)
      BY <1>3, <3>3 DEF TokenAt, TokenState
    <3>5. QED
      BY <1>4, <3>3, <3>4
  <2>4. CASE ~(p[o.from] >= o.amount)
    BY <1>5, <2>1, <2>2, <2>4 DEF Live!Transfer
  <2>5. QED
    BY <2>3, <2>4
<1>8. CASE o.kind = "Approve"
  <2>1. a = Live!Approve(s, n, o) /\ b = Live!Approve(r, n, o)
    BY <1>8 DEF Live!TokenExecute
  <2>2. PICK key : key = <<o.owner, o.spender>>
    OBVIOUS
  <2>3. PICK z : z = [q EXCEPT ![key] = o.amount]
    OBVIOUS
  <2>4. s.allowances[n] = q /\ r.allowances[n] = q
    BY <1>3 DEF TokenAt
  <2>5. /\ a = Live!Accepted([s EXCEPT !.allowances[n] = z], <<>>)
        /\ b = Live!Accepted([r EXCEPT !.allowances[n] = z], <<>>)
    BY <2>1, <2>2, <2>3, <2>4 DEF Live!Approve
  <2>6. /\ a.ok = b.ok /\ a.values = b.values
        /\ a.state = [s EXCEPT !.allowances[n] = z] /\ b.state = [r EXCEPT !.allowances[n] = z]
    BY <2>5 DEF Live!Accepted
  <2>7. TokenAt(a.state, n, s.totalSupply, p, z) /\ TokenAt(b.state, n, s.totalSupply, p, z)
    BY <1>3, <2>6 DEF TokenAt, TokenState
  <2>8. QED
    BY <1>4, <2>6, <2>7
<1>9. CASE o.kind = "TransferFrom"
  <2>1. a = Live!TransferFrom(s, n, o) /\ b = Live!TransferFrom(r, n, o)
    BY <1>9 DEF Live!TokenExecute
  <2>2. PICK key : key = <<o.from, o.spender>>
    OBVIOUS
  <2>3. PICK z : z = [q EXCEPT ![key] = q[key] - o.amount]
    OBVIOUS
  <2>4. /\ s.balances[n] = p /\ r.balances[n] = p
        /\ s.allowances[n] = q /\ r.allowances[n] = q
    BY <1>3 DEF TokenAt
  <2>5. CASE q[key] >= o.amount /\ p[o.from] >= o.amount
    <3>1. PICK s1 : s1 = [s EXCEPT !.allowances[n] = z]
      OBVIOUS
    <3>2. PICK r1 : r1 = [r EXCEPT !.allowances[n] = z]
      OBVIOUS
    <3>3. /\ a = Live!Accepted(Live!Move(s1, n, o), <<>>)
          /\ b = Live!Accepted(Live!Move(r1, n, o), <<>>)
      BY <2>1, <2>2, <2>3, <2>4, <2>5, <3>1, <3>2 DEF Live!TransferFrom
    <3>4. /\ TokenAt(s1, n, s.totalSupply, p, z) /\ TokenAt(r1, n, s.totalSupply, p, z)
          /\ DOMAIN s1 = DOMAIN s /\ s1.balances = s.balances
          /\ DOMAIN r1 = DOMAIN r /\ r1.balances = r.balances
      BY <1>3, <3>1, <3>2 DEF TokenAt, TokenState
    <3>5. PICK w : w = y
      OBVIOUS
    <3>6. Live!Move(s1, n, o) = [s1 EXCEPT !.balances[n] = w]
          /\ Live!Move(r1, n, o) = [r1 EXCEPT !.balances[n] = w]
      BY <3>4, <3>5 DEF Live!Move, TokenAt
    <3>7. /\ a.ok = b.ok /\ a.values = b.values
          /\ a.state = [s1 EXCEPT !.balances[n] = w] /\ b.state = [r1 EXCEPT !.balances[n] = w]
      BY <3>3, <3>6 DEF Live!Accepted
    <3>8. TokenAt(a.state, n, s.totalSupply, w, z) /\ TokenAt(b.state, n, s.totalSupply, w, z)
      BY <3>4, <3>7 DEF TokenAt, TokenState
    <3>9. QED
      BY <1>4, <3>7, <3>8
  <2>6. CASE ~(q[key] >= o.amount /\ p[o.from] >= o.amount)
    BY <1>5, <2>1, <2>2, <2>4, <2>6 DEF Live!TransferFrom
  <2>7. QED
    BY <2>5, <2>6
<1>10. CASE o.kind \notin {"Mint", "Transfer", "Approve", "TransferFrom"}
  <2>1. Live!TokenView(s, n, o) = Live!TokenView(r, n, o)
    BY <1>3 DEF TokenAt, Live!TokenView
  <2>2. PICK v : v = Live!TokenView(s, n, o)
    OBVIOUS
  <2>3. a = Live!Accepted(s, v) /\ b = Live!Accepted(r, v)
    BY <1>10, <2>1, <2>2 DEF Live!TokenExecute, Live!Read
  <2>4. a.ok = b.ok /\ a.values = b.values /\ a.state = s /\ b.state = r
    BY <2>3 DEF Live!Accepted
  <2>5. TokenAt(a.state, n, s.totalSupply, p, q) /\ TokenAt(b.state, n, s.totalSupply, p, q)
    BY <1>3, <2>4
  <2>6. QED
    BY <1>4, <2>4, <2>5
<1>11. QED
  BY <1>6, <1>7, <1>8, <1>9, <1>10
\* The auctions and the pending returns of a namespace.
AuctionsAt(s, n, p, q) == s.auctions[n] = p /\ s.pending[n] = q

LEMMA AuctionTwins ==
  ASSUME NEW N, NEW A, NEW s, AuctionState(s, N, A), NEW r, AuctionState(r, N, A), NEW n \in N,
         Twins("AuctionLogic", s, r, n), NEW o, AuctionOp(o, A),
         NEW a, a = Live!AuctionExecute(s, n, o), NEW b, b = Live!AuctionExecute(r, n, o)
  PROVE  TwinAnswers("AuctionLogic", a, b, n)
<1>1. PICK p : p = s.auctions[n]
  OBVIOUS
<1>2. PICK q : q = s.pending[n]
  OBVIOUS
<1>3. AuctionsAt(s, n, p, q) /\ AuctionsAt(r, n, p, q)
  BY <1>1, <1>2 DEF Twins, SameAt, AuctionsAt
<1>4. ASSUME NEW y, NEW z, AuctionsAt(a.state, n, y, z), AuctionsAt(b.state, n, y, z),
             a.ok = b.ok, a.values = b.values
      PROVE  TwinAnswers("AuctionLogic", a, b, n)
  BY <1>4 DEF TwinAnswers, Twins, SameAt, AuctionsAt, Live!Travel
<1>5. ASSUME NEW v, NEW ok, a = [ok |-> ok, state |-> s, values |-> v],
             b = [ok |-> ok, state |-> r, values |-> v]
      PROVE  TwinAnswers("AuctionLogic", a, b, n)
  <2>1. a.ok = b.ok /\ a.values = b.values /\ a.state = s /\ b.state = r
    BY <1>5
  <2>2. AuctionsAt(a.state, n, p, q) /\ AuctionsAt(b.state, n, p, q)
    BY <1>3, <2>1
  <2>3. QED
    BY <1>4, <2>1, <2>2
<1>6. ASSUME NEW v, NEW y, NEW z,
             a = Live!Accepted([s EXCEPT !.pending[n] = z, !.auctions[n] = y], v),
             b = Live!Accepted([r EXCEPT !.pending[n] = z, !.auctions[n] = y], v)
      PROVE  TwinAnswers("AuctionLogic", a, b, n)
  <2>1. /\ a.ok = b.ok /\ a.values = b.values
        /\ a.state = [s EXCEPT !.pending[n] = z, !.auctions[n] = y]
        /\ b.state = [r EXCEPT !.pending[n] = z, !.auctions[n] = y]
    BY <1>6 DEF Live!Accepted
  <2>2. AuctionsAt(a.state, n, y, z) /\ AuctionsAt(b.state, n, y, z)
    BY <2>1 DEF AuctionsAt, AuctionState
  <2>3. QED
    BY <1>4, <2>1, <2>2
<1>7. a = Live!AuctionTarget(s, n, o) /\ b = Live!AuctionTarget(r, n, o)
  BY AuctionAgrees
<1>8. s.auctions[n] = p /\ r.auctions[n] = p /\ s.pending[n] = q /\ r.pending[n] = q
  BY <1>3 DEF AuctionsAt
<1>9. PICK x : x = p[o.id]
  OBVIOUS
<1>10. CASE o.kind = "CreateAuction"
  <2>1. a = Live!CreateTarget(s, n, o) /\ b = Live!CreateTarget(r, n, o)
    BY <1>7, <1>10 DEF Live!AuctionTarget
  <2>2. PICK d : d = Created(o)
    OBVIOUS
  <2>3. PICK y : y = [p EXCEPT ![o.id] = d]
    OBVIOUS
  <2>4. CASE ~x.exists /\ o.minPrice > 0
    <3>1. /\ a = Live!Accepted([s EXCEPT !.auctions[n] = y], <<>>)
          /\ b = Live!Accepted([r EXCEPT !.auctions[n] = y], <<>>)
      BY <1>8, <1>9, <2>1, <2>2, <2>3, <2>4 DEF Live!CreateTarget, Created
    <3>2. /\ a.ok = b.ok /\ a.values = b.values
          /\ a.state = [s EXCEPT !.auctions[n] = y] /\ b.state = [r EXCEPT !.auctions[n] = y]
      BY <3>1 DEF Live!Accepted
    <3>3. AuctionsAt(a.state, n, y, q) /\ AuctionsAt(b.state, n, y, q)
      BY <1>8, <3>2 DEF AuctionsAt, AuctionState
    <3>4. QED
      BY <1>4, <3>2, <3>3
  <2>5. CASE ~(~x.exists /\ o.minPrice > 0)
    BY <1>5, <1>8, <1>9, <2>1, <2>5 DEF Live!CreateTarget, Live!Refused
  <2>6. QED
    BY <2>4, <2>5
<1>11. CASE o.kind = "Bid"
  <2>1. a = Live!BidTarget(s, n, o) /\ b = Live!BidTarget(r, n, o)
    BY <1>7, <1>11 DEF Live!AuctionTarget
  <2>2. PICK z : z = Live!Owed(q, x, x.highestBidder)
    OBVIOUS
  <2>3. PICK d : d = Outbid(x, o)
    OBVIOUS
  <2>4. PICK y : y = [p EXCEPT ![o.id] = d]
    OBVIOUS
  <2>5. \/ /\ a = Live!Accepted([s EXCEPT !.pending[n] = z, !.auctions[n] = y], <<>>)
           /\ b = Live!Accepted([r EXCEPT !.pending[n] = z, !.auctions[n] = y], <<>>)
        \/ a = Live!Refused(s) /\ b = Live!Refused(r)
    <3>1. \/ /\ a = Live!Accepted([s EXCEPT !.pending[n] = z, !.auctions[n][o.id] = d], <<>>)
             /\ b = Live!Accepted([r EXCEPT !.pending[n] = z, !.auctions[n][o.id] = d], <<>>)
          \/ a = Live!Refused(s) /\ b = Live!Refused(r)
      BY <1>8, <1>9, <2>1, <2>2, <2>3 DEF Live!BidTarget, Outbid
    <3>2. /\ [s EXCEPT !.pending[n] = z, !.auctions[n][o.id] = d]
               = [s EXCEPT !.pending[n] = z, !.auctions[n] = y]
          /\ [r EXCEPT !.pending[n] = z, !.auctions[n][o.id] = d]
               = [r EXCEPT !.pending[n] = z, !.auctions[n] = y]
      BY <1>8, <2>4 DEF AuctionState
    <3>3. QED
      BY <3>1, <3>2
  <2>6. QED
    BY <1>5, <1>6, <2>5 DEF Live!Refused
<1>12. CASE o.kind = "Close"
  <2>1. a = Live!CloseTarget(s, n, o) /\ b = Live!CloseTarget(r, n, o)
    BY <1>7, <1>12 DEF Live!AuctionTarget
  <2>2. PICK z : z = Live!Owed(q, x, x.seller)
    OBVIOUS
  <2>3. PICK d : d = Closed(x)
    OBVIOUS
  <2>4. PICK y : y = [p EXCEPT ![o.id] = d]
    OBVIOUS
  <2>5. \/ /\ a = Live!Accepted([s EXCEPT !.pending[n] = z, !.auctions[n] = y], <<>>)
           /\ b = Live!Accepted([r EXCEPT !.pending[n] = z, !.auctions[n] = y], <<>>)
        \/ a = Live!Refused(s) /\ b = Live!Refused(r)
    <3>1. \/ /\ a = Live!Accepted([s EXCEPT !.pending[n] = z, !.auctions[n][o.id] = d], <<>>)
             /\ b = Live!Accepted([r EXCEPT !.pending[n] = z, !.auctions[n][o.id] = d], <<>>)
          \/ a = Live!Refused(s) /\ b = Live!Refused(r)
      BY <1>8, <1>9, <2>1, <2>2, <2>3 DEF Live!CloseTarget, Closed
    <3>2. /\ [s EXCEPT !.pending[n] = z, !.auctions[n][o.id] = d]
               = [s EXCEPT !.pending[n] = z, !.auctions[n] = y]
          /\ [r EXCEPT !.pending[n] = z, !.auctions[n][o.id] = d]
               = [r EXCEPT !.pending[n] = z, !.auctions[n] = y]
      BY <1>8, <2>4 DEF AuctionState
    <3>3. QED
      BY <3>1, <3>2
  <2>6. QED
    BY <1>5, <1>6, <2>5 DEF Live!Refused
<1>13. CASE o.kind = "Withdraw"
  <2>1. a = Live!Withdraw(s, n, o) /\ b = Live!Withdraw(r, n, o)
    BY <1>13 DEF Live!AuctionExecute
  <2>2. PICK z : z = [q EXCEPT ![o.user] = 0]
    OBVIOUS
  <2>3. PICK v : v = <<q[o.user]>>
    OBVIOUS
  <2>4. /\ a = Live!Accepted([s EXCEPT !.pending[n] = z], v)
        /\ b = Live!Accepted([r EXCEPT !.pending[n] = z], v)
    BY <1>8, <2>1, <2>2, <2>3 DEF Live!Withdraw
  <2>5. /\ a.ok = b.ok /\ a.values = b.values
        /\ a.state = [s EXCEPT !.pending[n] = z] /\ b.state = [r EXCEPT !.pending[n] = z]
    BY <2>4 DEF Live!Accepted
  <2>6. AuctionsAt(a.state, n, p, z) /\ AuctionsAt(b.state, n, p, z)
    BY <1>8, <2>5 DEF AuctionsAt, AuctionState
  <2>7. QED
    BY <1>4, <2>5, <2>6
<1>14. CASE o.kind \in {"GetAuction", "PendingReturn"}
  <2>1. Live!AuctionView(s, n, o) = Live!AuctionView(r, n, o)
    BY <1>8 DEF Live!AuctionView
  <2>2. PICK v : v = Live!AuctionView(s, n, o)
    OBVIOUS
  <2>3. a = Live!Accepted(s, v) /\ b = Live!Accepted(r, v)
    BY <1>14, <2>1, <2>2 DEF Live!AuctionExecute, Live!Read
  <2>4. QED
    BY <1>5, <2>3 DEF Live!Accepted
<1>15. QED
  BY <1>10, <1>11, <1>12, <1>13, <1>14 DEF AuctionOp
\* The pool, and the shares of a namespace.
PoolAt(s, n, ra, rb, t, p) ==
  s.reserveA = ra /\ s.reserveB = rb /\ s.totalShares = t /\ s.shares[n] = p

LEMMA DexTwins ==
  ASSUME NEW N, NEW s, DexState(s, N), NEW r, DexState(r, N), NEW n \in N,
         Twins("DEXSwap", s, r, n), NEW o, DexOp(o),
         NEW a, a = Live!DexExecute(s, n, o), NEW b, b = Live!DexExecute(r, n, o)
  PROVE  TwinAnswers("DEXSwap", a, b, n)
<1>1. PICK ra : ra = s.reserveA
  OBVIOUS
<1>2. PICK rb : rb = s.reserveB
  OBVIOUS
<1>3. PICK t : t = s.totalShares
  OBVIOUS
<1>4. PICK p : p = s.shares[n]
  OBVIOUS
<1>5. PoolAt(s, n, ra, rb, t, p) /\ PoolAt(r, n, ra, rb, t, p)
  BY <1>1, <1>2, <1>3, <1>4 DEF Twins, SameAt, PoolAt
<1>6. ASSUME NEW w, NEW x, NEW y, NEW z,
             PoolAt(a.state, n, w, x, y, z), PoolAt(b.state, n, w, x, y, z),
             a.ok = b.ok, a.values = b.values
      PROVE  TwinAnswers("DEXSwap", a, b, n)
  BY <1>6 DEF TwinAnswers, Twins, SameAt, PoolAt, Live!Travel
<1>7. ASSUME NEW v, NEW ok, a = [ok |-> ok, state |-> s, values |-> v],
             b = [ok |-> ok, state |-> r, values |-> v]
      PROVE  TwinAnswers("DEXSwap", a, b, n)
  <2>1. a.ok = b.ok /\ a.values = b.values /\ a.state = s /\ b.state = r
    BY <1>7
  <2>2. PoolAt(a.state, n, ra, rb, t, p) /\ PoolAt(b.state, n, ra, rb, t, p)
    BY <1>5, <2>1
  <2>3. QED
    BY <1>6, <2>1, <2>2
<1>8. ASSUME NEW v, NEW w, NEW x, NEW y, NEW z,
             a = Live!Accepted([s EXCEPT !.reserveA = w, !.reserveB = x, !.totalShares = y,
                                         !.shares[n] = z], v),
             b = Live!Accepted([r EXCEPT !.reserveA = w, !.reserveB = x, !.totalShares = y,
                                         !.shares[n] = z], v)
      PROVE  TwinAnswers("DEXSwap", a, b, n)
  <2>1. /\ a.ok = b.ok /\ a.values = b.values
        /\ a.state = [s EXCEPT !.reserveA = w, !.reserveB = x, !.totalShares = y, !.shares[n] = z]
        /\ b.state = [r EXCEPT !.reserveA = w, !.reserveB = x, !.totalShares = y, !.shares[n] = z]
    BY <1>8 DEF Live!Accepted
  <2>2. PoolAt(a.state, n, w, x, y, z) /\ PoolAt(b.state, n, w, x, y, z)
    BY <2>1 DEF PoolAt, DexState
  <2>3. QED
    BY <1>6, <2>1, <2>2
<1>9. /\ s.reserveA = ra /\ s.reserveB = rb /\ s.totalShares = t /\ s.shares[n] = p
      /\ r.reserveA = ra /\ r.reserveB = rb /\ r.totalShares = t /\ r.shares[n] = p
  BY <1>5 DEF PoolAt
<1>10. CASE o.kind = "AddLiquidity"
  <2>1. a = Live!AddLiquidity(s, n, o) /\ b = Live!AddLiquidity(r, n, o)
    BY <1>10 DEF Live!DexExecute
  <2>2. PICK m : m = Live!SharesFor(s, o.amountA, o.amountB)
    OBVIOUS
  <2>3. m = Live!SharesFor(r, o.amountA, o.amountB) /\ (Live!Divides(s) <=> Live!Divides(r))
    BY <1>9, <2>2 DEF Live!SharesFor, Live!Divides
  <2>4. PICK w : w = ra + o.amountA
    OBVIOUS
  <2>5. PICK x : x = rb + o.amountB
    OBVIOUS
  <2>6. PICK y : y = t + m
    OBVIOUS
  <2>7. PICK k : k = p[o.user] + m
    OBVIOUS
  <2>8. PICK z : z = [p EXCEPT ![o.user] = k]
    OBVIOUS
  <2>9. CASE o.amountA # 0 /\ o.amountB # 0 /\ Live!Divides(s) /\ m # 0
    <3>1. a = Live!Accepted([s EXCEPT !.reserveA = w, !.reserveB = x, !.totalShares = y,
                                      !.shares[n][o.user] = k], <<m>>)
      BY <1>9, <2>1, <2>2, <2>4, <2>5, <2>6, <2>7, <2>9 DEF Live!AddLiquidity, DexState
    <3>2. b = Live!Accepted([r EXCEPT !.reserveA = w, !.reserveB = x, !.totalShares = y,
                                      !.shares[n][o.user] = k], <<m>>)
      BY <1>9, <2>1, <2>3, <2>4, <2>5, <2>6, <2>7, <2>9 DEF Live!AddLiquidity, DexState
    <3>3. /\ [s EXCEPT !.reserveA = w, !.reserveB = x, !.totalShares = y, !.shares[n][o.user] = k]
               = [s EXCEPT !.reserveA = w, !.reserveB = x, !.totalShares = y, !.shares[n] = z]
          /\ [r EXCEPT !.reserveA = w, !.reserveB = x, !.totalShares = y, !.shares[n][o.user] = k]
               = [r EXCEPT !.reserveA = w, !.reserveB = x, !.totalShares = y, !.shares[n] = z]
      BY <1>9, <2>8 DEF DexState
    <3>4. PICK v : v = <<m>>
      OBVIOUS
    <3>5. a = Live!Accepted([s EXCEPT !.reserveA = w, !.reserveB = x, !.totalShares = y,
                                      !.shares[n] = z], v)
      BY <3>1, <3>3, <3>4
    <3>6. b = Live!Accepted([r EXCEPT !.reserveA = w, !.reserveB = x, !.totalShares = y,
                                      !.shares[n] = z], v)
      BY <3>2, <3>3, <3>4
    <3>7. QED
      BY <1>8, <3>5, <3>6
  <2>10. CASE ~(o.amountA # 0 /\ o.amountB # 0 /\ Live!Divides(s) /\ m # 0)
    BY <1>7, <2>1, <2>2, <2>3, <2>10 DEF Live!AddLiquidity, Live!Refused
  <2>11. QED
    BY <2>9, <2>10
<1>11. CASE o.kind = "RemoveLiquidity"
  <2>1. a = Live!RemoveLiquidity(s, n, o) /\ b = Live!RemoveLiquidity(r, n, o)
    BY <1>11 DEF Live!DexExecute
  <2>2. PICK pa : pa = (ra * o.shares) \div t
    OBVIOUS
  <2>3. PICK pb : pb = (rb * o.shares) \div t
    OBVIOUS
  <2>4. PICK w : w = ra - pa
    OBVIOUS
  <2>5. PICK x : x = rb - pb
    OBVIOUS
  <2>6. PICK y : y = t - o.shares
    OBVIOUS
  <2>7. PICK k : k = p[o.user] - o.shares
    OBVIOUS
  <2>8. PICK z : z = [p EXCEPT ![o.user] = k]
    OBVIOUS
  <2>9. PICK v : v = <<pa, pb>>
    OBVIOUS
  <2>10. CASE o.shares # 0 /\ p[o.user] >= o.shares /\ t # 0
    <3>1. a = Live!Accepted([s EXCEPT !.shares[n][o.user] = k, !.totalShares = y,
                                      !.reserveA = w, !.reserveB = x], v)
      BY <1>9, <2>1, <2>2, <2>3, <2>4, <2>5, <2>6, <2>7, <2>9, <2>10
         DEF Live!RemoveLiquidity, DexState
    <3>2. b = Live!Accepted([r EXCEPT !.shares[n][o.user] = k, !.totalShares = y,
                                      !.reserveA = w, !.reserveB = x], v)
      BY <1>9, <2>1, <2>2, <2>3, <2>4, <2>5, <2>6, <2>7, <2>9, <2>10
         DEF Live!RemoveLiquidity, DexState
    <3>3. /\ [s EXCEPT !.shares[n][o.user] = k, !.totalShares = y, !.reserveA = w, !.reserveB = x]
               = [s EXCEPT !.reserveA = w, !.reserveB = x, !.totalShares = y, !.shares[n] = z]
          /\ [r EXCEPT !.shares[n][o.user] = k, !.totalShares = y, !.reserveA = w, !.reserveB = x]
               = [r EXCEPT !.reserveA = w, !.reserveB = x, !.totalShares = y, !.shares[n] = z]
      BY <1>9, <2>8 DEF DexState
    <3>4. a = Live!Accepted([s EXCEPT !.reserveA = w, !.reserveB = x, !.totalShares = y,
                                      !.shares[n] = z], v)
      BY <3>1, <3>3
    <3>5. b = Live!Accepted([r EXCEPT !.reserveA = w, !.reserveB = x, !.totalShares = y,
                                      !.shares[n] = z], v)
      BY <3>2, <3>3
    <3>6. QED
      BY <1>8, <3>4, <3>5
  <2>11. CASE ~(o.shares # 0 /\ p[o.user] >= o.shares /\ t # 0)
    BY <1>7, <1>9, <2>1, <2>11 DEF Live!RemoveLiquidity, Live!Refused
  <2>12. QED
    BY <2>10, <2>11
<1>12. CASE o.kind = "SwapAForB"
  <2>1. a = Live!SwapAForB(s, n, o) /\ b = Live!SwapAForB(r, n, o)
    BY <1>12 DEF Live!DexExecute
  <2>2. PICK m : m = Live!AmountOut(s, o.amountIn)
    OBVIOUS
  <2>3. m = Live!AmountOut(r, o.amountIn)
    BY <1>9, <2>2 DEF Live!AmountOut
  <2>4. PICK w : w = ra + o.amountIn
    OBVIOUS
  <2>5. PICK x : x = rb - m
    OBVIOUS
  <2>6. CASE o.amountIn # 0 /\ ra # 0 /\ rb # 0 /\ m # 0 /\ m < rb
    <3>1. a = Live!Accepted([s EXCEPT !.reserveA = w, !.reserveB = x], <<m>>)
      BY <1>9, <2>1, <2>2, <2>4, <2>5, <2>6 DEF Live!SwapAForB, DexState
    <3>2. b = Live!Accepted([r EXCEPT !.reserveA = w, !.reserveB = x], <<m>>)
      BY <1>9, <2>1, <2>3, <2>4, <2>5, <2>6 DEF Live!SwapAForB, DexState
    <3>3. /\ a.ok = b.ok /\ a.values = b.values
          /\ a.state = [s EXCEPT !.reserveA = w, !.reserveB = x]
          /\ b.state = [r EXCEPT !.reserveA = w, !.reserveB = x]
      BY <3>1, <3>2 DEF Live!Accepted
    <3>4. PoolAt(a.state, n, w, x, t, p) /\ PoolAt(b.state, n, w, x, t, p)
      BY <1>9, <3>3 DEF PoolAt, DexState
    <3>5. QED
      BY <1>6, <3>3, <3>4
  <2>7. CASE ~(o.amountIn # 0 /\ ra # 0 /\ rb # 0 /\ m # 0 /\ m < rb)
    BY <1>7, <1>9, <2>1, <2>2, <2>3, <2>7 DEF Live!SwapAForB, Live!Refused
  <2>8. QED
    BY <2>6, <2>7
<1>13. CASE o.kind \notin {"AddLiquidity", "RemoveLiquidity", "SwapAForB"}
  <2>1. Live!DexView(s, n, o) = Live!DexView(r, n, o)
    BY <1>9 DEF Live!DexView
  <2>2. PICK v : v = Live!DexView(s, n, o)
    OBVIOUS
  <2>3. a = Live!Accepted(s, v) /\ b = Live!Accepted(r, v)
    BY <1>13, <2>1, <2>2 DEF Live!DexExecute, Live!Read
  <2>4. QED
    BY <1>7, <2>3 DEF Live!Accepted
<1>14. QED
  BY <1>10, <1>11, <1>12, <1>13

\* Twins answer every operation alike and stay twins.
LEMMA TwinsAnswerAlike ==
  ASSUME NEW c \in Live!Contracts, NEW N, NEW L, NEW A, NEW s, State(c, s, N, L, A),
         NEW r, State(c, r, N, L, A), NEW n \in N, Twins(c, s, r, n), NEW o, Op(c, o, L, A)
  PROVE  TwinAnswers(c, Live!Original(c, s, n, o), Live!Original(c, r, n, o), n)
<1>1. PICK a : a = Live!Original(c, s, n, o)
  OBVIOUS
<1>2. PICK b : b = Live!Original(c, r, n, o)
  OBVIOUS
<1>3. CASE c \in Live!Travel
  <2>1. TravelState(s, N, L) /\ TravelState(r, N, L) /\ TravelOp(o, L)
    BY <1>3 DEF State, Op
  <2>2. a = Live!TravelExecute(s, n, o) /\ b = Live!TravelExecute(r, n, o)
    BY <1>1, <1>2, <1>3 DEF Live!Original, Live!Travel
  <2>3. TwinAnswers(c, a, b, n)
    BY <1>3, <2>1, <2>2, TravelTwins
  <2>4. QED
    BY <1>1, <1>2, <2>3
<1>4. CASE c = "TokenTransfer"
  <2>1. TokenState(s, N) /\ TokenState(r, N) /\ TokenOp(o)
    BY <1>4 DEF State, Op
  <2>2. a = Live!TokenExecute(s, n, o) /\ b = Live!TokenExecute(r, n, o)
    BY <1>1, <1>2, <1>4 DEF Live!Original, Live!Travel
  <2>3. QED
    BY <1>1, <1>2, <1>4, <2>1, <2>2, TokenTwins
<1>5. CASE c = "AuctionLogic"
  <2>1. AuctionState(s, N, A) /\ AuctionState(r, N, A) /\ AuctionOp(o, A)
    BY <1>5 DEF State, Op
  <2>2. a = Live!AuctionExecute(s, n, o) /\ b = Live!AuctionExecute(r, n, o)
    BY <1>1, <1>2, <1>5 DEF Live!Original, Live!Travel
  <2>3. QED
    BY <1>1, <1>2, <1>5, <2>1, <2>2, AuctionTwins
<1>6. CASE c = "DEXSwap"
  <2>1. DexState(s, N) /\ DexState(r, N) /\ DexOp(o)
    BY <1>6 DEF State, Op
  <2>2. a = Live!DexExecute(s, n, o) /\ b = Live!DexExecute(r, n, o)
    BY <1>1, <1>2, <1>6 DEF Live!Original, Live!Travel
  <2>3. QED
    BY <1>1, <1>2, <1>6, <2>1, <2>2, DexTwins
<1>7. QED
  BY <1>3, <1>4, <1>5, <1>6 DEF Live!Contracts, Live!Travel

=============================================================================
