------------------------------ MODULE RQ2Cases ------------------------------
(***************************************************************************)
(* What the two RQ2 runners share: the operations that generate-cases.ts   *)
(* draws, the keys a case touches, the comparison of two results, and the  *)
(* canonical snapshots of both sides.  A case is not a fixed list here:    *)
(* the runners draw each operation when they reach it.                     *)
(***************************************************************************)
EXTENDS RQ2Targets, Functions

CONSTANTS Amounts,      \* the amounts of the travel and auction cases
          TokenAmounts, \* the amounts of the token's cases
          DexAmounts,   \* the amounts of the pool's cases
          Prices, Rooms, LockSizes, OpeningBalances

Contracts == {"HotelBooking", "TrainBooking", "TokenTransfer", "AuctionLogic", "DEXSwap"}
Travel == {"HotelBooking", "TrainBooking"}

-----------------------------------------------------------------------------
(* The generator.                                                          *)

TravelOps ==
       [kind : {"BookLocal"}, user : Users, amount : Amounts]
  \cup [kind : {"LockState"}, lockId : LockIds, amount : Amounts]
  \cup [kind : {"UnlockState", "IsStateLocked"}, lockId : LockIds]
  \cup [kind : {"GetAccountBalance", "GetBooking"}, user : Users]
  \cup [kind : {"GetAvailableRemain", "GetRemain", "GetPrice"}]

TokenOps ==
       [kind : {"Mint"}, to : Users, amount : TokenAmounts]
  \cup [kind : {"Transfer"}, from : Users, to : Users, amount : TokenAmounts]
  \cup [kind : {"Approve"}, owner : Users, spender : Users, amount : TokenAmounts]
  \cup [kind : {"TransferFrom"}, spender : Users, from : Users, to : Users, amount : TokenAmounts]
  \cup [kind : {"BalanceOf"}, user : Users]
  \cup [kind : {"Allowance"}, owner : Users, spender : Users]
  \cup [kind : {"TotalSupply"}]

\* A minimum price is drawn from 1 up; a bid may be 0.
AuctionOps ==
       [kind : {"CreateAuction"}, id : AuctionIds, seller : Users, minPrice : Amounts \ {0}]
  \cup [kind : {"Bid"}, id : AuctionIds, bidder : Users, amount : Amounts]
  \cup [kind : {"Close", "GetAuction"}, id : AuctionIds]
  \cup [kind : {"Withdraw", "PendingReturn"}, user : Users]

DexOps ==
       [kind : {"AddLiquidity"}, user : Users, amountA : DexAmounts, amountB : DexAmounts]
  \cup [kind : {"RemoveLiquidity"}, user : Users, shares : DexAmounts]
  \cup [kind : {"SwapAForB"}, user : Users, amountIn : DexAmounts]
  \cup [kind : {"GetShares"}, user : Users]
  \cup [kind : {"GetReserves", "TotalShares"}]

Operations(contract) ==
  CASE contract \in Travel -> TravelOps
    [] contract = "TokenTransfer" -> TokenOps
    [] contract = "AuctionLogic" -> AuctionOps
    [] contract = "DEXSwap" -> DexOps

\* The initial state a case carries: empty for the auctions and the pool.
Initials(contract) ==
  CASE contract \in Travel -> [price : Prices, remain : Rooms, lockSize : LockSizes]
    [] contract = "TokenTransfer" -> [Users -> OpeningBalances]
    [] OTHER -> {<<>>}

Views == {"GetPrice", "GetRemain", "GetAvailableRemain", "GetAccountBalance", "GetBooking",
          "IsStateLocked", "BalanceOf", "Allowance", "TotalSupply", "GetAuction",
          "PendingReturn", "GetReserves", "GetShares", "TotalShares"}

-----------------------------------------------------------------------------
(* The keys the final snapshots read: what the operations name.            *)

NamesIn(o, fields) == {o[f] : f \in fields \cap DOMAIN o}

TouchedUsers(contract, o) ==
  NamesIn(o, CASE contract \in Travel \cup {"DEXSwap"} -> {"user"}
               [] contract = "TokenTransfer" -> {"user", "to", "from", "owner", "spender"}
               [] contract = "AuctionLogic" -> {"seller", "bidder", "user"})

\* Mutant: an approval does not name its pair.
TouchedPairsSpent(o) ==
  CASE o.kind = "Allowance" -> {<<o.owner, o.spender>>}
    [] o.kind = "TransferFrom" -> {<<o.from, o.spender>>}
    [] OTHER -> {}

TouchedPairs(o) ==
  CASE o.kind \in {"Approve", "Allowance"} -> {<<o.owner, o.spender>>}
    [] o.kind = "TransferFrom" -> {<<o.from, o.spender>>}
    [] OTHER -> {}

Touched(contract, o) ==
  [ users |-> TouchedUsers(contract, o),
    locks |-> NamesIn(o, {"lockId"}),
    pairs |-> IF contract = "TokenTransfer" THEN TouchedPairs(o) ELSE {},
    ids |-> NamesIn(o, {"id"}) ]

\* Before any operation: the users of the opening balances.
TouchedAtFirst(contract) ==
  [ users |-> IF contract = "TokenTransfer" THEN Users ELSE {},
    locks |-> {}, pairs |-> {}, ids |-> {} ]

Also(touched, more) == [x \in DOMAIN touched |-> touched[x] \cup more[x]]

-----------------------------------------------------------------------------
(* The token's opening balances, minted on a contract one after the other, *)
(* those of 0 left out.  The order makes no difference.                    *)

Minted(s, n, opening, users) ==
  [s EXCEPT !.balances[n] = [u \in Users |-> @[u] + IF u \in users THEN opening[u] ELSE 0],
            !.totalSupply = @ + SumFunctionOnSet(opening, users)]

-----------------------------------------------------------------------------
(* Executing and comparing.                                                *)

\* The source's models, which the live originals implement.
Original(contract, s, n, o) ==
  CASE contract \in Travel -> TravelExecute(s, n, o)
    [] contract = "TokenTransfer" -> TokenExecute(s, n, o)
    [] contract = "AuctionLogic" -> AuctionExecute(s, n, o)
    [] contract = "DEXSwap" -> DexExecute(s, n, o)

Translated(contract, s, n, o) ==
  CASE contract \in Travel -> TravelTarget(contract, s, n, o)
    [] contract = "TokenTransfer" -> TokenTarget(s, n, o)
    [] contract = "AuctionLogic" -> AuctionTarget(s, n, o)
    [] contract = "DEXSwap" -> DexTarget(s, n, o)

\* Two refusals agree whatever their reasons.
SameResult(a, b) == a.ok = b.ok /\ (a.ok => a.values = b.values)

-----------------------------------------------------------------------------
(* The canonical snapshot.  Its bytes are the contract's name, then every  *)
(* key in order with its typed value, each part preceded by its length or  *)
(* of a fixed one: two snapshots have the same bytes when they have the    *)
(* same name and the same set of entries.                                  *)

EncodeValue(type, v) == <<type, v>>
Entry(key, type, v) == <<key, EncodeValue(type, v)>>
CanonicalSnapshot(contract, entries) == [contract |-> contract, entries |-> entries]

\* The bridge is the case's own value on both sides and is left out.
TravelEntries(s, n, lockSize, touched, available) ==
       {Entry(<<"meta", "price">>, "uint256", s.price),
        Entry(<<"meta", "remain">>, "uint256", s.remain),
        Entry(<<"meta", "lockSize">>, "uint256", lockSize),
        Entry(<<"lockedTotal">>, "uint256", s.lockedTotal),
        Entry(<<"availableRemain">>, "uint256", available)}
  \cup {Entry(<<"accounts", u>>, "uint256", s.accounts[n][u]) : u \in touched.users}
  \cup {Entry(<<"bookings", u>>, "uint256", s.bookings[n][u]) : u \in touched.users}
  \cup {Entry(<<"locks", l, "active">>, "bool", s.locks[n][l] # 0) : l \in touched.locks}
  \cup {Entry(<<"locks", l, "lockedAmount">>, "uint256", s.locks[n][l]) : l \in touched.locks}

TokenEntries(s, n, touched) ==
       {Entry(<<"totalSupply">>, "uint256", s.totalSupply)}
  \cup {Entry(<<"balances", u>>, "uint256", s.balances[n][u]) : u \in touched.users}
  \cup {Entry(<<"allowances", p>>, "uint256", s.allowances[n][p]) : p \in touched.pairs}

AuctionEntries(s, n, touched) ==
       (UNION {{Entry(<<"auction", i, "seller">>, "string", s.auctions[n][i].seller),
                Entry(<<"auction", i, "minPrice">>, "uint256", s.auctions[n][i].minPrice),
                Entry(<<"auction", i, "highestBidder">>, "string", s.auctions[n][i].highestBidder),
                Entry(<<"auction", i, "highestBid">>, "uint256", s.auctions[n][i].highestBid),
                Entry(<<"auction", i, "open">>, "bool", s.auctions[n][i].open),
                Entry(<<"auction", i, "exists">>, "bool", s.auctions[n][i].exists)}
               : i \in touched.ids})
  \cup {Entry(<<"pending", u>>, "uint256", s.pending[n][u]) : u \in touched.users}

DexEntries(s, n, touched) ==
       {Entry(<<"reserveA">>, "uint256", s.reserveA),
        Entry(<<"reserveB">>, "uint256", s.reserveB),
        Entry(<<"totalShares">>, "uint256", s.totalShares)}
  \cup {Entry(<<"shares", u>>, "uint256", s.shares[n][u]) : u \in touched.users}

\* Both sides build the same entries, from getters of their own.  The lock
\* size of a translated contract is not read: the case's is put there.
OriginalSnapshot(contract, s, n, touched) ==
  CanonicalSnapshot(contract,
    CASE contract \in Travel -> TravelEntries(s, n, s.lockSize, touched, availableRemain(s))
      [] contract = "TokenTransfer" -> TokenEntries(s, n, touched)
      [] contract = "AuctionLogic" -> AuctionEntries(s, n, touched)
      [] contract = "DEXSwap" -> DexEntries(s, n, touched))

TranslatedSnapshot(contract, s, n, init, touched) ==
  CanonicalSnapshot(contract,
    CASE contract \in Travel -> TravelEntries(s, n, init.lockSize, touched, availableUnits(s))
      [] contract = "TokenTransfer" -> TokenEntries(s, n, touched)
      [] contract = "AuctionLogic" -> AuctionEntries(s, n, touched)
      [] contract = "DEXSwap" -> DexEntries(s, n, touched))

=============================================================================
