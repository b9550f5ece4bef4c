------------------------------- MODULE MCRQ2 -------------------------------
(***************************************************************************)
(* Model checking of the two RQ2 runners.                                  *)
(***************************************************************************)
EXTENDS RQ2, TLC

CONSTANTS u1, u2, l1, l2, a1

MCUsers == {u1, u2}

MCLocalDraws ==
  [ lockIds |-> {l1, l2}, auctionIds |-> {a1}, amounts |-> {0, 1, 2},
    tokenAmounts |-> {0, 1, 2}, dexAmounts |-> {0, 2, 3}, prices |-> {2},
    rooms |-> {3}, lockSizes |-> {1, 2}, openings |-> {0, 1} ]

MCLiveDraws ==
  [ lockIds |-> {l1}, auctionIds |-> {a1}, amounts |-> {0, 1},
    tokenAmounts |-> {0, 1}, dexAmounts |-> {0, 2}, prices |-> {2},
    rooms |-> {2}, lockSizes |-> {1, 2}, openings |-> {1} ]

\* The train and the token have the most operations to choose from.
MCMaxSent ==
  [ HotelBooking |-> 3, TrainBooking |-> 2, TokenTransfer |-> 2, AuctionLogic |-> 3, DEXSwap |-> 3 ]

UserSymmetry == Permutations(MCUsers)
=============================================================================
