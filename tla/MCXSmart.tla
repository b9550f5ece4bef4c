------------------------------ MODULE MCXSmart ------------------------------
(***************************************************************************)
(* Small instances of XSmart: two invoked chains, bc2 with the hotel and   *)
(* the flight (in that order) and bc3 with the train, or the hotel alone.  *)
(***************************************************************************)
EXTENDS XSmart, TLC

CONSTANTS hotel, flight, train, bc2, bc3

TravelChainOf == (hotel :> bc2) @@ (flight :> bc2) @@ (train :> bc3)
TravelBatch == (bc2 :> <<hotel, flight>>) @@ (bc3 :> <<train>>)
HotelChainOf == hotel :> bc2
HotelBatch == bc2 :> <<hotel>>

OneEach == [s \in Contract |-> 1]
TwoEach == [s \in Contract |-> 2]
ThreeEach == [s \in Contract |-> 3]
NoneEach == [s \in Contract |-> 0]

\* Local customers come alone, and only to the flight, or to every contract.
FlightCustomers == [s \in Contract |-> IF s = flight THEN {1} ELSE {}]
AllCustomers == [s \in Contract |-> {1}]
NoCustomers == [s \in Contract |-> {}]
=============================================================================
