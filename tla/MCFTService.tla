------------------------------ MODULE MCFTService ------------------------------
(* Values for the model checker: a program and a page, two directories of  *)
(* which one is empty, a file of two blocks and one of none.               *)
EXTENDS FTService, TLC

CONSTANTS c1, c2

TwoClients == {c1, c2}
OnePage == {c2}

MCListing == "d" :> <<"e", "f">> @@ "empty" :> <<>>
MCSize == "e" :> 0 @@ "f" :> 2
MCAbsent == {"absent"}

AllFaults == AnyFault
NoFaults == {}
NoName == {}

===============================================================================
