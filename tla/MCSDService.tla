------------------------------ MODULE MCSDService ------------------------------
(* Values for the model checker: one or two clients, of which one may lose *)
(* its connection, session documents and a file, and one content beside    *)
(* the one that was cut off.                                               *)
EXTENDS SDService

CONSTANTS c1, c2

OneConnection == {c1}
TwoConnections == {c1, c2}

OneName == {"n", "/f"}
TwoNames == {"n", "m", "/f"}
MCFileNames == {"/f"}

OneText == {"t"}

AllOperations == Commands
DocumentOperations == {"open", "get", "post"}

===============================================================================
