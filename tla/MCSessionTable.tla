---------------------------- MODULE MCSessionTable ----------------------------
(* Values for the model checker: two threads over two sessions.            *)
EXTENDS SessionTable

CONSTANTS t1, t2

MCThreads == {t1, t2}

MCKeys == {"k"}
OneValue == {"v"}

===============================================================================
