-------------------------------- MODULE MCPRS --------------------------------
(* Values for the model checker: a server with two ports, two named        *)
(* services and the empty name, and one port number outside the range      *)
(* among those that messages carry.                                        *)
EXTENDS PRS

CONSTANTS s1, s2

MCNames == {s1, s2}

MCMessagePorts == Ports \cup {EndingClientPort + 1}

\* The change from summer time at the scale of the small timeout: the clock
\* moves by more than the timeout.
SetBack == {-3}

===============================================================================
