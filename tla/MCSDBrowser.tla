------------------------------ MODULE MCSDBrowser ------------------------------
(* Values for the model checker: one browser of any kind, which may lose   *)
(* its connection, beside a program that resumes, posts to and closes its  *)
(* sessions; a session document, a file and the empty name.                *)
EXTENDS SDBrowser

CONSTANTS browser, console

MCConnections == {browser, console}
MCBrowsers == {browser}
AllNames == {"n", "/f", ""}
OneFile == {"/f"}
OneText == {"t"}
MCOperations == Commands

===============================================================================
