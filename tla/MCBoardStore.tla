---------------------------- MODULE MCBoardStore ----------------------------
(* Values of the constants of BoardStore for TLC.                          *)
EXTENDS BoardStore

CONSTANTS c1, c2

MCConn == {c1, c2}
MCAttempt == 1 .. 2

\* One id: that of two clients, or of one that repeats itself.
MCCall == {1}
=============================================================================
