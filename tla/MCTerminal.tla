----------------------------- MODULE MCTerminal -----------------------------
(* Terminal for TLC: the byte that comes in on the serial line is one the   *)
(* keyboard can deliver too.                                                *)
EXTENDS Terminal

MCReceived == [key : Letter, form : {"lower"}, alt : {FALSE}]
=============================================================================
