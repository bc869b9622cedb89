------------------------------ MODULE MCCmdQueue ------------------------------
(* The command layer for TLC.                                               *)
EXTENDS CmdQueue
===============================================================================
