------------------------------ MODULE MCProcExec ------------------------------
(* ProcExec for TLC.                                                         *)
EXTENDS ProcExec

==============================================================================
