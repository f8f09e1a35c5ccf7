---------------------------- MODULE MCDaemonStatus ----------------------------
(* DaemonStatus with two processes.                                        *)
EXTENDS DaemonStatus
===============================================================================
