---------------------------- MODULE MCStatistics ----------------------------
(***************************************************************************)
(* A small instance of Statistics for TLC.  Numbers are in halves of the   *)
(* threshold, which is 1: a process that grows from 4096 to 4097 kB and    *)
(* may change from the default priority, 20, to that of the slowest        *)
(* real-time process, -2.                                                  *)
(***************************************************************************)
EXTENDS Statistics

Kilobytes == {8192, 8194}
DefaultOrRealTime == {40, -4}
=============================================================================
