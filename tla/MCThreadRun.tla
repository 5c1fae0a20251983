---------------------------- MODULE MCThreadRun ----------------------------
(***************************************************************************)
(* Instances of ThreadRun small enough for TLC: which endpoints a thread   *)
(* is called with.  The numbers only name the calls, TLC tries every order *)
(* of arrival.                                                             *)
(***************************************************************************)
EXTENDS ThreadRun

ThreeCalls == 1..3
FourCalls  == 1..4
SixCalls   == 1..6

\* A message, every way of settling its plan and a status poll, nobody stopping
\* anything.
SerialOps == <<"send", "approve", "revise", "dismiss", "handoff", "snapshot">>

\* Two messages and a stop.
CloseOps == <<"send", "stop", "send">>

\* A stop between two messages while another client polls the status.
StopOps == <<"send", "stop", "send", "snapshot">>

\* Two clients who write at the same time, and answer.
GateOps == <<"send", "send", "resolve", "resolve">>

\* Stop, write again, and write once more.
LateCloseOps == <<"send", "stop", "send", "send">>
=============================================================================
