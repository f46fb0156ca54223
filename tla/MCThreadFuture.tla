----------------------------- MODULE MCThreadFuture -----------------------------
(* ThreadFuture for TLC.                                                    *)
EXTENDS ThreadFuture

\* Sixteen periods stand in for 2^32 ms: nine is past INT_MAX and becomes negative.
MCUIntModulus == 16
MCTimeouts == {2, 9}
================================================================================
