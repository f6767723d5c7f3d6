----------------------------- MODULE MCTimeKeeper -----------------------------
(* A small instance of TimeKeeper: seconds of four milliseconds, an RTC    *)
(* read every four seconds, a timer that wraps every eight.                *)
EXTENDS TimeKeeper

MCGaps == {3, 6}
MCGarbage == {0, 20, 90}

(* A report of a time soon to come.                                        *)
NearGarbage == {20}
=============================================================================
