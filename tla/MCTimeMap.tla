------------------------------ MODULE MCTimeMap ------------------------------
(* A small instance of TimeMap: two ticks to the millisecond and two       *)
(* milliseconds to the second, so that lengths fall on and between both.   *)
EXTENDS TimeMap

MCTime == -1 .. 13
MCLength == -5 .. 9
=============================================================================
