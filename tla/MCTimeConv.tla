----------------------------- MODULE MCTimeConv -----------------------------
(* An instance of TimeConv of which a wait in nanoseconds is asked.        *)
EXTENDS TimeConv

SecsPerDef == <<60, 24, 6, 3>>
=============================================================================
