----------------------------- MODULE MCJamLock -----------------------------
(* Three threads on one handle and two on another, for TLC. *)
EXTENDS JamLock

CONSTANTS t1, t2, t3, t4, t5, h1, h2

MCHandleOf == [t \in Threads |-> IF t \in {t1, t2, t3} THEN h1 ELSE h2]
=============================================================================
