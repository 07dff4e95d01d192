------------------------------ MODULE MCDllHook ------------------------------
(***************************************************************************)
(* Two processes; w3 is a window of the second, the others of the first.   *)
(***************************************************************************)
EXTENDS DllHook

CONSTANTS p1, p2, w1, w2, w3

MCProcessOf == [w \in Window |-> IF w = w3 THEN p2 ELSE p1]
===============================================================================
