---------------------------- MODULE MCRuntimeWatch ----------------------------
EXTENDS RuntimeWatch, FiniteSetsExt, TLC

CONSTANTS p1, p2, p3

MCProcs == {p1, p2, p3}

\* p3 can get the id of p1 once p1 is gone and no handle to it is open.
MCPidOf == p1 :> 1 @@ p2 :> 2 @@ p3 :> 1

\* Every process runs a program of its own, or p1 and p2 run the same one.
OwnPaths   == p1 :> "a" @@ p2 :> "b" @@ p3 :> "c"
SharedPath == p1 :> "a" @@ p2 :> "a" @@ p3 :> "c"
NoLongPaths == {}
LongPath2   == {p2}

-------------------------------------------------------------------------------
(* What does not hold.                                                      *)

\* The accumulated time of a program counts every record about it, also when
\* several processes run it.
SumOfRecords(f) ==
  MapThenSumSet(LAMBDA p : recorded[p], {p \in Procs : PathOf[p] = f})
AccumulatesShared == regOpen => \A f \in Paths : acc[f] = SumOfRecords(f)

\* The same at the end of the session.
AccumulatedAtExit == mpc = "exit" => \A f \in Paths : acc[f] = SumOfRecords(f)
===============================================================================
