----------------------------- MODULE WatchService -----------------------------
(***************************************************************************)
(* What the runtime checker promises, without threads, nodes or handles:   *)
(* a process is taken on while no process with its id is, and is let go    *)
(* when a record is written about it, which happens only after it ended or *)
(* once the program is closing.  Letting go without a record is possible   *)
(* only while the program is closing.                                      *)
(***************************************************************************)
EXTENDS Naturals

CONSTANTS Procs,   \* processes that may run during one session
          PidOf    \* their process ids

VARIABLES active,    \* processes taken on and not let go
          ended,     \* processes that have ended
          recorded,  \* records written about each process
          closing    \* the program is shutting down

vars == <<active, ended, recorded, closing>>

Init == /\ active = {} /\ ended = {}
        /\ recorded = [p \in Procs |-> 0]
        /\ closing = FALSE

Begin(p) == /\ ~closing
            /\ \A q \in active : PidOf[q] # PidOf[p]
            /\ active' = active \cup {p}
            /\ UNCHANGED <<ended, recorded, closing>>

End(p) == /\ p \notin ended
          /\ ended' = ended \cup {p}
          /\ UNCHANGED <<active, recorded, closing>>

Record(p) == /\ p \in active
             /\ p \in ended \/ closing
             /\ recorded' = [recorded EXCEPT ![p] = @ + 1]
             /\ active' = active \ {p}
             /\ UNCHANGED <<ended, closing>>

Drop(p) == /\ closing /\ p \in active
           /\ active' = active \ {p}
           /\ UNCHANGED <<ended, recorded, closing>>

BeginClose == /\ ~closing /\ closing' = TRUE
              /\ UNCHANGED <<active, ended, recorded>>

Next == \/ \E p \in Procs : Begin(p) \/ End(p) \/ Record(p) \/ Drop(p)
        \/ BeginClose

Spec == Init /\ [][Next]_vars
===============================================================================
