-------------------------- MODULE RuntimeWatchProofs --------------------------
(***************************************************************************)
(* Theorems about RuntimeWatch for every number of nodes and boxes and     *)
(* every assignment of process ids.                                        *)
(***************************************************************************)
EXTENDS RuntimeWatch, FiniteSetTheorems, TLAPS

\* Nodes the list knows: linked, freed after having been linked, or about to
\* be linked by the current request.
Known == chain \cup freed \cup (IF mpc \in {"signal", "link"} THEN {mnode} ELSE {})

InRequestStates == {"check", "first", "find", "alloc", "fill", "signal", "link"}

\* What the UI thread knows at each point of a request or of Thread_Close.
RequestInv ==
  /\ mpc \in InRequestStates => mproc \in Procs
  /\ mpc \in {"find", "closeEndEvt", "closeJoin"} => mnode \in chain
  /\ mpc \in {"fill", "signal", "link"} => mnode \in 1..allocated
  /\ mpc \in {"first", "find", "alloc", "fill"} =>
       \A n \in chain : pid[n] # PidOf[mproc]
  /\ mpc = "fill" => pid[mnode] = 0
  /\ mpc = "signal" => /\ pid[mnode] # 0 /\ process[mnode] # NoProc
                       /\ wpc[mnode] = "idle" /\ ~event[mnode]
  /\ mpc = "exit" => chain = {}

\* The fields of a node and the position of its thread agree.
NodeInv ==
  \A n \in Node :
    /\ wpc[n] = "none" <=> n > allocated
    /\ pid[n] = 0 => process[n] = NoProc
    /\ wpc[n] = "none" => pid[n] = 0
    /\ process[n] # NoProc => pid[n] = PidOf[process[n]]
    /\ event[n] \/ wpc[n] \in Busy => n \in Known
    /\ wpc[n] \in Recording \cup {"close", "clear"} => process[n] # NoProc
    /\ wpc[n] = "unlock" => process[n] = NoProc

\* Until the program closes, a node with pid 0 is at rest.
RestInv ==
  mpc \notin ClosingStates =>
    /\ freed = {}
    /\ \A n \in Node :
         /\ ~endEvt[n]
         /\ event[n] => wpc[n] = "idle"
         /\ pid[n] = 0 => wpc[n] \in {"none", "idle"} /\ ~event[n]

\* Known nodes hold different pids: the strengthening of NoDoubleWatch that
\* every step preserves.
DistinctPids ==
  \A m, n \in Known : m # n /\ pid[m] # 0 => pid[m] # pid[n]

FileInv == t_file = "closed" => mpc = "exit"

IInv == /\ TypeOK /\ RequestInv /\ NodeInv /\ RestInv
        /\ DistinctPids /\ FreedIsUnused /\ FileInv

-------------------------------------------------------------------------------
\* Every variable keeps its type.  TypeOK is preserved given RequestInv, which
\* says that the request's process and node exist when they are used.
LEMMA TypeInit == ASSUME Init PROVE TypeOK
  BY MaxNodesAssumption DEF Init, TypeOK, Node, Paths, ClosingStates

LEMMA BoxAppend ==
  ASSUME NEW b \in Seq(Box), NEW k \in {"file", "note"}, NEW p \in Procs
  PROVE  Append(b, [kind |-> k, proc |-> p]) \in Seq(Box)
<1>1. [kind |-> k, proc |-> p] \in Box
  BY DEF Box
<1>2. QED BY <1>1

LEMMA BoxRemove ==
  ASSUME NEW b \in Seq(Box), b # <<>>
  PROVE  /\ b[Len(b)] \in Box
         /\ b[Len(b)].proc \in Procs
         /\ SubSeq(b, 1, Len(b) - 1) \in Seq(Box)
<1>1. Len(b) \in 1..Len(b) /\ b[Len(b)] \in Box
  OBVIOUS
<1>2. SubSeq(b, 1, Len(b) - 1) \in Seq(Box)
  OBVIOUS
<1>3. QED BY <1>1, <1>2 DEF Box

LEMMA HandlesType ==
  ASSUME handles \in [Procs -> Int], NEW p \in Procs, Open(p) \/ Close(p)
  PROVE  handles' \in [Procs -> Int]
  BY DEF Open, Close

LEMMA CountUp ==
  ASSUME NEW S, NEW f \in [S -> Nat], NEW s \in S
  PROVE  [f EXCEPT ![s] = f[s] + 1] \in [S -> Nat]
  OBVIOUS

LEMMA TypeStep == ASSUME TypeOK, RequestInv, NodeInv, [Next]_vars PROVE TypeOK'
<1> USE MaxNodesAssumption, PidOfAssumption, NoProcAssumption
<1> USE DEF TypeOK, Node, At, osVars, mainVars, listVars, dataVars, eventVars,
         watchVars, fileVars, regVars, ClosingStates
<1>0. chain \subseteq Node /\ 1..allocated \subseteq Node
  OBVIOUS
<1>1. ASSUME NEW p \in Procs, StartProcess(p) PROVE TypeOK'
  BY <1>1 DEF StartProcess
<1>2. ASSUME NEW p \in Procs, ExitProcess(p) PROVE TypeOK'
  BY <1>2 DEF ExitProcess
<1>3. ASSUME NEW p \in Procs, Thread_CreateThread(p) PROVE TypeOK'
  <2>1. ASSUME OutputFileCreated(p) PROVE TypeOK'
    <3>1. handles' \in [Procs -> Int]
      BY <2>1, HandlesType DEF OutputFileCreated
    <3>2. QED BY <1>3, <2>1, <3>1 DEF Thread_CreateThread, OutputFileCreated
  <2>2. ASSUME OutputFileFailed(p) PROVE TypeOK'
    <3>1. handles' \in [Procs -> Int]
      BY <2>2, HandlesType DEF OutputFileFailed
    <3>2. boxes' \in Seq(Box)
      BY <2>2, BoxAppend DEF OutputFileFailed
    <3>3. QED BY <1>3, <2>2, <3>1, <3>2 DEF Thread_CreateThread, OutputFileFailed
  <2>3. QED BY <1>3, <2>1, <2>2 DEF Thread_CreateThread
<1>4. ASSUME NEW p \in Procs, Thread_CreateThreadProcess(p) PROVE TypeOK'
  <2>1. ASSUME OutputFileCreated(p) PROVE TypeOK'
    <3>1. handles' \in [Procs -> Int]
      BY <2>1, HandlesType DEF OutputFileCreated
    <3>2. QED BY <1>4, <2>1, <3>1 DEF Thread_CreateThreadProcess, OutputFileCreated
  <2>2. ASSUME OutputFileFailed(p) PROVE TypeOK'
    <3>1. handles' \in [Procs -> Int]
      BY <2>2, HandlesType DEF OutputFileFailed
    <3>2. boxes' \in Seq(Box)
      BY <2>2, BoxAppend DEF OutputFileFailed
    <3>3. QED BY <1>4, <2>2, <3>1, <3>2 DEF Thread_CreateThreadProcess, OutputFileFailed
  <2>3. QED BY <1>4, <2>1, <2>2 DEF Thread_CreateThreadProcess
<1>5. ASSUME DismissBox PROVE TypeOK'
  BY <1>5, BoxRemove, HandlesType DEF DismissBox
<1>6. ASSUME CheckPID PROVE TypeOK'
  <2>1. mproc \in Procs
    BY <1>6 DEF CheckPID, RequestInv, InRequestStates
  <2>2. handles' \in [Procs -> Int]
    BY <1>6, <2>1, HandlesType DEF CheckPID
  <2>3. Append(boxes, [kind |-> "note", proc |-> mproc]) \in Seq(Box)
    BY <2>1, BoxAppend
  <2>4. QED BY <1>6, <2>2, <2>3 DEF CheckPID
<1>7. ASSUME EnterChain PROVE TypeOK'
  BY <1>0, <1>7 DEF EnterChain, IsFirst
<1>8. ASSUME Thread_GetEmptyThread PROVE TypeOK'
  BY <1>0, <1>8 DEF Thread_GetEmptyThread, IsNext, RequestInv
<1>9. ASSUME AllocateNode PROVE TypeOK'
  <2>1. mproc \in Procs
    BY <1>9 DEF AllocateNode, RequestInv, InRequestStates
  <2>2. handles' \in [Procs -> Int]
    BY <1>9, <2>1, HandlesType DEF AllocateNode
  <2>3. wpc' \in [Node -> {"none", "idle", "watch", "read", "write", "close",
                           "clear", "unlock", "exited"}]
    BY <1>9, SMTT(90) DEF AllocateNode
  <2>4. allocated' \in 0..MaxNodes /\ mnode' \in Node
    <3>1. allocated \in 0..MaxNodes /\ mnode \in 1..MaxNodes
      OBVIOUS
    <3>2. \/ UNCHANGED <<allocated, mnode>>
          \/ /\ allocated < MaxNodes
             /\ allocated' = allocated + 1 /\ mnode' = allocated + 1
      BY <1>9 DEF AllocateNode
    <3>3. QED BY ONLY <3>1, <3>2, MaxNodesAssumption DEF Node
  <2>5. 1..allocated \subseteq 1..allocated'
    BY <1>9 DEF AllocateNode
  <2>6. QED BY <1>9, <2>2, <2>3, <2>4, <2>5 DEF AllocateNode
<1>10. ASSUME FillNode PROVE TypeOK'
  BY <1>10 DEF FillNode, NodePath, Paths, RequestInv, InRequestStates
<1>11. ASSUME SignalNode PROVE TypeOK'
  BY <1>11 DEF SignalNode, RequestInv, InRequestStates
<1>12. ASSUME LinkNode PROVE TypeOK'
  BY <1>12 DEF LinkNode, RequestInv
<1>13. ASSUME BeginClose PROVE TypeOK'
  BY <1>13 DEF BeginClose
<1>14. ASSUME CloseSetEvent PROVE TypeOK'
  BY <1>0, <1>14 DEF CloseSetEvent
<1>15. ASSUME CloseSetEndEvt PROVE TypeOK'
  BY <1>15 DEF CloseSetEndEvt
<1>16. ASSUME CloseJoin PROVE TypeOK'
  BY <1>0, <1>16, HandlesType DEF CloseJoin, RequestInv
<1>17. ASSUME NEW n \in Node, EndWhileIdle(n) PROVE TypeOK'
  BY <1>17 DEF EndWhileIdle
<1>18. ASSUME NEW n \in Node, TakeEvent(n) PROVE TypeOK'
  BY <1>18 DEF TakeEvent
<1>19. ASSUME NEW n \in Node, WatchNothing(n) PROVE TypeOK'
  BY <1>19 DEF WatchNothing
<1>20. ASSUME NEW n \in Node, WatchForced(n) PROVE TypeOK'
  BY <1>20 DEF WatchForced
<1>21. ASSUME NEW n \in Node, WatchEnded(n) PROVE TypeOK'
  BY <1>21 DEF WatchEnded
<1>22. ASSUME NEW n \in Node, ReadAccumulated(n) PROVE TypeOK'
  BY <1>22 DEF ReadAccumulated
<1>23. ASSUME NEW n \in Node, WriteAccumulated(n) PROVE TypeOK'
  <2>1. process[n] \in Procs
    BY <1>23 DEF WriteAccumulated, NodeInv, Recording
  <2>2. recorded' \in [Procs -> Nat]
    <3>1. recorded' = [recorded EXCEPT ![process[n]] = recorded[process[n]] + 1]
      BY <1>23 DEF WriteAccumulated
    <3>2. recorded \in [Procs -> Nat]
      OBVIOUS
    <3>3. QED BY ONLY <2>1, <3>1, <3>2, CountUp
  <2>3. acc' \in [Paths -> Nat]
    BY <1>23, SMTT(90) DEF WriteAccumulated
  <2>4. QED BY <1>23, <2>2, <2>3 DEF WriteAccumulated
<1>24. ASSUME NEW n \in Node, CloseProcess(n) PROVE TypeOK'
  BY <1>24, HandlesType, SMTT(90) DEF CloseProcess, NodeInv
<1>25. ASSUME NEW n \in Node, ClearProcess(n) PROVE TypeOK'
  BY <1>25 DEF ClearProcess
<1>26. ASSUME NEW n \in Node, ClearPid(n) PROVE TypeOK'
  BY <1>26 DEF ClearPid
<1>27. ASSUME UNCHANGED vars PROVE TypeOK'
  BY <1>27 DEF vars
<1>28. QED
  BY <1>1, <1>2, <1>3, <1>4, <1>5, <1>6, <1>7, <1>8, <1>9, <1>10, <1>11, <1>12, <1>13, <1>14, <1>15, <1>16, <1>17, <1>18, <1>19, <1>20, <1>21, <1>22, <1>23, <1>24, <1>25, <1>26, <1>27
  DEF Next, Environment, Request, MainStep, Thread_Run, Terminated

\* What the UI thread relies on survives the steps of the watchers.
LEMMA RequestInvStep ==
  ASSUME TypeOK, RequestInv, NodeInv, RestInv, [Next]_vars
  PROVE  RequestInv'
<1> USE MaxNodesAssumption, PidOfAssumption, NoProcAssumption
<1> USE DEF TypeOK, Node, At, osVars, mainVars, listVars, dataVars, eventVars,
         watchVars, fileVars, regVars, ClosingStates, InRequestStates, Known,
         Busy, Recording, RequestInv, NodeInv, RestInv
<1>1. ASSUME NEW p \in Procs, StartProcess(p) PROVE RequestInv'
  BY <1>1 DEF StartProcess
<1>2. ASSUME NEW p \in Procs, ExitProcess(p) PROVE RequestInv'
  BY <1>2 DEF ExitProcess
<1>3. ASSUME NEW p \in Procs, Thread_CreateThread(p) PROVE RequestInv'
  BY <1>3 DEF Thread_CreateThread, OutputFileCreated, OutputFileFailed
<1>4. ASSUME NEW p \in Procs, Thread_CreateThreadProcess(p) PROVE RequestInv'
  BY <1>4 DEF Thread_CreateThreadProcess, OutputFileCreated, OutputFileFailed
<1>5. ASSUME DismissBox PROVE RequestInv'
  BY <1>5 DEF DismissBox
<1>6. ASSUME CheckPID PROVE RequestInv'
  BY <1>6 DEF CheckPID, Detected
<1>7. ASSUME EnterChain PROVE RequestInv'
  BY <1>7 DEF EnterChain, IsFirst
<1>8. ASSUME Thread_GetEmptyThread PROVE RequestInv'
  BY <1>8 DEF Thread_GetEmptyThread, IsNext
<1>9. ASSUME AllocateNode PROVE RequestInv'
  <2>1. CASE mpc' = "run"
    BY <1>9, <2>1 DEF AllocateNode
  <2>2. CASE mpc' = "fill"
    <3>1. wpc[allocated + 1] = "none" /\ allocated + 1 \in Node
      BY <1>9, <2>2 DEF AllocateNode
    <3>2. pid[allocated + 1] = 0 /\ allocated + 1 \notin chain
      BY <3>1
    <3>3. QED BY <1>9, <2>2, <3>1, <3>2 DEF AllocateNode
  <2>3. QED BY <1>9, <2>1, <2>2 DEF AllocateNode
<1>10. ASSUME FillNode PROVE RequestInv'
  BY <1>10 DEF FillNode
<1>11. ASSUME SignalNode PROVE RequestInv'
  BY <1>11 DEF SignalNode
<1>12. ASSUME LinkNode PROVE RequestInv'
  BY <1>12 DEF LinkNode
<1>13. ASSUME BeginClose PROVE RequestInv'
  BY <1>13 DEF BeginClose
<1>14. ASSUME CloseSetEvent PROVE RequestInv'
  BY <1>14 DEF CloseSetEvent, IsFirst
<1>15. ASSUME CloseSetEndEvt PROVE RequestInv'
  BY <1>15 DEF CloseSetEndEvt
<1>16. ASSUME CloseJoin PROVE RequestInv'
  BY <1>16 DEF CloseJoin, ThreadEnded
<1>17. ASSUME NEW k \in Node, EndWhileIdle(k) PROVE RequestInv'
  BY <1>17 DEF EndWhileIdle
<1>18. ASSUME NEW k \in Node, TakeEvent(k) PROVE RequestInv'
  BY <1>18 DEF TakeEvent
<1>19. ASSUME NEW k \in Node, WatchNothing(k) PROVE RequestInv'
  BY <1>19 DEF WatchNothing
<1>20. ASSUME NEW k \in Node, WatchForced(k) PROVE RequestInv'
  BY <1>20 DEF WatchForced
<1>21. ASSUME NEW k \in Node, WatchEnded(k) PROVE RequestInv'
  BY <1>21 DEF WatchEnded
<1>22. ASSUME NEW k \in Node, ReadAccumulated(k) PROVE RequestInv'
  BY <1>22 DEF ReadAccumulated
<1>23. ASSUME NEW k \in Node, WriteAccumulated(k) PROVE RequestInv'
  BY <1>23 DEF WriteAccumulated
<1>24. ASSUME NEW k \in Node, CloseProcess(k) PROVE RequestInv'
  BY <1>24 DEF CloseProcess
<1>25. ASSUME NEW k \in Node, ClearProcess(k) PROVE RequestInv'
  BY <1>25 DEF ClearProcess
<1>26. ASSUME NEW k \in Node, ClearPid(k) PROVE RequestInv'
  <2>1. \A m \in Node : pid'[m] = pid[m] \/ (m = k /\ pid'[m] = 0)
    BY <1>26 DEF ClearPid
  <2>2. mpc \in {"first", "find", "alloc", "fill"} =>
          PidOf[mproc] # 0 /\ \A m \in chain : pid'[m] # PidOf[mproc]
    BY <2>1
  <2>3. QED BY <1>26, <2>1, <2>2 DEF ClearPid
<1>27. ASSUME UNCHANGED vars PROVE RequestInv'
  BY <1>27 DEF vars
<1>28. QED   BY <1>1, <1>2, <1>3, <1>4, <1>5, <1>6, <1>7, <1>8, <1>9, <1>10,
     <1>11, <1>12, <1>13, <1>14, <1>15, <1>16, <1>17, <1>18, <1>19, <1>20,
     <1>21, <1>22, <1>23, <1>24, <1>25, <1>26, <1>27
  DEF Next, Environment, Request, MainStep, Thread_Run, Terminated

\* Node fields and thread positions stay in agreement.
LEMMA NodeInvStep ==
  ASSUME TypeOK, RequestInv, NodeInv, RestInv, [Next]_vars
  PROVE  NodeInv'
<1> USE MaxNodesAssumption, PidOfAssumption, NoProcAssumption
<1> USE DEF TypeOK, Node, At, osVars, mainVars, listVars, dataVars, eventVars,
         watchVars, fileVars, regVars, ClosingStates, InRequestStates, Known,
         Busy, Recording, RequestInv, NodeInv, RestInv
<1>1. ASSUME NEW p \in Procs, StartProcess(p) PROVE NodeInv'
  BY <1>1 DEF StartProcess
<1>2. ASSUME NEW p \in Procs, ExitProcess(p) PROVE NodeInv'
  BY <1>2 DEF ExitProcess
<1>3. ASSUME NEW p \in Procs, Thread_CreateThread(p) PROVE NodeInv'
  BY <1>3 DEF Thread_CreateThread, OutputFileCreated, OutputFileFailed
<1>4. ASSUME NEW p \in Procs, Thread_CreateThreadProcess(p) PROVE NodeInv'
  BY <1>4 DEF Thread_CreateThreadProcess, OutputFileCreated, OutputFileFailed
<1>5. ASSUME DismissBox PROVE NodeInv'
  BY <1>5 DEF DismissBox
<1>6. ASSUME CheckPID PROVE NodeInv'
  BY <1>6 DEF CheckPID, Detected
<1>7. ASSUME EnterChain PROVE NodeInv'
  BY <1>7 DEF EnterChain, IsFirst
<1>8. ASSUME Thread_GetEmptyThread PROVE NodeInv'
  BY <1>8 DEF Thread_GetEmptyThread, IsNext
<1>9. ASSUME AllocateNode PROVE NodeInv'
  <2>1. CASE mpc' = "run"
    BY <1>9, <2>1 DEF AllocateNode
  <2>2. CASE mpc' = "fill"
    <3>1. wpc[allocated + 1] = "none" /\ allocated + 1 \in Node
      BY <1>9, <2>2 DEF AllocateNode
    <3>2. pid[allocated + 1] = 0 /\ allocated + 1 \notin chain
      BY <3>1
    <3>3. /\ allocated' = allocated + 1 /\ mnode' = allocated + 1
          /\ wpc' = [wpc EXCEPT ![allocated + 1] = "idle"]
          /\ UNCHANGED <<chain, pid, process, event>>
      BY <1>9, <2>2 DEF AllocateNode
    <3>4. ASSUME NEW k \in Node, k # allocated + 1 PROVE wpc'[k] = wpc[k]
      BY <3>3, <3>4
    <3>5. wpc'[allocated + 1] = "idle"
      BY <3>1, <3>3
    <3>6. ASSUME NEW k \in Known PROVE k \in Known'
      BY <1>9, <2>2, <3>3 DEF AllocateNode
    <3>7. ASSUME NEW k \in Node PROVE NodeInv!(k)'
      <4>1. CASE k = allocated + 1
        BY <3>1, <3>2, <3>3, <3>5, <4>1
      <4>2. CASE k # allocated + 1
        BY <3>3, <3>4, <3>6, <4>2
      <4>3. QED BY <4>1, <4>2
    <3>8. QED BY <3>7
  <2>3. QED BY <1>9, <2>1, <2>2 DEF AllocateNode
<1>10. ASSUME FillNode PROVE NodeInv'
  BY <1>10, SMTT(90) DEF FillNode
<1>11. ASSUME SignalNode PROVE NodeInv'
  BY <1>11, SMTT(90) DEF SignalNode
<1>12. ASSUME LinkNode PROVE NodeInv'
  BY <1>12 DEF LinkNode
<1>13. ASSUME BeginClose PROVE NodeInv'
  BY <1>13 DEF BeginClose
<1>14. ASSUME CloseSetEvent PROVE NodeInv'
  BY <1>14, SMTT(90) DEF CloseSetEvent, IsFirst
<1>15. ASSUME CloseSetEndEvt PROVE NodeInv'
  BY <1>15 DEF CloseSetEndEvt
<1>16. ASSUME CloseJoin PROVE NodeInv'
  BY <1>16 DEF CloseJoin, ThreadEnded
<1>17. ASSUME NEW k \in Node, EndWhileIdle(k) PROVE NodeInv'
  BY <1>17 DEF EndWhileIdle
<1>18. ASSUME NEW k \in Node, TakeEvent(k) PROVE NodeInv'
  BY <1>18 DEF TakeEvent
<1>19. ASSUME NEW k \in Node, WatchNothing(k) PROVE NodeInv'
  BY <1>19 DEF WatchNothing
<1>20. ASSUME NEW k \in Node, WatchForced(k) PROVE NodeInv'
  BY <1>20 DEF WatchForced
<1>21. ASSUME NEW k \in Node, WatchEnded(k) PROVE NodeInv'
  BY <1>21 DEF WatchEnded
<1>22. ASSUME NEW k \in Node, ReadAccumulated(k) PROVE NodeInv'
  BY <1>22 DEF ReadAccumulated
<1>23. ASSUME NEW k \in Node, WriteAccumulated(k) PROVE NodeInv'
  BY <1>23 DEF WriteAccumulated
<1>24. ASSUME NEW k \in Node, CloseProcess(k) PROVE NodeInv'
  BY <1>24 DEF CloseProcess
<1>25. ASSUME NEW k \in Node, ClearProcess(k) PROVE NodeInv'
  BY <1>25 DEF ClearProcess
<1>26. ASSUME NEW k \in Node, ClearPid(k) PROVE NodeInv'
  BY <1>26 DEF ClearPid
<1>27. ASSUME UNCHANGED vars PROVE NodeInv'
  BY <1>27 DEF vars
<1>28. QED   BY <1>1, <1>2, <1>3, <1>4, <1>5, <1>6, <1>7, <1>8, <1>9, <1>10,
     <1>11, <1>12, <1>13, <1>14, <1>15, <1>16, <1>17, <1>18, <1>19, <1>20,
     <1>21, <1>22, <1>23, <1>24, <1>25, <1>26, <1>27
  DEF Next, Environment, Request, MainStep, Thread_Run, Terminated

\* A node whose pid reads 0 is at rest.
LEMMA RestInvStep ==
  ASSUME TypeOK, RequestInv, NodeInv, RestInv, [Next]_vars
  PROVE  RestInv'
<1> USE MaxNodesAssumption, PidOfAssumption, NoProcAssumption
<1> USE DEF TypeOK, Node, At, osVars, mainVars, listVars, dataVars, eventVars,
         watchVars, fileVars, regVars, ClosingStates, InRequestStates, Known,
         Busy, Recording, RequestInv, NodeInv, RestInv
<1>1. ASSUME NEW p \in Procs, StartProcess(p) PROVE RestInv'
  BY <1>1 DEF StartProcess
<1>2. ASSUME NEW p \in Procs, ExitProcess(p) PROVE RestInv'
  BY <1>2 DEF ExitProcess
<1>3. ASSUME NEW p \in Procs, Thread_CreateThread(p) PROVE RestInv'
  BY <1>3 DEF Thread_CreateThread, OutputFileCreated, OutputFileFailed
<1>4. ASSUME NEW p \in Procs, Thread_CreateThreadProcess(p) PROVE RestInv'
  BY <1>4 DEF Thread_CreateThreadProcess, OutputFileCreated, OutputFileFailed
<1>5. ASSUME DismissBox PROVE RestInv'
  BY <1>5 DEF DismissBox
<1>6. ASSUME CheckPID PROVE RestInv'
  BY <1>6 DEF CheckPID, Detected
<1>7. ASSUME EnterChain PROVE RestInv'
  BY <1>7 DEF EnterChain, IsFirst
<1>8. ASSUME Thread_GetEmptyThread PROVE RestInv'
  BY <1>8 DEF Thread_GetEmptyThread, IsNext
<1>9. ASSUME AllocateNode PROVE RestInv'
  <2>1. CASE mpc' = "run"
    BY <1>9, <2>1 DEF AllocateNode
  <2>2. CASE mpc' = "fill"
    <3>1. wpc[allocated + 1] = "none" /\ allocated + 1 \in Node
      BY <1>9, <2>2 DEF AllocateNode
    <3>2. pid[allocated + 1] = 0 /\ allocated + 1 \notin chain
      BY <3>1
    <3>3. QED BY <1>9, <2>2, <3>1, <3>2, SMTT(90) DEF AllocateNode
  <2>3. QED BY <1>9, <2>1, <2>2 DEF AllocateNode
<1>10. ASSUME FillNode PROVE RestInv'
  BY <1>10 DEF FillNode
<1>11. ASSUME SignalNode PROVE RestInv'
  BY <1>11 DEF SignalNode
<1>12. ASSUME LinkNode PROVE RestInv'
  BY <1>12 DEF LinkNode
<1>13. ASSUME BeginClose PROVE RestInv'
  BY <1>13 DEF BeginClose
<1>14. ASSUME CloseSetEvent PROVE RestInv'
  BY <1>14 DEF CloseSetEvent, IsFirst
<1>15. ASSUME CloseSetEndEvt PROVE RestInv'
  BY <1>15 DEF CloseSetEndEvt
<1>16. ASSUME CloseJoin PROVE RestInv'
  BY <1>16 DEF CloseJoin, ThreadEnded
<1>17. ASSUME NEW k \in Node, EndWhileIdle(k) PROVE RestInv'
  BY <1>17 DEF EndWhileIdle
<1>18. ASSUME NEW k \in Node, TakeEvent(k) PROVE RestInv'
  BY <1>18 DEF TakeEvent
<1>19. ASSUME NEW k \in Node, WatchNothing(k) PROVE RestInv'
  BY <1>19 DEF WatchNothing
<1>20. ASSUME NEW k \in Node, WatchForced(k) PROVE RestInv'
  BY <1>20 DEF WatchForced
<1>21. ASSUME NEW k \in Node, WatchEnded(k) PROVE RestInv'
  BY <1>21 DEF WatchEnded
<1>22. ASSUME NEW k \in Node, ReadAccumulated(k) PROVE RestInv'
  BY <1>22 DEF ReadAccumulated
<1>23. ASSUME NEW k \in Node, WriteAccumulated(k) PROVE RestInv'
  BY <1>23 DEF WriteAccumulated
<1>24. ASSUME NEW k \in Node, CloseProcess(k) PROVE RestInv'
  BY <1>24 DEF CloseProcess
<1>25. ASSUME NEW k \in Node, ClearProcess(k) PROVE RestInv'
  BY <1>25 DEF ClearProcess
<1>26. ASSUME NEW k \in Node, ClearPid(k) PROVE RestInv'
  BY <1>26 DEF ClearPid
<1>27. ASSUME UNCHANGED vars PROVE RestInv'
  BY <1>27 DEF vars
<1>28. QED   BY <1>1, <1>2, <1>3, <1>4, <1>5, <1>6, <1>7, <1>8, <1>9, <1>10,
     <1>11, <1>12, <1>13, <1>14, <1>15, <1>16, <1>17, <1>18, <1>19, <1>20,
     <1>21, <1>22, <1>23, <1>24, <1>25, <1>26, <1>27
  DEF Next, Environment, Request, MainStep, Thread_Run, Terminated

\* Clearing pids and forgetting nodes keeps pids distinct.
LEMMA DistinctPidsKept ==
  ASSUME TypeOK, DistinctPids, Known' \subseteq Known, Known \subseteq Node,
         \A n \in Node : pid'[n] = pid[n] \/ pid'[n] = 0
  PROVE  DistinctPids'
  BY DEF DistinctPids

\* Only FillNode gives a node a pid, and CheckPID has compared that pid with
\* every node of the list before.
LEMMA DistinctPidsStep ==
  ASSUME TypeOK, RequestInv, NodeInv, RestInv, DistinctPids, [Next]_vars
  PROVE  DistinctPids'
<1> USE MaxNodesAssumption, PidOfAssumption, NoProcAssumption
<1> USE DEF TypeOK, Node, At, osVars, mainVars, listVars, dataVars, eventVars,
         watchVars, fileVars, regVars, ClosingStates, InRequestStates, Known,
         RequestInv, RestInv
<1>0. Known \subseteq Node
  OBVIOUS
<1>1. ASSUME FillNode PROVE DistinctPids'
  BY <1>0, <1>1, SMTT(90) DEF FillNode, NodeInv, DistinctPids
<1>2. ASSUME Environment \/ Request PROVE DistinctPids'
  <2>1. Known' = Known /\ pid' = pid
    BY <1>2 DEF Environment, Request, StartProcess, ExitProcess,
       Thread_CreateThread, Thread_CreateThreadProcess, OutputFileCreated,
       OutputFileFailed, DismissBox
  <2>2. QED BY <1>0, <2>1, DistinctPidsKept
<1>3. ASSUME CheckPID \/ EnterChain \/ Thread_GetEmptyThread \/ AllocateNode
      PROVE  DistinctPids'
  <2>1. Known' = Known /\ pid' = pid
    BY <1>3 DEF CheckPID, EnterChain, Thread_GetEmptyThread, AllocateNode
  <2>2. QED BY <1>0, <2>1, DistinctPidsKept
<1>4. ASSUME SignalNode \/ LinkNode \/ BeginClose PROVE DistinctPids'
  <2>1. Known' \subseteq Known /\ pid' = pid
    BY <1>4 DEF SignalNode, LinkNode, BeginClose
  <2>2. QED BY <1>0, <2>1, DistinctPidsKept
<1>5. ASSUME CloseSetEvent \/ CloseSetEndEvt \/ CloseJoin PROVE DistinctPids'
  <2>1. Known' = Known /\ pid' = pid
    BY <1>5, SMTT(90) DEF CloseSetEvent, CloseSetEndEvt, CloseJoin
  <2>2. QED BY <1>0, <2>1, DistinctPidsKept
<1>6. ASSUME NEW k \in Node, Thread_Run(k) PROVE DistinctPids'
  <2>1. Known' = Known
    BY <1>6 DEF Thread_Run, EndWhileIdle, TakeEvent, WatchNothing, WatchForced,
       WatchEnded, ReadAccumulated, WriteAccumulated, CloseProcess,
       ClearProcess, ClearPid
  <2>2. pid' = pid \/ pid' = [pid EXCEPT ![k] = 0]
    BY <1>6 DEF Thread_Run, EndWhileIdle, TakeEvent, WatchNothing, WatchForced,
       WatchEnded, ReadAccumulated, WriteAccumulated, CloseProcess,
       ClearProcess, ClearPid
  <2>3. QED BY <1>0, <2>1, <2>2, DistinctPidsKept
<1>7. ASSUME UNCHANGED vars PROVE DistinctPids'
  BY <1>7 DEF vars, DistinctPids
<1>8. QED
  BY <1>1, <1>2, <1>3, <1>4, <1>5, <1>6, <1>7 DEF Next, MainStep, Terminated

\* A node is freed only after its thread ended.
LEMMA FreedIsUnusedStep ==
  ASSUME TypeOK, RequestInv, NodeInv, RestInv, FreedIsUnused, [Next]_vars
  PROVE  FreedIsUnused'
<1> USE MaxNodesAssumption, PidOfAssumption, NoProcAssumption
<1> USE DEF TypeOK, Node, At, osVars, mainVars, listVars, dataVars, eventVars,
         watchVars, fileVars, regVars, ClosingStates, InRequestStates, Known,
         Busy, Recording, RequestInv, NodeInv, RestInv, FreedIsUnused
<1>1. ASSUME NEW p \in Procs, StartProcess(p) \/ ExitProcess(p)
      PROVE  FreedIsUnused'
  BY <1>1 DEF StartProcess, ExitProcess
<1>2. ASSUME NEW p \in Procs, Thread_CreateThread(p) \/
            Thread_CreateThreadProcess(p)
      PROVE  FreedIsUnused'
  BY <1>2 DEF Thread_CreateThread, OutputFileCreated, OutputFileFailed,
         Thread_CreateThreadProcess
<1>3. ASSUME DismissBox \/ CheckPID \/ EnterChain \/ Thread_GetEmptyThread \/
            AllocateNode \/ FillNode \/ SignalNode \/ LinkNode
      PROVE  FreedIsUnused'
  BY <1>3 DEF DismissBox, CheckPID, Detected, EnterChain, IsFirst,
         Thread_GetEmptyThread, IsNext, AllocateNode, FillNode, SignalNode,
         LinkNode
<1>4. ASSUME BeginClose \/ CloseSetEvent \/ CloseSetEndEvt \/ CloseJoin
      PROVE  FreedIsUnused'
  BY <1>4 DEF BeginClose, CloseSetEvent, IsFirst, CloseSetEndEvt, CloseJoin,
         ThreadEnded
<1>5. ASSUME NEW k \in Node, EndWhileIdle(k) PROVE FreedIsUnused'
  BY <1>5 DEF EndWhileIdle
<1>6. ASSUME NEW k \in Node, TakeEvent(k) PROVE FreedIsUnused'
  BY <1>6 DEF TakeEvent
<1>7. ASSUME NEW k \in Node, WatchNothing(k) PROVE FreedIsUnused'
  BY <1>7 DEF WatchNothing
<1>8. ASSUME NEW k \in Node, WatchForced(k) PROVE FreedIsUnused'
  BY <1>8 DEF WatchForced
<1>9. ASSUME NEW k \in Node, WatchEnded(k) PROVE FreedIsUnused'
  BY <1>9 DEF WatchEnded
<1>10. ASSUME NEW k \in Node, ReadAccumulated(k) PROVE FreedIsUnused'
  BY <1>10 DEF ReadAccumulated
<1>11. ASSUME NEW k \in Node, WriteAccumulated(k) PROVE FreedIsUnused'
  BY <1>11 DEF WriteAccumulated
<1>12. ASSUME NEW k \in Node, CloseProcess(k) PROVE FreedIsUnused'
  BY <1>12 DEF CloseProcess
<1>13. ASSUME NEW k \in Node, ClearProcess(k) PROVE FreedIsUnused'
  BY <1>13 DEF ClearProcess
<1>14. ASSUME NEW k \in Node, ClearPid(k) PROVE FreedIsUnused'
  BY <1>14 DEF ClearPid
<1>15. ASSUME UNCHANGED vars PROVE FreedIsUnused'
  BY <1>15 DEF vars
<1>16. QED   BY <1>1, <1>2, <1>3, <1>4, <1>5, <1>6, <1>7, <1>8, <1>9, <1>10,
     <1>11, <1>12, <1>13, <1>14, <1>15
  DEF Next, Environment, Request, MainStep, Thread_Run, Terminated

\* The record file is closed by the last step of Thread_Close.
LEMMA FileInvStep ==
  ASSUME TypeOK, RequestInv, FileInv, [Next]_vars
  PROVE  FileInv'
<1> USE MaxNodesAssumption, PidOfAssumption, NoProcAssumption
<1> USE DEF TypeOK, Node, At, osVars, mainVars, listVars, dataVars, eventVars,
         watchVars, fileVars, regVars, ClosingStates, InRequestStates, Known,
         Busy, Recording, RequestInv, FileInv
<1>1. ASSUME NEW p \in Procs, StartProcess(p) \/ ExitProcess(p)
      PROVE  FileInv'
  BY <1>1 DEF StartProcess, ExitProcess
<1>2. ASSUME NEW p \in Procs, Thread_CreateThread(p) \/
            Thread_CreateThreadProcess(p)
      PROVE  FileInv'
  BY <1>2 DEF Thread_CreateThread, OutputFileCreated, OutputFileFailed,
         Thread_CreateThreadProcess
<1>3. ASSUME DismissBox \/ CheckPID \/ EnterChain \/ Thread_GetEmptyThread \/
            AllocateNode \/ FillNode \/ SignalNode \/ LinkNode
      PROVE  FileInv'
  BY <1>3 DEF DismissBox, CheckPID, Detected, EnterChain, IsFirst,
         Thread_GetEmptyThread, IsNext, AllocateNode, FillNode, SignalNode,
         LinkNode
<1>4. ASSUME BeginClose \/ CloseSetEvent \/ CloseSetEndEvt \/ CloseJoin
      PROVE  FileInv'
  BY <1>4 DEF BeginClose, CloseSetEvent, IsFirst, CloseSetEndEvt, CloseJoin,
         ThreadEnded
<1>5. ASSUME NEW k \in Node, EndWhileIdle(k) \/ TakeEvent(k) \/
            WatchNothing(k) \/ WatchForced(k) \/ WatchEnded(k) \/
            ReadAccumulated(k) \/ WriteAccumulated(k) \/ CloseProcess(k) \/
            ClearProcess(k) \/ ClearPid(k)
      PROVE  FileInv'
  BY <1>5 DEF EndWhileIdle, TakeEvent, WatchNothing, WatchForced, WatchEnded,
         ReadAccumulated, WriteAccumulated, CloseProcess, ClearProcess,
         ClearPid
<1>6. ASSUME UNCHANGED vars PROVE FileInv'
  BY <1>6 DEF vars
<1>7. QED   BY <1>1, <1>2, <1>3, <1>4, <1>5, <1>6
  DEF Next, Environment, Request, MainStep, Thread_Run, Terminated

-------------------------------------------------------------------------------
LEMMA InitInv == ASSUME Init PROVE IInv
<1> USE MaxNodesAssumption DEF Init, Node, ClosingStates
<1>1. TypeOK
  BY TypeInit
<1>2. chain = 1..allocated /\ freed = {} /\ mpc = "run" /\ Known = chain
  BY DEF Known
<1>3. RequestInv /\ RestInv
  BY DEF RequestInv, RestInv, InRequestStates
<1>4. NodeInv
  BY <1>2 DEF NodeInv, Busy, Recording
<1>5. DistinctPids /\ FreedIsUnused /\ FileInv
  BY <1>2 DEF DistinctPids, FreedIsUnused, FileInv
<1>6. QED BY <1>1, <1>3, <1>4, <1>5 DEF IInv

\* The inductive invariant holds in every reachable state of Thread_Run, of
\* the requests on the UI thread and of Thread_Close.
THEOREM Invariance == Spec => []IInv
<1>1. Init => IInv
  BY InitInv
<1>2. IInv /\ [Next]_vars => IInv'
  BY TypeStep, RequestInvStep, NodeInvStep, RestInvStep, DistinctPidsStep,
     FreedIsUnusedStep, FileInvStep DEF IInv
<1>3. QED BY <1>1, <1>2, PTL DEF Spec

\* Every variable of the runtime checker keeps its type.
THEOREM TypeCorrect == Spec => []TypeOK
<1>1. IInv => TypeOK
  BY DEF IInv
<1>2. QED BY <1>1, Invariance, PTL

\* One process id is never watched by two nodes, whatever the watchers do
\* while Thread_CheckPID and Thread_GetEmptyThread walk the list.
THEOREM WatchedOnce == Spec => []NoDoubleWatch
<1>1. IInv => NoDoubleWatch
  BY DEF IInv, TypeOK, NodeInv, DistinctPids, NoDoubleWatch, Watching
<1>2. QED BY <1>1, Invariance, PTL

\* The node Thread_GetEmptyThread returns is the UI thread's alone until
\* SetEvent hands it to its thread.
THEOREM ReuseExclusive == Spec => []ReuseIsExclusive
<1>1. ASSUME IInv PROVE ReuseIsExclusive
  <2>1. TypeOK /\ RequestInv /\ NodeInv /\ RestInv
    BY <1>1 DEF IInv
  <2>2. CASE mpc = "fill"
    <3>1. mnode \in Node /\ mnode <= allocated /\ pid[mnode] = 0
      BY <2>1, <2>2 DEF TypeOK, RequestInv, Node
    <3>2. QED BY <2>1, <2>2, <3>1
          DEF RestInv, NodeInv, ClosingStates, ReuseIsExclusive, TypeOK, Node
  <2>3. CASE mpc = "signal"
    BY <2>1, <2>3 DEF TypeOK, RequestInv, RestInv, ClosingStates, ReuseIsExclusive
  <2>4. QED BY <2>2, <2>3 DEF ReuseIsExclusive
<1>2. QED BY <1>1, Invariance, PTL

\* The handshake of Thread_Close with the thread it waits for: a watcher takes
\* endEvt only to end, if need be after its last record.
LEMMA JoinStep ==
  ASSUME TypeOK, JoinWakes, [Next]_vars PROVE JoinWakes'
<1> USE DEF TypeOK, JoinWakes, Recording, At, mainVars, eventVars, watchVars
<1>1. ASSUME NEW p \in Procs, StartProcess(p) \/ ExitProcess(p) PROVE JoinWakes'
  BY <1>1 DEF StartProcess, ExitProcess
<1>2. ASSUME NEW p \in Procs, Thread_CreateThread(p) \/ Thread_CreateThreadProcess(p)
      PROVE  JoinWakes'
  BY <1>2 DEF Thread_CreateThread, Thread_CreateThreadProcess, OutputFileCreated,
              OutputFileFailed
<1>3. CASE \/ DismissBox \/ CheckPID \/ EnterChain \/ Thread_GetEmptyThread
           \/ AllocateNode \/ FillNode \/ SignalNode \/ LinkNode
  BY <1>3 DEF DismissBox, CheckPID, EnterChain, Thread_GetEmptyThread, AllocateNode,
              FillNode, SignalNode, LinkNode
<1>4. CASE BeginClose \/ CloseSetEvent \/ CloseJoin
  BY <1>4 DEF BeginClose, CloseSetEvent, CloseJoin
<1>5. CASE CloseSetEndEvt
  BY <1>5 DEF CloseSetEndEvt
<1>6. ASSUME NEW k \in Node, EndWhileIdle(k) \/ TakeEvent(k) \/ WatchNothing(k)
      PROVE  JoinWakes'
  BY <1>6 DEF EndWhileIdle, TakeEvent, WatchNothing
<1>7. ASSUME NEW k \in Node, WatchForced(k) PROVE JoinWakes'
  BY <1>7 DEF WatchForced
<1>8. ASSUME NEW k \in Node, WatchEnded(k) PROVE JoinWakes'
  BY <1>8 DEF WatchEnded
<1>9. ASSUME NEW k \in Node, ReadAccumulated(k) \/ WriteAccumulated(k) PROVE JoinWakes'
  BY <1>9 DEF ReadAccumulated, WriteAccumulated
<1>10. ASSUME NEW k \in Node, CloseProcess(k) \/ ClearProcess(k) \/ ClearPid(k)
       PROVE  JoinWakes'
  BY <1>10 DEF CloseProcess, ClearProcess, ClearPid
<1>11. CASE UNCHANGED vars
  BY <1>11 DEF vars
<1>12. QED
  BY <1>1, <1>2, <1>3, <1>4, <1>5, <1>6, <1>7, <1>8, <1>9, <1>10, <1>11
     DEF Next, Environment, Request, MainStep, Thread_Run, Terminated

LEMMA JoinInvariance == Spec => []JoinWakes
<1>1. Init => JoinWakes
  BY DEF Init, JoinWakes
<1>2. TypeOK /\ JoinWakes /\ [Next]_vars => JoinWakes'
  BY JoinStep
<1>3. QED
  BY TypeCorrect, <1>1, <1>2, PTL DEF Spec

\* Thread_Close tells every thread to end, joins it before it closes the record
\* file, and before it frees its node.
THEOREM CloseIsOrderly == Spec => []ClosesInOrder
<1>1. ASSUME IInv PROVE NoWriteAfterClose
  <2>1. SUFFICES ASSUME t_file = "closed", NEW n \in Node, wpc[n] \in Recording
                 PROVE  FALSE
    BY DEF NoWriteAfterClose
  <2>2. mpc = "exit" /\ chain = {} /\ Known = freed
    BY <1>1, <2>1 DEF IInv, FileInv, RequestInv, Known
  <2>3. n \in freed
    BY <1>1, <2>1, <2>2 DEF IInv, NodeInv, Busy
  <2>4. QED BY <1>1, <2>1, <2>3 DEF IInv, FreedIsUnused, Recording
<1>2. IInv => FreedIsUnused
  BY DEF IInv
<1>3. IInv /\ JoinWakes => ClosesInOrder
  BY <1>1, <1>2 DEF ClosesInOrder
<1>4. QED BY <1>3, Invariance, JoinInvariance, PTL

-------------------------------------------------------------------------------
(* The accumulated times, and the abstract specification.  Two more facts   *)
(* are inductive together with IInv.                                        *)

\* A node that has a pid has a process, but for the moment between the two
\* stores of the watcher; and a watcher writes a record only about a process
\* that has ended or after Thread_Close has told it to.
TakenInv ==
  \A n \in Node :
    /\ pid[n] # 0 /\ process[n] = NoProc => wpc[n] = "unlock"
    /\ wpc[n] \in Recording => procState[process[n]] = "exited" \/ mpc \in ClosingStates

\* A node has the path of its process, and nobody else changes the time of a
\* program between the read and the write of its only watcher.
AccInv ==
  LongPaths = {} =>
    /\ \A n \in Node : process[n] # NoProc => path[n] = PathOf[process[n]]
    /\ regOpen =>
         \A n \in Node : wpc[n] = "write" /\ RunsAlone(process[n])
                           => acctime[n] = acc[path[n]]
    /\ AccumulatesEveryRecord

\* A node that AllocateNode adds is empty, and its thread begins to wait.
LEMMA AllocatedIsEmpty ==
  ASSUME IInv, AllocateNode, NEW n \in Node
  PROVE  \/ wpc'[n] = wpc[n]
         \/ wpc'[n] = "idle" /\ wpc[n] = "none" /\ pid[n] = 0 /\ process[n] = NoProc
<1> USE DEF IInv, TypeOK, NodeInv, Node
<1>1. CASE UNCHANGED wpc
  BY <1>1
<1>2. CASE allocated < MaxNodes /\ wpc' = [wpc EXCEPT ![allocated + 1] = "idle"]
  <2>1. wpc[allocated + 1] = "none"
    BY <1>2, MaxNodesAssumption
  <2>2. QED
    BY <1>2, <2>1
<1>3. QED
  BY <1>1, <1>2 DEF AllocateNode

LEMMA TakenStep == ASSUME IInv, TakenInv, [Next]_vars PROVE TakenInv'
<1> USE NoProcAssumption, PidOfAssumption
    DEF IInv, TypeOK, Node, At, osVars, mainVars, listVars, dataVars, eventVars, watchVars,
        fileVars, regVars, ClosingStates, RequestInv, InRequestStates, NodeInv, RestInv,
        Recording, TakenInv
<1>1. ASSUME NEW p \in Procs, StartProcess(p) PROVE TakenInv'
  BY <1>1 DEF StartProcess
<1>2. ASSUME NEW p \in Procs, ExitProcess(p) PROVE TakenInv'
  BY <1>2 DEF ExitProcess
<1>3. ASSUME NEW p \in Procs, Thread_CreateThread(p) PROVE TakenInv'
  BY <1>3 DEF Thread_CreateThread, OutputFileCreated, OutputFileFailed
<1>4. ASSUME NEW p \in Procs, Thread_CreateThreadProcess(p) PROVE TakenInv'
  BY <1>4 DEF Thread_CreateThreadProcess, OutputFileCreated, OutputFileFailed
<1>5. CASE DismissBox
  BY <1>5 DEF DismissBox
<1>6. CASE CheckPID
  BY <1>6 DEF CheckPID
<1>7. CASE EnterChain
  BY <1>7 DEF EnterChain
<1>8. CASE Thread_GetEmptyThread
  BY <1>8 DEF Thread_GetEmptyThread
<1>9. CASE AllocateNode
  <2>1. UNCHANGED <<pid, process, procState>> /\ mpc \notin ClosingStates
    BY <1>9 DEF AllocateNode
  <2>2. QED
    BY <1>9, <2>1, AllocatedIsEmpty
<1>10. CASE FillNode
  BY <1>10 DEF FillNode
<1>11. CASE SignalNode
  BY <1>11 DEF SignalNode
<1>12. CASE LinkNode
  BY <1>12 DEF LinkNode
<1>13. CASE BeginClose
  BY <1>13 DEF BeginClose
<1>14. CASE CloseSetEvent
  BY <1>14 DEF CloseSetEvent
<1>15. CASE CloseSetEndEvt
  BY <1>15 DEF CloseSetEndEvt
<1>16. CASE CloseJoin
  BY <1>16 DEF CloseJoin
<1>17. ASSUME NEW k \in Node, EndWhileIdle(k) PROVE TakenInv'
  BY <1>17 DEF EndWhileIdle
<1>18. ASSUME NEW k \in Node, TakeEvent(k) PROVE TakenInv'
  BY <1>18 DEF TakeEvent
<1>19. ASSUME NEW k \in Node, WatchNothing(k) PROVE TakenInv'
  BY <1>19 DEF WatchNothing
<1>20. ASSUME NEW k \in Node, WatchForced(k) PROVE TakenInv'
  BY <1>20 DEF WatchForced
<1>21. ASSUME NEW k \in Node, WatchEnded(k) PROVE TakenInv'
  BY <1>21 DEF WatchEnded, ProcessEnded
<1>22. ASSUME NEW k \in Node, ReadAccumulated(k) PROVE TakenInv'
  BY <1>22 DEF ReadAccumulated
<1>23. ASSUME NEW k \in Node, WriteAccumulated(k) PROVE TakenInv'
  BY <1>23 DEF WriteAccumulated
<1>24. ASSUME NEW k \in Node, CloseProcess(k) PROVE TakenInv'
  BY <1>24 DEF CloseProcess
<1>25. ASSUME NEW k \in Node, ClearProcess(k) PROVE TakenInv'
  BY <1>25 DEF ClearProcess
<1>26. ASSUME NEW k \in Node, ClearPid(k) PROVE TakenInv'
  BY <1>26 DEF ClearPid
<1>27. CASE UNCHANGED vars
  BY <1>27 DEF vars
<1>28. QED
  BY <1>1, <1>2, <1>3, <1>4, <1>5, <1>6, <1>7, <1>8, <1>9, <1>10, <1>11, <1>12, <1>13, <1>14,
     <1>15, <1>16, <1>17, <1>18, <1>19, <1>20, <1>21, <1>22, <1>23, <1>24, <1>25, <1>26,
     <1>27
     DEF Next, Environment, Request, MainStep, Thread_Run, Terminated

\* Two watchers that are writing have different processes.
LEMMA WritersDiffer ==
  ASSUME IInv, NEW m \in Node, NEW n \in Node, m # n,
         wpc[m] \in Recording, wpc[n] \in Recording
  PROVE  /\ process[m] \in Procs /\ process[n] \in Procs
         /\ process[m] # process[n]
<1>1. m \in Known /\ n \in Known
  BY DEF IInv, NodeInv, Busy
<1>2. /\ process[m] \in Procs /\ process[n] \in Procs
      /\ pid[m] = PidOf[process[m]] /\ pid[n] = PidOf[process[n]]
  BY DEF IInv, TypeOK, NodeInv, Recording
<1>3. pid[m] # 0
  BY <1>2, PidOfAssumption
<1>4. QED
  BY <1>1, <1>2, <1>3 DEF IInv, DistinctPids

LEMMA AccStep == ASSUME IInv, TakenInv, AccInv, [Next]_vars PROVE AccInv'
<1> USE NoProcAssumption, PidOfAssumption
    DEF IInv, TypeOK, Node, At, osVars, mainVars, listVars, dataVars, eventVars, watchVars,
        fileVars, regVars, ClosingStates, RequestInv, InRequestStates, NodeInv, RestInv,
        Recording, AccInv,
        AccumulatesEveryRecord
<1>1. ASSUME NEW p \in Procs, StartProcess(p) PROVE AccInv'
  BY <1>1 DEF StartProcess
<1>2. ASSUME NEW p \in Procs, ExitProcess(p) PROVE AccInv'
  BY <1>2 DEF ExitProcess
<1>3. ASSUME NEW p \in Procs, Thread_CreateThread(p) PROVE AccInv'
  BY <1>3 DEF Thread_CreateThread, OutputFileCreated, OutputFileFailed
<1>4. ASSUME NEW p \in Procs, Thread_CreateThreadProcess(p) PROVE AccInv'
  BY <1>4 DEF Thread_CreateThreadProcess, OutputFileCreated, OutputFileFailed
<1>5. CASE DismissBox
  BY <1>5 DEF DismissBox
<1>6. CASE CheckPID
  BY <1>6 DEF CheckPID
<1>7. CASE EnterChain
  BY <1>7 DEF EnterChain
<1>8. CASE Thread_GetEmptyThread
  BY <1>8 DEF Thread_GetEmptyThread
<1>9. CASE AllocateNode
  <2>1. UNCHANGED <<process, path, acctime, acc, recorded, regOpen>>
    BY <1>9 DEF AllocateNode
  <2>2. QED
    BY <1>9, <2>1, AllocatedIsEmpty
<1>10. CASE FillNode
  <2>1. mproc \in Procs /\ mnode \in Node /\ wpc[mnode] = "idle"
    BY <1>10 DEF FillNode
  <2>2. /\ \A n \in Node \ {mnode} : process'[n] = process[n] /\ path'[n] = path[n]
        /\ process'[mnode] = mproc
        /\ LongPaths = {} => path'[mnode] = PathOf[mproc]
        /\ UNCHANGED <<wpc, acctime, acc, recorded, regOpen>>
    BY <1>10, <2>1 DEF FillNode, NodePath
  <2>3. QED
    BY <2>1, <2>2
<1>11. CASE SignalNode
  BY <1>11 DEF SignalNode
<1>12. CASE LinkNode
  BY <1>12 DEF LinkNode
<1>13. CASE BeginClose
  BY <1>13 DEF BeginClose
<1>14. CASE CloseSetEvent
  BY <1>14 DEF CloseSetEvent
<1>15. CASE CloseSetEndEvt
  BY <1>15 DEF CloseSetEndEvt
<1>16. CASE CloseJoin
  BY <1>16 DEF CloseJoin
<1>17. ASSUME NEW k \in Node, EndWhileIdle(k) PROVE AccInv'
  BY <1>17 DEF EndWhileIdle
<1>18. ASSUME NEW k \in Node, TakeEvent(k) PROVE AccInv'
  BY <1>18 DEF TakeEvent
<1>19. ASSUME NEW k \in Node, WatchNothing(k) PROVE AccInv'
  BY <1>19 DEF WatchNothing
<1>20. ASSUME NEW k \in Node, WatchForced(k) PROVE AccInv'
  BY <1>20 DEF WatchForced
<1>21. ASSUME NEW k \in Node, WatchEnded(k) PROVE AccInv'
  BY <1>21 DEF WatchEnded, ProcessEnded
<1>22. ASSUME NEW k \in Node, ReadAccumulated(k) PROVE AccInv'
  BY <1>22 DEF ReadAccumulated
<1>23. ASSUME NEW k \in Node, WriteAccumulated(k) PROVE AccInv'
  <2> SUFFICES ASSUME LongPaths = {} PROVE AccInv'
    OBVIOUS
  <2> DEFINE p == process[k]
  <2>1. /\ p \in Procs /\ path[k] = PathOf[p] /\ path[k] \in Paths
        /\ UNCHANGED <<process, path, acctime, regOpen>>
    BY <1>23 DEF WriteAccumulated
  <2>2. recorded' = [recorded EXCEPT ![p] = recorded[p] + 1]
    BY <1>23 DEF WriteAccumulated
  <2>3. \A n \in Node : wpc'[n] = "write" => n # k /\ wpc[n] = "write"
    BY <1>23 DEF WriteAccumulated
  <2>4. CASE ~regOpen
    BY <2>1, <2>4
  <2>5. CASE regOpen
    <3>1. acc' = [acc EXCEPT ![path[k]] = acctime[k] + 1]
      BY <1>23, <2>5 DEF WriteAccumulated
    <3>2. ASSUME NEW n \in Node, wpc'[n] = "write", RunsAlone(process[n])
          PROVE  acctime[n] = acc'[path[n]]
      <4>1. process[n] \in Procs /\ process[n] # p
        BY <1>23, <2>3, <3>2, WritersDiffer DEF WriteAccumulated
      <4>2. path[n] # path[k]
        BY <2>1, <3>2, <4>1 DEF RunsAlone
      <4>3. QED
        BY <2>3, <2>5, <3>1, <3>2, <4>2
    <3>3. ASSUME NEW q \in Procs, RunsAlone(q) PROVE acc'[PathOf[q]] = recorded'[q]
      <4>1. acc[PathOf[q]] = recorded[q] /\ PathOf[q] \in Paths
        BY <2>5, <3>3 DEF Paths
      <4>2. CASE q = p
        <5>1. acctime[k] = acc[path[k]]
          BY <1>23, <2>5, <3>3, <4>2 DEF WriteAccumulated
        <5>2. QED
          BY <2>1, <2>2, <3>1, <4>1, <4>2, <5>1
      <4>3. CASE q # p
        <5>1. PathOf[q] # path[k]
          BY <2>1, <3>3, <4>3 DEF RunsAlone
        <5>2. QED
          BY <2>2, <3>1, <4>1, <4>3, <5>1
      <4>4. QED
        BY <4>2, <4>3
    <3>4. ASSUME NEW f \in Paths, acc'[f] > 0
          PROVE  \E q \in Procs : PathOf[q] = f /\ recorded'[q] > 0
      <4>1. recorded'[p] > 0
        BY <2>1, <2>2
      <4>2. CASE f = path[k]
        BY <2>1, <4>1, <4>2
      <4>3. CASE f # path[k]
        <5>1. acc[f] > 0
          BY <3>1, <3>4, <4>3
        <5>2. PICK q \in Procs : PathOf[q] = f /\ recorded[q] > 0
          BY <2>5, <5>1
        <5>3. recorded'[q] > 0
          BY <2>1, <2>2, <4>1, <5>2
        <5>4. QED
          BY <5>2, <5>3
      <4>4. QED
        BY <4>2, <4>3
    <3>5. \A n \in Node : process'[n] # NoProc => path'[n] = PathOf[process'[n]]
      BY <2>1
    <3>6. \A n \in Node : wpc'[n] = "write" /\ RunsAlone(process'[n])
                          => acctime'[n] = acc'[path'[n]]
      BY ONLY <2>1, <3>2
    <3>7. AccumulatesEveryRecord'
      BY ONLY <3>3, <3>4 DEF AccumulatesEveryRecord, RunsAlone
    <3>8. QED
      BY ONLY <3>5, <3>6, <3>7 DEF AccInv, RunsAlone
  <2>6. QED
    BY <2>4, <2>5
<1>24. ASSUME NEW k \in Node, CloseProcess(k) PROVE AccInv'
  BY <1>24 DEF CloseProcess
<1>25. ASSUME NEW k \in Node, ClearProcess(k) PROVE AccInv'
  BY <1>25 DEF ClearProcess
<1>26. ASSUME NEW k \in Node, ClearPid(k) PROVE AccInv'
  BY <1>26 DEF ClearPid
<1>27. CASE UNCHANGED vars
  BY <1>27 DEF vars
<1>28. QED
  BY <1>1, <1>2, <1>3, <1>4, <1>5, <1>6, <1>7, <1>8, <1>9, <1>10, <1>11, <1>12, <1>13, <1>14,
     <1>15, <1>16, <1>17, <1>18, <1>19, <1>20, <1>21, <1>22, <1>23, <1>24, <1>25, <1>26,
     <1>27
     DEF Next, Environment, Request, MainStep, Thread_Run, Terminated

LEMMA TakenAccInit == ASSUME Init PROVE TakenInv /\ AccInv
<1>1. /\ \A n \in Node : pid[n] = 0 /\ process[n] = NoProc /\ wpc[n] \in {"idle", "none"}
      /\ \A p \in Procs : PathOf[p] \in Paths /\ recorded[p] = 0
      /\ \A f \in Paths : acc[f] = 0
  BY DEF Init, Paths
<1>2. QED
  BY <1>1 DEF TakenInv, AccInv, AccumulatesEveryRecord, Recording

LEMMA TakenAccInvariance == Spec => [](IInv /\ TakenInv /\ AccInv)
<1>1. IInv /\ TakenInv /\ AccInv /\ [Next]_vars => TakenInv' /\ AccInv'
  BY TakenStep, AccStep
<1>2. QED
  BY Invariance, TakenAccInit, <1>1, PTL DEF Spec

\* However watchers interleave RegGetValue and RegSetValueEx and nodes are
\* reused, the accumulated time of a program counts each of its records once.
THEOREM NoTimeIsLost == Spec => []AccumulatesEveryRecord
<1>1. IInv /\ TakenInv /\ AccInv => AccumulatesEveryRecord
  BY DEF AccInv, AccumulatesEveryRecord
<1>2. QED
  BY TakenAccInvariance, <1>1, PTL

-------------------------------------------------------------------------------
(* The refinement of WatchService.                                          *)

Served(n) == Serving(n) /\ Unreported(n)
Active    == {process[n] : n \in {k \in Node : Served(k)}}
Ended     == {p \in Procs : procState[p] = "exited"}

\* A node that serves a process is known, not freed, and the only one to serve
\* a process with that id.
LEMMA ServedApart ==
  ASSUME IInv, TakenInv, NEW m \in Node, Served(m)
  PROVE  /\ m \in Known /\ process[m] \in Procs /\ pid[m] = PidOf[process[m]]
         /\ \A n \in Node \ {m} : Served(n) => process[n] # process[m]
<1>1. ASSUME NEW n \in Node, Served(n)
      PROVE  n \in Known /\ process[n] \in Procs /\ pid[n] = PidOf[process[n]] /\ pid[n] # 0
  BY <1>1, NoProcAssumption
     DEF Served, Serving, Unreported, Recording, Known, IInv, TypeOK, NodeInv, TakenInv
<1>2. QED
  BY <1>1 DEF IInv, DistinctPids

\* What a step does to the processes served, by what it does to the nodes.
LEMMA ActiveSame ==
  ASSUME \A n \in Node : Served(n)' <=> Served(n),
         \A n \in Node : Served(n) => process'[n] = process[n]
  PROVE  Active' = Active
BY DEF Active

LEMMA ActiveMore ==
  ASSUME NEW k \in Node, ~Served(k), Served(k)', NEW p, process'[k] = p,
         \A n \in Node \ {k} : (Served(n)' <=> Served(n)) /\ process'[n] = process[n]
  PROVE  Active' = Active \cup {p}
BY DEF Active

LEMMA ActiveLess ==
  ASSUME IInv, TakenInv, NEW k \in Node, Served(k), ~Served(k)', process' = process,
         \A n \in Node \ {k} : Served(n)' <=> Served(n)
  PROVE  process[k] \in Active /\ Active' = Active \ {process[k]}
<1>1. \A n \in Node \ {k} : Served(n) => process[n] # process[k]
  BY ServedApart
<1>2. QED
  BY <1>1 DEF Active
Closing   == mpc \in ClosingStates

\* The steps of WatchService, in the terms of this module.
LEMMA Stutter ==
  ASSUME UNCHANGED <<Active, Ended, recorded>>, Closing' <=> Closing
  PROVE  UNCHANGED Service!vars
BY DEF Active, Served, Ended, Closing, Service!vars

LEMMA BeginMapped ==
  ASSUME NEW p \in Procs, ~Closing, \A q \in Active : PidOf[q] # PidOf[p],
         Active' = Active \cup {p}, UNCHANGED <<Ended, recorded>>, Closing' <=> Closing
  PROVE  Service!Next
BY DEF Active, Served, Ended, Closing, Service!Next, Service!Begin

LEMMA RecordMapped ==
  ASSUME NEW p \in Procs, p \in Active, p \in Ended \/ Closing,
         recorded' = [recorded EXCEPT ![p] = @ + 1],
         Active' = Active \ {p}, UNCHANGED Ended, Closing' <=> Closing
  PROVE  Service!Next
<1>1. Service!Record(p)
  BY DEF Active, Served, Ended, Closing, Service!Record
<1>2. QED
  BY <1>1 DEF Service!Next

LEMMA DropMapped ==
  ASSUME NEW p \in Procs, p \in Active, Closing,
         Active' = Active \ {p}, UNCHANGED <<Ended, recorded>>, Closing' <=> Closing
  PROVE  Service!Next
BY DEF Active, Served, Ended, Closing, Service!Next, Service!Drop

\* Every step of the program is a step of WatchService or a stutter: FillNode
\* begins, the last write of Thread_WriteResult records, a watcher that finds
\* endEvt while it is idle drops what its node was given.
LEMMA StepRefines ==
  ASSUME IInv, TakenInv, [Next]_vars PROVE [Service!Next]_Service!vars
<1> USE NoProcAssumption, PidOfAssumption
    DEF IInv, TypeOK, Node, At, osVars, mainVars, listVars, dataVars, eventVars, watchVars,
        fileVars, regVars, ClosingStates, RequestInv, InRequestStates, NodeInv, RestInv,
        Recording, TakenInv, Served, Serving, Unreported, Ended, Closing
<1>1. ASSUME NEW p \in Procs, StartProcess(p) PROVE [Service!Next]_Service!vars
  <2>1. \A n \in Node : /\ Served(n)' <=> Served(n)
                        /\ Served(n) => process'[n] = process[n]
    BY <1>1 DEF StartProcess
  <2>2. UNCHANGED <<Ended, recorded>> /\ (Closing' <=> Closing)
    BY <1>1 DEF StartProcess
  <2>3. QED
    BY <2>1, <2>2, ActiveSame, Stutter
<1>2. ASSUME NEW p \in Procs, ExitProcess(p) PROVE [Service!Next]_Service!vars
  <2>1. \A n \in Node : (Served(n)' <=> Served(n)) /\ process'[n] = process[n]
    BY <1>2 DEF ExitProcess
  <2>2. Active' = Active
    BY <2>1, ActiveSame
  <2>3. p \notin Ended /\ Ended' = Ended \cup {p} /\ recorded' = recorded /\ mpc' = mpc
    BY <1>2 DEF ExitProcess
  <2>4. Service!End(p)
    BY <2>2, <2>3 DEF Service!End, Active
  <2>5. QED
    BY <2>4 DEF Service!Next
<1>3. ASSUME NEW p \in Procs, Thread_CreateThread(p) PROVE [Service!Next]_Service!vars
  <2>1. \A n \in Node : /\ Served(n)' <=> Served(n)
                        /\ Served(n) => process'[n] = process[n]
    BY <1>3 DEF Thread_CreateThread, OutputFileCreated, OutputFileFailed
  <2>2. UNCHANGED <<Ended, recorded>> /\ (Closing' <=> Closing)
    BY <1>3 DEF Thread_CreateThread, OutputFileCreated, OutputFileFailed
  <2>3. QED
    BY <2>1, <2>2, ActiveSame, Stutter
<1>4. ASSUME NEW p \in Procs, Thread_CreateThreadProcess(p) PROVE [Service!Next]_Service!vars
  <2>1. \A n \in Node : /\ Served(n)' <=> Served(n)
                        /\ Served(n) => process'[n] = process[n]
    BY <1>4 DEF Thread_CreateThreadProcess, OutputFileCreated, OutputFileFailed
  <2>2. UNCHANGED <<Ended, recorded>> /\ (Closing' <=> Closing)
    BY <1>4 DEF Thread_CreateThreadProcess, OutputFileCreated, OutputFileFailed
  <2>3. QED
    BY <2>1, <2>2, ActiveSame, Stutter
<1>5. CASE DismissBox
  <2>1. \A n \in Node : /\ Served(n)' <=> Served(n)
                        /\ Served(n) => process'[n] = process[n]
    BY <1>5 DEF DismissBox
  <2>2. UNCHANGED <<Ended, recorded>> /\ (Closing' <=> Closing)
    BY <1>5 DEF DismissBox
  <2>3. QED
    BY <2>1, <2>2, ActiveSame, Stutter
<1>6. CASE CheckPID
  <2>1. \A n \in Node : /\ Served(n)' <=> Served(n)
                        /\ Served(n) => process'[n] = process[n]
    BY <1>6 DEF CheckPID
  <2>2. UNCHANGED <<Ended, recorded>> /\ (Closing' <=> Closing)
    BY <1>6 DEF CheckPID
  <2>3. QED
    BY <2>1, <2>2, ActiveSame, Stutter
<1>7. CASE EnterChain
  <2>1. \A n \in Node : /\ Served(n)' <=> Served(n)
                        /\ Served(n) => process'[n] = process[n]
    BY <1>7 DEF EnterChain
  <2>2. UNCHANGED <<Ended, recorded>> /\ (Closing' <=> Closing)
    BY <1>7 DEF EnterChain
  <2>3. QED
    BY <2>1, <2>2, ActiveSame, Stutter
<1>8. CASE Thread_GetEmptyThread
  <2>1. \A n \in Node : /\ Served(n)' <=> Served(n)
                        /\ Served(n) => process'[n] = process[n]
    BY <1>8 DEF Thread_GetEmptyThread
  <2>2. UNCHANGED <<Ended, recorded>> /\ (Closing' <=> Closing)
    BY <1>8 DEF Thread_GetEmptyThread
  <2>3. QED
    BY <2>1, <2>2, ActiveSame, Stutter
<1>9. CASE AllocateNode
  <2>1. \A n \in Node : /\ Served(n)' <=> Served(n)
                        /\ Served(n) => process'[n] = process[n]
    BY <1>9, AllocatedIsEmpty DEF AllocateNode
  <2>2. UNCHANGED <<Ended, recorded>> /\ (Closing' <=> Closing)
    BY <1>9 DEF AllocateNode
  <2>3. QED
    BY <2>1, <2>2, ActiveSame, Stutter
<1>10. CASE FillNode
  <2>0. PICK k \in Node : k = mnode
    OBVIOUS
  <2>1. /\ mproc \in Procs /\ wpc[k] = "idle" /\ pid[k] = 0
        /\ \A n \in chain : pid[n] # PidOf[mproc]
    BY <1>10, <2>0 DEF FillNode
  <2>2. /\ process'[k] = mproc /\ pid'[k] # 0 /\ ~Served(k)
        /\ \A n \in Node \ {k} : (Served(n)' <=> Served(n)) /\ process'[n] = process[n]
    BY <1>10, <2>0, <2>1 DEF FillNode
  <2>3. UNCHANGED <<Ended, recorded>> /\ ~Closing /\ ~Closing'
    BY <1>10 DEF FillNode
  <2>4. CASE Served(k)'
    <3>1. Active' = Active \cup {mproc}
      BY ONLY <2>1, <2>2, <2>4, ActiveMore
    <3>2. ASSUME NEW q \in Active PROVE PidOf[q] # PidOf[mproc]
      <4>1. PICK n \in Node : Served(n) /\ q = process[n]
        BY <3>2 DEF Active
      <4>2. pid[n] = PidOf[q] /\ n \in chain
        BY <1>10, <4>1, ServedApart DEF FillNode
      <4>3. QED
        BY <2>1, <4>2
    <3>3. QED
      BY <2>1, <2>3, <3>1, <3>2, BeginMapped
  <2>5. CASE ~Served(k)'
    <3>1. Active' = Active
      BY ONLY <2>2, <2>5, ActiveSame
    <3>2. QED
      BY ONLY <2>3, <3>1, Stutter
  <2>6. QED
    BY <2>4, <2>5
<1>11. CASE SignalNode
  <2>1. \A n \in Node : /\ Served(n)' <=> Served(n)
                        /\ Served(n) => process'[n] = process[n]
    BY <1>11 DEF SignalNode
  <2>2. UNCHANGED <<Ended, recorded>> /\ (Closing' <=> Closing)
    BY <1>11 DEF SignalNode
  <2>3. QED
    BY <2>1, <2>2, ActiveSame, Stutter
<1>12. CASE LinkNode
  <2>1. \A n \in Node : /\ Served(n)' <=> Served(n)
                        /\ Served(n) => process'[n] = process[n]
    BY <1>12 DEF LinkNode
  <2>2. UNCHANGED <<Ended, recorded>> /\ (Closing' <=> Closing)
    BY <1>12 DEF LinkNode
  <2>3. QED
    BY <2>1, <2>2, ActiveSame, Stutter
<1>13. CASE BeginClose
  <2>1. \A n \in Node : (Served(n)' <=> Served(n)) /\ process'[n] = process[n]
    BY <1>13 DEF BeginClose
  <2>2. Active' = Active
    BY <2>1, ActiveSame
  <2>3. UNCHANGED <<Ended, recorded>> /\ ~Closing /\ Closing'
    BY <1>13 DEF BeginClose
  <2>4. Service!BeginClose
    BY <2>2, <2>3 DEF Service!BeginClose, Active
  <2>5. QED
    BY <2>4 DEF Service!Next
<1>14. CASE CloseSetEvent
  <2>1. \A n \in Node : /\ Served(n)' <=> Served(n)
                        /\ Served(n) => process'[n] = process[n]
    BY <1>14 DEF CloseSetEvent
  <2>2. UNCHANGED <<Ended, recorded>> /\ (Closing' <=> Closing)
    BY <1>14 DEF CloseSetEvent
  <2>3. QED
    BY <2>1, <2>2, ActiveSame, Stutter
<1>15. CASE CloseSetEndEvt
  <2>1. \A n \in Node : /\ Served(n)' <=> Served(n)
                        /\ Served(n) => process'[n] = process[n]
    BY <1>15 DEF CloseSetEndEvt
  <2>2. UNCHANGED <<Ended, recorded>> /\ (Closing' <=> Closing)
    BY <1>15 DEF CloseSetEndEvt
  <2>3. QED
    BY <2>1, <2>2, ActiveSame, Stutter
<1>16. CASE CloseJoin
  <2>1. \A n \in Node : /\ Served(n)' <=> Served(n)
                        /\ Served(n) => process'[n] = process[n]
    BY <1>16 DEF CloseJoin, ThreadEnded
  <2>2. UNCHANGED <<Ended, recorded>> /\ (Closing' <=> Closing)
    BY <1>16 DEF CloseJoin, ThreadEnded
  <2>3. QED
    BY <2>1, <2>2, ActiveSame, Stutter
<1>17. ASSUME NEW k \in Node, EndWhileIdle(k) PROVE [Service!Next]_Service!vars
  <2>1. /\ \A n \in Node \ {k} : Served(n)' <=> Served(n)
        /\ ~Served(k)' /\ process' = process
    BY <1>17 DEF EndWhileIdle
  <2>2. UNCHANGED <<Ended, recorded>> /\ Closing /\ (Closing' <=> Closing)
    BY <1>17 DEF EndWhileIdle
  <2>3. CASE Served(k)
    <3>1. process[k] \in Active /\ Active' = Active \ {process[k]}
      BY <2>1, <2>3, ActiveLess
    <3>2. process[k] \in Procs
      BY <2>3, ServedApart
    <3>3. QED
      BY <2>2, <3>1, <3>2, DropMapped
  <2>4. CASE ~Served(k)
    BY <2>1, <2>2, <2>4, ActiveSame, Stutter
  <2>5. QED
    BY <2>3, <2>4
<1>18. ASSUME NEW k \in Node, TakeEvent(k) PROVE [Service!Next]_Service!vars
  <2>1. \A n \in Node : /\ Served(n)' <=> Served(n)
                        /\ Served(n) => process'[n] = process[n]
    BY <1>18 DEF TakeEvent
  <2>2. UNCHANGED <<Ended, recorded>> /\ (Closing' <=> Closing)
    BY <1>18 DEF TakeEvent
  <2>3. QED
    BY <2>1, <2>2, ActiveSame, Stutter
<1>19. ASSUME NEW k \in Node, WatchNothing(k) PROVE [Service!Next]_Service!vars
  <2>1. \A n \in Node : /\ Served(n)' <=> Served(n)
                        /\ Served(n) => process'[n] = process[n]
    BY <1>19 DEF WatchNothing
  <2>2. UNCHANGED <<Ended, recorded>> /\ (Closing' <=> Closing)
    BY <1>19 DEF WatchNothing
  <2>3. QED
    BY <2>1, <2>2, ActiveSame, Stutter
<1>20. ASSUME NEW k \in Node, WatchForced(k) PROVE [Service!Next]_Service!vars
  <2>1. \A n \in Node : /\ Served(n)' <=> Served(n)
                        /\ Served(n) => process'[n] = process[n]
    BY <1>20 DEF WatchForced
  <2>2. UNCHANGED <<Ended, recorded>> /\ (Closing' <=> Closing)
    BY <1>20 DEF WatchForced
  <2>3. QED
    BY <2>1, <2>2, ActiveSame, Stutter
<1>21. ASSUME NEW k \in Node, WatchEnded(k) PROVE [Service!Next]_Service!vars
  <2>1. \A n \in Node : /\ Served(n)' <=> Served(n)
                        /\ Served(n) => process'[n] = process[n]
    BY <1>21 DEF WatchEnded
  <2>2. UNCHANGED <<Ended, recorded>> /\ (Closing' <=> Closing)
    BY <1>21 DEF WatchEnded
  <2>3. QED
    BY <2>1, <2>2, ActiveSame, Stutter
<1>22. ASSUME NEW k \in Node, ReadAccumulated(k) PROVE [Service!Next]_Service!vars
  <2>1. \A n \in Node : /\ Served(n)' <=> Served(n)
                        /\ Served(n) => process'[n] = process[n]
    BY <1>22 DEF ReadAccumulated
  <2>2. UNCHANGED <<Ended, recorded>> /\ (Closing' <=> Closing)
    BY <1>22 DEF ReadAccumulated
  <2>3. QED
    BY <2>1, <2>2, ActiveSame, Stutter
<1>23. ASSUME NEW k \in Node, WriteAccumulated(k) PROVE [Service!Next]_Service!vars
  <2>1. /\ process[k] \in Procs /\ pid[k] # 0
        /\ procState[process[k]] = "exited" \/ Closing
    <3>1. wpc[k] = "write"
      BY <1>23 DEF WriteAccumulated
    <3>2. process[k] # NoProc
      BY <3>1
    <3>3. process[k] \in Procs
      <4>1. process \in [Node -> Procs \cup {NoProc}]
        OBVIOUS
      <4>2. QED
        BY ONLY <3>2, <4>1
    <3>4. pid[k] = PidOf[process[k]] /\ PidOf[process[k]] # 0
      BY <3>2, <3>3
    <3>5. procState[process[k]] = "exited" \/ Closing
      BY <3>1
    <3>6. QED
      BY ONLY <3>3, <3>4, <3>5
  <2>2. Served(k)
    BY <1>23, <2>1 DEF WriteAccumulated, Busy, Known, FreedIsUnused
  <2>3. /\ \A n \in Node \ {k} : Served(n)' <=> Served(n)
        /\ ~Served(k)' /\ process' = process
    BY <1>23 DEF WriteAccumulated
  <2>4. /\ recorded' = [recorded EXCEPT ![process[k]] = @ + 1]
        /\ UNCHANGED Ended /\ (Closing' <=> Closing)
    BY <1>23 DEF WriteAccumulated
  <2>5. process[k] \in Active /\ Active' = Active \ {process[k]}
    BY <2>2, <2>3, ActiveLess
  <2>6. process[k] \in Ended \/ Closing
    BY <2>1
  <2>7. QED
    BY <2>1, <2>4, <2>5, <2>6, RecordMapped
<1>24. ASSUME NEW k \in Node, CloseProcess(k) PROVE [Service!Next]_Service!vars
  <2>1. \A n \in Node : /\ Served(n)' <=> Served(n)
                        /\ Served(n) => process'[n] = process[n]
    BY <1>24 DEF CloseProcess
  <2>2. UNCHANGED <<Ended, recorded>> /\ (Closing' <=> Closing)
    BY <1>24 DEF CloseProcess
  <2>3. QED
    BY <2>1, <2>2, ActiveSame, Stutter
<1>25. ASSUME NEW k \in Node, ClearProcess(k) PROVE [Service!Next]_Service!vars
  <2>1. \A n \in Node : /\ Served(n)' <=> Served(n)
                        /\ Served(n) => process'[n] = process[n]
    BY <1>25 DEF ClearProcess
  <2>2. UNCHANGED <<Ended, recorded>> /\ (Closing' <=> Closing)
    BY <1>25 DEF ClearProcess
  <2>3. QED
    BY <2>1, <2>2, ActiveSame, Stutter
<1>26. ASSUME NEW k \in Node, ClearPid(k) PROVE [Service!Next]_Service!vars
  <2>1. \A n \in Node : /\ Served(n)' <=> Served(n)
                        /\ Served(n) => process'[n] = process[n]
    BY <1>26 DEF ClearPid
  <2>2. UNCHANGED <<Ended, recorded>> /\ (Closing' <=> Closing)
    BY <1>26 DEF ClearPid
  <2>3. QED
    BY <2>1, <2>2, ActiveSame, Stutter
<1>27. CASE UNCHANGED vars
  <2>1. \A n \in Node : (Served(n)' <=> Served(n)) /\ process'[n] = process[n]
    BY <1>27 DEF vars
  <2>2. UNCHANGED <<Ended, recorded>> /\ (Closing' <=> Closing)
    BY <1>27 DEF vars
  <2>3. QED
    BY <2>1, <2>2, ActiveSame, Stutter
<1>28. QED
  BY <1>1, <1>2, <1>3, <1>4, <1>5, <1>6, <1>7, <1>8, <1>9, <1>10, <1>11, <1>12, <1>13,
     <1>14, <1>15, <1>16, <1>17, <1>18, <1>19, <1>20, <1>21, <1>22, <1>23, <1>24, <1>25,
     <1>26, <1>27
     DEF Next, Environment, Request, MainStep, Thread_Run, Terminated

\* The runtime checker keeps the promise of WatchService: a process is taken
\* on once, and let go with a record about it, written after it ended or once
\* the program is closing, however requests, watchers and Thread_Close
\* interleave.
THEOREM ServiceIsImplemented == Spec => ImplementsService
<1>1. Init => Service!Init
  <2> SUFFICES ASSUME Init PROVE Service!Init
    OBVIOUS
  <2>1. \A n \in Node : pid[n] = 0
    BY DEF Init
  <2>2. Active = {}
    BY <2>1 DEF Active, Served, Unreported
  <2>3. Ended = {} /\ ~Closing /\ recorded = [p \in Procs |-> 0]
    BY DEF Init, Ended, Closing, ClosingStates
  <2>4. QED
    BY <2>2, <2>3 DEF Service!Init, Active, Served, Ended, Closing
<1>2. IInv /\ TakenInv /\ [Next]_vars => [Service!Next]_Service!vars
  BY StepRefines
<1>3. QED
  BY TakenAccInvariance, <1>1, <1>2, PTL DEF Spec, ImplementsService, Service!Spec
-------------------------------------------------------------------------------
(* The handles.                                                             *)

InBoxes(b, p) == {i \in DOMAIN b : b[i].proc = p}

\* Who holds handles of a process, by number.
Held(p)  == Cardinality(HeldBy(p))
Shown(p) == Cardinality(InBoxes(boxes, p))

\* What is counted is finite.
LEMMA PartFinite ==
  ASSUME NEW m \in Nat, NEW S, S \subseteq 1..m
  PROVE  IsFiniteSet(S) /\ Cardinality(S) \in Nat
<1>1. IsFiniteSet(1..m)
  BY FS_Interval
<1>2. IsFiniteSet(S)
  BY <1>1, FS_Subset
<1>3. QED
  BY <1>2, FS_CardinalityType

LEMMA InBoxesFinite ==
  ASSUME NEW b \in Seq(Box), NEW p
  PROVE  IsFiniteSet(InBoxes(b, p)) /\ Cardinality(InBoxes(b, p)) \in Nat
<1>1. Len(b) \in Nat /\ InBoxes(b, p) \subseteq 1..Len(b)
  BY DEF InBoxes
<1>2. QED
  BY <1>1, PartFinite

LEMMA HeldFinite ==
  ASSUME TypeOK, NEW p
  PROVE  IsFiniteSet(HeldBy(p)) /\ Cardinality(HeldBy(p)) \in Nat
<1>1. allocated \in Nat /\ HeldBy(p) \subseteq 1..allocated
  BY MaxNodesAssumption DEF TypeOK, HeldBy
<1>2. QED
  BY <1>1, PartFinite

\* A message box that opens, or the innermost one that closes, counts for the
\* process of its request alone.
LEMMA BoxOpens ==
  ASSUME NEW b \in Seq(Box), NEW x \in Box, NEW p
  PROVE  Cardinality(InBoxes(Append(b, x), p))
           = Cardinality(InBoxes(b, p)) + (IF x.proc = p THEN 1 ELSE 0)
<1> DEFINE n == Len(b) + 1
<1>1. /\ DOMAIN Append(b, x) = DOMAIN b \cup {n} /\ n \notin DOMAIN b
      /\ Append(b, x)[n] = x
      /\ \A i \in DOMAIN b : Append(b, x)[i] = b[i]
  OBVIOUS
<1>2. CASE x.proc = p
  <2>1. InBoxes(Append(b, x), p) = InBoxes(b, p) \cup {n} /\ n \notin InBoxes(b, p)
    BY ONLY <1>1, <1>2 DEF InBoxes
  <2>2. QED
    BY <1>2, <2>1, InBoxesFinite, FS_AddElement
<1>3. CASE x.proc # p
  <2>1. InBoxes(Append(b, x), p) = InBoxes(b, p)
    BY ONLY <1>1, <1>3 DEF InBoxes
  <2>2. QED
    BY <1>3, <2>1, InBoxesFinite
<1>4. QED
  BY <1>2, <1>3

LEMMA BoxCloses ==
  ASSUME NEW b \in Seq(Box), b # <<>>, NEW p
  PROVE  Cardinality(InBoxes(SubSeq(b, 1, Len(b) - 1), p))
           = Cardinality(InBoxes(b, p)) - (IF b[Len(b)].proc = p THEN 1 ELSE 0)
<1> DEFINE n == Len(b)
           c == SubSeq(b, 1, n - 1)
<1>1. /\ n \in DOMAIN b /\ DOMAIN c = DOMAIN b \ {n}
      /\ \A i \in DOMAIN c : c[i] = b[i]
  OBVIOUS
<1>2. CASE b[n].proc = p
  <2>1. InBoxes(c, p) = InBoxes(b, p) \ {n} /\ n \in InBoxes(b, p)
    BY ONLY <1>1, <1>2 DEF InBoxes
  <2>2. QED
    <3>1. Cardinality(InBoxes(b, p) \ {n}) = Cardinality(InBoxes(b, p)) - 1
      BY <2>1, InBoxesFinite, FS_RemoveElement
    <3>2. QED
      BY <1>2, <2>1, <3>1
<1>3. CASE b[n].proc # p
  <2>1. InBoxes(c, p) = InBoxes(b, p)
    BY ONLY <1>1, <1>3 DEF InBoxes
  <2>2. QED
    BY <1>3, <2>1, InBoxesFinite
<1>4. QED
  BY <1>2, <1>3

Numbers(p) == Held(p) \in Nat /\ Shown(p) \in Nat /\ InRequest(p) \in {0, 1}

LEMMA NumbersType == ASSUME TypeOK, NEW p PROVE Numbers(p)
BY HeldFinite, InBoxesFinite DEF TypeOK, Numbers, Held, Shown, InRequest

LEMMA NumbersTypeNext == ASSUME TypeOK', NEW p PROVE Numbers(p)'
<1>1. /\ allocated' \in Nat /\ HeldBy(p)' \subseteq 1..allocated'
      /\ boxes' \in Seq(Box)
  BY MaxNodesAssumption DEF TypeOK, HeldBy
<1>2. QED
  BY <1>1, PartFinite, InBoxesFinite DEF Numbers, Held, Shown, InRequest

\* A step moves as many handles of a process as it adds to or takes from those
\* who hold them.
Balanced(p) ==
  handles'[p] - handles[p] = (Held(p)' - Held(p)) + (InRequest(p)' - InRequest(p))
                             + (Shown(p)' - Shown(p))

LEMMA NothingMoves ==
  ASSUME TypeOK, TypeOK', NEW p \in Procs, HeldBy(p)' = HeldBy(p),
         InRequest(p)' = InRequest(p), UNCHANGED <<handles, boxes>>
  PROVE  Balanced(p)
<1>1. Held(p)' = Held(p) /\ Shown(p)' = Shown(p)
  BY DEF Held, Shown
<1>2. handles[p] \in Int
  BY DEF TypeOK
<1>3. QED
  BY <1>1, <1>2, NumbersType DEF Numbers, Balanced

LEMMA HandlesBalance ==
  ASSUME IInv, TypeOK', [Next]_vars, NEW p \in Procs PROVE Balanced(p)
<1> USE NoProcAssumption, MaxNodesAssumption
    DEF At, osVars, mainVars, listVars, dataVars, eventVars, watchVars, fileVars, regVars
<1>a. /\ handles \in [Procs -> Int] /\ handles[p] \in Int /\ boxes \in Seq(Box)
      /\ TypeOK /\ RequestInv /\ NodeInv /\ RestInv /\ FreedIsUnused
  BY DEF IInv, TypeOK
<1>b. /\ Held(p) \in Nat /\ Held(p)' \in Nat /\ Shown(p) \in Nat
      /\ InRequest(p) \in {0, 1} /\ InRequest(p)' \in {0, 1}
  BY <1>a, NumbersType, NumbersTypeNext DEF Numbers
<1>c. ASSUME NEW q \in Procs, Open(q)
      PROVE  handles'[p] = handles[p] + (IF q = p THEN 1 ELSE 0)
  BY <1>a, <1>c DEF Open
<1>d. ASSUME NEW q \in Procs, Close(q)
      PROVE  handles'[p] = handles[p] - (IF q = p THEN 1 ELSE 0)
  BY <1>a, <1>d DEF Close
<1>e. ASSUME NEW kind \in {"file", "note"}, NEW q \in Procs,
             boxes' = Append(boxes, [kind |-> kind, proc |-> q])
      PROVE  Shown(p)' = Shown(p) + (IF q = p THEN 1 ELSE 0)
  <2>1. [kind |-> kind, proc |-> q] \in Box
    BY DEF Box
  <2>2. QED
    BY <1>a, <1>e, <2>1, BoxOpens DEF Shown
<1>f. ASSUME HeldBy(p)' = HeldBy(p) PROVE Held(p)' = Held(p)
  BY <1>f DEF Held
<1>g. ASSUME UNCHANGED boxes PROVE Shown(p)' = Shown(p)
  BY <1>g DEF Shown
\* A node takes a process, or lets one go.
<1>h. ASSUME NEW k, k \notin HeldBy(p), HeldBy(p)' = HeldBy(p) \cup {k}
      PROVE  Held(p)' = Held(p) + 1
  BY <1>a, <1>h, HeldFinite, FS_AddElement DEF Held
<1>i. ASSUME NEW k \in HeldBy(p), HeldBy(p)' = HeldBy(p) \ {k}
      PROVE  Held(p)' = Held(p) - 1
  BY <1>a, <1>i, HeldFinite, FS_RemoveElement DEF Held
<1>1. ASSUME NEW q \in Procs, StartProcess(q) PROVE Balanced(p)
  <2>1. HeldBy(p)' = HeldBy(p)
    BY <1>1 DEF StartProcess, HeldBy
  <2>2. InRequest(p)' = InRequest(p) /\ UNCHANGED <<handles, boxes>>
    BY <1>1 DEF StartProcess, InRequest
  <2>3. QED
    BY <1>a, <2>1, <2>2, NothingMoves
<1>2. ASSUME NEW q \in Procs, ExitProcess(q) PROVE Balanced(p)
  <2>1. HeldBy(p)' = HeldBy(p)
    BY <1>2 DEF ExitProcess, HeldBy
  <2>2. InRequest(p)' = InRequest(p) /\ UNCHANGED <<handles, boxes>>
    BY <1>2 DEF ExitProcess, InRequest
  <2>3. QED
    BY <1>a, <2>1, <2>2, NothingMoves
<1>3. ASSUME NEW q \in Procs, Thread_CreateThread(q) PROVE Balanced(p)
  <2>1. HeldBy(p)' = HeldBy(p)
    BY <1>3 DEF Thread_CreateThread, HeldBy
  <2>2. mpc = "run" /\ InRequest(p) = 0
    BY <1>3 DEF Thread_CreateThread, InRequest
  <2>3. CASE OutputFileCreated(q)
    <3>1. UNCHANGED boxes
      BY <2>3 DEF OutputFileCreated
    <3>2. CASE UNCHANGED <<handles, mpc, mproc>>
      <4>1. InRequest(p)' = 0
        BY <2>2, <3>2 DEF InRequest
      <4>2. QED
        BY <1>a, <1>b, <1>f, <1>g, <2>1, <2>2, <3>1, <3>2, <4>1 DEF Balanced
    <3>3. CASE Open(q) /\ mpc' = "check" /\ mproc' = q
      <4>1. InRequest(p)' = IF q = p THEN 1 ELSE 0
        BY <3>3 DEF InRequest
      <4>2. QED
        BY <1>a, <1>b, <1>c, <1>f, <1>g, <2>1, <2>2, <3>1, <3>3, <4>1 DEF Balanced
    <3>4. QED
      BY <2>3, <3>2, <3>3 DEF OutputFileCreated
  <2>4. CASE OutputFileFailed(q)
    <3>1. InRequest(p)' = 0 /\ Open(q)
      BY <2>2, <2>4 DEF OutputFileFailed, InRequest
    <3>2. PICK kind \in {"file", "note"} :
            boxes' = Append(boxes, [kind |-> kind, proc |-> q])
      BY <2>4 DEF OutputFileFailed
    <3>3. QED
      BY <1>a, <1>b, <1>c, <1>e, <1>f, <2>1, <2>2, <3>1, <3>2 DEF Balanced
  <2>5. QED
    BY <1>3, <2>3, <2>4 DEF Thread_CreateThread
<1>4. ASSUME NEW q \in Procs, Thread_CreateThreadProcess(q) PROVE Balanced(p)
  <2>1. HeldBy(p)' = HeldBy(p)
    BY <1>4 DEF Thread_CreateThreadProcess, HeldBy
  <2>2. mpc = "run" /\ InRequest(p) = 0
    BY <1>4 DEF Thread_CreateThreadProcess, InRequest
  <2>3. CASE OutputFileCreated(q)
    <3>1. UNCHANGED boxes
      BY <2>3 DEF OutputFileCreated
    <3>2. CASE UNCHANGED <<handles, mpc, mproc>>
      <4>1. InRequest(p)' = 0
        BY <2>2, <3>2 DEF InRequest
      <4>2. QED
        BY <1>a, <1>b, <1>f, <1>g, <2>1, <2>2, <3>1, <3>2, <4>1 DEF Balanced
    <3>3. CASE Open(q) /\ mpc' = "check" /\ mproc' = q
      <4>1. InRequest(p)' = IF q = p THEN 1 ELSE 0
        BY <3>3 DEF InRequest
      <4>2. QED
        BY <1>a, <1>b, <1>c, <1>f, <1>g, <2>1, <2>2, <3>1, <3>3, <4>1 DEF Balanced
    <3>4. QED
      BY <2>3, <3>2, <3>3 DEF OutputFileCreated
  <2>4. CASE OutputFileFailed(q)
    <3>1. InRequest(p)' = 0 /\ Open(q)
      BY <2>2, <2>4 DEF OutputFileFailed, InRequest
    <3>2. PICK kind \in {"file", "note"} :
            boxes' = Append(boxes, [kind |-> kind, proc |-> q])
      BY <2>4 DEF OutputFileFailed
    <3>3. QED
      BY <1>a, <1>b, <1>c, <1>e, <1>f, <2>1, <2>2, <3>1, <3>2 DEF Balanced
  <2>5. QED
    BY <1>4, <2>3, <2>4 DEF Thread_CreateThreadProcess
<1>5. CASE DismissBox
  <2> DEFINE q == boxes[Len(boxes)].proc
  <2>1. q \in Procs /\ Close(q) /\ HeldBy(p)' = HeldBy(p)
    BY <1>a, <1>5, BoxRemove DEF DismissBox, HeldBy
  <2>2. InRequest(p)' = InRequest(p)
    BY <1>5 DEF DismissBox, InRequest
  <2>3. Shown(p)' = Shown(p) - (IF q = p THEN 1 ELSE 0)
    BY <1>a, <1>5, BoxCloses DEF DismissBox, Shown
  <2> HIDE DEF q
  <2>4. QED
    BY <1>a, <1>b, <1>d, <1>f, <2>1, <2>2, <2>3 DEF Balanced
<1>6. CASE CheckPID
  <2>1. mproc \in Procs /\ HeldBy(p)' = HeldBy(p) /\ mpc = "check"
    BY <1>a, <1>6 DEF CheckPID, RequestInv, InRequestStates, HeldBy
  <2>2. InRequest(p) = IF mproc = p THEN 1 ELSE 0
    BY <2>1 DEF InRequest
  <2>3. CASE mpc' = "run" /\ boxes' = Append(boxes, [kind |-> "note", proc |-> mproc])
             /\ UNCHANGED handles
    <3>1. InRequest(p)' = 0
      BY <2>3 DEF InRequest
    <3>2. Shown(p)' = Shown(p) + (IF mproc = p THEN 1 ELSE 0)
      BY <1>e, <2>1, <2>3
    <3>3. QED
      BY <1>a, <1>b, <1>f, <2>1, <2>2, <2>3, <3>1, <3>2 DEF Balanced
  <2>4. CASE mpc' = "run" /\ Close(mproc) /\ UNCHANGED boxes
    <3>1. InRequest(p)' = 0
      BY <2>4 DEF InRequest
    <3>2. QED
      BY <1>a, <1>b, <1>d, <1>f, <1>g, <2>1, <2>2, <2>4, <3>1 DEF Balanced
  <2>5. CASE mpc' = "first" /\ UNCHANGED <<mproc, boxes, handles>>
    <3>1. InRequest(p)' = InRequest(p)
      BY <2>1, <2>5 DEF InRequest
    <3>2. QED
      BY <1>a, <2>1, <2>5, <3>1, NothingMoves
  <2>6. QED
    BY <1>6, <2>3, <2>4, <2>5 DEF CheckPID
<1>7. CASE EnterChain
  <2>1. HeldBy(p)' = HeldBy(p)
    BY <1>7 DEF EnterChain, HeldBy
  <2>2. InRequest(p)' = InRequest(p) /\ UNCHANGED <<handles, boxes>>
    BY <1>7 DEF EnterChain, InRequest
  <2>3. QED
    BY <1>a, <2>1, <2>2, NothingMoves
<1>8. CASE Thread_GetEmptyThread
  <2>1. HeldBy(p)' = HeldBy(p)
    BY <1>8 DEF Thread_GetEmptyThread, HeldBy
  <2>2. InRequest(p)' = InRequest(p) /\ UNCHANGED <<handles, boxes>>
    BY <1>8 DEF Thread_GetEmptyThread, InRequest
  <2>3. QED
    BY <1>a, <2>1, <2>2, NothingMoves
<1>9. CASE AllocateNode
  <2>1. mproc \in Procs /\ mpc = "alloc"
    BY <1>a, <1>9 DEF AllocateNode, RequestInv, InRequestStates
  <2>2. HeldBy(p)' = HeldBy(p)
    <3>1. CASE UNCHANGED <<allocated, wpc>>
      BY <1>9, <3>1 DEF AllocateNode, HeldBy
    <3>2. CASE allocated < MaxNodes /\ allocated' = allocated + 1
               /\ wpc' = [wpc EXCEPT ![allocated + 1] = "idle"]
      <4>1. /\ allocated \in Nat /\ allocated + 1 \in Node
            /\ 1..allocated' = 1..allocated \cup {allocated + 1}
            /\ \A n \in 1..allocated : wpc'[n] = wpc[n]
        <5>1. allocated \in 0..MaxNodes
          BY <1>a DEF TypeOK
        <5>2. /\ allocated \in Nat /\ allocated + 1 \in Node
              /\ 1..allocated' = 1..allocated \cup {allocated + 1}
          BY ONLY <3>2, <5>1, MaxNodesAssumption DEF Node
        <5>3. \A n \in 1..allocated : n \in Node /\ n # allocated + 1
          BY ONLY <5>1, MaxNodesAssumption DEF Node
        <5>4. wpc \in [Node -> {"none", "idle", "watch", "read", "write", "close",
                                "clear", "unlock", "exited"}]
          BY <1>a DEF TypeOK
        <5>5. QED
          BY ONLY <3>2, <5>2, <5>3, <5>4
      <4>2. process[allocated + 1] = NoProc
        BY <1>a, <4>1 DEF NodeInv, Node
      <4>3. UNCHANGED <<freed, process>>
        BY <1>9 DEF AllocateNode
      <4>4. QED
        BY <4>1, <4>2, <4>3 DEF HeldBy
    <3>3. QED
      BY <1>9, <3>1, <3>2 DEF AllocateNode
  <2>3. InRequest(p) = IF mproc = p THEN 1 ELSE 0
    BY <2>1 DEF InRequest
  <2>4. CASE mpc' = "fill" /\ UNCHANGED <<handles, mproc>>
    <3>1. InRequest(p)' = InRequest(p) /\ UNCHANGED boxes
      BY <1>9, <2>1, <2>4 DEF AllocateNode, InRequest
    <3>2. QED
      BY <1>a, <2>2, <2>4, <3>1, NothingMoves
  <2>5. CASE mpc' = "run" /\ Close(mproc)
    <3>1. InRequest(p)' = 0 /\ UNCHANGED boxes
      BY <1>9, <2>5 DEF AllocateNode, InRequest
    <3>2. QED
      BY <1>a, <1>b, <1>d, <1>f, <1>g, <2>1, <2>2, <2>3, <2>5, <3>1 DEF Balanced
  <2>6. QED
    BY <1>9, <2>4, <2>5 DEF AllocateNode
<1>10. CASE FillNode
  <2>1. mproc \in Procs /\ mpc = "fill"
    BY <1>a, <1>10 DEF FillNode, RequestInv, InRequestStates
  <2>2. /\ mnode \in 1..allocated /\ mnode \in Node /\ mnode \notin freed
        /\ process[mnode] = NoProc /\ wpc[mnode] = "idle"
    BY <1>a, <2>1 DEF TypeOK, Node, RequestInv, NodeInv, RestInv, ClosingStates
  <2>3. /\ process'[mnode] = mproc
        /\ \A n \in 1..allocated : n # mnode => process'[n] = process[n]
        /\ UNCHANGED <<handles, boxes, allocated, freed, wpc>>
    BY <1>a, <1>10, <2>2 DEF FillNode, TypeOK
  <2>4. InRequest(p) = (IF mproc = p THEN 1 ELSE 0) /\ InRequest(p)' = 0
    BY <1>10, <2>1 DEF FillNode, InRequest
  <2>5. CASE mproc = p
    <3>1. mnode \notin HeldBy(p) /\ HeldBy(p)' = HeldBy(p) \cup {mnode}
      BY <2>1, <2>2, <2>3, <2>5 DEF HeldBy
    <3>2. QED
      BY <1>a, <1>b, <1>g, <1>h, <2>3, <2>4, <2>5, <3>1 DEF Balanced
  <2>6. CASE mproc # p
    <3>1. HeldBy(p)' = HeldBy(p)
      BY <2>1, <2>2, <2>3, <2>6 DEF HeldBy
    <3>2. QED
      BY <1>a, <1>b, <1>f, <1>g, <2>3, <2>4, <2>6, <3>1 DEF Balanced
  <2>7. QED
    BY <2>5, <2>6
<1>11. CASE SignalNode
  <2>1. HeldBy(p)' = HeldBy(p)
    BY <1>11 DEF SignalNode, HeldBy
  <2>2. InRequest(p)' = InRequest(p) /\ UNCHANGED <<handles, boxes>>
    BY <1>11 DEF SignalNode, InRequest
  <2>3. QED
    BY <1>a, <2>1, <2>2, NothingMoves
<1>12. CASE LinkNode
  <2>1. HeldBy(p)' = HeldBy(p)
    BY <1>12 DEF LinkNode, HeldBy
  <2>2. InRequest(p)' = InRequest(p) /\ UNCHANGED <<handles, boxes>>
    BY <1>12 DEF LinkNode, InRequest
  <2>3. QED
    BY <1>a, <2>1, <2>2, NothingMoves
<1>13. CASE BeginClose
  <2>1. HeldBy(p)' = HeldBy(p)
    BY <1>13 DEF BeginClose, HeldBy
  <2>2. InRequest(p)' = InRequest(p) /\ UNCHANGED <<handles, boxes>>
    BY <1>13 DEF BeginClose, InRequest
  <2>3. QED
    BY <1>a, <2>1, <2>2, NothingMoves
<1>14. CASE CloseSetEvent
  <2>1. HeldBy(p)' = HeldBy(p)
    BY <1>14 DEF CloseSetEvent, HeldBy
  <2>2. InRequest(p)' = InRequest(p) /\ UNCHANGED <<handles, boxes>>
    BY <1>14 DEF CloseSetEvent, InRequest
  <2>3. QED
    BY <1>a, <2>1, <2>2, NothingMoves
<1>15. CASE CloseSetEndEvt
  <2>1. HeldBy(p)' = HeldBy(p)
    BY <1>15 DEF CloseSetEndEvt, HeldBy
  <2>2. InRequest(p)' = InRequest(p) /\ UNCHANGED <<handles, boxes>>
    BY <1>15 DEF CloseSetEndEvt, InRequest
  <2>3. QED
    BY <1>a, <2>1, <2>2, NothingMoves
<1>16. CASE CloseJoin
  <2> DEFINE q == process[mnode]
  <2>1. /\ mnode \in 1..allocated /\ mnode \in Node /\ mnode \notin freed
        /\ wpc[mnode] = "exited" /\ q \in Procs \cup {NoProc}
    BY <1>a, <1>16 DEF CloseJoin, ThreadEnded, TypeOK, RequestInv, FreedIsUnused
  <2>2. /\ freed' = freed \cup {mnode}
        /\ UNCHANGED <<boxes, allocated, wpc, process>>
    BY <1>16 DEF CloseJoin
  <2>3. InRequest(p) = 0 /\ InRequest(p)' = 0
    BY <1>16 DEF CloseJoin, InRequest
  <2>4. CASE q = p
    <3>1. mnode \in HeldBy(p) /\ HeldBy(p)' = HeldBy(p) \ {mnode} /\ Close(q)
      BY <1>16, <2>1, <2>2, <2>4 DEF HeldBy, CloseJoin
    <3>2. QED
      BY <1>a, <1>b, <1>d, <1>g, <1>i, <2>2, <2>3, <2>4, <3>1 DEF Balanced
  <2>5. CASE q # p
    <3>1. HeldBy(p)' = HeldBy(p)
      BY <2>1, <2>2, <2>5 DEF HeldBy
    <3>2. handles'[p] = handles[p]
      <4>1. CASE q # NoProc
        <5>1. q \in Procs /\ Close(q)
          BY <2>1, <4>1, <1>16 DEF CloseJoin
        <5>2. QED
          BY <1>a, <1>d, <2>5, <5>1
      <4>2. CASE q = NoProc
        BY <4>2, <1>16 DEF CloseJoin
      <4>3. QED
        BY <4>1, <4>2
    <3>3. QED
      BY <1>a, <1>b, <1>f, <1>g, <2>2, <2>3, <3>1, <3>2 DEF Balanced
  <2>6. QED
    BY <2>4, <2>5
<1>17. ASSUME NEW k \in Node, EndWhileIdle(k) PROVE Balanced(p)
  <2>1. HeldBy(p)' = HeldBy(p)
    BY <1>17, <1>a DEF EndWhileIdle, HeldBy, TypeOK
  <2>2. InRequest(p)' = InRequest(p) /\ UNCHANGED <<handles, boxes>>
    BY <1>17 DEF EndWhileIdle, InRequest
  <2>3. QED
    BY <1>a, <2>1, <2>2, NothingMoves
<1>18. ASSUME NEW k \in Node, TakeEvent(k) PROVE Balanced(p)
  <2>1. HeldBy(p)' = HeldBy(p)
    BY <1>18, <1>a DEF TakeEvent, HeldBy, TypeOK
  <2>2. InRequest(p)' = InRequest(p) /\ UNCHANGED <<handles, boxes>>
    BY <1>18 DEF TakeEvent, InRequest
  <2>3. QED
    BY <1>a, <2>1, <2>2, NothingMoves
<1>19. ASSUME NEW k \in Node, WatchNothing(k) PROVE Balanced(p)
  <2>1. HeldBy(p)' = HeldBy(p)
    BY <1>19, <1>a DEF WatchNothing, HeldBy, TypeOK
  <2>2. InRequest(p)' = InRequest(p) /\ UNCHANGED <<handles, boxes>>
    BY <1>19 DEF WatchNothing, InRequest
  <2>3. QED
    BY <1>a, <2>1, <2>2, NothingMoves
<1>20. ASSUME NEW k \in Node, WatchForced(k) PROVE Balanced(p)
  <2>1. HeldBy(p)' = HeldBy(p)
    BY <1>20, <1>a DEF WatchForced, HeldBy, TypeOK
  <2>2. InRequest(p)' = InRequest(p) /\ UNCHANGED <<handles, boxes>>
    BY <1>20 DEF WatchForced, InRequest
  <2>3. QED
    BY <1>a, <2>1, <2>2, NothingMoves
<1>21. ASSUME NEW k \in Node, WatchEnded(k) PROVE Balanced(p)
  <2>1. HeldBy(p)' = HeldBy(p)
    BY <1>21, <1>a DEF WatchEnded, HeldBy, TypeOK
  <2>2. InRequest(p)' = InRequest(p) /\ UNCHANGED <<handles, boxes>>
    BY <1>21 DEF WatchEnded, InRequest
  <2>3. QED
    BY <1>a, <2>1, <2>2, NothingMoves
<1>22. ASSUME NEW k \in Node, ReadAccumulated(k) PROVE Balanced(p)
  <2>1. HeldBy(p)' = HeldBy(p)
    BY <1>22, <1>a DEF ReadAccumulated, HeldBy, TypeOK
  <2>2. InRequest(p)' = InRequest(p) /\ UNCHANGED <<handles, boxes>>
    BY <1>22 DEF ReadAccumulated, InRequest
  <2>3. QED
    BY <1>a, <2>1, <2>2, NothingMoves
<1>23. ASSUME NEW k \in Node, WriteAccumulated(k) PROVE Balanced(p)
  <2>1. HeldBy(p)' = HeldBy(p)
    BY <1>23, <1>a DEF WriteAccumulated, HeldBy, TypeOK
  <2>2. InRequest(p)' = InRequest(p) /\ UNCHANGED <<handles, boxes>>
    BY <1>23 DEF WriteAccumulated, InRequest
  <2>3. QED
    BY <1>a, <2>1, <2>2, NothingMoves
<1>24. ASSUME NEW k \in Node, CloseProcess(k) PROVE Balanced(p)
  <2> DEFINE q == process[k]
  <2>1. /\ k \in 1..allocated /\ k \notin freed /\ wpc[k] = "close" /\ q \in Procs
    BY <1>a, <1>24 DEF CloseProcess, TypeOK, Node, NodeInv, FreedIsUnused
  <2>2. /\ wpc'[k] = "clear" /\ \A n \in 1..allocated : n # k => wpc'[n] = wpc[n]
        /\ UNCHANGED <<boxes, allocated, freed, process, mpc, mproc>> /\ Close(q)
    BY <1>a, <1>24 DEF CloseProcess, TypeOK
  <2>3. InRequest(p)' = InRequest(p)
    BY <2>2 DEF InRequest
  <2>4. CASE q = p
    <3>1. k \in HeldBy(p) /\ HeldBy(p)' = HeldBy(p) \ {k}
      BY <2>1, <2>2, <2>4 DEF HeldBy
    <3>2. QED
      BY <1>a, <1>b, <1>d, <1>g, <1>i, <2>1, <2>2, <2>3, <2>4, <3>1 DEF Balanced
  <2>5. CASE q # p
    <3>1. HeldBy(p)' = HeldBy(p)
      BY <2>1, <2>2, <2>5 DEF HeldBy
    <3>2. QED
      BY <1>a, <1>b, <1>d, <1>f, <1>g, <2>1, <2>2, <2>3, <2>5, <3>1 DEF Balanced
  <2>6. QED
    BY <2>4, <2>5
<1>25. ASSUME NEW k \in Node, ClearProcess(k) PROVE Balanced(p)
  <2>1. HeldBy(p)' = HeldBy(p)
    BY <1>25, <1>a DEF ClearProcess, HeldBy, TypeOK
  <2>2. InRequest(p)' = InRequest(p) /\ UNCHANGED <<handles, boxes>>
    BY <1>25 DEF ClearProcess, InRequest
  <2>3. QED
    BY <1>a, <2>1, <2>2, NothingMoves
<1>26. ASSUME NEW k \in Node, ClearPid(k) PROVE Balanced(p)
  <2>1. process[k] # p
    BY <1>a, <1>26 DEF ClearPid, NodeInv
  <2>2. /\ \A n \in 1..allocated : n # k => wpc'[n] = wpc[n]
        /\ UNCHANGED <<handles, boxes, mpc, mproc, allocated, freed, process>>
    BY <1>a, <1>26 DEF ClearPid, TypeOK
  <2>3. HeldBy(p)' = HeldBy(p)
    BY <2>1, <2>2 DEF HeldBy
  <2>4. InRequest(p)' = InRequest(p)
    BY <2>2 DEF InRequest
  <2>5. QED
    BY <1>a, <2>2, <2>3, <2>4, NothingMoves
<1>27. CASE UNCHANGED vars
  <2>1. HeldBy(p)' = HeldBy(p) /\ InRequest(p)' = InRequest(p) /\ UNCHANGED <<handles, boxes>>
    BY <1>27 DEF vars, HeldBy, InRequest
  <2>2. QED
    BY <1>a, <2>1, NothingMoves
<1>28. QED
  BY <1>1, <1>2, <1>3, <1>4, <1>5, <1>6, <1>7, <1>8, <1>9, <1>10, <1>11, <1>12, <1>13,
     <1>14, <1>15, <1>16, <1>17, <1>18, <1>19, <1>20, <1>21, <1>22, <1>23, <1>24, <1>25,
     <1>26, <1>27
     DEF Next, Environment, Request, MainStep, Thread_Run, Terminated

\* No handle of a process is lost or closed twice, whatever boxes interrupt
\* requests and whenever watchers give their nodes back.
THEOREM HandlesAccounted == Spec => []HandleAccounting
<1>1. ASSUME TypeOK
      PROVE  HandleAccounting <=>
               \A p \in Procs : handles[p] = Held(p) + InRequest(p) + Shown(p)
  BY DEF HandleAccounting, Held, Shown, InBoxes
<1>2. ASSUME Init PROVE HandleAccounting
  <2>1. ASSUME NEW p \in Procs
        PROVE  HeldBy(p) = {} /\ InBoxes(boxes, p) = {} /\ InRequest(p) = 0 /\ handles[p] = 0
    BY <1>2, NoProcAssumption, MaxNodesAssumption DEF Init, HeldBy, InBoxes, InRequest, Node
  <2>2. QED
    BY <2>1, FS_EmptySet DEF HandleAccounting, InBoxes
<1>3. ASSUME IInv, HandleAccounting, [Next]_vars, IInv' PROVE HandleAccounting'
  <2>1. TypeOK /\ TypeOK'
    BY <1>3 DEF IInv
  <2>2. ASSUME NEW p \in Procs PROVE handles'[p] = Held(p)' + InRequest(p)' + Shown(p)'
    <3>1. Balanced(p) /\ handles[p] = Held(p) + InRequest(p) + Shown(p)
      BY <1>1, <1>3, <2>1, HandlesBalance
    <3>2. handles[p] \in Int /\ handles'[p] \in Int
      BY <2>1 DEF TypeOK
    <3>3. Numbers(p) /\ Numbers(p)'
      BY <2>1, NumbersType, NumbersTypeNext
    <3>4. QED
      BY ONLY <3>1, <3>2, <3>3 DEF Numbers, Balanced
  <2>3. QED
    BY <2>2 DEF HandleAccounting, Held, Shown, InBoxes
<1>4. QED
  BY Invariance, <1>2, <1>3, PTL DEF Spec
===============================================================================
