----------------------------- MODULE RuntimeWatch -----------------------------
(***************************************************************************)
(* The runtime checker of WindowProperty: src/main/thread.cpp, its callers *)
(* on the UI thread, and the part of wWinMain that shuts it down.          *)
(*                                                                         *)
(* Nodes (PTDATA) form a linked list; each owns a thread (Thread_Run) that *)
(* waits for a process handed to it, writes one record when the process    *)
(* ends, and is then free to be reused.  The UI thread is the only one to  *)
(* walk or extend the list, but it reads pid while watchers clear it, and  *)
(* nothing is locked.                                                      *)
(*                                                                         *)
(* A message box pumps messages and disables no window, so every box shown *)
(* inside a request lets further requests run to completion before the     *)
(* interrupted one continues: boxes is the stack of interrupted requests.  *)
(*                                                                         *)
(* A node is numbered by the order of its allocation, which is also the    *)
(* order of the list.  Plain stores of one thread are seen by the other in *)
(* program order (x86, x64).                                               *)
(***************************************************************************)
EXTENDS Integers, Sequences, FiniteSets

CONSTANTS MaxNodes,   \* bound: PTDATA allocations that can succeed
          MaxBoxes,   \* bound: nested message boxes
          Procs,      \* processes that may run during one session
          PidOf,      \* their process ids; a later process may reuse one
          PathOf,     \* their image paths
          LongPaths,  \* processes whose path exceeds PTDATA.path
          NoProc,     \* a null process handle
          NoPath      \* the empty string of a zeroed PTDATA.path

ASSUME MaxNodesAssumption == MaxNodes \in Nat \ {0}
ASSUME MaxBoxesAssumption == MaxBoxes \in Nat
ASSUME PidOfAssumption == PidOf \in [Procs -> Nat \ {0}]
ASSUME NoProcAssumption == NoProc \notin Procs
ASSUME LongPathsAssumption == LongPaths \subseteq Procs

Node  == 1..MaxNodes
Box   == [kind : {"file", "note"}, proc : Procs]
Paths == {PathOf[p] : p \in Procs} \cup {NoPath}

VARIABLES
  procState,      \* the processes: absent, running or exited
  handles,        \* open handles to each process in this program
  mpc,            \* where the UI thread is
  mproc,          \* process, pi.hProcess: the process of the current request
  mnode,          \* check, temp, data: the node the UI thread looks at
  boxes,          \* requests waiting in a message box, innermost last
  allocated,      \* nodes 1..allocated have been allocated
  chain,          \* nodes reachable from t_chainstart
  freed,          \* nodes passed to free
  pid, process, path, event, endEvt,     \* the fields of each PTDATA
  wpc,            \* where the thread of each node is
  forced,         \* result != 1 after the second wait of Thread_Run
  acctime,        \* the local of Thread_WriteResult
  t_file, t_createfirst,                 \* the record file
  regOpen,        \* m_regrec is an open key
  acc,            \* accumulated time in the registry, a unit per record
  recorded,       \* records written about each process
  accepted        \* history: processes a request signalled to a watcher

osVars    == <<procState, handles>>
mainVars  == <<mpc, mproc, mnode, boxes>>
listVars  == <<allocated, chain, freed>>
dataVars  == <<pid, process, path>>
eventVars == <<event, endEvt>>
watchVars == <<wpc, forced, acctime>>
fileVars  == <<t_file, t_createfirst>>
regVars   == <<regOpen, acc, recorded>>
vars == <<osVars, mainVars, listVars, dataVars, eventVars, watchVars,
          fileVars, regVars, accepted>>

ClosingStates == {"closeEvent", "closeEndEvt", "closeJoin", "exit"}

TypeOK ==
  /\ procState \in [Procs -> {"absent", "running", "exited"}]
  /\ handles \in [Procs -> Int]
  /\ mpc \in {"run", "check", "first", "find", "alloc", "fill", "signal", "link"}
               \cup ClosingStates
  /\ mproc \in Procs \cup {NoProc}
  /\ mnode \in Node
  /\ boxes \in Seq(Box)
  /\ allocated \in 0..MaxNodes
  /\ chain \subseteq 1..allocated
  /\ freed \subseteq 1..allocated
  /\ pid \in [Node -> Nat]
  /\ process \in [Node -> Procs \cup {NoProc}]
  /\ path \in [Node -> Paths]
  /\ event \in [Node -> BOOLEAN]
  /\ endEvt \in [Node -> BOOLEAN]
  /\ wpc \in [Node -> {"none", "idle", "watch", "read", "write", "close",
                       "clear", "unlock", "exited"}]
  /\ forced \in [Node -> BOOLEAN]
  /\ acctime \in [Node -> Nat]
  /\ t_file \in {"none", "invalid", "open", "closed"}
  /\ t_createfirst \in BOOLEAN
  /\ regOpen \in BOOLEAN
  /\ acc \in [Paths -> Nat]
  /\ recorded \in [Procs -> Nat]
  /\ accepted \subseteq Procs

\* Thread_Init either links the first node or leaves the list empty for the
\* whole session.
Init ==
  /\ procState = [p \in Procs |-> "absent"]
  /\ handles = [p \in Procs |-> 0]
  /\ mpc = "run" /\ mproc = NoProc /\ mnode = 1 /\ boxes = <<>>
  /\ allocated \in {0, 1}
  /\ chain = 1..allocated
  /\ freed = {}
  /\ pid = [n \in Node |-> 0]
  /\ process = [n \in Node |-> NoProc]
  /\ path = [n \in Node |-> NoPath]
  /\ event = [n \in Node |-> FALSE]
  /\ endEvt = [n \in Node |-> FALSE]
  /\ wpc = [n \in Node |-> IF n <= allocated THEN "idle" ELSE "none"]
  /\ forced = [n \in Node |-> FALSE]
  /\ acctime = [n \in Node |-> 0]
  /\ t_file = "none" /\ t_createfirst = TRUE
  /\ regOpen = TRUE
  /\ acc = [f \in Paths |-> 0]
  /\ recorded = [p \in Procs |-> 0]
  /\ accepted = {}

-------------------------------------------------------------------------------
(* The operating system.  A process id is not given out again while a       *)
(* process with that id runs or a handle to it is open.                     *)

PidInUse(id) == \E q \in Procs :
                  PidOf[q] = id /\ (procState[q] = "running" \/ handles[q] > 0)

StartProcess(p) ==
  /\ procState[p] = "absent" /\ ~PidInUse(PidOf[p])
  /\ procState' = [procState EXCEPT ![p] = "running"]
  /\ UNCHANGED <<handles, mainVars, listVars, dataVars, eventVars, watchVars,
                 fileVars, regVars, accepted>>

ExitProcess(p) ==
  /\ procState[p] = "running"
  /\ procState' = [procState EXCEPT ![p] = "exited"]
  /\ UNCHANGED <<handles, mainVars, listVars, dataVars, eventVars, watchVars,
                 fileVars, regVars, accepted>>

-------------------------------------------------------------------------------
(* A request on the UI thread.                                              *)

Open(p)  == handles' = [handles EXCEPT ![p] = @ + 1]
Close(p) == handles' = [handles EXCEPT ![p] = @ - 1]

\* Thread_OutputFileCreate and the test of t_chainend, with the process
\* handle already open.  A directory or file that cannot be created shows a
\* message box; after CreateFile t_file holds INVALID_HANDLE_VALUE while the
\* box is up.
OutputFileCreated(p) ==
  /\ IF t_createfirst THEN t_file' = "open" ELSE UNCHANGED t_file
  /\ t_createfirst' = FALSE
  /\ IF chain = {}
       THEN UNCHANGED <<handles, mpc, mproc>>
       ELSE Open(p) /\ mpc' = "check" /\ mproc' = p
  /\ UNCHANGED boxes

OutputFileFailed(p) ==
  /\ t_createfirst /\ Len(boxes) < MaxBoxes
  /\ \E kind \in {"file", "note"} :
       /\ boxes' = Append(boxes, [kind |-> kind, proc |-> p])
       /\ IF kind = "file" THEN t_file' = "invalid" ELSE UNCHANGED t_file
  /\ Open(p)
  /\ UNCHANGED <<t_createfirst, mpc, mproc>>

\* Runtime Check on a window of a running process.  An OpenProcess that
\* fails changes nothing.
Thread_CreateThread(p) ==
  /\ mpc = "run" /\ procState[p] = "running"
  /\ OutputFileCreated(p) \/ OutputFileFailed(p)
  /\ UNCHANGED <<procState, mnode, listVars, dataVars, eventVars, watchVars,
                 regVars, accepted>>

\* WM_COPYDATA of a second instance, or -rtcheck: start the process and
\* watch it.
Thread_CreateThreadProcess(p) ==
  /\ mpc = "run" /\ procState[p] = "absent" /\ ~PidInUse(PidOf[p])
  /\ procState' = [procState EXCEPT ![p] = "running"]
  /\ OutputFileCreated(p) \/ OutputFileFailed(p)
  /\ UNCHANGED <<mnode, listVars, dataVars, eventVars, watchVars,
                 regVars, accepted>>

\* The innermost box is closed and its request returns.
DismissBox ==
  /\ mpc = "run" /\ boxes # <<>>
  /\ LET box == boxes[Len(boxes)] IN
       /\ Close(box.proc)
       /\ IF box.kind = "file" THEN t_file' = "none" ELSE UNCHANGED t_file
  /\ boxes' = SubSeq(boxes, 1, Len(boxes) - 1)
  /\ UNCHANGED <<procState, mpc, mproc, mnode, listVars, dataVars, eventVars,
                 watchVars, t_createfirst, regVars, accepted>>

IsFirst(n)   == n \in chain /\ \A m \in chain : n <= m
IsNext(k, n) == n \in chain /\ k < n /\ \A m \in chain : m > k => n <= m

\* Mutant: the walk stops at the first node.
DetectedFirst(id) == \E n \in chain : IsFirst(n) /\ pid[n] = id

\* The walk of Thread_CheckPID.  Watchers only clear pids meanwhile, so it
\* returns what its last read would.
Detected(id) == \E n \in chain : pid[n] = id

\* A process already detected is refused with a message box.
CheckPID ==
  /\ mpc = "check"
  /\ \/ /\ Detected(PidOf[mproc])
        /\ mpc' = "run"
        /\ mproc' = NoProc
        /\ \/ Len(boxes) < MaxBoxes
              /\ boxes' = Append(boxes, [kind |-> "note", proc |-> mproc])
              /\ UNCHANGED handles
           \/ Close(mproc) /\ UNCHANGED boxes
     \/ /\ ~Detected(PidOf[mproc])
        /\ mpc' = "first"
        /\ UNCHANGED <<mproc, boxes, handles>>
  /\ UNCHANGED <<procState, mnode, listVars, dataVars, eventVars, watchVars,
                 fileVars, regVars, accepted>>

\* Thread_GetEmptyThread, one node at a time.
EnterChain ==
  /\ mpc = "first"
  /\ \E n \in chain : IsFirst(n) /\ mnode' = n
  /\ mpc' = "find"
  /\ UNCHANGED <<osVars, mproc, boxes, listVars, dataVars, eventVars, watchVars,
                 fileVars, regVars, accepted>>

Thread_GetEmptyThread ==
  /\ mpc = "find"
  /\ \/ pid[mnode] = 0 /\ mpc' = "fill" /\ UNCHANGED mnode
     \/ /\ pid[mnode] # 0
        /\ \E n \in chain : IsNext(mnode, n) /\ mnode' = n
        /\ UNCHANGED mpc
     \/ /\ pid[mnode] # 0
        /\ \A n \in chain : n <= mnode
        /\ mpc' = "alloc" /\ UNCHANGED mnode
  /\ UNCHANGED <<osVars, mproc, boxes, listVars, dataVars, eventVars, watchVars,
                 fileVars, regVars, accepted>>

\* A new node with its events and its thread, or none of them.
AllocateNode ==
  /\ mpc = "alloc"
  /\ \/ /\ allocated < MaxNodes
        /\ allocated' = allocated + 1
        /\ mnode' = allocated + 1
        /\ wpc' = [wpc EXCEPT ![allocated + 1] = "idle"]
        /\ mpc' = "fill"
        /\ UNCHANGED <<handles, mproc>>
     \/ /\ Close(mproc)
        /\ mpc' = "run" /\ mproc' = NoProc
        /\ UNCHANGED <<allocated, mnode, wpc>>
  /\ UNCHANGED <<procState, boxes, chain, freed, dataVars, eventVars, forced,
                 acctime, fileVars, regVars, accepted>>

\* Mutant: a reused node keeps the path of its last process.
KeptPath(n, p) == IF path[n] = NoPath THEN PathOf[p] ELSE path[n]

\* QueryFullProcessImageName leaves the buffer alone when the path does not
\* fit.
NodePath(n, p) == IF p \in LongPaths THEN path[n] ELSE PathOf[p]

\* The node takes the process.  A name or title that does not convert ends
\* the request here: the node keeps the process and is never signalled.
FillNode ==
  /\ mpc = "fill"
  /\ process' = [process EXCEPT ![mnode] = mproc]
  /\ pid' = [pid EXCEPT ![mnode] = PidOf[mproc]]
  /\ path' = [path EXCEPT ![mnode] = NodePath(mnode, mproc)]
  /\ \/ mpc' = "signal" /\ UNCHANGED mproc
     \/ mpc' = "run" /\ mproc' = NoProc
  /\ UNCHANGED <<osVars, mnode, boxes, listVars, eventVars, watchVars,
                 fileVars, regVars, accepted>>

\* SetEvent(event); a new node is linked only afterwards.
SignalNode ==
  /\ mpc = "signal"
  /\ event' = [event EXCEPT ![mnode] = TRUE]
  /\ accepted' = accepted \cup {mproc}
  /\ IF mnode \in chain THEN mpc' = "run" /\ mproc' = NoProc
                        ELSE mpc' = "link" /\ UNCHANGED mproc
  /\ UNCHANGED <<osVars, mnode, boxes, listVars, dataVars, endEvt, watchVars,
                 fileVars, regVars>>

LinkNode ==
  /\ mpc = "link"
  /\ chain' = chain \cup {mnode}
  /\ mpc' = "run" /\ mproc' = NoProc
  /\ UNCHANGED <<osVars, mnode, boxes, allocated, freed, dataVars, eventVars,
                 watchVars, fileVars, regVars, accepted>>

-------------------------------------------------------------------------------
(* Shutdown on the UI thread.                                               *)

\* Mutant: the record file is closed with the registry keys.
BeginCloseWithFile ==
  /\ mpc = "run" /\ boxes = <<>>
  /\ regOpen' = FALSE
  /\ t_file' = IF t_file = "open" THEN "closed" ELSE t_file
  /\ mpc' = IF chain = {} THEN "exit" ELSE "closeEvent"
  /\ UNCHANGED <<osVars, mproc, mnode, boxes, listVars, dataVars, eventVars,
                 watchVars, t_createfirst, acc, recorded, accepted>>

\* The message loop ended; m_regrec is closed before Thread_Close is called.
BeginClose ==
  /\ mpc = "run" /\ boxes = <<>>
  /\ regOpen' = FALSE
  /\ mpc' = IF chain = {} THEN "exit" ELSE "closeEvent"
  /\ UNCHANGED <<osVars, mproc, mnode, boxes, listVars, dataVars, eventVars,
                 watchVars, fileVars, acc, recorded, accepted>>

CloseSetEvent ==
  /\ mpc = "closeEvent"
  /\ \E n \in chain : /\ IsFirst(n)
                      /\ mnode' = n
                      /\ event' = [event EXCEPT ![n] = TRUE]
  /\ mpc' = "closeEndEvt"
  /\ UNCHANGED <<osVars, mproc, boxes, listVars, dataVars, endEvt, watchVars,
                 fileVars, regVars, accepted>>

\* Mutant: endEvt is not set.
CloseSkipEndEvt ==
  /\ mpc = "closeEndEvt"
  /\ mpc' = "closeJoin"
  /\ UNCHANGED <<osVars, mproc, mnode, boxes, listVars, dataVars, eventVars,
                 watchVars, fileVars, regVars, accepted>>

CloseSetEndEvt ==
  /\ mpc = "closeEndEvt"
  /\ endEvt' = [endEvt EXCEPT ![mnode] = TRUE]
  /\ mpc' = "closeJoin"
  /\ UNCHANGED <<osVars, mproc, mnode, boxes, listVars, dataVars, event,
                 watchVars, fileVars, regVars, accepted>>

\* WaitForSingleObject on the thread of the node.
ThreadEnded(n) == wpc[n] = "exited"

\* The thread has ended: close what the node still holds and free it; after
\* the last node close the record file.
CloseJoin ==
  /\ mpc = "closeJoin" /\ ThreadEnded(mnode)
  /\ IF process[mnode] # NoProc THEN Close(process[mnode]) ELSE UNCHANGED handles
  /\ chain' = chain \ {mnode}
  /\ freed' = freed \cup {mnode}
  /\ IF chain' = {}
       THEN /\ mpc' = "exit"
            /\ t_file' = IF t_file = "open" THEN "closed" ELSE "none"
       ELSE mpc' = "closeEvent" /\ UNCHANGED t_file
  /\ UNCHANGED <<procState, mproc, mnode, boxes, allocated, dataVars, eventVars,
                 watchVars, t_createfirst, regVars, accepted>>

-------------------------------------------------------------------------------
(* Thread_Run of node n.  Of two signalled objects the wait returns the one *)
(* with the lower index, which is endEvt.  A record counts once its last    *)
(* line is written.  When wWinMain returns no watcher runs any more.        *)

At(n, pc) == wpc[n] = pc /\ mpc # "exit"

EndWhileIdle(n) ==
  /\ At(n, "idle") /\ endEvt[n]
  /\ endEvt' = [endEvt EXCEPT ![n] = FALSE]
  /\ wpc' = [wpc EXCEPT ![n] = "exited"]
  /\ UNCHANGED <<osVars, mainVars, listVars, dataVars, event, forced, acctime,
                 fileVars, regVars, accepted>>

TakeEvent(n) ==
  /\ At(n, "idle") /\ event[n] /\ ~endEvt[n]
  /\ event' = [event EXCEPT ![n] = FALSE]
  /\ wpc' = [wpc EXCEPT ![n] = "watch"]
  /\ UNCHANGED <<osVars, mainVars, listVars, dataVars, endEvt, forced, acctime,
                 fileVars, regVars, accepted>>

\* WAIT_FAILED: there is no process to wait for.
WatchNothing(n) ==
  /\ At(n, "watch") /\ process[n] = NoProc
  /\ wpc' = [wpc EXCEPT ![n] = "exited"]
  /\ UNCHANGED <<osVars, mainVars, listVars, dataVars, eventVars, forced,
                 acctime, fileVars, regVars, accepted>>

WatchForced(n) ==
  /\ At(n, "watch") /\ process[n] # NoProc /\ endEvt[n]
  /\ endEvt' = [endEvt EXCEPT ![n] = FALSE]
  /\ forced' = [forced EXCEPT ![n] = TRUE]
  /\ wpc' = [wpc EXCEPT ![n] = "read"]
  /\ UNCHANGED <<osVars, mainVars, listVars, dataVars, event, acctime,
                 fileVars, regVars, accepted>>

\* Mutant: the wait is taken to report any end of waiting.
AnyWake(n) == process[n] # NoProc

\* The wait on the process handle alone.
ProcessEnded(n) == procState[process[n]] = "exited"

\* Mutant: the end of the process is recorded as if its wait had failed.
WatchEndedUnrecorded(n) ==
  /\ At(n, "watch") /\ process[n] # NoProc /\ ~endEvt[n]
  /\ ProcessEnded(n)
  /\ forced' = [forced EXCEPT ![n] = FALSE]
  /\ wpc' = [wpc EXCEPT ![n] = "close"]
  /\ UNCHANGED <<osVars, mainVars, listVars, dataVars, eventVars, acctime,
                 fileVars, regVars, accepted>>

WatchEnded(n) ==
  /\ At(n, "watch") /\ process[n] # NoProc /\ ~endEvt[n]
  /\ ProcessEnded(n)
  /\ forced' = [forced EXCEPT ![n] = FALSE]
  /\ wpc' = [wpc EXCEPT ![n] = "read"]
  /\ UNCHANGED <<osVars, mainVars, listVars, dataVars, eventVars, acctime,
                 fileVars, regVars, accepted>>

\* Thread_WriteResult up to RegGetValue, which leaves acctime 0 if it fails.
ReadAccumulated(n) ==
  /\ At(n, "read")
  /\ acctime' = [acctime EXCEPT ![n] = IF regOpen THEN acc[path[n]] ELSE 0]
  /\ wpc' = [wpc EXCEPT ![n] = "write"]
  /\ UNCHANGED <<osVars, mainVars, listVars, dataVars, eventVars, forced,
                 fileVars, regVars, accepted>>

\* The rest of it: RegSetValueEx and the last line of the record.
WriteAccumulated(n) ==
  /\ At(n, "write")
  /\ acc' = IF regOpen THEN [acc EXCEPT ![path[n]] = acctime[n] + 1] ELSE acc
  /\ recorded' = [recorded EXCEPT ![process[n]] = @ + 1]
  /\ wpc' = [wpc EXCEPT ![n] = IF forced[n] THEN "exited" ELSE "close"]
  /\ UNCHANGED <<osVars, mainVars, listVars, dataVars, eventVars, forced,
                 acctime, fileVars, regOpen, accepted>>

\* Mutant: the handle is not closed.
CloseProcessLeaks(n) ==
  /\ At(n, "close")
  /\ wpc' = [wpc EXCEPT ![n] = "clear"]
  /\ UNCHANGED <<osVars, mainVars, listVars, dataVars, eventVars, forced,
                 acctime, fileVars, regVars, accepted>>

\* The node is given back: handle, process, and pid last, which makes it
\* visible to Thread_GetEmptyThread.
CloseProcess(n) ==
  /\ At(n, "close")
  /\ Close(process[n])
  /\ wpc' = [wpc EXCEPT ![n] = "clear"]
  /\ UNCHANGED <<procState, mainVars, listVars, dataVars, eventVars, forced,
                 acctime, fileVars, regVars, accepted>>

\* Mutant: pid is cleared where process should be.
ClearPidFirst(n) ==
  /\ At(n, "clear")
  /\ pid' = [pid EXCEPT ![n] = 0]
  /\ wpc' = [wpc EXCEPT ![n] = "unlock"]
  /\ UNCHANGED <<osVars, mainVars, listVars, process, path, eventVars, forced,
                 acctime, fileVars, regVars, accepted>>

ClearProcess(n) ==
  /\ At(n, "clear")
  /\ process' = [process EXCEPT ![n] = NoProc]
  /\ wpc' = [wpc EXCEPT ![n] = "unlock"]
  /\ UNCHANGED <<osVars, mainVars, listVars, pid, path, eventVars, forced,
                 acctime, fileVars, regVars, accepted>>

ClearPid(n) ==
  /\ At(n, "unlock")
  /\ pid' = [pid EXCEPT ![n] = 0]
  /\ wpc' = [wpc EXCEPT ![n] = "idle"]
  /\ UNCHANGED <<osVars, mainVars, listVars, process, path, eventVars, forced,
                 acctime, fileVars, regVars, accepted>>

-------------------------------------------------------------------------------
Environment == \E p \in Procs : StartProcess(p) \/ ExitProcess(p)

Request == \/ \E p \in Procs : \/ Thread_CreateThread(p)
                               \/ Thread_CreateThreadProcess(p)
           \/ DismissBox

MainStep == \/ CheckPID \/ EnterChain \/ Thread_GetEmptyThread
            \/ AllocateNode \/ FillNode \/ SignalNode \/ LinkNode
            \/ CloseSetEvent \/ CloseSetEndEvt \/ CloseJoin

Thread_Run(n) == \/ EndWhileIdle(n) \/ TakeEvent(n) \/ WatchNothing(n)
                 \/ WatchForced(n) \/ WatchEnded(n) \/ ReadAccumulated(n)
                 \/ WriteAccumulated(n) \/ CloseProcess(n) \/ ClearProcess(n)
                 \/ ClearPid(n)

\* wWinMain has returned.
Terminated == mpc = "exit" /\ UNCHANGED vars

Next == \/ Environment
        \/ Request \/ MainStep \/ BeginClose
        \/ \E n \in Node : Thread_Run(n)
        \/ Terminated

\* The scheduler runs every thread that can run.  Nothing is assumed of the
\* user, of the boxes or of the processes watched.
Fairness == /\ WF_vars(MainStep)
            /\ \A n \in Node : WF_vars(Thread_Run(n))

Spec == Init /\ [][Next]_vars /\ Fairness

-------------------------------------------------------------------------------
(* Properties.                                                              *)

Recording == {"read", "write"}
Busy      == {"watch", "close", "clear", "unlock"} \cup Recording

\* The thread of n has, or is about to take, the process of the node.
Watching(n) == process[n] # NoProc /\ (event[n] \/ wpc[n] \in Busy)

\* No two nodes watch processes with one id, from SetEvent to the moment the
\* node lets its process go (README: one pid is not watched twice).  The check
\* and the reuse of a node race with watchers that clear pids.
NoDoubleWatch ==
  \A m, n \in Node : m # n /\ Watching(m) /\ Watching(n)
                       => PidOf[process[m]] # PidOf[process[n]]

\* A node the UI thread is writing to is not in use by its thread: no event
\* is pending and no process is left in it, whatever the watcher was doing
\* when the UI thread read pid = 0.
ReuseIsExclusive ==
  mpc \in {"fill", "signal"} =>
    /\ wpc[mnode] = "idle" /\ ~event[mnode] /\ ~endEvt[mnode]
    /\ mpc = "fill" => process[mnode] = NoProc

\* No record is written after Thread_Close closed the record file.
NoWriteAfterClose ==
  \A n \in Node : wpc[n] \in Recording => t_file # "closed"

\* A node is freed only after its thread ended: Thread_Run never reads freed
\* memory, and neither does the UI thread's walk of the list.
FreedIsUnused ==
  /\ \A n \in freed : wpc[n] = "exited"
  /\ chain \cap freed = {}

\* No join waits for a thread that sleeps on: the thread Thread_Close waits
\* for has endEvt, or has taken it and writes its last record, or has ended.
JoinWakes ==
  mpc = "closeJoin" =>
    endEvt[mnode] \/ wpc[mnode] = "exited" \/ (forced[mnode] /\ wpc[mnode] \in Recording)

\* Shutdown in order (thread.cpp:290-310): a thread is told to end before it is
\* joined, and joined before what it still uses, the record file or its node,
\* is taken away.
ClosesInOrder == NoWriteAfterClose /\ FreedIsUnused /\ JoinWakes

\* Every handle is accounted for: the current request, a request waiting in a
\* box, or one node that is not freed holds it (a node that was never linked
\* keeps its handle for good).  None is dropped by a watcher or closed twice.
HeldBy(p) == {n \in 1..allocated : /\ n \notin freed /\ process[n] = p
                                   /\ wpc[n] \notin {"clear", "unlock"}}
InRequest(p) == IF /\ mproc = p
                   /\ mpc \in {"check", "first", "find", "alloc", "fill"}
                THEN 1 ELSE 0
HandleAccounting ==
  \A p \in Procs :
    handles[p] = Cardinality(HeldBy(p)) + InRequest(p)
                 + Cardinality({i \in DOMAIN boxes : boxes[i].proc = p})

\* The accumulated time of a program that one process runs counts every record
\* about it while the registry key is open, and nothing is accumulated for a
\* program without a record: reuse of nodes neither loses nor repeats one.
RunsAlone(p) == \A q \in Procs : PathOf[q] = PathOf[p] => q = p
AccumulatesEveryRecord ==
  regOpen /\ LongPaths = {} =>
    /\ \A p \in Procs : RunsAlone(p) => acc[PathOf[p]] = recorded[p]
    /\ \A f \in Paths : acc[f] > 0 => \E p \in Procs : PathOf[p] = f /\ recorded[p] > 0

\* A process whose watch was signalled and which has ended is recorded,
\* unless the program is closed first.
EndedIsRecorded ==
  \A n \in Node, p \in Procs :
    (Watching(n) /\ process[n] = p /\ procState[p] = "exited"
      /\ mpc \notin ClosingStates)
    ~> (recorded[p] > 0 \/ mpc \in ClosingStates)

\* Thread_Close always returns: no join waits for a thread that sleeps on.
CloseCompletes == mpc \in ClosingStates ~> mpc = "exit"

\* The runtime checker implements its abstract specification.  A process is
\* taken on when its node is filled, even if a failed conversion then leaves
\* the node unsignalled; it is let go when its record is complete.
Serving(n) == n \in chain \/ (mpc \in {"signal", "link"} /\ mnode = n)
Unreported(n) == pid[n] # 0 /\ wpc[n] \in {"idle", "watch"} \cup Recording

Service == INSTANCE WatchService WITH
  active  <- {process[n] : n \in {k \in Node : Serving(k) /\ Unreported(k)}},
  ended   <- {p \in Procs : procState[p] = "exited"},
  closing <- mpc \in ClosingStates
ImplementsService == Service!Spec

-------------------------------------------------------------------------------
(* What the documentation says and the code does not do.                    *)

\* README: when the program closes, every process still watched is recorded.
AcceptedIsRecorded == mpc = "exit" => \A p \in accepted : recorded[p] > 0

\* "The process is already in detection state" is only said of a process
\* that some node is watching.
RefusalIsTrue ==
  mpc = "check" /\ Detected(PidOf[mproc])
    => \E n \in chain : process[n] = mproc /\ Watching(n)

\* Records go to the record file.
RecordsHaveFile == \A n \in Node : wpc[n] \in Recording => t_file = "open"

\* The accumulated time of a record is that of the program watched.
RecordsOwnPath ==
  \A n \in Node : wpc[n] \in Recording => path[n] = PathOf[process[n]]
===============================================================================
