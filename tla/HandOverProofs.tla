---------------------------- MODULE HandOverProofs ----------------------------
(***************************************************************************)
(* What one process leaves for another: the registry and the requests of   *)
(* runs of the program (StartUp), and the work of the DLL in the process   *)
(* that loads it (DllHook).                                                *)
(***************************************************************************)
EXTENDS StartUp, DllHook, TLAPS

-------------------------------------------------------------------------------
(* Runs that start, hand over, migrate the registry and end side by side    *)
(* neither stamp a registry they have not cleaned nor take a request they   *)
(* cannot watch: proved for any number of runs and any old subkeys.         *)

\* Runs past Thread_Init and before Thread_Close.
Watching == {"watch", "create", "fill", "loop", "icon"}

\* The old subkeys are gone as soon as any run is past deleting them, and from
\* the first version that does not have them.
Migrated ==
  /\ version # 0 => oldKeys = {}
  /\ \A r \in Run : at[r] \in {"value", "stamp"} => oldKeys = {}

CheckerUp == \A r \in Run : at[r] \in Watching => checker[r] \in {"ready", "failed"}

StartInv == StartTypeOK /\ Migrated /\ CheckerUp

LEMMA InitiallyStart == StartInit => StartInv
<1> SUFFICES ASSUME StartInit
             PROVE  StartInv
  OBVIOUS
<1>1. oldKeys \subseteq Key /\ stuck \subseteq Key /\ (version # 0 => oldKeys = {})
  BY DEF StartInit
<1>2. runValue \in BOOLEAN
  BY DEF StartInit
<1>3. StartTypeOK
  BY <1>1, <1>2 DEF StartInit, StartTypeOK, Step
<1>4. QED
  BY <1>1, <1>3 DEF StartInit, StartInv, Migrated, CheckerUp, Watching

\* What every step of a run leaves of its place.
LEMMA OneStep ==
  ASSUME StartTypeOK, NEW r \in Run, NEW from \in Step, NEW to \in Step, Go(r, from, to)
  PROVE  /\ at' \in [Run -> Step] /\ at[r] = from /\ at'[r] = to
         /\ \A q \in Run \ {r} : at'[q] = at[q]
BY DEF StartTypeOK, Go

LEMMA StartKeeps ==
  ASSUME StartInv, [StartNext]_startVars
  PROVE  StartInv'
<1> USE DEF StartInv, StartTypeOK, Migrated, CheckerUp, Watching, Step, registryVars
<1>1. CASE UNCHANGED startVars
  BY <1>1 DEF startVars
<1>2. ASSUME NEW r \in Run, Started(r)
      PROVE  StartInv'
  BY <1>2, OneStep DEF Started
<1>3. ASSUME NEW r \in Run, Quit(r)
      PROVE  StartInv'
  BY <1>3, OneStep DEF Quit
<1>4. ASSUME NEW r \in Run, Killed(r)
      PROVE  StartInv'
  BY <1>4 DEF Killed
<1>5. ASSUME NEW r \in Run, Goes(r)
      PROVE  StartInv'
  <2>1. CASE FindWindow(r)
    <3>1. receiver' \in [Run -> Run]
      BY <2>1 DEF FindWindow
    <3>2. QED
      BY <2>1, <3>1, OneStep DEF FindWindow
  <2>2. CASE Delivered(r)
    <3>1. served' \in [Run -> Run \cup {"no", "lost"}]
      BY <2>2 DEF Delivered, Serve
    <3>2. QED
      BY <2>2, <3>1, OneStep DEF Delivered
  <2>3. CASE NotDelivered(r)
    <3>1. served' \in [Run -> Run \cup {"no", "lost"}]
      BY <2>3 DEF NotDelivered
    <3>2. QED
      BY <2>3, <3>1, OneStep DEF NotDelivered
  <2>4. CASE Main_VersionCheck(r)
    BY <2>4, OneStep DEF Main_VersionCheck
  <2>5. CASE Main_DeleteRegistryVer0(r)
    BY <2>5, OneStep DEF Main_DeleteRegistryVer0
  <2>6. CASE Main_DeleteRegistryVer1(r)
    BY <2>6, OneStep DEF Main_DeleteRegistryVer1
  <2>7. CASE StampVersion(r)
    <3>1. oldKeys = {} /\ version' = 2
      BY <2>7 DEF StampVersion, Go
    <3>2. QED
      BY <2>7, <3>1, OneStep DEF StampVersion
  <2>8. CASE Thread_Init(r)
    BY <2>8, OneStep DEF Thread_Init
  <2>9. CASE WatchOwn(r)
    <3>1. served' \in [Run -> Run \cup {"no", "lost"}]
      BY <2>9 DEF WatchOwn, Serve
    <3>2. QED
      BY <2>9, <3>1, OneStep DEF WatchOwn
  <2>10. CASE CreateMainWindow(r)
    BY <2>10, OneStep DEF CreateMainWindow
  <2>11. CASE EnterLoop(r)
    BY <2>11, OneStep DEF EnterLoop
  <2>12. CASE Thread_Close(r)
    BY <2>12, OneStep DEF Thread_Close
  <2>13. CASE Return(r)
    BY <2>13, OneStep DEF Return
  <2>14. QED
    BY <1>5, <2>1, <2>2, <2>3, <2>4, <2>5, <2>6, <2>7, <2>8, <2>9, <2>10, <2>11, <2>12, <2>13
       DEF Goes
<1>6. QED
  BY <1>1, <1>2, <1>3, <1>4, <1>5 DEF StartNext

\* The migration cleans before it stamps, however the steps of the runs
\* interleave and wherever one of them is killed.
THEOREM StampedIsClean == StartSpec => []CleanIsStamped
<1>1. StartInv => CleanIsStamped
  BY DEF StartInv, StartTypeOK, Migrated, CleanIsStamped
<1>2. QED
  BY InitiallyStart, StartKeeps, <1>1, PTL DEF StartSpec

\* A request is taken by a run between its Thread_Init and its Thread_Close.
LEMMA TakenWhileWatching ==
  ASSUME StartInv, [StartNext]_startVars,
         NEW r \in Run, served'[r] # served[r], served'[r] \in Run
  PROVE  checker[served'[r]] \in {"ready", "failed"}
<1> USE DEF StartInv, StartTypeOK, CheckerUp, Watching
<1>1. PICK q \in Run : Delivered(q) \/ NotDelivered(q) \/ WatchOwn(q)
  BY DEF StartNext, Goes, startVars, Started, Quit, Killed, FindWindow, Main_VersionCheck,
     Main_DeleteRegistryVer0, Main_DeleteRegistryVer1, StampVersion, Thread_Init,
     CreateMainWindow, EnterLoop, Thread_Close, Return
<1>2. CASE Delivered(q)
  BY <1>2 DEF Delivered, Serve, Pumps
<1>3. CASE WatchOwn(q)
  BY <1>3 DEF WatchOwn, Serve, Go
<1>4. CASE NotDelivered(q)
  BY <1>4, RunAssumption DEF NotDelivered
<1>5. QED
  BY <1>1, <1>2, <1>3, <1>4

\* No request reaches a runtime checker that is not set up or already closed.
THEOREM ServedByAWatchingRun == StartSpec => ServedWhileWatching
<1>1. StartInv /\ [StartNext]_startVars =>
        [\A r \in Run : served'[r] # served[r] /\ served'[r] \in Run =>
           checker[served'[r]] \in {"ready", "failed"}]_startVars
  BY TakenWhileWatching
<1>2. QED
  BY InitiallyStart, StartKeeps, <1>1, PTL DEF StartSpec, ServedWhileWatching

-------------------------------------------------------------------------------
(* The DLL in the target processes.                                         *)

\* What is left of the request for target: the DLL has not read it yet, or
\* has not carried it out.
Unread   == upc # "idle" \/ injectors # {} \/ \E p \in Process : tpc[p] = "type"
Unserved == Unread \/ \E p \in Process : tpc[p] = "affinity"

NoThread == \A p \in Process : tpc[p] = "none"

\* In turn, a request is in one place at a time: the main program, the
\* injector, or the process of target.  The DLL is loaded once while its
\* thread runs and not at all otherwise.
OneAtATime ==
  /\ upc # "idle" => injectors = {} /\ NoThread
  /\ injectors # {} => injectors = {ProcessOf[target]} /\ NoThread
  /\ \A p \in Process : tpc[p] # "none" => p = ProcessOf[target]
  /\ \A p \in Process : refs[p] = IF tpc[p] = "none" THEN 0 ELSE 1

\* From WriteHook to ReadType the registry holds the request, and the target
\* of a capture request from WriteHWND to SetWindowDisplayAffinity.
Written ==
  /\ upc = "hwnd" => val # "command"
  /\ upc = "launch" \/ (upc = "idle" /\ Unread) => LastHook = val
  /\ upc # "hwnd" /\ Unserved /\ val # "command" => LastHookHWND = target
  /\ \A p \in Process : /\ tpc[p] = "affinity" => val # "command" /\ on[p] = (val = "exclude")
                        /\ tpc[p] = "box" => val = "command"

\* What is asked for and not yet so is the request under way.
Pending ==
  /\ owed # {} => owed = {ProcessOf[target]} /\ val = "command" /\ Unread
  /\ \A w \in Window \ {target} : asked[w] = (w \in excluded)
  /\ asked[target] = IF Unserved /\ val # "command" THEN val = "exclude"
                                                     ELSE target \in excluded

InTurnInv == inTurn => OneAtATime /\ Written /\ Pending

HookInv == /\ TypeOK /\ MappedWhileRunning
           /\ InTurnInv

LEMMA HookInit == Init => HookInv
<1> SUFFICES ASSUME Init PROVE HookInv
  OBVIOUS
<1>1. TypeOK /\ MappedWhileRunning
  BY MaxLoadsAssumption DEF Init, TypeOK, Work, MappedWhileRunning
<1>2. NoThread /\ ~Unread /\ ~Unserved
  BY DEF Init, NoThread, Unread, Unserved
<1>3. OneAtATime /\ Written
  BY <1>2 DEF Init, OneAtATime, Written, NoThread
<1>4. Pending
  <2>1. \A w \in Window : ~asked[w] /\ asked[w] \in BOOLEAN /\ w \notin excluded
    BY <1>1 DEF Init, TypeOK
  <2>2. target \in Window /\ owed = {}
    BY DEF Init
  <2>3. QED
    BY <1>2, <2>1, <2>2 DEF Pending
<1>5. QED
  BY <1>1, <1>3, <1>4 DEF HookInv, InTurnInv

\* The types, and the reference count that keeps the DLL loaded.
LEMMA HookTypeStep ==
  ASSUME TypeOK, MappedWhileRunning, [Next]_vars
  PROVE  TypeOK' /\ MappedWhileRunning'
<1> USE ProcessOfAssumption, MaxLoadsAssumption
    DEF TypeOK, Work, MappedWhileRunning, mainVars, registry, targetVars, history
<1>1. ASSUME NEW w \in Window, GetCommandLine(w) PROVE TypeOK' /\ MappedWhileRunning'
  BY <1>1 DEF GetCommandLine, Click
<1>2. ASSUME NEW w \in Window, ChangeCapture(w) PROVE TypeOK' /\ MappedWhileRunning'
  BY <1>2 DEF ChangeCapture, Click
<1>3. CASE WriteHWND
  BY <1>3 DEF WriteHWND
<1>4. CASE WriteHook
  BY <1>4 DEF WriteHook
<1>5. CASE ExecuteFromAbsolutePath
  BY <1>5 DEF ExecuteFromAbsolutePath
<1>6. ASSUME NEW p \in Process, AttachDLL(p) PROVE TypeOK' /\ MappedWhileRunning'
  BY <1>6 DEF AttachDLL
<1>7. ASSUME NEW p \in Process, InjectionFails(p) PROVE TypeOK' /\ MappedWhileRunning'
  BY <1>7 DEF InjectionFails
<1>8. ASSUME NEW p \in Process, ReadType(p) PROVE TypeOK' /\ MappedWhileRunning'
  BY <1>8 DEF ReadType
<1>9. ASSUME NEW p \in Process, CaptureAffinity(p) PROVE TypeOK' /\ MappedWhileRunning'
  BY <1>9 DEF CaptureAffinity, Affinity
<1>10. ASSUME NEW p \in Process, CommandLine(p) PROVE TypeOK' /\ MappedWhileRunning'
  BY <1>10 DEF CommandLine
<1>11. ASSUME NEW p \in Process, FreeLibraryAndExitThread(p)
       PROVE  TypeOK' /\ MappedWhileRunning'
  BY <1>11 DEF FreeLibraryAndExitThread
<1>12. CASE UNCHANGED vars
  BY <1>12 DEF vars
<1>13. QED
  BY <1>1, <1>2, <1>3, <1>4, <1>5, <1>6, <1>7, <1>8, <1>9, <1>10, <1>11, <1>12
     DEF Next, MainProgram, TypeCheck

\* A request begins in turn only when nothing is under way; from then on it
\* goes from place to place as a whole.
LEMMA InTurnStep == ASSUME HookInv, [Next]_vars PROVE InTurnInv'
<1> USE ProcessOfAssumption, NoneAssumption
    DEF HookInv, InTurnInv, TypeOK, Work, OneAtATime, Written, Pending, NoThread, Unread,
        Unserved, mainVars, registry, targetVars, history
<1>1. ASSUME NEW w \in Window, GetCommandLine(w) PROVE InTurnInv'
  BY <1>1 DEF GetCommandLine, Click, Quiet
<1>2. ASSUME NEW w \in Window, ChangeCapture(w) PROVE InTurnInv'
  BY <1>2 DEF ChangeCapture, Click, Quiet
<1>3. CASE WriteHWND
  BY <1>3 DEF WriteHWND
<1>4. CASE WriteHook
  BY <1>4 DEF WriteHook
<1>5. CASE ExecuteFromAbsolutePath
  BY <1>5 DEF ExecuteFromAbsolutePath
<1>6. ASSUME NEW p \in Process, AttachDLL(p) PROVE InTurnInv'
  BY <1>6 DEF AttachDLL
<1>7. ASSUME NEW p \in Process, InjectionFails(p) PROVE InTurnInv'
  BY <1>7 DEF InjectionFails
<1>8. ASSUME NEW p \in Process, ReadType(p) PROVE InTurnInv'
  BY <1>8 DEF ReadType
<1>9. ASSUME NEW p \in Process, CaptureAffinity(p) PROVE InTurnInv'
  BY <1>9 DEF CaptureAffinity, Affinity
<1>10. ASSUME NEW p \in Process, CommandLine(p) PROVE InTurnInv'
  BY <1>10 DEF CommandLine
<1>11. ASSUME NEW p \in Process, FreeLibraryAndExitThread(p)
       PROVE  InTurnInv'
  BY <1>11 DEF FreeLibraryAndExitThread
<1>12. CASE UNCHANGED vars
  BY <1>12 DEF vars
<1>13. QED
  BY <1>1, <1>2, <1>3, <1>4, <1>5, <1>6, <1>7, <1>8, <1>9, <1>10, <1>11, <1>12
     DEF Next, MainProgram, TypeCheck

LEMMA HookInvariance == Spec => []HookInv
<1>1. HookInv /\ [Next]_vars => HookInv'
  BY HookTypeStep, InTurnStep DEF HookInv
<1>2. QED
  BY HookInit, <1>1, PTL DEF Spec

\* The DLL is not unloaded under the thread it has started, however many
\* injections and loads overlap, in any number of processes.
THEOREM DLLStaysMapped == Spec => []MappedWhileRunning
<1>1. HookInv => MappedWhileRunning
  BY DEF HookInv
<1>2. QED
  BY HookInvariance, <1>1, PTL

\* Requests made one after another are each carried out and leave nothing in
\* the registry or in the target process that a later one meets.
THEOREM InTurnIsServed == Spec => []ServedInTurn
<1>1. HookInv => ServedInTurn
  BY DEF HookInv, InTurnInv, TypeOK, Pending, Unread, Unserved, Quiet, ServedInTurn
<1>2. QED
  BY HookInvariance, <1>1, PTL
===============================================================================
