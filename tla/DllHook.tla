------------------------------- MODULE DllHook -------------------------------
(***************************************************************************)
(* "Command line" and "capture" (src/main/process.cpp, src/dllinjector,    *)
(* src/dll).  The main program leaves what it wants in two registry values *)
(* and starts an injector, which loads the DLL into the target process.    *)
(* The thread the DLL starts on attachment reads the values, does the work *)
(* and frees the DLL.                                                      *)
(*                                                                         *)
(* The registry values are one for all processes; the main program, the    *)
(* injectors and the threads of the DLL run in processes of their own.     *)
(***************************************************************************)
EXTENDS Naturals

CONSTANTS Process, Window,
          ProcessOf,     \* the process of each window
          None,          \* no window
          MayFail,       \* launches and injections can fail
          MaxLoads       \* bound: loads of the DLL at one time, per process

ASSUME ProcessOfAssumption == ProcessOf \in [Window -> Process]
ASSUME NoneAssumption == None \notin Window
ASSUME MayFailAssumption == MayFail \in BOOLEAN
ASSUME MaxLoadsAssumption == MaxLoads \in Nat \ {0}

VARIABLES
  upc,          \* the main program in Process_WindowsDLLHook
  target,       \* its hwnd
  val,          \* its val
  LastHook, LastHookHWND,
  injectors,    \* processes an injector is working on
  refs,         \* reference count of the DLL in each process
  tpc, on,      \* TypeCheck of each process, and the bit it has read
  excluded,     \* windows with WDA_EXCLUDEFROMCAPTURE
  asked,        \* history: what was last asked for each window
  owed,         \* history: processes whose command line is to be shown
  inTurn        \* history: no request began before the last one had ended,
                \* and none failed

mainVars   == <<upc, target, val>>
registry   == <<LastHook, LastHookHWND>>
targetVars == <<refs, tpc, on>>
history    == <<asked, owed, inTurn>>
vars == <<mainVars, registry, injectors, targetVars, excluded, history>>

Work == {"command", "exclude", "include"}

TypeOK ==
  /\ upc \in {"idle", "hwnd", "value", "launch"}
  /\ target \in Window /\ val \in Work
  /\ LastHook \in Work /\ LastHookHWND \in Window \cup {None}
  /\ injectors \subseteq Process
  /\ refs \in [Process -> 0..MaxLoads]
  /\ tpc \in [Process -> {"none", "type", "affinity", "box", "free"}]
  /\ on \in [Process -> BOOLEAN]
  /\ excluded \subseteq Window
  /\ asked \in [Window -> BOOLEAN]
  /\ owed \subseteq Process
  /\ inTurn \in BOOLEAN

Init ==
  /\ upc = "idle" /\ target \in Window /\ val = "command"
  /\ LastHook \in Work /\ LastHookHWND = None
  /\ injectors = {}
  /\ refs = [p \in Process |-> 0]
  /\ tpc = [p \in Process |-> "none"] /\ on = [p \in Process |-> FALSE]
  /\ excluded = {}
  /\ asked = [w \in Window |-> FALSE] /\ owed = {} /\ inTurn = TRUE

-------------------------------------------------------------------------------
(* The main program: Process_WindowsDLLHook.                                *)

Quiet == upc = "idle" /\ injectors = {} /\ \A p \in Process : tpc[p] = "none"

Click == upc = "idle" /\ inTurn' = (inTurn /\ Quiet)

GetCommandLine(w) ==
  /\ Click /\ upc' = "value"
  /\ target' = w /\ val' = "command"
  /\ owed' = owed \cup {ProcessOf[w]}
  /\ UNCHANGED <<registry, injectors, targetVars, excluded, asked>>

\* Mutant: the present state is asked for.
KeepCapture(w) ==
  /\ Click /\ upc' = "hwnd"
  /\ target' = w
  /\ val' = IF w \in excluded THEN "exclude" ELSE "include"
  /\ asked' = [asked EXCEPT ![w] = w \notin excluded]
  /\ UNCHANGED <<registry, injectors, targetVars, excluded, owed>>

\* The capture button turns round what GetWindowDisplayAffinity returns now.
ChangeCapture(w) ==
  /\ Click /\ upc' = "hwnd"
  /\ target' = w
  /\ val' = IF w \in excluded THEN "include" ELSE "exclude"
  /\ asked' = [asked EXCEPT ![w] = w \notin excluded]
  /\ UNCHANGED <<registry, injectors, targetVars, excluded, owed>>

WriteHWND ==
  /\ upc = "hwnd" /\ upc' = "value"
  /\ LastHookHWND' = target
  /\ UNCHANGED <<target, val, LastHook, injectors, targetVars, excluded, history>>

WriteHook ==
  /\ upc = "value" /\ upc' = "launch"
  /\ LastHook' = val
  /\ UNCHANGED <<target, val, LastHookHWND, injectors, targetVars, excluded, history>>

\* Nothing is taken back when the injector cannot be started.  (An injector
\* that is still working on the process makes this one wait: a bound.)
ExecuteFromAbsolutePath ==
  /\ upc = "launch" /\ upc' = "idle"
  /\ \/ /\ ProcessOf[target] \notin injectors
        /\ injectors' = injectors \cup {ProcessOf[target]}
        /\ UNCHANGED inTurn
     \/ MayFail /\ UNCHANGED injectors /\ inTurn' = FALSE
  /\ UNCHANGED <<target, val, registry, targetVars, excluded, asked, owed>>

-------------------------------------------------------------------------------
(* The injector, and the loader of the target process.                      *)

\* LoadLibrary attaches a DLL only where it is not loaded yet.
AttachDLL(p) ==
  /\ p \in injectors /\ injectors' = injectors \ {p}
  /\ refs[p] < MaxLoads
  /\ refs' = [refs EXCEPT ![p] = @ + 1]
  /\ tpc' = [tpc EXCEPT ![p] = IF refs[p] = 0 THEN "type" ELSE @]
  /\ UNCHANGED <<mainVars, registry, on, excluded, history>>

InjectionFails(p) ==
  /\ MayFail /\ inTurn' = FALSE
  /\ p \in injectors /\ injectors' = injectors \ {p}
  /\ UNCHANGED <<mainVars, registry, targetVars, excluded, asked, owed>>

-------------------------------------------------------------------------------
(* The DLL in process p: TypeCheck.                                         *)

ReadType(p) ==
  /\ tpc[p] = "type"
  /\ tpc' = [tpc EXCEPT ![p] = IF LastHook = "command" THEN "box" ELSE "affinity"]
  /\ on' = [on EXCEPT ![p] = (LastHook = "exclude")]
  /\ owed' = IF LastHook = "command" THEN owed \ {p} ELSE owed
  /\ UNCHANGED <<mainVars, registry, injectors, refs, excluded, asked, inTurn>>

\* SetWindowDisplayAffinity refuses a window of another process.
Affinity(p, w) ==
  excluded' = IF w \notin {v \in Window : ProcessOf[v] = p} THEN excluded
              ELSE IF on[p] THEN excluded \cup {w} ELSE excluded \ {w}

CaptureAffinity(p) ==
  /\ tpc[p] = "affinity" /\ tpc' = [tpc EXCEPT ![p] = "free"]
  /\ Affinity(p, LastHookHWND)
  /\ UNCHANGED <<mainVars, registry, injectors, refs, on, history>>

\* Mutant: the DLL is freed here and at the end.
FreeTwice(p) ==
  /\ tpc[p] = "box" /\ tpc' = [tpc EXCEPT ![p] = "free"]
  /\ refs' = [refs EXCEPT ![p] = @ - 1]
  /\ UNCHANGED <<mainVars, registry, injectors, on, excluded, history>>

\* The message box with the command line is closed.
CommandLine(p) ==
  /\ tpc[p] = "box" /\ tpc' = [tpc EXCEPT ![p] = "free"]
  /\ UNCHANGED <<mainVars, registry, injectors, refs, on, excluded, history>>

\* Mutant: the thread ends and leaves the DLL where it is.
ExitThread(p) ==
  /\ tpc[p] = "free" /\ tpc' = [tpc EXCEPT ![p] = "none"]
  /\ UNCHANGED <<mainVars, registry, injectors, refs, on, excluded, history>>

FreeLibraryAndExitThread(p) ==
  /\ tpc[p] = "free" /\ tpc' = [tpc EXCEPT ![p] = "none"]
  /\ refs' = [refs EXCEPT ![p] = @ - 1]
  /\ UNCHANGED <<mainVars, registry, injectors, on, excluded, history>>

-------------------------------------------------------------------------------
MainProgram ==
  \/ \E w \in Window : GetCommandLine(w) \/ ChangeCapture(w)
  \/ WriteHWND \/ WriteHook \/ ExecuteFromAbsolutePath

TypeCheck(p) ==
  ReadType(p) \/ CaptureAffinity(p) \/ CommandLine(p) \/ FreeLibraryAndExitThread(p)

Next ==
  \/ MainProgram
  \/ \E p \in Process : \/ AttachDLL(p) \/ InjectionFails(p)
                        \/ TypeCheck(p)

Spec == Init /\ [][Next]_vars

-------------------------------------------------------------------------------
(* Properties.                                                              *)

\* The DLL stays loaded while its thread runs, however loads overlap.
MappedWhileRunning == \A p \in Process : tpc[p] # "none" => refs[p] > 0

\* README: the capture button switches whether the window is captured, and
\* the command line of the process is shown.  For a user who waits for one
\* request to end before the next both are as promised, as long as nothing
\* fails: no request leaves anything behind that a later one meets.
ServedInTurn ==
  inTurn /\ Quiet =>
    owed = {} /\ \A w \in Window : asked[w] = (w \in excluded)

-------------------------------------------------------------------------------
(* What the documentation says and the code does not.                       *)

\* README: the capture button switches whether the window is captured, also
\* for a user who does not wait.
CaptureIsSwitched == Quiet => \A w \in Window : asked[w] = (w \in excluded)

\* README: the command line of the process is shown, also for a request that
\* finds the DLL loaded.
CommandIsShown == Quiet => owed = {}
===============================================================================
