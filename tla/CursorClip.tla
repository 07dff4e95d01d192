------------------------------ MODULE CursorClip ------------------------------
(***************************************************************************)
(* Cursor clipping (src/main/hook.cpp): Hook_ClipCursor on the UI thread   *)
(* and the ClipCheck threads it starts.  All they share is the global      *)
(* h_hookClip, which is nonzero while clipping is on and is read and       *)
(* written without a lock.                                                 *)
(*                                                                         *)
(* A rectangle is named by the window it was read from: what matters is    *)
(* whose area the cursor is confined to, if any.                           *)
(***************************************************************************)
CONSTANTS Window,     \* windows that can be in the foreground
          Thread,     \* bound: ClipCheck threads running at one time
          None        \* the whole screen, or no window

ASSUME NoneAssumption == None \notin Window /\ None \notin Thread

VARIABLES
  upc,          \* where the UI thread is in Hook_ClipCursor
  h_hookClip,   \* h_hookClip # 0
  latest,       \* the thread started last
  failed,       \* history: the last CreateThread failed
  tpc,          \* where each thread is
  param, rect,  \* the window of each thread and its local rect
  foreground,   \* what GetForegroundWindow returns
  open,         \* windows that still exist
  clip          \* the area the cursor is confined to

uiVars      == <<upc, h_hookClip, latest, failed>>
threadVars  == <<tpc, param, rect>>
desktopVars == <<foreground, open>>
vars == <<uiVars, threadVars, desktopVars, clip>>

Area == Window \cup {None}

TypeOK ==
  /\ upc \in {"run", "create", "assign"}
  /\ h_hookClip \in BOOLEAN
  /\ latest \in Thread \cup {None} /\ failed \in BOOLEAN
  /\ tpc \in [Thread -> {"none", "test", "rect", "clip", "free"}]
  /\ param \in [Thread -> Area]
  /\ rect \in [Thread -> Area]
  /\ foreground \in Area
  /\ open \subseteq Window
  /\ clip \in Area

\* The local rect of a thread is not initialized.
Init ==
  /\ upc = "run" /\ h_hookClip = FALSE /\ latest = None /\ failed = FALSE
  /\ tpc = [t \in Thread |-> "none"]
  /\ param = [t \in Thread |-> None]
  /\ rect = [t \in Thread |-> None]
  /\ open = Window /\ foreground \in Area
  /\ clip = None

-------------------------------------------------------------------------------
(* The UI thread.                                                           *)

\* GetWindowRect fails for a window that is gone and leaves the rectangle as
\* it is; one that was never filled in may be any area.
RectOf(w) == IF w \in open THEN {w} ELSE Area

\* The hotkey with clipping off, up to ClipCursor.  If that refuses the
\* rectangle nothing is changed.
Hook_ClipCursor ==
  /\ upc = "run" /\ ~h_hookClip
  /\ \E t \in Thread : tpc[t] = "none"
  /\ clip' \in RectOf(foreground)
  /\ upc' = "create"
  /\ UNCHANGED <<h_hookClip, latest, failed, threadVars, desktopVars>>

\* CreateThread, with what is the foreground window by now.  The thread runs
\* before its handle is assigned.
CreateClipCheck ==
  /\ upc = "create"
  /\ \E t \in Thread :
       /\ tpc[t] = "none"
       /\ latest' = t
       /\ tpc' = [tpc EXCEPT ![t] = "test"]
       /\ param' = [param EXCEPT ![t] = foreground]
       /\ \E r \in Area : rect' = [rect EXCEPT ![t] = r]
  /\ upc' = "assign" /\ failed' = FALSE
  /\ UNCHANGED <<h_hookClip, desktopVars, clip>>

\* Its result, 0, is assigned and not looked at.
CreationFails ==
  /\ upc = "create"
  /\ upc' = "run" /\ failed' = TRUE
  /\ UNCHANGED <<h_hookClip, latest, threadVars, desktopVars, clip>>

AssignHook ==
  /\ upc = "assign"
  /\ h_hookClip' = TRUE
  /\ upc' = "run"
  /\ UNCHANGED <<latest, failed, threadVars, desktopVars, clip>>

\* The hotkey with clipping on, or Hook_ClipHotkeyRegister.
ClipOff ==
  /\ upc = "run" /\ h_hookClip
  /\ h_hookClip' = FALSE
  /\ UNCHANGED <<upc, latest, failed, threadVars, desktopVars, clip>>

-------------------------------------------------------------------------------
(* ClipCheck of thread t.                                                   *)

\* Mutant: the loop has no condition.
LoopForEver(t) ==
  /\ tpc[t] = "test"
  /\ tpc' = [tpc EXCEPT ![t] = "rect"]
  /\ UNCHANGED <<uiVars, param, rect, desktopVars, clip>>

\* The head of the loop.
TestHook(t) ==
  /\ tpc[t] = "test"
  /\ tpc' = [tpc EXCEPT ![t] = IF h_hookClip THEN "rect" ELSE "free"]
  /\ UNCHANGED <<uiVars, param, rect, desktopVars, clip>>

ReadRect(t) ==
  /\ tpc[t] = "rect"
  /\ rect' = [rect EXCEPT ![t] = IF param[t] \in open THEN param[t] ELSE @]
  /\ tpc' = [tpc EXCEPT ![t] = "clip"]
  /\ UNCHANGED <<uiVars, param, desktopVars, clip>>

Clip(t) ==
  /\ tpc[t] = "clip"
  /\ clip' = rect[t]
  /\ tpc' = [tpc EXCEPT ![t] = "test"]
  /\ UNCHANGED <<uiVars, param, rect, desktopVars>>

\* Mutant: the thread ends without ClipCursor(nullptr).
EndUnfreed(t) ==
  /\ tpc[t] = "free"
  /\ tpc' = [tpc EXCEPT ![t] = "none"]
  /\ UNCHANGED <<uiVars, param, rect, desktopVars, clip>>

\* After the loop: ClipCursor(nullptr).
Free(t) ==
  /\ tpc[t] = "free"
  /\ clip' = None
  /\ tpc' = [tpc EXCEPT ![t] = "none"]
  /\ UNCHANGED <<uiVars, param, rect, desktopVars>>

-------------------------------------------------------------------------------
(* The user and other programs.                                             *)

Activate(w) ==
  /\ w \in open \cup {None} /\ foreground' = w
  /\ UNCHANGED <<uiVars, threadVars, open, clip>>

CloseWindow(w) ==
  /\ w \in open
  /\ open' = open \ {w}
  /\ foreground' = IF foreground = w THEN None ELSE foreground
  /\ UNCHANGED <<uiVars, threadVars, clip>>

\* Windows and other programs free the cursor when they like.
OtherFrees ==
  /\ clip' = None
  /\ UNCHANGED <<uiVars, threadVars, desktopVars>>

-------------------------------------------------------------------------------
Assign == CreateClipCheck \/ AssignHook

ClipCheck(t) == TestHook(t) \/ ReadRect(t) \/ Clip(t) \/ Free(t)

Desktop == \/ \E w \in Area : Activate(w)
           \/ \E w \in Window : CloseWindow(w)
           \/ OtherFrees

Next == \/ Hook_ClipCursor \/ Assign \/ CreationFails \/ ClipOff
        \/ \E t \in Thread : ClipCheck(t)
        \/ Desktop

\* Every thread runs; a ClipCheck sleeps for 1 ms in every turn of its loop.
Fairness == WF_vars(Assign) /\ \A t \in Thread : WF_vars(ClipCheck(t))

Spec == Init /\ [][Next]_vars /\ Fairness

-------------------------------------------------------------------------------
(* Properties.                                                              *)

Alive(t) == tpc[t] # "none"

Owned == clip # None => upc = "create" \/ \E t \in Thread : Alive(t)

\* A confined cursor has a thread that will set it free, whatever the order
\* in which old and new threads confine and free it, unless the last thread
\* could not be created.
ClipHasOwner == failed \/ Owned

\* Switching off frees the cursor, also when several threads are running.
FreedWhenOff ==
  (~h_hookClip /\ upc = "run")
    ~> (clip = None \/ h_hookClip \/ upc # "run" \/ failed)

-------------------------------------------------------------------------------
(* What the documentation and the notifications say and the code does not.  *)

On(w) == h_hookClip /\ upc = "run" /\ param[latest] = w /\ w \in open

\* CATALOG: Hook_ClipCursor confines the cursor or frees it.  It never stays
\* confined without a thread to free it.
AlwaysOwned == Owned

\* "Clip Cursor Active": clipping that is on confines the cursor to the
\* window it was switched on for.
ActiveConfines ==
  \A w \in Window : (latest # None /\ On(w)) ~> (clip = w \/ ~On(w))

\* README: the cursor does not leave the active window's area.  In the end
\* no thread confines it to another window.
ConfinedToOne ==
  \A w \in Window : <>[](latest # None /\ On(w)) => <>[](clip \in {w, None})
===============================================================================
