------------------------------- MODULE MoveDrag -------------------------------
(***************************************************************************)
(* Moving windows with the mouse: MoveHook and Hook_MouseHook of           *)
(* src/main/hook.cpp, together with the hotkeys that switch the hook on    *)
(* and off (HotkeyToggle).  While h_hookMove is set the hook sees every    *)
(* mouse event first: a press takes the window under the cursor, a move    *)
(* takes it along, a release lets it go.  Presses and releases go no       *)
(* further.                                                                *)
(*                                                                         *)
(* The hook runs in the message loops of the one thread.  When that is     *)
(* busy for too long Windows passes an event on without the hook, and the  *)
(* hook may go while a button is down.  The axes are alike: one is         *)
(* modelled.                                                               *)
(***************************************************************************)
EXTENDS HotkeyToggle, Integers

CONSTANTS Window,     \* windows that own no other: what GA_ROOTOWNER gives
          NoWindow,   \* NULL
          Point,      \* places of the cursor
          Coord       \* bound: places of the left edge of a window

ASSUME DragAssumption == NoWindow \notin Window /\ Point \subseteq Coord /\ Coord \subseteq Int

VARIABLES
  cursor, down,   \* the mouse: its place and its left button
  left,           \* the left edge of each window
  open,           \* the windows that exist
  h_moveHandle, h_mousePoint, h_handlePoint,
  grip            \* history: where the window was taken, relative to the cursor

mouse == <<cursor, down>>
held  == <<h_moveHandle, h_mousePoint, h_handlePoint, grip>>
dragVars == <<mouse, left, open, held>>
allVars == <<vars, dragVars>>

DragTypeOK ==
  /\ TypeOK
  /\ cursor \in Point /\ down \in BOOLEAN
  /\ left \in [Window -> Coord] /\ open \in SUBSET Window
  /\ h_moveHandle \in Window \cup {NoWindow}
  /\ h_mousePoint \in Point /\ h_handlePoint \in Coord
  /\ grip \in Int

\* The globals are zero; their points are not read before they are set.
DragInit ==
  /\ Init
  /\ cursor \in Point /\ down = FALSE
  /\ left \in [Window -> Coord] /\ open = Window
  /\ h_moveHandle = NoWindow /\ h_mousePoint = cursor /\ h_handlePoint = cursor
  /\ grip = 0

Hooked == hook["move"]

\* A message loop runs, and Windows waits for the hook.
Loop == phase = "loop" \/ boxes # <<>>

\* GetWindowRect leaves the rectangle as the stack has it for a window that
\* is gone, and for NULL.
WindowRect(w, rect) == w \in open => rect = left[w]

-------------------------------------------------------------------------------
(* MoveHook.                                                                *)

\* WM_LBUTTONDOWN.  There may be no window under the cursor.
HookDown ==
  /\ Hooked /\ Loop /\ ~down
  /\ down' = TRUE
  /\ h_mousePoint' = cursor
  /\ h_moveHandle' \in open \cup {NoWindow}
  /\ h_handlePoint' \in Coord /\ WindowRect(h_moveHandle', h_handlePoint')
  /\ grip' = h_handlePoint' - cursor
  /\ UNCHANGED <<vars, cursor, left, open>>

\* WM_LBUTTONUP.
HookUp ==
  /\ Hooked /\ Loop /\ down
  /\ down' = FALSE
  /\ h_moveHandle' = NoWindow
  /\ UNCHANGED <<vars, cursor, left, open, h_mousePoint, h_handlePoint, grip>>

Target(point) == h_handlePoint - (h_mousePoint - point)

\* SetWindowPos: the window goes there, or somewhere else if it answers
\* WM_WINDOWPOSCHANGING so; then that is where it is held from now on.
SetWindowPos(to, point) ==
  IF h_moveHandle \in open
    THEN \/ left' = [left EXCEPT ![h_moveHandle] = to] /\ UNCHANGED grip
         \/ \E other \in Coord \ {to} :
              /\ left' = [left EXCEPT ![h_moveHandle] = other]
              /\ grip' = other - point
    ELSE UNCHANGED left /\ grip' = h_handlePoint' - point

\* Mutant: the place of the mouse is not remembered.
MoveHeldFrom(point) ==
  /\ Target(point) \in Coord
  /\ h_handlePoint' \in Coord
  /\ SetWindowPos(Target(point), point)
  /\ h_moveHandle \in open => h_handlePoint' = left'[h_moveHandle]
  /\ UNCHANGED h_mousePoint

MoveHeld(point) ==
  /\ Target(point) \in Coord
  /\ h_handlePoint' \in Coord
  /\ SetWindowPos(Target(point), point)
  /\ h_moveHandle \in open => h_handlePoint' = left'[h_moveHandle]
  /\ h_mousePoint' = point

\* WM_MOUSEMOVE.
HookMove ==
  /\ Hooked /\ Loop
  /\ \E point \in Point \ {cursor} :
       /\ cursor' = point
       /\ IF h_moveHandle # NoWindow
            THEN MoveHeld(point)
            ELSE UNCHANGED <<left, h_mousePoint, h_handlePoint, grip>>
  /\ UNCHANGED <<vars, down, open, h_moveHandle>>

-------------------------------------------------------------------------------
(* The mouse without the hook, and the windows.                             *)

\* There is no hook, or it was too late to answer.
Unseen ==
  /\ \/ down' = ~down /\ UNCHANGED cursor
     \/ cursor' \in Point \ {cursor} /\ UNCHANGED down
  /\ UNCHANGED <<vars, left, open, held>>

WindowMoves ==
  /\ \E w \in open, to \in Coord : left' = [left EXCEPT ![w] = to]
  /\ UNCHANGED <<vars, mouse, open, held>>

WindowCloses ==
  /\ \E w \in open : open' = open \ {w}
  /\ UNCHANGED <<vars, mouse, left, held>>

-------------------------------------------------------------------------------
\* A program that is started again has fresh globals.
DragRestart ==
  /\ Restart
  /\ h_moveHandle' = NoWindow /\ h_mousePoint' = cursor /\ h_handlePoint' = cursor
  /\ grip' = 0
  /\ UNCHANGED <<mouse, left, open>>

\* Hook_MouseHook and Hook_MoveHotkeyRegister set and take the hook; what it
\* holds they leave as it is.
Switch ==
  /\ \/ \E f \in Feature : \/ Restore(f) \/ ClickButton(f) \/ Menu_ExecuteNotifyEvent(f)
                           \/ HotkeyMessage(f) \/ PressHotkey(f)
     \/ CloseBox \/ OpenDialog \/ ConfirmHotkeys \/ CancelHotkeys \/ DialogReturns
     \/ OtherProgram
  /\ UNCHANGED dragVars

Drag == HookDown \/ HookUp \/ HookMove \/ Unseen

DragNext == Switch \/ DragRestart \/ Drag \/ WindowMoves \/ WindowCloses

DragSpec == DragInit /\ [][DragNext]_allVars

-------------------------------------------------------------------------------
(* Properties.                                                              *)

\* A window that is dragged stays under the cursor where it was taken,
\* although events are missed, it moves by itself and the hook goes and comes
\* back meanwhile; only a window that refuses a place is held elsewhere.
GripKept ==
  [][HookMove /\ h_moveHandle \in open =>
       \/ left'[h_moveHandle] = cursor' + grip
       \/ left'[h_moveHandle] # Target(cursor')]_allVars

\* A feature whose hotkey is not registered acts only on a WM_HOTKEY that was
\* already in the queue: whatever takes the hotkey takes the hook as well.
HookNeedsHotkey ==
  [][\A f \in Feature :
       hook'[f] /\ registered'[f] = {} =>
         \/ hook[f] /\ registered[f] = {}
         \/ HotkeyMessage(f)]_allVars

-------------------------------------------------------------------------------
(* What the documentation says and the code does not.                       *)

\* README: windows are moved by dragging.  A window is moved only with the
\* button down.
MovesOnlyHeld == [][HookMove => down \/ left' = left]_allVars
===============================================================================
