----------------------------- MODULE HotkeyToggle -----------------------------
(***************************************************************************)
(* Switching "move window" and "clip cursor" on and off: the buttons of    *)
(* the main window, the tray menu, the hotkey dialog and start-up all call *)
(* Hook_MoveHotkeyRegister or Hook_ClipHotkeyRegister (src/main/hook.cpp). *)
(*                                                                         *)
(* Everything runs on one thread, but the error box of a registration that *)
(* fails runs a message loop of its own: the tray menu, the hotkeys and    *)
(* the hotkey dialog go on, and can start a registration inside another.   *)
(* Boxes return in last-in first-out order.  The main window is disabled   *)
(* while a box or the dialog is up, so its buttons are not.                *)
(***************************************************************************)
EXTENDS Sequences, Naturals

CONSTANTS Key,        \* hotkeys
          None,       \* the hotkey control is empty
          MaxBoxes    \* bound: error boxes open at one time

ASSUME NoneAssumption == None \notin Key

Feature == {"move", "clip"}

VARIABLES
  phase,        \* the feature wWinMain restores next, or "loop"
  key,          \* the hotkey of each feature, in the registry
  saved,        \* MoveActive and CursorActive in the registry
  button, menu, \* what the button and the menu item show
  registered,   \* hotkeys registered with the id of each feature
  taken,        \* hotkeys of other programs
  hook,         \* h_hookMove # 0 and h_hookClip # 0
  pending,      \* a WM_HOTKEY of the feature is in the queue
  boxes,        \* error boxes, the newest first
  dialog        \* the hotkey dialog: "closed", "open", "ended"

views   == <<button, menu, saved>>
hotkeys == <<registered, taken>>
vars == <<phase, key, views, hotkeys, hook, pending, boxes, dialog>>

TypeOK ==
  /\ phase \in Feature \cup {"loop"}
  /\ key \in [Feature -> Key]
  /\ saved \in [Feature -> BOOLEAN]
  /\ button \in [Feature -> BOOLEAN]
  /\ menu \in [Feature -> BOOLEAN]
  /\ registered \in [Feature -> SUBSET Key]
  /\ taken \in SUBSET Key
  /\ hook \in [Feature -> BOOLEAN]
  /\ pending \in [Feature -> BOOLEAN]
  /\ boxes \in Seq(Feature)
  /\ dialog \in {"closed", "open", "ended"}

Off == [f \in Feature |-> FALSE]

\* A feature without a hotkey has got F3 or F4 before it is restored.
Init ==
  /\ phase = "move" /\ key \in [Feature -> Key] /\ saved \in [Feature -> BOOLEAN]
  /\ button = Off /\ menu = Off
  /\ registered = [f \in Feature |-> {}] /\ taken \in SUBSET Key
  /\ hook = Off /\ pending = Off
  /\ boxes = <<>> /\ dialog = "closed"

Waiting(f) == \E i \in DOMAIN boxes : boxes[i] = f

-------------------------------------------------------------------------------
(* Hook_MoveHotkeyRegister and Hook_ClipHotkeyRegister.                     *)

\* Mutant: the menu item is forgotten.
ShowButton(f, reg) ==
  /\ button' = [button EXCEPT ![f] = reg]
  /\ saved'  = [saved EXCEPT ![f] = reg]
  /\ UNCHANGED menu

\* The tail: button, menu item and registry.
Show(f, reg) ==
  /\ button' = [button EXCEPT ![f] = reg]
  /\ menu'   = [menu EXCEPT ![f] = reg]
  /\ saved'  = [saved EXCEPT ![f] = reg]

Registered(f) ==
  /\ key[f] \notin taken /\ \A g \in Feature \ {f} : key[f] \notin registered[g]
  /\ registered' = [registered EXCEPT ![f] = @ \cup {key[f]}]
  /\ Show(f, TRUE)
  /\ UNCHANGED boxes

\* RegisterHotKey refuses a hotkey that anybody has registered, this feature
\* included.  The error box keeps the tail for later; until then the button
\* or the menu item shows what the user clicked.
Refused(f, clickedButton, clickedMenu) ==
  /\ key[f] \in taken \cup UNION {registered[g] : g \in Feature}
  /\ boxes' = <<f>> \o boxes
  /\ button' = clickedButton /\ menu' = clickedMenu
  /\ UNCHANGED <<saved, registered>>

Unregistered(f) ==
  /\ registered' = [registered EXCEPT ![f] = {}]
  /\ Show(f, FALSE)
  /\ UNCHANGED boxes

Register(f, reg, clickedButton, clickedMenu) ==
  /\ hook' = [hook EXCEPT ![f] = FALSE]
  /\ IF reg THEN Registered(f) \/ Refused(f, clickedButton, clickedMenu)
            ELSE Unregistered(f)
  /\ UNCHANGED <<key, taken, pending>>

\* Mutant: the registration goes on with TRUE.
CloseBoxOn ==
  /\ boxes # <<>>
  /\ Show(Head(boxes), TRUE)
  /\ boxes' = Tail(boxes)
  /\ UNCHANGED <<phase, key, hotkeys, hook, pending, dialog>>

\* The newest error box is closed: its registration goes on with FALSE.
CloseBox ==
  /\ boxes # <<>>
  /\ Show(Head(boxes), FALSE)
  /\ boxes' = Tail(boxes)
  /\ UNCHANGED <<phase, key, hotkeys, hook, pending, dialog>>

-------------------------------------------------------------------------------
(* Who calls them.                                                          *)

\* wWinMain restores what the registry says.
Restore(f) ==
  /\ phase = f /\ boxes = <<>>
  /\ phase' = IF f = "move" THEN "clip" ELSE "loop"
  /\ Register(f, saved[f], button, menu)
  /\ UNCHANGED dialog

\* BN_CLICKED of ID_BUTTON_MOVE or ID_BUTTON_CLIP, an automatic check box.
ClickButton(f) ==
  /\ phase = "loop" /\ boxes = <<>> /\ dialog = "closed"
  /\ Register(f, ~button[f], [button EXCEPT ![f] = ~@], menu)
  /\ UNCHANGED <<phase, dialog>>

\* TN_MENU_MOVE or TN_MENU_CLIP of the tray menu.
Menu_ExecuteNotifyEvent(f) ==
  /\ phase = "loop" \/ boxes # <<>>
  /\ Len(boxes) < MaxBoxes
  /\ Register(f, ~menu[f], button, [menu EXCEPT ![f] = ~@])
  /\ UNCHANGED <<phase, dialog>>

\* WM_HOTKEY: Hook_MouseHook or Hook_ClipCursor, which may fail to hook.
HotkeyMessage(f) ==
  /\ phase = "loop" \/ boxes # <<>>
  /\ pending[f]
  /\ pending' = [pending EXCEPT ![f] = FALSE]
  /\ \E on \in {FALSE, ~hook[f]} : hook' = [hook EXCEPT ![f] = on]
  /\ UNCHANGED <<phase, key, views, hotkeys, boxes, dialog>>

\* Mutant: the hotkeys go, the hooks stay.
OpenDialogHooked ==
  /\ phase = "loop" /\ boxes = <<>> /\ dialog = "closed"
  /\ dialog' = "open"
  /\ registered' = [f \in Feature |-> {}]
  /\ button' = Off /\ menu' = Off /\ saved' = Off
  /\ UNCHANGED <<phase, key, taken, hook, pending, boxes>>

\* WM_INITDIALOG of HotkeyProc.
OpenDialog ==
  /\ phase = "loop" /\ boxes = <<>> /\ dialog = "closed"
  /\ dialog' = "open"
  /\ registered' = [f \in Feature |-> {}]
  /\ hook' = Off /\ button' = Off /\ menu' = Off /\ saved' = Off
  /\ UNCHANGED <<phase, key, taken, pending, boxes>>

DlgFunction_HotkeyValidCheck(move, clip) == move # None /\ clip # None

\* ID_BUTTON_HK_CONFIRM.  The dialog is above no box of its own, so it is
\* not disabled by one.
ConfirmHotkeys ==
  /\ dialog = "open"
  /\ \E move, clip \in Key \cup {None} :
       /\ DlgFunction_HotkeyValidCheck(move, clip)
       /\ key' = [f \in Feature |-> IF f = "move" THEN move ELSE clip]
  /\ dialog' = "ended"
  /\ UNCHANGED <<phase, views, hotkeys, hook, pending, boxes>>

CancelHotkeys ==
  /\ dialog = "open" /\ dialog' = "ended"
  /\ UNCHANGED <<phase, key, views, hotkeys, hook, pending, boxes>>

\* DialogBox returns once the boxes inside its message loop have.
DialogReturns ==
  /\ dialog = "ended" /\ boxes = <<>> /\ dialog' = "closed"
  /\ UNCHANGED <<phase, key, views, hotkeys, hook, pending, boxes>>

\* The program is closed and started again.
Restart ==
  /\ phase = "loop" /\ boxes = <<>> /\ dialog = "closed"
  /\ phase' = "move"
  /\ button' = Off /\ menu' = Off /\ hook' = Off /\ pending' = Off
  /\ registered' = [f \in Feature |-> {}]
  /\ UNCHANGED <<key, saved, taken, boxes, dialog>>

-------------------------------------------------------------------------------
(* The keyboard and other programs.                                         *)

\* Windows queues a WM_HOTKEY for a hotkey that is registered now.
PressHotkey(f) ==
  /\ registered[f] # {} /\ pending' = [pending EXCEPT ![f] = TRUE]
  /\ UNCHANGED <<phase, key, views, hotkeys, hook, boxes, dialog>>

OtherProgram ==
  /\ taken' \in SUBSET (Key \ UNION {registered[f] : f \in Feature})
  /\ UNCHANGED <<phase, key, views, registered, hook, pending, boxes, dialog>>

-------------------------------------------------------------------------------
Next ==
  \/ \E f \in Feature : \/ Restore(f) \/ ClickButton(f) \/ Menu_ExecuteNotifyEvent(f)
                        \/ HotkeyMessage(f) \/ PressHotkey(f)
  \/ CloseBox \/ OpenDialog \/ ConfirmHotkeys \/ CancelHotkeys \/ DialogReturns
  \/ Restart \/ OtherProgram

Spec == Init /\ [][Next]_vars

-------------------------------------------------------------------------------
(* Properties.                                                              *)

Restored(f) == phase = "loop" \/ (f = "move" /\ phase = "clip")

\* However registrations nest, a feature none of whose boxes is open shows
\* the same in the button, in the menu and in the registry.
ViewsAgree ==
  \A f \in Feature :
    Restored(f) /\ ~Waiting(f) => button[f] = menu[f] /\ menu[f] = saved[f]

\* A feature is shown as on only if its hotkey is registered.
ShownIsRegistered ==
  \A f \in Feature : ~Waiting(f) /\ menu[f] => registered[f] # {}

-------------------------------------------------------------------------------
(* What the documentation says and the code does not.                       *)

\* README: whether a feature is on is kept in the registry.  A feature whose
\* hotkey works is on.
RegisteredIsSaved ==
  \A f \in Feature : ~Waiting(f) /\ registered[f] # {} => saved[f]

\* README: the hotkeys are changed in the dialog and kept in the registry.
\* The hotkey that works is the one that was chosen.
RegisteredIsChosen == \A f \in Feature : registered[f] \subseteq {key[f]}

\* CATALOG: the dialog checks that two different hotkeys are given.
DistinctKeys == [][ConfirmHotkeys => key'["move"] # key'["clip"]]_vars

\* README: windows are moved, and the cursor is confined, after activation.
HookedIsActive == \A f \in Feature : hook[f] => registered[f] # {}
===============================================================================
