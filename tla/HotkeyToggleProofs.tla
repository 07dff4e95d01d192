------------------------- MODULE HotkeyToggleProofs -------------------------
(***************************************************************************)
(* Registrations that nest do not leave a feature half shown, and a window *)
(* stays where it was taken: proved for any set of hotkeys, any number of  *)
(* error boxes open at one time, any windows and any screen.               *)
(***************************************************************************)
EXTENDS MoveDrag, TLAPS

\* Opening an error box for f makes f wait, and nothing else.
LEMMA BoxOpened ==
  ASSUME NEW f \in Feature, boxes \in Seq(Feature), boxes' = <<f>> \o boxes
  PROVE  /\ boxes' \in Seq(Feature)
         /\ Waiting(f)'
         /\ \A g \in Feature \ {f} : Waiting(g)' <=> Waiting(g)
<1>1. boxes' \in Seq(Feature)
  OBVIOUS
<1>2. /\ boxes'[1] = f /\ 1 \in DOMAIN boxes'
      /\ \A i \in DOMAIN boxes : i + 1 \in DOMAIN boxes' /\ boxes'[i + 1] = boxes[i]
      /\ \A i \in DOMAIN boxes' :
           i = 1 \/ (i - 1 \in DOMAIN boxes /\ boxes[i - 1] = boxes'[i])
  OBVIOUS
<1>3. QED
  BY <1>1, <1>2 DEF Waiting

\* Closing the newest box concerns no other feature.
LEMMA BoxClosed ==
  ASSUME boxes \in Seq(Feature), boxes # <<>>, boxes' = Tail(boxes)
  PROVE  /\ Head(boxes) \in Feature
         /\ boxes' \in Seq(Feature)
         /\ \A g \in Feature \ {Head(boxes)} : Waiting(g)' <=> Waiting(g)
<1>1. Head(boxes) \in Feature /\ boxes' \in Seq(Feature) /\ boxes[1] = Head(boxes)
  OBVIOUS
<1>2. /\ \A i \in DOMAIN boxes' : i + 1 \in DOMAIN boxes /\ boxes[i + 1] = boxes'[i]
      /\ \A i \in DOMAIN boxes :
           i = 1 \/ (i - 1 \in DOMAIN boxes' /\ boxes'[i - 1] = boxes[i])
  OBVIOUS
<1>3. QED
  BY <1>1, <1>2 DEF Waiting

\* What one registration of f does, whoever asked for it: the types are kept,
\* f waits for its error box or is shown as it is registered, and the other
\* feature is as it was.
RegisterEffect(f) ==
  /\ button' \in [Feature -> BOOLEAN]
  /\ menu' \in [Feature -> BOOLEAN]
  /\ saved' \in [Feature -> BOOLEAN]
  /\ registered' \in [Feature -> SUBSET Key]
  /\ hook' \in [Feature -> BOOLEAN]
  /\ boxes' \in Seq(Feature)
  /\ UNCHANGED <<key, taken, pending>>
  /\ \/ Waiting(f)'
     \/ /\ button'[f] = menu'[f] /\ menu'[f] = saved'[f]
        /\ menu'[f] => registered'[f] # {}
  /\ \A g \in Feature \ {f} : /\ button'[g] = button[g]
                              /\ menu'[g] = menu[g]
                              /\ saved'[g] = saved[g]
                              /\ registered'[g] = registered[g]
                              /\ Waiting(g)' <=> Waiting(g)

\* Registering and unregistering, refused or not, have this effect.
LEMMA RegisterKeeps ==
  ASSUME TypeOK, NEW f \in Feature, NEW reg \in BOOLEAN,
         NEW b \in [Feature -> BOOLEAN], NEW m \in [Feature -> BOOLEAN],
         \A g \in Feature \ {f} : b[g] = button[g] /\ m[g] = menu[g],
         Register(f, reg, b, m)
  PROVE  RegisterEffect(f)
<1> USE DEF TypeOK, RegisterEffect
<1>1. hook' \in [Feature -> BOOLEAN] /\ UNCHANGED <<key, taken, pending>>
  BY DEF Register
<1>2. CASE Registered(f)
  BY <1>1, <1>2 DEF Registered, Show, Waiting
<1>3. CASE Refused(f, b, m)
  <2>1. /\ boxes' = <<f>> \o boxes /\ UNCHANGED registered
        /\ button' = b /\ menu' = m /\ UNCHANGED saved
    BY <1>3 DEF Refused
  <2>2. QED
    BY <1>1, <2>1, BoxOpened
<1>4. CASE Unregistered(f)
  BY <1>1, <1>4 DEF Unregistered, Show, Waiting
<1>5. QED
  BY <1>2, <1>3, <1>4 DEF Register

\* The three facts are inductive together: ViewsAgree needs the types, and
\* ShownIsRegistered what one registration leaves of the other feature.
Inv == TypeOK /\ ViewsAgree /\ ShownIsRegistered

\* A step in which a registration of f does what RegisterEffect says, and
\* that restores no feature but f, keeps the invariant.
LEMMA InvRegister ==
  ASSUME Inv, NEW f \in Feature, NEW reg \in BOOLEAN,
         NEW b \in [Feature -> BOOLEAN], NEW m \in [Feature -> BOOLEAN],
         \A g \in Feature \ {f} : b[g] = button[g] /\ m[g] = menu[g],
         Register(f, reg, b, m),
         phase' \in Feature \cup {"loop"}, UNCHANGED dialog,
         \A g \in Feature \ {f} : Restored(g)' => Restored(g)
  PROVE  Inv'
<1>1. RegisterEffect(f)
  BY RegisterKeeps DEF Inv
<1>2. TypeOK'
  BY <1>1 DEF Inv, TypeOK, RegisterEffect
<1>3. ViewsAgree'
  BY <1>1 DEF Inv, ViewsAgree, RegisterEffect
<1>4. ShownIsRegistered'
  BY <1>1 DEF Inv, ShownIsRegistered, RegisterEffect
<1>5. QED
  BY <1>2, <1>3, <1>4 DEF Inv

\* The invariant holds before anything is restored.
LEMMA InvInit == Init => Inv
  BY DEF Init, Inv, TypeOK, Off, ViewsAgree, Restored, ShownIsRegistered, Feature

\* Every step keeps it.
LEMMA InvNext == Inv /\ [Next]_vars => Inv'
<1> SUFFICES ASSUME Inv, [Next]_vars PROVE Inv'
  OBVIOUS
<1> DEFINE Same == UNCHANGED <<phase, button, menu, saved, registered, boxes>>
<1>1. ASSUME NEW f \in Feature, Restore(f) PROVE Inv'
  <2>1. /\ Register(f, saved[f], button, menu)
        /\ phase = f /\ UNCHANGED dialog
        /\ phase' = IF f = "move" THEN "clip" ELSE "loop"
    BY <1>1 DEF Restore
  <2>2. \A g \in Feature \ {f} : Restored(g)' => Restored(g)
    BY <2>1 DEF Restored, Feature
  <2>3. QED
    BY <2>1, <2>2, InvRegister DEF Inv, TypeOK, Feature
<1>2. ASSUME NEW f \in Feature, ClickButton(f) PROVE Inv'
  <2> DEFINE clicked == [button EXCEPT ![f] = ~@]
             reg == ~button[f]
  <2>1. Register(f, reg, clicked, menu) /\ UNCHANGED <<phase, dialog>>
    BY <1>2 DEF ClickButton
  <2>2. /\ clicked \in [Feature -> BOOLEAN] /\ reg \in BOOLEAN
        /\ \A g \in Feature \ {f} : clicked[g] = button[g]
    BY DEF Inv, TypeOK
  <2>3. /\ \A g \in Feature : Restored(g)' => Restored(g)
        /\ phase' \in Feature \cup {"loop"}
        /\ button \in [Feature -> BOOLEAN] /\ menu \in [Feature -> BOOLEAN]
    BY <2>1 DEF Restored, Inv, TypeOK
  <2> HIDE DEF clicked, reg
  <2>4. QED
    BY <2>1, <2>2, <2>3, InvRegister
<1>3. ASSUME NEW f \in Feature, Menu_ExecuteNotifyEvent(f) PROVE Inv'
  <2> DEFINE clicked == [menu EXCEPT ![f] = ~@]
             reg == ~menu[f]
  <2>1. Register(f, reg, button, clicked) /\ UNCHANGED <<phase, dialog>>
    BY <1>3 DEF Menu_ExecuteNotifyEvent
  <2>2. /\ clicked \in [Feature -> BOOLEAN] /\ reg \in BOOLEAN
        /\ \A g \in Feature \ {f} : clicked[g] = menu[g]
    BY DEF Inv, TypeOK
  <2>3. /\ \A g \in Feature : Restored(g)' => Restored(g)
        /\ phase' \in Feature \cup {"loop"}
        /\ button \in [Feature -> BOOLEAN] /\ menu \in [Feature -> BOOLEAN]
    BY <2>1 DEF Restored, Inv, TypeOK
  <2> HIDE DEF clicked, reg
  <2>4. QED
    BY <2>1, <2>2, <2>3, InvRegister
<1>4. ASSUME Same, TypeOK' PROVE Inv'
  BY <1>4 DEF Inv, ViewsAgree, ShownIsRegistered, Restored, Waiting
<1>5. ASSUME NEW f \in Feature, HotkeyMessage(f) \/ PressHotkey(f) PROVE Inv'
  BY <1>4, <1>5 DEF HotkeyMessage, PressHotkey, views, hotkeys, Inv, TypeOK
<1>6. CASE CancelHotkeys \/ DialogReturns \/ OtherProgram
  BY <1>4, <1>6 DEF CancelHotkeys, DialogReturns, OtherProgram, views, hotkeys,
                    Inv, TypeOK
<1>7. CASE ConfirmHotkeys
  <2>1. key' \in [Feature -> Key]
    BY <1>7 DEF ConfirmHotkeys, DlgFunction_HotkeyValidCheck
  <2>2. QED
    BY <1>4, <1>7, <2>1 DEF ConfirmHotkeys, views, hotkeys, Inv, TypeOK
<1>8. CASE CloseBox
  <2> DEFINE h == Head(boxes)
  <2>1. /\ h \in Feature /\ boxes' \in Seq(Feature)
        /\ \A g \in Feature \ {h} : Waiting(g)' <=> Waiting(g)
    BY <1>8, BoxClosed DEF CloseBox, Inv, TypeOK
  <2>2. /\ UNCHANGED <<phase, key, registered, taken, hook, pending, dialog>>
        /\ button' = [button EXCEPT ![h] = FALSE]
        /\ menu' = [menu EXCEPT ![h] = FALSE]
        /\ saved' = [saved EXCEPT ![h] = FALSE]
    BY <1>8 DEF CloseBox, Show, hotkeys
  <2> HIDE DEF h
  <2>3. TypeOK'
    BY <2>1, <2>2 DEF Inv, TypeOK
  <2>4. ViewsAgree' /\ ShownIsRegistered'
    BY <2>1, <2>2 DEF Inv, TypeOK, ViewsAgree, ShownIsRegistered, Restored
  <2>5. QED
    BY <2>3, <2>4 DEF Inv
<1>9. CASE OpenDialog
  BY <1>9 DEF OpenDialog, Off, Inv, TypeOK, ViewsAgree, ShownIsRegistered
<1>10. CASE Restart
  BY <1>10 DEF Restart, Off, Inv, TypeOK, ViewsAgree, ShownIsRegistered, Restored, Feature
<1>11. CASE UNCHANGED vars
  BY <1>4, <1>11 DEF vars, views, hotkeys, Inv, TypeOK
<1>12. QED
  BY <1>1, <1>2, <1>3, <1>5, <1>6, <1>7, <1>8, <1>9, <1>10, <1>11 DEF Next

\* A feature none of whose error boxes is open shows one state everywhere,
\* and shows itself as on only with its hotkey registered.
THEOREM ViewsAreTrue == Spec => [](ViewsAgree /\ ShownIsRegistered)
<1>1. Spec => []Inv
  BY InvInit, InvNext, PTL DEF Spec
<1>2. Inv => ViewsAgree /\ ShownIsRegistered
  BY DEF Inv
<1>3. QED
  BY <1>1, <1>2, PTL

-------------------------------------------------------------------------------
(* Moving windows.                                                          *)

\* A step of HotkeyToggle inside the composition is one of its own.
LEMMA SwitchIsNext == DragNext => [Next]_vars
  BY DEF DragNext, Switch, DragRestart, Drag, HookDown, HookUp, HookMove, Unseen,
         WindowMoves, WindowCloses, Next

\* What is held is remembered where it was taken.
GripInv == h_moveHandle \in open => h_handlePoint - h_mousePoint = grip

DragInv == Inv /\ DragTypeOK /\ GripInv

\* Nothing is held at the start.
LEMMA DragInvInit == DragInit => DragInv
<1> SUFFICES ASSUME DragInit PROVE DragInv
  OBVIOUS
<1>1. Inv /\ TypeOK
  BY InvInit DEF DragInit, Inv
<1>2. DragTypeOK
  <2>1. h_mousePoint \in Point /\ h_handlePoint \in Coord /\ 0 \in Int
    BY DragAssumption DEF DragInit
  <2>2. QED
    BY <1>1, <2>1 DEF DragInit, DragTypeOK
<1>3. GripInv
  BY DragAssumption DEF DragInit, GripInv
<1>4. QED
  BY <1>1, <1>2, <1>3 DEF DragInv

\* Every step of the composition keeps the invariant.
LEMMA DragInvNext == DragInv /\ [DragNext]_allVars => DragInv'
<1> SUFFICES ASSUME DragInv, [DragNext]_allVars PROVE DragInv'
  OBVIOUS
<1>1. Inv' /\ TypeOK'
  BY SwitchIsNext, InvNext DEF DragInv, allVars, Inv
<1> USE DragAssumption DEF DragInv, DragTypeOK, GripInv
<1>2. CASE UNCHANGED dragVars
  BY <1>1, <1>2 DEF dragVars, mouse, held
<1>3. CASE DragRestart
  BY <1>1, <1>3 DEF DragRestart, mouse
<1>4. CASE HookDown
  <2>1. /\ h_mousePoint' = cursor /\ grip' = h_handlePoint' - cursor
        /\ h_handlePoint' \in Coord /\ h_moveHandle' \in open \cup {NoWindow}
        /\ down' = TRUE /\ UNCHANGED <<cursor, left, open>>
    BY <1>4 DEF HookDown
  <2>2. QED
    BY <1>1, <2>1
<1>5. CASE HookUp
  BY <1>1, <1>5 DEF HookUp
<1>6. CASE HookMove
  <2>1. PICK point \in Point :
          /\ cursor' = point
          /\ IF h_moveHandle # NoWindow
               THEN MoveHeld(point)
               ELSE UNCHANGED <<left, h_mousePoint, h_handlePoint, grip>>
    BY <1>6 DEF HookMove
  <2>2. UNCHANGED <<down, open, h_moveHandle>>
    BY <1>6 DEF HookMove
  <2>3. CASE h_moveHandle = NoWindow
    BY <1>1, <2>1, <2>2, <2>3
  <2>4. CASE h_moveHandle # NoWindow
    <3>1. /\ Target(point) \in Coord /\ h_handlePoint' \in Coord
          /\ SetWindowPos(Target(point), point)
          /\ h_moveHandle \in open => h_handlePoint' = left'[h_moveHandle]
          /\ h_mousePoint' = point
      BY <2>1, <2>4 DEF MoveHeld
    <3>2. CASE h_moveHandle \in open
      <4>1. PICK to \in Coord : left' = [left EXCEPT ![h_moveHandle] = to]
        BY <3>1, <3>2 DEF SetWindowPos
      <4>2. /\ left' \in [Window -> Coord]
            /\ left'[h_moveHandle] = to /\ h_handlePoint' = to
        BY <3>1, <3>2, <4>1
      <4>3. \/ to = Target(point) /\ grip' = grip
            \/ grip' = to - point
        BY <3>1, <3>2, <4>2 DEF SetWindowPos
      <4>4. h_handlePoint' - h_mousePoint' = grip' /\ grip' \in Int
        BY <3>1, <3>2, <4>2, <4>3 DEF Target
      <4>5. QED
        BY <1>1, <2>1, <2>2, <3>1, <4>2, <4>4
    <3>3. CASE h_moveHandle \notin open
      BY <1>1, <2>1, <2>2, <3>1, <3>3 DEF SetWindowPos
    <3>4. QED
      BY <3>2, <3>3
  <2>5. QED
    BY <2>3, <2>4
<1>7. CASE Unseen
  BY <1>1, <1>7 DEF Unseen, held
<1>8. CASE WindowMoves
  BY <1>1, <1>8 DEF WindowMoves, held, mouse
<1>9. CASE WindowCloses
  BY <1>1, <1>9 DEF WindowCloses, held, mouse
<1>10. QED
  BY <1>2, <1>3, <1>4, <1>5, <1>6, <1>7, <1>8, <1>9
  DEF DragNext, Switch, Drag, allVars

\* What a move does to a window that is held.
LEMMA MoveKeepsGrip ==
  ASSUME DragInv, HookMove, h_moveHandle \in open
  PROVE  \/ left'[h_moveHandle] = cursor' + grip
         \/ left'[h_moveHandle] # Target(cursor')
<1>1. cursor' \in Point
  BY DEF HookMove
<1>2. h_handlePoint - h_mousePoint = grip
  BY DEF DragInv, GripInv
<1>3. Target(cursor') = cursor' + grip
  BY <1>1, <1>2, DragAssumption DEF Target, DragInv, DragTypeOK
<1>4. QED
  BY <1>3

\* Dragging keeps a window where it was taken, whatever comes between.
THEOREM GripIsKept == DragSpec => GripKept
<1>1. DragSpec => []DragInv
  BY DragInvInit, DragInvNext, PTL DEF DragSpec
<1>2. DragInv /\ [DragNext]_allVars
        => [HookMove /\ h_moveHandle \in open =>
              \/ left'[h_moveHandle] = cursor' + grip
              \/ left'[h_moveHandle] # Target(cursor')]_allVars
  BY MoveKeepsGrip
<1>3. QED
  BY <1>1, <1>2, PTL DEF DragSpec, GripKept

\* A registration takes the hook of its feature and leaves the other's.
LEMMA RegisterUnhooks ==
  ASSUME TypeOK, NEW f \in Feature, NEW reg, NEW b, NEW m, Register(f, reg, b, m)
  PROVE  /\ \A g \in Feature : hook'[g] => g # f /\ hook[g]
         /\ \A g \in Feature \ {f} : registered'[g] = registered[g]
<1>1. \A g \in Feature : hook'[g] => g # f /\ hook[g]
  BY DEF Register, TypeOK
<1>2. \A g \in Feature \ {f} : registered'[g] = registered[g]
  BY DEF Register, Registered, Refused, Unregistered, TypeOK
<1>3. QED
  BY <1>1, <1>2

\* Only a WM_HOTKEY hooks, and whatever unregisters a hotkey unhooks.
LEMMA NextUnhooks ==
  ASSUME TypeOK, Next, NEW f \in Feature, hook'[f], registered'[f] = {}
  PROVE  \/ hook[f] /\ registered[f] = {}
         \/ HotkeyMessage(f)
<1>1. ASSUME NEW g \in Feature, Restore(g)
      PROVE  hook[f] /\ registered[f] = {}
  BY <1>1, RegisterUnhooks DEF Restore
<1>2. ASSUME NEW g \in Feature, ClickButton(g)
      PROVE  hook[f] /\ registered[f] = {}
  BY <1>2, RegisterUnhooks DEF ClickButton
<1>3. ASSUME NEW g \in Feature, Menu_ExecuteNotifyEvent(g)
      PROVE  hook[f] /\ registered[f] = {}
  BY <1>3, RegisterUnhooks DEF Menu_ExecuteNotifyEvent
<1>4. ASSUME NEW g \in Feature, HotkeyMessage(g)
      PROVE  (hook[f] /\ registered[f] = {}) \/ HotkeyMessage(f)
  BY <1>4 DEF HotkeyMessage, hotkeys, TypeOK
<1>5. ASSUME NEW g \in Feature, PressHotkey(g)
      PROVE  hook[f] /\ registered[f] = {}
  BY <1>5 DEF PressHotkey, hotkeys
<1>6. CASE OpenDialog \/ Restart
  BY <1>6 DEF OpenDialog, Restart, Off
<1>7. CASE CloseBox \/ ConfirmHotkeys \/ CancelHotkeys \/ DialogReturns \/ OtherProgram
  BY <1>7 DEF CloseBox, ConfirmHotkeys, CancelHotkeys, DialogReturns, OtherProgram, hotkeys
<1>8. QED
  BY <1>1, <1>2, <1>3, <1>4, <1>5, <1>6, <1>7 DEF Next

\* However the features are switched, none is hooked without a hotkey but by
\* a WM_HOTKEY that was in the queue.
THEOREM HooksHaveHotkeys == DragSpec => HookNeedsHotkey
<1>1. DragSpec => []DragInv
  BY DragInvInit, DragInvNext, PTL DEF DragSpec
<1>2. DragInv /\ [DragNext]_allVars
        => [\A f \in Feature :
              hook'[f] /\ registered'[f] = {} =>
                \/ hook[f] /\ registered[f] = {}
                \/ HotkeyMessage(f)]_allVars
  <2> SUFFICES ASSUME DragInv, DragNext, NEW f \in Feature,
                      hook'[f], registered'[f] = {}
               PROVE  (hook[f] /\ registered[f] = {}) \/ HotkeyMessage(f)
    OBVIOUS
  <2>1. CASE Next
    BY <2>1, NextUnhooks DEF DragInv, Inv
  <2>2. CASE UNCHANGED vars
    BY <2>2 DEF vars, hotkeys
  <2>3. QED
    BY <2>1, <2>2, SwitchIsNext
<1>3. QED
  BY <1>1, <1>2, PTL DEF DragSpec, HookNeedsHotkey

\* What is shown of the features is true in the composition as well.
THEOREM DragViewsAreTrue == DragSpec => [](DragTypeOK /\ ViewsAgree /\ ShownIsRegistered)
<1>1. DragSpec => []DragInv
  BY DragInvInit, DragInvNext, PTL DEF DragSpec
<1>2. DragInv => DragTypeOK /\ ViewsAgree /\ ShownIsRegistered
  BY DEF DragInv, Inv
<1>3. QED
  BY <1>1, <1>2, PTL
=============================================================================
