-------------------------- MODULE WindowListProofs --------------------------
(***************************************************************************)
(* The row the program works with is the row the user has selected, and a  *)
(* command works on the window of that row.                                *)
(***************************************************************************)
EXTENDS WindowList, SequenceTheorems, TLAPS

Inv == TypeOK /\ IndexIsSelection /\ TargetIsChosen

----------------------------------------------------------------------------
\* What a handle, a row and a place in the order of windows are.

LEMMA WindowIsHandle ==
  ASSUME TypeOK, NEW h, IsWindow(h) PROVE h \in Handles /\ h # NoWindow
BY HandlesAssumption DEF TypeOK, IsWindow, NoWindow

LEMMA RowIsHandle == ASSUME TypeOK, NEW i \in Int PROVE
  /\ RowOf(i) \in Handles \cup {NoWindow}
  /\ RowOf(i) # NoWindow => i \in Rows
BY DEF TypeOK, RowOf, Rows

LEMMA PlaceIsHandle == ASSUME TypeOK, NEW h PROVE
  /\ Top \in Handles \cup {NoWindow}
  /\ Below(h) \in Handles \cup {NoWindow}
<1>1. Top \in Handles \cup {NoWindow}
  <2>1. CASE z = <<>>
    BY <2>1 DEF Top
  <2>2. CASE z # <<>>
    BY <2>2 DEF Top, TypeOK
  <2> QED BY <2>1, <2>2
<1>2. CASE \E i \in DOMAIN z : z[i] = h /\ i < Len(z)
  <2>1. PICK i \in DOMAIN z : z[i] = h /\ i < Len(z)
    BY <1>2
  <2>2. i + 1 \in DOMAIN z /\ i + 1 > 1 /\ z[(i + 1) - 1] = h
    BY <2>1 DEF TypeOK
  <2>3. \E j \in DOMAIN z : j > 1 /\ z[j - 1] = h
    BY <2>2
  <2>4. (CHOOSE j \in DOMAIN z : j > 1 /\ z[j - 1] = h) \in DOMAIN z
    BY <2>3
  <2> QED BY <1>1, <1>2, <2>4 DEF Below, TypeOK
<1>3. CASE ~(\E i \in DOMAIN z : z[i] = h /\ i < Len(z))
  BY <1>1, <1>3 DEF Below
<1> QED BY <1>2, <1>3

LEMMA WithoutIsSeq == ASSUME TypeOK, NEW h, IsWindow(h) PROVE Without(h) \in Seq(Handles)
<1> DEFINE i == CHOOSE j \in DOMAIN z : z[j] = h
<1>1. i \in 1 .. Len(z)
  BY DEF IsWindow, TypeOK
<1>2. SubSeq(z, 1, i - 1) \in Seq(Handles)
  <2>1. \A k \in 1 .. i - 1 : z[k] \in Handles
    BY <1>1 DEF TypeOK
  <2> QED BY <1>1, <2>1, SubSeqProperties
<1>3. SubSeq(z, i + 1, Len(z)) \in Seq(Handles)
  <2>1. \A k \in i + 1 .. Len(z) : z[k] \in Handles
    BY <1>1 DEF TypeOK
  <2>2. i + 1 \in Int /\ Len(z) \in Int
    BY <1>1 DEF TypeOK
  <2> QED BY <2>1, <2>2, SubSeqProperties
<1> QED BY <1>2, <1>3, ConcatProperties DEF Without, RemoveAt

\* A button that is given a window works on the row the user has selected.
LEMMA TargetSelected ==
  ASSUME Inv, upc = "idle", IsWindow(Target) PROVE
  /\ sel \in Rows /\ sel = foc /\ sel = c_listViewIndex
  /\ Target = Cell(RowOf(sel)) /\ RowOf(sel) \in Handles
<1>1. Target # NoWindow /\ c_listViewIndex \in Int
  BY WindowIsHandle DEF Inv, TypeOK
<1>2. RowOf(c_listViewIndex) # NoWindow
  BY <1>1 DEF Target, TargetOf
<1>3. c_listViewIndex \in Rows
  BY <1>1, <1>2, RowIsHandle DEF Inv
<1>4. c_listViewIndex = Current(sel, foc)
  BY <1>3 DEF Inv, IndexIsSelection, Rows, TypeOK
<1>5. sel = foc /\ sel = c_listViewIndex
  BY <1>3, <1>4 DEF Current, NoRow, Rows
<1>6. RowOf(sel) \in Handles
  BY <1>1, <1>2, <1>5, RowIsHandle DEF Inv
<1> QED BY <1>2, <1>3, <1>5, <1>6 DEF Target, TargetOf

----------------------------------------------------------------------------
LEMMA InvInit == ASSUME Init PROVE Inv
<1>1. z \in Seq(Handles)
  BY DEF Init
<1> QED BY <1>1, HandlesAssumption, ProcessesAssumption
        DEF Init, Inv, TypeOK, Rows, IndexIsSelection, TargetIsChosen, NoRow, NoWindow,
            NoWalk, NoCmd, Pids, ToSet

\* The user selects, deselects or moves the focus: the notification sets the index.
LEMMA UseListStep == ASSUME Inv, UseList PROVE Inv'
<1>1. UNCHANGED <<z, shown, susp, busy, rows, upc, walk, cmd>>
  BY DEF UseList, SelectRow, SelectNothing, MoveFocus, UI, Select
<1>2. c_listViewIndex' = Current(sel', foc')
  BY DEF UseList, SelectRow, SelectNothing, MoveFocus, Select
<1>3. sel' \in Rows \cup {NoRow} /\ foc' \in Rows \cup {NoRow}
  BY DEF UseList, SelectRow, SelectNothing, MoveFocus, Select, Inv, TypeOK, Rows
<1>4. c_listViewIndex' \in Int
  BY <1>2, <1>3 DEF Current, NoRow, Rows
<1>5. TypeOK'
  BY <1>1, <1>3, <1>4 DEF Inv, TypeOK, Rows
<1>6. IndexIsSelection'
  BY <1>2 DEF IndexIsSelection, Current
<1>7. TargetIsChosen'
  BY <1>1 DEF Inv, TargetIsChosen, Cell
<1> QED BY <1>5, <1>6, <1>7 DEF Inv

\* While the list is built there is no selection; at the end the index is
\* brought into the list, or to its end.
LEMMA RefreshStep == ASSUME Inv, Refresh PROVE Inv'
<1> USE DEF Inv
<1>1. TargetIsChosen'
  BY DEF Refresh, BeginRefresh, ReadRow, NextWindow, NextProcess, EndRefresh, UI,
         TargetIsChosen, Cell
<1>2. CASE BeginRefresh
  <2>1. Top \in Handles \cup {NoWindow}
    BY PlaceIsHandle
  <2>2. TypeOK'
    BY <1>2, <2>1 DEF BeginRefresh, UI, TypeOK, Rows, NoRow
  <2>3. IndexIsSelection'
    BY <1>2 DEF BeginRefresh, IndexIsSelection
  <2> QED BY <1>1, <2>2, <2>3
<1>3. CASE ReadRow
  <2>1. walk.at \in Handles
    BY <1>3 DEF ReadRow, TypeOK
  <2>2. rows' \in Seq(Handles) /\ Len(rows') >= Len(rows)
    BY <1>3, <2>1 DEF ReadRow, TypeOK
  <2>3. sel' \in Rows' \cup {NoRow} /\ foc' \in Rows' \cup {NoRow}
    BY <1>3, <2>2 DEF ReadRow, TypeOK, Rows
  <2>4. TypeOK'
    BY <1>3, <2>2, <2>3 DEF ReadRow, UI, TypeOK
  <2>5. IndexIsSelection'
    BY <1>3 DEF ReadRow, IndexIsSelection
  <2> QED BY <1>1, <2>4, <2>5
<1>4. CASE NextWindow
  <2>1. Below(walk.at) \in Handles \cup {NoWindow}
    BY PlaceIsHandle
  <2>2. TypeOK'
    BY <1>4, <2>1 DEF NextWindow, UI, list, TypeOK, Rows
  <2>3. IndexIsSelection'
    BY <1>4 DEF NextWindow, IndexIsSelection
  <2> QED BY <1>1, <2>2, <2>3
<1>5. CASE NextProcess
  <2>1. Top \in Handles \cup {NoWindow}
    BY PlaceIsHandle
  <2>2. TypeOK'
    BY <1>5, <2>1 DEF NextProcess, UI, list, TypeOK, Rows
  <2>3. IndexIsSelection'
    BY <1>5 DEF NextProcess, IndexIsSelection
  <2> QED BY <1>1, <2>2, <2>3
<1>6. CASE EndRefresh
  <2>1. KeptIndex \in 0 .. Len(rows)
    BY DEF KeptIndex, TypeOK
  <2>2. TypeOK'
    BY <1>6, <2>1 DEF EndRefresh, UI, TypeOK, Rows, NoRow, NoWalk, NoWindow
  <2>3. IndexIsSelection'
    BY <1>6, <2>1 DEF EndRefresh, IndexIsSelection, Current, TypeOK
  <2> QED BY <1>1, <2>2, <2>3
<1> QED BY <1>2, <1>3, <1>4, <1>5, <1>6 DEF Refresh

\* No button changes the list; the target is taken from the selected row at
\* the click and kept in the dialog.
LEMMA CommandStep == ASSUME Inv, Command PROVE Inv'
<1> USE DEF Inv
<1>1. UNCHANGED <<z, busy, list, walk>>
  BY DEF Command, ClickChange, ClickStopOrResume, ClickInVain, ClickAbsolute,
         ConfirmChange, ConfirmFilter, Cancel, Return, UI
<1>2. upc' \in {"idle", "tail", "dialog", "call"}
  BY DEF Command, ClickChange, ClickStopOrResume, ClickInVain, ClickAbsolute,
         ConfirmChange, ConfirmFilter, Cancel, Return, Begin
<1>3. IndexIsSelection'
  <2>1. upc \in {"idle", "dialog", "call"}
    BY DEF Command, ClickChange, ClickStopOrResume, ClickInVain, ClickAbsolute,
           ConfirmChange, ConfirmFilter, Cancel, Return
  <2> QED BY <1>1, <2>1 DEF IndexIsSelection, list, Current
<1>4. susp' \in [Pids -> Nat] /\ shown' \subseteq Handles
  BY DEF Command, ClickChange, ClickStopOrResume, ClickInVain, ClickAbsolute,
         ConfirmChange, ConfirmFilter, Cancel, Return, UI, TypeOK
<1>5. CASE ClickChange
  <2>1. IsWindow(Target) /\ upc = "idle"
    BY <1>5 DEF ClickChange, Accepts
  <2>2. Target \in Handles /\ Target # NoWindow
    BY <2>1, WindowIsHandle
  <2>3. RowOf(sel) \in Handles /\ Target = Cell(RowOf(sel))
    BY <2>1, TargetSelected
  <2>4. PICK kind \in {"property", "opacity"} :
          cmd' = [kind |-> kind, hwnd |-> Target, chosen |-> RowOf(sel)]
    BY <1>5 DEF ClickChange, Begin
  <2>5. TargetIsChosen'
    BY <2>3, <2>4, HandlesAssumption DEF TargetIsChosen, Cell, NoWindow
  <2>6. TypeOK'
    BY <1>1, <1>2, <1>4, <2>2, <2>3, <2>4, HandlesAssumption DEF TypeOK, list, Rows
  <2> QED BY <1>3, <2>5, <2>6
<1>6. CASE ClickAbsolute
  <2>1. cmd' = [kind |-> "filter", hwnd |-> NoWindow, chosen |-> RowOf(sel)]
    BY <1>6 DEF ClickAbsolute, Begin
  <2>2. RowOf(sel) \in Handles \cup {NoWindow}
    BY RowIsHandle DEF TypeOK, Rows, NoRow
  <2>3. TargetIsChosen'
    BY <2>1 DEF TargetIsChosen
  <2>4. TypeOK'
    BY <1>1, <1>2, <1>4, <2>1, <2>2 DEF TypeOK, list, Rows, NoWindow
  <2> QED BY <1>3, <2>3, <2>4
<1>7. CASE ClickStopOrResume \/ ClickInVain \/ ConfirmChange \/ ConfirmFilter \/ Cancel \/ Return
  <2>1. cmd' \in {cmd, NoCmd}
    BY <1>7 DEF ClickStopOrResume, ClickInVain, ConfirmChange, ConfirmFilter, Cancel, Return
  <2>2. TargetIsChosen'
    <3>1. CASE cmd' = cmd
      BY <3>1 DEF TargetIsChosen
    <3>2. CASE cmd' = NoCmd
      BY <3>2 DEF TargetIsChosen, NoCmd
    <3> QED BY <2>1, <3>1, <3>2
  <2>3. TypeOK'
    BY <1>1, <1>2, <1>4, <2>1 DEF TypeOK, list, Rows, NoCmd, NoWindow
  <2> QED BY <1>3, <2>2, <2>3
<1> QED BY <1>5, <1>6, <1>7 DEF Command

\* The desktop changes under the list.
LEMMA DesktopStep == ASSUME Inv, Desktop PROVE Inv'
<1> USE DEF Inv
<1>1. UNCHANGED <<list, upc, walk, cmd>>
  BY DEF Desktop, Hang, Recover
<1>2. IndexIsSelection' /\ TargetIsChosen'
  BY <1>1 DEF list, IndexIsSelection, TargetIsChosen, Current, Cell
<1>3. z' \in Seq(Handles) /\ shown' \subseteq Handles /\ susp' \in [Pids -> Nat] /\ busy' \subseteq Pids
  <2>1. CASE \E h \in Handles : Open(h)
    <3>1. PICK h \in Handles : Open(h)
      BY <2>1
    <3>2. <<h>> \o z \in Seq(Handles)
      BY ConcatProperties DEF TypeOK
    <3>3. susp' \in [Pids -> Nat] /\ busy' \subseteq Pids
      BY <3>1 DEF Open, TypeOK
    <3> QED BY <3>1, <3>2, <3>3 DEF Open, TypeOK
  <2>2. CASE \E h \in Handles : Close(h)
    BY <2>2, WithoutIsSeq DEF Close, TypeOK
  <2>3. CASE \E h \in Handles : Raise(h)
    <3>1. PICK h \in Handles : Raise(h)
      BY <2>3
    <3>2. Without(h) \in Seq(Handles)
      BY <3>1, WithoutIsSeq DEF Raise
    <3> QED BY <3>1, <3>2 DEF Raise, TypeOK
  <2>4. CASE \E h \in Handles : Restyle(h)
    BY <2>4 DEF Restyle, TypeOK
  <2>5. CASE \E p \in MayHang : Hang(p) \/ Recover(p)
    BY <2>5, ProcessesAssumption DEF Hang, Recover, TypeOK
  <2> QED BY <2>1, <2>2, <2>3, <2>4, <2>5 DEF Desktop
<1>4. TypeOK'
  BY <1>1, <1>3 DEF list, TypeOK, Rows
<1> QED BY <1>2, <1>4

LEMMA InvNext == ASSUME Inv, [Next]_vars PROVE Inv'
<1>1. CASE UNCHANGED vars
  BY <1>1 DEF vars, desktop, list, Inv, TypeOK, Rows, IndexIsSelection, TargetIsChosen,
              Current, Cell
<1> QED BY <1>1, UseListStep, RefreshStep, CommandStep, DesktopStep DEF Next

----------------------------------------------------------------------------
(* For any windows, processes, filters and interleavings, the index agrees
   with the selection the user sees, and the target of a command with the
   window chosen at the click. *)
THEOREM CommandsFollowSelection == Spec => [](TypeOK /\ SelectionIsFollowed)
<1>1. Init => Inv
  BY InvInit
<1>2. Inv /\ [Next]_vars => Inv'
  BY InvNext
<1>3. Inv => TypeOK /\ SelectionIsFollowed
  BY DEF Inv, SelectionIsFollowed
<1> QED BY <1>1, <1>2, <1>3, PTL DEF Spec

(* STOP suspends no thread but that of the window in the selected row. *)
THEOREM StopFollowsSelection == Spec => StopsTheChosen
<1>1. Inv /\ [Next]_vars => [StopOfTheChosen]_vars
  <2> SUFFICES ASSUME Inv, [Next]_vars PROVE [StopOfTheChosen]_vars
    OBVIOUS
  <2>1. CASE ClickStopOrResume
    <3>1. sel \in Rows /\ sel = foc /\ Target = Cell(RowOf(sel))
      BY <2>1, TargetSelected DEF ClickStopOrResume, Accepts
    <3>2. \A p \in Pids : susp'[p] > susp[p] => p = ProcessOf[Target]
      BY <2>1 DEF ClickStopOrResume, Inv, TypeOK
    <3> QED BY <3>1, <3>2 DEF StopOfTheChosen, Rows, NoRow
  <2>2. CASE \E h \in Handles : Open(h)
    BY <2>2 DEF StopOfTheChosen, Open, Inv, TypeOK
  <2>3. CASE UNCHANGED susp
    BY <2>3 DEF StopOfTheChosen, Inv, TypeOK
  <2> QED
    BY <2>1, <2>2, <2>3 DEF Next, UseList, SelectRow, SelectNothing, MoveFocus, Refresh,
       BeginRefresh, ReadRow, NextWindow, NextProcess, EndRefresh, Command, ClickChange,
       ClickInVain, ClickAbsolute, ConfirmChange, ConfirmFilter, Cancel, Return, UI,
       Desktop, Close, Raise, Restyle, Hang, Recover, vars, desktop
<1>2. Init => Inv
  BY InvInit
<1>3. Inv /\ [Next]_vars => Inv'
  BY InvNext
<1> QED BY <1>1, <1>2, <1>3, PTL DEF Spec, StopsTheChosen
=============================================================================
