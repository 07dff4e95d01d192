---------------------------- MODULE WindowList ----------------------------
(***************************************************************************)
(* The list of windows and the buttons that work on the selected one       *)
(* (control.cpp, main.cpp, process.cpp).                                   *)
(*                                                                         *)
(* One thread, the UI thread, walks the windows of the desktop row by row  *)
(* while they open, close and change places; the program remembers the     *)
(* selected row as an index that outlives the rows.  A button reads the    *)
(* handle back from the text of the row.  Some commands open a dialog      *)
(* whose message loop may build the list anew, some send messages the      *)
(* window has to answer, and one of them stops the thread of the window.   *)
(***************************************************************************)
EXTENDS Integers, SequencesExt

CONSTANTS
  Handles,      \* the handles windows may have, as the integers %d prints
  Processes,    \* the processes in the order of their snapshot
  ProcessOf,    \* the process of the window with a handle; one GUI thread each
  OwnProcess,   \* WindowProperty itself
  MayHang,      \* the processes that may cease to answer on their own
  Digits,       \* characters of a cell that fit into pidhwnd (9)
  MaxRows,      \* bound: rows of a list while windows move under the walk
  MaxSuspend    \* bound: suspend count of a thread

Pids == ToSet(Processes)

ASSUME HandlesAssumption == Handles \subseteq Int \ {0}
ASSUME ProcessesAssumption ==
  /\ Processes \in Seq(Pids) /\ Processes # <<>>
  /\ ProcessOf \in [Handles -> Pids]
  /\ OwnProcess \in Pids
  /\ MayHang \subseteq Pids
ASSUME BoundsAssumption == Digits \in Nat \ {0} /\ MaxRows \in Nat /\ MaxSuspend \in Nat

VARIABLES
  z,                \* the top-level windows, the topmost first
  shown,            \* the handles whose styles pass Util_WindowFilter
  susp,             \* the suspend count of the thread of each process
  busy,             \* the processes that do not answer messages of their own accord
  rows,             \* the handles the rows of c_listView show
  sel, foc,         \* the selected and the focused row, -1 for none
  c_listViewIndex,
  upc,              \* where the UI thread is
  walk,             \* the place of Control_RefreshListView in its two loops
  cmd               \* the command under way

desktop == <<z, shown, susp, busy>>
list == <<rows, sel, foc, c_listViewIndex>>
vars == <<desktop, list, upc, walk, cmd>>

NoRow == -1
NoWindow == 0
NoWalk == [proc |-> 0, at |-> NoWindow, read |-> FALSE]
NoCmd == [kind |-> "none", hwnd |-> NoWindow, chosen |-> NoWindow]

----------------------------------------------------------------------------
(* The windows.                                                            *)

IsWindow(h) == \E i \in DOMAIN z : z[i] = h
Stopped(h) == susp[ProcessOf[h]] > 0
Responsive(h) == ~Stopped(h) /\ ProcessOf[h] \notin busy
Frozen == susp[OwnProcess] > 0

Top == IF z = <<>> THEN NoWindow ELSE z[1]

(* GetWindow(h, GW_HWNDNEXT): nothing for the last window and for a closed one. *)
Below(h) ==
  IF \E i \in DOMAIN z : z[i] = h /\ i < Len(z)
  THEN z[CHOOSE j \in DOMAIN z : j > 1 /\ z[j - 1] = h]
  ELSE NoWindow

(* The text of a handle is cut off to Digits characters, a minus sign among
   them, and read back as a number. *)
Cell(h) ==
  LET room == IF h < 0 THEN Digits - 1 ELSE Digits
      size == IF h < 0 THEN -h ELSE h
      kept == CHOOSE k \in 0 .. Digits + 2 :
                /\ size \div 10 ^ k < 10 ^ room
                /\ \A j \in 0 .. k - 1 : size \div 10 ^ j >= 10 ^ room
      cut  == size \div 10 ^ kept
  IN IF h < 0 THEN -cut ELSE cut

----------------------------------------------------------------------------
(* The list.                                                               *)

(* Mutant: the row that is focused, selected or not. *)
Current_FocusOnly(s, f) == f

(* LVN_ITEMCHANGED: the row that is both focused and selected. *)
Current(s, f) == IF s = f THEN s ELSE NoRow

RowOf(i) == IF i \in 0 .. Len(rows) - 1 THEN rows[i + 1] ELSE NoWindow
TargetOf(i) == IF RowOf(i) = NoWindow THEN NoWindow ELSE Cell(RowOf(i))

Select(s, f) ==
  /\ sel' = s
  /\ foc' = f
  /\ c_listViewIndex' = Current(s, f)
  /\ UNCHANGED rows

(* The UI thread runs, and leaves filter and suspend counts alone. *)
UI == ~Frozen /\ UNCHANGED <<shown, susp>>

SelectRow ==
  /\ upc = "idle"
  /\ \E i \in 0 .. Len(rows) - 1 : Select(i, i)
  /\ UI /\ UNCHANGED <<z, busy, upc, walk, cmd>>

(* Without a row to deselect there is no notification. *)
SelectNothing ==
  /\ upc = "idle"
  /\ sel # NoRow
  /\ Select(NoRow, foc)
  /\ UI /\ UNCHANGED <<z, busy, upc, walk, cmd>>

MoveFocus ==
  /\ upc = "idle"
  /\ \E i \in 0 .. Len(rows) - 1 : i # foc /\ Select(sel, i)
  /\ UI /\ UNCHANGED <<z, busy, upc, walk, cmd>>

(* Control_RefreshListView begins: after a command, and for WM_SETFOCUS,
   WM_SHOWWINDOW and WM_SYSCOMMAND, which a dialog lets through too. *)
BeginRefresh ==
  /\ upc \in {"idle", "dialog", "tail"}
  /\ rows' = <<>> /\ sel' = NoRow /\ foc' = NoRow
  /\ walk' = [proc |-> 1, at |-> Top, read |-> FALSE]
  /\ upc' = "refresh"
  /\ UI /\ UNCHANGED <<z, busy, c_listViewIndex, cmd>>

(* A handle that is closed by now belongs to no process; its pid is read
   uninitialized, and its style 0 passes a filter that requires nothing. *)
Listed(h) ==
  IF IsWindow(h)
  THEN {ProcessOf[h] = Processes[walk.proc] /\ h \in shown}
  ELSE BOOLEAN

ReadRow ==
  /\ upc = "refresh" /\ walk.at # NoWindow /\ ~walk.read
  /\ \E listed \in Listed(walk.at) :
       rows' = IF listed THEN Append(rows, walk.at) ELSE rows
  /\ walk' = [walk EXCEPT !.read = TRUE]
  /\ UI /\ UNCHANGED <<z, busy, sel, foc, c_listViewIndex, upc, cmd>>

NextWindow ==
  /\ upc = "refresh" /\ walk.at # NoWindow /\ walk.read
  /\ walk' = [walk EXCEPT !.at = Below(walk.at), !.read = FALSE]
  /\ UI /\ UNCHANGED <<z, busy, list, upc, cmd>>

NextProcess ==
  /\ upc = "refresh" /\ walk.at = NoWindow /\ walk.proc < Len(Processes)
  /\ walk' = [proc |-> walk.proc + 1, at |-> Top, read |-> FALSE]
  /\ UI /\ UNCHANGED <<z, busy, list, upc, cmd>>

(* Mutant: the index is only checked from below. *)
KeptIndex_FromBelow == IF c_listViewIndex < 0 THEN 0 ELSE c_listViewIndex

KeptIndex == IF c_listViewIndex < 0 \/ c_listViewIndex > Len(rows) THEN 0 ELSE c_listViewIndex

(* The notification of SetItemState comes back with the same index; a row
   that does not exist is not selected. *)
EndRefresh ==
  /\ upc = "refresh" /\ walk.at = NoWindow /\ walk.proc = Len(Processes)
  /\ c_listViewIndex' = KeptIndex
  /\ sel' = IF KeptIndex < Len(rows) THEN KeptIndex ELSE NoRow
  /\ foc' = sel'
  /\ walk' = NoWalk
  /\ upc' = IF cmd = NoCmd THEN "idle" ELSE "dialog"
  /\ UI /\ UNCHANGED <<z, busy, rows, cmd>>

----------------------------------------------------------------------------
(* The buttons.                                                            *)

(* Commands with a dialog for a window: the properties ("property") and the
   caption; without one: the opacity ("opacity") and full screen. *)
(* Mutant: the opacity is changed without asking the window. *)
NeedsAnswer_Dialogs(kind) == kind = "property"

NeedsAnswer(kind) == kind \in {"property", "opacity"}

Target == TargetOf(c_listViewIndex)
Accepts(kind) == IsWindow(Target) /\ (NeedsAnswer(kind) => Responsive(Target))

Begin(kind, h, place) ==
  /\ cmd' = [kind |-> kind, hwnd |-> h, chosen |-> RowOf(sel)]
  /\ upc' = place

(* Process_WindowPropChange and Process_WindowCaptionChange open a dialog,
   Process_WindowOpacityChange and Process_WindowFullScreenChange do not. *)
ClickChange ==
  /\ upc = "idle" /\ c_listViewIndex # NoRow
  /\ \/ Accepts("property") /\ Begin("property", Target, "dialog")
     \/ Accepts("opacity") /\ Begin("opacity", Target, "call")
  /\ UI /\ UNCHANGED <<z, busy, list, walk>>

(* Process_WindowMainThread: OpenThread may fail, and nobody looks.  The other
   commands without an answer are modelled elsewhere and change nothing here. *)
ClickStopOrResume ==
  /\ upc = "idle" /\ c_listViewIndex # NoRow /\ ~Frozen
  /\ Accepts("stop")
  /\ LET p == ProcessOf[Target] IN
       \/ susp[p] < MaxSuspend /\ susp' = [susp EXCEPT ![p] = @ + 1]
       \/ susp[p] > 0 /\ susp' = [susp EXCEPT ![p] = @ - 1]
       \/ UNCHANGED susp
  /\ upc' = "tail"
  /\ UNCHANGED <<z, shown, busy, list, walk, cmd>>

(* A window that is gone or does not answer: Menu_InfoNotifyIcon. *)
ClickInVain ==
  /\ upc = "idle" /\ c_listViewIndex # NoRow
  /\ \E kind \in {"property", "stop"} : ~Accepts(kind)
  /\ upc' = "tail"
  /\ UI /\ UNCHANGED <<z, busy, list, walk, cmd>>

(* The dialogs of the filter and of the hotkeys need no window. *)
ClickAbsolute ==
  /\ upc = "idle"
  /\ Begin("filter", NoWindow, "dialog")
  /\ UI /\ UNCHANGED <<z, busy, list, walk>>

(* Mutant: the target is read from the list again. *)
ConfirmChange_ReadsAgain ==
  /\ upc = "dialog" /\ cmd.kind = "property"
  /\ IF IsWindow(Target) THEN upc' = "call" /\ cmd' = [cmd EXCEPT !.hwnd = Target]
                         ELSE upc' = "tail" /\ cmd' = NoCmd
  /\ UI /\ UNCHANGED <<z, busy, list, walk>>

ConfirmChange ==
  /\ upc = "dialog" /\ cmd.kind = "property"
  /\ IF IsWindow(cmd.hwnd) THEN upc' = "call" /\ UNCHANGED cmd
                           ELSE upc' = "tail" /\ cmd' = NoCmd
  /\ UI /\ UNCHANGED <<z, busy, list, walk>>

ConfirmFilter ==
  /\ upc = "dialog" /\ cmd.kind = "filter" /\ ~Frozen
  /\ shown' \in SUBSET Handles
  /\ upc' = "tail" /\ cmd' = NoCmd
  /\ UNCHANGED <<z, susp, busy, list, walk>>

Cancel ==
  /\ upc = "dialog"
  /\ upc' = "tail" /\ cmd' = NoCmd
  /\ UI /\ UNCHANGED <<z, busy, list, walk>>

(* SetWindowPos and SetWindowText return when the window has answered, or
   fail when it is closed.  What they change of it, Restyle stands for. *)
Return ==
  /\ upc = "call"
  /\ IsWindow(cmd.hwnd) => Responsive(cmd.hwnd)
  /\ upc' = "tail" /\ cmd' = NoCmd
  /\ UI /\ UNCHANGED <<z, busy, list, walk>>

----------------------------------------------------------------------------
(* The desktop.                                                            *)

Without(h) == RemoveAt(z, CHOOSE i \in DOMAIN z : z[i] = h)

(* The first window of a process that was not running. *)
Started(h) == \A i \in DOMAIN z : ProcessOf[z[i]] # ProcessOf[h]

(* Bound: windows come under a walk only while the list has room for them. *)
Room(n) == upc = "refresh" => Len(rows) + n <= MaxRows

Open(h) ==
  /\ ~IsWindow(h) /\ Room(Len(z) + 1)
  /\ \/ Started(h) /\ susp' = [susp EXCEPT ![ProcessOf[h]] = 0] /\ busy' = busy \ {ProcessOf[h]}
     \/ ~Started(h) /\ Responsive(h) /\ UNCHANGED <<susp, busy>>
  /\ z' = <<h>> \o z
  /\ UNCHANGED shown

(* By its program, or with its process. *)
Close(h) ==
  /\ IsWindow(h) /\ ProcessOf[h] # OwnProcess
  /\ z' = Without(h)
  /\ UNCHANGED <<shown, susp, busy>>

Raise(h) ==
  /\ IsWindow(h) /\ h # Top /\ Room(Len(z))
  /\ z' = <<h>> \o Without(h)
  /\ UNCHANGED <<shown, susp, busy>>

(* A window is shown, hidden or given other styles. *)
Restyle(h) ==
  /\ shown' = IF h \in shown THEN shown \ {h} ELSE shown \cup {h}
  /\ UNCHANGED <<z, susp, busy>>

Hang(p) ==
  /\ p \notin busy
  /\ busy' = busy \cup {p}
  /\ UNCHANGED <<z, shown, susp, list, upc, walk, cmd>>

Recover(p) ==
  /\ p \in busy
  /\ busy' = busy \ {p}
  /\ UNCHANGED <<z, shown, susp, list, upc, walk, cmd>>

Desktop ==
  \/ /\ \E h \in Handles : Open(h) \/ Close(h) \/ Raise(h) \/ Restyle(h)
     /\ UNCHANGED <<list, upc, walk, cmd>>
  \/ \E p \in MayHang : Hang(p) \/ Recover(p)

----------------------------------------------------------------------------

(* wWinMain creates the list and fills it for the first time. *)
Init ==
  /\ \E h \in Handles : ProcessOf[h] = OwnProcess /\ z = <<h>>
  /\ shown = Handles
  /\ susp = [p \in Pids |-> 0]
  /\ busy = {}
  /\ rows = <<>> /\ sel = NoRow /\ foc = NoRow
  /\ c_listViewIndex = 0
  /\ upc = "tail" /\ walk = NoWalk /\ cmd = NoCmd

UseList == SelectRow \/ SelectNothing \/ MoveFocus
Refresh == BeginRefresh \/ ReadRow \/ NextWindow \/ NextProcess \/ EndRefresh
Command ==
  \/ ClickChange \/ ClickStopOrResume \/ ClickInVain \/ ClickAbsolute
  \/ ConfirmChange \/ ConfirmFilter \/ Cancel \/ Return

Next == UseList \/ Refresh \/ Command \/ Desktop

Spec == Init /\ [][Next]_vars

(* A call returns when its window gets to answer it ... *)
CallSpec == Spec /\ SF_vars(Return)
(* ... and a window that ceases to answer of its own accord will again. *)
FairSpec == CallSpec /\ \A p \in MayHang : WF_vars(Recover(p))

----------------------------------------------------------------------------
(* Properties.                                                             *)

Rows == 0 .. Len(rows) - 1

(* Types. *)
TypeOK ==
  /\ z \in Seq(Handles) /\ shown \subseteq Handles
  /\ susp \in [Pids -> Nat] /\ busy \subseteq Pids
  /\ rows \in Seq(Handles)
  /\ sel \in Rows \cup {NoRow} /\ foc \in Rows \cup {NoRow}
  /\ c_listViewIndex \in Int
  /\ upc \in {"idle", "refresh", "tail", "dialog", "call"}
  /\ walk \in [proc : Nat, at : Handles \cup {NoWindow}, read : BOOLEAN]
  /\ cmd \in [kind : {"none", "property", "opacity", "filter"},
              hwnd : Int, chosen : Handles \cup {NoWindow}]

(* Whatever the list has gone through (control.cpp:222), the index the
   program works with is the row the user sees selected and focused; if it is
   not a row, no row is: it is then the first index after the last row. *)
IndexIsSelection ==
  upc \in {"idle", "dialog", "call"} =>
    \/ c_listViewIndex = Current(sel, foc)
    \/ c_listViewIndex = Len(rows) /\ sel = NoRow /\ foc = NoRow

(* From the click to the last call of a command its target is the window that
   was selected at the click (main.cpp:226-232, process.cpp:350-365), though
   the list may be built anew while the dialog is open. *)
TargetIsChosen ==
  cmd.kind \in {"property", "opacity"} =>
    cmd.chosen # NoWindow /\ cmd.hwnd = Cell(cmd.chosen)

(* Both together: from the row the user sees selected to the window that a
   command changes. *)
SelectionIsFollowed == IndexIsSelection /\ TargetIsChosen

(* A thread is stopped only as the thread of the window in the selected row
   (process.cpp:520-528). *)
StopOfTheChosen ==
  \A p \in Pids : susp'[p] > susp[p] =>
    /\ sel # NoRow /\ sel = foc
    /\ p = ProcessOf[Cell(RowOf(sel))]
StopsTheChosen == [][StopOfTheChosen]_vars

(* The program does not wait for ever for a window it has itself stopped: the
   button that would resume it could not be pressed any more (main.cpp:62-69).
   Under CallSpec the code does not hold it: only the window of a dialog that
   is about to open is asked, not that of a dialog that is confirmed. *)
CallsReturn == upc = "call" ~> upc # "call"

----------------------------------------------------------------------------
(* What the code does not hold.                                            *)

(* A list with rows has a selected row after it was built ("Program Will Be
   Crash If List Item Not Selected", control.cpp:221). *)
RowSelected == upc = "idle" /\ rows # <<>> => c_listViewIndex < Len(rows)

(* A command reaches the window of the selected row (main.cpp:229). *)
HandleIsWhole == cmd.kind = "opacity" => cmd.hwnd = cmd.chosen

(* A window has at most one row (global.hpp:94-99). *)
EachOnce == \A i, j \in DOMAIN rows : rows[i] = rows[j] => i = j

(* STOP leaves the thread alone that runs the buttons (process.cpp:525). *)
NeverFrozen == ~Frozen
=============================================================================
