# WindowProperty: specifications

TLA+ specifications of WindowProperty (`src/`), a Windows tray utility that lists windows, changes
their styles, moves them, confines the cursor, measures run times and shows a Discord activity. The
modules are translated from the code under `src/`; TLC checks them on small instances, TLAPS proves
the theorems listed below for every value of the constants.

## 1. The system

One process, one UI thread (`wWinMain`, `MainProc`, the dialogs, the low-level mouse hook), and the
threads it starts:

| Thread | Started by | Shares with the UI thread |
| --- | --- | --- |
| `Thread_Run`, one per node | `Thread_CreateThread` (thread.cpp) | the node (`PTDATA`), the record file, `m_regrec`; no lock |
| `Run` | `DiscordPresence_Start` | settings under `settingsMutex`, two events, the pipe handle |
| `ClipCheck`, one per cursor clip | `Hook_ClipCursor` (hook.cpp) | `h_hookClip`; no lock |
| `DlgFunction_SystemTimeLoop`, one per property dialog | property dialog | `p_tdata` |

Outside the process there are the injector (`dllinjector`), the injected DLL (`dll`), Explorer, the
Task Scheduler, Discord, and the windows and processes being watched. The registry carries state from
one session to the next and from the program to the DLL.

What makes the code hard to test is the same throughout: the threads share plain variables; message
boxes and dialogs run message loops in the middle of a handler, so that other handlers run inside it;
calls into Windows fail one by one; and other programs act at any time.

### Components

| Component | State | Operations | Interacts with | What makes it correct |
| --- | --- | --- | --- | --- |
| Runtime checker (thread.cpp) | list of nodes, record file, registry key of accumulated times | request, watch, record, reuse, close | processes, message boxes, the end of wWinMain | a pid is watched once; nodes are reused and freed only when idle; every ended process is recorded once |
| Discord activity (discord_presence.cpp) | settings, registry values, events, worker, pipe | dialog, start, stop, connect, send, answer pings, retry | Discord | no stored setting is lost; stopping leaves nothing behind; the UI never waits for ever |
| Cursor clip (hook.cpp) | `h_hookClip`, clip rectangle | on, off, loop of ClipCheck | foreground window | a confined cursor will be set free |
| Hotkeys of move and clip (hook.cpp, menu.cpp, process.cpp) | button, menu item, registry value, registered hotkeys, hooks | switch from button, tray menu, dialog, start-up; WM_HOTKEY | error boxes, hotkey dialog, other programs' hotkeys | what is shown is what is registered |
| Window move hook (hook.cpp) | `h_moveHandle`, two points | button down, up, move | mouse, the hotkeys | a dragged window stays where it was taken, and the hook goes with its hotkey |
| Tray icon (main.cpp, menu.cpp) | retry timer and count | add, retry, TaskbarCreated, remove | Explorer | the icon comes back |
| Tray menu (menu.cpp) | checked items, task, registry key | start-up task, context menu | Task Scheduler, Explorer | a checked item means the registration exists |
| Notifications (menu.cpp) | one balloon, one timer | show, clear | Explorer, the tray icon | a balloon is taken away again |
| DLL hook (process.cpp, dllinjector, dll) | `LastHook`, `LastHookHWND`, references of the DLL | command line, capture | target processes | each request does its work on its window |
| Window list and commands (control.cpp, main.cpp) | list, selected index | refresh, select, dispatch | all windows | a command reaches the window that was selected |
| Property and filter dialogs (process.cpp, dlgfunction.cpp) | check boxes, `p_currentProp`, `u_filter`, `p_dlgType`, `p_tdata` | edit, apply, reset, show the running time; opacity, full screen | target window, registry, boxes of the tray menu | composite check boxes agree with their bits; a dialog changes only what it was opened for; the time is the age of the process |
| Suspend and resume (process.cpp) | suspend count of a thread | stop, resume | target thread | every stop can be undone |
| Times and registry helpers (util.cpp) | none | elapsed time, hotkey values | | times are right up to their resolution |
| Start and version check (main.cpp) | version and old keys in the registry | look for another run, hand over, migrate, start, end | other runs | requests are served by a runtime checker that runs; old keys are gone before the version says so |
| Log and list windows, message and key names | text | append, look up | | (not modelled) |

The hazards of this code are listed at their lines in PROJECT.json, with the properties that cover
them or the reason why none does.

## 2. The modules

`RuntimeWatch` / `WatchService` — the runtime checker and what it promises.
`DiscordPresence` — the Discord activity. `CursorClip` — the cursor clip. `HotkeyToggle`, and
`MoveDrag`, which extends it — the hotkeys and the mouse hook they switch. `TrayIcon`,
`Notifications`, which extends it, and `Tray`, which composes both with `TrayMenu` — the tray.
`WindowList` — the list of windows and its commands. `WindowStyle`, `PropTime` — the dialogs over a
window and the thread one of them starts. `DllHook` — the three programs of the DLL hook. `StartUp` —
several runs of the program. `MC*` modules give values to constants TLC cannot read from a .cfg;
`*Proofs` modules hold the theorems (`HotkeyToggleProofs` also those of MoveDrag, `TrayProofs` those of
TrayIcon, Notifications, TrayMenu and Tray, `DialogProofs` those of WindowStyle and PropTime,
`HandOverProofs` those of StartUp and DllHook). Definitions
marked "Mutant:" are small bugs in the definition below them, used to show that a property can fail.

Actions carry the names of the functions they stand for; an action is as large as what no other
thread, box or program can get between. Values that decide nothing (texts, times, rectangles) are
named by what they came from.

### RuntimeWatch

The UI thread is `mpc` (where it is in `Thread_CreateThread` or `Thread_Close`), `mproc` and `mnode`
(its locals); `wpc[n]` is where `Thread_Run` of node n is; `pid`, `process`, `path`, `event`,
`endEvt` are the fields of `PTDATA`. `boxes` is the stack of requests that wait in a message box:
`Util_PrintWindowsLastError` shows a box without an owner, so WM_COPYDATA and the buttons start
further requests inside it, and boxes return newest first. Each plain store that a watcher or the UI
thread makes, and that the other one reads, is an action of its own (`CloseProcess`, `ClearProcess`,
`ClearPid`; `FillNode`, `SignalNode`, `LinkNode`), and so are the read and the write of the
accumulated time.

`WatchService` has neither threads nor nodes: a process is taken on while no other with its pid is,
and let go with one record after it ended or once the program is closing. `ImplementsService` is the
refinement (`INSTANCE WatchService WITH active <- ..., ended <- ..., closing <- ...`). A process is
served from `FillNode` on by a node that the list has or is about to get (`Serving`), until its record
is complete (`Unreported`); a node that is filled but never linked, because a conversion failed, serves
nobody, and a watcher that finds `endEvt` while it is idle drops the process it was given.

Assumed: nodes are numbered in the order of allocation, which is the order of the list; stores are
seen in program order, as on x86 and x64, the only platforms of the project; `AllocateNode` creates
all events and the thread of a node, or none; a process has a pid of its own until it has ended and
its last handle is closed.

### DiscordPresence

`upc` and `wpc` are the UI thread and the worker. A version number stands for the contents of the
settings; `registry` holds a version per saved value, because they are saved one by one. A frame is
written in two parts, each of which can block (`io`), fail, or be cancelled by `CancelSynchronousIo`.
The peer may start, leave, answer, send a ping, close, or stop in the middle of a frame (`inbox`).
Discord is external and modelled from what the worker does with it.

### CursorClip

`upc` splits `Hook_ClipCursor` at CreateThread, whose result is assigned after the thread may have
run. `clip` is the area the cursor is confined to, named by the window it was read from. Windows
close and are activated at any time, and other programs free the cursor. Threads are a pool: a
`ClipCheck` that ended can be started again as another.

### HotkeyToggle

The two registrations differ only in names and are one operator, `Register(f, ...)`. A refused
`RegisterHotKey` pushes a box on `boxes` and leaves the tail of the function (`Show`) to `CloseBox`.
The button and the menu item are changed by the click before the registration is attempted, as in the
code. The main window is disabled by a box or by the dialog, so its buttons are; the tray menu and
WM_HOTKEY are not, and neither are the controls of the hotkey dialog under a box owned by `m_main`.
`UnregisterHotKey` removes every hotkey of an id. A hotkey is never 0 after start-up.

### MoveDrag

`MoveHook` runs in the message loops of the UI thread (`Loop`); a mouse event passes it by (`Unseen`)
when there is no hook or the thread is too late to answer. `h_moveHandle`, `h_mousePoint` and
`h_handlePoint` are the three globals. `grip`, a history value, is where the window was taken relative
to the cursor; a window that answers WM_WINDOWPOSCHANGING with another place is held there from then
on. `Switch` is every step of HotkeyToggle that leaves the program running: the hook comes and goes
with any of them, the drag stays as it is. One axis stands for both, and only windows that own no
other are held (`GA_ROOTOWNER`).

### TrayIcon

Explorer is "down", "busy" (NIM_ADD times out, and may have added the icon) or "ready", and announces
itself with TaskbarCreated, also when it still has the icon. `KillTimer` leaves a WM_TIMER that is
already in the queue.

### Notifications

`me_nid` is shared with the icon: `info` is whether its flags are NIF_INFO, which whatever adds the
icon takes away, and `szInfo` whether its text is empty. `infoDue` holds the WM_TIMER messages in the
queue: "now" of the timer that is set, "old" of one that was killed. `why`, a history value, is the
reason a balloon is left to the shell: its timer could not be set, the flag was gone when the timer
came, or the shell did not answer. `balloon` is the shell's side.

### Tray

WM_CREATE adds the icon and fills in the menu in one step. The message loop handles a message of the
icon or of a balloon only between two menu commands (`rtpc = "idle"`); Explorer, timers and other
tools go on during one. `Killed` ends the process anywhere, `StartAgain` starts it with everything
but the shell, the task and the registry as new.

### TrayMenu

Every call into the Task Scheduler can fail; `Menu_SetStartup` is one action because COM calls from
this apartment run no message loop. The registry steps of the context menu are separate actions, and
`Exit` can come between any two of them. After a failed `Menu_TaskSchedulerInit` COM is uninitialized
again and every later attempt fails (`com`).

### DllHook

The main program, one injector per process, and one thread of the DLL per process. `refs` is the
reference count `LoadLibraryW` and `FreeLibraryAndExitThread` change; only the first load attaches.
Target processes do not end, and an injector that still works on a process delays a second one (a
bound). The clipboard is not modelled.

### WindowList

`z` is the order of the windows on the desktop, which other programs change between any two steps.
`walk` is the place of `Control_RefreshListView` in its two loops (process of the snapshot, window of
`GW_HWNDNEXT`); reading a row and going to the next window are two actions, so a window can close
between them. `rows`, `sel` and `foc` are what the list view shows, `c_listViewIndex` what the
program remembers. A command takes its target at the click (`Begin`), may wait in a dialog, under
which the list can be built anew, and may call the window (`upc = "call"`), which only returns when
the window answers. STOP is the suspend count of the thread of a window; WindowProperty's own window
is one of the windows. `cmd.chosen` is a history value: the handle in the row selected at the click.

Assumed of the list view: `DeleteAllItems` sends no notification, and a row that does not exist is
not selected. A process has one GUI thread. What a command changes of its window, `Restyle` stands
for; processes that come during a walk are not in its snapshot.

### WindowStyle

The property and the filter dialog are one procedure over three globals. `dialogs` is the stack of
those that have not returned, with error boxes and other dialogs of the tray menu (`Other`) between
them: a dialog that is ended enables the main window, but `DialogBoxParam` returns only when its
message loop is the innermost one. What follows is that a second property dialog can be open, and
have written `p_currentProp`, before the first one reads it: `alone` remembers it. Check boxes are
named by their control ids, and the five composite boxes have the bits of `DlgFunction_PropButtonState`
(`Sets`) and the boxes of `DlgFunction_CheckButtonState` (`Reads`). A window is its bits and its
opacity; `asked` is the last percentage it was given.

Assumed: `EndDialog` enables the owner, as the system does; a window takes the bits it is given; a
click changes a box as BS_AUTOCHECKBOX and BS_AUTO3STATE do.

### PropTime

`p_tdata` has three fields, which the UI thread fills one by one around the start of the thread and
clears one by one after the dialog has returned (`clearing` counts the dialogs that still have to).
A thread copies them in any order and then shows, for ever, the time since its copy of `ft`; the
handle of the control is that of a dialog, so a late thread writes into a later dialog. The clock is a
number of ticks, `LOW` of which a FILETIME counts in its low word. Assumed: the clock does not go
back; an `int` of seconds does not overflow (it does after 68 years).

### StartUp

`at[r]` is where a run is in `wWinMain`; the order of the steps is the program's. A request is a
WM_COPYDATA: it is delivered while the other run waits for messages (`Pumps`), which the calls between
`CreateWindowEx` and the loop, and between the loop and `Thread_Close`, do as well, and it is lost
with the window otherwise. `oldKeys` are the subkeys a version 0 left, `stuck` those that cannot be
deleted, `runValue` the value under Run. Runs migrate the registry side by side and can be killed at
every step. The runtime checker is only its phases here (`checker`); RuntimeWatch has its inside.

## 3. The runs

| Run | Checks | Bounds |
| --- | --- | --- |
| runtime_watch | NoDoubleWatch, ReuseIsExclusive, ClosesInOrder, HandleAccounting, AccumulatesEveryRecord, ImplementsService | 3 nodes, 3 processes of which two share a pid, 1 nested box |
| runtime_watch_live | EndedIsRecorded, CloseCompletes | 2 nodes, 3 processes, no box |
| runtime_lost_at_close | AcceptedIsRecorded (violated) | 1 node |
| discord | WorkerHasEvents, NoLostUpdate, StoppedIsGone, SettingsShown, TimerResent, Reconnects, UIReturns | 2 confirmed dialogs, one of them with a fixed time; 2 registry values |
| cursor_clip | ClipHasOwner, FreedWhenOff | 2 windows, 2 threads |
| move_drag | ViewsAgree, ShownIsRegistered, GripKept, HookNeedsHotkey | 2 hotkeys, 2 boxes, 1 window, 2 places (4.4 million states) |
| tray | NeverForgotten, BalloonIsTimed, ItemShowsTask, EntryShown, IconReturns, BalloonGoes | 2 retries for the 30 of the code (205 thousand states, with liveness) |
| dll_hook | MappedWhileRunning, ServedInTurn | 2 processes, a window in each, 2 loads at a time |
| window_list | SelectionIsFollowed, StopsTheChosen, CallsReturn | 3 windows of 2 processes, 3 rows while windows move under the walk, 1 digit for the 9 of `pidhwnd`, suspend count 1 |
| window_style | CompositesAgree, OpacityShown, FilterIsChosen, StyleIsChosen | 1 window, 2 bits and the 5 composite boxes, 3 dialogs, two typed numbers (1.6 million states) |
| prop_time | ShownIsAge | 2 dialogs, a low word of 4 ticks, a second of 3, times up to 5 |
| start_up | CleanIsStamped, ServedWhileWatching, StartsOrHandsOver | 3 runs, 2 old keys |

Each run asks what its properties name; `SelectionIsFollowed` is IndexIsSelection and TargetIsChosen,
`ClosesInOrder` is NoWriteAfterClose, FreedIsUnused and JoinWakes. The type invariants are not in the
runs: they are proved, or stand in the inductive invariants of the proofs.

Why the bounds are enough. *runtime_watch*: a reused node, a node being filled and a third one that
is busy exist together; the third process takes the pid of the first, so the check for a pid meets
one that is being cleared; one box lets a request run inside another, which is all that a deeper
nesting does. *runtime_watch_live*: boxes wait for the user and are not part of the promise, and two
nodes are enough for a shutdown that meets one watcher idle and one busy. *discord*: two changes, so
that a second one can be stored while the first is being sent, and both directions between fixed and
running time. *cursor_clip*: an old thread and a new one, on different windows; a third would do what
one of the two does. *move_drag*: a hotkey per feature, so that they can be equal or not; two boxes,
so that the same feature can wait twice and both can wait; one window, because the hook holds one and
others only move by themselves; two places, so that every move changes the place. *tray*: the first
and the last retry. *window_style*: three dialogs are what it takes for a property dialog to be ended
below a box while another one is opened; bit 422 belongs to two composite boxes, one of which reads
the other, and 469 is WS_EX_LAYERED, which the opacity depends on. An instance with more bits has too
many states for a run; composites of several parts are left to the proof, which is for all of them.
*prop_time*: elapsed times with and without a high word, and the thread of the first dialog under the
second. *start_up*: two runs that miss each other and a third that finds one of them; two keys, so
that one is deleted before the other. *dll_hook*: the second load while the first is in use is the case that
matters. *window_list*: an index can lie one or two rows behind the end of the list, a window can be
listed twice, and one handle is too long for its cell and reads as that of another window. The
theorems below remove the bounds for the properties they name.

Deadlock is checked in every run but *start_up*, where in the end every run has returned, and
*prop_time*, whose clock and number of dialogs are bounded. (`Terminated` of RuntimeWatch and
DiscordPresence is the program after wWinMain has returned.)

### Fairness

*RuntimeWatch*: weak fairness of the UI thread inside a request or `Thread_Close` and of every
watcher, which the scheduler of Windows gives threads that can run. Nothing of the user, the boxes or
the processes watched. *DiscordPresence*: the same for both threads; strong fairness for the two ways
to take `settingsMutex` (the worker waits for stopEvent between two turns and holds the mutex only
while it formats and sends, so a waiting thread gets it), and, but for DiscordPresenceStall.cfg, a Discord that
reads what it is sent and completes the frames it starts. *CursorClip*: every thread runs. *Tray*:
WM_CREATE is handled, the calls of a menu command return and timers elapse (weak fairness); a message
in the queue is handled in its turn (strong fairness, because menu commands come in between: GetMessage
takes posted messages in order, and WM_TIMER when there is no other). Nothing is asked of
Explorer or the user. *StartUp*: weak fairness of what a run does on its own, from its start to the
loop and from the end of the loop on; nobody need quit or be killed. *MoveDrag*, *WindowStyle*,
*PropTime* and *DllHook* state safety only.
*WindowList*: a call returns when its window gets to answer (strong fairness, because windows may
hang and recover in turn), and a window that hangs of its own accord recovers; nothing is asked of a
window that STOP has suspended, so CallsReturn says the program never waits for one of those.

### What the violated properties show

* **AcceptedIsRecorded** (runtime_lost_at_close). README.md:39 promises a record for every process
  still watched at the end. `Thread_Close` sets `event` and `endEvt`; a watcher that has not yet taken
  its `event` sees `endEvt` first (thread.cpp:105) and ends.

The modules state more properties of this kind, with a .cfg beside the runs (`<Module>Unmet.cfg` unless
the table says otherwise; TLC stops at the first violation, so keep the line in question); TLC refutes
them:

| Property | .cfg | What happens |
| --- | --- | --- |
| RefusalIsTrue | RuntimeWatchUnmet | a request that fails after it stored its pid leaves a node that refuses the pid and watches nothing (thread.cpp:193) |
| RecordsHaveFile | RuntimeWatchUnmet | `t_file = nullptr` after the error box drops a file a nested request has created (thread.cpp:27) |
| RecordsOwnPath | RuntimeWatchUnmet | a failed path query keeps the path of the node's last process (thread.cpp:190) |
| AccumulatesShared | RuntimeWatchSharedPath | two watchers of one program lose an update (thread.cpp:88); AccumulatesEveryRecord is what remains true, of a program that one process runs |
| AccumulatedAtExit | RuntimeWatchUnmet | `m_regrec` is closed three lines before `Thread_Close`, so records written at the end are not accumulated (main.cpp:530, 533; CATALOG.md:113) |
| UIReturns, under StallSpec | DiscordPresenceStall | `CancelSynchronousIo` is called once; a write that begins after it, to a Discord that does not read, blocks the join for ever, and the dialog waits for the mutex held over the write (discord_presence.cpp:365, 102) |
| FailedSaveChangesNothing | DiscordPresenceUnmet | values saved before the failing one stay (discord_presence.cpp:292) |
| ActiveConfines | CursorClipUnmet | ClipCheck tests `h_hookClip` before CreateThread has returned, and ends (hook.cpp:166) |
| ConfinedToOne | CursorClipUnmet | switched off and on between two tests of `h_hookClip`, the old thread stays, and two threads confine the cursor to two windows (hook.cpp:172; README.md:31) |
| AlwaysOwned | CursorClipUnmet | CreateThread fails after ClipCursor (hook.cpp:166) |
| RegisteredIsSaved | HotkeyToggleUnmet | the tail after the error box undoes what a nested switch did, but for the hotkey (hook.cpp:79) |
| RegisteredIsChosen | HotkeyToggleUnmet | a switch from the tray while the dialog is open keeps the old hotkey (process.cpp:31) |
| DistinctKeys | HotkeyToggleUnmet | the dialog only asks for two hotkeys, not for different ones (dlgfunction.cpp:223; CATALOG.md:89) |
| HookedIsActive | HotkeyToggleUnmet | a WM_HOTKEY in the queue outlives its feature (main.cpp:306) |
| MovesOnlyHeld | MoveDragUnmet | the button is released while the hook is away or late: `h_moveHandle` stays, and the window follows the mouse without a button (hook.cpp:150) |
| StaysItsTime | NotificationsUnmet | the timer of an older balloon, already in the queue, takes the newer one away (menu.cpp:264) |
| IsRemoved | NotificationsUnmet | the icon was added since the balloon was shown: without NIF_INFO the empty text does nothing (menu.cpp:118, 225) |
| AttemptShowsTask | TrayMenuUnmet | an attempt that does not reach the Task Scheduler, or one made after another tool deleted the task, leaves the item as it was, not as the task is (menu.cpp:34-41) |
| EntryWorks | TrayMenuUnmet | killed before the command is written, the next start shows an entry without one (menu.cpp:107) |
| CaptureIsSwitched | DllHookUnmet | a second click overwrites the registry values of the first (process.cpp:433) |
| CommandIsShown | DllHookUnmet | a second load does not attach the DLL (dllmain.cpp:59) |
| RowSelected | WindowListUnmet | an index equal to the number of rows is kept, and no row is selected (control.cpp:223) |
| HandleIsWhole | WindowListUnmet | a handle of ten digits is cut to nine, and the command goes to the window with that handle (main.cpp:229) |
| EachOnce | WindowListUnmet | a window raised while the walk stands on it is listed again (global.hpp:100) |
| NeverFrozen | WindowListUnmet | STOP on WindowProperty's own window suspends the UI thread (process.cpp:527) |
| CallsReturn, under CallSpec | WindowListHang | a window that answered before the dialog opened has hung when the dialog is confirmed, and the UI thread waits for it without the limit main.cpp:63 asks for (process.cpp:316) |
| AppliesItsOwn | WindowStyleUnmet | a property dialog, ended below a box, applies the bits of a second one that opened meanwhile (process.cpp:317) |
| ChangesNothingElse | WindowStyleUnmet | the style is made of the check boxes alone, so a bit without a box is cleared (dlgfunction.cpp:63) |
| LoopEnds | PropTimeUnmet | the loop of the time thread tests a copy that never changes (dlgfunction.cpp:208, 211) |
| ShownIsAlwaysAge | PropTimeUnmet | a thread that copies after its dialog has ended shows the time since an empty `ft` in the next dialog (dlgfunction.cpp:207) |
| AlwaysStarts | StartUpUnmet | a subkey that cannot be deleted keeps the loop going for ever (main.cpp:28) |
| OneWindow | StartUpUnmet | two runs look for a window before either has one (main.cpp:379) |
| NoneIsLost | StartUpUnmet | a request is sent to a run past its message loop (main.cpp:381) |
| NoRunValue | StartUpUnmet | a failed RegDeleteValue is not noticed (main.cpp:37) |

## 4. The theorems

| Theorem | States | From |
| --- | --- | --- |
| RuntimeWatchProofs!TypeCorrect | `Spec => []TypeOK` | IInv |
| RuntimeWatchProofs!WatchedOnce | `Spec => []NoDoubleWatch` | IInv |
| RuntimeWatchProofs!ReuseExclusive | `Spec => []ReuseIsExclusive` | IInv |
| RuntimeWatchProofs!CloseIsOrderly | `Spec => []ClosesInOrder` | IInv; JoinWakes, which is inductive with the types |
| RuntimeWatchProofs!NoTimeIsLost | `Spec => []AccumulatesEveryRecord` | IInv, TakenInv, AccInv |
| RuntimeWatchProofs!HandlesAccounted | `Spec => []HandleAccounting` | itself and IInv |
| RuntimeWatchProofs!ServiceIsImplemented | `Spec => ImplementsService` | IInv, TakenInv |
| DiscordPresenceProofs!HandlesOutliveWorker | `Spec => []WorkerHasEvents` | IInv (of DiscordPresence) |
| DiscordPresenceProofs!UpdatesReachWorker | `Spec => []NoLostUpdate` | the same |
| DiscordPresenceProofs!StopLeavesNothing | `Spec => []StoppedIsGone` | the same |
| CursorClipProofs!ClipOwned | `Spec => []ClipHasOwner` | TypeOK, ClipHasOwner |
| HotkeyToggleProofs!ViewsAreTrue | `Spec => [](ViewsAgree /\ ShownIsRegistered)` | TypeOK and the two |
| HotkeyToggleProofs!DragViewsAreTrue | `DragSpec => [](DragTypeOK /\ ViewsAgree /\ ShownIsRegistered)` | the same, over the mouse hook |
| HotkeyToggleProofs!GripIsKept | `DragSpec => GripKept` | the relation of grip and points while a window is held |
| HotkeyToggleProofs!HooksHaveHotkeys | `DragSpec => HookNeedsHotkey` | DragTypeOK and the views |
| TrayProofs!IconNotForgotten | `Spec => [](RetriesAreBounded /\ NeverForgotten)` | its invariant of flags and counters |
| TrayProofs!BalloonsAreTimed | `NotifySpec => [](RetriesAreBounded /\ NeverForgotten /\ BalloonIsTimed /\ TextIsTimed)` | the same and Timed |
| TrayProofs!NotifyTypeCorrect | `NotifySpec => []NotifyTypeOK` | itself |
| TrayProofs!TrayKeeps | the same four of `TraySpec` | the invariant of BalloonsAreTimed, which killing and starting again keep |
| TrayProofs!TrayImplementsMenu | `TraySpec => Menu!Spec` | step by step |
| TrayProofs!TrayItemIsTrue | `TraySpec => []ItemShowsTask` | MenuInv, by TrayImplementsMenu |
| TrayProofs!TrayEntryIsShown | `TraySpec => []EntryShown` | the same |
| WindowListProofs!CommandsFollowSelection | `Spec => [](TypeOK /\ SelectionIsFollowed)` | itself |
| WindowListProofs!StopFollowsSelection | `Spec => StopsTheChosen` | the same |
| HandOverProofs!StampedIsClean | `StartSpec => []CleanIsStamped` | who is past the deletion of the keys has seen none left |
| HandOverProofs!ServedByAWatchingRun | `StartSpec => ServedWhileWatching` | the phase of the checker at each step |
| HandOverProofs!DLLStaysMapped | `Spec => []MappedWhileRunning` (DllHook) | HookInv |
| HandOverProofs!InTurnIsServed | `Spec => []ServedInTurn` (DllHook) | HookInv |
| DialogProofs!CompositeBoxesAgree | `Spec => []CompositesAgree` (WindowStyle) | types of the boxes |
| DialogProofs!FilterIsTheChosenOne | `Spec => FilterIsChosen` | p_dlgType fits every open dialog |
| DialogProofs!StyleIsTheChosenOne | `Spec => StyleIsChosen` | p_currentProp is what a lone confirmed dialog chose |
| DialogProofs!OpacityIsShown | `Spec => []OpacityShown` | arithmetic of both roundings |
| DialogProofs!RunningTimeIsAge | `TimeSpec => []ShownIsAge` | what a copy holds, given when it was made |

They hold for any processes, pids, paths, nodes, boxes, windows, threads, hotkeys, retries, places,
style bits, typed numbers, sizes of words, runs and keys that satisfy the assumptions the modules state
about their constants, which TLC evaluates in the runs.

*RuntimeWatch.* NoDoubleWatch is not inductive: whether a new watch may begin depends on what the
check of the list has seen and on what watchers have done to the list since. `IInv` is the
conjunction of `TypeOK`; `RequestInv` (what the UI thread has established at each place of a
request: no node of the list has the pid it asks for, the node it found is free or new); `NodeInv`
(what the place of a watcher says about its node: it holds its process until it has cleared it, and
a thread only works on a node the list knows); `RestInv` (until the program closes nothing is freed,
no `endEvt` is set, and a node with pid 0 is at rest); `DistinctPids` (no two known nodes have the
same pid other than 0); `FreedIsUnused`; and `FileInv` (the file is closed only at the end). The
order of the three stores that give a node back is what makes `NodeInv` inductive: pid is cleared
last. There is one lemma per part and one step per action in it.

The other theorems of the module build on IInv. *ClosesInOrder*: JoinWakes says what a watcher does
with `endEvt`: it takes it only to end, after its last record if it has a process (`forced`), so a
join always has a thread that is on its way; this is the safety half of CloseCompletes. *The
accumulated times*: between RegGetValue and RegSetValueEx a watcher holds a number that must still be
the one in the registry. AccInv says so of programs that one process runs; nobody else changes the
value because two writers never have one process (`WritersDiffer`, from DistinctPids), and a node has
the path of its process because FillNode stores both (`LongPaths = {}`). *The handles*:
`HandlesBalance` shows of each action that a process has as many handles opened or closed as nodes,
boxes and the request gain or lose for it; the counting lemmas are those of finite sets
(`PartFinite`, `BoxOpens`, `BoxCloses`). *The refinement*: `StepRefines` maps FillNode to Begin, the
last write of a record to Record, `EndWhileIdle` with a process to Drop, the end of a process to End,
BeginClose to itself and every other action to a stutter. What carries it is how the set of served
processes changes with one node (`ActiveSame`, `ActiveMore`, `ActiveLess`): two nodes never serve one
process (`ServedApart`), so a node that lets go takes exactly its process out of the set. TakenInv has
the two facts IInv lacks: a node with a pid has a process but between the last two stores of its
watcher, and a record is written only after the end of the process or of the program.

*DiscordPresence.* IInv says, besides the types, where the handles are (`HandlesInv`: the events live as
long as the worker's handle, and DiscordPresence_Stop is only entered with one), who has settingsMutex
(`MutexInv`), that nothing of a connection is left between two (`ConnectionInv`), and that what was sent
last is what was stored last, or updateEvent is set or about to be, or the worker has taken notice of
it (`UpdateInv`: `changed` is the local that bridges the reset of the event and the read). It is an
invariant without any fairness and whatever Discord does, so it also holds under StallSpec.

*CursorClip.* The invariant is inductive with the types: whoever confines the cursor is followed by a
thread that is not at its end. *HotkeyToggle.* Between the click and the tail button and menu item
differ, so the views are only compared for features without a box; the stack of boxes is what carries
the argument (`BoxOpened`, `BoxClosed`). *TrayIcon.* The stale WM_TIMER is the hard case: it can raise
the count of a registration whose timer is killed, so the invariant relates timer, count and the
message in the queue. *TrayMenu.* `UnderWay` says what the key looks like between two registry steps.
*Tray.* Its steps are steps of Notifications, but for `Killed` and `StartAgain`, and steps of TrayMenu,
so TrayImplementsMenu carries the invariant of the menu (`MenuInv`) over to it, and the invariant of
Notifications the rest.

*MoveDrag.* GripKept is a property of steps; what makes it true is that `h_handlePoint - h_mousePoint`
is `grip` while a window is held, which presses, moves and refusals keep, and nothing else touches.

*WindowStyle.* A click sets any boxes; that the composites agree after it is a matter of the five calls
in their order, and of OVERLAPPEDWINDOW, whose call reads CAPTION in the place of 422 and 423: if those
two differ, CAPTION is unchecked, and the composite is unchecked either way (`ShowsWhatTheyRead`).
`ResetBoxes` is for the reset of the filter, which sets the composites without that call.
`BitAssumption` says what both need of the boxes the dialog has. For the globals, `DialogInv` says that
p_dlgType is the kind of every open dialog (`IsCurrent`), that a confirmed property dialog which is
still alone has left its choice in p_currentProp (`IsKept`), and that none is alone beside an open one
(`IsApart`). *PropTime.* While no thread was late, what a
thread has copied is what belongs to its dialog (`CopiesAreRight`), because p_tdata is filled before the
thread starts (`DataIsRight`); the rest is division with remainder.

*StartUp.* Version 2 is stamped only by a run that is past "keys", and keys never come back.

*DllHook.* MappedWhileRunning is inductive with the types: every thread of the DLL has the reference of
the load that attached it. ServedInTurn needs to know, for requests made in turn, that a request is in
one place at a time (`OneAtATime`), that the registry holds it until the DLL has read it (`Written`), and
that what is asked for and not yet so is this request (`Pending`).

*WindowList.* The three invariants are inductive together. A button that finds a window has read a row
(no window has handle 0), and IndexIsSelection makes that row the selected one: this lemma,
`TargetSelected`, is used for the target of a command and for STOP. The end of a refresh needs only
that the index was an integer before.

Only model-checked: the liveness properties (EndedIsRecorded, CloseCompletes, SettingsShown,
TimerResent, Reconnects, UIReturns, FreedWhenOff, IconReturns, BalloonGoes, CallsReturn and
StartsOrHandsOver), because the provers here have neither fairness nor ENABLED. Every invariant, every
property of steps and the refinement that a passing run checks has a theorem.

## 5. Plan

Done in this order: runtime checker and its abstract specification (the only data the user cannot
get back), Discord activity, hooks and hotkeys, tray, DLL hook, window list; then the mouse hook over
the hotkeys, balloons over the icon and the tray as a whole, the dialogs, the running time, and the
start of several runs; then the proofs of section 4, the runtime checker's refinement last. Next are

1. the safety halves of the other liveness properties, as JoinWakes is for CloseCompletes: that
   DiscordPresence_Stop joins a worker that has stopEvent, that an icon that is not there has a timer
   or a message on its way;
2. abstract specifications of DiscordPresence (a settings register with one reader) and DllHook;
3. what section 6 leaves out and a hazard names.

A question keeps a run only while it is worth one; components that share state share a run (move_drag,
tray).

## 6. Not modelled

Log and module list windows (text appended to a control) and the tables of message and key names hold
no state that decides anything. The registry helpers of util.cpp get and set one value each. The
contents of the record file, of the Discord messages and of notifications are not modelled, nor are
the properties of the scheduled task. A crash is
modelled where it leaves something half-done for the next start: the tray with its registry steps
(`Killed`) and the migration of the registry (StartUp). A partial failure inside `AllocateNode`
(thread.cpp:167), the thread handles of STOP and RESUME that are never closed (process.cpp:524), and
the overflow of an `int` of seconds (util.cpp:216) are left out.

## 7. Running the checks

    tlc -config RuntimeWatch.cfg MCRuntimeWatch.tla
    tlapm RuntimeWatchProofs.tla

The module of a .cfg has its name, or that of its component: `MCRuntimeWatch`, `MCDllHook` and
`MCWindowList` for those of RuntimeWatch, DllHook and WindowList, and the module the name begins with
for the others (`Tray.cfg`: `Tray`, `MoveDragUnmet.cfg`: `MoveDrag`).
