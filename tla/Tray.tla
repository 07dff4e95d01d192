--------------------------------- MODULE Tray ---------------------------------
(***************************************************************************)
(* The tray as a whole: the icon and its balloons (Notifications) and the  *)
(* menu (TrayMenu) of one program that is closed, killed and started       *)
(* again.  WM_CREATE of the main window adds the icon and then fills in    *)
(* the menu; one message loop serves all three, and does nothing else      *)
(* while a menu command is carried out.                                    *)
(***************************************************************************)
EXTENDS Notifications

VARIABLES com, task, init, astray, rtpc, key, rt

Menu == INSTANCE TrayMenu WITH running <- (running = "loop")

menuVars == <<com, task, init, astray, rtpc, key, rt>>
trayVars == <<allVars, menuVars>>

TrayTypeOK == NotifyTypeOK /\ Menu!TypeOK

TrayInit == NotifyInit /\ Menu!Init

-------------------------------------------------------------------------------
\* WM_CREATE.
CreateWindow == Create /\ AddsIcon /\ Menu!Create

\* A message of the icon or of a balloon, between two menu commands.
HandleMessage ==
  /\ rtpc = "idle"
  /\ \/ AddsIcon /\ ~Create
     \/ Menu_InfoNotifyIcon \/ Menu_DeleteNotifyIcon
  /\ UNCHANGED menuVars

ChooseItem == UNCHANGED allVars /\ (Menu!Menu_SetStartup \/ Menu!BeginRTContext)

\* The calls that a menu command goes on with.
GoOn == UNCHANGED allVars /\ (Menu!NameKey \/ Menu!FillKey \/ Menu!DeleteKey)

\* TN_MENU_CLOSE.
Close == rtpc = "idle" /\ NotifyQuit /\ Menu!Exit

\* The process ends anywhere; the shell may still show its icon.
Killed ==
  /\ running = "loop" /\ running' = "ended"
  /\ timer' = FALSE /\ due' = FALSE /\ created' = FALSE
  /\ icon' \in {icon, FALSE}
  /\ szInfo' = FALSE /\ info' = FALSE /\ me_timer' = FALSE /\ infoDue' = {}
  /\ balloon' = FALSE
  /\ UNCHANGED <<m_trayRetryAttempts, failed, shell, why>>
  /\ Menu!Exit

\* Everything but what the shell, the Task Scheduler and the registry keep is
\* as it is at the start; an icon that was left is that of another window.
StartAgain ==
  /\ running = "ended" /\ running' = "create"
  /\ m_trayRetryAttempts' = 0 /\ failed' = 0 /\ icon' = FALSE
  /\ UNCHANGED <<timer, due, created, shell, notifyVars, menuVars>>

Environment ==
  \/ /\ InfoTimerElapses \/ Elsewhere \/ NotifyShellEnds \/ ShellCloses
     /\ UNCHANGED menuVars
  \/ UNCHANGED allVars /\ Menu!OtherTool

-------------------------------------------------------------------------------
TrayNext ==
  \/ CreateWindow \/ HandleMessage \/ ChooseItem \/ GoOn \/ Close \/ Killed
  \/ StartAgain \/ Environment

\* A message that is in the queue is handled in its turn, the calls of a menu
\* command return, and timers elapse; the shell need not do anything.
TrayFairness ==
  /\ WF_trayVars(CreateWindow) /\ WF_trayVars(GoOn)
  /\ SF_trayVars(HandleMessage /\ TaskbarCreated)
  /\ SF_trayVars(HandleMessage /\ Main_RetryTrayIconRegistration)
  /\ SF_trayVars(HandleMessage /\ Menu_DeleteNotifyIcon)
  /\ WF_trayVars(Environment /\ TimerElapses)
  /\ WF_trayVars(Environment /\ InfoTimerElapses)

TraySpec == TrayInit /\ [][TrayNext]_trayVars /\ TrayFairness

-------------------------------------------------------------------------------
(* Properties.                                                              *)

\* TrayMenu: as long as nobody else changes the task, the item of the
\* start-up task shows whether it is registered.
ItemShowsTask == Menu!ItemShowsTask

\* TrayMenu: between two commands, the item of the context menu is checked
\* when its entry is there, and no command is left by an unchecked one.
EntryShown == Menu!EntryShown
===============================================================================
