------------------------------- MODULE TrayIcon -------------------------------
(***************************************************************************)
(* The tray icon (src/main/main.cpp, src/main/menu.cpp).  Explorer may be  *)
(* absent or too busy when the icon is added, and forgets the icon when it *)
(* is restarted.  The program tries again once a second, a bounded number  *)
(* of times, and starts anew on every TaskbarCreated message.              *)
(*                                                                         *)
(* Explorer's side (shell, icon) is external, and as unreliable as the     *)
(* code assumes: a busy shell reports failure but may add the icon all the *)
(* same, and TaskbarCreated may arrive while the icon is there.            *)
(***************************************************************************)
EXTENDS Naturals

CONSTANT TRAY_RETRY_MAX_ATTEMPTS

Max == TRAY_RETRY_MAX_ATTEMPTS

ASSUME MaxAssumption == Max \in Nat \ {0}

VARIABLES
  running,   \* "create": before WM_CREATE, "loop", "ended"
  timer,     \* TRAY_RETRY_TIMER is set
  due,       \* a WM_TIMER of it is in the queue
  created,   \* a TaskbarCreated message is in the queue
  m_trayRetryAttempts,
  failed,    \* history: retries that failed since the registration started
  shell,     \* "down", "busy" or "ready"
  icon       \* the shell has the icon

retryVars == <<timer, due, m_trayRetryAttempts, failed>>
vars == <<running, created, retryVars, shell, icon>>

\* A message that is due when the timer is killed is one retry more.
TypeOK ==
  /\ running \in {"create", "loop", "ended"}
  /\ timer \in BOOLEAN /\ due \in BOOLEAN /\ created \in BOOLEAN
  /\ m_trayRetryAttempts \in 0..(Max + 1)
  /\ failed \in 0..(Max + 1)
  /\ shell \in {"down", "busy", "ready"}
  /\ icon \in BOOLEAN

Init ==
  /\ running = "create"
  /\ timer = FALSE /\ due = FALSE /\ created = FALSE
  /\ m_trayRetryAttempts = 0 /\ failed = 0
  /\ shell \in {"down", "busy", "ready"} /\ icon = FALSE

-------------------------------------------------------------------------------
(* Menu_AddNotifyIcon.                                                      *)

Added == shell = "ready" /\ ~icon /\ icon' = TRUE

\* NIM_ADD fails without a shell, for an icon that is there, and on time-out.
NotAdded ==
  \/ shell = "down" /\ UNCHANGED icon
  \/ shell = "busy" /\ icon' \in {icon, TRUE}
  \/ shell = "ready" /\ icon /\ UNCHANGED icon

-------------------------------------------------------------------------------
\* Mutant: the attempts of the last registration are not forgotten.
CountOn ==
  /\ failed' = 0 /\ UNCHANGED m_trayRetryAttempts
  /\ \/ Added /\ timer' = FALSE
     \/ NotAdded /\ timer' = TRUE
  /\ UNCHANGED <<due, shell>>

\* KillTimer leaves a WM_TIMER that is in the queue.
Main_StartTrayIconRegistration ==
  /\ m_trayRetryAttempts' = 0 /\ failed' = 0
  /\ \/ Added /\ timer' = FALSE
     \/ NotAdded /\ timer' = TRUE
  /\ UNCHANGED <<due, shell>>

\* WM_CREATE.
Create ==
  /\ running = "create" /\ running' = "loop"
  /\ Main_StartTrayIconRegistration
  /\ UNCHANGED created

TaskbarCreated ==
  /\ running = "loop" /\ created
  /\ created' = FALSE
  /\ Main_StartTrayIconRegistration
  /\ UNCHANGED running

\* NIM_ADD can take longer than the interval: the timer is due again.
Retry ==
  \/ /\ Added
     /\ timer' = FALSE /\ due' = FALSE
     /\ UNCHANGED <<m_trayRetryAttempts, failed>>
  \/ /\ NotAdded
     /\ m_trayRetryAttempts' = m_trayRetryAttempts + 1
     /\ failed' = failed + 1
     /\ timer' = (timer /\ m_trayRetryAttempts' < Max)
     /\ due' \in {FALSE, timer}

\* Mutant: WM_TIMER is not recognized.
IgnoreTimer ==
  /\ running = "loop" /\ due
  /\ due' = FALSE
  /\ UNCHANGED <<running, created, timer, m_trayRetryAttempts, failed, shell, icon>>

\* WM_TIMER.
Main_RetryTrayIconRegistration ==
  /\ running = "loop" /\ due
  /\ Retry
  /\ UNCHANGED <<running, created, shell>>

TimerElapses ==
  /\ timer /\ ~due /\ due' = TRUE
  /\ UNCHANGED <<running, timer, created, m_trayRetryAttempts, failed, shell, icon>>

\* The end of wWinMain: the timer is killed, the icon deleted.
Quit ==
  /\ running = "loop" /\ running' = "ended"
  /\ timer' = FALSE /\ due' = FALSE /\ created' = FALSE
  /\ icon' \in IF shell = "ready" THEN {FALSE} ELSE {icon, FALSE}
  /\ UNCHANGED <<m_trayRetryAttempts, failed, shell>>

-------------------------------------------------------------------------------
(* Explorer.                                                                *)

ShellEnds ==
  /\ shell # "down" /\ shell' = "down" /\ icon' = FALSE
  /\ UNCHANGED <<running, created, retryVars>>

\* A window that exists is told.
Broadcast == created' = (created \/ running = "loop")

ShellStarts ==
  /\ shell = "down" /\ shell' = "busy" /\ Broadcast
  /\ UNCHANGED <<running, retryVars, icon>>

ShellReady ==
  /\ shell = "busy" /\ shell' = "ready"
  /\ UNCHANGED <<running, created, retryVars, icon>>

\* The display changes.
Announce ==
  /\ shell # "down" /\ Broadcast
  /\ UNCHANGED <<running, retryVars, shell, icon>>

-------------------------------------------------------------------------------
Handle == Create \/ TaskbarCreated \/ Main_RetryTrayIconRegistration

Shell == ShellEnds \/ ShellStarts \/ ShellReady \/ Announce

Next == Handle \/ TimerElapses \/ Quit \/ Shell

\* The message loop runs and the timer elapses; nothing is asked of the shell.
Fairness ==
  /\ WF_vars(Create) /\ WF_vars(TaskbarCreated)
  /\ WF_vars(Main_RetryTrayIconRegistration) /\ WF_vars(TimerElapses)

Spec == Init /\ [][Next]_vars /\ Fairness

-------------------------------------------------------------------------------
(* Properties.                                                              *)

\* The timer is set only while retries are left, stale WM_TIMERs included.
RetriesAreBounded == timer => m_trayRetryAttempts < Max

\* While a shell runs the icon is there, or will be tried for, or all the
\* retries of this registration have been used up.
NeverForgotten ==
  running = "loop" /\ shell # "down" /\ ~created =>
    icon \/ timer \/ failed >= Max

\* With a shell that stays ready the icon is there in the end, unless the
\* retries were used up before.
IconReturns ==
  <>[](running = "loop" /\ shell = "ready") => <>[](icon \/ failed >= Max)
===============================================================================
