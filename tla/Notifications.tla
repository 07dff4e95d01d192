---------------------------- MODULE Notifications ----------------------------
(***************************************************************************)
(* Balloons of the tray icon (src/main/menu.cpp), together with the icon   *)
(* (TrayIcon): both are asked of the shell with the same me_nid.           *)
(* Menu_InfoNotifyIcon shows a balloon and sets a timer, whose callback    *)
(* Menu_DeleteNotifyIcon takes the balloon away by sending an empty text.  *)
(* Whatever adds the icon in between leaves me_nid without NIF_INFO, and   *)
(* the empty text is not looked at.                                        *)
(*                                                                         *)
(* The shell's side (balloon) is external.                                 *)
(***************************************************************************)
EXTENDS TrayIcon

VARIABLES
  szInfo,     \* me_nid.szInfo is not empty
  info,       \* me_nid.uFlags is NIF_INFO
  me_timer,   \* me_timer names a timer, and that is set
  infoDue,    \* WM_TIMER in the queue: "now" of this timer, "old" of one
              \* that was killed
  balloon,    \* the shell shows the balloon
  why         \* history: why the balloon is left to the shell, if it is

notifyVars == <<szInfo, info, me_timer, infoDue, balloon, why>>
allVars == <<vars, notifyVars>>

NotifyTypeOK ==
  /\ TypeOK
  /\ szInfo \in BOOLEAN /\ info \in BOOLEAN /\ me_timer \in BOOLEAN
  /\ infoDue \in SUBSET {"now", "old"}
  /\ balloon \in BOOLEAN
  /\ why \in {"", "no timer", "no flag", "not told"}

NotifyInit ==
  /\ Init
  /\ szInfo = FALSE /\ info = FALSE /\ me_timer = FALSE /\ infoDue = {}
  /\ balloon = FALSE /\ why = ""

\* NIM_MODIFY reaches an icon that is there; a busy shell may do what it
\* says has failed.  The text counts only with NIF_INFO.
Modify(text) ==
  \/ info' /\ icon /\ shell # "down" /\ balloon' = text
  \/ ~(info' /\ icon /\ shell = "ready") /\ UNCHANGED balloon

-------------------------------------------------------------------------------
\* Mutant: no timer is set.
InfoForEver ==
  /\ running = "loop"
  /\ info' = TRUE /\ szInfo' = TRUE /\ Modify(TRUE)
  /\ why' = ""
  /\ UNCHANGED <<vars, me_timer, infoDue>>

\* The old timer is killed, which leaves its WM_TIMER if that is in the
\* queue, and a new one is set, which may fail.
Menu_InfoNotifyIcon ==
  /\ running = "loop"
  /\ info' = TRUE /\ szInfo' = TRUE /\ Modify(TRUE)
  /\ me_timer' \in BOOLEAN
  /\ infoDue' = IF infoDue = {} THEN {} ELSE {"old"}
  /\ why' = IF me_timer' THEN "" ELSE "no timer"
  /\ UNCHANGED vars

\* The callback of the timer.  It does not look at which timer it is for, and
\* kills the one that is set.
Menu_DeleteNotifyIcon ==
  /\ running = "loop"
  /\ \E t \in infoDue : infoDue' = infoDue \ {t}
  /\ szInfo' = FALSE /\ UNCHANGED info /\ Modify(FALSE)
  /\ me_timer' = FALSE
  /\ why' = IF ~balloon' THEN why ELSE IF info THEN "not told" ELSE "no flag"
  /\ UNCHANGED vars

InfoTimerElapses ==
  /\ me_timer /\ "now" \notin infoDue
  /\ infoDue' = infoDue \cup {"now"}
  /\ UNCHANGED <<vars, szInfo, info, me_timer, balloon, why>>

-------------------------------------------------------------------------------
(* The icon.                                                                *)

\* Menu_AddNotifyIcon sets the flags of the icon, which NIF_INFO is not of.
AddsIcon ==
  /\ Handle
  /\ info' = FALSE
  /\ UNCHANGED <<szInfo, me_timer, infoDue, balloon, why>>

\* Nothing is left of the process, and the shell drops its balloon.
NotifyQuit ==
  /\ Quit
  /\ szInfo' = FALSE /\ info' = FALSE /\ me_timer' = FALSE /\ infoDue' = {}
  /\ balloon' = FALSE
  /\ UNCHANGED why

Elsewhere ==
  /\ TimerElapses \/ ShellStarts \/ ShellReady \/ Announce
  /\ UNCHANGED notifyVars

\* A balloon goes with its shell.
NotifyShellEnds ==
  /\ ShellEnds /\ balloon' = FALSE
  /\ UNCHANGED <<szInfo, info, me_timer, infoDue, why>>

\* The user closes it, or it has been there long enough for the shell.
ShellCloses ==
  /\ balloon /\ balloon' = FALSE
  /\ UNCHANGED <<vars, szInfo, info, me_timer, infoDue, why>>

-------------------------------------------------------------------------------
NotifyNext ==
  \/ Menu_InfoNotifyIcon \/ Menu_DeleteNotifyIcon \/ InfoTimerElapses
  \/ AddsIcon \/ NotifyQuit \/ Elsewhere \/ NotifyShellEnds \/ ShellCloses

\* The message loop runs and timers elapse; the shell need not do anything.
NotifyFairness ==
  /\ WF_allVars(AddsIcon /\ Create)
  /\ WF_allVars(AddsIcon /\ TaskbarCreated)
  /\ WF_allVars(AddsIcon /\ Main_RetryTrayIconRegistration)
  /\ WF_allVars(Elsewhere /\ TimerElapses)
  /\ WF_allVars(Menu_DeleteNotifyIcon) /\ WF_allVars(InfoTimerElapses)

NotifySpec == NotifyInit /\ [][NotifyNext]_allVars /\ NotifyFairness

-------------------------------------------------------------------------------
(* Properties.                                                              *)

\* Every balloon has a timer that will take it away, stale timers included,
\* unless the timer could not be set, the icon was added since the balloon
\* was shown, or the shell did not answer.
BalloonIsTimed == balloon => me_timer \/ why # ""

\* The text of a notification stays in me_nid, where the next Shell_NotifyIcon
\* with NIF_INFO would show it again, no longer than its timer.
TextIsTimed == szInfo => me_timer \/ why = "no timer"

\* When no more notifications come, the last balloon goes, with the same
\* exceptions.
BalloonGoes ==
  []<><<Menu_InfoNotifyIcon>>_allVars \/ <>[](balloon => why # "")

-------------------------------------------------------------------------------
(* What the code asks for and does not get.                                 *)

\* menu.cpp:264: a balloon stays for the len milliseconds of its own call.
StaysItsTime ==
  [][Menu_DeleteNotifyIcon /\ balloon /\ ~balloon' => "now" \in infoDue]_allVars

\* menu.cpp:116: the callback removes the balloon, if the shell answers.
IsRemoved ==
  [][Menu_DeleteNotifyIcon /\ balloon /\ icon /\ shell = "ready" => ~balloon']_allVars
===============================================================================
