------------------------------ MODULE TrayProofs ------------------------------
(***************************************************************************)
(* The program does not forget the tray icon, nor a balloon that it shows, *)
(* and the items of its menu show what they stand for: proved for every    *)
(* number of retries.                                                      *)
(***************************************************************************)
EXTENDS Tray, TLAPS

\* The types, the Booleans apart from the counters.
Flags ==
  /\ timer \in BOOLEAN /\ due \in BOOLEAN /\ created \in BOOLEAN /\ icon \in BOOLEAN
  /\ running \in {"create", "loop", "ended"}
  /\ shell \in {"down", "busy", "ready"}

Counters ==
  /\ m_trayRetryAttempts \in 0..(Max + 1)
  /\ failed = m_trayRetryAttempts

\* A WM_TIMER that outlives the timer is good for one retry only: with the
\* equality of the counters this makes the properties inductive.
LastRetry == due => m_trayRetryAttempts <= Max

Inv == Flags /\ Counters /\ LastRetry /\ RetriesAreBounded /\ NeverForgotten

\* The flags stay Boolean, whatever NIM_ADD returns.
LEMMA FlagsNext == Flags /\ [Next]_vars => Flags'
<1> SUFFICES ASSUME Flags, [Next]_vars PROVE Flags'
  OBVIOUS
<1> USE DEF Flags
<1>1. ASSUME Added \/ NotAdded PROVE icon' \in BOOLEAN
  BY <1>1 DEF Added, NotAdded
<1>2. ASSUME Main_StartTrayIconRegistration
      PROVE  /\ icon' \in BOOLEAN /\ timer' \in BOOLEAN
             /\ UNCHANGED <<due, shell>>
  BY <1>1, <1>2, Zenon DEF Main_StartTrayIconRegistration
<1>3. CASE Create
  BY <1>2, <1>3, Zenon DEF Create
<1>4. CASE TaskbarCreated
  BY <1>2, <1>4, Zenon DEF TaskbarCreated
<1>5. CASE Main_RetryTrayIconRegistration
  <2>1. icon' \in BOOLEAN /\ timer' \in BOOLEAN /\ due' \in BOOLEAN
    BY <1>1, <1>5, Zenon DEF Main_RetryTrayIconRegistration, Retry
  <2>2. QED
    BY <1>5, <2>1, Zenon DEF Main_RetryTrayIconRegistration
<1>6. CASE TimerElapses
  BY <1>6, Zenon DEF TimerElapses
<1>7. CASE Quit
  BY <1>7, Zenon DEF Quit
<1>8. CASE ShellEnds \/ ShellStarts \/ ShellReady \/ Announce
  BY <1>8, Zenon DEF ShellEnds, ShellStarts, ShellReady, Announce, Broadcast, retryVars
<1>9. CASE UNCHANGED vars
  BY <1>9, Zenon DEF vars, retryVars
<1>10. QED
  BY <1>3, <1>4, <1>5, <1>6, <1>7, <1>8, <1>9, Zenon DEF Next, Handle, Shell

\* A registration, on WM_CREATE or TaskbarCreated: the icon is there or the
\* timer is set, with all the retries left.
LEMMA StartKeeps ==
  ASSUME Inv, Flags', Main_StartTrayIconRegistration
  PROVE  Inv'
<1>1. icon' \/ timer'
  BY DEF Main_StartTrayIconRegistration, Added
<1>2. m_trayRetryAttempts' = 0 /\ failed' = 0
  BY DEF Main_StartTrayIconRegistration
<1>3. Counters' /\ LastRetry' /\ RetriesAreBounded'
  BY <1>2, MaxAssumption DEF Counters, LastRetry, RetriesAreBounded
<1>4. NeverForgotten'
  BY <1>1 DEF NeverForgotten
<1>5. QED
  BY <1>3, <1>4 DEF Inv

\* A retry: the icon is there, or one attempt less is left.
LEMMA RetryKeeps ==
  ASSUME Inv, Flags', Main_RetryTrayIconRegistration
  PROVE  Inv'
<1> USE DEF Inv, Counters, LastRetry, RetriesAreBounded
<1>1. CASE Added /\ timer' = FALSE /\ due' = FALSE /\ UNCHANGED <<m_trayRetryAttempts, failed>>
  <2>1. icon'
    BY <1>1 DEF Added
  <2>2. QED
    BY <1>1, <2>1 DEF NeverForgotten
<1>2. ASSUME NotAdded,
             m_trayRetryAttempts' = m_trayRetryAttempts + 1,
             failed' = failed + 1,
             timer' = (timer /\ m_trayRetryAttempts' < Max),
             due' \in {FALSE, timer}
      PROVE  Inv'
  <2>1. icon => icon'
    BY <1>2 DEF NotAdded
  <2>2. due /\ UNCHANGED <<running, created, shell>> /\ running = "loop"
    BY DEF Main_RetryTrayIconRegistration
  <2>3. due' => timer
    BY ONLY <1>2
  <2>4. timer' => m_trayRetryAttempts' < Max
    BY ONLY <1>2
  <2>5. timer' \/ ~timer \/ ~(m_trayRetryAttempts' < Max)
    BY ONLY <1>2
  <2>6. Max \in Nat /\ m_trayRetryAttempts \in Nat /\ m_trayRetryAttempts <= Max
    BY <2>2, MaxAssumption
  <2>7. Counters'
    BY <1>2, <2>6
  <2>8. LastRetry'
    BY <1>2, <2>3, <2>6
  <2>9. RetriesAreBounded'
    BY <2>4
  <2>10. NeverForgotten'
    BY <1>2, <2>1, <2>2, <2>5, <2>6 DEF NeverForgotten
  <2>11. QED
    BY <2>7, <2>8, <2>9, <2>10
<1>3. QED
  BY <1>1, <1>2 DEF Main_RetryTrayIconRegistration, Retry

\* Every step keeps the invariant.
LEMMA InvNext == Inv /\ [Next]_vars => Inv'
<1> SUFFICES ASSUME Inv, [Next]_vars PROVE Inv'
  OBVIOUS
<1>1. Flags'
  BY FlagsNext DEF Inv
<1>2. CASE Create \/ TaskbarCreated
  BY <1>1, <1>2, StartKeeps DEF Create, TaskbarCreated
<1>3. CASE Main_RetryTrayIconRegistration
  BY <1>1, <1>3, RetryKeeps
<1> USE DEF Inv, Counters, LastRetry, RetriesAreBounded, NeverForgotten, retryVars
<1>4. CASE TimerElapses
  BY <1>1, <1>4, MaxAssumption DEF TimerElapses
<1>5. CASE Quit
  BY <1>1, <1>5 DEF Quit
<1>6. CASE ShellEnds
  BY <1>1, <1>6 DEF ShellEnds
<1>7. CASE ShellStarts \/ Announce
  <2>1. created' <=> created \/ running = "loop"
    BY <1>7 DEF ShellStarts, Announce, Broadcast
  <2>2. QED
    BY <1>1, <1>7, <2>1 DEF ShellStarts, Announce
<1>8. CASE ShellReady
  BY <1>1, <1>8 DEF ShellReady
<1>9. CASE UNCHANGED vars
  BY <1>1, <1>9 DEF vars
<1>10. QED
  BY <1>2, <1>3, <1>4, <1>5, <1>6, <1>7, <1>8, <1>9 DEF Next, Handle, Shell

\* The icon's invariant holds from the start.
LEMMA InvInit == Init => Inv
<1>1. Init => Flags
  BY Zenon DEF Init, Flags
<1>2. QED
  BY <1>1, MaxAssumption
     DEF Init, Inv, Counters, LastRetry, RetriesAreBounded, NeverForgotten

\* While a shell runs, the icon is there, is being tried for, or was tried
\* for as often as the code allows; and no timer outlives the last attempt.
THEOREM IconNotForgotten == Spec => [](RetriesAreBounded /\ NeverForgotten)
<1>1. Spec => []Inv
  BY InvInit, InvNext, PTL DEF Spec
<1>2. Inv => RetriesAreBounded /\ NeverForgotten
  BY DEF Inv
<1>3. QED
  BY <1>1, <1>2, PTL

-------------------------------------------------------------------------------
(* The balloons.                                                            *)

\* A step of the composition is one of the icon, or leaves it alone.
LEMMA NotifyIsNext == NotifyNext => [Next]_vars
  BY Zenon DEF NotifyNext, Menu_InfoNotifyIcon, Menu_DeleteNotifyIcon, InfoTimerElapses,
         AddsIcon, NotifyQuit, Elsewhere, NotifyShellEnds, ShellCloses, Next, Shell

NotifyFlags ==
  /\ szInfo \in BOOLEAN /\ info \in BOOLEAN /\ me_timer \in BOOLEAN
  /\ infoDue \in SUBSET {"now", "old"}
  /\ balloon \in BOOLEAN
  /\ why \in {"", "no timer", "no flag", "not told"}

LEMMA NotifyFlagsNext == NotifyFlags /\ [NotifyNext]_allVars => NotifyFlags'
<1> SUFFICES ASSUME NotifyFlags, [NotifyNext]_allVars PROVE NotifyFlags'
  OBVIOUS
<1> USE DEF NotifyFlags
<1>1. ASSUME NEW text \in BOOLEAN, Modify(text) PROVE balloon' \in BOOLEAN
  BY <1>1, Zenon DEF Modify
<1>2. CASE Menu_InfoNotifyIcon
  <2>1. balloon' \in BOOLEAN
    BY <1>1, <1>2, Zenon DEF Menu_InfoNotifyIcon
  <2>2. infoDue' \in SUBSET {"now", "old"}
    BY <1>2 DEF Menu_InfoNotifyIcon
  <2>3. why' \in {"", "no timer"}
    BY <1>2 DEF Menu_InfoNotifyIcon
  <2>4. QED
    BY <1>2, <2>1, <2>2, <2>3, Zenon DEF Menu_InfoNotifyIcon
<1>3. CASE Menu_DeleteNotifyIcon
  <2>1. balloon' \in BOOLEAN
    BY <1>1, <1>3, Zenon DEF Menu_DeleteNotifyIcon
  <2>2. infoDue' \in SUBSET {"now", "old"}
    BY <1>3 DEF Menu_DeleteNotifyIcon
  <2>3. why' \in {why, "not told", "no flag"}
    BY <1>3 DEF Menu_DeleteNotifyIcon
  <2>4. QED
    BY <1>3, <2>1, <2>2, <2>3, Zenon DEF Menu_DeleteNotifyIcon
<1>4. CASE InfoTimerElapses
  <2>1. infoDue' \in SUBSET {"now", "old"}
    BY <1>4 DEF InfoTimerElapses
  <2>2. QED
    BY <1>4, <2>1, Zenon DEF InfoTimerElapses
<1>5. CASE AddsIcon
  BY <1>5, Zenon DEF AddsIcon
<1>6. CASE NotifyQuit
  <2>1. infoDue' \in SUBSET {"now", "old"}
    BY <1>6 DEF NotifyQuit
  <2>2. QED
    BY <1>6, <2>1, Zenon DEF NotifyQuit
<1>7. CASE NotifyShellEnds \/ ShellCloses
  BY <1>7, Zenon DEF NotifyShellEnds, ShellCloses
<1>8. CASE UNCHANGED notifyVars
  BY <1>8, Zenon DEF notifyVars
<1>9. QED
  BY <1>2, <1>3, <1>4, <1>5, <1>6, <1>7, <1>8, Zenon DEF NotifyNext, Elsewhere, allVars

Timed == BalloonIsTimed /\ TextIsTimed

\* What shows a balloon or sets its text sets the timer; what kills the timer
\* takes both away, or says why not.
LEMMA TimedNext == NotifyFlags /\ Timed /\ [NotifyNext]_allVars => Timed'
<1> SUFFICES ASSUME NotifyFlags, Timed, [NotifyNext]_allVars PROVE Timed'
  OBVIOUS
<1> USE DEF Timed, BalloonIsTimed, TextIsTimed
<1>1. CASE Menu_InfoNotifyIcon
  <2>1. me_timer' \/ why' = "no timer"
    BY <1>1 DEF Menu_InfoNotifyIcon
  <2>2. QED
    BY <2>1
<1>2. CASE Menu_DeleteNotifyIcon
  <2>1. ~szInfo'
    BY <1>2, Zenon DEF Menu_DeleteNotifyIcon
  <2>2. balloon' => why' \in {"not told", "no flag"}
    BY <1>2 DEF Menu_DeleteNotifyIcon
  <2>3. QED
    BY <2>1, <2>2
<1>3. CASE UNCHANGED <<szInfo, me_timer, why, balloon>>
  BY <1>3, Zenon
<1>4. CASE NotifyQuit
  BY <1>4 DEF NotifyQuit
<1>5. CASE InfoTimerElapses \/ AddsIcon \/ Elsewhere \/ UNCHANGED allVars
  <2>1. CASE InfoTimerElapses
    BY <1>3, <2>1, Zenon DEF InfoTimerElapses
  <2>2. CASE AddsIcon
    BY <1>3, <2>2, Zenon DEF AddsIcon
  <2>3. CASE UNCHANGED notifyVars
    BY <1>3, <2>3, Zenon DEF notifyVars
  <2>4. QED
    BY <1>5, <2>1, <2>2, <2>3, Zenon DEF Elsewhere, allVars
<1>6. CASE NotifyShellEnds \/ ShellCloses
  <2>1. ~balloon' /\ UNCHANGED <<szInfo, me_timer, why>>
    BY <1>6, Zenon DEF NotifyShellEnds, ShellCloses
  <2>2. QED
    BY <2>1, Zenon
<1>7. QED
  BY <1>1, <1>2, <1>4, <1>5, <1>6 DEF NotifyNext

\* Every balloon and every text has its timer, and the icon is not forgotten,
\* whatever the icon and its balloons do to each other.
THEOREM BalloonsAreTimed ==
  NotifySpec => [](RetriesAreBounded /\ NeverForgotten /\ BalloonIsTimed /\ TextIsTimed)
<1>1. NotifyInit => Inv /\ NotifyFlags /\ Timed
  <2>1. NotifyInit => NotifyFlags
    BY DEF NotifyInit, NotifyFlags
  <2>2. QED
    BY <2>1, InvInit DEF NotifyInit, Timed, BalloonIsTimed, TextIsTimed
<1>2. Inv /\ NotifyFlags /\ Timed /\ [NotifyNext]_allVars => (Inv /\ NotifyFlags /\ Timed)'
  BY NotifyIsNext, InvNext, NotifyFlagsNext, TimedNext, Zenon DEF allVars
<1>3. Inv /\ Timed => RetriesAreBounded /\ NeverForgotten /\ BalloonIsTimed /\ TextIsTimed
  BY DEF Inv, Timed
<1>4. QED
  BY <1>1, <1>2, <1>3, PTL DEF NotifySpec

\* Every variable of the composition keeps its type.
THEOREM NotifyTypeCorrect == NotifySpec => []NotifyTypeOK
<1>1. NotifyInit => Inv /\ NotifyFlags
  BY InvInit DEF NotifyInit, NotifyFlags
<1>2. Inv /\ NotifyFlags /\ [NotifyNext]_allVars => (Inv /\ NotifyFlags)'
  BY NotifyIsNext, InvNext, NotifyFlagsNext, Zenon DEF allVars
<1>3. Inv /\ NotifyFlags => NotifyTypeOK
  <2>1. Inv => TypeOK
    BY Zenon DEF Inv, Flags, Counters, TypeOK
  <2>2. QED
    BY <2>1, Zenon DEF NotifyFlags, NotifyTypeOK
<1>4. QED
  BY <1>1, <1>2, <1>3, PTL DEF NotifySpec

-------------------------------------------------------------------------------
(* The tray as a whole.                                                     *)

\* What a kill or a new start does to the icon and its balloons.
LEMMA StopAndGo ==
  ASSUME Inv, NotifyFlags, Timed, Killed \/ StartAgain
  PROVE  (Inv /\ NotifyFlags /\ Timed)'
<1>1. CASE Killed
  <2>1. Flags' /\ NotifyFlags'
    BY <1>1, Zenon DEF Killed, Inv, Flags, NotifyFlags
  <2>2. Counters' /\ LastRetry' /\ RetriesAreBounded'
    BY <1>1 DEF Killed, Inv, Counters, LastRetry, RetriesAreBounded
  <2>3. NeverForgotten'
    BY <1>1 DEF Killed, NeverForgotten
  <2>4. Timed'
    BY <1>1 DEF Killed, Timed, BalloonIsTimed, TextIsTimed
  <2>5. QED
    BY <2>1, <2>2, <2>3, <2>4 DEF Inv
<1>2. CASE StartAgain
  <2>1. Flags' /\ NotifyFlags' /\ UNCHANGED notifyVars
    BY <1>2, Zenon DEF StartAgain, Inv, Flags, NotifyFlags, notifyVars
  <2>2. Counters' /\ LastRetry' /\ RetriesAreBounded'
    BY <1>2, MaxAssumption DEF StartAgain, Counters, LastRetry, RetriesAreBounded
  <2>3. NeverForgotten'
    BY <1>2 DEF StartAgain, NeverForgotten
  <2>4. Timed'
    BY <2>1, Zenon DEF notifyVars, Timed, BalloonIsTimed, TextIsTimed
  <2>5. QED
    BY <2>1, <2>2, <2>3, <2>4 DEF Inv
<1>3. QED
  BY <1>1, <1>2

\* Other steps of the tray are steps of the icon and its balloons.
LEMMA TrayIsNotify ==
  ASSUME TrayNext
  PROVE  [NotifyNext]_allVars \/ Killed \/ StartAgain
  BY Zenon DEF TrayNext, CreateWindow, HandleMessage, ChooseItem, GoOn, Close, Environment,
         NotifyNext

\* Of the icon and the balloons the same is true in a program that is killed
\* and started again.
THEOREM TrayKeeps ==
  TraySpec => [](RetriesAreBounded /\ NeverForgotten /\ BalloonIsTimed /\ TextIsTimed)
<1> DEFINE I == Inv /\ NotifyFlags /\ Timed
<1>1. TrayInit => I
  <2>1. NotifyInit => NotifyFlags
    BY DEF NotifyInit, NotifyFlags
  <2>2. QED
    BY <2>1, InvInit DEF TrayInit, NotifyInit, Timed, BalloonIsTimed, TextIsTimed
<1>2. I /\ [TrayNext]_trayVars => I'
  <2>1. ASSUME I, [NotifyNext]_allVars PROVE I'
    BY <2>1, NotifyIsNext, InvNext, NotifyFlagsNext, TimedNext, Zenon DEF allVars
  <2>2. ASSUME I, Killed \/ StartAgain PROVE I'
    BY <2>2, StopAndGo
  <2>3. QED
    BY <2>1, <2>2, TrayIsNotify, Zenon DEF trayVars
<1>3. I => RetriesAreBounded /\ NeverForgotten /\ BalloonIsTimed /\ TextIsTimed
  BY DEF Inv, Timed
<1> HIDE DEF I
<1>4. QED
  BY <1>1, <1>2, <1>3, PTL DEF TraySpec

\* A step of the tray is one of the menu, or leaves it alone.
LEMMA TrayIsMenu == TrayNext => [Menu!Next]_Menu!vars
<1> SUFFICES ASSUME TrayNext PROVE Menu!Next \/ UNCHANGED Menu!vars
  OBVIOUS
<1> USE DEF Menu!vars, Menu!taskVars, Menu!keyVars, menuVars
<1>1. CASE CreateWindow
  BY <1>1, Zenon DEF CreateWindow, Menu!Next
<1>2. CASE Close \/ Killed
  BY <1>2, Zenon DEF Close, Killed, Menu!Next
<1>3. CASE ChooseItem \/ GoOn
  BY <1>3, Zenon DEF ChooseItem, GoOn, Menu!Next
<1>4. CASE HandleMessage
  <2>1. running = "loop" /\ running' = "loop" /\ UNCHANGED menuVars
    BY <1>4 DEF HandleMessage, AddsIcon, Handle, Create, TaskbarCreated,
                Main_RetryTrayIconRegistration, Menu_InfoNotifyIcon, Menu_DeleteNotifyIcon, vars
  <2>2. QED
    BY <2>1
<1>5. CASE StartAgain
  <2>1. (running = "loop") = FALSE /\ (running' = "loop") = FALSE /\ UNCHANGED menuVars
    BY <1>5 DEF StartAgain
  <2>2. QED
    BY <2>1
<1>6. CASE Environment
  <2>1. CASE UNCHANGED allVars /\ Menu!OtherTool
    BY <2>1, Zenon DEF Menu!Next
  <2>2. CASE /\ InfoTimerElapses \/ Elsewhere \/ NotifyShellEnds \/ ShellCloses
             /\ UNCHANGED menuVars
    <3>1. UNCHANGED running
      BY <2>2, Zenon DEF InfoTimerElapses, Elsewhere, NotifyShellEnds, ShellCloses, ShellEnds,
             TimerElapses, ShellStarts, ShellReady, Announce, vars
    <3>2. QED
      BY <2>2, <3>1
  <2>3. QED
    BY <1>6, <2>1, <2>2 DEF Environment
<1>7. QED
  BY <1>1, <1>2, <1>3, <1>4, <1>5, <1>6 DEF TrayNext

\* The menu of the tray is the one that TrayMenu specifies: neither the icon
\* nor its balloons disturb it.
THEOREM TrayImplementsMenu == TraySpec => Menu!Spec
<1>1. TrayInit => Menu!Init
  BY DEF TrayInit
<1>2. [TrayNext]_trayVars => [Menu!Next]_Menu!vars
  <2>1. UNCHANGED trayVars => UNCHANGED Menu!vars
    BY DEF trayVars, allVars, vars, menuVars, Menu!vars, Menu!taskVars, Menu!keyVars
  <2>2. QED
    BY <2>1, TrayIsMenu
<1>3. QED
  BY <1>1, <1>2, PTL DEF TraySpec, Menu!Spec

-------------------------------------------------------------------------------
(* The items of the menu.                                                   *)

\* What an item means while Menu_SetRTContext is under way: the key it has
\* opened is there, and emptied before it is deleted.
UnderWay ==
  rtpc # "idle" =>
    /\ running = "loop"
    /\ rt = (rtpc # "delete")
    /\ rtpc = "delete" => key = "empty"
    /\ rtpc # "delete" => key # "none"

MenuInv == Menu!TypeOK /\ Menu!ItemShowsTask /\ Menu!EntryShown /\ UnderWay

LEMMA MenuInit == ASSUME Menu!Init PROVE MenuInv
BY DEF Menu!Init, MenuInv, Menu!TypeOK, Menu!Key, Menu!ItemShowsTask, Menu!EntryShown,
       UnderWay, Menu!Idle

\* Menu_SetStartup leaves the context menu alone and the other way round.
LEMMA TaskStep == ASSUME MenuInv, Menu!Menu_SetStartup PROVE MenuInv'
<1>0. running = "loop" /\ (running' = "loop") = (running = "loop")
  BY DEF Menu!Menu_SetStartup, Menu!Idle
<1>1. Menu!ItemShowsTask'
  <2>1. CASE Menu!NotReached
    BY <2>1 DEF Menu!NotReached, Menu!ItemShowsTask
  <2>2. CASE ~init /\ Menu!Add
    BY <1>0, <2>2 DEF Menu!Menu_SetStartup, Menu!Idle, Menu!Add, Menu!Deleted,
           Menu!NotDeleted, MenuInv, Menu!TypeOK, Menu!ItemShowsTask
  <2>3. CASE init /\ Menu!Remove
    BY <1>0, <2>3 DEF Menu!Menu_SetStartup, Menu!Idle, Menu!Remove, Menu!Deleted,
           Menu!NotDeleted, MenuInv, Menu!TypeOK, Menu!ItemShowsTask
  <2> QED BY <2>1, <2>2, <2>3 DEF Menu!Menu_SetStartup
<1>2. Menu!EntryShown' /\ UnderWay'
  BY <1>0 DEF Menu!Menu_SetStartup, Menu!keyVars, MenuInv, Menu!EntryShown, UnderWay, Menu!Idle
<1>3. Menu!TypeOK'
  BY DEF Menu!Menu_SetStartup, Menu!keyVars, Menu!NotReached, Menu!Add, Menu!Remove,
         Menu!Deleted, Menu!NotDeleted, MenuInv, Menu!TypeOK, Menu!Idle
<1> QED BY <1>1, <1>2, <1>3 DEF MenuInv

LEMMA KeyStep ==
  ASSUME MenuInv, Menu!BeginRTContext \/ Menu!NameKey \/ Menu!FillKey \/ Menu!DeleteKey
  PROVE  MenuInv'
<1> USE DEF MenuInv, Menu!TypeOK, Menu!Key, Menu!EntryShown, UnderWay, Menu!Idle, Menu!taskVars
<1>1. (running' = "loop") = (running = "loop") /\ UNCHANGED Menu!taskVars
  BY DEF Menu!BeginRTContext, Menu!NameKey, Menu!FillKey, Menu!DeleteKey
<1>2. Menu!ItemShowsTask'
  BY <1>1 DEF Menu!ItemShowsTask
<1>3. CASE Menu!BeginRTContext
  BY <1>1, <1>2, <1>3 DEF Menu!BeginRTContext
<1>4. CASE Menu!NameKey
  BY <1>1, <1>2, <1>4 DEF Menu!NameKey
<1>5. CASE Menu!FillKey
  BY <1>1, <1>2, <1>5 DEF Menu!FillKey
<1>6. CASE Menu!DeleteKey
  BY <1>1, <1>2, <1>6 DEF Menu!DeleteKey
<1> QED BY <1>3, <1>4, <1>5, <1>6

LEMMA MenuStep == ASSUME MenuInv, [Menu!Next]_Menu!vars PROVE MenuInv'
<1> USE DEF MenuInv, Menu!TypeOK, Menu!Key, Menu!ItemShowsTask, Menu!EntryShown, UnderWay,
        Menu!Idle, Menu!taskVars, Menu!keyVars
<1>1. CASE Menu!Create
  BY <1>1 DEF Menu!Create, Menu!Menu_TaskSchedulerInit
<1>2. CASE Menu!Menu_SetStartup
  BY <1>2, TaskStep
<1>3. CASE Menu!BeginRTContext \/ Menu!NameKey \/ Menu!FillKey \/ Menu!DeleteKey
  BY <1>3, KeyStep
<1>4. CASE Menu!Exit
  BY <1>4 DEF Menu!Exit
<1>5. CASE Menu!OtherTool
  BY <1>5 DEF Menu!OtherTool
<1>6. CASE UNCHANGED Menu!vars
  BY <1>6 DEF Menu!vars
<1> QED BY <1>1, <1>2, <1>3, <1>4, <1>5, <1>6 DEF Menu!Next

LEMMA MenuInvariance == TraySpec => []MenuInv
BY MenuInit, MenuStep, TrayImplementsMenu, PTL DEF Menu!Spec

\* The item of the start-up task shows whether the task is registered, whatever
\* calls fail, in a program that is killed anywhere and started again.
THEOREM TrayItemIsTrue == TraySpec => []ItemShowsTask
<1>1. MenuInv => ItemShowsTask
  BY DEF MenuInv, ItemShowsTask
<1> QED BY MenuInvariance, <1>1, PTL

\* The item of the context menu has its entry, and an entry has its item: also
\* after the program was killed between two calls into the registry.
THEOREM TrayEntryIsShown == TraySpec => []EntryShown
<1>1. MenuInv => EntryShown
  BY DEF MenuInv, EntryShown
<1> QED BY MenuInvariance, <1>1, PTL
=============================================================================
