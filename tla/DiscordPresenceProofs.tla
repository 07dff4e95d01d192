------------------------- MODULE DiscordPresenceProofs -------------------------
(***************************************************************************)
(* The UI thread and the worker of the Discord activity share settings,    *)
(* two events and a thread handle: no change of the settings is lost, and  *)
(* nothing is used after it is closed.  Proved for any number of changes,  *)
(* whatever Discord does.                                                  *)
(***************************************************************************)
EXTENDS DiscordPresence, TLAPS

\* The thread runs only while the handles are there; DiscordPresence_Stop is
\* only entered with a worker, and a dialog that disables the activity goes on
\* to store the settings without one.
HandlesInv ==
  /\ events = worker
  /\ wpc # "none" => worker
  /\ upc \in {"stop", "cancel", "join"} => worker
  /\ upc \in {"lock", "store"} /\ ~draftOn => ~worker

\* Who holds settingsMutex.  WriteFrame runs with it for an activity and
\* without it for the other frames.
MutexInv ==
  /\ mutex = "ui" <=> upc = "store"
  /\ mutex = "worker" <=> wpc = "write" /\ Sending
  /\ wpc = "send" => Sending

\* Between connections nothing of the last one is left.
ConnectionInv ==
  wpc \in {"none", "open", "retry"} => pipe = "none" /\ shown = None /\ sent = None

\* What was sent last is what the dialog stored last, or the worker will be
\* told, has been told, or has taken notice.
UpToDate == sent = settings \/ updateEvent \/ upc = "signal"
UpdateInv ==
  /\ wpc \in {"wait", "poll", "peek", "read"} => UpToDate
  /\ wpc = "write" /\ frame = "pong" => UpToDate
  /\ wpc = "timer" => UpToDate \/ changed
  /\ wpc = "write" /\ Sending => sent = settings

IInv == TypeOK /\ HandlesInv /\ MutexInv /\ ConnectionInv /\ UpdateInv
-------------------------------------------------------------------------------
(* The initial states and the steps.                                        *)

LEMMA InitInv == Init => IInv
<1> SUFFICES ASSUME Init PROVE IInv
  OBVIOUS
<1> USE DEF Init
<1>1. TypeOK
  <2>1. 0 \in Version
    BY MaxVersionAssumption DEF Version
  <2>2. wpc \in {"none", "open"}
    BY DEF Init
  <2>3. QED
    BY <2>1, <2>2, Zenon DEF TypeOK
<1>2. HandlesInv /\ MutexInv /\ ConnectionInv /\ UpdateInv
  BY DEF HandlesInv, MutexInv, Sending, ConnectionInv, UpdateInv
<1>3. QED
  BY <1>1, <1>2 DEF IInv

\* The types.
LEMMA TypeStep == ASSUME TypeOK, [Next]_vars PROVE TypeOK'
<1> USE DEF TypeOK, uiVars, dataVars, handVars, runVars, peerVars
<1>1. CASE SaveFails
  <2>1. settings + 1 \in Version
    BY <1>1, MaxVersionAssumption DEF SaveFails, Version
  <2>2. \A k \in 0..Fields : SavedUpTo(k) \in [1..Fields -> Version]
    BY <2>1, FieldsAssumption DEF SavedUpTo
  <2>3. QED
    BY <1>1, <2>2, FieldsAssumption DEF SaveFails
<1>2. ASSUME NEW on \in BOOLEAN, Confirm(on) PROVE TypeOK'
  <2>1. settings + 1 \in Version
    BY <1>2, MaxVersionAssumption DEF Confirm, Version
  <2>2. SavedUpTo(Fields) \in [1..Fields -> Version]
    BY <2>1, FieldsAssumption DEF SavedUpTo
  <2>3. QED
    BY <1>2, <2>1, <2>2 DEF Confirm
<1>3. CASE LockSettings
  BY <1>3 DEF LockSettings
<1>4. CASE StoreSettings
  BY <1>4 DEF StoreSettings
<1>5. CASE SignalWorker
  BY <1>5 DEF SignalWorker
<1>6. CASE StartWorker
  <2>1. /\ worker' \in BOOLEAN /\ events' \in BOOLEAN
        /\ stopEvent' \in BOOLEAN /\ updateEvent' \in BOOLEAN
    BY <1>6, Zenon DEF StartWorker
  <2>2. QED
    BY <1>6, <2>1 DEF StartWorker
<1>7. CASE SetStop
  BY <1>7 DEF SetStop
<1>8. CASE CancelIo
  BY <1>8 DEF CancelIo
<1>9. CASE JoinWorker
  <2>1. upc' \in {"exit", "lock"}
    BY <1>9 DEF JoinWorker
  <2>2. /\ worker' \in BOOLEAN /\ events' \in BOOLEAN
        /\ stopEvent' \in BOOLEAN /\ updateEvent' \in BOOLEAN
    BY <1>9, Zenon DEF JoinWorker
  <2>3. QED
    BY <1>9, <2>1, <2>2 DEF JoinWorker
<1>10. CASE OpenDiscord
  BY <1>10 DEF OpenDiscord
<1>11. CASE BeginWrite
  BY <1>11 DEF BeginWrite
<1>12. CASE WriteFails
  BY <1>12 DEF WriteFails, Released, Sending
<1>13. CASE ReadReady
  BY <1>13 DEF ReadReady
<1>14. CASE ResetUpdate
  <2>1. updateEvent' \in BOOLEAN
    BY <1>14, Zenon DEF ResetUpdate
  <2>2. QED
    BY <1>14, <2>1 DEF ResetUpdate
<1>15. CASE LockAndFormat
  BY <1>15 DEF LockAndFormat
<1>16. CASE WaitStop
  BY <1>16 DEF WaitStop
<1>17. CASE PollUpdate
  <2>1. updateEvent' \in BOOLEAN /\ changed' \in BOOLEAN
    BY <1>17, Zenon DEF PollUpdate
  <2>2. QED
    BY <1>17, <2>1 DEF PollUpdate
<1>18. CASE CheckTimer
  BY <1>18 DEF CheckTimer
<1>19. CASE PeekPipe
  BY <1>19 DEF PeekPipe
<1>20. CASE ReadRequest
  BY <1>20 DEF ReadRequest
<1>21. CASE ClosePipe
  BY <1>21 DEF ClosePipe
<1>22. CASE Retry
  BY <1>22 DEF Retry
<1>23. CASE DiscordStarts
  BY <1>23 DEF DiscordStarts
<1>24. CASE DiscordLeaves
  BY <1>24 DEF DiscordLeaves
<1>25. CASE DiscordWrites
  BY <1>25 DEF DiscordWrites, Replies
<1>26. CASE DiscordTakes
  <2>1. part' \in {1, 2} /\ io' = "none"
    BY <1>26 DEF DiscordTakes
  <2>2. mutex' \in {mutex, "none"} /\ wpc' \in {wpc, AfterFrame}
    BY <1>26 DEF DiscordTakes, Released
  <2>3. AfterFrame \in {"ready", "wait", "peek"}
    BY DEF AfterFrame
  <2>4. shown' \in {sent, shown}
    BY <1>26 DEF DiscordTakes
  <2>5. elapsed' \in BOOLEAN
    BY <1>26, Zenon DEF DiscordTakes, ElapsedAfter
  <2>6. QED
    BY <1>26, <2>1, <2>2, <2>3, <2>4, <2>5 DEF DiscordTakes
<1>27. CASE DiscordCompletes
  BY <1>27 DEF DiscordCompletes, Replies
<1>28. CASE TimerElapses
  BY <1>28 DEF TimerElapses
<1>29. CASE Quit
  BY <1>29 DEF Quit
<1>30. CASE UNCHANGED vars
  BY <1>30 DEF vars
<1>31. QED
  BY <1>1, <1>2, <1>3, <1>4, <1>5, <1>6, <1>7, <1>8, <1>9, <1>10, <1>11, <1>12, <1>13, <1>14, <1>15, <1>16, <1>17, <1>18, <1>19, <1>20, <1>21, <1>22, <1>23, <1>24, <1>25, <1>26, <1>27, <1>28, <1>29, <1>30
     DEF Next, User, UIStep, Run, Discord, Terminated

\* Of the two threads each keeps what the other relies on.
LEMMA InvStep ==
  ASSUME IInv, [Next]_vars
  PROVE  (HandlesInv /\ MutexInv /\ ConnectionInv /\ UpdateInv)'
<1> USE DEF IInv, TypeOK, HandlesInv, MutexInv, Sending, ConnectionInv, UpdateInv, UpToDate,
        uiVars, dataVars, handVars, runVars, peerVars
<1>1. CASE SaveFails
  BY <1>1 DEF SaveFails
<1>2. ASSUME NEW on \in BOOLEAN, Confirm(on)
      PROVE  (HandlesInv /\ MutexInv /\ ConnectionInv /\ UpdateInv)'
  BY <1>2 DEF Confirm
<1>3. CASE LockSettings
  BY <1>3 DEF LockSettings
<1>4. CASE StoreSettings
  BY <1>4 DEF StoreSettings
<1>5. CASE SignalWorker
  BY <1>5 DEF SignalWorker
<1>6. CASE StartWorker
  BY <1>6 DEF StartWorker
<1>7. CASE SetStop
  BY <1>7 DEF SetStop
<1>8. CASE CancelIo
  BY <1>8 DEF CancelIo
<1>9. CASE JoinWorker
  BY <1>9 DEF JoinWorker, WorkerEnded
<1>10. CASE OpenDiscord
  BY <1>10 DEF OpenDiscord
<1>11. CASE BeginWrite
  BY <1>11 DEF BeginWrite
<1>12. CASE WriteFails
  BY <1>12 DEF WriteFails, Released
<1>13. CASE ReadReady
  BY <1>13 DEF ReadReady
<1>14. CASE ResetUpdate
  BY <1>14 DEF ResetUpdate
<1>15. CASE LockAndFormat
  BY <1>15 DEF LockAndFormat
<1>16. CASE WaitStop
  BY <1>16 DEF WaitStop
<1>17. CASE PollUpdate
  BY <1>17 DEF PollUpdate
<1>18. CASE CheckTimer
  BY <1>18 DEF CheckTimer, Due
<1>19. CASE PeekPipe
  BY <1>19 DEF PeekPipe
<1>20. CASE ReadRequest
  BY <1>20 DEF ReadRequest
<1>21. CASE ClosePipe
  BY <1>21 DEF ClosePipe
<1>22. CASE Retry
  BY <1>22 DEF Retry
<1>23. CASE DiscordStarts
  BY <1>23 DEF DiscordStarts
<1>24. CASE DiscordLeaves
  BY <1>24 DEF DiscordLeaves
<1>25. CASE DiscordWrites
  BY <1>25 DEF DiscordWrites
<1>26. CASE DiscordTakes
  BY <1>26 DEF DiscordTakes, Released, AfterFrame
<1>27. CASE DiscordCompletes
  BY <1>27 DEF DiscordCompletes
<1>28. CASE TimerElapses
  BY <1>28 DEF TimerElapses
<1>29. CASE Quit
  BY <1>29 DEF Quit
<1>30. CASE UNCHANGED vars
  BY <1>30 DEF vars
<1>31. QED
  BY <1>1, <1>2, <1>3, <1>4, <1>5, <1>6, <1>7, <1>8, <1>9, <1>10, <1>11, <1>12, <1>13, <1>14, <1>15, <1>16, <1>17, <1>18, <1>19, <1>20, <1>21, <1>22, <1>23, <1>24, <1>25, <1>26, <1>27, <1>28, <1>29, <1>30
     DEF Next, User, UIStep, Run, Discord, Terminated

-------------------------------------------------------------------------------
(* The theorems.  They need no fairness: StallSpec, in which nothing is     *)
(* assumed of Discord, is enough.                                           *)

LEMMA Invariance == StallSpec => []IInv
<1>1. IInv /\ [Next]_vars => IInv'
  BY TypeStep, InvStep DEF IInv
<1>2. QED
  BY InitInv, <1>1, PTL DEF StallSpec

LEMMA SpecIsStallSpec == Spec => StallSpec
BY PTL DEF Spec, StallSpec

\* The worker uses its events and its handle only while they are there, whether
\* a dialog or the end of the program stops it, and however often it is started
\* again (DiscordPresence_Start, DiscordPresence_Stop).
THEOREM HandlesOutliveWorker == Spec => []WorkerHasEvents
<1>1. IInv => WorkerHasEvents
  BY DEF IInv, HandlesInv, WorkerHasEvents
<1>2. QED
  BY Invariance, SpecIsStallSpec, <1>1, PTL

\* No SetEvent(updateEvent) is lost between the reset of the event, the read of
\* the settings under the mutex, and the wait of the worker.
THEOREM UpdatesReachWorker == Spec => []NoLostUpdate
<1>1. IInv => NoLostUpdate
  BY DEF IInv, UpdateInv, UpToDate, NoLostUpdate
<1>2. QED
  BY Invariance, SpecIsStallSpec, <1>1, PTL

\* After DiscordPresence_Stop no thread, connection, activity or lock is left,
\* although CancelSynchronousIo may come too early for a write.
THEOREM StopLeavesNothing == Spec => []StoppedIsGone
<1>1. IInv => StoppedIsGone
  BY DEF IInv, HandlesInv, MutexInv, ConnectionInv, StoppedIsGone
<1>2. QED
  BY Invariance, SpecIsStallSpec, <1>1, PTL
===============================================================================
