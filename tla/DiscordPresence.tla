---------------------------- MODULE DiscordPresence ----------------------------
(***************************************************************************)
(* The Discord activity of src/main/discord_presence.cpp: the settings     *)
(* dialog and DiscordPresence_Start / _Stop on the UI thread, the worker   *)
(* thread (Run) that talks to Discord over a pipe, and Discord itself as   *)
(* far as the worker can see it.                                           *)
(*                                                                         *)
(* The contents of the settings are a version, a number that grows with    *)
(* every confirmed dialog.  Nested dialogs add nothing: a dialog keeps no  *)
(* state but its controls, in which the user can type anything.            *)
(***************************************************************************)
EXTENDS Integers, Sequences

CONSTANTS MaxVersion,   \* bound: settings confirmed in one session
          Fixed,        \* versions with a fixed elapsed time
          Fields        \* registry values of one save, in the order saved

Version == 0..MaxVersion
None    == -1

ASSUME MaxVersionAssumption == MaxVersion \in Nat
ASSUME FixedAssumption == Fixed \subseteq Version
ASSUME FieldsAssumption == Fields \in Nat \ {0}

VARIABLES
  upc,        \* where the UI thread is
  quitting,   \* DiscordPresence_Stop was called after the message loop
  draft,      \* the version in the dialog being confirmed
  draftOn,    \* its enabled box
  settings,   \* activityDetails, activityName, extraValues, fixedSeconds
  registry,   \* the version of each saved registry value
  worker,     \* worker is not null
  events,     \* stopEvent and updateEvent are open handles
  stopEvent, updateEvent,
  mutex,      \* holder of settingsMutex
  wpc,        \* where the worker thread is
  frame,      \* the frame WriteFrame is writing
  part,       \* 1: its header, 2: its body
  io,         \* a WriteFile of the worker is in progress, or was cancelled
  sent,       \* the version of the last activity sent on this connection
  changed,    \* the local of the inner loop
  elapsed,    \* TimerRefreshMs have passed since lastUpdate
  discord,    \* Discord listens
  pipe,       \* the worker's end of the pipe
  inbox,      \* what Discord has written and the worker not read
  shown       \* the version Discord shows

uiVars   == <<upc, quitting, draft, draftOn>>
dataVars == <<settings, registry>>
handVars == <<worker, events, stopEvent, updateEvent>>
runVars  == <<frame, part, io, sent, changed>>
peerVars == <<discord, pipe, inbox, shown>>
vars == <<uiVars, dataVars, handVars, mutex, wpc, runVars, elapsed, peerVars>>

Replies    == {"ready", "other", "close", "ping", "partial"}

TypeOK ==
  /\ upc \in {"run", "stop", "cancel", "join", "lock", "store", "signal", "exit"}
  /\ quitting \in BOOLEAN
  /\ draft \in Version /\ draftOn \in BOOLEAN
  /\ settings \in Version
  /\ registry \in [1..Fields -> Version]
  /\ worker \in BOOLEAN /\ events \in BOOLEAN
  /\ stopEvent \in BOOLEAN /\ updateEvent \in BOOLEAN
  /\ mutex \in {"none", "ui", "worker"}
  /\ wpc \in {"none", "open", "write", "ready", "reset", "send", "wait",
              "poll", "timer", "peek", "read", "close", "retry"}
  /\ frame \in {"hello", "first", "update", "pong"}
  /\ part \in {1, 2}
  /\ io \in {"none", "pending", "cancelled"}
  /\ sent \in Version \cup {None}
  /\ changed \in BOOLEAN
  /\ elapsed \in BOOLEAN
  /\ discord \in BOOLEAN
  /\ pipe \in {"none", "open", "broken"}
  /\ inbox \in Replies \cup {"none"}
  /\ shown \in Version \cup {None}

\* DiscordPresence_Initialize has read the settings and, if they say so,
\* called DiscordPresence_Start.
Init ==
  /\ upc = "run" /\ quitting = FALSE /\ draft = 0 /\ draftOn = FALSE
  /\ settings = 0
  /\ registry = [f \in 1..Fields |-> 0]
  /\ worker \in BOOLEAN
  /\ events = worker
  /\ wpc = IF worker THEN "open" ELSE "none"
  /\ stopEvent = FALSE /\ updateEvent = FALSE
  /\ mutex = "none"
  /\ frame = "hello" /\ part = 1 /\ io = "none" /\ sent = None
  /\ changed = FALSE /\ elapsed = FALSE
  /\ discord \in BOOLEAN
  /\ pipe = "none" /\ inbox = "none" /\ shown = None

-------------------------------------------------------------------------------
(* IDOK in the settings dialog.  Input that does not validate changes       *)
(* nothing.                                                                 *)

\* Registry values saved before the one that fails stay saved.
SavedUpTo(k) == [f \in 1..Fields |-> IF f <= k THEN settings + 1 ELSE registry[f]]

SaveFails ==
  /\ upc = "run" /\ settings < MaxVersion
  /\ \E k \in 0..(Fields - 1) : registry' = SavedUpTo(k)
  /\ UNCHANGED <<uiVars, settings, handVars, mutex, wpc, runVars, elapsed, peerVars>>

\* Everything is saved; a dialog that disables the activity stops the worker
\* before it stores the settings.
Confirm(on) ==
  /\ upc = "run" /\ settings < MaxVersion
  /\ registry' = SavedUpTo(Fields)
  /\ draft' = settings + 1 /\ draftOn' = on
  /\ upc' = IF ~on /\ worker THEN "stop" ELSE "lock"
  /\ UNCHANGED <<quitting, settings, handVars, mutex, wpc, runVars, elapsed, peerVars>>

LockSettings ==
  /\ upc = "lock" /\ mutex = "none"
  /\ mutex' = "ui" /\ upc' = "store"
  /\ UNCHANGED <<quitting, draft, draftOn, dataVars, handVars, wpc, runVars, elapsed, peerVars>>

StoreSettings ==
  /\ upc = "store"
  /\ settings' = draft
  /\ mutex' = "none"
  /\ upc' = IF draftOn THEN "signal" ELSE "run"
  /\ UNCHANGED <<quitting, draft, draftOn, registry, handVars, wpc, runVars, elapsed, peerVars>>

\* Mutant: SetEvent is left out.
SignalNothing ==
  /\ upc = "signal" /\ worker
  /\ upc' = "run"
  /\ UNCHANGED <<quitting, draft, draftOn, dataVars, handVars, mutex, wpc, runVars,
                 elapsed, peerVars>>

\* A running worker is told of the change, else one is started.
SignalWorker ==
  /\ upc = "signal" /\ worker
  /\ updateEvent' = TRUE
  /\ upc' = "run"
  /\ UNCHANGED <<quitting, draft, draftOn, dataVars, worker, events, stopEvent, mutex, wpc,
                 runVars, elapsed, peerVars>>

\* DiscordPresence_Start.  If an event or the thread cannot be created,
\* everything is as before.
StartWorker ==
  /\ upc = "signal" /\ ~worker
  /\ upc' = "run"
  /\ \/ /\ worker' = TRUE /\ events' = TRUE
        /\ stopEvent' = FALSE /\ updateEvent' = FALSE
        /\ wpc' = "open"
     \/ UNCHANGED <<handVars, wpc>>
  /\ UNCHANGED <<quitting, draft, draftOn, dataVars, mutex, runVars, elapsed, peerVars>>

-------------------------------------------------------------------------------
(* DiscordPresence_Stop, from a dialog or after the message loop ended.     *)

Quit ==
  /\ upc = "run"
  /\ quitting' = TRUE
  /\ upc' = IF worker THEN "stop" ELSE "exit"
  /\ UNCHANGED <<draft, draftOn, dataVars, handVars, mutex, wpc, runVars, elapsed, peerVars>>

SetStop ==
  /\ upc = "stop"
  /\ stopEvent' = TRUE
  /\ upc' = "cancel"
  /\ UNCHANGED <<quitting, draft, draftOn, dataVars, worker, events, updateEvent, mutex,
                 wpc, runVars, elapsed, peerVars>>

\* CancelSynchronousIo ends a write in progress, not one that begins later.
CancelIo ==
  /\ upc = "cancel"
  /\ io' = IF io = "pending" THEN "cancelled" ELSE io
  /\ upc' = "join"
  /\ UNCHANGED <<quitting, draft, draftOn, dataVars, handVars, mutex, wpc, frame, part,
                 sent, changed, elapsed, peerVars>>

\* Mutant: the wait for the worker gives up.
NotWaited == TRUE

\* WaitForSingleObject(worker, INFINITE).
WorkerEnded == wpc = "none"

JoinWorker ==
  /\ upc = "join" /\ WorkerEnded
  /\ worker' = FALSE /\ events' = FALSE
  /\ stopEvent' = FALSE /\ updateEvent' = FALSE
  /\ upc' = IF quitting THEN "exit" ELSE "lock"
  /\ UNCHANGED <<quitting, draft, draftOn, dataVars, mutex, wpc, runVars, elapsed, peerVars>>

-------------------------------------------------------------------------------
(* The worker thread.                                                       *)

\* The head of the outer loop and OpenDiscord.
OpenDiscord ==
  /\ wpc = "open"
  /\ IF ~stopEvent /\ discord
       THEN /\ pipe' = "open" /\ frame' = "hello" /\ part' = 1
            /\ wpc' = "write"
       ELSE /\ wpc' = IF stopEvent THEN "none" ELSE "retry"
            /\ UNCHANGED <<pipe, frame, part>>
  /\ UNCHANGED <<uiVars, dataVars, handVars, mutex, io, sent, changed, elapsed,
                 discord, inbox, shown>>

\* WriteFrame: WriteFile is called for the header, then for the body.
BeginWrite ==
  /\ wpc = "write" /\ io = "none" /\ pipe = "open"
  /\ io' = "pending"
  /\ UNCHANGED <<uiVars, dataVars, handVars, mutex, wpc, frame, part, sent,
                 changed, elapsed, peerVars>>

\* SendActivity holds the mutex until its WriteFrame returns.
Sending  == frame \in {"first", "update"}

\* Mutant: the mutex is not released.
NotReleased == mutex

Released == IF Sending THEN "none" ELSE mutex

\* Mutant: lastUpdate is set after every frame.
RestartedByAnyFrame == FALSE

\* lastUpdate is set after an activity.
ElapsedAfter == IF Sending THEN FALSE ELSE elapsed

\* Where each frame leads once it is written.
AfterFrame == CASE frame = "hello"  -> "ready"
                [] frame = "first"  -> "wait"
                [] frame = "update" -> "peek"
                [] frame = "pong"   -> "wait"

\* A WriteFile returns once Discord has taken the bytes.
DiscordTakes ==
  /\ wpc = "write" /\ io = "pending" /\ pipe = "open"
  /\ io' = "none"
  /\ IF part = 1
       THEN part' = 2 /\ UNCHANGED <<mutex, wpc, shown, elapsed>>
       ELSE /\ part' = 1
            /\ mutex' = Released
            /\ wpc' = AfterFrame
            /\ shown' = IF Sending THEN sent ELSE shown
            /\ elapsed' = ElapsedAfter
  /\ UNCHANGED <<uiVars, dataVars, handVars, frame, sent, changed, discord,
                 pipe, inbox>>

WriteFails ==
  /\ wpc = "write" /\ (io = "cancelled" \/ pipe = "broken")
  /\ io' = "none" /\ part' = 1
  /\ mutex' = Released
  /\ wpc' = "close"
  /\ UNCHANGED <<uiVars, dataVars, handVars, frame, sent, changed, elapsed, peerVars>>

\* Mutant: ReadFrame does not look at stopEvent.
GivesUpOnBreak == pipe = "broken"

\* ReadFrame polls: it gives up when it is told to stop or the pipe breaks,
\* and waits while nothing or only a part of a frame is there.
GivesUp == stopEvent \/ pipe = "broken"
Arrived == inbox \notin {"none", "partial"}

ReadReady ==
  /\ wpc = "ready"
  /\ \/ GivesUp /\ wpc' = "close" /\ UNCHANGED inbox
     \/ /\ ~GivesUp /\ Arrived
        /\ wpc' = IF inbox = "ready" THEN "reset" ELSE "close"
        /\ inbox' = "none"
  /\ UNCHANGED <<uiVars, dataVars, handVars, mutex, runVars, elapsed, discord,
                 pipe, shown>>

\* The event is reset before the settings are read.
ResetUpdate ==
  /\ wpc = "reset"
  /\ updateEvent' = FALSE
  /\ frame' = "first"
  /\ wpc' = "send"
  /\ UNCHANGED <<uiVars, dataVars, worker, events, stopEvent, mutex, part, io,
                 sent, changed, elapsed, peerVars>>

\* SendActivity up to WriteFrame.
LockAndFormat ==
  /\ wpc = "send" /\ mutex = "none"
  /\ mutex' = "worker"
  /\ sent' = settings
  /\ wpc' = "write"
  /\ UNCHANGED <<uiVars, dataVars, handVars, frame, part, io, changed, elapsed, peerVars>>

\* The wait of the inner loop.
WaitStop ==
  /\ wpc = "wait"
  /\ wpc' = IF stopEvent THEN "close" ELSE "poll"
  /\ UNCHANGED <<uiVars, dataVars, handVars, mutex, runVars, elapsed, peerVars>>

PollUpdate ==
  /\ wpc = "poll"
  /\ changed' = updateEvent
  /\ updateEvent' = FALSE
  /\ wpc' = "timer"
  /\ UNCHANGED <<uiVars, dataVars, worker, events, stopEvent, mutex, frame, part,
                 io, sent, elapsed, peerVars>>

\* Mutant: only the timer makes an activity due.
DueByTimer == settings \in Fixed /\ elapsed

Due == changed \/ (settings \in Fixed /\ elapsed)

\* fixedSeconds is read under the mutex, which is released at once.
CheckTimer ==
  /\ wpc = "timer" /\ mutex = "none"
  /\ IF Due THEN wpc' = "send" /\ frame' = "update"
            ELSE wpc' = "peek" /\ UNCHANGED frame
  /\ UNCHANGED <<uiVars, dataVars, handVars, mutex, part, io, sent, changed,
                 elapsed, peerVars>>

PeekPipe ==
  /\ wpc = "peek"
  /\ wpc' = IF pipe = "broken" THEN "close"
            ELSE IF inbox = "none" THEN "wait" ELSE "read"
  /\ UNCHANGED <<uiVars, dataVars, handVars, mutex, runVars, elapsed, peerVars>>

ReadRequest ==
  /\ wpc = "read"
  /\ \/ GivesUp /\ wpc' = "close" /\ UNCHANGED <<inbox, frame>>
     \/ /\ ~GivesUp /\ Arrived
        /\ inbox' = "none"
        /\ CASE inbox = "close" -> wpc' = "close" /\ UNCHANGED frame
             [] inbox = "ping"  -> wpc' = "write" /\ frame' = "pong"
             [] OTHER           -> wpc' = "wait" /\ UNCHANGED frame
  /\ UNCHANGED <<uiVars, dataVars, handVars, mutex, part, io, sent, changed,
                 elapsed, discord, pipe, shown>>

\* Discord drops the activity of a connection that is closed.
ClosePipe ==
  /\ wpc = "close"
  /\ pipe' = "none" /\ inbox' = "none" /\ shown' = None /\ sent' = None
  /\ wpc' = "retry"
  /\ UNCHANGED <<uiVars, dataVars, handVars, mutex, frame, part, io, changed,
                 elapsed, discord>>

\* Mutant: the worker returns after one connection.
NoRetry ==
  /\ wpc = "retry"
  /\ wpc' = "none"
  /\ UNCHANGED <<uiVars, dataVars, handVars, mutex, runVars, elapsed, peerVars>>

\* Five seconds pass, or the worker is told to stop and returns.
Retry ==
  /\ wpc = "retry"
  /\ wpc' = IF stopEvent THEN "none" ELSE "open"
  /\ UNCHANGED <<uiVars, dataVars, handVars, mutex, runVars, elapsed, peerVars>>

-------------------------------------------------------------------------------
(* Discord and the clock.                                                   *)

DiscordStarts ==
  /\ ~discord /\ discord' = TRUE
  /\ UNCHANGED <<uiVars, dataVars, handVars, mutex, wpc, runVars, elapsed, pipe,
                 inbox, shown>>

\* Discord ends, or only this connection does.
DiscordLeaves ==
  /\ discord
  /\ discord' \in BOOLEAN
  /\ pipe' = IF pipe = "open" THEN "broken" ELSE pipe
  /\ shown' = None
  /\ UNCHANGED <<uiVars, dataVars, handVars, mutex, wpc, runVars, elapsed, inbox>>

DiscordWrites ==
  /\ pipe = "open" /\ inbox = "none"
  /\ inbox' \in Replies
  /\ UNCHANGED <<uiVars, dataVars, handVars, mutex, wpc, runVars, elapsed,
                 discord, pipe, shown>>

DiscordCompletes ==
  /\ pipe = "open" /\ inbox = "partial"
  /\ inbox' \in Replies \ {"partial"}
  /\ UNCHANGED <<uiVars, dataVars, handVars, mutex, wpc, runVars, elapsed,
                 discord, pipe, shown>>

TimerElapses ==
  /\ ~elapsed /\ elapsed' = TRUE
  /\ UNCHANGED <<uiVars, dataVars, handVars, mutex, wpc, runVars, peerVars>>

-------------------------------------------------------------------------------
User == SaveFails \/ Quit \/ \E on \in BOOLEAN : Confirm(on)

UIStep == \/ LockSettings \/ StoreSettings \/ SignalWorker \/ StartWorker
          \/ SetStop \/ CancelIo \/ JoinWorker

Run == \/ OpenDiscord \/ BeginWrite \/ WriteFails \/ ReadReady \/ ResetUpdate
       \/ LockAndFormat \/ WaitStop \/ PollUpdate \/ CheckTimer \/ PeekPipe
       \/ ReadRequest \/ ClosePipe \/ Retry

Discord == DiscordStarts \/ DiscordLeaves \/ DiscordWrites

Terminated == upc = "exit" /\ UNCHANGED vars

Next == \/ User \/ UIStep \/ Run
        \/ Discord \/ DiscordTakes \/ DiscordCompletes \/ TimerElapses
        \/ Terminated

\* Both threads are scheduled, and neither waits for the mutex for ever: its
\* holder gives it up for 50 ms at a time.
ThreadFairness == /\ WF_vars(UIStep) /\ SF_vars(LockSettings)
                  /\ WF_vars(Run)
                  /\ SF_vars(LockAndFormat) /\ SF_vars(CheckTimer)

\* A Discord that reads what it is sent and finishes what it starts to write.
DiscordFairness == WF_vars(DiscordTakes) /\ WF_vars(DiscordCompletes)

Spec == Init /\ [][Next]_vars /\ ThreadFairness /\ DiscordFairness
             /\ WF_vars(TimerElapses)

\* Nothing is assumed of Discord.
StallSpec == Init /\ [][Next]_vars /\ ThreadFairness

-------------------------------------------------------------------------------
(* Properties.                                                              *)

\* The worker uses its events only while they are open, and worker is not
\* null as long as its thread runs: DiscordPresence_Stop closes them after it.
WorkerHasEvents == wpc # "none" => worker /\ events

\* No change of the settings is lost: while the worker waits and updateEvent
\* is not set, what it sent last is what the dialog stored last, but for the
\* moment before SetEvent.
NoLostUpdate ==
  wpc \in {"wait", "peek", "read"} /\ ~updateEvent /\ upc # "signal"
    => sent = settings

\* Once the activity is disabled and the dialog has returned, Discord shows
\* nothing of it and no thread or lock is left behind.
StoppedIsGone ==
  ~worker => wpc = "none" /\ pipe = "none" /\ shown = None /\ mutex # "worker"

Connected == \/ wpc \in {"wait", "poll", "timer", "peek", "read"}
             \/ wpc \in {"send", "write"} /\ frame \in {"update", "pong"}

\* While it stays connected to a Discord that reads, the worker shows the
\* settings last stored.
SettingsShown ==
  \A v \in Version : (settings = v /\ Connected)
                       ~> (shown = v \/ settings # v \/ ~Connected)

\* With a fixed elapsed time the activity is sent again and again.
TimerResent ==
  (Connected /\ settings \in Fixed)
    ~> (wpc = "write" /\ frame = "update") \/ ~Connected \/ settings \notin Fixed

\* A Discord that starts late or restarts is connected to.
Reconnects ==
  (worker /\ discord /\ wpc \in {"open", "retry"})
    ~> (pipe = "open" \/ ~discord \/ upc # "run")

\* The UI thread never waits for ever, neither in Stop nor for the mutex.
UIReturns == upc \notin {"run", "exit"} ~> upc \in {"run", "exit"}

\* A save that fails leaves the saved settings alone.
FailedSaveChangesNothing == [][SaveFails => UNCHANGED registry]_vars
===============================================================================
