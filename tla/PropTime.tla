------------------------------ MODULE PropTime ------------------------------
(***************************************************************************)
(* The running time in the property dialog.  Each dialog creates a thread, *)
(* DlgFunction_SystemTimeLoop, that copies the global p_tdata and shows    *)
(* the time that has passed since p_tdata.ft, for ever.  The UI thread     *)
(* fills p_tdata before the dialog and clears it after; nothing keeps the  *)
(* two threads apart, and the fields are copied in any order.              *)
(*                                                                         *)
(* A dialog that has ended below another box does not return before the    *)
(* box, and the next property dialog can be opened meanwhile.              *)
(***************************************************************************)
EXTENDS Integers, FiniteSets

CONSTANTS LOW,       \* ticks the low word of a FILETIME counts (2^32)
          SECOND,    \* ticks of a second (10^7)
          PER_HIGH,  \* seconds the code gives the high word (430)
          Births,    \* times when processes of windows were created
          MaxNow,    \* bound: time
          MaxOpened  \* bound: property dialogs

\* A high word is taken for more seconds than it has, but by less than one.
ASSUME TimeAssumption ==
  /\ {LOW, SECOND, PER_HIGH} \cup Births \subseteq Nat \ {0} /\ Births # {}
  /\ LOW <= PER_HIGH * SECOND /\ PER_HIGH * SECOND < LOW + SECOND
ASSUME TimeBounds == MaxNow \in Nat /\ MaxOpened \in Nat

VARIABLES
  now,
  ui,        \* the property dialog: closed, the next step of opening it, open
  opened,    \* dialogs so far; the number of the newest
  clearing,  \* dialogs that have ended and still have to clear p_tdata
  p_tdata,
  loop,      \* the threads: the fields they have copied, and the copies
  born,      \* the creation time of the process of each dialog
  text,      \* what the dialog shows; history: the age of the process by then
  late       \* history: the threads that copied after their dialog had ended

timeVars == <<now, ui, opened, clearing, p_tdata, loop, born, text, late>>

Dialog == 1 .. MaxOpened
Field == {"hwnd", "ft", "timer"}
Nothing == 0
Time == Nat
NoText == [sec |-> 0, rest |-> 0, age |-> 0]

TimeTypeOK ==
  /\ now \in Time /\ opened \in 0 .. MaxOpened /\ clearing \in 0 .. MaxOpened
  /\ ui \in {"closed", "times", "timer", "thread", "open", "clear timer", "clear ft"}
  /\ p_tdata \in [Field -> Nat]
  /\ loop \in [Dialog -> [running : BOOLEAN, read : SUBSET Field, copy : [Field -> Nat]]]
  /\ born \in [Dialog -> Births]
  /\ text \in [sec : Nat, rest : Nat, age : Nat]
  /\ late \subseteq Dialog

-------------------------------------------------------------------------------
(* Util_DateOperate and Util_FileTimeToTime.                                *)

Ticks(time) == time.sec * SECOND + time.rest

\* Mutant: the high word is rounded down.
FileTimeRoundedDown(e) ==
  [sec  |-> (e \div LOW) * (PER_HIGH - 1) + (e % LOW) \div SECOND,
   rest |-> (e % LOW) % SECOND]

\* Hours and minutes are another notation for seconds, milliseconds are what
\* is shown of the rest.
FileTimeToTime(e) ==
  [sec  |-> (e \div LOW) * PER_HIGH + (e % LOW) \div SECOND,
   rest |-> (e % LOW) % SECOND]

-------------------------------------------------------------------------------
(* The UI thread.                                                           *)

Clock ==
  /\ now < MaxNow
  /\ now' = now + 1
  /\ UNCHANGED <<ui, opened, clearing, p_tdata, loop, born, text, late>>

\* Process_WindowPropChange up to DialogBoxParam.
OpenDialog(t) ==
  /\ ui = "closed" /\ opened < MaxOpened
  /\ opened' = opened + 1 /\ born' = [born EXCEPT ![opened + 1] = t]
  /\ p_tdata' = [p_tdata EXCEPT !["hwnd"] = opened + 1]
  /\ text' = NoText /\ ui' = "times"
  /\ UNCHANGED <<now, clearing, loop, late>>

CreateThread == loop' = [loop EXCEPT ![opened].running = TRUE]

\* WM_INITDIALOG; without access to the process there is no thread.
GetProcessTimes ==
  /\ ui = "times"
  /\ \/ p_tdata' = [p_tdata EXCEPT !["ft"] = born[opened]] /\ ui' = "timer"
     \/ ui' = "open" /\ UNCHANGED p_tdata
  /\ UNCHANGED <<now, opened, clearing, loop, born, text, late>>

SetTimer ==
  /\ ui = "timer"
  /\ p_tdata' = [p_tdata EXCEPT !["timer"] = opened] /\ ui' = "thread"
  /\ UNCHANGED <<now, opened, clearing, loop, born, text, late>>

StartThread ==
  /\ ui = "thread"
  /\ CreateThread \/ UNCHANGED loop
  /\ ui' = "open"
  /\ UNCHANGED <<now, opened, clearing, p_tdata, born, text, late>>

EndDialog ==
  /\ ui = "open"
  /\ ui' = "closed" /\ clearing' = clearing + 1
  /\ UNCHANGED <<now, opened, p_tdata, loop, born, text, late>>

\* The end of Process_WindowPropChange, after DialogBoxParam has returned.
Clear(field, at, next) ==
  /\ ui = at
  /\ p_tdata' = [p_tdata EXCEPT ![field] = Nothing] /\ ui' = next
  /\ UNCHANGED <<now, opened, loop, born, text, late>>

ClearData ==
  \/ clearing > 0 /\ Clear("hwnd", "closed", "clear timer") /\ UNCHANGED clearing
  \/ Clear("timer", "clear timer", "clear ft") /\ UNCHANGED clearing
  \/ Clear("ft", "clear ft", "closed") /\ clearing' = clearing - 1

-------------------------------------------------------------------------------
(* DlgFunction_SystemTimeLoop.                                              *)

Shows(d) == d = opened /\ ui \in {"times", "timer", "thread", "open"}

Copy(d, field) ==
  /\ loop[d].running /\ field \notin loop[d].read
  /\ loop' = [loop EXCEPT ![d].read = @ \cup {field}, ![d].copy[field] = p_tdata[field]]
  /\ late' = IF Shows(d) THEN late ELSE late \cup {d}
  /\ UNCHANGED <<now, ui, opened, clearing, p_tdata, born, text>>

\* Without a window to check the thread ends; the text goes to the dialog the
\* copied handle belongs to, if it is still there.
ShowTime(d) ==
  /\ loop[d].running /\ loop[d].read = Field
  /\ LET copy == loop[d].copy
         time == FileTimeToTime(now - copy["ft"])
     IN  IF copy["hwnd"] = Nothing
         THEN loop' = [loop EXCEPT ![d].running = FALSE] /\ UNCHANGED text
         ELSE /\ text' = IF Shows(copy["timer"])
                         THEN [sec |-> time.sec, rest |-> time.rest, age |-> now - born[opened]]
                         ELSE text
              /\ UNCHANGED loop
  /\ UNCHANGED <<now, ui, opened, clearing, p_tdata, born, late>>

-------------------------------------------------------------------------------

TimeInit ==
  /\ now \in Births /\ (\A t \in Births : t <= now) /\ ui = "closed" /\ opened = 0 /\ clearing = 0
  /\ p_tdata = [f \in Field |-> Nothing]
  /\ loop = [d \in Dialog |-> [running |-> FALSE, read |-> {},
                               copy |-> [f \in Field |-> Nothing]]]
  /\ born = [d \in Dialog |-> now] /\ text = NoText /\ late = {}

DialogSteps ==
  \/ \E t \in Births : OpenDialog(t)
  \/ GetProcessTimes \/ SetTimer \/ StartThread \/ EndDialog \/ ClearData

LoopStep(d) == \/ \E field \in Field : Copy(d, field)
               \/ ShowTime(d)

TimeNext == Clock \/ DialogSteps \/ \E d \in Dialog : LoopStep(d)

TimeSpec == TimeInit /\ [][TimeNext]_timeVars

-------------------------------------------------------------------------------
(* Properties.                                                              *)

\* Unless a thread copied p_tdata after its dialog had ended, the time in the
\* dialog is the age of the process of its window, up to the second that each
\* high word is too long (dlgfunction.cpp:207-216, util.cpp:216).
ShownIsAge ==
  late = {} /\ text # NoText =>
    text.age <= Ticks(text) /\ Ticks(text) <= text.age + (text.age \div LOW) * SECOND

-------------------------------------------------------------------------------
(* What the code does not hold.                                             *)

\* The thread of a dialog ends with it: check is a copy, and the loop never
\* reads p_tdata.hwnd again (dlgfunction.cpp:208,211).
LoopEnds == \A d \in Dialog : loop[d].running ~> ~loop[d].running
TimeFairSpec == TimeSpec /\ WF_timeVars(DialogSteps)
                         /\ \A d \in Dialog : WF_timeVars(LoopStep(d))

\* The same without the condition: a thread that copies late shows the time of
\* an empty p_tdata in the next dialog.
ShownIsAlwaysAge ==
  text # NoText => Ticks(text) <= text.age + (text.age \div LOW) * SECOND
=============================================================================
