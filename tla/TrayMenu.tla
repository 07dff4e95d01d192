------------------------------- MODULE TrayMenu -------------------------------
(***************************************************************************)
(* The two items of the tray menu that register the program with Windows   *)
(* (src/main/menu.cpp): the start-up task in the Task Scheduler, and the   *)
(* "runtime check" entry of the context menu of .exe files.  An item is    *)
(* checked first and the registration attempted after it; the item of the  *)
(* start-up task is then corrected by the result of Menu_SetStartup.       *)
(*                                                                         *)
(* The calls into the Task Scheduler may fail one by one, it may be out of *)
(* reach, and the user may change the task with other tools.  The program  *)
(* can be killed between two calls into the registry.                      *)
(***************************************************************************)
VARIABLES
  running,   \* the message loop runs
  com,       \* Menu_TaskSchedulerInit has left COM initialized
  task,      \* the task WindowProperty is registered
  init,      \* the item TN_MENU_INIT is checked
  astray,    \* history: since the item was last read from the Task Scheduler,
             \* another tool changed the task, or the scheduler was not reached
  rtpc,      \* where Menu_SetRTContext is
  key,       \* the registry key of the context menu: "none", "empty", "named"
             \* with its caption, "full" with its command
  rt         \* the item TN_MENU_RT is checked

taskVars == <<com, task, init, astray>>
keyVars  == <<rtpc, key, rt>>
vars == <<running, taskVars, keyVars>>

Key == {"none", "empty", "named", "full"}

TypeOK ==
  /\ running \in BOOLEAN /\ com \in BOOLEAN
  /\ task \in BOOLEAN /\ init \in BOOLEAN /\ astray \in BOOLEAN
  /\ rtpc \in {"idle", "name", "fill", "delete"}
  /\ key \in Key
  /\ rt \in BOOLEAN

Init ==
  /\ running = FALSE /\ com = FALSE
  /\ task \in BOOLEAN /\ init = FALSE /\ astray = FALSE
  /\ rtpc = "idle" /\ key \in {"none", "full"} /\ rt = FALSE

Idle == running /\ rtpc = "idle"

-------------------------------------------------------------------------------
(* Start-up.                                                                *)

\* Without a Task Scheduler the item of the new menu stays unchecked.
Menu_TaskSchedulerInit ==
  \/ com' = TRUE /\ init' = task /\ astray' = FALSE
  \/ com' = FALSE /\ init' = FALSE /\ astray' = TRUE

\* WM_CREATE.
Create ==
  /\ ~running /\ running' = TRUE
  /\ rt' = (key # "none")
  /\ Menu_TaskSchedulerInit
  /\ UNCHANGED <<task, rtpc, key>>

-------------------------------------------------------------------------------
(* Menu_SetStartup: the task and the item after it.                         *)

\* Failed before DeleteTask or NewTask; without COM always.
NotReached == UNCHANGED task /\ init' = FALSE /\ astray' = TRUE

Deleted == task /\ task' = FALSE

\* DeleteTask fails for a task that is not there, or is not to be deleted.
NotDeleted == UNCHANGED task

\* Mutant: the result says whether the task is gone.
RemoveSucceeded ==
  /\ \/ Deleted /\ init' = TRUE
     \/ NotDeleted /\ init' = FALSE
  /\ UNCHANGED astray

Remove ==
  /\ \/ Deleted /\ init' = FALSE
     \/ NotDeleted /\ init' = TRUE
  /\ UNCHANGED astray

\* A registration that fails half-way deletes the task.
Add ==
  /\ \/ task' = TRUE /\ init' = TRUE
     \/ Deleted /\ init' = TRUE
     \/ NotDeleted /\ init' = FALSE
  /\ UNCHANGED astray

Menu_SetStartup ==
  /\ Idle
  /\ \/ NotReached
     \/ com /\ ~init /\ Add
     \/ com /\ init /\ Remove
  /\ UNCHANGED <<running, com, keyVars>>

-------------------------------------------------------------------------------
(* Menu_SetRTContext.                                                       *)

\* Mutant: the key is not emptied before it is deleted.
KeepValues ==
  /\ Idle
  /\ rt' = ~rt
  /\ rtpc' = IF rt THEN "delete" ELSE "name"
  /\ key' = IF key = "none" THEN "empty" ELSE key
  /\ UNCHANGED <<running, taskVars>>

\* The key is opened, or created without a command, in both directions.  To
\* switch it off, its values and subkeys are deleted.
BeginRTContext ==
  /\ Idle
  /\ rt' = ~rt
  /\ rtpc' = IF rt THEN "delete" ELSE "name"
  /\ key' = IF rt \/ key = "none" THEN "empty" ELSE key
  /\ UNCHANGED <<running, taskVars>>

NameKey ==
  /\ rtpc = "name" /\ rtpc' = "fill"
  /\ key' = IF key = "full" THEN key ELSE "named"
  /\ UNCHANGED <<running, taskVars, rt>>

FillKey ==
  /\ rtpc = "fill" /\ rtpc' = "idle"
  /\ key' = "full"
  /\ UNCHANGED <<running, taskVars, rt>>

\* Nobody looks at the result of RegDeleteKey.
DeleteKey ==
  /\ rtpc = "delete" /\ rtpc' = "idle"
  /\ \/ key' = "none"
     \/ UNCHANGED key
  /\ UNCHANGED <<running, taskVars, rt>>

-------------------------------------------------------------------------------
\* The program ends, or is killed.
Exit ==
  /\ running /\ running' = FALSE /\ rtpc' = "idle"
  /\ UNCHANGED <<taskVars, key, rt>>

\* Another tool adds or deletes the task.
OtherTool ==
  /\ task' = ~task /\ astray' = TRUE
  /\ UNCHANGED <<running, com, init, keyVars>>

Next == \/ Create \/ Menu_SetStartup
        \/ BeginRTContext \/ NameKey \/ FillKey \/ DeleteKey
        \/ Exit \/ OtherTool

Spec == Init /\ [][Next]_vars

-------------------------------------------------------------------------------
(* Properties.                                                              *)

\* Whatever calls of an attempt fail, the item of the start-up task shows
\* whether the task is registered, as long as the Task Scheduler is reached
\* and nobody else changes the task.
ItemShowsTask == running /\ ~astray => init = task

\* When nothing is going on, a checked item has its entry in the context
\* menu, and no command is left behind by an unchecked one, also after the
\* program was killed and started again.
EntryShown == Idle => (rt => key # "none") /\ (~rt => key # "full")

-------------------------------------------------------------------------------
(* What the documentation says and the code does not.                       *)

\* README: the item adds the program to the start-up programs.  An attempt
\* leaves the item as the task is, also when another tool deleted the task:
\* then it stays checked, and the task can never be added.
AttemptShowsTask == [][Menu_SetStartup => init' = task']_vars

\* README: the entry in the context menu starts the runtime check.
EntryWorks == Idle /\ rt => key = "full"
===============================================================================
