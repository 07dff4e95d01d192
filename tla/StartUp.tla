------------------------------- MODULE StartUp -------------------------------
(***************************************************************************)
(* wWinMain (main.cpp): a run of the program looks for the main window of  *)
(* another run, hands its request over and ends, or it brings the registry *)
(* up to date, starts the runtime checker and opens the main window.       *)
(*                                                                         *)
(* Looking for the window and opening it are far apart: two runs can miss  *)
(* each other.  A handed over request is a sent message: the other run     *)
(* takes it when it waits for messages, also in calls that do so inside.   *)
(***************************************************************************)
EXTENDS Naturals, FiniteSets, FiniteSetsExt

CONSTANTS Run,     \* runs of the program
          Key      \* subkeys a version 0 may have left under Settings

ASSUME KeyAssumption == Key \subseteq Nat /\ IsFiniteSet(Key)
ASSUME RunAssumption == Run \cap {"no", "lost"} = {}

VARIABLES
  at,                        \* the step of each run, in the order of wWinMain
  request,                   \* the runs that were started with -rtcheck
  receiver,                  \* the run a request is sent to
  checker,                   \* the chain of threads of the runtime checker
  served,                    \* history: the run that took a request, or why none did
  version, oldKeys, runValue,\* the registry
  stuck                      \* subkeys that cannot be deleted

registryVars == <<version, oldKeys, runValue, stuck>>
startVars == <<at, request, receiver, checker, served, registryVars>>

Step == {"off", "find", "send", "version", "keys", "value", "stamp", "init", "watch",
         "create", "fill", "loop", "icon", "threads", "gone"}

StartTypeOK ==
  /\ at \in [Run -> Step] /\ request \subseteq Run
  /\ receiver \in [Run -> Run]
  /\ checker \in [Run -> {"none", "ready", "failed", "closed"}]
  /\ served \in [Run -> Run \cup {"no", "lost"}]
  /\ version \in 0 .. 3 /\ oldKeys \subseteq Key /\ runValue \in BOOLEAN
  /\ stuck \subseteq Key

\* Only the first versions left subkeys, and only those before 2 a value under Run.
StartInit ==
  /\ at = [r \in Run |-> "off"] /\ request = {}
  /\ receiver = [r \in Run |-> r] /\ checker = [r \in Run |-> "none"]
  /\ served = [r \in Run |-> "no"]
  /\ version \in 0 .. 3
  /\ oldKeys \in (IF version = 0 THEN SUBSET Key ELSE {{}})
  /\ runValue \in (IF version < 2 THEN BOOLEAN ELSE {FALSE})
  /\ stuck \in SUBSET oldKeys

Go(r, from, to) == at[r] = from /\ at' = [at EXCEPT ![r] = to]

HasWindow(r) == at[r] \in {"fill", "loop", "icon", "threads"}

-------------------------------------------------------------------------------
(* One run.                                                                 *)

Started(r) ==
  /\ Go(r, "off", "find")
  /\ request' \in {request, request \cup {r}}
  /\ UNCHANGED <<receiver, checker, served, registryVars>>

FindWindow(r) ==
  /\ \/ /\ \E q \in Run \ {r} : HasWindow(q) /\ receiver' = [receiver EXCEPT ![r] = q]
        /\ Go(r, "find", "send")
     \/ /\ \A q \in Run \ {r} : ~HasWindow(q)
        /\ Go(r, "find", "version") /\ UNCHANGED receiver
  /\ UNCHANGED <<request, checker, served, registryVars>>

\* A run without a request sends an empty message.
Serve(q, r) == IF r \in request THEN served' = [served EXCEPT ![r] = q] ELSE UNCHANGED served

\* The calls in "fill" and "icon" that ask Explorer or show a box wait for
\* messages; Thread_Close does not.
Pumps(q) == at[q] \in {"fill", "loop", "icon"}

\* WM_COPYDATA: Thread_CreateThreadProcess, in the run q.
Delivered(r) ==
  /\ Pumps(receiver[r]) /\ Go(r, "send", "gone")
  /\ Serve(receiver[r], r)
  /\ UNCHANGED <<request, receiver, checker, registryVars>>

\* The window goes with its run, and SendMessage returns.
NotDelivered(r) ==
  /\ at[receiver[r]] = "gone" /\ Go(r, "send", "gone")
  /\ IF r \in request THEN served' = [served EXCEPT ![r] = "lost"] ELSE UNCHANGED served
  /\ UNCHANGED <<request, receiver, checker, registryVars>>

Main_VersionCheck(r) ==
  /\ \/ version = 0 /\ Go(r, "version", "keys")
     \/ version = 1 /\ Go(r, "version", "value")
     \/ version > 1 /\ Go(r, "version", "stamp")
  /\ UNCHANGED <<request, receiver, checker, served, registryVars>>

\* Mutant: the subkey with index 1 is next.
Main_DeleteRegistryVer0Counting(r) ==
  /\ \/ /\ Go(r, "keys", "keys") /\ Cardinality(oldKeys) > 1
        /\ oldKeys' = oldKeys \ ({Max(oldKeys)} \ stuck)
     \/ Go(r, "keys", "value") /\ Cardinality(oldKeys) < 2 /\ UNCHANGED oldKeys
  /\ UNCHANGED <<request, receiver, checker, served, version, runValue, stuck>>

\* Mutant: without RegDeleteTree, and RegDeleteKey fails for a key with subkeys.
Main_DeleteRegistryVer0Shallow(r) ==
  /\ Go(r, "keys", IF oldKeys = {} THEN "value" ELSE "keys")
  /\ UNCHANGED <<request, receiver, checker, served, registryVars>>

\* The subkey with index 0 until there is none; the results are not looked at.
Main_DeleteRegistryVer0(r) ==
  /\ \/ /\ Go(r, "keys", "keys") /\ oldKeys # {}
        /\ oldKeys' = oldKeys \ ({Min(oldKeys)} \ stuck)
     \/ Go(r, "keys", "value") /\ oldKeys = {} /\ UNCHANGED oldKeys
  /\ UNCHANGED <<request, receiver, checker, served, version, runValue, stuck>>

\* RegDeleteValue may fail.
Main_DeleteRegistryVer1(r) ==
  /\ Go(r, "value", "stamp")
  /\ runValue' \in {runValue, FALSE}
  /\ UNCHANGED <<request, receiver, checker, served, version, oldKeys, stuck>>

StampVersion(r) ==
  /\ Go(r, "stamp", "init")
  /\ version' = 2
  /\ UNCHANGED <<request, receiver, checker, served, oldKeys, runValue, stuck>>

\* Mutant: the runtime checker is set up later.
Thread_InitLater(r) ==
  /\ Go(r, "init", "watch")
  /\ UNCHANGED <<request, receiver, checker, served, registryVars>>

\* Without memory or a thread it refuses every request.
Thread_Init(r) ==
  /\ Go(r, "init", "watch")
  /\ \E state \in {"ready", "failed"} : checker' = [checker EXCEPT ![r] = state]
  /\ UNCHANGED <<request, receiver, served, registryVars>>

\* The request of a run that found no window.
WatchOwn(r) ==
  /\ Go(r, "watch", "create")
  /\ Serve(r, r)
  /\ UNCHANGED <<request, receiver, checker, registryVars>>

CreateMainWindow(r) ==
  /\ Go(r, "create", "fill")
  /\ UNCHANGED <<request, receiver, checker, served, registryVars>>

EnterLoop(r) ==
  /\ Go(r, "fill", "loop")
  /\ UNCHANGED <<request, receiver, checker, served, registryVars>>

\* WM_QUIT, and what follows the loop up to Menu_RemoveNotifyIcon.
Quit(r) ==
  /\ Go(r, "loop", "icon")
  /\ UNCHANGED <<request, receiver, checker, served, registryVars>>

Thread_Close(r) ==
  /\ Go(r, "icon", "threads")
  /\ checker' = [checker EXCEPT ![r] = "closed"]
  /\ UNCHANGED <<request, receiver, served, registryVars>>

Return(r) ==
  /\ Go(r, "threads", "gone")
  /\ UNCHANGED <<request, receiver, checker, served, registryVars>>

Killed(r) ==
  /\ at[r] \notin {"off", "gone"}
  /\ at' = [at EXCEPT ![r] = "gone"]
  /\ UNCHANGED <<request, receiver, checker, served, registryVars>>

-------------------------------------------------------------------------------

\* What a run does on its own from its start to the message loop, and from
\* the end of the loop on.
Goes(r) ==
  \/ FindWindow(r) \/ Delivered(r) \/ NotDelivered(r)
  \/ Main_VersionCheck(r) \/ Main_DeleteRegistryVer0(r) \/ Main_DeleteRegistryVer1(r)
  \/ StampVersion(r) \/ Thread_Init(r) \/ WatchOwn(r) \/ CreateMainWindow(r)
  \/ EnterLoop(r) \/ Thread_Close(r) \/ Return(r)

StartNext == \E r \in Run : Started(r) \/ Goes(r) \/ Quit(r) \/ Killed(r)

StartFairness == \A r \in Run : WF_startVars(Goes(r))

StartSpec == StartInit /\ [][StartNext]_startVars /\ StartFairness

-------------------------------------------------------------------------------
(* Properties.                                                              *)

\* A request, the run's own or one handed over, reaches a runtime checker that
\* is set up and not closed, though messages are handled before the loop begins
\* and after it has ended (main.cpp:408-430, 524-533).
ServedWhileWatching ==
  [][\A r \in Run : served'[r] # served[r] /\ served'[r] \in Run =>
       checker[served'[r]] \in {"ready", "failed"}]_startVars

\* The registry never says version 2 while a subkey of version 0 is left,
\* though runs migrate side by side and may be killed at any step
\* (main.cpp:28-31, 59).
CleanIsStamped == version > 1 => oldKeys = {}

\* A run that is started gets to its message loop or hands over and ends, if
\* every old subkey can be deleted (main.cpp:28, 381).
StartsOrHandsOver ==
  \A r \in Run : at[r] = "find" /\ stuck = {} ~> at[r] \in {"loop", "gone"}

-------------------------------------------------------------------------------
(* What the code does not hold.                                             *)

\* The same with a subkey that cannot be deleted.
AlwaysStarts == \A r \in Run : at[r] = "find" ~> at[r] \in {"loop", "gone"}

\* "Duplicate Prevent" (main.cpp:378).
OneWindow == \A q, r \in Run : HasWindow(q) /\ HasWindow(r) => q = r

\* A request is served: the run it is sent to may be past its message loop.
NoneIsLost == \A r \in Run : served[r] # "lost"

\* The value under Run is gone with version 1 (main.cpp:37).
NoRunValue == version > 1 => ~runValue
=============================================================================
