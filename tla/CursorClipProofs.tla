-------------------------- MODULE CursorClipProofs --------------------------
(***************************************************************************)
(* A confined cursor always has a thread that will set it free: proved for *)
(* any number of windows and of threads running at one time, unless the    *)
(* last CreateThread failed.                                               *)
(***************************************************************************)
EXTENDS CursorClip, TLAPS

\* The variables keep their types: a thread is where ClipCheck can be, and
\* areas are windows or the whole screen.
LEMMA Typing == Init /\ [][Next]_vars => []TypeOK
<1> USE DEF TypeOK, Area
<1>1. Init => TypeOK
  BY DEF Init
<1>2. TypeOK /\ [Next]_vars => TypeOK'
  <2> SUFFICES ASSUME TypeOK, [Next]_vars PROVE TypeOK'
    OBVIOUS
  <2>1. CASE Hook_ClipCursor
    BY <2>1 DEF Hook_ClipCursor, RectOf, threadVars, desktopVars
  <2>2. CASE Assign
    BY <2>2 DEF Assign, CreateClipCheck, AssignHook, threadVars, desktopVars
  <2>3. CASE CreationFails
    BY <2>3 DEF CreationFails, threadVars, desktopVars
  <2>4. CASE ClipOff
    BY <2>4 DEF ClipOff, threadVars, desktopVars
  <2>5. ASSUME NEW t \in Thread, ClipCheck(t) PROVE TypeOK'
    BY <2>5 DEF ClipCheck, TestHook, ReadRect, Clip, Free, uiVars, desktopVars
  <2>6. CASE Desktop
    BY <2>6 DEF Desktop, Activate, CloseWindow, OtherFrees, uiVars, threadVars,
                desktopVars
  <2>7. CASE UNCHANGED vars
    BY <2>7 DEF vars, uiVars, threadVars, desktopVars
  <2>8. QED
    BY <2>1, <2>2, <2>3, <2>4, <2>5, <2>6, <2>7 DEF Next
<1>3. QED
  BY <1>1, <1>2, PTL

\* Whoever confines the cursor (Hook_ClipCursor before it creates the thread,
\* or a ClipCheck in its loop) is followed by a thread that calls
\* ClipCursor(nullptr), in every order of old and new threads.
THEOREM ClipOwned == Spec => []ClipHasOwner
<1> USE DEF ClipHasOwner, Owned, Alive
<1>1. Init => ClipHasOwner
  BY DEF Init
<1>2. TypeOK /\ ClipHasOwner /\ [Next]_vars => ClipHasOwner'
  <2> SUFFICES ASSUME TypeOK, ClipHasOwner, [Next]_vars PROVE ClipHasOwner'
    OBVIOUS
  <2>1. CASE Hook_ClipCursor
    BY <2>1 DEF Hook_ClipCursor
  <2>2. CASE CreateClipCheck
    <3>1. PICK t \in Thread : tpc' = [tpc EXCEPT ![t] = "test"]
      BY <2>2 DEF CreateClipCheck
    <3>2. tpc'[t] = "test"
      BY <3>1 DEF TypeOK
    <3>3. QED
      BY <3>2
  <2>3. CASE AssignHook
    BY <2>3 DEF AssignHook, threadVars
  <2>4. CASE CreationFails
    BY <2>4 DEF CreationFails
  <2>5. CASE ClipOff
    BY <2>5 DEF ClipOff, threadVars
  <2>6. ASSUME NEW t \in Thread, TestHook(t) \/ ReadRect(t) \/ Clip(t)
        PROVE  ClipHasOwner'
    <3>1. tpc'[t] # "none"
      BY <2>6 DEF TestHook, ReadRect, Clip, TypeOK
    <3>2. QED
      BY <3>1
  <2>7. ASSUME NEW t \in Thread, Free(t) PROVE ClipHasOwner'
    BY <2>7 DEF Free
  <2>8. CASE Desktop
    BY <2>8 DEF Desktop, Activate, CloseWindow, OtherFrees, uiVars, threadVars
  <2>9. CASE UNCHANGED vars
    BY <2>9 DEF vars, uiVars, threadVars
  <2>10. QED
    BY <2>1, <2>2, <2>3, <2>4, <2>5, <2>6, <2>7, <2>8, <2>9
       DEF Next, Assign, ClipCheck
<1>3. QED
  BY <1>1, <1>2, Typing, PTL DEF Spec
=============================================================================
