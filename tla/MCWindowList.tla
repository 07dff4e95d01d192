--------------------------- MODULE MCWindowList ---------------------------
(* WindowProperty and one other program with two windows.  With one digit in *)
(* pidhwnd the handle 71 is read back as that of the other window, 7.        *)
EXTENDS WindowList
CONSTANTS own, app

MCHandles == {4, 7, 71}
MCProcesses == <<own, app>>
MCProcessOf == [h \in {4, 7, 71} |-> IF h = 4 THEN own ELSE app]
=============================================================================
