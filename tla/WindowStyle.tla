----------------------------- MODULE WindowStyle -----------------------------
(***************************************************************************)
(* The property dialog, the filter dialog, the opacity and the full-screen *)
(* button (dlgfunction.cpp, process.cpp, main.cpp).                        *)
(*                                                                         *)
(* Both dialogs are one dialog box with one window procedure: they share   *)
(* p_dlgType and p_currentProp.  They disable the main window, but not the *)
(* tray menu, which can put another dialog or an error box on top.  Such   *)
(* a box runs a message loop of its own: a dialog below it can be ended    *)
(* and enables the main window again, but does not return before the box.  *)
(*                                                                         *)
(* A bit is named by the id of its check box: 400 + i for bit i of the     *)
(* style and 450 + i for bit i of the extended style.                      *)
(***************************************************************************)
EXTENDS Integers, Sequences

CONSTANTS Window,     \* windows of other programs
          NoWindow,
          Bit,        \* bits of their styles
          Boxed,      \* bits that have a box in the dialog
          Typed,      \* numbers typed as the opacity
          MaxDialogs  \* bound: dialogs and boxes open at one time

LAYERED == 469                                        \* ID_BUTTON_EXSTL_LYD
POPUPWINDOW == 432   OVERLAPPED == 433   CAPTION == 434
EX_PALETTE == 482    EX_OVERLAPPED == 483
Composite == {POPUPWINDOW, OVERLAPPED, CAPTION, EX_PALETTE, EX_OVERLAPPED}

ASSUME WindowAssumption == NoWindow \notin Window
ASSUME BitAssumption ==
  /\ Boxed \subseteq Bit /\ Bit \subseteq (400 .. 431) \cup (450 .. 481)
  /\ Boxed \cap {422, 423} # {} /\ LAYERED \in Boxed
  /\ 457 \in Boxed => Boxed \cap {453, 458} # {}
ASSUME BoundsAssumption == Typed \subseteq Nat /\ MaxDialogs \in Nat

VARIABLES
  alive,            \* the windows that are open
  style,            \* the bits of each window
  alpha,            \* what SetLayeredWindowAttributes was told, or Opaque
  p_currentProp, u_filter, p_dlgType,
  dialogs,          \* dialogs and boxes that have not returned, the newest first
  asked             \* history: the percentage a window has been given

targets == <<alive, style, alpha, asked>>
globals == <<p_currentProp, u_filter, p_dlgType>>
vars == <<targets, globals, dialogs>>

UNCHECKED == 0   CHECKED == 1   INDETERMINATE == 2
State == {UNCHECKED, CHECKED, INDETERMINATE}
Box == Boxed \cup Composite
Opaque == -1
Unasked == -1
Filter == [include : SUBSET Bit, exclude : SUBSET Bit]

\* chosen: the bits whose boxes were checked when a property dialog was
\* confirmed; alone: no other property dialog has opened since it did.
Open == [kind : {"prop", "filter"}, hwnd : Window \cup {NoWindow}, disables : BOOLEAN,
         result : {"open"}, alone : BOOLEAN, box : [Box -> State]]
Ended == [kind : {"prop", "filter"}, hwnd : Window \cup {NoWindow}, disables : BOOLEAN,
          result : {"confirmed", "cancelled"}, alone : BOOLEAN, chosen : SUBSET Bit]
Other == [kind : {"other"}, disables : BOOLEAN, result : {"open", "cancelled"}]

TypeOK ==
  /\ alive \subseteq Window
  /\ style \in [Window -> SUBSET Bit]
  /\ alpha \in [Window -> (0 .. 255) \cup {Opaque}]
  /\ p_currentProp \in SUBSET Bit
  /\ u_filter \in Filter
  /\ p_dlgType \in {"none", "prop", "filter"}
  /\ dialogs \in Seq(Open \cup Ended \cup Other)
  /\ asked \in [Window -> (0 .. 100) \cup {Unasked}]

-------------------------------------------------------------------------------
(* The boxes.                                                               *)

(* DlgFunction_CheckButtonState: the state the boxes have in common. *)
CheckButtonState(box, ids) ==
  IF \E b \in ids : \A c \in ids : box[c] = box[b]
  THEN box[CHOOSE b \in ids : TRUE] ELSE UNCHECKED

\* The bits a composite box sets when it is clicked.
Sets(c) == Boxed \cap
  CASE c = POPUPWINDOW   -> {419, 423, 431}
    [] c = CAPTION       -> {422, 423}
    [] c = OVERLAPPED    -> {416, 417, 418, 419, 422, 423}
    [] c = EX_PALETTE    -> {453, 457, 458}
    [] c = EX_OVERLAPPED -> {458, 459}

\* OVERLAPPED looks at the CAPTION box in the place of its bits.
Reads(c) == IF c = OVERLAPPED THEN (Sets(c) \ {422, 423}) \cup {CAPTION} ELSE Sets(c)

\* Mutant: every composite box is computed from the boxes as they were.
ShowCompositesAtOnce(box) ==
  [c \in Box |-> IF c \in Composite THEN CheckButtonState(box, Reads(c)) ELSE box[c]]

\* The composite boxes one after the other, OVERLAPPED after CAPTION.
ShowComposites(box) ==
  LET caption == [box EXCEPT ![CAPTION] = CheckButtonState(box, Reads(CAPTION))]
  IN  [c \in Box |-> IF c \in Composite THEN CheckButtonState(caption, Reads(c)) ELSE box[c]]

\* DlgFunction_PropInit; the filter dialog passes the bits to exclude as well.
PropInit(include, exclude) ==
  ShowComposites([b \in Box |-> IF b \in exclude THEN INDETERMINATE
                                ELSE IF b \in include THEN CHECKED ELSE UNCHECKED])

\* BS_AUTOCHECKBOX and, in the filter dialog, BS_AUTO3STATE.
Clicked(kind, state) == (state + 1) % (IF kind = "filter" THEN 3 ELSE 2)

\* The boxes whose click calls DlgFunction_PropButtonState.
Related == Composite \cup UNION {Sets(c) : c \in Composite}

PropButtonState(box, c, state) ==
  LET follows == IF c \in Composite THEN {c} \cup Sets(c) ELSE {c}
      clicked == [b \in Box |-> IF b \in follows THEN state ELSE box[b]]
  IN  IF c \in Related THEN ShowComposites(clicked) ELSE clicked

Bits(box, state) == {b \in Boxed : box[b] = state}

-------------------------------------------------------------------------------
(* The opacity.                                                             *)

\* Process_WindowOpacityChange takes percent / 100.0 * 255.0 to a BYTE ...
ToAlpha(percent) == ((percent * 255) \div 100) % 256

\* ... and LVN_ITEMCHANGED rounds alpha / 255.0 * 100.0 up.
ToPercent(a) == IF a = Opaque THEN 100 ELSE (a * 100 + 254) \div 255

\* Mutant: the edit control keeps what is typed.
LimitNone(n) == n

\* EN_UPDATE: a number that is no int counts as 0.
Limit(n) == IF n \div 2 ^ 16 >= 2 ^ 15 THEN 0 ELSE IF n > 100 THEN 100 ELSE n

MainEnabled ==
  \A i \in DOMAIN dialogs : dialogs[i].disables => dialogs[i].result # "open"

\* The new bits of a window.  Without WS_EX_LAYERED the opacity is lost.
Restyle(h, bits) ==
  /\ style' = [style EXCEPT ![h] = bits]
  /\ alpha' = IF LAYERED \in bits THEN alpha ELSE [alpha EXCEPT ![h] = Opaque]
  /\ asked' = IF LAYERED \in bits THEN asked ELSE [asked EXCEPT ![h] = Unasked]

\* The edit control shows the opacity of the selected window until the user
\* types another one: any number can have been typed when the button is clicked.
Process_WindowOpacityChange(h, n) ==
  /\ MainEnabled /\ h \in alive
  /\ style' = [style EXCEPT ![h] = @ \cup {LAYERED}]
  /\ alpha' = [alpha EXCEPT ![h] = ToAlpha(Limit(n))]
  /\ asked' = [asked EXCEPT ![h] = Limit(n)]
  /\ UNCHANGED <<alive, globals, dialogs>>

\* ShowWindow restores a minimized window, to its maximized state or not.
Process_WindowFullScreenChange(h) ==
  /\ MainEnabled /\ h \in alive
  /\ \E maximized \in SUBSET ({424} \cap Bit) :
       Restyle(h, (style[h] \ {422, 423, 418, 417, 416, 419, 424, 429})
                  \cup ({428, 431} \cap Bit) \cup maximized)
  /\ UNCHANGED <<alive, globals, dialogs>>

-------------------------------------------------------------------------------
(* The dialogs.                                                             *)

\* A property dialog opens over those that have not returned.
NotAlone(ds) == [i \in DOMAIN ds |->
  IF ds[i].kind = "prop" THEN [ds[i] EXCEPT !.alone = FALSE] ELSE ds[i]]

Process_WindowPropChange(h) ==
  /\ MainEnabled /\ h \in alive /\ Len(dialogs) < MaxDialogs
  /\ p_currentProp' = style[h] /\ p_dlgType' = "prop"
  /\ dialogs' = <<[kind |-> "prop", hwnd |-> h, disables |-> TRUE, result |-> "open",
                   box |-> PropInit(style[h], {}), alone |-> TRUE]>> \o NotAlone(dialogs)
  /\ UNCHANGED <<targets, u_filter>>

FilterDialog ==
  [kind |-> "filter", hwnd |-> NoWindow, disables |-> TRUE, result |-> "open",
   box |-> PropInit(u_filter.include, u_filter.exclude), alone |-> TRUE]

\* Mutant: the tray menu opens the filter dialog.
ChangeFilterFromTray ==
  /\ Len(dialogs) < MaxDialogs
  /\ p_dlgType' = "filter"
  /\ dialogs' = <<FilterDialog>> \o dialogs
  /\ UNCHANGED <<targets, p_currentProp, u_filter>>

Process_ChangeFilter ==
  /\ MainEnabled /\ Len(dialogs) < MaxDialogs
  /\ p_dlgType' = "filter"
  /\ dialogs' = <<FilterDialog>> \o dialogs
  /\ UNCHANGED <<targets, p_currentProp, u_filter>>

\* A dialog or an error box that the tray menu brings up.
OpenOther ==
  /\ Len(dialogs) < MaxDialogs
  /\ dialogs' = <<[kind |-> "other", disables |-> MainEnabled, result |-> "open"]>> \o dialogs
  /\ UNCHANGED <<targets, globals>>

Editable(i) == dialogs[i].kind # "other" /\ dialogs[i].result = "open"

Click(i, c) ==
  /\ Editable(i)
  /\ LET box == dialogs[i].box IN
     dialogs' = [dialogs EXCEPT ![i].box =
                   PropButtonState(box, c, Clicked(dialogs[i].kind, box[c]))]
  /\ UNCHANGED <<targets, globals>>

\* WS_VISIBLE is checked, WS_EX_TOOLWINDOW, WS_EX_NOREDIRECTIONBITMAP and
\* WS_EX_NOACTIVATE are excluded; the button is hidden in a property dialog.
ResetFilter(i) ==
  /\ Editable(i) /\ dialogs[i].kind = "filter"
  /\ dialogs' = [dialogs EXCEPT ![i].box =
       [b \in Box |-> IF b = 428 THEN CHECKED
                      ELSE IF b \in {457, 471, 477} THEN INDETERMINATE ELSE UNCHECKED]]
  /\ UNCHANGED <<targets, globals>>

\* EndDialog: the dialog is hidden, and nothing reads its boxes any more.
End(i, result, chosen) ==
  LET d == dialogs[i] IN
  dialogs' = [dialogs EXCEPT ![i] =
    [kind |-> d.kind, hwnd |-> d.hwnd, disables |-> d.disables, result |-> result,
     alone |-> d.alone, chosen |-> chosen]]

\* What is confirmed depends on p_dlgType, not on the dialog.
Confirm(i) ==
  /\ Editable(i)
  /\ LET box == dialogs[i].box IN
       \/ /\ p_dlgType = "prop"
          /\ p_currentProp' = Bits(box, CHECKED) /\ UNCHANGED u_filter
          /\ End(i, "confirmed", Bits(box, CHECKED))
       \/ /\ p_dlgType = "filter"
          /\ u_filter' = [include |-> Bits(box, CHECKED), exclude |-> Bits(box, INDETERMINATE)]
          /\ UNCHANGED p_currentProp
          /\ End(i, "confirmed", {})
  /\ UNCHANGED <<targets, p_dlgType>>

Cancel(i) ==
  /\ Editable(i)
  /\ End(i, "cancelled", {})
  /\ UNCHANGED <<targets, globals>>

CloseOther(i) ==
  /\ dialogs[i].kind = "other" /\ dialogs[i].result = "open"
  /\ dialogs' = [dialogs EXCEPT ![i].result = "cancelled"]
  /\ UNCHANGED <<targets, globals>>

Returns(kind) ==
  /\ dialogs # <<>> /\ dialogs[1].kind = kind /\ dialogs[1].result # "open"
  /\ dialogs' = Tail(dialogs)

\* Mutant: a cancelled dialog gives the window its bits back.
PropReturnsAnyway ==
  /\ Returns("prop")
  /\ IF dialogs[1].hwnd \in alive
     THEN Restyle(dialogs[1].hwnd, p_currentProp)
     ELSE UNCHANGED <<style, alpha, asked>>
  /\ UNCHANGED <<alive, globals>>

\* The rest of Process_WindowPropChange, after DialogBoxParam.
PropReturns ==
  /\ Returns("prop")
  /\ IF dialogs[1].result = "confirmed" /\ dialogs[1].hwnd \in alive
     THEN Restyle(dialogs[1].hwnd, p_currentProp)
     ELSE UNCHANGED <<style, alpha, asked>>
  /\ UNCHANGED <<alive, globals>>

FilterReturns ==
  /\ Returns("filter")
  /\ UNCHANGED <<targets, globals>>

OtherReturns ==
  /\ Returns("other")
  /\ UNCHANGED <<targets, globals>>

-------------------------------------------------------------------------------
(* The windows.                                                             *)

WindowChanges(h, b) ==
  /\ h \in alive
  /\ Restyle(h, IF b \in style[h] THEN style[h] \ {b} ELSE style[h] \cup {b})
  /\ UNCHANGED <<alive, globals, dialogs>>

WindowCloses(h) ==
  /\ h \in alive
  /\ alive' = alive \ {h}
  /\ UNCHANGED <<style, alpha, asked, globals, dialogs>>

-------------------------------------------------------------------------------

Init ==
  /\ alive = Window /\ style \in [Window -> SUBSET Bit]
  /\ alpha = [h \in Window |-> Opaque] /\ asked = [h \in Window |-> Unasked]
  /\ p_currentProp = {} /\ p_dlgType = "none"
  /\ u_filter = [include |-> {428} \cap Bit, exclude |-> {457, 471, 477} \cap Bit]
  /\ dialogs = <<>>

Main ==
  \/ \E h \in Window :
       \/ Process_WindowPropChange(h) \/ Process_WindowFullScreenChange(h)
       \/ \E n \in Typed : Process_WindowOpacityChange(h, n)
  \/ Process_ChangeFilter

Dialogs ==
  \/ OpenOther
  \/ \E i \in DOMAIN dialogs :
       \/ \E c \in Box : Click(i, c)
       \/ ResetFilter(i) \/ Confirm(i) \/ Cancel(i) \/ CloseOther(i)
  \/ PropReturns \/ FilterReturns \/ OtherReturns

Windows == \E h \in Window : WindowCloses(h) \/ \E b \in Bit : WindowChanges(h, b)

Next == Main \/ Dialogs \/ Windows

Spec == Init /\ [][Next]_vars

-------------------------------------------------------------------------------
(* Properties.                                                              *)

\* The bits a composite box names, in the text of the dialog.
Flat(c) == Sets(c)

\* In an open dialog every composite box shows the state its bits have in
\* common, whatever was clicked before: also OVERLAPPEDWINDOW, which is
\* computed from another composite box (dlgfunction.cpp:192-196).
CompositesAgree ==
  \A i \in DOMAIN dialogs : Editable(i) =>
    \A c \in Composite :
      dialogs[i].box[c] = CheckButtonState(dialogs[i].box, Flat(c))

\* The filter is changed by nothing but the confirmation of the filter dialog,
\* and then to what its boxes show, though the property dialog has the same
\* procedure, and what it confirms depends on a global (process.cpp:121-130).
FilterIsChosen ==
  [][u_filter' # u_filter =>
       \E i \in DOMAIN dialogs :
         /\ Editable(i) /\ dialogs[i].kind = "filter" /\ dialogs'[i].result = "confirmed"
         /\ u_filter' = [include |-> Bits(dialogs[i].box, CHECKED),
                         exclude |-> Bits(dialogs[i].box, INDETERMINATE)]]_vars

\* When a property dialog returns, its window gets the bits its boxes show if
\* it was confirmed, and nothing if it was cancelled, unless another property
\* dialog opened before it returned (process.cpp:314-324).
StyleIsChosen ==
  [][PropReturns /\ dialogs[1].alone =>
       LET d == dialogs[1] IN
       style' = IF d.result = "confirmed" /\ d.hwnd \in alive
                THEN [style EXCEPT ![d.hwnd] = d.chosen] ELSE style]_vars

\* A window that was given an opacity, and has kept WS_EX_LAYERED since, is
\* shown with that opacity when it is selected (process.cpp:349, main.cpp:144).
OpacityShown == \A h \in Window : asked[h] # Unasked => ToPercent(alpha[h]) = asked[h]

-------------------------------------------------------------------------------
(* What the code does not hold.                                             *)

\* A confirmed dialog applies its own boxes ("Set Window Properties",
\* process.cpp:316): a second property dialog, opened while the first is ended
\* below a box, leaves its bits in p_currentProp.
AppliesItsOwn ==
  [][PropReturns /\ dialogs[1].result = "confirmed" /\ dialogs[1].hwnd \in alive
       => style'[dialogs[1].hwnd] = dialogs[1].chosen]_vars

\* A confirmed dialog changes no bit that has no box ("Set Window Properties",
\* process.cpp:316): the style is made of the boxes alone (dlgfunction.cpp:63).
ChangesNothingElse ==
  [][PropReturns /\ dialogs[1].alone =>
       \A h \in Window : style'[h] \ Boxed = style[h] \ Boxed]_vars
===============================================================================
