----------------------------- MODULE DialogProofs -----------------------------
(***************************************************************************)
(* What the dialogs show and what they apply: proved for every style and   *)
(* every set of boxes, any number of windows, of dialogs below each other  *)
(* and of threads, and for all times.                                      *)
(***************************************************************************)
EXTENDS WindowStyle, PropTime, TLAPS

Agree(box) == \A c \in Composite : box[c] = CheckButtonState(box, Flat(c))

LEMMA BoxesDiffer ==
  /\ Boxed \cap Composite = {} /\ CAPTION \in Composite /\ OVERLAPPED \in Composite
  /\ CAPTION # OVERLAPPED
BY BitAssumption DEF Composite, POPUPWINDOW, OVERLAPPED, CAPTION, EX_PALETTE, EX_OVERLAPPED

\* A composite box stands for boxes of bits, and all but OVERLAPPED read these.
LEMMA WhatTheyStandFor ==
  /\ \A c \in Composite : Sets(c) \subseteq Boxed
  /\ Sets(CAPTION) = Boxed \cap {422, 423} /\ Sets(CAPTION) # {}
  /\ Sets(OVERLAPPED) = Boxed \cap {416, 417, 418, 419, 422, 423}
  /\ \A c \in Composite \ {OVERLAPPED} : Reads(c) = Sets(c)
  /\ Reads(OVERLAPPED) = (Sets(OVERLAPPED) \ Sets(CAPTION)) \cup {CAPTION}
<1>1. \A c \in Composite : Sets(c) \subseteq Boxed
  BY DEF Sets
<1>2. Sets(CAPTION) = Boxed \cap {422, 423}
  BY DEF Sets, POPUPWINDOW, OVERLAPPED, CAPTION, EX_PALETTE, EX_OVERLAPPED
<1>3. Sets(OVERLAPPED) = Boxed \cap {416, 417, 418, 419, 422, 423}
  BY DEF Sets, POPUPWINDOW, OVERLAPPED, CAPTION, EX_PALETTE, EX_OVERLAPPED
<1>4. \A c \in Composite \ {OVERLAPPED} : Reads(c) = Sets(c)
  BY DEF Reads
<1>5. Reads(OVERLAPPED) = (Sets(OVERLAPPED) \ {422, 423}) \cup {CAPTION}
  BY DEF Reads
<1>6. Sets(OVERLAPPED) \ {422, 423} = Sets(OVERLAPPED) \ Sets(CAPTION)
  BY <1>2, <1>3
<1>7. QED
  BY <1>1, <1>2, <1>3, <1>4, <1>5, <1>6, BitAssumption

\* The state boxes have in common depends on no other box.
LEMMA InCommon ==
  ASSUME NEW a, NEW b, NEW ids, \A x \in ids : a[x] = b[x]
  PROVE  CheckButtonState(a, ids) = CheckButtonState(b, ids)
<1>1. ids # {} => (CHOOSE x \in ids : TRUE) \in ids
  OBVIOUS
<1>2. (\E x \in ids : \A y \in ids : a[y] = a[x]) <=> (\E x \in ids : \A y \in ids : b[y] = b[x])
  OBVIOUS
<1>3. QED
  BY <1>1, <1>2 DEF CheckButtonState

\* It is v when all have v, and unchecked when they differ.
LEMMA CommonState ==
  ASSUME NEW box, NEW ids, NEW x \in ids
  PROVE  CheckButtonState(box, ids) =
           IF \A y \in ids : box[y] = box[x] THEN box[x] ELSE UNCHECKED
<1>1. (CHOOSE y \in ids : TRUE) \in ids
  OBVIOUS
<1>2. CASE \A y \in ids : box[y] = box[x]
  <2>1. \E b \in ids : \A c \in ids : box[c] = box[b]
    BY <1>2
  <2>2. box[CHOOSE y \in ids : TRUE] = box[x]
    BY <1>1, <1>2
  <2>3. QED
    BY <1>2, <2>1, <2>2 DEF CheckButtonState
<1>3. CASE ~ \A y \in ids : box[y] = box[x]
  <2>1. ~ \E b \in ids : \A c \in ids : box[c] = box[b]
    BY <1>3
  <2>2. QED
    BY <1>3, <2>1 DEF CheckButtonState
<1>4. QED
  BY <1>2, <1>3

LEMMA CommonIsState ==
  ASSUME NEW box \in [Box -> State], NEW ids \in SUBSET Box
  PROVE  CheckButtonState(box, ids) \in State
<1>1. CASE ids = {}
  BY <1>1 DEF CheckButtonState, State
<1>2. CASE ids # {}
  <2>1. PICK x \in ids : TRUE
    BY <1>2
  <2>2. QED
    BY <2>1, CommonState DEF State
<1>3. QED
  BY <1>1, <1>2

\* The boxes that ShowComposites returns: it leaves those of the bits alone.
LEMMA ShowsWhatTheyRead ==
  ASSUME NEW box \in [Box -> State]
  PROVE  /\ ShowComposites(box) \in [Box -> State]
         /\ \A b \in Boxed : ShowComposites(box)[b] = box[b]
         /\ Agree(ShowComposites(box))
<1> DEFINE caption == [box EXCEPT ![CAPTION] = CheckButtonState(box, Reads(CAPTION))]
           shown == ShowComposites(box)
           big == Sets(OVERLAPPED)
<1>1. shown = [c \in Box |-> IF c \in Composite THEN CheckButtonState(caption, Reads(c))
                            ELSE box[c]]
  BY DEF ShowComposites
<1>2. CAPTION \in Box /\ OVERLAPPED \in Box /\ Boxed \subseteq Box /\ Composite \subseteq Box
  BY BoxesDiffer DEF Box
<1>3. \A c \in Composite : Sets(c) \subseteq Box /\ Reads(c) \subseteq Box
  BY <1>2, WhatTheyStandFor, BoxesDiffer
<1>4. caption \in [Box -> State] /\ caption[CAPTION] = CheckButtonState(box, Sets(CAPTION))
  BY <1>2, <1>3, CommonIsState, WhatTheyStandFor, BoxesDiffer
<1>5. \A b \in Boxed : caption[b] = box[b] /\ shown[b] = box[b]
  BY <1>1, <1>2, BoxesDiffer
<1>6. shown \in [Box -> State]
  <2> HIDE DEF caption
  <2>1. \A c \in Composite : CheckButtonState(caption, Reads(c)) \in State
    BY <1>3, <1>4, CommonIsState
  <2>2. \A c \in Box : (IF c \in Composite THEN CheckButtonState(caption, Reads(c))
                                           ELSE box[c]) \in State
    BY <2>1
  <2> HIDE DEF shown
  <2>3. QED
    BY <1>1, <2>2
<1>7. ASSUME NEW c \in Composite
      PROVE  shown[c] = CheckButtonState(shown, Sets(c))
  <2>1. shown[c] = CheckButtonState(caption, Reads(c))
    BY <1>1, <1>2
  <2>2. \A b \in Sets(c) : caption[b] = shown[b]
    BY <1>5, WhatTheyStandFor
  <2>3. CheckButtonState(caption, Sets(c)) = CheckButtonState(shown, Sets(c))
    <3> HIDE DEF caption, shown
    <3>1. QED
      BY <2>2, InCommon
  <2>4. CASE c # OVERLAPPED
    BY <2>1, <2>3, <2>4, WhatTheyStandFor
  <2>5. CASE c = OVERLAPPED
    <3>1. PICK x \in Sets(CAPTION) : TRUE
      BY WhatTheyStandFor
    <3>2. x \in big /\ Sets(CAPTION) \subseteq big
      BY <3>1, WhatTheyStandFor
    <3>3. CAPTION \in Reads(OVERLAPPED) /\ Reads(OVERLAPPED) = (big \ Sets(CAPTION)) \cup {CAPTION}
      BY WhatTheyStandFor
    <3>4. CheckButtonState(caption, Reads(OVERLAPPED)) =
            IF \A y \in Reads(OVERLAPPED) : caption[y] = caption[CAPTION]
            THEN caption[CAPTION] ELSE UNCHECKED
      BY <3>3, CommonState
    <3>5. CheckButtonState(caption, big) =
            IF \A y \in big : caption[y] = caption[x] THEN caption[x] ELSE UNCHECKED
      BY <3>2, CommonState
    <3>6. CheckButtonState(caption, Sets(CAPTION)) =
            IF \A y \in Sets(CAPTION) : caption[y] = caption[x] THEN caption[x] ELSE UNCHECKED
      BY <3>1, CommonState
    <3>7. CheckButtonState(box, Sets(CAPTION)) = CheckButtonState(caption, Sets(CAPTION))
      <4>1. \A b \in Sets(CAPTION) : box[b] = caption[b]
        BY <1>5, WhatTheyStandFor, BoxesDiffer
      <4>2. QED
        BY <4>1, InCommon
    <3>8. caption[CAPTION] = IF \A y \in Sets(CAPTION) : caption[y] = caption[x]
                             THEN caption[x] ELSE UNCHECKED
      BY <1>4, <3>6, <3>7
    <3>9. CheckButtonState(caption, Reads(OVERLAPPED)) = CheckButtonState(caption, big)
      <4>1. CASE \A y \in Sets(CAPTION) : caption[y] = caption[x]
        <5>1. (\A y \in Reads(OVERLAPPED) : caption[y] = caption[CAPTION])
                <=> (\A y \in big : caption[y] = caption[x])
          BY <4>1, <3>2, <3>3, <3>8
        <5>2. QED
          BY <4>1, <5>1, <3>4, <3>5, <3>8
      <4>2. CASE ~ \A y \in Sets(CAPTION) : caption[y] = caption[x]
        <5>1. ~ \A y \in big : caption[y] = caption[x]
          BY <4>2, <3>2
        <5>2. QED
          BY <4>2, <5>1, <3>4, <3>5, <3>8
      <4>3. QED
        BY <4>1, <4>2
    <3>10. QED
      BY <2>1, <2>3, <2>5, <3>9
  <2>6. QED
    BY <2>4, <2>5
<1>8. QED
  BY <1>5, <1>6, <1>7 DEF Agree, Flat

LEMMA InitialBoxes ==
  ASSUME NEW include \in SUBSET Bit, NEW exclude \in SUBSET Bit
  PROVE  PropInit(include, exclude) \in [Box -> State] /\ Agree(PropInit(include, exclude))
BY ShowsWhatTheyRead DEF PropInit, State

LEMMA ClickedBoxes ==
  ASSUME NEW box \in [Box -> State], Agree(box), NEW c \in Box, NEW state \in State
  PROVE  PropButtonState(box, c, state) \in [Box -> State] /\ Agree(PropButtonState(box, c, state))
<1> DEFINE follows == IF c \in Composite THEN {c} \cup Sets(c) ELSE {c}
           clicked == [b \in Box |-> IF b \in follows THEN state ELSE box[b]]
<1>1. clicked \in [Box -> State]
  OBVIOUS
<1>2. CASE c \in Related
  BY <1>1, <1>2, ShowsWhatTheyRead DEF PropButtonState
<1>3. CASE c \notin Related
  <2>1. c \notin Composite /\ \A d \in Composite : c \notin Sets(d)
    BY <1>3 DEF Related
  <2>2. PropButtonState(box, c, state) = clicked
    BY <1>3 DEF PropButtonState
  <2>3. ASSUME NEW d \in Composite
        PROVE  clicked[d] = CheckButtonState(clicked, Flat(d))
    <3>1. \A b \in Sets(d) : clicked[b] = box[b]
      BY <2>1, WhatTheyStandFor DEF Box
    <3>2. CheckButtonState(clicked, Sets(d)) = CheckButtonState(box, Sets(d))
      BY <3>1, InCommon
    <3>3. clicked[d] = box[d]
      BY <2>1 DEF Box
    <3>4. QED
      BY <3>2, <3>3 DEF Agree, Flat
  <2>4. QED
    BY <1>1, <2>2, <2>3 DEF Agree
<1>4. QED
  BY <1>2, <1>3

\* The boxes of ID_BUTTON_RESET: those that are not cleared are no bits of a
\* composite box, or not the only ones.
LEMMA ResetBoxes ==
  ASSUME NEW box, box = [b \in Box |-> IF b = 428 THEN CHECKED
                              ELSE IF b \in {457, 471, 477} THEN INDETERMINATE ELSE UNCHECKED]
  PROVE  box \in [Box -> State] /\ Agree(box)
<1>1. box \in [Box -> State]
  BY DEF State
<1>2. ASSUME NEW c \in Composite
      PROVE  box[c] = CheckButtonState(box, Sets(c))
  <2>1. box[c] = UNCHECKED
    BY DEF Composite, POPUPWINDOW, OVERLAPPED, CAPTION, EX_PALETTE, EX_OVERLAPPED, Box
  <2>2. Sets(c) \subseteq Box
    BY WhatTheyStandFor DEF Box
  <2>3. CASE \A b \in Sets(c) : b \notin {428, 457, 471, 477}
    <3>1. \A b \in Sets(c) : box[b] = UNCHECKED
      BY <2>2, <2>3
    <3>2. CheckButtonState(box, Sets(c)) = UNCHECKED
      <4>1. CASE Sets(c) = {}
        BY <4>1 DEF CheckButtonState
      <4>2. CASE Sets(c) # {}
        BY <3>1, <4>2, CommonState
      <4>3. QED
        BY <4>1, <4>2
    <3>3. QED
      BY <2>1, <3>2
  <2>4. CASE \E b \in Sets(c) : b \in {428, 457, 471, 477}
    <3>1. c = EX_PALETTE /\ 457 \in Sets(c) /\ Sets(c) = Boxed \cap {453, 457, 458}
      <4> USE DEF Sets, POPUPWINDOW, OVERLAPPED, CAPTION, EX_PALETTE, EX_OVERLAPPED
      <4>1. c # POPUPWINDOW /\ c # CAPTION
        BY <2>4
      <4>2. c # OVERLAPPED /\ c # EX_OVERLAPPED
        BY <2>4
      <4>3. c = EX_PALETTE
        BY <4>1, <4>2 DEF Composite
      <4>4. Sets(EX_PALETTE) = Boxed \cap {453, 457, 458}
        OBVIOUS
      <4>5. QED
        BY <2>4, <4>3, <4>4
    <3>2. PICK y \in Sets(c) : y \in {453, 458}
      BY <3>1, BitAssumption
    <3>3. box[y] # box[457] /\ 457 \in Sets(c)
      <4>1. y \in Box /\ 457 \in Box
        BY <2>2, <3>1
      <4>2. box[457] = INDETERMINATE /\ box[y] = UNCHECKED
        BY <4>1, <3>2
      <4>3. QED
        BY <4>2, <3>1 DEF UNCHECKED, INDETERMINATE
    <3>4. ~ \E b \in Sets(c) : \A d \in Sets(c) : box[d] = box[b]
      BY <3>3
    <3>5. CheckButtonState(box, Sets(c)) = UNCHECKED
      BY <3>4 DEF CheckButtonState
    <3>6. QED
      BY <2>1, <3>5
  <2>5. QED
    BY <2>3, <2>4
<1>3. QED
  BY <1>1, <1>2 DEF Agree, Flat

-------------------------------------------------------------------------------
(* The dialogs that are open below each other.                              *)

AnyDialog == Open \cup Ended \cup Other

\* An open dialog is the one p_dlgType speaks of, has disabled the main
\* window, and its boxes agree.
IsCurrent(d, type) ==
  d.kind # "other" /\ d.result = "open" =>
    /\ d.disables /\ d.kind = type /\ Agree(d.box)

\* Next to a property dialog that is open no other counts as the last one.
IsApart(d, e) == d.kind = "prop" /\ d.result = "open" /\ e.kind = "prop" => ~e.alone

\* The last property dialog that was confirmed left its bits in p_currentProp.
IsKept(d, props) ==
  d.kind = "prop" /\ d.result = "confirmed" /\ d.alone => d.chosen = props

StyleTypes ==
  /\ alive \subseteq Window /\ style \in [Window -> SUBSET Bit]
  /\ p_currentProp \in SUBSET Bit /\ u_filter \in Filter

DialogInv ==
  /\ StyleTypes
  /\ dialogs \in Seq(AnyDialog)
  /\ \A i \in DOMAIN dialogs : IsCurrent(dialogs[i], p_dlgType) /\ IsKept(dialogs[i], p_currentProp)
  /\ \A i, j \in DOMAIN dialogs : i # j => IsApart(dialogs[i], dialogs[j])

LEMMA OpenIsOpen ==
  ASSUME NEW d \in AnyDialog, d.kind # "other", d.result = "open"
  PROVE  d \in Open
BY DEF AnyDialog, Open, Ended, Other

LEMMA OnTop ==
  ASSUME NEW S, NEW ds \in Seq(S), NEW d \in S
  PROVE  /\ <<d>> \o ds \in Seq(S)
         /\ (<<d>> \o ds)[1] = d
         /\ \A i \in DOMAIN (<<d>> \o ds) :
              i = 1 \/ (i - 1 \in DOMAIN ds /\ (<<d>> \o ds)[i] = ds[i - 1])
OBVIOUS

LEMMA TopReturns ==
  ASSUME NEW S, NEW ds \in Seq(S), ds # <<>>
  PROVE  /\ Tail(ds) \in Seq(S)
         /\ \A i \in DOMAIN Tail(ds) : i + 1 \in DOMAIN ds /\ Tail(ds)[i] = ds[i + 1]
OBVIOUS

LEMMA OneChanges ==
  ASSUME NEW S, NEW ds \in Seq(S), NEW i \in DOMAIN ds, NEW d \in S
  PROVE  /\ [ds EXCEPT ![i] = d] \in Seq(S)
         /\ DOMAIN [ds EXCEPT ![i] = d] = DOMAIN ds
         /\ [ds EXCEPT ![i] = d][i] = d
         /\ \A j \in DOMAIN ds : j # i => [ds EXCEPT ![i] = d][j] = ds[j]
OBVIOUS

\* While the main window is enabled no dialog is open.
LEMMA NoneOpen ==
  ASSUME DialogInv, MainEnabled, NEW i \in DOMAIN dialogs, dialogs[i].kind # "other"
  PROVE  dialogs[i].result # "open"
BY DEF DialogInv, MainEnabled, IsCurrent

\* A step that leaves p_dlgType and p_currentProp alone and puts a dialog or
\* box d at place i keeps the invariant if d does.
LEMMA ChangedDialog ==
  ASSUME DialogInv, StyleTypes', NEW i \in DOMAIN dialogs, NEW d \in AnyDialog,
         dialogs' = [dialogs EXCEPT ![i] = d], UNCHANGED <<p_dlgType, p_currentProp>>,
         IsCurrent(d, p_dlgType), IsKept(d, p_currentProp),
         \A j \in DOMAIN dialogs : j # i => IsApart(d, dialogs[j]) /\ IsApart(dialogs[j], d)
  PROVE  DialogInv'
<1>1. /\ dialogs' \in Seq(AnyDialog) /\ DOMAIN dialogs' = DOMAIN dialogs
      /\ dialogs'[i] = d /\ \A j \in DOMAIN dialogs : j # i => dialogs'[j] = dialogs[j]
  BY OneChanges DEF DialogInv
<1>2. \A j \in DOMAIN dialogs' : IsCurrent(dialogs'[j], p_dlgType') /\ IsKept(dialogs'[j], p_currentProp')
  BY <1>1 DEF DialogInv, IsCurrent, IsKept, Agree
<1>3. \A j, k \in DOMAIN dialogs' : j # k => IsApart(dialogs'[j], dialogs'[k])
  BY <1>1 DEF DialogInv, IsApart
<1>4. QED
  BY <1>1, <1>2, <1>3 DEF DialogInv

\* A step that puts d on top of the dialogs ds keeps it under the same conditions.
LEMMA NewDialog ==
  ASSUME StyleTypes', NEW d \in AnyDialog, NEW ds \in Seq(AnyDialog), dialogs' = <<d>> \o ds,
         IsCurrent(d, p_dlgType'), IsKept(d, p_currentProp'),
         \A i \in DOMAIN ds : /\ IsCurrent(ds[i], p_dlgType') /\ IsKept(ds[i], p_currentProp')
                              /\ IsApart(d, ds[i]) /\ IsApart(ds[i], d),
         \A i, j \in DOMAIN ds : i # j => IsApart(ds[i], ds[j])
  PROVE  DialogInv'
<1>1. /\ dialogs' \in Seq(AnyDialog) /\ dialogs'[1] = d
      /\ \A i \in DOMAIN dialogs' :
           i = 1 \/ (i - 1 \in DOMAIN ds /\ dialogs'[i] = ds[i - 1])
  BY OnTop
<1>2. ASSUME NEW i \in DOMAIN dialogs'
      PROVE  IsCurrent(dialogs'[i], p_dlgType') /\ IsKept(dialogs'[i], p_currentProp')
  BY <1>1 DEF IsCurrent, IsKept, Agree
<1>3. ASSUME NEW i \in DOMAIN dialogs', NEW j \in DOMAIN dialogs', i # j
      PROVE  IsApart(dialogs'[i], dialogs'[j])
  <2>1. i \in Int /\ j \in Int
    BY <1>1
  <2>2. CASE i = 1
    BY <1>1, <1>3, <2>1, <2>2 DEF IsApart
  <2>3. CASE j = 1
    BY <1>1, <1>3, <2>1, <2>3 DEF IsApart
  <2>4. CASE i # 1 /\ j # 1
    <3>1. i - 1 # j - 1 /\ i - 1 \in DOMAIN ds /\ j - 1 \in DOMAIN ds
      BY <1>1, <1>3, <2>1, <2>4
    <3>2. IsApart(ds[i - 1], ds[j - 1])
      BY <3>1
    <3>3. QED
      BY <1>1, <2>4, <3>2 DEF IsApart
  <2>5. QED
    BY <2>2, <2>3, <2>4
<1>4. QED
  BY <1>1, <1>2, <1>3 DEF DialogInv

LEMMA PropOpens ==
  ASSUME DialogInv, NEW h \in Window, Process_WindowPropChange(h)
  PROVE  DialogInv'
<1> DEFINE d == [kind |-> "prop", hwnd |-> h, disables |-> TRUE, result |-> "open",
                 box |-> PropInit(style[h], {}), alone |-> TRUE]
           ds == NotAlone(dialogs)
<1>1. style[h] \in SUBSET Bit /\ {} \in SUBSET Bit
  BY DEF DialogInv, StyleTypes
<1>2. PropInit(style[h], {}) \in [Box -> State] /\ Agree(PropInit(style[h], {}))
  BY <1>1, InitialBoxes
<1>3. d \in AnyDialog
  BY <1>2 DEF AnyDialog, Open
<1>4. \A e \in AnyDialog : e.kind = "prop" => [e EXCEPT !.alone = FALSE] \in AnyDialog
  BY DEF AnyDialog, Open, Ended, Other
<1>5. ds \in Seq(AnyDialog) /\ DOMAIN ds = DOMAIN dialogs
  BY <1>4 DEF NotAlone, DialogInv
<1>6. \A e \in AnyDialog : e.kind = "prop" =>
        LET f == [e EXCEPT !.alone = FALSE] IN
        f.kind = "prop" /\ f.result = e.result /\ f.alone = FALSE
  BY DEF AnyDialog, Open, Ended, Other
<1>7. ASSUME NEW i \in DOMAIN ds
      PROVE  /\ ds[i].kind = dialogs[i].kind
             /\ ds[i].kind # "other" => ds[i].result # "open"
             /\ ds[i].kind = "prop" => ds[i].alone = FALSE
  <2>1. dialogs[i] \in AnyDialog /\ i \in DOMAIN dialogs
    BY <1>5 DEF DialogInv
  <2>2. dialogs[i].kind # "other" => dialogs[i].result # "open"
    BY <2>1, NoneOpen DEF Process_WindowPropChange
  <2>3. CASE dialogs[i].kind = "prop"
    <3>1. ds[i] = [dialogs[i] EXCEPT !.alone = FALSE]
      BY <2>1, <2>3 DEF NotAlone
    <3>2. QED
      BY <1>6, <2>1, <2>2, <2>3, <3>1
  <2>4. CASE dialogs[i].kind # "prop"
    BY <2>1, <2>2, <2>4 DEF NotAlone
  <2>5. QED
    BY <2>3, <2>4
<1>8. dialogs' = <<d>> \o ds /\ p_dlgType' = "prop" /\ p_currentProp' = style[h]
  BY DEF Process_WindowPropChange
<1>9. StyleTypes'
  BY <1>1, <1>8 DEF Process_WindowPropChange, targets, DialogInv, StyleTypes
<1>10. IsCurrent(d, p_dlgType') /\ IsKept(d, p_currentProp')
  BY <1>2, <1>8 DEF IsCurrent, IsKept, Agree
<1>11. ASSUME NEW i \in DOMAIN ds
       PROVE  IsCurrent(ds[i], p_dlgType') /\ IsKept(ds[i], p_currentProp') /\ IsApart(d, ds[i]) /\ IsApart(ds[i], d)
  <2> HIDE DEF ds
  <2>1. QED
    BY <1>7 DEF IsCurrent, IsKept, IsApart
<1>12. \A i, j \in DOMAIN ds : i # j => IsApart(ds[i], ds[j])
  <2> HIDE DEF ds
  <2>1. QED
    BY <1>7 DEF IsApart
<1>13. QED
  <2> HIDE DEF ds, d
  <2>1. QED
    BY <1>3, <1>5, <1>8, <1>9, <1>10, <1>11, <1>12, NewDialog

LEMMA FilterOpens ==
  ASSUME DialogInv, Process_ChangeFilter
  PROVE  DialogInv'
<1>1. PropInit(u_filter.include, u_filter.exclude) \in [Box -> State]
        /\ Agree(PropInit(u_filter.include, u_filter.exclude))
  <2>1. u_filter.include \in SUBSET Bit /\ u_filter.exclude \in SUBSET Bit
    BY DEF DialogInv, StyleTypes, Filter
  <2>2. QED
    BY <2>1, InitialBoxes
<1>2. FilterDialog \in AnyDialog
  BY <1>1 DEF FilterDialog, AnyDialog, Open
<1>3. dialogs' = <<FilterDialog>> \o dialogs /\ p_dlgType' = "filter" /\ UNCHANGED p_currentProp
  BY DEF Process_ChangeFilter
<1>4. StyleTypes'
  BY DEF Process_ChangeFilter, targets, DialogInv, StyleTypes
<1>5. IsCurrent(FilterDialog, p_dlgType') /\ IsKept(FilterDialog, p_currentProp') /\ FilterDialog.kind = "filter"
  BY <1>1, <1>3 DEF IsCurrent, IsKept, FilterDialog, Agree
<1>6. ASSUME NEW i \in DOMAIN dialogs
      PROVE  /\ IsCurrent(dialogs[i], p_dlgType') /\ IsKept(dialogs[i], p_currentProp')
             /\ IsApart(FilterDialog, dialogs[i]) /\ IsApart(dialogs[i], FilterDialog)
  <2>1. dialogs[i].kind # "other" => dialogs[i].result # "open"
    BY NoneOpen DEF Process_ChangeFilter
  <2>2. QED
    BY <1>3, <1>5, <2>1 DEF DialogInv, IsCurrent, IsKept, IsApart
<1>7. QED
  BY <1>2, <1>3, <1>4, <1>5, <1>6, NewDialog DEF DialogInv

LEMMA OtherOpens ==
  ASSUME DialogInv, OpenOther
  PROVE  DialogInv'
<1> DEFINE d == [kind |-> "other", disables |-> MainEnabled, result |-> "open"]
<1>1. d \in AnyDialog
  <2>1. MainEnabled \in BOOLEAN
    BY DEF MainEnabled
  <2>2. QED
    BY <2>1 DEF AnyDialog, Other
<1>2. dialogs' = <<d>> \o dialogs /\ UNCHANGED <<p_dlgType, p_currentProp>>
  BY DEF OpenOther, globals
<1>3. StyleTypes'
  BY DEF OpenOther, targets, globals, DialogInv, StyleTypes
<1>4. d.kind = "other"
  OBVIOUS
<1> HIDE DEF d
<1>5. IsCurrent(d, p_dlgType') /\ IsKept(d, p_currentProp')
  BY <1>4 DEF IsCurrent, IsKept
<1>6. \A i \in DOMAIN dialogs :
        /\ IsCurrent(dialogs[i], p_dlgType') /\ IsKept(dialogs[i], p_currentProp')
        /\ IsApart(d, dialogs[i]) /\ IsApart(dialogs[i], d)
  BY <1>2, <1>4 DEF DialogInv, IsApart
<1>7. QED
  BY <1>1, <1>2, <1>3, <1>5, <1>6, NewDialog DEF DialogInv

\* What is known of a dialog that can be edited.
LEMMA WhatIsEdited ==
  ASSUME DialogInv, NEW i \in DOMAIN dialogs, Editable(i)
  PROVE  /\ dialogs[i] \in Open /\ dialogs[i].disables /\ dialogs[i].kind = p_dlgType
         /\ dialogs[i].box \in [Box -> State] /\ Agree(dialogs[i].box)
<1>1. dialogs[i] \in Open
  BY OpenIsOpen DEF DialogInv, Editable
<1>2. dialogs[i].box \in [Box -> State]
  BY <1>1 DEF Open
<1>3. QED
  BY <1>1, <1>2 DEF DialogInv, IsCurrent, Editable

\* New boxes keep the invariant if they agree.
LEMMA BoxesChange ==
  ASSUME DialogInv, NEW i \in DOMAIN dialogs, Editable(i), UNCHANGED <<targets, globals>>,
         NEW box \in [Box -> State], Agree(box), dialogs' = [dialogs EXCEPT ![i].box = box]
  PROVE  DialogInv'
<1> DEFINE d == [dialogs[i] EXCEPT !.box = box]
<1>1. dialogs[i] \in Open /\ dialogs[i].disables /\ dialogs[i].kind = p_dlgType
  BY WhatIsEdited
<1>2. /\ d \in Open /\ d.kind = dialogs[i].kind /\ d.disables = dialogs[i].disables
      /\ d.alone = dialogs[i].alone /\ d.box = box /\ d.result = "open"
  BY <1>1 DEF Open
<1>3. dialogs' = [dialogs EXCEPT ![i] = d]
  OBVIOUS
<1>4. StyleTypes'
  BY DEF targets, globals, DialogInv, StyleTypes
<1> HIDE DEF d
<1>5. IsCurrent(d, p_dlgType) /\ IsKept(d, p_currentProp)
  BY <1>1, <1>2 DEF IsCurrent, IsKept
<1>6. \A j \in DOMAIN dialogs : j # i => IsApart(d, dialogs[j]) /\ IsApart(dialogs[j], d)
  BY <1>1, <1>2 DEF DialogInv, IsApart, Editable
<1>7. QED
  BY <1>2, <1>3, <1>4, <1>5, <1>6, ChangedDialog DEF AnyDialog, globals

LEMMA ClickKeeps ==
  ASSUME DialogInv, NEW i \in DOMAIN dialogs, NEW c \in Box, Click(i, c)
  PROVE  DialogInv'
<1> DEFINE state == Clicked(dialogs[i].kind, dialogs[i].box[c])
           box == PropButtonState(dialogs[i].box, c, state)
<1>1. Editable(i) /\ UNCHANGED <<targets, globals>>
  BY DEF Click
<1>2. dialogs[i].box \in [Box -> State] /\ Agree(dialogs[i].box)
  BY <1>1, WhatIsEdited
<1>3. state \in State
  BY <1>2 DEF Clicked, State, UNCHECKED, CHECKED, INDETERMINATE
<1>4. dialogs' = [dialogs EXCEPT ![i].box = box]
  BY DEF Click
<1> HIDE DEF state
<1>5. box \in [Box -> State] /\ Agree(box)
  BY <1>2, <1>3, ClickedBoxes
<1> HIDE DEF box
<1>6. QED
  BY <1>1, <1>4, <1>5, BoxesChange

LEMMA ResetKeeps ==
  ASSUME DialogInv, NEW i \in DOMAIN dialogs, ResetFilter(i)
  PROVE  DialogInv'
<1> DEFINE box == [b \in Box |-> IF b = 428 THEN CHECKED
                     ELSE IF b \in {457, 471, 477} THEN INDETERMINATE ELSE UNCHECKED]
<1>1. Editable(i) /\ UNCHANGED <<targets, globals>> /\ dialogs' = [dialogs EXCEPT ![i].box = box]
  BY DEF ResetFilter
<1>2. box \in [Box -> State] /\ Agree(box)
  BY ResetBoxes
<1> HIDE DEF box
<1>3. QED
  BY <1>1, <1>2, BoxesChange

\* EndDialog without a confirmation.
LEMMA CancelKeeps ==
  ASSUME DialogInv, NEW i \in DOMAIN dialogs, Cancel(i)
  PROVE  DialogInv'
<1> DEFINE d == [kind |-> dialogs[i].kind, hwnd |-> dialogs[i].hwnd,
                 disables |-> dialogs[i].disables, result |-> "cancelled",
                 alone |-> dialogs[i].alone, chosen |-> {}]
<1>1. Editable(i) /\ UNCHANGED <<targets, globals>> /\ dialogs' = [dialogs EXCEPT ![i] = d]
  BY DEF Cancel, End
<1>2. dialogs[i] \in Open
  BY <1>1, WhatIsEdited
<1>3. d \in AnyDialog /\ d.result = "cancelled" /\ d.kind = dialogs[i].kind
        /\ d.alone = dialogs[i].alone
  BY <1>2 DEF Open, Ended, AnyDialog
<1>4. StyleTypes'
  BY <1>1 DEF targets, globals, DialogInv, StyleTypes
<1> HIDE DEF d
<1>5. IsCurrent(d, p_dlgType) /\ IsKept(d, p_currentProp)
  BY <1>3 DEF IsCurrent, IsKept
<1>6. \A j \in DOMAIN dialogs : j # i => IsApart(d, dialogs[j]) /\ IsApart(dialogs[j], d)
  BY <1>3 DEF DialogInv, IsApart
<1>7. QED
  BY <1>1, <1>3, <1>4, <1>5, <1>6, ChangedDialog DEF globals

LEMMA CloseOtherKeeps ==
  ASSUME DialogInv, NEW i \in DOMAIN dialogs, CloseOther(i)
  PROVE  DialogInv'
<1> DEFINE d == [dialogs[i] EXCEPT !.result = "cancelled"]
<1>1. dialogs[i] \in Other
  BY DEF CloseOther, DialogInv, AnyDialog, Open, Ended, Other
<1>2. d \in AnyDialog /\ d.kind = "other"
  BY <1>1 DEF AnyDialog, Other
<1>3. dialogs' = [dialogs EXCEPT ![i] = d] /\ UNCHANGED <<p_dlgType, p_currentProp>>
  BY DEF CloseOther, globals
<1>4. StyleTypes'
  BY DEF CloseOther, targets, globals, DialogInv, StyleTypes
<1> HIDE DEF d
<1>5. IsCurrent(d, p_dlgType) /\ IsKept(d, p_currentProp)
  BY <1>2 DEF IsCurrent, IsKept
<1>6. \A j \in DOMAIN dialogs : j # i => IsApart(d, dialogs[j]) /\ IsApart(dialogs[j], d)
  BY <1>2 DEF IsApart
<1>7. QED
  BY <1>2, <1>3, <1>4, <1>5, <1>6, ChangedDialog

LEMMA BitsAreBits ==
  ASSUME NEW box, NEW state
  PROVE  Bits(box, state) \in SUBSET Bit
BY BitAssumption DEF Bits

\* The dialog confirmed is the one p_dlgType speaks of.  A property dialog
\* leaves its bits in p_currentProp, and no other counts as the last one.
LEMMA ConfirmKeeps ==
  ASSUME DialogInv, NEW i \in DOMAIN dialogs, Confirm(i)
  PROVE  DialogInv'
<1> DEFINE box == dialogs[i].box
           prop == dialogs[i].kind = "prop"
           chosen == IF prop THEN Bits(box, CHECKED) ELSE {}
           d == [kind |-> dialogs[i].kind, hwnd |-> dialogs[i].hwnd,
                 disables |-> dialogs[i].disables, result |-> "confirmed",
                 alone |-> dialogs[i].alone, chosen |-> chosen]
<1>1. Editable(i) /\ UNCHANGED <<targets, p_dlgType>>
  BY DEF Confirm
<1>2. dialogs[i] \in Open /\ dialogs[i].kind = p_dlgType
  BY <1>1, WhatIsEdited
<1>3. dialogs' = [dialogs EXCEPT ![i] = d]
  BY <1>2 DEF Confirm, End
<1>4. prop => p_currentProp' = chosen /\ UNCHANGED u_filter
  BY <1>2 DEF Confirm
<1>5. ~prop => UNCHANGED p_currentProp /\ u_filter' \in Filter
  BY <1>2, BitsAreBits DEF Confirm, Filter
<1>6. chosen \in SUBSET Bit
  BY BitsAreBits
<1>7. /\ d \in AnyDialog /\ d.result = "confirmed" /\ d.kind = dialogs[i].kind
      /\ d.alone = dialogs[i].alone /\ d.chosen = chosen
  <2> HIDE DEF chosen
  <2>1. QED
    BY <1>2, <1>6 DEF Open, Ended, AnyDialog
<1> HIDE DEF d, chosen
<1>8. StyleTypes'
  BY <1>1, <1>4, <1>5, <1>6 DEF targets, DialogInv, StyleTypes
<1>9. /\ dialogs' \in Seq(AnyDialog) /\ DOMAIN dialogs' = DOMAIN dialogs
      /\ dialogs'[i] = d /\ \A j \in DOMAIN dialogs : j # i => dialogs'[j] = dialogs[j]
  BY <1>3, <1>7, OneChanges DEF DialogInv
<1>10. IsCurrent(d, p_dlgType') /\ IsKept(d, p_currentProp')
  BY <1>4, <1>7 DEF IsCurrent, IsKept
<1>11. ASSUME NEW j \in DOMAIN dialogs, j # i
       PROVE  IsCurrent(dialogs[j], p_dlgType') /\ IsKept(dialogs[j], p_currentProp')
  BY <1>1, <1>4, <1>5, <1>11 DEF DialogInv, IsApart, IsKept, Editable
<1>12. \A j \in DOMAIN dialogs : j # i => IsApart(d, dialogs[j]) /\ IsApart(dialogs[j], d)
  BY <1>7 DEF DialogInv, IsApart
<1>13. \A j, k \in DOMAIN dialogs' : j # k => IsApart(dialogs'[j], dialogs'[k])
  BY <1>9, <1>12 DEF DialogInv
<1>14. QED
  BY <1>8, <1>9, <1>10, <1>11, <1>13 DEF DialogInv

\* A dialog or box that returns is taken off; at most its window is changed.
LEMMA ReturnKeeps ==
  ASSUME DialogInv, StyleTypes', dialogs # <<>>, dialogs' = Tail(dialogs),
         UNCHANGED <<p_dlgType, p_currentProp>>
  PROVE  DialogInv'
<1>1. /\ dialogs' \in Seq(AnyDialog)
      /\ \A i \in DOMAIN dialogs' : i \in Int /\ i + 1 \in DOMAIN dialogs /\ dialogs'[i] = dialogs[i + 1]
  BY TopReturns DEF DialogInv
<1>2. \A i \in DOMAIN dialogs' : IsCurrent(dialogs'[i], p_dlgType') /\ IsKept(dialogs'[i], p_currentProp')
  BY <1>1 DEF DialogInv
<1>3. ASSUME NEW i \in DOMAIN dialogs', NEW j \in DOMAIN dialogs', i # j
      PROVE  IsApart(dialogs'[i], dialogs'[j])
  <2>1. i + 1 # j + 1
    BY <1>1, <1>3
  <2>2. QED
    BY <1>1, <2>1 DEF DialogInv
<1>4. QED
  BY <1>1, <1>2, <1>3 DEF DialogInv

LEMMA RestyleTypes ==
  ASSUME StyleTypes, NEW h, NEW bits \in SUBSET Bit, Restyle(h, bits),
         UNCHANGED <<alive, globals>>
  PROVE  StyleTypes'
BY DEF StyleTypes, Restyle, globals

LEMMA AnyReturnKeeps ==
  ASSUME DialogInv, PropReturns \/ FilterReturns \/ OtherReturns
  PROVE  DialogInv'
<1>1. dialogs # <<>> /\ dialogs' = Tail(dialogs) /\ UNCHANGED globals
  BY DEF PropReturns, FilterReturns, OtherReturns, Returns
<1>2. StyleTypes'
  <2>1. CASE PropReturns
    <3>1. CASE dialogs[1].result = "confirmed" /\ dialogs[1].hwnd \in alive
      BY <2>1, <3>1, RestyleTypes DEF PropReturns, DialogInv, StyleTypes
    <3>2. CASE ~(dialogs[1].result = "confirmed" /\ dialogs[1].hwnd \in alive)
      BY <2>1, <3>2 DEF PropReturns, DialogInv, StyleTypes, globals
    <3>3. QED
      BY <3>1, <3>2
  <2>2. CASE FilterReturns
    BY <2>2 DEF FilterReturns, DialogInv, StyleTypes, globals, targets
  <2>3. CASE OtherReturns
    BY <2>3 DEF OtherReturns, DialogInv, StyleTypes, globals, targets
  <2>4. QED
    BY <2>1, <2>2, <2>3
<1>3. QED
  BY <1>1, <1>2, ReturnKeeps DEF globals

\* What concerns the windows only.
LEMMA SameDialogs ==
  ASSUME DialogInv, StyleTypes', UNCHANGED <<globals, dialogs>>
  PROVE  DialogInv'
BY DEF DialogInv, globals

LEMMA WindowsKeep ==
  ASSUME DialogInv, NEW h \in Window,
         \/ Process_WindowFullScreenChange(h)
         \/ \E n \in Typed : Process_WindowOpacityChange(h, n)
         \/ WindowCloses(h)
         \/ \E b \in Bit : WindowChanges(h, b)
  PROVE  DialogInv'
<1> USE DEF DialogInv
<1>1. style[h] \in SUBSET Bit
  BY DEF StyleTypes
<1>2. CASE Process_WindowFullScreenChange(h)
  <2>1. PICK maximized \in SUBSET ({424} \cap Bit) :
          Restyle(h, (style[h] \ {422, 423, 418, 417, 416, 419, 424, 429})
                     \cup ({428, 431} \cap Bit) \cup maximized)
    BY <1>2 DEF Process_WindowFullScreenChange
  <2>2. UNCHANGED <<alive, globals, dialogs>>
    BY <1>2 DEF Process_WindowFullScreenChange
  <2>3. (style[h] \ {422, 423, 418, 417, 416, 419, 424, 429})
          \cup ({428, 431} \cap Bit) \cup maximized \in SUBSET Bit
    <3> DEFINE cleared == {422, 423, 418, 417, 416, 419, 424, 429}
               given == {428, 431} \cap Bit
    <3>1. given \subseteq Bit /\ maximized \subseteq Bit
      OBVIOUS
    <3> HIDE DEF cleared, given
    <3>2. (style[h] \ cleared) \cup given \cup maximized \in SUBSET Bit
      BY <1>1, <3>1
    <3>3. QED
      BY <3>2 DEF cleared, given
  <2>4. StyleTypes'
    BY <2>1, <2>2, <2>3, RestyleTypes
  <2>5. QED
    BY <2>2, <2>4, SameDialogs
<1>3. ASSUME NEW n \in Typed, Process_WindowOpacityChange(h, n)
      PROVE  DialogInv'
  <2>1. UNCHANGED <<alive, globals, dialogs>> /\ style' = [style EXCEPT ![h] = @ \cup {LAYERED}]
    BY <1>3 DEF Process_WindowOpacityChange
  <2>2. StyleTypes'
    BY <1>1, <2>1, BitAssumption DEF StyleTypes, globals
  <2>3. QED
    BY <2>1, <2>2, SameDialogs
<1>4. CASE WindowCloses(h)
  <2>1. UNCHANGED <<globals, dialogs>> /\ StyleTypes'
    BY <1>4 DEF WindowCloses, StyleTypes, globals
  <2>2. QED
    BY <2>1, SameDialogs
<1>5. ASSUME NEW b \in Bit, WindowChanges(h, b)
      PROVE  DialogInv'
  <2>1. UNCHANGED <<alive, globals, dialogs>>
    BY <1>5 DEF WindowChanges
  <2>2. StyleTypes'
    BY <1>1, <1>5, <2>1, RestyleTypes DEF WindowChanges
  <2>3. QED
    BY <2>1, <2>2, SameDialogs
<1>6. QED
  BY <1>2, <1>3, <1>4, <1>5

LEMMA InitiallyDialogs == Init => DialogInv
BY DEF Init, DialogInv, StyleTypes, Filter

LEMMA DialogsKeep ==
  ASSUME DialogInv, [Next]_vars
  PROVE  DialogInv'
<1>1. CASE UNCHANGED vars
  BY <1>1, SameDialogs DEF vars, targets, globals, DialogInv, StyleTypes
<1>2. CASE Main
  BY <1>2, PropOpens, FilterOpens, WindowsKeep DEF Main
<1>3. CASE Dialogs
  BY <1>3, OtherOpens, ClickKeeps, ResetKeeps, ConfirmKeeps, CancelKeeps, CloseOtherKeeps,
     AnyReturnKeeps DEF Dialogs
<1>4. CASE Windows
  BY <1>4, WindowsKeep DEF Windows
<1>5. QED
  BY <1>1, <1>2, <1>3, <1>4 DEF Next

\* The composite boxes of every open dialog agree with the boxes of their bits,
\* for all boxes the resource file has and not only those of the run.
THEOREM CompositeBoxesAgree == Spec => []CompositesAgree
<1>1. DialogInv => CompositesAgree
  BY DEF DialogInv, IsCurrent, Agree, CompositesAgree, Editable
<1>2. QED
  BY InitiallyDialogs, DialogsKeep, <1>1, PTL DEF Spec

\* The filter is what a filter dialog showed when it was confirmed.
THEOREM FilterIsTheChosenOne == Spec => FilterIsChosen
<1>1. ASSUME DialogInv, Next, u_filter' # u_filter
      PROVE  \E i \in DOMAIN dialogs :
               /\ Editable(i) /\ dialogs[i].kind = "filter" /\ dialogs'[i].result = "confirmed"
               /\ u_filter' = [include |-> Bits(dialogs[i].box, CHECKED),
                               exclude |-> Bits(dialogs[i].box, INDETERMINATE)]
  <2>1. PICK i \in DOMAIN dialogs : Confirm(i)
    BY <1>1 DEF Next, Main, Dialogs, Windows, Process_WindowPropChange, Process_ChangeFilter,
       Process_WindowFullScreenChange, Process_WindowOpacityChange, OpenOther, Click,
       ResetFilter, Cancel, CloseOther, PropReturns, FilterReturns, OtherReturns,
       WindowCloses, WindowChanges, globals
  <2>2. Editable(i) /\ dialogs[i].kind = p_dlgType /\ p_dlgType = "filter"
    BY <1>1, <2>1, WhatIsEdited DEF Confirm
  <2>3. /\ u_filter' = [include |-> Bits(dialogs[i].box, CHECKED),
                        exclude |-> Bits(dialogs[i].box, INDETERMINATE)]
        /\ dialogs'[i].result = "confirmed"
    <3>1. dialogs' = [dialogs EXCEPT ![i] = dialogs'[i]] /\ dialogs'[i].result = "confirmed"
      BY <1>1, <2>1, <2>2 DEF Confirm, End, DialogInv
    <3>2. QED
      BY <2>1, <2>2, <3>1 DEF Confirm
  <2>4. QED
    BY <2>2, <2>3
<1>2. DialogInv /\ [Next]_vars =>
        [u_filter' # u_filter =>
           \E i \in DOMAIN dialogs :
             /\ Editable(i) /\ dialogs[i].kind = "filter" /\ dialogs'[i].result = "confirmed"
             /\ u_filter' = [include |-> Bits(dialogs[i].box, CHECKED),
                             exclude |-> Bits(dialogs[i].box, INDETERMINATE)]]_vars
  BY <1>1
<1>3. QED
  BY InitiallyDialogs, DialogsKeep, <1>2, PTL DEF Spec, FilterIsChosen

\* The style a property dialog leaves is the one its boxes showed, although the
\* bits go through a global that every property dialog writes.
THEOREM StyleIsTheChosenOne == Spec => StyleIsChosen
<1>1. ASSUME DialogInv, PropReturns, dialogs[1].alone
      PROVE  LET d == dialogs[1] IN
             style' = IF d.result = "confirmed" /\ d.hwnd \in alive
                      THEN [style EXCEPT ![d.hwnd] = d.chosen] ELSE style
  <2>1. 1 \in DOMAIN dialogs /\ dialogs[1].kind = "prop"
    BY <1>1 DEF PropReturns, Returns, DialogInv
  <2>2. dialogs[1].result = "confirmed" => dialogs[1].chosen = p_currentProp
    BY <1>1, <2>1 DEF DialogInv, IsKept
  <2>3. QED
    BY <1>1, <2>2 DEF PropReturns, Restyle
<1>2. DialogInv /\ [Next]_vars =>
        [PropReturns /\ dialogs[1].alone =>
           LET d == dialogs[1] IN
           style' = IF d.result = "confirmed" /\ d.hwnd \in alive
                    THEN [style EXCEPT ![d.hwnd] = d.chosen] ELSE style]_vars
  BY <1>1
<1>3. QED
  BY InitiallyDialogs, DialogsKeep, <1>2, PTL DEF Spec, StyleIsChosen

-------------------------------------------------------------------------------
(* The opacity.                                                             *)

\* Every percentage comes back from the byte it is turned into.
LEMMA PercentComesBack ==
  \A p \in 0 .. 100 : ToAlpha(p) \in 0 .. 255 /\ ToPercent(ToAlpha(p)) = p
BY DEF ToAlpha, ToPercent, Opaque

LEMMA LimitIsPercent == \A n \in Typed : Limit(n) \in 0 .. 100
<1>1. ASSUME NEW n \in Typed
      PROVE  Limit(n) \in 0 .. 100
  <2>1. n \in Nat
    BY BoundsAssumption
  <2>2. CASE n \div 2 ^ 16 >= 2 ^ 15
    BY <2>2 DEF Limit
  <2>3. CASE ~(n \div 2 ^ 16 >= 2 ^ 15)
    BY <2>1, <2>3 DEF Limit
  <2>4. QED
    BY <2>2, <2>3
<1>2. QED
  BY <1>1

\* A window that was asked for an opacity has the byte for it.
OpacityInv ==
  /\ alpha \in [Window -> (0 .. 255) \cup {Opaque}]
  /\ asked \in [Window -> (0 .. 100) \cup {Unasked}]
  /\ \A h \in Window : asked[h] # Unasked => alpha[h] = ToAlpha(asked[h])

LEMMA RestyleOpacity ==
  ASSUME OpacityInv, NEW h, NEW bits, Restyle(h, bits)
  PROVE  OpacityInv'
BY DEF OpacityInv, Restyle, Opaque, Unasked

LEMMA OpacityKeeps ==
  ASSUME OpacityInv, [Next]_vars
  PROVE  OpacityInv'
<1>1. ASSUME UNCHANGED <<alpha, asked>>
      PROVE  OpacityInv'
  BY <1>1 DEF OpacityInv
<1>2. ASSUME NEW h \in Window, NEW n \in Typed, Process_WindowOpacityChange(h, n)
      PROVE  OpacityInv'
  <2>1. Limit(n) \in 0 .. 100 /\ ToAlpha(Limit(n)) \in 0 .. 255
    BY LimitIsPercent, PercentComesBack
  <2>2. QED
    BY <1>2, <2>1 DEF OpacityInv, Process_WindowOpacityChange
<1>3. ASSUME NEW h \in Window, Process_WindowFullScreenChange(h) \/ \E b \in Bit : WindowChanges(h, b)
      PROVE  OpacityInv'
  <2>1. PICK bits : Restyle(h, bits)
    BY <1>3 DEF Process_WindowFullScreenChange, WindowChanges
  <2>2. QED
    BY <2>1, RestyleOpacity
<1>4. CASE PropReturns
  <2>1. CASE dialogs[1].result = "confirmed" /\ dialogs[1].hwnd \in alive
    BY <1>4, <2>1, RestyleOpacity DEF PropReturns
  <2>2. CASE ~(dialogs[1].result = "confirmed" /\ dialogs[1].hwnd \in alive)
    BY <1>1, <1>4, <2>2 DEF PropReturns
  <2>3. QED
    BY <2>1, <2>2
<1>5. CASE Main
  BY <1>1, <1>2, <1>3, <1>5 DEF Main, Process_WindowPropChange, Process_ChangeFilter, targets
<1>6. CASE Dialogs
  BY <1>1, <1>4, <1>6 DEF Dialogs, OpenOther, Click, ResetFilter, Confirm, Cancel, CloseOther,
     FilterReturns, OtherReturns, targets
<1>7. CASE Windows
  BY <1>1, <1>3, <1>7 DEF Windows, WindowCloses
<1>8. QED
  BY <1>1, <1>5, <1>6, <1>7 DEF Next, vars, targets

\* The list shows the opacity that was asked for, for all that can be typed.
THEOREM OpacityIsShown == Spec => []OpacityShown
<1>1. Init => OpacityInv
  BY DEF Init, OpacityInv
<1>2. OpacityInv => OpacityShown
  BY PercentComesBack DEF OpacityInv, OpacityShown
<1>3. QED
  BY <1>1, <1>2, OpacityKeeps, PTL DEF Spec

-------------------------------------------------------------------------------
(* The running time.                                                        *)

LEMMA Times ==
  ASSUME NEW a \in Nat, NEW b \in Nat, NEW q \in Nat, a <= b
  PROVE  q * a <= q * b
OBVIOUS

LEMMA Divided ==
  ASSUME NEW m \in Nat, NEW s \in Nat \ {0}
  PROVE  /\ m \div s \in Nat /\ m % s \in Nat
         /\ m = (m \div s) * s + (m % s)
OBVIOUS

\* A time is shown as no shorter than it is, and as longer by at most a second
\* for each high word.
LEMMA ShownTime ==
  ASSUME NEW e \in Nat
  PROVE  /\ FileTimeToTime(e).sec \in Nat /\ FileTimeToTime(e).rest \in Nat
         /\ e <= Ticks(FileTimeToTime(e))
         /\ Ticks(FileTimeToTime(e)) <= e + (e \div LOW) * SECOND
<1> DEFINE q == e \div LOW
           m == e % LOW
           PS == PER_HIGH * SECOND
<1>1. LOW \in Nat \ {0} /\ SECOND \in Nat \ {0} /\ PER_HIGH \in Nat
  BY TimeAssumption
<1>2. q \in Nat /\ m \in Nat /\ e = q * LOW + m
  BY <1>1, Divided
<1>3. m \div SECOND \in Nat /\ m % SECOND \in Nat /\ m = (m \div SECOND) * SECOND + (m % SECOND)
  BY <1>1, <1>2, Divided
<1>4. FileTimeToTime(e) = [sec |-> q * PER_HIGH + m \div SECOND, rest |-> m % SECOND]
  BY DEF FileTimeToTime
<1> HIDE DEF q, m
<1>5. q * PER_HIGH \in Nat /\ (q * PER_HIGH) * SECOND = q * PS
  BY <1>1, <1>2
<1>6. Ticks(FileTimeToTime(e)) = q * PS + m
  <2> DEFINE d == m \div SECOND
  <2>1. d \in Nat
    BY <1>3
  <2> HIDE DEF d
  <2>2. (q * PER_HIGH + d) * SECOND = (q * PER_HIGH) * SECOND + d * SECOND
    BY <1>1, <1>5, <2>1
  <2>3. Ticks(FileTimeToTime(e)) = (q * PER_HIGH + d) * SECOND + (m % SECOND)
    BY <1>4 DEF Ticks, d
  <2>4. m = d * SECOND + (m % SECOND)
    BY <1>3 DEF d
  <2>5. d * SECOND \in Nat /\ q * PS \in Nat
    BY <1>1, <1>2, <2>1
  <2>6. QED
    BY <1>2, <1>3, <1>5, <2>2, <2>3, <2>4, <2>5
<1>7. PS \in Nat /\ LOW <= PS /\ PS <= LOW + SECOND
  BY <1>1, TimeAssumption
<1>8. q * LOW <= q * PS /\ q * PS <= q * (LOW + SECOND)
  BY <1>1, <1>2, <1>7, Times
<1>9. q * (LOW + SECOND) = q * LOW + q * SECOND
  BY <1>1, <1>2
<1>10. q * LOW \in Nat /\ q * PS \in Nat /\ q * SECOND \in Nat
  BY <1>1, <1>2, <1>7
<1> HIDE DEF PS
<1>11. e <= Ticks(FileTimeToTime(e)) /\ Ticks(FileTimeToTime(e)) <= e + q * SECOND
  BY <1>2, <1>6, <1>8, <1>9, <1>10
<1>12. QED
  BY <1>3, <1>4, <1>5, <1>11 DEF q

\* What a thread has to find in the field f for the dialog d.
Right(d, f) == IF f = "ft" THEN born[d] ELSE d

ThreadTypes ==
  /\ now \in Nat /\ opened \in Nat
  /\ born \in [Dialog -> Births]
  /\ loop \in [Dialog -> [running : BOOLEAN, read : SUBSET Field, copy : [Field -> Nat]]]
  /\ p_tdata \in [Field -> Nat]
  /\ \A t \in Births : t <= now

\* p_tdata is filled before the thread of a dialog starts, and belongs to the
\* dialog until it ends.
DataIsRight ==
  /\ ui \in {"times", "timer", "thread", "open"} => opened \in Dialog
  /\ ui \in {"times", "timer", "thread"} =>
       p_tdata["hwnd"] = opened /\ ~loop[opened].running
  /\ ui \in {"timer", "thread"} => p_tdata["ft"] = born[opened]
  /\ ui = "thread" => p_tdata["timer"] = opened
  /\ ui = "open" /\ loop[opened].running => \A f \in Field : p_tdata[f] = Right(opened, f)

\* Dialogs to come have no thread yet.
NoneToCome == \A d \in Dialog : opened < d => ~loop[d].running /\ loop[d].read = {}

CopiesAreRight ==
  late = {} => \A d \in Dialog : \A f \in loop[d].read : loop[d].copy[f] = Right(d, f)

TimeInv == ThreadTypes /\ DataIsRight /\ NoneToCome /\ CopiesAreRight /\ ShownIsAge

LEMMA InitiallyTime == TimeInit => TimeInv
<1> SUFFICES ASSUME TimeInit
             PROVE  TimeInv
  OBVIOUS
<1>1. ThreadTypes
  BY TimeAssumption DEF TimeInit, ThreadTypes, Nothing
<1>2. DataIsRight /\ NoneToCome /\ CopiesAreRight /\ ShownIsAge
  BY TimeBounds DEF TimeInit, DataIsRight, NoneToCome, CopiesAreRight, ShownIsAge, Dialog, Field
<1>3. QED
  BY <1>1, <1>2 DEF TimeInv

LEMMA ClockKeeps ==
  ASSUME TimeInv, Clock
  PROVE  TimeInv'
BY TimeAssumption DEF TimeInv, Clock, ThreadTypes, DataIsRight, NoneToCome, CopiesAreRight,
   ShownIsAge, Right

LEMMA OpenDialogKeeps ==
  ASSUME TimeInv, NEW t \in Births, OpenDialog(t)
  PROVE  TimeInv'
<1> DEFINE new == opened + 1
<1>1. new \in Dialog /\ opened \in Nat /\ opened < new
  BY TimeBounds DEF OpenDialog, TimeInv, ThreadTypes, Dialog
<1>2. opened' = new /\ born' = [born EXCEPT ![new] = t]
        /\ p_tdata' = [p_tdata EXCEPT !["hwnd"] = new] /\ text' = NoText /\ ui' = "times"
        /\ UNCHANGED <<now, loop, late>>
  BY DEF OpenDialog
<1>3. ~loop[new].running /\ loop[new].read = {}
  BY <1>1 DEF TimeInv, NoneToCome
<1>4. ThreadTypes'
  BY <1>1, <1>2 DEF TimeInv, ThreadTypes, Field
<1>5. DataIsRight'
  BY <1>1, <1>2, <1>3 DEF TimeInv, ThreadTypes, DataIsRight, Field
<1>6. NoneToCome'
  BY <1>1, <1>2 DEF TimeInv, NoneToCome, Dialog
<1>7. CopiesAreRight'
  BY <1>1, <1>2, <1>3 DEF TimeInv, ThreadTypes, CopiesAreRight, Right
<1>8. ShownIsAge'
  BY <1>2 DEF ShownIsAge, NoText
<1>9. QED
  BY <1>4, <1>5, <1>6, <1>7, <1>8 DEF TimeInv

\* The other steps of the UI thread leave dialogs and copies as they are.
LEMMA UIKeeps ==
  ASSUME TimeInv, GetProcessTimes \/ SetTimer \/ StartThread \/ EndDialog \/ ClearData
  PROVE  TimeInv'
<1> USE DEF TimeInv
<1>1. UNCHANGED <<now, opened, born, text, late>>
  BY DEF GetProcessTimes, SetTimer, StartThread, EndDialog, ClearData, Clear
<1>2. ShownIsAge'
  BY <1>1 DEF ShownIsAge
<1>3. CASE GetProcessTimes
  <2>1. UNCHANGED loop /\ ui = "times"
    BY <1>3 DEF GetProcessTimes
  <2>2. opened \in Dialog /\ born[opened] \in Nat
    BY <2>1, TimeAssumption DEF DataIsRight, ThreadTypes
  <2>3. ThreadTypes' /\ NoneToCome' /\ CopiesAreRight'
    BY <1>1, <1>3, <2>1, <2>2 DEF GetProcessTimes, ThreadTypes, NoneToCome, CopiesAreRight, Right, Field
  <2>4. DataIsRight'
    BY <1>1, <1>3, <2>1, <2>2 DEF GetProcessTimes, DataIsRight, ThreadTypes, Field
  <2>5. QED
    BY <1>2, <2>3, <2>4
<1>4. CASE SetTimer
  <2>1. UNCHANGED loop /\ ui = "timer"
    BY <1>4 DEF SetTimer
  <2>2. ThreadTypes' /\ NoneToCome' /\ CopiesAreRight'
    BY <1>1, <1>4, <2>1 DEF SetTimer, ThreadTypes, NoneToCome, CopiesAreRight, Right, Field
  <2>3. DataIsRight'
    BY <1>1, <1>4, <2>1 DEF SetTimer, DataIsRight, ThreadTypes, Field
  <2>4. QED
    BY <1>2, <2>2, <2>3
<1>5. CASE StartThread
  <2>1. ui = "thread" /\ opened \in Dialog /\ ui' = "open" /\ UNCHANGED p_tdata
    BY <1>5 DEF StartThread, DataIsRight
  <2>2. \A d \in Dialog : /\ loop'[d].read = loop[d].read /\ loop'[d].copy = loop[d].copy
                          /\ d # opened => loop'[d].running = loop[d].running
    BY <1>5 DEF StartThread, CreateThread, ThreadTypes
  <2>3. ThreadTypes'
    BY <1>1, <1>5, <2>1 DEF StartThread, CreateThread, ThreadTypes
  <2>4. NoneToCome' /\ CopiesAreRight'
    BY <1>1, <2>1, <2>2 DEF NoneToCome, CopiesAreRight, Right, ThreadTypes
  <2>5. DataIsRight'
    BY <1>1, <2>1 DEF DataIsRight, Right, Field
  <2>6. QED
    BY <1>2, <2>3, <2>4, <2>5
<1>6. CASE EndDialog \/ ClearData
  <2>1. UNCHANGED loop /\ ui' \in {"closed", "clear timer", "clear ft"}
    BY <1>6 DEF EndDialog, ClearData, Clear
  <2>2. UNCHANGED p_tdata \/ \E f \in Field : p_tdata' = [p_tdata EXCEPT ![f] = 0]
    BY <1>6 DEF EndDialog, ClearData, Clear, Nothing, Field
  <2>3. p_tdata' \in [Field -> Nat]
    BY <2>2 DEF ThreadTypes
  <2>4. ThreadTypes'
    BY <1>1, <2>1, <2>3 DEF ThreadTypes
  <2>5. NoneToCome' /\ CopiesAreRight'
    BY <1>1, <2>1 DEF NoneToCome, CopiesAreRight, Right
  <2>6. DataIsRight'
    BY <2>1 DEF DataIsRight
  <2>7. QED
    BY <1>2, <2>4, <2>5, <2>6
<1>7. QED
  BY <1>3, <1>4, <1>5, <1>6

\* A thread copies what is right, unless it is late.
LEMMA CopyKeeps ==
  ASSUME TimeInv, NEW d \in Dialog, NEW field \in Field, Copy(d, field)
  PROVE  TimeInv'
<1> USE DEF TimeInv
<1>1. UNCHANGED <<now, ui, opened, p_tdata, born, text>> /\ loop[d].running
  BY DEF Copy
<1>2. /\ loop'[d].running /\ loop'[d].read = loop[d].read \cup {field}
      /\ loop'[d].copy = [loop[d].copy EXCEPT ![field] = p_tdata[field]]
      /\ \A e \in Dialog : e # d => loop'[e] = loop[e]
      /\ loop' \in [Dialog -> [running : BOOLEAN, read : SUBSET Field, copy : [Field -> Nat]]]
  BY DEF Copy, ThreadTypes
<1>3. ThreadTypes'
  BY <1>1, <1>2 DEF ThreadTypes
<1>4. NoneToCome'
  BY <1>1, <1>2 DEF NoneToCome
<1>5. DataIsRight'
  BY <1>1, <1>2 DEF DataIsRight, Right
<1>6. late' = {} => late = {} /\ Shows(d)
  BY DEF Copy
<1>7. CopiesAreRight'
  <2>1. SUFFICES ASSUME late' = {}, NEW e \in Dialog, NEW f \in loop'[e].read
                 PROVE  loop'[e].copy[f] = Right(e, f)
    BY <1>1 DEF CopiesAreRight, Right
  <2>2. CASE e # d
    BY <1>2, <1>6, <2>1, <2>2 DEF CopiesAreRight
  <2>3. CASE e = d /\ f # field
    BY <1>2, <1>6, <2>1, <2>3 DEF CopiesAreRight, ThreadTypes
  <2>4. CASE e = d /\ f = field
    <3>1. d = opened /\ ui = "open"
      BY <1>1, <1>6, <2>1 DEF Shows, DataIsRight
    <3>2. p_tdata[field] = Right(d, field)
      BY <1>1, <3>1 DEF DataIsRight
    <3>3. QED
      BY <1>2, <2>4, <3>2 DEF ThreadTypes
  <2>5. QED
    BY <2>2, <2>3, <2>4
<1>8. ShownIsAge'
  BY <1>1, <1>6 DEF ShownIsAge
<1>9. QED
  BY <1>3, <1>4, <1>5, <1>7, <1>8

\* A thread that ends concerns no copy.
LEMMA LoopEndsKeeps ==
  ASSUME TimeInv, NEW d \in Dialog, UNCHANGED <<now, ui, opened, p_tdata, born, late>>,
         UNCHANGED loop \/ loop' = [loop EXCEPT ![d].running = FALSE]
  PROVE  ThreadTypes' /\ NoneToCome' /\ CopiesAreRight' /\ DataIsRight'
<1> USE DEF TimeInv
<1>1. CASE UNCHANGED loop
  BY <1>1 DEF ThreadTypes, NoneToCome, CopiesAreRight, DataIsRight, Right
<1>2. CASE loop' = [loop EXCEPT ![d].running = FALSE]
  <2>1. /\ \A e \in Dialog : loop'[e].read = loop[e].read /\ loop'[e].copy = loop[e].copy
        /\ \A e \in Dialog : e # d => loop'[e].running = loop[e].running
        /\ loop'[d].running = FALSE
        /\ loop' \in [Dialog -> [running : BOOLEAN, read : SUBSET Field, copy : [Field -> Nat]]]
    BY <1>2 DEF ThreadTypes
  <2>2. ThreadTypes'
    BY <2>1 DEF ThreadTypes
  <2>3. NoneToCome'
    BY <2>1 DEF NoneToCome
  <2>4. CopiesAreRight'
    BY <2>1 DEF CopiesAreRight, Right
  <2>5. DataIsRight'
    <3>1. UNCHANGED <<ui, opened, p_tdata, born>>
      OBVIOUS
    <3>2. CASE d = opened
      BY <2>1, <3>1, <3>2 DEF DataIsRight, Right
    <3>3. CASE d # opened
      BY <2>1, <3>1, <3>3 DEF DataIsRight, Right
    <3>4. QED
      BY <3>2, <3>3
  <2>6. QED
    BY <2>2, <2>3, <2>4, <2>5
<1>3. QED
  BY <1>1, <1>2

\* The text is computed from the creation time of the dialog that shows it.
LEMMA ShowTimeKeeps ==
  ASSUME TimeInv, NEW d \in Dialog, ShowTime(d)
  PROVE  TimeInv'
<1> USE DEF TimeInv
<1> DEFINE copy == loop[d].copy
           time == FileTimeToTime(now - copy["ft"])
<1>1. UNCHANGED <<now, ui, opened, p_tdata, born, late>> /\ loop[d].read = Field
  BY DEF ShowTime
<1>2. UNCHANGED loop \/ loop' = [loop EXCEPT ![d].running = FALSE]
  BY DEF ShowTime
<1>3. ThreadTypes' /\ NoneToCome' /\ CopiesAreRight' /\ DataIsRight'
  BY <1>1, <1>2, LoopEndsKeeps
<1>4. ShownIsAge'
  <2>1. CASE text' = text
    BY <1>1, <2>1 DEF ShownIsAge
  <2>2. CASE late = {} /\ text' # text
    <3>1. text' = [sec |-> time.sec, rest |-> time.rest, age |-> now - born[opened]]
            /\ Shows(copy["timer"])
      BY <2>2 DEF ShowTime
    <3>2. copy["timer"] = d /\ copy["ft"] = born[d]
      BY <1>1, <2>2 DEF CopiesAreRight, Right, Field
    <3>3. d = opened
      BY <3>1, <3>2 DEF Shows
    <3>4. now - born[d] \in Nat
      BY TimeAssumption DEF ThreadTypes
    <3> DEFINE e == now - born[d]
    <3>5. time = FileTimeToTime(e) /\ text'.age = e /\ Ticks(text') = Ticks(FileTimeToTime(e))
      BY <3>1, <3>2, <3>3 DEF Ticks
    <3> HIDE DEF e
    <3>6. e <= Ticks(FileTimeToTime(e)) /\ Ticks(FileTimeToTime(e)) <= e + (e \div LOW) * SECOND
      BY <3>4, ShownTime DEF e
    <3>7. QED
      BY <3>5, <3>6 DEF ShownIsAge
  <2>3. QED
    BY <1>1, <2>1, <2>2 DEF ShownIsAge
<1>5. QED
  BY <1>3, <1>4

\* The running time is the age of the process, up to a second for each high
\* word, as long as no thread has copied p_tdata too late.
THEOREM RunningTimeIsAge == TimeSpec => []ShownIsAge
<1>1. TimeInv /\ [TimeNext]_timeVars => TimeInv'
  <2> SUFFICES ASSUME TimeInv, [TimeNext]_timeVars
               PROVE  TimeInv'
    OBVIOUS
  <2>1. CASE UNCHANGED timeVars
    BY <2>1 DEF timeVars, TimeInv, ThreadTypes, DataIsRight, NoneToCome, CopiesAreRight,
       ShownIsAge, Right
  <2>2. CASE DialogSteps
    BY <2>2, OpenDialogKeeps, UIKeeps DEF DialogSteps
  <2>3. ASSUME NEW d \in Dialog, LoopStep(d)
        PROVE  TimeInv'
    BY <2>3, CopyKeeps, ShowTimeKeeps DEF LoopStep
  <2>4. QED
    BY <2>1, <2>2, <2>3, ClockKeeps DEF TimeNext
<1>2. TimeInv => ShownIsAge
  BY DEF TimeInv
<1>3. QED
  BY InitiallyTime, <1>1, <1>2, PTL DEF TimeSpec
===============================================================================
