--------------------------- MODULE Pac85Ui_proofs ----------------------------
(***************************************************************************)
(* Theorems about Pac85Ui, for any number of dialogs and of nested message *)
(* boxes.                                                                  *)
(***************************************************************************)
EXTENDS Pac85Ui, TLAPS

\* What the types leave open: before the loop there is nothing to be held, dialogs
\* are numbered in the order of their creation, and only the one that is active
\* has memory.  After the end no message arrives any more.
UiInv ==
    /\ TypeOK
    /\ OneDialog
    /\ active <= made
    /\ pc = "start" => held = {} /\ ~ui
    /\ pc \in {"start", "welcome"} => active = 0 /\ made = 0
    /\ pc = "welcome" /\ ui => MainOpen
    /\ ~ui => active = 0 /\ ~MainOpen /\ Mem(0) \notin held
    /\ boxes > 0 => pc = "loop"

-----------------------------------------------------------------------------
(* Resources                                                               *)

Others == {Ui, Class, Brush, Bitmap} \cup Children

\* Two components share neither memory nor window, and a component is none of
\* the objects of the background window.
LEMMA Distinct ==
    /\ \A d, e \in Nat : Mem(d) = Mem(e) => d = e
    /\ \A d, e \in Nat : Win(d) = Win(e) => d = e
    /\ \A d, e \in Nat : Mem(d) # Win(e)
    /\ \A d \in Nat : Mem(d) \notin Others /\ Win(d) \notin Others
<1>1. \A d, e \in Nat : Mem(d) = Mem(e) => d = e
  BY DEF Mem
<1>2. \A d, e \in Nat : Win(d) = Win(e) => d = e
  BY DEF Win
<1>3. \A d, e \in Nat : Mem(d) # Win(e)
  BY DEF Mem, Win
<1>4. \A d \in Nat : Mem(d) \notin Others
  BY DEF Mem, Others, Ui, Class, Brush, Bitmap, Children
<1>5. \A d \in Nat : Win(d) \notin Others
  BY DEF Win, Others, Ui, Class, Brush, Bitmap, Children
<1>6. QED  BY <1>1, <1>2, <1>3, <1>4, <1>5

\* The same of the members of the sets.
LEMMA ResourceSets ==
    /\ Others \subseteq Resources
    /\ \A d \in 0..MaxDialogs : Mem(d) \in Resources /\ Win(d) \in Resources
    /\ {Ui, Class, Brush, Bitmap} \subseteq Others /\ Children \subseteq Others
    /\ \A g \in Graphics : g \subseteq Others
BY DEF Resources, Others, Graphics

-----------------------------------------------------------------------------
(* The invariant                                                           *)

\* Before anything was created there is no dialog.
LEMMA InitUiInv == Init => UiInv
<1> SUFFICES ASSUME Init PROVE UiInv
  OBVIOUS
<1>1. held = {} /\ ~MainOpen
  BY DEF Init, MainOpen
<1>2. TypeOK
  <2>1. /\ ui \in BOOLEAN /\ quit \in BOOLEAN
        /\ held \subseteq Resources
    BY DEF Init
  <2>2. /\ active \in 0..MaxDialogs /\ made \in 0..MaxDialogs
        /\ boxes \in 0..MaxBoxes /\ ~(boxes > 0)
    BY UiBounds DEF Init
  <2>3. QED  BY <2>1, <2>2 DEF Init, TypeOK, Ids, MainOpen
<1>3. OneDialog
  BY UiBounds, <1>1 DEF Init, OneDialog, MainOpen
<1>4. QED  BY <1>1, <1>2, <1>3 DEF Init, UiInv, MainOpen

\* Deleting the old dialog and creating the next one, each of which may fail,
\* leaves one dialog or none.
LEMMA SwitchUiInv ==
    ASSUME UiInv, NEW new \in Ids, UiSwitchToDialog(new),
           pc = "welcome" \/ (pc = "loop" /\ DialogOpen), UNCHANGED <<ui, boxes, quit>>,
           pc' \in {"loop", "delete"}, pc = "loop" => pc' = "loop"
    PROVE  UiInv'
<1> USE UiBounds, Distinct, ResourceSets
    DEF UiInv, TypeOK, OneDialog, MainOpen, DialogOpen, CanDeleteActive,
        UiDeleteActiveDialog
<1>1. CASE CanDeleteActive /\ made' = made + 1
  <2>1. /\ held' = (IF active = 0 THEN held ELSE held \ {Mem(active), Win(active)})
                      \cup {Mem(made + 1), Win(made + 1)}
        /\ active' = made + 1 /\ id' = new
    BY <1>1, SMT DEF UiSwitchToDialog
  <2>2. made + 1 \in 0..MaxDialogs
    BY <1>1, SMT DEF UiSwitchToDialog
  <2>3. Win(0) \in held' <=> Win(0) \in held
    BY <1>1, <2>1, <2>2
  <2>4. TypeOK'
    BY <1>1, <2>1, <2>2, <2>3
  <2>5. ASSUME NEW d \in 1..MaxDialogs
        PROVE  Mem(d) \in held' <=> active' = d
    BY <1>1, <2>1, <2>2
  <2>6. ASSUME NEW d \in 1..MaxDialogs, Win(d) \in held'
        PROVE  active' = d /\ MainOpen'
    <3>1. ASSUME d # made + 1
          PROVE  FALSE
      <4>1. Win(d) \in held
        BY <2>1, <2>2, <2>6, <3>1
      <4>2. active = d
        BY <4>1
      <4>3. QED  BY <2>1, <2>2, <2>6, <3>1, <4>2
    <3>2. MainOpen
      BY <1>1
    <3>3. QED  BY <2>1, <2>3, <3>1, <3>2
  <2>7. OneDialog'
    BY <2>5, <2>6, <2>1
  <2>8. QED  BY <1>1, <2>1, <2>2, <2>3, <2>4, <2>7
<1>2. CASE CanDeleteActive /\ made' = made
  BY <1>2 DEF UiSwitchToDialog
<1>3. CASE ~CanDeleteActive
  BY <1>3 DEF UiSwitchToDialog
<1>4. QED
  BY <1>1, <1>2, <1>3 DEF UiSwitchToDialog

\* No step of the program or of its user leaves a second dialog, or a pointer to
\* one that is gone.
LEMMA NextUiInv ==
    ASSUME UiInv, [Next]_vars
    PROVE  UiInv'
<1>1. CASE ShowWelcome
  <2>1. /\ "Welcome" \in Ids /\ UiSwitchToDialog("Welcome")
        /\ pc = "welcome" \/ (pc = "loop" /\ DialogOpen)
        /\ UNCHANGED <<ui, boxes, quit>>
        /\ pc' \in {"loop", "delete"} /\ (pc = "loop" => pc' = "loop")
    BY <1>1 DEF ShowWelcome, Ids
  <2>2. QED  BY <2>1, SwitchUiInv, Zenon
<1>2. CASE PressNext
  <2>1. /\ "DetectMirror" \in Ids /\ UiSwitchToDialog("DetectMirror")
        /\ pc = "welcome" \/ (pc = "loop" /\ DialogOpen)
        /\ UNCHANGED <<ui, boxes, quit>>
        /\ pc' \in {"loop", "delete"} /\ (pc = "loop" => pc' = "loop")
    BY <1>2 DEF PressNext, Ids
  <2>2. QED  BY <2>1, SwitchUiInv, Zenon
<1> USE UiBounds, Distinct, ResourceSets
    DEF UiInv, TypeOK, OneDialog, MainOpen, DialogOpen, CanDeleteActive
<1>3. CASE UiCreate
  <2>1. CASE ui' = FALSE
    <3>1. held' \subseteq {Bitmap}
      BY <1>3, <2>1 DEF UiCreate, Graphics
    <3>2. /\ held' \subseteq Resources
          /\ \A d \in 0..MaxDialogs : Mem(d) \notin held' /\ Win(d) \notin held'
      BY <3>1
    <3>3. ~MainOpen' /\ OneDialog'
      BY <1>3, <3>2 DEF UiCreate
    <3>4. QED  BY <1>3, <2>1, <3>2, <3>3 DEF UiCreate
  <2>2. CASE ui' = TRUE
    <3>1. PICK g \in Graphics :
            held' = {Ui, Mem(0), Win(0), Class} \cup Children \cup g
      BY <1>3, <2>2 DEF UiCreate
    <3>2. /\ held' \subseteq Resources /\ Win(0) \in held'
          /\ \A d \in 1..MaxDialogs : Mem(d) \notin held' /\ Win(d) \notin held'
      BY <3>1
    <3>3. QED  BY <1>3, <2>2, <3>2 DEF UiCreate
  <2>3. QED  BY <1>3, <2>1, <2>2 DEF UiCreate
<1>4. CASE CreateFails
  BY <1>4 DEF CreateFails
<1>5. CASE UiLoop
  BY <1>5 DEF UiLoop
<1>6. CASE UiDelete
  BY <1>6 DEF UiDelete, UiDeleteActiveDialog
<1>7. CASE RequestClose
  BY <1>7 DEF RequestClose
<1>8. CASE AnswerNo
  BY <1>8 DEF AnswerNo
<1>9. CASE AnswerYes
  BY <1>9 DEF AnswerYes
<1>10. CASE Idle \/ UNCHANGED vars
  BY <1>10 DEF Idle, vars
<1>11. QED
  BY <1>1, <1>2, <1>3, <1>4, <1>5, <1>6, <1>7, <1>8, <1>9, <1>10
     DEF Next, Program, User

\* Whatever fails in whichever of the nested message loops, there is one dialog at
\* most: its memory exists exactly while psActiveDlg points to it, and its
\* window exists as long as the background window (Ui.c, UiSwitchToDialog).
THEOREM DialogIsUnique == Spec => []OneDialog
<1>1. UiInv => OneDialog
  BY DEF UiInv
<1>2. QED  BY InitUiInv, NextUiInv, <1>1, PTL DEF Spec
==============================================================================
