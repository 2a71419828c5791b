------------------------------- MODULE Pac85Ui -------------------------------
(***************************************************************************)
(* The user interface of the Pac85 installer: wWinMain, the Ui structure   *)
(* with its background window and its active dialog (Ui.c), and the window *)
(* procedures (Ui_Main.c, Ui_Welcome.c, Ui_DetectMirror.c).                *)
(*                                                                         *)
(* `held' is the set of everything the program has obtained from Windows   *)
(* and not given back.  Component 0 is the background window, dialogs are  *)
(* numbered as they are created.  One message is handled at a time, but    *)
(* the message box of WM_CLOSE runs a message loop of its own, and the     *)
(* dialogs are WS_POPUP: they are not disabled with the background window  *)
(* and go on sending messages while the box is open.                       *)
(***************************************************************************)
EXTENDS Integers

CONSTANTS
    MaxDialogs,  \* bound on the number of dialogs created
    MaxBoxes     \* bound on the nesting of message boxes

ASSUME UiBounds == MaxDialogs \in Nat /\ MaxBoxes \in Nat

VARIABLES
    pc,      \* where wWinMain is
    ui,      \* psUi # NULL
    held,    \* the memory, windows and GDI objects in use
    active,  \* psUi->psActiveDlg, 0 for NULL
    id,      \* psActiveDlg->nId
    made,    \* dialogs created so far
    boxes,   \* message boxes open, one inside the other
    quit     \* WM_QUIT is in the message queue

vars == <<pc, ui, held, active, id, made, boxes, quit>>

Ids == {"Welcome", "DetectMirror"}

\* A component's memory, its window, and what else the background window has.
Mem(d) == <<"mem", d>>
Win(d) == <<"win", d>>
Ui == <<"ui", 0>>
Class == <<"class", 0>>
Brush == <<"brush", 0>>
Bitmap == <<"bitmap", 0>>
Children == {<<"font", 0>>, <<"text", 0>>}
Resources ==
    {Ui, Class, Brush, Bitmap} \cup Children
      \cup {Mem(d) : d \in 0..MaxDialogs} \cup {Win(d) : d \in 0..MaxDialogs}

Init ==
    /\ pc = "start" /\ ui = FALSE /\ held = {}
    /\ active = 0 /\ id = "Welcome" /\ made = 0
    /\ boxes = 0 /\ quit = FALSE

-----------------------------------------------------------------------------
(* The background window                                                   *)

\* Ui_CreateMain, Ui_DeleteMain on its error paths: what the program holds when
\* UiCreate returns.  The bitmap of the brush is never deleted, and neither
\* the bitmap nor the brush is checked.
Graphics == {{}, {Bitmap}, {Bitmap, Brush}}

UiCreate ==
    /\ pc = "start"
    /\ pc' = "welcome"
    /\ \/ ui' = FALSE /\ held' = {}                 \* UtlMalloc failed
       \/ \E g \in Graphics :                       \* class or window failed
            ui' = FALSE /\ held' = g \ {Brush}
       \/ \E g \in Graphics :
            /\ ui' = TRUE
            /\ held' = {Ui, Mem(0), Win(0), Class} \cup Children \cup g
    /\ UNCHANGED <<active, id, made, boxes, quit>>

\* WM_CREATE cannot create the font or the text: the window is destroyed before
\* its user data is set, and WM_DESTROY reads the structure through it.
CreateFails ==
    /\ pc = "start"
    /\ pc' = "crashed"
    /\ UNCHANGED <<ui, held, active, id, made, boxes, quit>>

-----------------------------------------------------------------------------
(* The active dialog                                                       *)

\* CloseWindow fails for a window that does not exist any more.
CanDeleteActive == ui /\ (active # 0 => Win(active) \in held)

UiDeleteActiveDialog_NoDestroy(resources) == resources \ {Mem(active)}

\* What is held once the active dialog was destroyed and freed.
UiDeleteActiveDialog(resources) == resources \ {Mem(active), Win(active)}

\* UiSwitchToDialog: the old dialog is deleted before the new one is created,
\* and there is none when that fails.
UiSwitchToDialog(new) ==
    /\ made < MaxDialogs
    /\ \/ /\ CanDeleteActive
          /\ active' = made + 1 /\ made' = made + 1 /\ id' = new
          /\ held' = (IF active = 0 THEN held ELSE UiDeleteActiveDialog(held))
                       \cup {Mem(made + 1), Win(made + 1)}
       \/ /\ CanDeleteActive
          /\ active' = 0
          /\ held' = IF active = 0 THEN held ELSE UiDeleteActiveDialog(held)
          /\ UNCHANGED <<made, id>>
       \/ ~CanDeleteActive /\ UNCHANGED <<active, made, id, held>>

\* wWinMain goes on whatever UiCreate and UiSwitchToDialog return.
ShowWelcome ==
    /\ pc = "welcome"
    /\ UiSwitchToDialog("Welcome")
    /\ pc' = IF ui THEN "loop" ELSE "delete"
    /\ UNCHANGED <<ui, boxes, quit>>

-----------------------------------------------------------------------------
(* Messages                                                                *)

DialogOpen == active # 0 /\ Win(active) \in held
MainOpen == Win(0) \in held

\* IDOK in the welcome dialog sends WM_SWITCH_DIALOG to its parent.
PressNext ==
    /\ pc = "loop" /\ DialogOpen /\ id = "Welcome"
    /\ UiSwitchToDialog("DetectMirror")
    /\ UNCHANGED <<pc, ui, boxes, quit>>

\* WM_CLOSE of the background window, which is disabled while a box is open, or
\* WM_CLOSE or IDCANCEL of the dialog, which is not: the user is asked.
RequestClose ==
    /\ pc = "loop" /\ MainOpen
    /\ boxes < MaxBoxes
    /\ DialogOpen \/ boxes = 0
    /\ boxes' = boxes + 1
    /\ UNCHANGED <<pc, ui, held, active, id, made, quit>>

AnswerNo ==
    /\ boxes > 0
    /\ boxes' = boxes - 1
    /\ UNCHANGED <<pc, ui, held, active, id, made, quit>>

AnswerYes_NoQuit ==
    /\ boxes > 0
    /\ boxes' = 0
    /\ held' = held \ ({Win(0), Win(active)} \cup Children)
    /\ UNCHANGED <<pc, ui, active, id, made, quit>>

\* DestroyWindow takes the owned dialog and the open boxes with it; WM_DESTROY
\* frees the text and the font and posts WM_QUIT.
AnswerYes ==
    /\ boxes > 0
    /\ boxes' = 0
    /\ held' = held \ ({Win(0), Win(active)} \cup Children)
    /\ quit' = TRUE
    /\ UNCHANGED <<pc, ui, active, id, made>>

\* UiLoop ends with WM_QUIT.
UiLoop ==
    /\ pc = "loop" /\ quit /\ boxes = 0
    /\ pc' = "delete"
    /\ UNCHANGED <<ui, held, active, id, made, boxes, quit>>

\* UiDelete gives up when the active dialog cannot be closed.  The Ui structure
\* is not freed in any case.
UiDelete ==
    /\ pc = "delete"
    /\ pc' = "exited"
    /\ IF CanDeleteActive
       THEN /\ held' = (IF active = 0 THEN held ELSE UiDeleteActiveDialog(held))
                         \ {Mem(0), Win(0), Class, Brush}
            /\ active' = 0
       ELSE UNCHANGED <<held, active>>
    /\ UNCHANGED <<ui, id, made, boxes, quit>>

\* GetMessage waits, or the program is over.
Idle == pc \in {"loop", "exited", "crashed"} /\ UNCHANGED vars

-----------------------------------------------------------------------------
Program == UiCreate \/ CreateFails \/ ShowWelcome \/ UiLoop \/ UiDelete
User == PressNext \/ RequestClose \/ AnswerNo \/ AnswerYes
Next == Program \/ User \/ Idle

\* Messages that are there get handled; the user owes the program nothing.
Spec == Init /\ [][Next]_vars /\ WF_vars(Program)

-----------------------------------------------------------------------------
(* Properties                                                              *)

\* Every variable keeps its type; message boxes are open only over the
\* background window.
TypeOK ==
    /\ pc \in {"start", "welcome", "loop", "delete", "exited", "crashed"}
    /\ ui \in BOOLEAN /\ quit \in BOOLEAN
    /\ held \subseteq Resources
    /\ active \in 0..MaxDialogs /\ made \in 0..MaxDialogs
    /\ id \in Ids
    /\ boxes \in 0..MaxBoxes /\ (boxes > 0 => MainOpen)

\* Whatever fails and however the messages of nested loops interleave, the
\* active dialog is the only one: its pointer is never dangling, no other
\* dialog exists, and its window exists as long as the background window.
OneDialog ==
    /\ \A d \in 1..MaxDialogs :
         /\ Mem(d) \in held <=> active = d
         /\ Win(d) \in held => active = d /\ MainOpen
    /\ MainOpen /\ active # 0 => DialogOpen

\* The message loop does not outlive the background window: once the user has
\* confirmed, in whichever of the nested boxes, the program ends.
ConfirmedExit == pc = "loop" /\ ~MainOpen ~> pc = "exited"

\* Ui.h on UiDelete: "Deletes and frees the component of an Ui structure".
ComponentsFreed ==
    pc = "exited" => \A d \in 0..MaxDialogs : Mem(d) \notin held
=============================================================================
