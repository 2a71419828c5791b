\* The two dialogs of the wizard, message boxes six deep.
SPECIFICATION Spec
CONSTANTS
    MaxDialogs = 2
    MaxBoxes = 6
INVARIANTS OneDialog
PROPERTY ConfirmedExit
