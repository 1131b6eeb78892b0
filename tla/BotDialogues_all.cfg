SPECIFICATION Spec
CONSTANTS
    Slot = {s1, s2}
    User = {u1, u2}
    Creator = Creator
    Target = {t1, t2}
    NoOne = NoOne
    Menus <- MixedDialogues
    MaxPasses = 2
    MaxBeside = 1
    MaxDoubts = 1
SYMMETRY Symmetry
INVARIANT TypeOK
INVARIANT WizardIsAccepted
INVARIANT OneRecordPerPass
INVARIANT AnswersGoWhereAsked
CHECK_DEADLOCK FALSE
