SPECIFICATION EvaluationSpec
CONSTANTS
    f1 = f1
    f2 = f2
    Fields <- const_Fields
    MaxChanges = 1
    MaxMisreads = 1
SYMMETRY Symmetry
INVARIANTS
    VerdictExplained
    AnswersAgree
    EventCode
CHECK_DEADLOCK FALSE
