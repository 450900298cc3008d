SPECIFICATION FairSpec
CONSTANTS
    a = a
    ac = ac
    b = b
    other = other
    Width = 4
    Height = 4
    Bare <- const_Bare
    Contained <- const_Contained
    ShortTokens = {b}
    Floor = 70
    MaxLow = 30
    MinAverage = 85
    MinWords = 3
    DenseWords = 7
    MaxReceives = 3
    Cases <- const_Cases
INVARIANTS
    BlurAsDescribed
    AnswersGrounded
    PrimaryDecides
PROPERTY CompareCompletes
CHECK_DEADLOCK FALSE
