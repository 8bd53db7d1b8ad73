CONSTANTS
    Procs = {sh, p1}
    Shell = sh
    SCREEN_WIDTH = 2
    SCREEN_HEIGHT = 5
    MaxCalls = 4
    Texts <- MCTexts
SPECIFICATION MCSpec
INVARIANTS Shown  ConversionsAgree  
CHECK_DEADLOCK FALSE
