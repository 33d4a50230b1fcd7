SPECIFICATION FilterSpec
CONSTANTS
    Patterns <- Texts
    Known <- Sensible
    Identifiers <- Words
    ARRAY_SIZE = 2
    Code <- Ascii
INVARIANTS FragmentsAccounted RejectsMalformed FilterMeaning
CHECK_DEADLOCK FALSE
