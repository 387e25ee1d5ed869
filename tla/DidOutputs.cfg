SPECIFICATION Spec
CONSTANTS
    Precision = 10
    Scale = 16
    IntBits = 12
    SATOSHIS_PER_BTC = 10
    Values <- MCValues
    Fees <- MCFees
    MAX_OP_RETURN_LENGTH = 5
    DdoRefs <- MCDdoRefs
INVARIANTS TypeOK FeeIsTheOneAsked AffordableIsAccepted ReferenceArrives
CHECK_DEADLOCK FALSE
