SPECIFICATION FairSpec
CONSTANTS
    Txid <- MCTxid
    OutputNo <- MCOutputNo
    Outputs <- MCOutputs
    OpReturn <- MCOpReturn
    Inputs <- MCInputs
    MaxAttempts = 2
INVARIANTS TypeOK CursorOnPath CursorFound
PROPERTIES AnswerIsTheTip FailsForCause ImplementsTipQuery CallEnds FindsTheTip
