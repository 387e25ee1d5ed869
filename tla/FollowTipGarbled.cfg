SPECIFICATION Spec
CONSTANTS
    Txid <- MCTxid
    OutputNo <- MCOutputNo
    Outputs <- MCOutputs
    OpReturn <- MCOpReturn
    Inputs <- MCInputs
    MaxAttempts = 2
INVARIANT NoReplyIsFatal
