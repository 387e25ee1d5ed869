SPECIFICATION Spec
CONSTANTS
    Txid <- MCTxid
    OutputNo <- MCOutputNo
    Outputs <- MCOutputs
    OpReturn <- MCOpReturn
    Inputs <- MCInputs
    Chains <- MCChains
    Genesis = "g"
    MaxMempool = 2
    Dids <- MCDids
    MaxAttempts = 2
INVARIANT ResolvesOwnNetworkOnly
