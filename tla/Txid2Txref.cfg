SPECIFICATION Spec
CONSTANTS
    Txid <- MCTxid
    OutputNo <- MCOutputNo
    Outputs <- MCOutputs
    OpReturn <- MCOpReturn
    Inputs <- MCInputs
    Chains <- MCChains
    Genesis = "g"
    MaxMempool = 1
    Queries <- MCQueries
    MaxReorg = 5
INVARIANTS TypeOK NoWarningMeansForEver RoundTrip NamesAnOutput
