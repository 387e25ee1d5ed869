SPECIFICATION Spec
CONSTANTS
    Txid <- MCTxid
    OutputNo <- MCOutputNo
    Outputs <- MCOutputs
    OpReturn <- MCOpReturn
    Inputs <- MCInputs
    Chains <- MCChains
    Genesis <- g
    MaxMempool = 1
    CreateArgs <- MCCreateArgs
    UpdateArg <- MCUpdateArg
    Others <- MCOthers
    AfterData <- MCAfterData
    ScriptAddress <- MCScriptAddress
    Wallet <- MCWallet
    DustLimit = 1
    MaxReorg = 5
INVARIANTS ResolvesToItsOwners UpdateSpendsTheDid LatestIsResolved
