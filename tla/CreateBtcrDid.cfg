SPECIFICATION Spec
CONSTANTS
    Txid <- MCTxid
    OutputNo <- MCOutputNo
    Outputs <- MCOutputs
    OpReturn <- MCOpReturn
    Inputs <- MCInputs
    Chains <- MCChains
    Genesis <- g
    MaxMempool = 1
    Run <- MCRun
    Args <- MCArgs
    Others <- MCOthers
    AfterData <- MCAfterData
    ScriptAddress <- MCScriptAddress
    Wallet <- MCWallet
    DustLimit = 1
INVARIANTS TypeOK SpendsWhatIsNamed OneUpdatePerOutput DryRunSendsNothing FollowersReachChange
