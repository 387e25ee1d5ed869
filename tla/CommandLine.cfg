SPECIFICATION Spec
CONSTANTS
    Text <- MCText
    Garbage <- MCGarbage
    CommandLines <- MCCommandLines
    Disks <- MCDisks
    DefaultConfig <- MCDefaultConfig
    Stoi <- MCStoi
    Stod <- MCStod
INVARIANTS TypeOK ConfiguredAsDocumented DryRunIsHeard PortGivenIsPortUsed
CHECK_DEADLOCK FALSE
