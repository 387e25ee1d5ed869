---------------------------- MODULE DidLifecycle ----------------------------
(* The life of a DID through all the programs, over one bitcoind and chain.so *)
(* that move between any two of their calls: createBtcrDid creates it,        *)
(* txid2txref names it with the txid and txoIndex that createBtcrDid printed  *)
(* (src/src/createBtcrDid.cpp:383), and then, side by side, its owner updates *)
(* it with createBtcrDid and the txref, and somebody resolves it.             *)
EXTENDS Bitcoind

CONSTANTS
    CreateArgs,     \* command lines that create a DID, as CreateBtcrDid's
    UpdateArg,      \* the command line of the update, but for the txref
    Others,         \* as in CreateBtcrDid
    AfterData,
    ScriptAddress,
    Wallet,
    DustLimit,
    MaxReorg        \* as in Txid2Txref

VARIABLES
    createArg,                                  \* the command line of the creation
    pc, spent, amount, tx, sent, dropped,       \* CreateBtcrDid's
    namePc, blockHash, warned, txref,           \* Txid2Txref's
    step, txid, pos, known, tipPc, start, cur,  \* DidResolver's
    next, attempt, answer, disturbed, reorganised,
    settled     \* history, read by no step: since the resolver began, the update
                \* has been in the active chain and known to chain.so

creatorVars == <<createArg, pc, spent, amount, tx, sent, dropped>>
namerVars == <<namePc, blockHash, warned, txref>>
resolverVars == <<step, txid, pos, tipPc, start, cur, next, attempt, answer,
                  disturbed, reorganised>>
vars == <<nodeVars, creatorVars, namerVars, known, resolverVars, settled>>

-----------------------------------------------------------------------------
(* What each program is given by the one before, as its users pass it on.     *)
Named == namePc = "encoded" /\ ~warned
Name == CHOOSE ref \in txref : TRUE

Arg == [p \in {"creator", "updater"} |->
          IF p = "creator" THEN createArg
          ELSE IF Named
          THEN [UpdateArg EXCEPT !.net = Name.net, !.height = Name.height,
                                 !.index = Name.index, !.vout = Name.vout]
          ELSE UpdateArg]
Did == IF Named
       THEN [form |-> "btcr", net |-> Name.net, height |-> Name.height,
             index |-> Name.index, vout |-> Name.vout]
       ELSE [form |-> "none"]

Creator == INSTANCE CreateBtcrDid WITH
    Run <- {"creator", "updater"}, Args <- {[p \in {"creator", "updater"} |-> a] : a \in CreateArgs},
    arg <- Arg, disturbed <- dropped
Output == IF tx["creator"] = {} THEN <<Genesis, 0>>
          ELSE <<CHOOSE t \in tx["creator"] : TRUE, Creator!PrintedTxoIndex>>
Namer == INSTANCE Txid2Txref WITH
    Queries <- {}, encoder <- "encodeTxid", query <- Output,
    pc <- namePc, decoder <- network, decoded <- {}
Resolver == INSTANCE DidResolver WITH
    Dids <- {}, MaxAttempts <- 1, did <- Did

(* What a command line makes of an output that bitcoind lets it spend.        *)
Makes(a, o) ==
    /\ o[1] # Genesis /\ o[2] \in PayOutputs(o[1])
    /\ Creator!CreatesRaw(a, Creator!OutputOf(o).amount) /\ Creator!Signs(a, o)
Made(a, o) == Creator!Transaction(a, o, Creator!OutputOf(o).amount)

(* Txid has what the owner makes, and nobody else makes it, as he has the     *)
(* key; others spend what others made. The rest is as in the three modules.   *)
ASSUME LifecycleAssumption ==
    /\ Creator!AreRecords /\ Creator!AreCommands
    /\ UpdateArg \in [query : {"txref"}, net : STRING, height : Nat, index : Nat,
                      vout : OutputNo, txid : Txid, txoIndex : Int, address : STRING,
                      key : STRING, fee : Int, dryrun : BOOLEAN]
    /\ MaxReorg \in 0..5 /\ \A t \in Txid : 0..Len(t.out) \subseteq OutputNo
    /\ \A t \in Others : \A o \in Inputs[t] : o[1] \in Others
    /\ \A a \in CreateArgs : \A o \in Creator!NamedPlaces(a) : Makes(a, o) =>
          /\ Made(a, o) \in Txid \ Others
          /\ LET d == <<Made(a, o), Creator!PrintedTxoIndex>> IN
             Makes(UpdateArg, d) => Made(UpdateArg, d) \in Txid \ Others

Init ==
    /\ NodeInit
    /\ network = "test"
    /\ View \subseteq Others
    /\ sent = Others
    /\ createArg \in CreateArgs
    /\ pc = [p \in {"creator", "updater"} |-> "connect"]
    /\ spent = [p \in {"creator", "updater"} |-> <<Genesis, 0>>]
    /\ amount = [p \in {"creator", "updater"} |-> 0]
    /\ tx = [p \in {"creator", "updater"} |-> {}]
    /\ dropped = [p \in {"creator", "updater"} |-> FALSE]
    /\ namePc = "getRawTransaction" /\ blockHash = {} /\ warned = FALSE /\ txref = {}
    /\ step = "connect" /\ txid = Genesis /\ pos = <<0, 0>>
    /\ known = Confirmed
    /\ tipPc = "idle" /\ start = <<Genesis, 0>> /\ cur = start
    /\ next = {} /\ attempt = 1 /\ answer = {}
    /\ disturbed = FALSE /\ reorganised = FALSE /\ settled = FALSE

-----------------------------------------------------------------------------
Updated == tx["updater"] # {} /\ tx["updater"] \subseteq Confirmed \cap known

Settle == settled' = (Updated' /\ (settled \/ step = "connect"))

BitcoindMoves ==
    /\ UNCHANGED <<createArg, namerVars>>
    /\ Creator!BitcoindMoves
    /\ Namer!BitcoindMoves
    /\ Resolver!BitcoindMoves
    /\ Settle

ChainSoMoves ==
    /\ UNCHANGED <<creatorVars, namerVars>>
    /\ Resolver!ChainSoMoves
    /\ known' \subseteq sent
    /\ Settle

Create ==
    /\ UNCHANGED <<createArg, namerVars, known, resolverVars>>
    /\ Creator!Program("creator")
    /\ Settle

NameIt ==
    /\ pc["creator"] = "submitted"
    /\ UNCHANGED <<nodeVars, creatorVars, known, resolverVars>>
    /\ Namer!EncodeGetRawTransaction \/ Namer!EncodeGetBlock \/ Namer!RpcFails
    /\ Settle

Update ==
    /\ Named
    /\ UNCHANGED <<createArg, namerVars, known, resolverVars>>
    /\ Creator!Program("updater")
    /\ Settle

Resolve ==
    /\ Named
    /\ UNCHANGED <<creatorVars, namerVars>>
    /\ Resolver!Program \/ Resolver!RpcFails \/ Resolver!Follow
    /\ Settle

Next == BitcoindMoves \/ ChainSoMoves \/ Create \/ NameIt \/ Update \/ Resolve

Spec == Init /\ [][Next]_vars

-----------------------------------------------------------------------------
Printed == Resolver!Outcome = "printed"

(* A DID that was named without the warning is its owner's for good: whatever *)
(* reorganisations of less than 6 blocks do to the chain between and within   *)
(* the programs, it resolves to nothing but the transaction that created it   *)
(* or the one that updated it.                                                *)
ResolvesToItsOwners ==
    Printed => Resolver!LastTxid \subseteq tx["creator"] \cup tx["updater"]

(* And an update by the txref spends the output of the DID, never another     *)
(* output its owner has the key of.                                           *)
UpdateSpendsTheDid ==
    \A t \in tx["updater"] : t.in = {Output}

(* An update that both services have, from before the resolver begins until   *)
(* it prints, is what it prints: neither bitcoind's answer nor the chain of   *)
(* web requests takes it back to an older version.                            *)
LatestIsResolved ==
    Printed /\ settled => Resolver!LastTxid = tx["updater"]
=============================================================================
