# Verification of the BTCR DID tools

TLA+ specifications of the programs in `src/src`: `didResolver`, `createBtcrDid`
and `txid2txref`, which resolve, create and name decentralised identifiers that
live on the Bitcoin block chain. The modules are translated from the C++ code;
TLC checks them on small instances, and TLAPS proves the safety properties of all
modules for every graph of transactions, every chain, any number of runs, every
command line, every amount and fee, and doubles of any precision.

## 1. The system

A DID is `did:btcr:<txref>`. A *txref* encodes a network, a block height, the
index of a transaction in that block and an output number (`txoIndex`, `vout`).
A DID is created by a transaction with an output to an address (the DID's
control) and an OP_RETURN output (a reference to a document). It is updated by
a transaction that spends the control output; the current version is the last
transaction of that chain, the *tip*.

The programs are sequential and keep no state between runs. What makes them
hard is what they look at: a `bitcoind` that mines and reorganises, and a web
service, chain.so, with an index of its own, both read one call at a time.
Nothing a program has been told need still hold when it uses it.

| component | source | state it keeps | operations | talks to |
|---|---|---|---|---|
| chain query | `chainQuery.h`, `chainSoQuery.cpp` | the recursion's txid, output, retry count | `getLastUpdatedTxid`, `determineNextUtxoIndex`, `extractLastUpdatedTxid`, `retrieveJsonData` | chain.so, through `CurlWrapper` |
| web download | `curlWrapper.cpp` | the text received so far | `download` | libcurl |
| didResolver | `didResolver.cpp` | the txid found, its position | connect, look the txref up, ask whether it is spent, follow | bitcoind, chain query |
| domain classes | `domain/*.cpp` | immutable values | the constructors of `Did`, `Txref`, `Txid`, which call bitcoind | RPC facade |
| createBtcrDid | `createBtcrDid.cpp` | what to spend, its amount, the transaction | decode, `gettxout`, build, sign, send | bitcoind |
| txid2txref | `txid2txref.cpp`, `t2tSupport.cpp` | block hash, position | `encodeTxid`, `decodeTxref` | bitcoind |
| RPC facade | `bitcoinRPCFacade.cpp` | a connection | two ports, nine calls, a faked genesis transaction | bitcoind |
| OP_RETURN data | `encodeOpReturnData.cpp` | none | hex of at most 80 bytes | |
| satoshis | `satoshis.h` | none | BTC to satoshis and back | |
| command lines | `parseCommandLineArgs`, four copies; `external/anyoption` | options, positional arguments | two passes over the command line, `bitcoin.conf` between them | RPC facade |
| didVerifier | `didVerifier.cpp` | none | a skeleton | bitcoind |

Hard behaviours: replies given by different states of the same service; a
reorganisation between two calls; two services that disagree; retries without
an end; other runs spending the same output; a transaction that was accepted
while its reply was lost; replies that are not what the parser expects; and
boundaries (confirmations, output numbers, 80 bytes, dust). No program stores
anything or runs threads, so there is no crash recovery and no data race.

What makes each component correct:

- chain query: the txid returned is the tip of the DID; errors have a cause;
  every call ends.
- didResolver: what it prints belongs to the DID it was given, whichever service
  it came from; it asks the chain.so of its bitcoind's network; position and network are those of the DID.
- createBtcrDid: it spends what it was told to spend, reports at most one
  update of an output, and followers of the DID arrive at its new output with
  all the change.
- txid2txref: a txref names its transaction and keeps naming it.
- amounts and data: the fee paid is the fee asked for, to the satoshi; a fee that
  can be paid is not refused; the reference arrives byte for byte.
- all programs together: a DID stays its owner's, and shows its last update.
- command lines: the parameters are those the usage text promises; a dry run is
  heard; a port that is given decides the network.

## 2. The modules

| module | models | state and actions |
|---|---|---|
| `TxGraph` | transactions as constants (outputs, OP_RETURN outputs, inputs), ledgers, what following a DID means | operators only: `Ledger`, `Hop`, `Reach`, `Tips`, `DeadEnd` |
| `TipQuery` | the promise of `ChainQuery::getLastUpdatedTxid` (`chainQuery.h:34-48`), as one step | `Ask`, `Answer`, `Fail`, `Abort`, `LedgerMoves` |
| `FollowTip` | `chainSoQuery.cpp`: the same call, one web request at a time | below |
| `Bitcoind` | the external bitcoind: active chain, mempool, network, and the calls the facade passes on | `NodeMoves`, `GetRawTransaction`, `GetTxOut`, `BlockHash`, ... |
| `DidResolver` | `didResolver.cpp` and `domain/`, over `Bitcoind` and an instance of `FollowTip` | `Connect`, `LookUp`, `Exists`, `ExtractDetails`, `PrintOwn`, `AskChainSo`, `Follow`, `RpcFails` |
| `CreateBtcrDid` | several runs of `createBtcrDid.cpp` over one `Bitcoind` | `Connect`, `DecodeTxref`, `LookAtOutput`, `Build`, `Send`, `SendReplyLost`, `Rejected`, `RpcFails` |
| `DidOutputs` | `satoshis.h` and `encodeOpReturnData.cpp`, and how `createBtcrDid` uses them: from the texts of an amount, a fee and a reference to the texts of the outputs | `ReadAmount`, `ComputeChange`, `AddOutputs`, `Send` |
| `Txid2Txref` | `t2tSupport.cpp` and the class `Txref`: a run that encodes with the one or the other, and a later one that decodes what the first printed | `EncodeGetRawTransaction`, `EncodeGetBlock`, `TxidExists`, `TxidGetBlock`, `TxrefOfTxid`, `DecodeStart`, `DecodeGetBlockHash`, `DecodeGetBlock`, `RpcFails` |
| `DidLifecycle` | the three programs over one bitcoind and chain.so: instances of `CreateBtcrDid`, `Txid2Txref` and `DidResolver` | `Create`, `NameIt`, `Update`, `Resolve`, `BitcoindMoves`, `ChainSoMoves` |
| `CommandLine` | the start of all four programs: `parseCommandLineArgs`, what it uses of anyoption, and the facade's constructor | `FirstPass`, `ReadConfig`, `SecondPass`, `Interpret`, `Connect`, `ConnectTestnet` |
| `BitcoindProofs` | lemmas about chains, blocks and places | |
| `FollowTipProofs`, `DidResolverProofs`, `Txid2TxrefProofs`, `CreateBtcrDidProofs`, `DidLifecycleProofs`, `CommandLineProofs`, `DidOutputsProofs` | inductive invariants, theorems and proofs, each about the module of its name | section 4 |
| `MCFollowTip`, `MCDidResolver`, `MCCreateBtcrDid`, `MCDidOutputs`, `MCTxid2Txref`, `MCCommandLine`, `MCDidLifecycle` | the instances TLC checks | |

**FollowTip.** One action per reply of chain.so. `Call` is the outer
`getLastUpdatedTxid`; `cur` holds txid and utxoIndex of the innermost one;
`pc = "isSpent"` and `pc = "getTx"` are its two requests. `Throttled` is
`retrieveJsonData` asking again after an empty reply or "Too many requests".
`NothingFound`, `NotSpent`, `Spent` are the three outcomes of `is_tx_spent`
(`chainSoQuery.cpp:249-266`), `NoNextOutput` and `Recurse` those of `get_tx`
(`203-235`, `269`). `Garbled` and `Incomplete` are replies the JSON code cannot
use; the second differs between the two functions because one of them indexes a
const object. Between any two actions the index grows (`IndexGrows`) or is
rewritten (`IndexRewritten`) to any set of transactions that consensus allows.

The retry counter is bounded by `MaxAttempts`; it is only a waiting time.
Transactions are identifiers with fixed inputs and outputs, because a txid is a
hash of them. `disturbed` is a history variable that no action reads.

**DidResolver.** One action per call to bitcoind. `getblockhash` followed by
`getblock` is one action, because a block hash commits to all the block holds;
the second look-up by txid (`Txid::extractTransactionDetails`) is a step of its
own, because it reads the active chain again. `network` is chosen in `NodeInit`:
the facade takes whichever of the two ports answers. `Follow` takes
`FollowTip`'s steps; after `PrintOwn`, or when the query returned or threw, the
run is over, as the rest of `main` is comments.

**CreateBtcrDid.** A transaction is the record of what it spends and creates, so
that equal contents are equal txids and a run can spend what another made.
`getaddressinfo`, `createrawtransaction` and `signrawtransactionwithkey` read no
chain state and are one action, `Build`. `Signs` needs the output's key, and for an
address of a script the script, which `extractRedeemScript` passes on for one type
only and bitcoind tells only of addresses its wallet knows. (The witness program
passed on as `witnessScript` plays no part for the addresses of a key, so it is left
out.) A failure of any of them is `RpcFails`
or the failing branch of `Build`. The order of the outputs is that of the keys of
the `std::map` they are put in. The assertion on the number of addresses is
enabled: no build file defines `NDEBUG`. `sendrawtransaction` is taken by bitcoind
or not; if taken, the reply comes (`Send`) or is lost (`SendReplyLost`).

**Txid2Txref.** `encodeTxid` asks for the transaction and then for its block,
with the chain moving in between. bitcoind keeps blocks that were replaced and
gives them -1 confirmations. The environment replaces at most `MaxReorg` blocks
at a time, by more blocks than it takes away, as the rule of most work has it.
The second run may use a bitcoind of another network, with some other chain.
The txref string is its content, as libtxref is external. The class `Txref` makes
one call more than `encodeTxid`, checks the output number in another way and never
warns; `encoder` says which of the two the first run uses.

**DidOutputs.** A double is an integer, a multiple of 2^-`Scale`, and `Double` rounds a
quotient to the nearest one with `Precision` significant bits, as IEEE 754 has it;
`btc2satoshi` rounds three times (the text, the product, the sum with a half) before it
truncates. `TwoTo` are the powers of two, a function on the exponents up to `MaxBits`, which
bounds the doubles in play: a fee of 2^64 satoshis either way, twice what `int64_t`
holds, is one. A value that `int64_t` does not hold is undefined in C++: `Int64` chooses
between what x86 and ARM do. A decimal text is the number of satoshis it says, as bitcoind
prints and reads eight decimals. Whether `char` is signed is the compiler's choice, and
chosen in `Init`, and so is whether bitcoind's version takes an empty string for the "data"
of an output (`emptyIsHex`): the repository does not say, and versions may differ.
`std::stod`'s "nan" and "inf" are left out.

**DidLifecycle.** Each program is an instance of its module with a part of the
variables; what one program prints becomes the command line of the next one
(`Output`, `Name`, `Arg`, `Did`). One move of bitcoind is a move in all three. The
owner passes on a txref only if it was printed without the warning. The update
and the resolver then run side by side. Each program is run once.

**CommandLine.** An argument is a tuple that says what the parser takes it for: a
word, `--name`, `--name=w`, or letters after one dash, each of which may set a flag
(`parsePOSIX`; no program declares a letter for an option). One pass over the command
line is a fold of `TakeArg`: an option takes the next argument whatever it looks like, an unknown
option is ignored but the word after it is not, and an option at the end has no
value. The same fold runs before and after the file. `LinesRead` is what
`readFile` and `consumeFile` make of a file: the buffer has no terminator, so the
last line of a file without a final newline is lost, or read by luck, or runs on into
what memory holds and becomes one of `Garbage`. (Memory is taken to hold no option of its
own, and no "=" that makes a pair of a line that is none.) The
copies differ in their options, flags and number of positional arguments, which
`program` selects. `Stoi` and `Stod` say which arguments convert. In the facade,
whether a port answers is decided at each attempt.

Not modelled: logging, formatting, URLs and JSON text except where a property is
about them (the printed txoIndex, the digits of amounts and data);
`ChainSoQuery::getUnspentOutputs`, which is marked deprecated and never called; the
case of letters in txids and DIDs (`Txid` and `Did` make them lower case, `encodeTxid`
does not); what no program uses of anyoption; third-party code. Nothing else of
`src/src` changes state. `PROJECT.json` maps every definition to the lines it stands
for.

## 3. The runs

| run | module, cfg | shows |
|---|---|---|
| `follow_tip` | `MCFollowTip`, `FollowTip.cfg` | `TypeOK`, `CursorOnPath`, `CursorFound`, `AnswerIsTheTip`, `FailsForCause`, `ImplementsTipQuery`, `CallEnds`, `FindsTheTip` |
| `follow_tip_garbled` | `MCFollowTip`, `FollowTipGarbled.cfg` | violated: `NoReplyIsFatal` |
| `resolver` | `MCDidResolver`, `DidResolver.cfg` | `TypeOK`, `PositionTruthful`, `AnswerBelongsToDid`, `UsesFollowTip`, `QueryFailsForCause`, `RunEnds` |
| `resolver_network` | `MCDidResolver`, `DidResolverNetwork.cfg` | violated: `ResolvesOwnNetworkOnly` |
| `creator` | `MCCreateBtcrDid`, `CreateBtcrDid.cfg` | `TypeOK`, `SpendsWhatIsNamed`, `OneUpdatePerOutput`, `DryRunSendsNothing`, `FollowersReachChange` |
| `creator_index` | `MCCreateBtcrDid`, `CreateBtcrDidIndex.cfg` | violated: `PrintedIndexIsTheDid` |
| `outputs` | `MCDidOutputs`, `DidOutputs.cfg` | `TypeOK`, `FeeIsTheOneAsked`, `AffordableIsAccepted`, `ReferenceArrives` |
| `outputs_utf8` | `MCDidOutputs`, `DidOutputsUtf8.cfg` | violated: `DataIsTheReference` |
| `command_line` | `MCCommandLine`, `CommandLine.cfg` | `TypeOK`, `ConfiguredAsDocumented`, `DryRunIsHeard`, `PortGivenIsPortUsed` |
| `txref_round_trip` | `MCTxid2Txref`, `Txid2Txref.cfg` | `TypeOK`, `NoWarningMeansForEver`, `RoundTrip`, `NamesAnOutput` |
| `txref_vout` | `MCTxid2Txref`, `Txid2TxrefVout.cfg` | violated: `VoutIsVerified` |
| `lifecycle` | `MCDidLifecycle`, `DidLifecycle.cfg` | `ResolvesToItsOwners`, `UpdateSpendsTheDid`, `LatestIsResolved` |

**Bounds.** `FollowTip`: six transactions, a path of four, with OP_RETURN first, in the
middle of the numbering and alone, a double spend, and a transaction of two
inputs: every kind of hop and of dead end occurs, and every ledger over them.
`MaxAttempts = 2` distinguishes a first from a repeated request. `DidResolver`:
five chains that add, replace, move and remove the transactions of a DID, and
seven DIDs: unspent, updated, OP_RETURN, absent output, genesis, a block that is not there,
and no DID at all. `MaxMempool` bounds the mempool that the environment picks; two is an update
and an update of that. `CreateBtcrDid`: two runs, since every conflict is between two; ten
pairs of command lines reach every branch, among them two runs on one output with different
addresses, the same command line twice, a run updating the DID the other creates,
a dry run beside a real one, and outputs to scripts that the wallet knows and does not know. `Txid2Txref`: up to 9 blocks, so that a
block gets 6 confirmations and 5 blocks above it are still replaced by more;
this is the smallest instance in which an off-by-one of the code's 6 shows. `CommandLine`: every pair of nineteen
pieces (each option and flag, repeated, grouped, without a value, with a wrong one, with
`=`, unknown) around none to four positional arguments, four programs, and four
pairs of files, with and without a final newline. A piece is one to four arguments, so that
an option meets every kind of neighbour, and one that lacks its value every other. The last
line of one file is a port that a digit in memory makes another number.
`ConfiguredAsDocumented` compares the two passes and the file between them with a
definition by positions, for command lines that keep to the usage text: host, user,
password, port, txoIndex, the dry run and the words. It excepts what the last line of a
file names if that line has no newline and the command line does not overrule it
(`OptionOpen`, `FlagsOpen`), which the code loses (section 5); every other line counts,
and every other setting is right. The other two hold of every command line or every file. The run may stop:
a program that is connected, refused or has printed its usage takes no further step.
`DidOutputs`: every amount from 0 to 238 and fees in quarters of a satoshi up to 40 satoshis and
from 150 to 170, negative ones, and ones around and beyond the bound of the integers. Doubles have 10
bits: all the money there can be, 2.1e15 satoshis, is .233 of 2^53, and 238 is .233 of
2^10, so that every amount is as near to the end of the precision as it can be in the
program. 10 satoshis to the bitcoin, like 1e8, is no power of 2, so that most amounts
are not exact. The fees from 150 on are those whose fractions a double no longer has: there
the fee paid can be three quarters of a satoshi off, as `FeeIsTheOneAsked` allows, and below
an eighth of the precision it is off by half a satoshi at most. (In the program that is a fee of
11 million bitcoins with a fraction of a satoshi.) References are up to 6 bytes with a limit of 5, of bytes that need a
leading 0, that are the last ASCII one, and that are above. The run ends when the
transaction is sent. `DidLifecycle`: chains in which the creation has 1, 5, 6 and 8
confirmations, and forks of up to 5 blocks that put it elsewhere or another payment to
the same owner in its place; output numbers 0 to 2; two output addresses, one before "data" and one after; one
retry of chain.so's answers, as `MaxAttempts` only tells a repeated request from a first
one.

**Fairness.** `FollowTip!Fairness` is weak fairness of the replies that are not
asked for again: the program repeats a request for ever (`retrieveJsonData` has
no limit), ever more rarely, so that a rate limit lets some through. No fairness is asked
of the index. The resolver adds weak fairness of its calls to bitcoind, which
answer or fail. The other runs check safety only.
`CallEnds` holds although the recursion has no bound in the code: transactions
that spend one another cannot form a cycle, and a rewritten index cannot add to
the finite graph. It would not hold of a graph that grows as fast as it is followed.

**Mutants.** For every property of a passing run, `PROJECT.json` names a mistake
(an operator commented "Mistake:" beside the definition it would replace) under
which that property fails: the last output instead of the first, OP_RETURN not
skipped, a retry that gives up, one confirmation too few, `--txoIndex` used
instead of the encoded one, a refusal of bitcoind not looked at, a fraction cut off where
it is rounded, a hex digit without its leading 0, and so on. The operators are used
nowhere else. `lifecycle` is checked with mistakes in the programs it is made of.

## 4. The theorems

`PROJECT.json` lists the theorems. All safety properties that the passing runs check are
theorems; at the end of this section is what is only model-checked.

**Assumptions.** They are named, stand in the modules that declare the constants, and TLC
evaluates them in every run.

- `GraphAssumption`: outputs are numbered by naturals; inputs spend outputs that exist and
  are not OP_RETURN. `MaxAttemptsAssumption`: there is at least one attempt. Nothing is
  assumed of the shape or the size of the graph.
- `ChainsAssumption`: an active chain starts with the genesis block, its transactions are a
  ledger (consensus), and no transaction is in it twice. `DidsAssumption`: what a DID
  encodes are naturals.
- `Txid2TxrefAssumption`: what is asked for is a txid and a number; transactions have finitely
  many outputs, numbered from 0; and `MaxReorg <= 5`. The last one is not about the code: it is
  what the 6 in `encodeTxid` relies on, and `NoWarningMeansForEver` is false without it.
- `RecordsAssumption`, `ArgsAssumption`, `MadeAssumption`: transactions are the records of
  what they spend and create; command lines give numbers where numbers are read, and no
  address is the word "data" or "multi"; the transactions that runs make are among those
  there are, and others make none of them, as they have not the keys.
- `LifecycleAssumption`: those of the three programs, and that other people's transactions do not spend
  what does not exist yet.
- `OutputsAssumption`: an `int64_t` has more bits than a double (64 and 53); a satoshi is no
  less than eight of the units doubles are counted in, which is a matter of choosing
  `Scale`; four times an output's value, and 16 more, is at most 2^`Precision`: all the money
  is 2.1e15 satoshis, and 2^53 is 9.0e15; a fee is at most 2^64 satoshis either way.
- `CommandLineAssumption`: arguments and lines have the forms of the module, and so has what a
  line becomes that memory goes on with; a path leads
  to at most one file; what `std::stoi` converts is a number.

**`FollowTipProofs`.** First, of the graph: `ReachIsLeast`, `HopIsReached`, `HopIsUnique`: a ledger spends an output
once, so the next place of a DID is unique, and `Reach` is closed under it. `TipIsUnique`: a
DID has at most one tip in a ledger. Of two reached, unspent outputs, each is reached from
every place on the path, and nothing but itself is reached from an unspent output.

Then of the query: `FollowTipTypes`, `CursorStaysOnPath` and `CursorIsInIndex`: the
conjunction `Inv` of the three is inductive. `CursorOnPath` quantifies over all ledgers, not only the present index: this is
what survives a rewriting of the index, since a ledger that has a transaction has the ones it
spends (`AncestorsKnown`). A cursor that is merely on the path in the present index would not
be inductive. `AnswersWithTheTip` and `FailsOnlyForCause` are the two action properties, from
the invariant and `TipIsUnique`. `FollowTipImplementsTipQuery` is the refinement `TipQuery` <-
`FollowTip` with `asked <- start`, `outcome <- IF pc \in Asking THEN "waiting" ELSE pc`.
Answers that were read from different indexes add up to one that the last index gives.

**`DidResolverProofs`.** The module instantiates `FollowTipProofs` as `didResolver` uses the
query, and shows that its assumptions hold there. `AtItsPlace` says that the transaction
looked up is at the DID's place until blocks are replaced (for `ResolverPosition`); `AsksAboutDid`
and `AnswerOnPath` tie the query's start and answer to it (for `ResolverAnswer`). A move of
bitcoind between the two look-ups keeps `PositionTruthful` because a chain that only grew extends
the shorter one. `ResolverUsesFollowTip`: every step is one of FollowTip's or leaves its
variables alone; with it, `AnswerIsTheTip` holds of the query inside the resolver
(`ResolverAnswersWithTheTip`), and so does `FailsForCause`, from which
`ResolverQueryFailsForCause` follows: the index that has no tip is that of bitcoind's network.

**`Txid2TxrefProofs`.** `DeepEnough` is the strengthening of `NoWarningMeansForEver`: the place of a
txref printed without the warning is in the chain less its last 5 blocks. Replacing at
most 5 blocks by more keeps it, and a bound of 6 would not be kept. `BlockHasQuery` says that
the block asked for has the transaction, though the chain may have moved since; from it and
the confirmations read with the block, `NotTooFew` derives how deep the block is. `SameNetwork` and
`RightBlock` do the same for the run that decodes (`TxrefLeadsBack`).

**`CreateBtcrDidProofs`.** For any number of runs. `SpentIsNamed` and `StillInPlace` give
`SpendsTheNamedOutput`. `NoTwoUpdates` follows from `SubmittedInView`, because what bitcoind
knows of is a ledger (`ViewIsLedger`) and a ledger spends an output once: it is bitcoind that
refuses the second one, and the code that believes it. `SentByRuns` and the equality of equal
transactions (`TransactionFacts`) give `DryRunsAreDry`; `AmountIsRight` and `TxIsMade` say that
the transaction is a function of the command line, which `ChangeIsReached` needs for the
amounts and the order of the outputs.

**`DidLifecycleProofs`.** The three programs over one bitcoind. `NameHolds` is the invariant of
`Txid2TxrefProofs`, instantiated: every move of bitcoind is also one of `Txid2Txref`'s
environment, so the theorem that six confirmations are enough carries over.
`CreatorSpends` (the creation spends what others made), `UpdaterSpends` (the update spends
the output the DID names) and `SentByOwner` (nothing else was sent) leave the update as
the only transaction that can spend the DID's output, and `FollowsDid` is that the resolver is
at the one or the other. `SettledMeans` adds that it is at the update, if both services had it
before it began.

**`CommandLineProofs`.** The parser's loops are folds. `Steps` is induction on numbers, with a
set in the place of a property, from the well-foundedness of inclusion on finite sets;
`FoldExists`, `ParseSteps` and `ReadSteps` give the states of a fold after each argument and
each line. What holds of these states is then shown one argument at a time: which option waits
for a value (`WantsFacts`), the last value of an option (`OptionStep`), whether a flag is set
(`FlagStep`), the words counted so far (`WordStep`), and the same of the lines of a file. The
invariant says what is known after the first pass, the file and the second pass.
`Follows` says what is read of a file that does not end in a newline: all lines but the last as
they are, and of the last at most one that names what it named (`LinesReadFacts`), so that only
that setting, or the flags, are open (`FollowsFacts`).
`AsDocumented` compares this with the definition by positions; `DryRunHeard` needs nothing of
the command line; `PortGivenUsed` needs nothing of the file.

**`DidOutputsProofs`.** For any precision, width and number of satoshis to the bitcoin that
the assumption allows. `RoundingError`: a double is off by half a unit or by a share of
1 / 2^`Precision` of what was rounded. From it come the two halves of the argument.

- A number within reach of the precision (`FineRoundingError`, `NearSatoshi`): the text, the
  product and the sum with a half are off by so little of a satoshi together that truncation
  gives the satoshi (`AmountExact`), or for a fee in quarters one less than a satoshi away
  (`FeeNear`); and what is printed of a number of satoshis is that number (`PrintedExact`).
- A number beyond it (`Shrinks`, `Grows`): no error is bounded there, but a rounding takes
  away at most one 2^`Precision`-th and one more, so that a large fee stays larger than any
  output's value (`FeeMuch`, `PrintedMuch`), and the change it leaves is negative in the text too.

`Btc2Satoshi` and `TextOfNumber` add the signs. `ChangeFits` puts them together with the
undefined conversion and the subtraction that wraps: whatever becomes of the fee, a change that
is not negative and not above the value pays it, and a fee the output can pay leaves one; a fee
that `int64_t` does not hold leaves a negative change. This is the part `Fits` of the inductive
invariant `Inv`; its part `Faithful` says that the texts given to bitcoind are those of the
numbers (`Texts`). Without it the invariant would say nothing of what is sent.
For the data, `DigitsGrow` and `FlattenDigits` are an induction on the bytes of the reference,
and `BytesOfDigits` reads the hex back. `TypeIsCorrect`, `FeeIsPaid`, `AffordableIsSent` and
`ReferenceIsWhole` follow from the invariant.

**Only model-checked.**

- Liveness (`CallEnds`, `FindsTheTip`, `RunEnds`), which is out of the prover's reach.
- The violations of section 5, which a run shows by a behaviour.

## 5. Where code and documentation disagree

With a run:

1. `chainSoQuery.cpp:91`: a reply that is not JSON ends the program with an
   uncaught exception; the comment at 129-131 says failures are retried
   (`follow_tip_garbled`).
2. `domain/txref.cpp:39`: the resolver ignores the network a DID encodes, and
   resolves it with a bitcoind of another network to an unrelated transaction;
   `t2tSupport.cpp:93-96` reports an error there (`resolver_network`).
3. `createBtcrDid.cpp:260`: the printed txoIndex is 1 whatever the order of the
   outputs; for every address that sorts before "data" (all of mainnet) that is the
   OP_RETURN output (`creator_index`). Following the DID works all the same once it is on
   the chain under the right index (`FollowersReachChange`).
4. `domain/txref.cpp:72`: the class `Txref` takes an output number equal to the number
   of outputs, one beyond the last, where `txref.h:59` says that the number is verified
   (`txref_vout`). `encodeTxid` refuses it (`NamesAnOutput`).
5. `encodeOpReturnData.cpp:19`: where char is signed, a byte above 127 becomes eight hex
   digits, where `encodeOpReturnData.h:6` says UTF-8, hex-encoded (`outputs_utf8`). With
   ASCII, or an unsigned char, the reference arrives (`ReferenceArrives`).

Without a run:

- `anyoption.cpp:988`: a line of `bitcoin.conf` counts when its newline is met, and the buffer
  has no terminator (966-967): a setting in the last line of a file that does not end in a
  newline is lost or becomes another one. `src/README.md:277-279` says that the file can be used
  in place of the `--rpc*` options. Without `OptionOpen` in `ConfiguredAsDocumented`, TLC finds a
  file that ends in `rpcport=18332`, with which a program goes to port 8332, the main network's.
- `encodeOpReturnData.cpp:12` drops a reference of more than 80 bytes without a word
  (`ReferenceArrives` allows that).
- `createBtcrDid.cpp:55` says nothing of `--txoIndex 0` beside a txref that encodes another,
  where the comment at 41-43 wants a message.

**Hazards that no property catches** (`PROJECT.json` lists all, with notes). The position
printed by the resolver after blocks were replaced between its two look-ups: `PositionTruthful`
excepts it, as the code compares nothing. An update by a txref that was printed with the
warning. `-n` after an option that lacks its value, which the option takes: such a command line
breaks the usage text. The choice between the two ports if none was given: both are what the
usage text promises. A query on regtest, whose index chain.so does not have.

## 6. Plan

The modules of the plan are written, checked and proved about. What is left is outside of what
TLC and TLAPS do here: liveness for graphs of every size, and fees beyond 2^64 satoshis, "nan"
and "inf", which would need a model of `std::stod`.
