---------------------------- MODULE CommandLine ----------------------------
(* How the programs come to their parameters and to their bitcoind:           *)
(* parseCommandLineArgs (a copy in each of src/src/didResolver.cpp,           *)
(* didVerifier.cpp, txid2txref.cpp and createBtcrDid.cpp), the parser it uses *)
(* (src/external/anyoption), and BitcoinRPCFacade's constructor.              *)
(*                                                                            *)
(* An argument is a tuple: <<"word", w>>, <<"--", name>> for --name,          *)
(* <<"--", name, w>> for --name=w, <<"-", cs>> for the letters cs after one   *)
(* dash. A line of a file is <<"pair", name, w>> for name=w, or               *)
(* <<"just", name>>.                                                          *)
EXTENDS Integers, FiniteSets, SequencesExt

CONSTANTS
    Text,           \* the strings names, values and letters are
    Garbage,        \* what a line becomes that goes on with what memory holds
    CommandLines,   \* what argv can be, without argv[0]
    Disks,          \* what a path can lead to, for every path: at most one file
    DefaultConfig,  \* $HOME/.bitcoin/bitcoin.conf; nothing there if no $HOME
    Stoi,           \* the arguments std::stoi converts, with their numbers
    Stod            \* the arguments std::stod converts

Argument ==
    ({"word", "--"} \X Text) \cup ({"--"} \X Text \X Text) \cup ({"-"} \X Seq(Text))
Line == ({"pair"} \X Text \X Text) \cup ({"just"} \X Text)

ASSUME CommandLineAssumption ==
    /\ {"true"} \cup Garbage \subseteq Text
    /\ CommandLines \subseteq Seq(Argument)
    /\ \A d \in Disks : \A path \in {DefaultConfig} \cup DOMAIN d :
          /\ d[path] \subseteq [lines : Seq(Line), terminated : BOOLEAN]
          /\ \A file, other \in d[path] : file = other
    /\ \A v \in DOMAIN Stoi : Stoi[v] \in Int

VARIABLES
    program,        \* which of the programs
    args,           \* argv
    disk,           \* the files
    pc,             \* the step that is next, or how the start ended
    values,         \* AnyOption::values: a set of at most one for every option
    positional,     \* AnyOption::new_argv: the arguments that are no options
    config,         \* RpcConfig and CmdlineInput
    port            \* where bitcoind answered: a set of at most one

world == <<program, args, disk>>
vars == <<world, pc, values, positional, config, port>>

Programs == {"didResolver", "didVerifier", "txid2txref", "createBtcrDid"}

(* What each program declares: setOption, setCommandOption (config), setFlag. *)
FileOptions ==
    {"rpcconnect", "rpcuser", "rpcpassword", "rpcport"}
        \cup (IF program \in {"didResolver", "didVerifier"} THEN {} ELSE {"txoIndex"})
Options == FileOptions \cup {"config"}
FlagsOf == [didResolver |-> {"help", "exitAfterFollowTip"}, didVerifier |-> {"help"},
            txid2txref |-> {"help"}, createBtcrDid |-> {"help", "dryrun"}]
Flags == FlagsOf[program]
LetterFlag(c) == CASE c = "h" -> "help" [] c = "n" -> "dryrun"
                   [] c = "f" -> "exitAfterFollowTip" [] OTHER -> "none"
LongFlag(w) == IF LetterFlag(w) = "none" THEN w ELSE LetterFlag(w)
Declared == Options \cup Flags

Required == IF program = "createBtcrDid" THEN 4 ELSE 1

MainnetPort == 8332
TestnetPort == 18332

Unread == [rpcconnect |-> <<"word", "127.0.0.1">>, rpcuser |-> <<"word", "">>,
           rpcpassword |-> <<"word", "">>, rpcport |-> 0, txoIndex |-> -1,
           dryrun |-> FALSE, input |-> <<>>]

Connecting == {"connect", "connectTestnet", "connected", "noBitcoind"}

TypeOK ==
    /\ program \in Programs
    /\ pc \in {"firstPass", "readConfig", "secondPass", "interpret", "usage", "error"}
                 \cup Connecting
    /\ DOMAIN values = Declared
    /\ \A n \in Declared : Cardinality(values[n]) <= 1
    /\ ToSet(positional) \subseteq ToSet(args)
    /\ config.txoIndex >= -1
    /\ pc \in Connecting => Len(config.input) >= Required
    /\ Cardinality(port) = (IF pc = "connected" THEN 1 ELSE 0)

Init ==
    /\ program \in Programs
    /\ args \in CommandLines
    /\ disk \in Disks
    /\ pc = "firstPass"
    /\ values = [n \in Declared |-> {}]
    /\ positional = <<>>
    /\ config = Unread
    /\ port = {}

-----------------------------------------------------------------------------
True == <<"word", "true">>
Word(w) == <<"word", w>>
IsLong(a) == a[1] = "--"
IsPair(a) == Len(a) = 3

(* parsePOSIX: every letter that is a flag's sets it, and others are skipped; *)
(* no program declares a letter for an option.                                *)
Letters(a) == {LetterFlag(a[2][k]) : k \in DOMAIN a[2]}

(* The options an argument or a line sets by itself, and what to.             *)
Assigns(a) ==
    {n \in Flags : IF IsLong(a) THEN a[2] = n ELSE a[1] = "-" /\ n \in Letters(a)}
        \X {True}
    \cup (IF IsLong(a) /\ IsPair(a)
          THEN (Options \cap {a[2]}) \X {Word(a[3])}
          ELSE {})

(* Mistake: an option takes the next argument even after --name=w.            *)
TakesNextAlways(a) == IF IsLong(a) THEN Options \cap {a[2]} ELSE {}

(* The option whose value is the next argument, whatever that looks like.     *)
TakesNext(a) == IF IsLong(a) /\ ~IsPair(a) THEN Options \cap {a[2]} ELSE {}

Store(vals, as) ==
    [n \in Declared |-> IF \E p \in as : p[1] = n
                        THEN {p[2] : p \in {q \in as : q[1] = n}}
                        ELSE vals[n]]

(* One argument. An option at the end has no value, and is ignored; so is an  *)
(* option that is not known, but not the value that follows it.               *)
TakeArg(s, a) ==
    IF s.wants # {}
    THEN [s EXCEPT !.values = Store(@, s.wants \X {a}), !.wants = {}]
    ELSE [values |-> Store(s.values, Assigns(a)),
          words |-> IF a[1] = "word" THEN Append(s.words, a) ELSE s.words,
          wants |-> TakesNext(a)]

(* Mistake: the second pass goes on where the first one ended.                *)
ProcessCommandArgsGoesOn ==
    LET s == FoldLeft(TakeArg, [values |-> values, words |-> positional, wants |-> {}], args)
    IN  /\ values' = s.values
        /\ positional' = s.words

ProcessCommandArgs ==
    LET s == FoldLeft(TakeArg, [values |-> values, words |-> <<>>, wants |-> {}], args)
    IN  /\ values' = s.values
        /\ positional' = s.words

FirstPass ==
    /\ pc = "firstPass"
    /\ IF args = <<>>
       THEN pc' = "usage" /\ UNCHANGED <<values, positional>>
       ELSE pc' = "readConfig" /\ ProcessCommandArgs
    /\ UNCHANGED <<world, config, port>>

-----------------------------------------------------------------------------
HomeConfigFile == disk[DefaultConfig]

ConfigFile ==
    IF values["config"] = {}
    THEN HomeConfigFile
    ELSE UNION {disk[path] : path \in values["config"] \cap DOMAIN disk}

LineAssigns(line) ==
    IF line[1] = "pair"
    THEN (FileOptions \cap {line[2]}) \X {Word(line[3])}
    ELSE (Flags \cap {LongFlag(line[2])}) \X {True}

(* What is read of a file: a line counts when its newline is met. Nothing     *)
(* terminates the buffer, so without a newline at the end of the file the     *)
(* last line is lost, or goes on with what is in memory up to a newline.      *)
(* (Further lines that memory may hold are taken to name no option, and what  *)
(* a line goes on with to make no pair of one that is none.)                  *)
GoesOn(line) ==
    {line} \cup (IF line[1] = "pair" THEN {"pair"} \X {line[2]} \X Garbage
                                     ELSE {"just"} \X Garbage)

LinesRead(file) ==
    IF file.terminated \/ file.lines = <<>>
    THEN {file.lines}
    ELSE {Front(file.lines)}
            \cup {Append(Front(file.lines), line) : line \in GoesOn(Last(file.lines))}

TakeLine(vals, line) == Store(vals, LineAssigns(line))

(* A file that cannot be read is passed over, with a warning or without.      *)
ReadConfig ==
    /\ pc = "readConfig"
    /\ IF ConfigFile = {}
       THEN UNCHANGED values
       ELSE \E file \in ConfigFile : \E lines \in LinesRead(file) :
               values' = FoldLeft(TakeLine, values, lines)
    /\ pc' = "secondPass"
    /\ UNCHANGED <<world, positional, config, port>>

(* Mistake: no second pass.                                                   *)
NoSecondPass ==
    /\ pc = "secondPass"
    /\ pc' = "interpret"
    /\ UNCHANGED <<world, values, positional, config, port>>

(* "command line args should override config file".                           *)
SecondPass ==
    /\ pc = "secondPass"
    /\ ProcessCommandArgs
    /\ pc' = "interpret"
    /\ UNCHANGED <<world, config, port>>

-----------------------------------------------------------------------------
IsSet(n) == n \in Declared /\ values[n] # {}
Value(n) == CHOOSE v \in values[n] : TRUE
Number(n, default) == IF IsSet(n) THEN Stoi[Value(n)] ELSE default

(* convertIntegerArg and convertDoubleArg exit where the text is no number.   *)
NoInteger(n) == IsSet(n) /\ Value(n) \notin DOMAIN Stoi
NoFee == program = "createBtcrDid" /\ positional[4] \notin Stod

NoCredentials == ~IsSet("rpcuser") \/ ~IsSet("rpcpassword")
TooFewWords == Len(positional) < Required

(* Mistake: a negative --txoIndex goes through.                               *)
NoTxoIndexUnlessNegative == NoInteger("txoIndex")

NoTxoIndex == NoInteger("txoIndex") \/ (IsSet("txoIndex") /\ Number("txoIndex", -1) < 0)

(* The exits with -1, in the order of the checks.                             *)
Unusable == NoCredentials \/ NoInteger("rpcport") \/ NoTxoIndex \/ TooFewWords \/ NoFee

Parameters ==
    [rpcconnect |-> IF IsSet("rpcconnect") THEN Value("rpcconnect") ELSE Unread.rpcconnect,
     rpcuser |-> Value("rpcuser"), rpcpassword |-> Value("rpcpassword"),
     rpcport |-> Number("rpcport", 0), txoIndex |-> Number("txoIndex", -1),
     dryrun |-> IsSet("dryrun"), input |-> positional]

Interpret ==
    /\ pc = "interpret"
    /\ IF IsSet("help") \/ Unusable
       THEN /\ pc' = IF IsSet("help") THEN "usage" ELSE "error"
            /\ UNCHANGED config
       ELSE /\ pc' = "connect"
            /\ config' = Parameters
    /\ UNCHANGED <<world, values, positional, port>>

-----------------------------------------------------------------------------
FirstPort == IF config.rpcport # 0 THEN config.rpcport ELSE MainnetPort

Answers(p) ==
    /\ pc' = "connected"
    /\ port' = {p}
    /\ UNCHANGED <<world, values, positional, config>>

NoAnswer(next) ==
    /\ pc' = next
    /\ UNCHANGED <<world, values, positional, config, port>>

(* The facade tries getblockcount on the port given, or on the two well known *)
(* ones; whether one answers can change between the two attempts.             *)
Connect ==
    /\ pc = "connect"
    /\ \/ Answers(FirstPort)
       \/ NoAnswer(IF config.rpcport # 0 THEN "noBitcoind" ELSE "connectTestnet")

ConnectTestnet ==
    /\ pc = "connectTestnet"
    /\ Answers(TestnetPort) \/ NoAnswer("noBitcoind")

Next == FirstPass \/ ReadConfig \/ SecondPass \/ Interpret \/ Connect \/ ConnectTestnet

Spec == Init /\ [][Next]_vars

-----------------------------------------------------------------------------
(* What the usage text says, of command lines that keep to it: options are    *)
(* known, and each is followed by a word, its value.                          *)
IsOption(i) == IsLong(args[i]) /\ ~IsPair(args[i]) /\ args[i][2] \in Options
IsValue(i) == i > 1 /\ IsOption(i - 1)

WellFormed ==
    \A i \in DOMAIN args :
        /\ IsLong(args[i]) => args[i][2] \in Declared
        /\ args[i][1] = "-" => Letters(args[i]) \subseteq Flags \/ IsValue(i)
        /\ IsOption(i) => i < Len(args) /\ ~IsLong(args[i + 1])

(* Where the command line gives option n, with the value.                     *)
OnCommandLine(n) ==
    {<<i, args[i + 1]>> : i \in {j \in DOMAIN args : IsOption(j) /\ args[j][2] = n}}
    \cup {<<i, Word(args[i][3])>> :
            i \in {j \in DOMAIN args : IsLong(args[j]) /\ IsPair(args[j]) /\ args[j][2] = n}}

LastOf(given) == {g[2] : g \in {h \in given : \A k \in given : k[1] <= h[1]}}

DocumentedFile ==
    IF OnCommandLine("config") = {}
    THEN disk[DefaultConfig]
    ELSE UNION {disk[p] : p \in LastOf(OnCommandLine("config")) \cap DOMAIN disk}

InFile(n) ==
    UNION {{<<i, Word(f.lines[i][3])>> : i \in {j \in DOMAIN f.lines :
               f.lines[j][1] = "pair" /\ f.lines[j][2] = n}} : f \in DocumentedFile}

Documented(n) ==
    IF OnCommandLine(n) # {} THEN LastOf(OnCommandLine(n)) ELSE LastOf(InFile(n))

(* "-n --dryrun", alone or with other letters.                                *)
SaysDryRun(a) ==
    \/ IsLong(a) /\ a[2] = "dryrun"
    \/ a[1] = "-" /\ \E k \in DOMAIN a[2] : a[2][k] = "n"

DryRunGiven ==
    \/ \E i \in DOMAIN args : ~IsValue(i) /\ SaysDryRun(args[i])
    \/ \E f \in DocumentedFile : \E i \in DOMAIN f.lines :
          f.lines[i][1] = "just" /\ f.lines[i][2] \in {"n", "dryrun"}

DocumentedInput ==
    LET words == {i \in DOMAIN args : args[i][1] = "word" /\ ~IsValue(i)}
    IN  [k \in 1..Cardinality(words) |->
            args[CHOOSE i \in words : Cardinality({j \in words : j <= i}) = k]]

(* What n should be: nothing is good enough where user or password is missing. *)
Promised(n) ==
    LET given == IF n \in Options THEN Documented(n) ELSE {}
    IN  IF given = {} THEN {Unread[m] : m \in {n} \ {"rpcuser", "rpcpassword"}}
        ELSE IF n \in {"rpcport", "txoIndex"} THEN {Stoi[v] : v \in given} ELSE given

Settings == {"rpcconnect", "rpcuser", "rpcpassword", "rpcport", "txoIndex"}

(* A last line without a newline, and what hangs on it.                       *)
Unfinished == {Last(f.lines) : f \in {g \in DocumentedFile : ~g.terminated /\ g.lines # <<>>}}
OptionOpen(n) ==
    OnCommandLine(n) = {} /\ \E line \in Unfinished : line[1] = "pair" /\ line[2] = n
FlagsOpen == \E line \in Unfinished : line[1] = "just"

(* The parameters of a program that starts are those its usage text promises: *)
(* the last on the command line, else the last in the bitcoin.conf that       *)
(* counts, else the default, and the words that are nobody's value in their   *)
(* order, however options, flags and words are mixed. Excepted is only what   *)
(* the last line of a file says that does not end in a newline: that the code *)
(* loses. Nothing else may be hurt by it.                                     *)
ConfiguredAsDocumented ==
    pc \in Connecting /\ WellFormed =>
        /\ \A n \in Settings : ~OptionOpen(n) => config[n] \in Promised(n)
        /\ ~FlagsOpen => config.dryrun = (program = "createBtcrDid" /\ DryRunGiven)
        /\ config.input = DocumentedInput

(* A dry run stays one: -n or --dryrun is heard wherever it stands, alone or  *)
(* among other letters, unless an option that lacks its value stands before   *)
(* it. This is for every command line, well formed or not, and every file.    *)
DryRunIsHeard ==
    pc \in Connecting /\ program = "createBtcrDid" =>
        \A i \in DOMAIN args : SaysDryRun(args[i]) /\ ~IsValue(i) => config.dryrun

(* A port on the command line, which is what tells the networks apart, is the *)
(* only one where a bitcoind is accepted: neither bitcoin.conf nor the        *)
(* fallback leads to the other network. (Port 0 means none was given.)        *)
PortGivenIsPortUsed ==
    WellFormed /\ OnCommandLine("rpcport") # {} =>
        \A p \in port, v \in LastOf(OnCommandLine("rpcport")) :
            Stoi[v] # 0 => p = Stoi[v]
=============================================================================
