------------------------- MODULE CommandLineProofs -------------------------
(* What the programs make of a command line of any length and a bitcoin.conf  *)
(* of any number of lines. The parser's loops are folds: first their states   *)
(* after every argument and every line, then what is known of these states,   *)
(* by induction on the number of arguments, then the invariants.              *)
EXTENDS CommandLine, FiniteSetTheorems, WellFoundedInduction, TLAPS

-----------------------------------------------------------------------------
(* Induction on numbers, with the set of those that have the property: it     *)
(* contains 0 and is closed under adding one.                                 *)
LEMMA Smallest ==
    ASSUME NEW n \in Nat, NEW T, T \subseteq 0..n, T # {}
    PROVE  \E i \in T : \A j \in T : i <= j
<1> DEFINE below(i) == {j \in 0..n : j < i}
           S == {below(i) : i \in T}
           R == StrictSubsetOrdering(0..n)
<1>1. IsWellFoundedOn(R, FiniteSubsetsOf(0..n))
  BY FS_StrictSubsetOrderingWellFounded
<1>2. FiniteSubsetsOf(0..n) = SUBSET (0..n)
  <2>1. IsFiniteSet(0..n)
    BY FS_Interval
  <2> QED
    BY <2>1, FS_FiniteSubsetsOfFinite
<1>3. S \subseteq SUBSET (0..n) /\ S # {}
  OBVIOUS
<1>4. PICK s \in S : \A r \in S : <<r, s>> \notin R
  <2> HIDE DEF S, R
  <2> QED
    BY <1>1, <1>2, <1>3, WFMin
<1>5. PICK i \in T : s = below(i)
  OBVIOUS
<1>6. ASSUME NEW j \in T, ~(i <= j)
      PROVE  FALSE
  <2>1. i \in 0..n /\ j \in 0..n /\ j < i
    BY <1>6
  <2>2. below(j) \subseteq below(i) /\ j \in below(i) /\ j \notin below(j)
    BY <2>1
  <2>3. <<below(j), below(i)>> \in R
    BY <2>2 DEF StrictSubsetOrdering
  <2> QED
    BY <1>4, <1>5, <2>3
<1> QED
  BY <1>6

LEMMA Steps ==
    ASSUME NEW n \in Nat, NEW G, 0 \in G, \A i \in 1..n : i - 1 \in G => i \in G
    PROVE  0..n \subseteq G
<1> DEFINE T == 0..n \ G
<1>1. SUFFICES ASSUME T # {} PROVE FALSE
  OBVIOUS
<1>2. PICK i \in T : \A j \in T : i <= j
  BY <1>1, Smallest
<1>3. i \in 1..n /\ i - 1 \in 0..n /\ ~(i <= i - 1)
  BY <1>2
<1>4. i - 1 \in G
  BY <1>2, <1>3
<1> QED
  BY <1>2, <1>3, <1>4

LEMMA UpTo ==
    ASSUME NEW k \in Nat, NEW s, s \subseteq 1..k, k \in s
    PROVE  Max(s) = k
<1>1. k \in s /\ \A j \in s : k >= j
  OBVIOUS
<1>2. \A i \in s : (\A j \in s : i >= j) => i = k
  OBVIOUS
<1> QED
  BY <1>1, <1>2 DEF Max

(* The function that a fold is defined with exists, for a step that keeps to  *)
(* a set of states.                                                           *)
Folded(f, start, F, n) ==
    /\ f[{}] = start
    /\ \A s \in SUBSET (1..n) : s # {} =>
          Max(s) \in 1..n /\ f[s] = F[Max(s)][f[s \ {Max(s)}]]

LEMMA FoldExists ==
    ASSUME NEW X, NEW start \in X, NEW n \in Nat, NEW F \in [1..n -> [X -> X]]
    PROVE  \E f \in [SUBSET (1..n) -> X] : Folded(f, start, F, n)
<1> DEFINE G == {k \in 0..n : \E f \in [SUBSET (1..k) -> X] : Folded(f, start, F, k)}
<1>1. 0 \in G
  <2> DEFINE f == [s \in SUBSET (1..0) |-> start]
  <2>1. f \in [SUBSET (1..0) -> X]
    OBVIOUS
  <2>2. Folded(f, start, F, 0)
    <3>1. {} \in SUBSET (1..0) /\ \A s \in SUBSET (1..0) : s = {}
      OBVIOUS
    <3>2. f[{}] = start
      BY <3>1
    <3> HIDE DEF f
    <3> QED
      BY <3>1, <3>2 DEF Folded
  <2>3. 0 \in 0..n
    OBVIOUS
  <2> HIDE DEF f
  <2> QED
    BY <2>1, <2>2, <2>3
<1>2. ASSUME NEW i \in 1..n, i - 1 \in G PROVE i \in G
  <2>1. PICK f \in [SUBSET (1..(i - 1)) -> X] : Folded(f, start, F, i - 1)
    BY <1>2
  <2> DEFINE h == [s \in SUBSET (1..i) |-> IF i \in s THEN F[i][f[s \ {i}]] ELSE f[s]]
  <2>2. ASSUME NEW s \in SUBSET (1..i), i \in s
        PROVE  h[s] \in X /\ Max(s) = i /\ h[s] = F[i][h[s \ {i}]]
    <3>1. Max(s) = i
      <4> i \in Nat /\ s \subseteq 1..i
        OBVIOUS
      <4> QED
        BY <2>2, UpTo
    <3>2. s \ {i} \in SUBSET (1..i) /\ i \notin s \ {i} /\ s \ {i} \in SUBSET (1..(i - 1))
      OBVIOUS
    <3>3. h[s \ {i}] = f[s \ {i}] /\ f[s \ {i}] \in X /\ F[i] \in [X -> X]
      BY <3>2
    <3>4. h[s] = F[i][f[s \ {i}]]
      BY <2>2
    <3> QED
      BY <3>1, <3>3, <3>4
  <2>3. ASSUME NEW s \in SUBSET (1..i), i \notin s
        PROVE  s \in SUBSET (1..(i - 1)) /\ h[s] = f[s] /\ h[s] \in X
    BY <2>3
  <2>4. ASSUME NEW s \in SUBSET (1..i), i \notin s, s # {}
        PROVE  Max(s) \in 1..i /\ h[s] = F[Max(s)][h[s \ {Max(s)}]]
    <3>1. s \in SUBSET (1..(i - 1)) /\ h[s] = f[s]
      BY <2>3, <2>4
    <3>2. Max(s) \in 1..(i - 1) /\ f[s] = F[Max(s)][f[s \ {Max(s)}]]
      BY <2>1, <2>4, <3>1 DEF Folded
    <3>3. h[s \ {Max(s)}] = f[s \ {Max(s)}]
      BY <2>4
    <3>4. Max(s) \in 1..i
      BY <3>2
    <3> QED
      BY <3>1, <3>2, <3>3, <3>4
  <2>5. {} \in SUBSET (1..i) /\ i \notin {} /\ h = [s \in SUBSET (1..i) |-> h[s]] /\ i \in 1..i
    OBVIOUS
  <2> HIDE DEF h
  <2>6. h \in [SUBSET (1..i) -> X]
    <3>1. \A s \in SUBSET (1..i) : h[s] \in X
      BY <2>2, <2>3
    <3> QED
      BY <2>5, <3>1
  <2>7. Folded(h, start, F, i)
    <3>1. h[{}] = start
      BY <2>1, <2>3, <2>5 DEF Folded
    <3>2. ASSUME NEW s \in SUBSET (1..i), s # {}
          PROVE  Max(s) \in 1..i /\ h[s] = F[Max(s)][h[s \ {Max(s)}]]
      BY <2>2, <2>4, <2>5, <3>2
    <3> QED
      BY <3>1, <3>2 DEF Folded
  <2>8. i \in 0..n
    OBVIOUS
  <2> QED
    BY <2>6, <2>7, <2>8
<1>3. 0..n \subseteq G
  <2> HIDE DEF G
  <2> QED
    BY <1>1, <1>2, Steps
<1>4. n \in G
  <2> HIDE DEF G
  <2> QED
    BY <1>3
<1> QED
  BY <1>4

(* The states processCommandArgs goes through, and those processLine does.    *)
Parsed(start, seq) == FoldLeft(TakeArg, start, seq)
Loaded(start, seq) == FoldLeft(TakeLine, start, seq)

ParsedBy(g, X, start, seq, n) ==
    /\ g \in [0..n -> X] /\ g[0] = start /\ g[n] = Parsed(start, seq)
    /\ \A i \in 1..n : g[i] = TakeArg(g[i - 1], seq[i])

LoadedBy(g, X, start, seq, n) ==
    /\ g \in [0..n -> X] /\ g[0] = start /\ g[n] = Loaded(start, seq)
    /\ \A i \in 1..n : g[i] = TakeLine(g[i - 1], seq[i])

LEMMA ParseSteps ==
    ASSUME NEW X, NEW start \in X, NEW seq, NEW n \in Nat, DOMAIN seq = 1..n,
           \A i \in 1..n : \A s \in X : TakeArg(s, seq[i]) \in X
    PROVE  \E g : ParsedBy(g, X, start, seq, n)
<1> DEFINE F == [i \in 1..n |-> [s \in X |-> TakeArg(s, seq[i])]]
           Folds(f) == f = [s \in SUBSET (1..n) |->
              IF s = {} THEN start ELSE TakeArg(f[s \ {Max(s)}], seq[Max(s)])]
           iter == CHOOSE f : Folds(f)
           g == [i \in 0..n |-> iter[1..i]]
<1>1. F \in [1..n -> [X -> X]]
  OBVIOUS
<1>2. PICK f \in [SUBSET (1..n) -> X] : Folded(f, start, F, n)
  <2> HIDE DEF F
  <2> QED
    BY <1>1, FoldExists
<1>3. Folds(f)
  <2>1. f[{}] = start
    BY <1>2 DEF Folded
  <2>2. ASSUME NEW s \in SUBSET (1..n), s # {}
        PROVE  f[s] = TakeArg(f[s \ {Max(s)}], seq[Max(s)])
    <3>1. f[s \ {Max(s)}] \in X
      OBVIOUS
    <3> QED
      BY <1>2, <2>2, <3>1 DEF Folded
  <2> QED
    BY <2>1, <2>2
<1>4. Folds(iter)
  <2> HIDE DEF Folds
  <2> QED
    BY <1>3
<1>5. Parsed(start, seq) = iter[1..n]
  BY DEF Parsed, FoldLeft, MapThenFoldSet
<1> HIDE DEF iter, F
<1>6. g[0] = start
  <2>1. 1..0 = {} /\ {} \in SUBSET (1..n)
    OBVIOUS
  <2> QED
    BY <1>4, <2>1
<1>7. ASSUME NEW i \in 1..n
      PROVE  g[i] = TakeArg(g[i - 1], seq[i])
  <2>1. Max(1..i) = i
    BY UpTo
  <2>2. (1..i) \ {i} = 1..(i - 1) /\ 1..i \in SUBSET (1..n) /\ 1..i # {}
    OBVIOUS
  <2>3. iter[1..i] = TakeArg(iter[1..(i - 1)], seq[i])
    BY <1>4, <2>1, <2>2
  <2>4. i \in 0..n /\ i - 1 \in 0..n
    OBVIOUS
  <2> QED
    BY <2>3, <2>4
<1>8. g[n] = Parsed(start, seq) /\ g = [i \in 0..n |-> g[i]]
  BY <1>5
<1> HIDE DEF g
<1>9. 0..n \subseteq {i \in 0..n : g[i] \in X}
  <2> DEFINE G == {i \in 0..n : g[i] \in X}
  <2>1. 0 \in G
    BY <1>6
  <2>2. ASSUME NEW i \in 1..n, i - 1 \in G PROVE i \in G
    BY <1>7, <2>2
  <2> HIDE DEF G
  <2>3. 0..n \subseteq G
    BY <2>1, <2>2, Steps
  <2> QED
    BY <2>3 DEF G
<1>10. g \in [0..n -> X]
  BY <1>8, <1>9
<1> QED
  BY <1>6, <1>7, <1>8, <1>10 DEF ParsedBy

LEMMA ReadSteps ==
    ASSUME NEW X, NEW start \in X, NEW seq, NEW n \in Nat, DOMAIN seq = 1..n,
           \A i \in 1..n : \A s \in X : TakeLine(s, seq[i]) \in X
    PROVE  \E g : LoadedBy(g, X, start, seq, n)
<1> DEFINE F == [i \in 1..n |-> [s \in X |-> TakeLine(s, seq[i])]]
           Folds(f) == f = [s \in SUBSET (1..n) |->
              IF s = {} THEN start ELSE TakeLine(f[s \ {Max(s)}], seq[Max(s)])]
           iter == CHOOSE f : Folds(f)
           g == [i \in 0..n |-> iter[1..i]]
<1>1. F \in [1..n -> [X -> X]]
  OBVIOUS
<1>2. PICK f \in [SUBSET (1..n) -> X] : Folded(f, start, F, n)
  <2> HIDE DEF F
  <2> QED
    BY <1>1, FoldExists
<1>3. Folds(f)
  <2>1. f[{}] = start
    BY <1>2 DEF Folded
  <2>2. ASSUME NEW s \in SUBSET (1..n), s # {}
        PROVE  f[s] = TakeLine(f[s \ {Max(s)}], seq[Max(s)])
    <3>1. f[s \ {Max(s)}] \in X
      OBVIOUS
    <3> QED
      BY <1>2, <2>2, <3>1 DEF Folded
  <2> QED
    BY <2>1, <2>2
<1>4. Folds(iter)
  <2> HIDE DEF Folds
  <2> QED
    BY <1>3
<1>5. Loaded(start, seq) = iter[1..n]
  BY DEF Loaded, FoldLeft, MapThenFoldSet
<1> HIDE DEF iter, F
<1>6. g[0] = start
  <2>1. 1..0 = {} /\ {} \in SUBSET (1..n)
    OBVIOUS
  <2> QED
    BY <1>4, <2>1
<1>7. ASSUME NEW i \in 1..n
      PROVE  g[i] = TakeLine(g[i - 1], seq[i])
  <2>1. Max(1..i) = i
    BY UpTo
  <2>2. (1..i) \ {i} = 1..(i - 1) /\ 1..i \in SUBSET (1..n) /\ 1..i # {}
    OBVIOUS
  <2>3. iter[1..i] = TakeLine(iter[1..(i - 1)], seq[i])
    BY <1>4, <2>1, <2>2
  <2>4. i \in 0..n /\ i - 1 \in 0..n
    OBVIOUS
  <2> QED
    BY <2>3, <2>4
<1>8. g[n] = Loaded(start, seq) /\ g = [i \in 0..n |-> g[i]]
  BY <1>5
<1> HIDE DEF g
<1>9. 0..n \subseteq {i \in 0..n : g[i] \in X}
  <2> DEFINE G == {i \in 0..n : g[i] \in X}
  <2>1. 0 \in G
    BY <1>6
  <2>2. ASSUME NEW i \in 1..n, i - 1 \in G PROVE i \in G
    BY <1>7, <2>2
  <2> HIDE DEF G
  <2>3. 0..n \subseteq G
    BY <2>1, <2>2, Steps
  <2> QED
    BY <2>3 DEF G
<1>10. g \in [0..n -> X]
  BY <1>8, <1>9
<1> QED
  BY <1>6, <1>7, <1>8, <1>10 DEF LoadedBy

-----------------------------------------------------------------------------
(* What an option or a flag has: nothing, or one argument.                    *)
Cells == {{}} \cup {{a} : a \in Argument}
Vals == [Declared -> Cells]

(* A set of assignments, at most one for every name.                          *)
Functional(pairs) ==
    /\ \A p \in pairs : p = <<p[1], p[2]>> /\ p[1] \in Declared /\ p[2] \in Argument
    /\ \A p, q \in pairs : p[1] = q[1] => p = q

LEMMA StoreFacts ==
    ASSUME NEW vals \in Vals, NEW pairs, Functional(pairs)
    PROVE  /\ Store(vals, pairs) \in Vals
           /\ \A p \in pairs : Store(vals, pairs)[p[1]] = {p[2]}
           /\ \A n \in Declared : (\A p \in pairs : p[1] # n) => Store(vals, pairs)[n] = vals[n]
<1>1. ASSUME NEW p \in pairs
      PROVE  Store(vals, pairs)[p[1]] = {p[2]}
  <2>1. p[1] \in Declared /\ {q \in pairs : q[1] = p[1]} = {p}
    BY DEF Functional
  <2> QED
    BY <2>1 DEF Store
<1>2. ASSUME NEW n \in Declared, \A p \in pairs : p[1] # n
      PROVE  Store(vals, pairs)[n] = vals[n]
  BY <1>2 DEF Store
<1>3. \A n \in Declared : Store(vals, pairs)[n] \in Cells
  <2> SUFFICES ASSUME NEW n \in Declared PROVE Store(vals, pairs)[n] \in Cells
    OBVIOUS
  <2>1. CASE \E p \in pairs : p[1] = n
    BY <1>1, <2>1 DEF Functional, Cells
  <2>2. CASE \A p \in pairs : p[1] # n
    BY <1>2, <2>2 DEF Vals
  <2> QED
    BY <2>1, <2>2
<1>4. Store(vals, pairs) \in Vals
  BY <1>3 DEF Store, Vals
<1> QED
  BY <1>1, <1>2, <1>4

(* The names and the arguments.                                               *)
LEMMA NameFacts ==
    ASSUME program \in Programs
    PROVE  /\ Options \cap Flags = {} /\ FileOptions \subseteq Options
           /\ {"rpcconnect", "rpcuser", "rpcpassword", "rpcport", "config"} \subseteq Options
           /\ "config" \notin FileOptions
           /\ "dryrun" \notin Options /\ ("dryrun" \in Flags <=> program = "createBtcrDid")
           /\ "help" \in Flags /\ "txoIndex" \notin Flags
BY DEF Programs, Options, Flags, FlagsOf, FileOptions

LEMMA ArgumentFacts ==
    /\ True \in Argument
    /\ \A w \in Text : Word(w) \in Argument
    /\ \A a \in Argument : IsLong(a) /\ IsPair(a) => Word(a[3]) \in Argument
<1>1. \A w \in Text : Word(w) \in Argument
  BY DEF Argument, Word
<1>2. True \in Argument
  <2>1. True = Word("true")
    BY DEF True, Word
  <2>2. "true" \in Text
    BY CommandLineAssumption
  <2> QED
    BY <1>1, <2>1, <2>2
<1>3. ASSUME NEW a \in Argument, IsLong(a), IsPair(a)
      PROVE  Word(a[3]) \in Argument
  <2>1. CASE a \in {"word", "--"} \X Text \/ a \in {"-"} \X Seq(Text)
    <3>1. Len(a) = 2
      BY <2>1
    <3> QED
      BY <1>3, <3>1 DEF IsPair
  <2>2. CASE a \in {"--"} \X Text \X Text
    BY <1>1, <2>2
  <2> QED
    BY <2>1, <2>2 DEF Argument
<1> QED
  BY <1>1, <1>2, <1>3

LEMMA AssignsFacts ==
    ASSUME program \in Programs, NEW a \in Argument
    PROVE  /\ Functional(Assigns(a))
           /\ \A n \in Flags : \A p \in Assigns(a) : p[1] = n => p = <<n, True>>
           /\ \A n \in Options :
                 IF IsLong(a) /\ IsPair(a) /\ a[2] = n
                 THEN <<n, Word(a[3])>> \in Assigns(a)
                 ELSE \A p \in Assigns(a) : p[1] # n
           /\ \A n \in Flags :
                 <<n, True>> \in Assigns(a) <=>
                    IF IsLong(a) THEN a[2] = n ELSE a[1] = "-" /\ n \in Letters(a)
<1> DEFINE set == {n \in Flags : IF IsLong(a) THEN a[2] = n ELSE a[1] = "-" /\ n \in Letters(a)}
<1>1. \A p : p \in Assigns(a) <=>
         \/ \E n \in set : p = <<n, True>>
         \/ IsLong(a) /\ IsPair(a) /\ a[2] \in Options /\ p = <<a[2], Word(a[3])>>
  BY DEF Assigns
<1>2. set \subseteq Flags /\ Options \cap Flags = {} /\ Declared = Options \cup Flags
  BY NameFacts DEF Declared
<1>6. \A n \in Flags :
         n \in set <=> IF IsLong(a) THEN a[2] = n ELSE a[1] = "-" /\ n \in Letters(a)
  OBVIOUS
<1> HIDE DEF set
<1>3. Functional(Assigns(a))
  <2>1. \A p \in Assigns(a) : p = <<p[1], p[2]>> /\ p[1] \in Declared /\ p[2] \in Argument
    BY <1>1, <1>2, ArgumentFacts
  <2>2. \A p, q \in Assigns(a) : p[1] = q[1] => p = q
    BY <1>1, <1>2
  <2> QED
    BY <2>1, <2>2 DEF Functional
<1>4. \A n \in Flags : \A p \in Assigns(a) : p[1] = n => p = <<n, True>>
  BY <1>1, <1>2
<1>5. ASSUME NEW n \in Options
      PROVE  IF IsLong(a) /\ IsPair(a) /\ a[2] = n
             THEN <<n, Word(a[3])>> \in Assigns(a)
             ELSE \A p \in Assigns(a) : p[1] # n
  BY <1>1, <1>2
<1>7. \A n \in Flags : <<n, True>> \in Assigns(a) <=> n \in set
  BY <1>1, <1>2
<1> QED
  BY <1>3, <1>4, <1>5, <1>6, <1>7

(* What the usage text calls a dry run is what the parser takes for one.      *)
LEMMA DryRunFacts ==
    ASSUME program = "createBtcrDid", NEW a \in Argument
    PROVE  <<"dryrun", True>> \in Assigns(a) <=> SaysDryRun(a)
<1>1. program \in Programs /\ "dryrun" \in Flags
  BY NameFacts DEF Programs
<1>2. "dryrun" \in Letters(a) <=> \E k \in DOMAIN a[2] : a[2][k] = "n"
  <2>1. \A c : LetterFlag(c) = "dryrun" <=> c = "n"
    BY DEF LetterFlag
  <2> QED
    BY <2>1 DEF Letters
<1>3. <<"dryrun", True>> \in Assigns(a) <=>
         IF IsLong(a) THEN a[2] = "dryrun" ELSE a[1] = "-" /\ "dryrun" \in Letters(a)
  BY <1>1, AssignsFacts
<1> QED
  BY <1>2, <1>3 DEF SaysDryRun, IsLong

LEMMA LineFacts ==
    ASSUME program \in Programs, NEW line \in Line
    PROVE  /\ Functional(LineAssigns(line))
           /\ \A n \in Flags :
                 IF line[1] = "just" /\ LongFlag(line[2]) = n
                 THEN <<n, True>> \in LineAssigns(line)
                 ELSE \A p \in LineAssigns(line) : p[1] # n
           /\ \A n \in FileOptions :
                 IF line[1] = "pair" /\ line[2] = n
                 THEN <<n, Word(line[3])>> \in LineAssigns(line)
                 ELSE \A p \in LineAssigns(line) : p[1] # n
           /\ \A p \in LineAssigns(line) : p[1] # "config"
<1>1. CASE line \in {"pair"} \X Text \X Text
  <2>1. line[1] = "pair" /\ Word(line[3]) \in Argument
    BY <1>1 DEF Word, Argument
  <2>2. \A p : p \in LineAssigns(line) <=> line[2] \in FileOptions /\ p = <<line[2], Word(line[3])>>
    BY <2>1 DEF LineAssigns
  <2>3. Functional(LineAssigns(line))
    BY <2>1, <2>2, NameFacts DEF Functional, Declared
  <2> QED
    BY <2>1, <2>2, <2>3, NameFacts
<1>2. CASE line \in {"just"} \X Text
  <2>1. line[1] = "just" /\ line[1] # "pair" /\ True \in Argument
    BY <1>2, ArgumentFacts
  <2>2. \A p : p \in LineAssigns(line) <=>
           LongFlag(line[2]) \in Flags /\ p = <<LongFlag(line[2]), True>>
    BY <2>1 DEF LineAssigns
  <2>3. Functional(LineAssigns(line))
    BY <2>1, <2>2 DEF Functional, Declared
  <2>4. \A n \in Flags :
           /\ LongFlag(line[2]) = n => <<n, True>> \in LineAssigns(line)
           /\ LongFlag(line[2]) # n => \A p \in LineAssigns(line) : p[1] # n
    BY <2>2
  <2>5. \A p \in LineAssigns(line) : p[1] \in Flags
    BY <2>2
  <2>6. \A n \in FileOptions \cup {"config"} : n \notin Flags
    BY NameFacts
  <2> QED
    BY <2>1, <2>3, <2>4, <2>5, <2>6
<1> QED
  BY <1>1, <1>2 DEF Line
-----------------------------------------------------------------------------
(* The loop over the arguments: what it keeps, and which option waits for its *)
(* value.                                                                     *)
Wanted == {{}} \cup {{o} : o \in Options}
Parsing == [values : Vals, words : Seq(ToSet(args)), wants : Wanted]

LEMMA TakesNextFacts ==
    ASSUME NEW i
    PROVE  /\ IsOption(i) => TakesNext(args[i]) = {args[i][2]} /\ args[i][2] \in Options
           /\ ~IsOption(i) => TakesNext(args[i]) = {}
BY DEF TakesNext, IsOption

Took(s, t, i) ==
    /\ s.wants = {} =>
          /\ t.values = Store(s.values, Assigns(args[i]))
          /\ t.words = (IF args[i][1] = "word" THEN Append(s.words, args[i]) ELSE s.words)
          /\ t.wants = TakesNext(args[i])
    /\ s.wants # {} => t.wants = {} /\ t.words = s.words
    /\ \A o : s.wants = {o} =>
          /\ o \in Options /\ t.values[o] = {args[i]}
          /\ \A n \in Declared : n # o => t.values[n] = s.values[n]

LEMMA TakeArgFacts ==
    ASSUME program \in Programs, args \in Seq(Argument), NEW i \in 1..Len(args),
           NEW s \in Parsing, NEW t, t = TakeArg(s, args[i])
    PROVE  t \in Parsing /\ Took(s, t, i)
<1>1. args[i] \in Argument /\ args[i] \in ToSet(args)
  BY DEF ToSet
<1>2. s.values \in Vals /\ s.words \in Seq(ToSet(args)) /\ s.wants \in Wanted
  BY DEF Parsing
<1>3. CASE s.wants = {}
  <2>1. t = [values |-> Store(s.values, Assigns(args[i])),
             words |-> IF args[i][1] = "word" THEN Append(s.words, args[i]) ELSE s.words,
             wants |-> TakesNext(args[i])]
    BY <1>3 DEF TakeArg
  <2>2. Store(s.values, Assigns(args[i])) \in Vals
    BY <1>1, <1>2, AssignsFacts, StoreFacts
  <2>3. TakesNext(args[i]) \in Wanted
    BY TakesNextFacts DEF Wanted
  <2>4. (IF args[i][1] = "word" THEN Append(s.words, args[i]) ELSE s.words) \in Seq(ToSet(args))
    BY <1>1, <1>2
  <2>5. t \in Parsing
    BY <2>1, <2>2, <2>3, <2>4 DEF Parsing
  <2>6. /\ t.values = Store(s.values, Assigns(args[i]))
        /\ t.words = (IF args[i][1] = "word" THEN Append(s.words, args[i]) ELSE s.words)
        /\ t.wants = TakesNext(args[i])
    BY <2>1
  <2>7. \A o : s.wants # {o}
    BY <1>3
  <2> QED
    BY <1>3, <2>5, <2>6, <2>7 DEF Took
<1>4. ASSUME NEW o, s.wants = {o}
      PROVE  /\ t \in Parsing
             /\ o \in Options /\ t.values[o] = {args[i]}
             /\ \A n \in Declared : n # o => t.values[n] = s.values[n]
             /\ t.words = s.words
             /\ t.wants = {}
  <2>1. o \in Options /\ o \in Declared
    BY <1>2, <1>4 DEF Wanted, Declared
  <2> DEFINE pairs == {o} \X {args[i]}
  <2>2. \A p : p \in pairs <=> p = <<o, args[i]>>
    OBVIOUS
  <2>3. Functional(pairs) /\ <<o, args[i]>> \in pairs
    <3> HIDE DEF pairs
    <3>1. <<o, args[i]>> = <<<<o, args[i]>>[1], <<o, args[i]>>[2]>>
          /\ <<o, args[i]>>[1] = o /\ <<o, args[i]>>[2] = args[i]
      OBVIOUS
    <3>2. \A p \in pairs : p = <<p[1], p[2]>> /\ p[1] \in Declared /\ p[2] \in Argument
      BY <1>1, <2>1, <2>2, <3>1
    <3>3. \A p, q \in pairs : p[1] = q[1] => p = q
      <4> DEFINE pair == <<o, args[i]>>
      <4>1. \A p \in pairs : p = pair
        BY <2>2
      <4> HIDE DEF pair
      <4> QED
        BY <4>1
    <3> QED
      BY <2>2, <3>2, <3>3 DEF Functional
  <2>4. /\ Store(s.values, pairs) \in Vals
        /\ Store(s.values, pairs)[o] = {args[i]}
        /\ \A n \in Declared : n # o => Store(s.values, pairs)[n] = s.values[n]
    <3> HIDE DEF pairs
    <3>1. /\ Store(s.values, pairs) \in Vals
          /\ \A p \in pairs : Store(s.values, pairs)[p[1]] = {p[2]}
          /\ \A n \in Declared :
                (\A p \in pairs : p[1] # n) => Store(s.values, pairs)[n] = s.values[n]
      BY <1>2, <2>3, StoreFacts
    <3>2. <<o, args[i]>>[1] = o /\ <<o, args[i]>>[2] = args[i]
      OBVIOUS
    <3> QED
      BY <2>2, <3>1, <3>2
  <2>5. t = [s EXCEPT !.values = Store(@, {o} \X {args[i]}), !.wants = {}]
    BY <1>4 DEF TakeArg
  <2>6. t.values = Store(s.values, pairs) /\ t.words = s.words /\ t.wants = {}
        /\ t = [values |-> Store(s.values, pairs), words |-> s.words, wants |-> {}]
    BY <2>5 DEF Parsing
  <2>7. t \in Parsing
    <3> HIDE DEF pairs
    <3> QED
      BY <1>2, <2>4, <2>6 DEF Parsing, Wanted
  <2> QED
    BY <2>1, <2>4, <2>6, <2>7
<1>5. s.wants = {} \/ \E o : s.wants = {o}
  BY <1>2 DEF Wanted
<1> QED
  BY <1>3, <1>4, <1>5 DEF Took

(* The states of a pass that starts with vals.                                *)
Passes(g, vals) ==
    /\ g \in [0..Len(args) -> Parsing]
    /\ g[0] = [values |-> vals, words |-> <<>>, wants |-> {}]
    /\ \A i \in 1..Len(args) : g[i] = TakeArg(g[i - 1], args[i])

LEMMA PassExists ==
    ASSUME program \in Programs, args \in Seq(Argument), values \in Vals, ProcessCommandArgs
    PROVE  \E g : /\ Passes(g, values)
                  /\ values' = g[Len(args)].values /\ positional' = g[Len(args)].words
<1> DEFINE start == [values |-> values, words |-> <<>>, wants |-> {}]
<1>1. start \in Parsing
  BY DEF Parsing, Wanted
<1>2. \A i \in 1..Len(args) : \A s \in Parsing : TakeArg(s, args[i]) \in Parsing
  BY TakeArgFacts
<1>3. Len(args) \in Nat /\ DOMAIN args = 1..Len(args)
  OBVIOUS
<1>4. values' = Parsed(start, args).values /\ positional' = Parsed(start, args).words
  BY DEF ProcessCommandArgs, Parsed
<1>5. PICK g \in [0..Len(args) -> Parsing] :
         /\ g[0] = start /\ g[Len(args)] = Parsed(start, args)
         /\ \A i \in 1..Len(args) : g[i] = TakeArg(g[i - 1], args[i])
  <2> DEFINE n == Len(args)
             X == Parsing
  <2>1. /\ start \in X /\ n \in Nat /\ DOMAIN args = 1..n
        /\ \A i \in 1..n : \A s \in X : TakeArg(s, args[i]) \in X
    BY <1>1, <1>2, <1>3
  <2> HIDE DEF start, n, X
  <2>2. \E g : ParsedBy(g, X, start, args, n)
    BY <2>1, ParseSteps
  <2> QED
    BY <2>2 DEF n, X, ParsedBy
<1>6. Passes(g, values)
  BY <1>5 DEF Passes
<1> QED
  BY <1>4, <1>5, <1>6

(* An option waits only right after its name, and in a well formed command    *)
(* line it always does.                                                       *)
LEMMA WantsFacts ==
    ASSUME program \in Programs, args \in Seq(Argument), NEW g, NEW vals, Passes(g, vals)
    PROVE  /\ \A i \in 0..Len(args) :
                 g[i].wants # {} => i \in 1..Len(args) /\ IsOption(i) /\ g[i].wants = {args[i][2]}
           /\ WellFormed =>
                 \A i \in 1..Len(args) : IsOption(i) => g[i].wants = {args[i][2]}
<1>1. ASSUME NEW i \in 1..Len(args)
      PROVE  /\ g[i - 1] \in Parsing
             /\ g[i - 1].wants # {} => g[i].wants = {}
             /\ g[i - 1].wants = {} => g[i].wants = TakesNext(args[i])
  <2>1. g[i - 1] \in Parsing /\ g[i] = TakeArg(g[i - 1], args[i])
    BY DEF Passes
  <2> QED
    BY <2>1, TakeArgFacts DEF Took
<1>2. g[0].wants = {}
  BY DEF Passes
<1>3. ASSUME NEW i \in 0..Len(args), g[i].wants # {}
      PROVE  i \in 1..Len(args) /\ IsOption(i) /\ g[i].wants = {args[i][2]}
  <2>1. i \in 1..Len(args)
    BY <1>2, <1>3
  <2> QED
    BY <1>1, <1>3, <2>1, TakesNextFacts
<1>4. ASSUME WellFormed, NEW i \in 1..Len(args), IsOption(i)
      PROVE  g[i].wants = {args[i][2]}
  <2>1. g[i - 1].wants = {}
    <3>1. SUFFICES ASSUME g[i - 1].wants # {} PROVE FALSE
      OBVIOUS
    <3>2. i - 1 \in 0..Len(args) /\ (i - 1) + 1 = i
      OBVIOUS
    <3>3. i - 1 \in DOMAIN args /\ IsOption(i - 1)
      BY <1>3, <3>1, <3>2
    <3>4. ~IsLong(args[(i - 1) + 1])
      BY <1>4, <3>3 DEF WellFormed
    <3> QED
      BY <1>4, <3>2, <3>4 DEF IsOption
  <2> QED
    BY <1>1, <1>4, <2>1, TakesNextFacts
<1> QED
  BY <1>3, <1>4
-----------------------------------------------------------------------------
(* The options. A pass leaves an option the last value that the command line  *)
(* gives it, or the value it had.                                             *)
Gives(n) == {j \in DOMAIN args : IsLong(args[j]) /\ args[j][2] = n}
Given(j) == IF IsPair(args[j]) THEN Word(args[j][3]) ELSE args[j + 1]

IsLast(j, positions) == j \in positions /\ \A k \in positions : k <= j

LEMMA LastExists ==
    ASSUME NEW n \in Nat, NEW S, S \subseteq 1..n, S # {}
    PROVE  \E j \in S : IsLast(j, S)
<1> DEFINE mirror == {n - j : j \in S}
<1>1. mirror \subseteq 0..n /\ mirror # {}
  <2>1. \A j \in S : n - j \in 0..n
    OBVIOUS
  <2> QED
    BY <2>1
<1>2. PICK i \in mirror : \A j \in mirror : i <= j
  <2> HIDE DEF mirror
  <2> QED
    BY <1>1, Smallest
<1>3. PICK j \in S : i = n - j
  OBVIOUS
<1>4. ASSUME NEW k \in S
      PROVE  k <= j
  <2>1. n - j <= n - k
    BY <1>2, <1>3
  <2>2. j \in Nat /\ k \in Nat
    OBVIOUS
  <2> QED
    BY <2>1, <2>2
<1> QED
  BY <1>4 DEF IsLast

Lists(D, S, V) == \A h : h \in D <=> \E j \in S : h = <<j, V[j]>>

LEMMA LastOfFacts ==
    ASSUME NEW n \in Nat, NEW S, S \subseteq 1..n, NEW V, NEW D, Lists(D, S, V)
    PROVE  /\ S = {} => D = {} /\ LastOf(D) = {}
           /\ S # {} => D # {}
           /\ \A j \in S : IsLast(j, S) => LastOf(D) = {V[j]}
<1>1. S = {} => D = {} /\ LastOf(D) = {}
  BY DEF LastOf, Lists
<1>2. S # {} => D # {}
  BY DEF Lists
<1>3. ASSUME NEW j \in S, IsLast(j, S)
      PROVE  LastOf(D) = {V[j]}
  <2> DEFINE final == {h \in D : \A k \in D : k[1] <= h[1]}
  <2>1. \A k \in S : k \in Nat
    OBVIOUS
  <2>2. \A h \in D : h[1] \in S /\ h[2] = V[h[1]] /\ h = <<h[1], V[h[1]]>>
    BY DEF Lists
  <2>3. <<j, V[j]>> \in D /\ <<j, V[j]>>[1] = j /\ <<j, V[j]>>[2] = V[j]
    BY <1>3 DEF Lists
  <2> DEFINE pair == <<j, V[j]>>
  <2>4. pair \in final
    BY <1>3, <2>2, <2>3 DEF IsLast
  <2>5. \A h \in final : h[1] = j
    BY <1>3, <2>1, <2>2, <2>3 DEF IsLast
  <2>6. \A h \in final : h[2] = V[j]
    BY <2>2, <2>5
  <2>7. LastOf(D) = {h[2] : h \in final}
    BY DEF LastOf
  <2>8. pair[2] = V[j]
    BY <2>3
  <2> HIDE DEF final, pair
  <2> QED
    BY <2>4, <2>6, <2>7, <2>8
<1> QED
  BY <1>1, <1>2, <1>3

LEMMA OnCommandLineFacts ==
    ASSUME args \in Seq(Argument), NEW n \in Options
    PROVE  /\ OnCommandLine(n) = {} <=> Gives(n) = {}
           /\ Gives(n) = {} => LastOf(OnCommandLine(n)) = {}
           /\ \A j \in Gives(n) :
                 IsLast(j, Gives(n)) => LastOf(OnCommandLine(n)) = {Given(j)}
           /\ Gives(n) # {} => \E j \in Gives(n) : IsLast(j, Gives(n))
<1> DEFINE V == [j \in DOMAIN args |-> Given(j)]
           D == OnCommandLine(n)
           S == Gives(n)
           m == Len(args)
<1>1. m \in Nat /\ S \subseteq 1..m /\ \A j \in S : V[j] = Given(j)
  BY DEF Gives
<1>2. Lists(D, S, V)
  <2> SUFFICES ASSUME NEW h PROVE h \in D <=> \E j \in S : h = <<j, V[j]>>
    BY DEF Lists
  <2>1. h \in D <=>
           \/ \E j \in DOMAIN args : IsOption(j) /\ args[j][2] = n /\ h = <<j, args[j + 1]>>
           \/ \E j \in DOMAIN args : /\ IsLong(args[j]) /\ IsPair(args[j]) /\ args[j][2] = n
                                     /\ h = <<j, Word(args[j][3])>>
    BY DEF OnCommandLine
  <2>2. \A j \in DOMAIN args : IsLong(args[j]) /\ args[j][2] = n =>
           /\ IsOption(j) <=> ~IsPair(args[j])
           /\ IsPair(args[j]) => V[j] = Word(args[j][3])
           /\ ~IsPair(args[j]) => V[j] = args[j + 1]
    BY DEF IsOption, Given
  <2>3. \A j : j \in S <=> j \in DOMAIN args /\ IsLong(args[j]) /\ args[j][2] = n
    BY DEF Gives
  <2>4. \A j : IsOption(j) => IsLong(args[j]) /\ ~IsPair(args[j])
    BY DEF IsOption
  <2> HIDE DEF V, D, S
  <2> QED
    BY <2>1, <2>2, <2>3, <2>4
<1> HIDE DEF V, D, S, m
<1>3. /\ S = {} => D = {} /\ LastOf(D) = {}
      /\ S # {} => D # {}
      /\ \A j \in S : IsLast(j, S) => LastOf(D) = {V[j]}
  BY <1>1, <1>2, LastOfFacts
<1>4. S # {} => \E j \in S : IsLast(j, S)
  BY <1>1, LastExists
<1> QED
  BY <1>1, <1>3, <1>4 DEF D, S

(* An argument that names an option has set it when it comes with its value,  *)
(* or when the next argument has been taken.                                  *)
Taken(j, i) == j < i \/ (j = i /\ IsPair(args[j]))

OptionSoFar(g, vals, n, i) ==
    /\ (\A j \in Gives(n) : ~Taken(j, i)) => g[i].values[n] = vals[n]
    /\ \A j \in Gives(n) :
          Taken(j, i) /\ (\A k \in Gives(n) : Taken(k, i) => k <= j)
             => g[i].values[n] = {Given(j)}

LEMMA PassStep ==
    ASSUME args \in Seq(Argument), NEW g, NEW vals, Passes(g, vals), NEW i \in 1..Len(args)
    PROVE  /\ g[i - 1] \in Parsing /\ g[i - 1].values \in Vals
           /\ g[i] = TakeArg(g[i - 1], args[i])
           /\ args[i] \in Argument
           /\ i - 1 \in 0..Len(args)
           /\ g[i - 1].wants = {} \/ \E o : g[i - 1].wants = {o}
<1>1. g[i - 1] \in Parsing /\ g[i] = TakeArg(g[i - 1], args[i])
  BY DEF Passes
<1>2. g[i - 1].values \in Vals /\ g[i - 1].wants \in Wanted
  BY <1>1 DEF Parsing
<1>3. g[i - 1].wants = {} \/ \E o : g[i - 1].wants = {o}
  BY <1>2 DEF Wanted
<1>4. args[i] \in Argument /\ i - 1 \in 0..Len(args)
  OBVIOUS
<1> QED
  BY <1>1, <1>2, <1>3, <1>4

LEMMA OptionStep ==
    ASSUME program \in Programs, args \in Seq(Argument), WellFormed,
           NEW g, NEW vals, Passes(g, vals), NEW n \in Options, NEW i \in 1..Len(args),
           OptionSoFar(g, vals, n, i - 1)
    PROVE  OptionSoFar(g, vals, n, i)
<1> DEFINE s == g[i - 1]
           t == g[i]
           S == Gives(n)
<1>1. /\ s \in Parsing /\ s.values \in Vals /\ t = TakeArg(s, args[i])
      /\ args[i] \in Argument /\ n \in Declared
      /\ s.wants = {} \/ \E o : s.wants = {o}
  BY PassStep DEF Declared
<1> HIDE DEF s, t, S
<1>2. \A j : j \in S <=> j \in 1..Len(args) /\ IsLong(args[j]) /\ args[j][2] = n
  BY DEF Gives, S
<1>3. /\ s.wants = {} => t.values = Store(s.values, Assigns(args[i]))
      /\ \A o : s.wants = {o} =>
            /\ t.values[o] = {args[i]}
            /\ \A m \in Declared : m # o => t.values[m] = s.values[m]
  <2>0. s \in Parsing /\ t = TakeArg(s, args[i]) /\ i \in 1..Len(args)
    BY <1>1
  <2> HIDE <1>1
  <2>3. Took(s, t, i)
    BY <2>0, TakeArgFacts
  <2>1. s.wants = {} => t.values = Store(s.values, Assigns(args[i]))
    BY <2>3 DEF Took
  <2>2. ASSUME NEW o, s.wants = {o}
        PROVE  /\ t.values[o] = {args[i]}
               /\ \A m \in Declared : m # o => t.values[m] = s.values[m]
    BY <1>1, <2>2, <2>3 DEF Took
  <2> QED
    BY <2>1, <2>2
<1>4. s.wants # {} =>
         /\ i - 1 \in 1..Len(args) /\ IsOption(i - 1) /\ s.wants = {args[i - 1][2]}
         /\ IsLong(args[i - 1]) /\ ~IsPair(args[i - 1]) /\ ~IsLong(args[i])
  <2>1. SUFFICES ASSUME s.wants # {}
                 PROVE  /\ i - 1 \in 1..Len(args) /\ IsOption(i - 1)
                        /\ s.wants = {args[i - 1][2]}
                        /\ IsLong(args[i - 1]) /\ ~IsPair(args[i - 1]) /\ ~IsLong(args[i])
    OBVIOUS
  <2>2. i - 1 \in 1..Len(args) /\ IsOption(i - 1) /\ s.wants = {args[i - 1][2]}
    BY <2>1, PassStep, WantsFacts DEF s
  <2>3. (i - 1) + 1 = i /\ i - 1 \in DOMAIN args
    BY <2>2
  <2>4. ~IsLong(args[(i - 1) + 1])
    BY <2>2, <2>3 DEF WellFormed
  <2> QED
    BY <2>2, <2>3, <2>4 DEF IsOption
<1>5. s.wants = {} /\ i - 1 \in S => IsPair(args[i - 1])
  <2>1. SUFFICES ASSUME s.wants = {}, i - 1 \in S, ~IsPair(args[i - 1]) PROVE FALSE
    OBVIOUS
  <2>2. IsOption(i - 1) /\ i - 1 \in 1..Len(args)
    BY <1>2, <2>1 DEF IsOption
  <2>3. s.wants = {args[i - 1][2]}
    BY <2>2, WantsFacts DEF s
  <2> QED
    BY <2>1, <2>3
<1>6. /\ (\A j \in S : ~Taken(j, i - 1)) => s.values[n] = vals[n]
      /\ \A j \in S : Taken(j, i - 1) /\ (\A k \in S : Taken(k, i - 1) => k <= j)
            => s.values[n] = {Given(j)}
  BY DEF OptionSoFar, s, S
<1>7. SUFFICES /\ (\A j \in S : ~Taken(j, i)) => t.values[n] = vals[n]
               /\ \A j \in S : Taken(j, i) /\ (\A k \in S : Taken(k, i) => k <= j)
                     => t.values[n] = {Given(j)}
  BY DEF OptionSoFar, t, S
<1>8. \A j \in S : j \in Nat /\ j \in 1..Len(args)
  BY <1>2
<1>9. ASSUME t.values[n] = s.values[n], \A j \in S : Taken(j, i) <=> Taken(j, i - 1)
      PROVE  /\ (\A j \in S : ~Taken(j, i)) => t.values[n] = vals[n]
             /\ \A j \in S : Taken(j, i) /\ (\A k \in S : Taken(k, i) => k <= j)
                   => t.values[n] = {Given(j)}
  BY <1>6, <1>9
<1>10. CASE s.wants # {} /\ s.wants = {n}
  <2>1. i - 1 \in S /\ i \notin S /\ ~IsPair(args[i - 1]) /\ t.values[n] = {args[i]}
    BY <1>2, <1>3, <1>4, <1>10
  <2>2. Taken(i - 1, i) /\ Given(i - 1) = args[i]
    <3>1. (i - 1) + 1 = i /\ i - 1 < i
      OBVIOUS
    <3> QED
      BY <2>1, <3>1 DEF Taken, Given
  <2>3. \A j \in S : (\A k \in S : Taken(k, i) => k <= j) /\ Taken(j, i) => j = i - 1
    BY <1>8, <2>1, <2>2 DEF Taken
  <2> QED
    BY <2>1, <2>2, <2>3
<1>11. CASE s.wants # {} /\ s.wants # {n}
  <2>1. i - 1 \notin S /\ i \notin S
    BY <1>2, <1>4, <1>11
  <2>2. t.values[n] = s.values[n]
    <3> PICK o : s.wants = {o}
      BY <1>1, <1>11
    <3> QED
      BY <1>1, <1>3, <1>11
  <2>3. \A j \in S : Taken(j, i) <=> Taken(j, i - 1)
    BY <1>8, <2>1 DEF Taken
  <2> QED
    BY <1>9, <2>2, <2>3
<1>12. CASE s.wants = {} /\ i \in S /\ IsPair(args[i])
  <2>1. t.values[n] = {Word(args[i][3])}
    <3>1. <<n, Word(args[i][3])>> \in Assigns(args[i]) /\ Functional(Assigns(args[i]))
      BY <1>1, <1>2, <1>12, AssignsFacts
    <3>2. <<n, Word(args[i][3])>>[1] = n
          /\ <<n, Word(args[i][3])>>[2] = Word(args[i][3])
      OBVIOUS
    <3> DEFINE pair == <<n, Word(args[i][3])>>
               given == Assigns(args[i])
    <3>3. pair \in given /\ Functional(given) /\ pair[1] = n /\ pair[2] = Word(args[i][3])
      BY <3>1, <3>2
    <3>4. t.values = Store(s.values, given)
      BY <1>3, <1>12
    <3> HIDE DEF pair, given
    <3> DEFINE before == s.values
    <3>7. before \in Vals
      BY <1>1
    <3>8. t.values = Store(before, given)
      BY <3>4
    <3> HIDE DEF before
    <3>9. \A p \in given : Store(before, given)[p[1]] = {p[2]}
      BY <3>3, <3>7, StoreFacts
    <3>5. \A p \in given : t.values[p[1]] = {p[2]}
      BY <3>8, <3>9
    <3>6. t.values[pair[1]] = {pair[2]}
      BY <3>3, <3>5
    <3> QED
      BY <3>3, <3>6
  <2>2. Taken(i, i) /\ Given(i) = Word(args[i][3])
    BY <1>12 DEF Taken, Given
  <2>3. \A j \in S : (\A k \in S : Taken(k, i) => k <= j) /\ Taken(j, i) => j = i
    BY <1>8, <1>12, <2>2 DEF Taken
  <2> QED
    BY <1>12, <2>1, <2>2, <2>3
<1>13. CASE s.wants = {} /\ ~(i \in S /\ IsPair(args[i]))
  <2>1. t.values[n] = s.values[n]
    <3>1. (\A p \in Assigns(args[i]) : p[1] # n) /\ Functional(Assigns(args[i]))
      BY <1>1, <1>2, <1>13, AssignsFacts
    <3> QED
      BY <1>1, <1>3, <1>13, <3>1, StoreFacts
  <2>2. \A j \in S : Taken(j, i) <=> Taken(j, i - 1)
    BY <1>5, <1>8, <1>13 DEF Taken
  <2> QED
    BY <1>9, <2>1, <2>2
<1> QED
  BY <1>10, <1>11, <1>12, <1>13

LEMMA PassOptions ==
    ASSUME program \in Programs, args \in Seq(Argument), WellFormed,
           NEW g, NEW vals, Passes(g, vals), NEW n \in Options
    PROVE  /\ OnCommandLine(n) = {} => g[Len(args)].values[n] = vals[n]
           /\ OnCommandLine(n) # {} =>
                 /\ g[Len(args)].values[n] = LastOf(OnCommandLine(n))
                 /\ g[Len(args)].values[n] # {}
<1> DEFINE G == {i \in 0..Len(args) : OptionSoFar(g, vals, n, i)}
<1>1. 0 \in G
  <2>1. \A j \in Gives(n) : ~Taken(j, 0)
    BY DEF Gives, Taken
  <2>2. g[0].values = vals
    BY DEF Passes
  <2> QED
    BY <2>1, <2>2 DEF OptionSoFar
<1>2. ASSUME NEW i \in 1..Len(args), i - 1 \in G PROVE i \in G
  BY <1>2, OptionStep
<1>3. Len(args) \in G
  <2> DEFINE m == Len(args)
  <2>1. m \in Nat /\ \A i \in 1..m : i - 1 \in G => i \in G
    BY <1>2
  <2> HIDE DEF G, m
  <2>2. 0..m \subseteq G /\ m \in 0..m
    BY <1>1, <2>1, Steps
  <2> QED
    BY <2>2 DEF m
<1>4. \A j \in Gives(n) : Taken(j, Len(args))
  <2> SUFFICES ASSUME NEW j \in Gives(n) PROVE Taken(j, Len(args))
    OBVIOUS
  <2>1. j \in DOMAIN args /\ j \in 1..Len(args) /\ IsLong(args[j]) /\ args[j][2] = n
    BY DEF Gives
  <2>2. ~IsPair(args[j]) => j < Len(args)
    BY <2>1 DEF WellFormed, IsOption
  <2> QED
    BY <2>1, <2>2 DEF Taken
<1>5. OptionSoFar(g, vals, n, Len(args))
  BY <1>3
<1>6. Gives(n) = {} => g[Len(args)].values[n] = vals[n]
  BY <1>5 DEF OptionSoFar
<1>7. \A j \in Gives(n) : IsLast(j, Gives(n)) => g[Len(args)].values[n] = {Given(j)}
  BY <1>4, <1>5 DEF OptionSoFar, IsLast
<1> QED
  BY <1>6, <1>7, OnCommandLineFacts
-----------------------------------------------------------------------------
(* The flags. A pass leaves a flag set if it was set, or if an argument that  *)
(* no option waits for sets it.                                               *)
Sets(n, j) == <<n, True>> \in Assigns(args[j])

FlagSoFar(g, vals, n, i) ==
    g[i].values[n] # {} <=>
        vals[n] # {} \/ \E j \in 1..Len(args) : j <= i /\ g[j - 1].wants = {} /\ Sets(n, j)

LEMMA FlagStep ==
    ASSUME program \in Programs, args \in Seq(Argument),
           NEW g, NEW vals, Passes(g, vals), NEW n \in Flags, NEW i \in 1..Len(args),
           FlagSoFar(g, vals, n, i - 1)
    PROVE  FlagSoFar(g, vals, n, i)
<1> DEFINE s == g[i - 1]
           t == g[i]
           given == Assigns(args[i])
           before == s.values
<1>1. /\ s \in Parsing /\ before \in Vals /\ t = TakeArg(s, args[i])
      /\ args[i] \in Argument /\ n \in Declared /\ n \notin Options
      /\ s.wants = {} \/ \E o : s.wants = {o}
  BY PassStep, NameFacts DEF Declared
<1>2. t.values[n] # {} <=> s.values[n] # {} \/ (s.wants = {} /\ Sets(n, i))
  <2> HIDE DEF s, t, before, given
  <2>1. Took(s, t, i)
    BY <1>1, TakeArgFacts
  <2>2. CASE s.wants = {}
    <3>1. t.values = Store(before, given)
      BY <2>1, <2>2 DEF Took, given, before
    <3>2. Functional(given) /\ \A p \in given : p[1] = n => p = <<n, True>>
      BY <1>1, AssignsFacts DEF given
    <3>3. CASE Sets(n, i)
      <4> DEFINE pair == <<n, True>>
      <4>1. pair \in given /\ pair[1] = n
        BY <3>3 DEF given, Sets
      <4> HIDE DEF pair
      <4>2. \A p \in given : Store(before, given)[p[1]] = {p[2]}
        BY <1>1, <3>2, StoreFacts
      <4>3. t.values[n] = {pair[2]}
        BY <3>1, <4>1, <4>2
      <4> QED
        BY <2>2, <3>3, <4>3
    <3>4. CASE ~Sets(n, i)
      <4>1. \A p \in given : p[1] # n
        BY <3>2, <3>4 DEF given, Sets
      <4>2. t.values[n] = before[n]
        BY <1>1, <3>1, <3>2, <4>1, StoreFacts
      <4> QED
        BY <3>4, <4>2 DEF before
    <3> QED
      BY <3>3, <3>4
  <2>3. CASE s.wants # {}
    <3>1. PICK o : s.wants = {o}
      BY <1>1, <2>3
    <3>2. o \in Options /\ t.values[n] = s.values[n]
      BY <1>1, <2>1, <3>1 DEF Took
    <3> QED
      BY <2>3, <3>2
  <2> QED
    BY <2>2, <2>3
<1>3. \A j \in 1..Len(args) : (j <= i <=> j <= i - 1 \/ j = i)
  OBVIOUS
<1> QED
  BY <1>2, <1>3 DEF FlagSoFar

LEMMA PassFlags ==
    ASSUME program \in Programs, args \in Seq(Argument),
           NEW g, NEW vals, Passes(g, vals), NEW n \in Flags
    PROVE  /\ vals[n] # {} => g[Len(args)].values[n] # {}
           /\ \A j \in DOMAIN args : ~IsValue(j) /\ Sets(n, j) => g[Len(args)].values[n] # {}
           /\ WellFormed /\ g[Len(args)].values[n] # {} =>
                 vals[n] # {} \/ \E j \in DOMAIN args : ~IsValue(j) /\ Sets(n, j)
<1> DEFINE G == {i \in 0..Len(args) : FlagSoFar(g, vals, n, i)}
           m == Len(args)
<1>1. 0 \in G
  <2>1. g[0].values = vals
    BY DEF Passes
  <2>2. \A j \in 1..Len(args) : ~(j <= 0)
    OBVIOUS
  <2> QED
    BY <2>1, <2>2 DEF FlagSoFar
<1>2. ASSUME NEW i \in 1..m, i - 1 \in G PROVE i \in G
  BY <1>2, FlagStep
<1>3. m \in G
  <2>1. m \in Nat
    OBVIOUS
  <2> HIDE DEF G, m
  <2>2. 0..m \subseteq G /\ m \in 0..m
    BY <1>1, <1>2, <2>1, Steps
  <2> QED
    BY <2>2
<1>4. \A j \in 1..m : j <= m
  OBVIOUS
<1>5. g[m].values[n] # {} <=>
         vals[n] # {} \/ \E j \in 1..m : g[j - 1].wants = {} /\ Sets(n, j)
  BY <1>3, <1>4 DEF FlagSoFar
<1>6. ASSUME NEW j \in 1..m
      PROVE  /\ ~IsValue(j) => g[j - 1].wants = {}
             /\ WellFormed /\ g[j - 1].wants = {} => ~IsValue(j)
  <2>1. j - 1 \in 0..m /\ (j - 1 \in 1..m <=> j > 1)
    OBVIOUS
  <2>2. g[j - 1].wants # {} => j - 1 \in 1..m /\ IsOption(j - 1)
    BY <2>1, WantsFacts
  <2>3. WellFormed /\ j > 1 /\ IsOption(j - 1) => g[j - 1].wants # {}
    BY <2>1, WantsFacts
  <2> QED
    BY <2>1, <2>2, <2>3 DEF IsValue
<1>7. DOMAIN args = 1..m
  OBVIOUS
<1> QED
  BY <1>5, <1>6, <1>7

-----------------------------------------------------------------------------
(* The words. Those that are nobody's value are counted; the state after an   *)
(* argument has as many words as were counted, in their order.                *)
Inputs == {i \in DOMAIN args : args[i][1] = "word" /\ ~IsValue(i)}
Count(i) == Cardinality({j \in Inputs : j <= i})

LEMMA CountFacts ==
    ASSUME args \in Seq(Argument)
    PROVE  /\ IsFiniteSet(Inputs) /\ \A i \in 0..Len(args) : Count(i) \in Nat
           /\ Count(0) = 0
           /\ Count(Len(args)) = Cardinality(Inputs)
           /\ \A i \in 1..Len(args) :
                 /\ i \in Inputs => Count(i) = Count(i - 1) + 1
                 /\ i \notin Inputs => Count(i) = Count(i - 1)
           /\ \A i, j \in Inputs : i < j => Count(i) < Count(j)
<1>1. /\ IsFiniteSet(Inputs) /\ Len(args) \in Nat
      /\ \A j \in Inputs : j \in Nat /\ 1 <= j /\ j <= Len(args)
  <2> DEFINE m == Len(args)
             S == Inputs
  <2>1. m \in Nat /\ S \in SUBSET (1..m)
    BY DEF Inputs
  <2>2. IsFiniteSet(S)
    <3> HIDE DEF S, m
    <3> DEFINE positions == 1..m
    <3>1. IsFiniteSet(positions) /\ S \in SUBSET positions
      BY <2>1, FS_Interval
    <3> HIDE DEF positions
    <3> QED
      BY <3>1, FS_Subset
  <2> QED
    BY <2>1, <2>2
<1>2. \A i : IsFiniteSet({j \in Inputs : j <= i}) /\ Count(i) \in Nat
  <2> SUFFICES ASSUME NEW i
               PROVE  IsFiniteSet({j \in Inputs : j <= i}) /\ Count(i) \in Nat
    OBVIOUS
  <2> DEFINE T == {j \in Inputs : j <= i}
  <2>1. IsFiniteSet(T)
    <3>1. T \in SUBSET Inputs
      OBVIOUS
    <3> HIDE DEF T
    <3> QED
      BY <1>1, <3>1, FS_Subset
  <2> QED
    BY <2>1, FS_CardinalityType DEF Count
<1>3. Count(0) = 0
  <2>1. {j \in Inputs : j <= 0} = {}
    BY <1>1
  <2> QED
    BY <2>1, FS_EmptySet DEF Count
<1>4. Count(Len(args)) = Cardinality(Inputs)
  <2>1. {j \in Inputs : j <= Len(args)} = Inputs
    BY <1>1
  <2> QED
    BY <2>1 DEF Count
<1>5. ASSUME NEW i \in 1..Len(args)
      PROVE  /\ i \in Inputs => Count(i) = Count(i - 1) + 1
             /\ i \notin Inputs => Count(i) = Count(i - 1)
  <2> DEFINE before == {j \in Inputs : j <= i - 1}
             upTo == {j \in Inputs : j <= i}
  <2>1. IsFiniteSet(before) /\ i \notin before
    <3>1. ~(i <= i - 1)
      OBVIOUS
    <3> QED
      BY <1>2, <3>1
  <2>6. \A j \in Inputs : (j <= i <=> j <= i - 1 \/ j = i)
    BY <1>1
  <2>2. i \in Inputs => upTo = before \cup {i}
    BY <2>6
  <2>3. i \notin Inputs => upTo = before
    BY <2>6
  <2>4. Count(i) = Cardinality(upTo) /\ Count(i - 1) = Cardinality(before)
    BY DEF Count
  <2> HIDE DEF before, upTo
  <2>5. Cardinality(before \cup {i}) = Cardinality(before) + 1
    BY <2>1, FS_AddElement
  <2> QED
    BY <2>2, <2>3, <2>4, <2>5
<1>6. ASSUME NEW i \in Inputs, NEW j \in Inputs, i < j
      PROVE  Count(i) < Count(j)
  <2> DEFINE less == {k \in Inputs : k <= i}
             more == {k \in Inputs : k <= j}
  <2>1. less \subseteq more /\ j \in more /\ j \notin less
    <3>1. i \in Nat /\ j \in Nat /\ ~(j <= i) /\ j <= j
      BY <1>1, <1>6
    <3>2. \A k \in Inputs : k <= i => k <= j
      BY <1>1, <1>6, <3>1
    <3> QED
      BY <3>1, <3>2
  <2>2. IsFiniteSet(more) /\ Count(i) = Cardinality(less) /\ Count(j) = Cardinality(more)
    BY <1>2 DEF Count
  <2> HIDE DEF less, more
  <2>3. less # more /\ less \in SUBSET more
    BY <2>1
  <2>4. Cardinality(less) <= Cardinality(more) /\ Cardinality(less) # Cardinality(more)
    BY <2>2, <2>3, FS_Subset
  <2>5. Count(i) \in Nat /\ Count(j) \in Nat
    BY <1>2
  <2> QED
    BY <2>2, <2>4, <2>5
<1> QED
  BY <1>1, <1>2, <1>3, <1>4, <1>5, <1>6
LEMMA Counted ==
    ASSUME args \in Seq(Argument), NEW k \in 1..Cardinality(Inputs)
    PROVE  \E p \in Inputs : Count(p) = k
<1> DEFINE G == {i \in 0..Len(args) : \A c \in 1..Count(i) : \E p \in Inputs : Count(p) = c}
           m == Len(args)
<1>1. m \in Nat /\ Count(m) = Cardinality(Inputs)
  BY CountFacts
<1>2. 0 \in G
  BY CountFacts
<1>3. ASSUME NEW i \in 1..m, i - 1 \in G
      PROVE  i \in G
  <2>1. Count(i - 1) \in Nat /\ Count(i) \in Nat /\ i \in 0..m
    BY CountFacts
  <2>2. CASE i \in Inputs
    <3>1. Count(i) = Count(i - 1) + 1
      BY <2>2, CountFacts
    <3>2. ASSUME NEW c \in 1..Count(i)
          PROVE  \E p \in Inputs : Count(p) = c
      <4>1. CASE c = Count(i)
        BY <2>2, <4>1
      <4>2. CASE c # Count(i)
        <5>1. c \in 1..Count(i - 1)
          BY <2>1, <3>1, <4>2
        <5> QED
          BY <1>3, <5>1
      <4> QED
        BY <4>1, <4>2
    <3> QED
      BY <2>1, <3>2
  <2>3. CASE i \notin Inputs
    <3>1. Count(i) = Count(i - 1)
      BY <2>3, CountFacts
    <3> QED
      BY <1>3, <2>1, <3>1
  <2> QED
    BY <2>2, <2>3
<1> HIDE DEF G, m
<1>4. m \in 0..m /\ 0..m \subseteq G
  <2>1. m \in Nat
    BY <1>1
  <2>2. \A i \in 1..m : i - 1 \in G => i \in G
    BY <1>3
  <2>3. 0..m \subseteq G
    BY <1>2, <2>1, <2>2, Steps
  <2> QED
    BY <2>1, <2>3
<1>5. m \in G
  BY <1>4
<1> QED
  BY <1>1, <1>5 DEF G

WordsSoFar(g, i) ==
    /\ Len(g[i].words) = Count(i)
    /\ \A p \in Inputs : p <= i => g[i].words[Count(p)] = args[p]

LEMMA WordStep ==
    ASSUME program \in Programs, args \in Seq(Argument), WellFormed,
           NEW g, NEW vals, Passes(g, vals), NEW i \in 1..Len(args), WordsSoFar(g, i - 1)
    PROVE  WordsSoFar(g, i)
<1> DEFINE s == g[i - 1]
           t == g[i]
<1>1. s \in Parsing /\ t = TakeArg(s, args[i]) /\ i - 1 \in 0..Len(args)
  BY PassStep
<1>2. Took(s, t, i)
  <2> HIDE DEF s, t
  <2> QED
    BY <1>1, TakeArgFacts
<1>3. s.words \in Seq(ToSet(args)) /\ Len(s.words) = Count(i - 1)
      /\ \A p \in Inputs : p <= i - 1 => s.words[Count(p)] = args[p]
  BY <1>1 DEF Parsing, WordsSoFar
<1>4. s.wants # {} <=> IsValue(i)
  <2>1. i - 1 \in 0..Len(args) /\ (i - 1 \in 1..Len(args) <=> i > 1)
    OBVIOUS
  <2>2. s.wants # {} => i - 1 \in 1..Len(args) /\ IsOption(i - 1)
    BY <2>1, WantsFacts
  <2>3. i > 1 /\ IsOption(i - 1) => s.wants # {}
    BY <2>1, WantsFacts
  <2> QED
    BY <2>1, <2>2, <2>3 DEF IsValue
<1>5. i \in Inputs <=> args[i][1] = "word" /\ ~IsValue(i)
  BY DEF Inputs
<1>6. \A p \in Inputs : p \in Nat /\ p \in 1..Len(args) /\ Count(p) \in Nat /\ Count(p) >= 1
  <2> SUFFICES ASSUME NEW p \in Inputs
               PROVE  p \in Nat /\ p \in 1..Len(args) /\ Count(p) \in Nat /\ Count(p) >= 1
    OBVIOUS
  <2>1. p \in 1..Len(args) /\ p - 1 \in 0..Len(args) /\ p \in 0..Len(args)
    BY DEF Inputs
  <2>2. Count(p) = Count(p - 1) + 1 /\ Count(p - 1) \in Nat
    BY <2>1, CountFacts
  <2> QED
    BY <2>1, <2>2
<1>7. \A p \in Inputs : p <= i <=> p <= i - 1 \/ p = i
  BY <1>6
<1>8. CASE i \in Inputs
  <2>1. t.words = Append(s.words, args[i])
    BY <1>2, <1>4, <1>5, <1>8 DEF Took
  <2>2. Count(i) = Count(i - 1) + 1 /\ Count(i - 1) \in Nat
    BY <1>1, <1>8, CountFacts
  <2>3. Len(t.words) = Count(i) /\ t.words[Count(i)] = args[i]
    BY <1>3, <2>1, <2>2
  <2>4. ASSUME NEW p \in Inputs, p <= i - 1
        PROVE  t.words[Count(p)] = args[p]
    <3>1. Count(p) < Count(i)
      BY <1>6, <1>8, <2>4, CountFacts
    <3>2. Count(p) \in 1..Len(s.words)
      BY <1>3, <1>6, <2>2, <3>1
    <3> DEFINE c == Count(p)
               words == s.words
    <3>3. t.words = Append(words, args[i]) /\ words \in Seq(ToSet(args)) /\ c \in 1..Len(words)
      BY <1>3, <2>1, <3>2
    <3> HIDE DEF c, words
    <3>4. t.words[c] = words[c]
      BY <3>3
    <3> QED
      BY <1>3, <2>4, <3>4 DEF c, words
  <2> QED
    BY <1>7, <2>3, <2>4 DEF WordsSoFar
<1>9. CASE i \notin Inputs
  <2>1. t.words = s.words
    BY <1>2, <1>4, <1>5, <1>9 DEF Took
  <2>2. Count(i) = Count(i - 1)
    BY <1>9, CountFacts
  <2>3. \A p \in Inputs : p <= i => p <= i - 1
    BY <1>7, <1>9
  <2> QED
    BY <1>3, <2>1, <2>2, <2>3 DEF WordsSoFar
<1> QED
  BY <1>8, <1>9

LEMMA PassWords ==
    ASSUME program \in Programs, args \in Seq(Argument), WellFormed,
           NEW g, NEW vals, Passes(g, vals)
    PROVE  g[Len(args)].words = DocumentedInput
<1> DEFINE G == {i \in 0..Len(args) : WordsSoFar(g, i)}
           m == Len(args)
           words == g[m].words
<1>1. m \in Nat
  OBVIOUS
<1>2. 0 \in G
  <2>1. g[0].words = <<>>
    BY DEF Passes
  <2>2. \A p \in Inputs : ~(p <= 0)
    BY DEF Inputs
  <2> QED
    BY <2>1, <2>2, CountFacts DEF WordsSoFar
<1>3. ASSUME NEW i \in 1..m, i - 1 \in G PROVE i \in G
  BY <1>3, WordStep
<1>4. m \in G
  <2> HIDE DEF G, m
  <2>1. m \in 0..m /\ 0..m \subseteq G
    BY <1>1, <1>2, <1>3, Steps
  <2> QED
    BY <2>1
<1>5. words \in Seq(ToSet(args)) /\ Len(words) = Cardinality(Inputs)
      /\ \A p \in Inputs : words[Count(p)] = args[p]
  <2>1. g[m] \in Parsing
    BY <1>1 DEF Passes
  <2>2. \A p \in Inputs : p <= m
    BY DEF Inputs
  <2> QED
    BY <1>4, <2>1, <2>2, CountFacts DEF WordsSoFar, Parsing
<1>6. DocumentedInput = [k \in 1..Cardinality(Inputs) |-> args[CHOOSE p \in Inputs : Count(p) = k]]
  BY DEF DocumentedInput, Inputs, Count
<1> HIDE DEF words
<1>7. words = [k \in 1..Cardinality(Inputs) |-> words[k]]
  BY <1>5
<1>8. ASSUME NEW k \in 1..Cardinality(Inputs)
      PROVE  words[k] = args[CHOOSE p \in Inputs : Count(p) = k]
  <2> DEFINE q == CHOOSE p \in Inputs : Count(p) = k
  <2>1. q \in Inputs /\ Count(q) = k
    BY Counted
  <2> HIDE DEF q
  <2>2. words[k] = args[q]
    BY <1>5, <2>1
  <2> QED
    BY <2>2 DEF q
<1>9. words = [k \in 1..Cardinality(Inputs) |-> args[CHOOSE p \in Inputs : Count(p) = k]]
  BY <1>7, <1>8
<1> QED
  BY <1>6, <1>9 DEF words
-----------------------------------------------------------------------------
(* The lines of a file, likewise.                                             *)
Loads(g, vals, lines) ==
    /\ g \in [0..Len(lines) -> Vals] /\ g[0] = vals
    /\ \A i \in 1..Len(lines) : g[i] = TakeLine(g[i - 1], lines[i])

LEMMA LoadExists ==
    ASSUME program \in Programs, NEW vals \in Vals, NEW lines \in Seq(Line)
    PROVE  \E g : Loads(g, vals, lines) /\ Loaded(vals, lines) = g[Len(lines)]
<1> DEFINE n == Len(lines)
           X == Vals
<1>1. vals \in X /\ n \in Nat /\ DOMAIN lines = 1..n
  OBVIOUS
<1>2. ASSUME NEW i \in 1..n, NEW v \in X
      PROVE  TakeLine(v, lines[i]) \in X
  <2>1. lines[i] \in Line
    OBVIOUS
  <2>2. Functional(LineAssigns(lines[i]))
    BY <2>1, LineFacts
  <2> QED
    BY <2>2, StoreFacts DEF TakeLine
<1> HIDE DEF n, X
<1>3. \E g : LoadedBy(g, X, vals, lines, n)
  BY <1>1, <1>2, ReadSteps
<1> QED
  BY <1>3 DEF n, X, LoadedBy, Loads

TookLine(s, t, line) ==
    /\ \A n \in FileOptions :
          IF line[1] = "pair" /\ line[2] = n THEN t[n] = {Word(line[3])} ELSE t[n] = s[n]
    /\ \A n \in Flags :
          t[n] # {} <=> s[n] # {} \/ (line[1] = "just" /\ LongFlag(line[2]) = n)

LEMMA LoadStep ==
    ASSUME program \in Programs, NEW lines \in Seq(Line),
           NEW g, NEW vals, Loads(g, vals, lines), NEW i \in 1..Len(lines),
           NEW s, NEW t, s = g[i - 1], t = g[i]
    PROVE  TookLine(s, t, lines[i])
<1> DEFINE line == lines[i]
           given == LineAssigns(line)
<1>1. i - 1 \in 0..Len(lines) /\ line \in Line
  OBVIOUS
<1>2. s \in Vals /\ t = TakeLine(s, line)
  BY <1>1 DEF Loads
<1> HIDE DEF line
<1>3. t = Store(s, given)
  BY <1>2 DEF TakeLine
<1>4. /\ Functional(given)
      /\ \A n \in Flags :
            IF line[1] = "just" /\ LongFlag(line[2]) = n
            THEN <<n, True>> \in given
            ELSE \A p \in given : p[1] # n
      /\ \A n \in FileOptions :
            IF line[1] = "pair" /\ line[2] = n
            THEN <<n, Word(line[3])>> \in given
            ELSE \A p \in given : p[1] # n
  BY <1>1, LineFacts
<1> HIDE DEF given
<1>5. /\ \A p \in given : Store(s, given)[p[1]] = {p[2]}
      /\ \A n \in Declared : (\A p \in given : p[1] # n) => Store(s, given)[n] = s[n]
  BY <1>2, <1>4, StoreFacts
<1>6. ASSUME NEW n, NEW v, <<n, v>> \in given
      PROVE  t[n] = {v}
  <2> DEFINE pair == <<n, v>>
  <2>1. pair \in given /\ pair[1] = n /\ pair[2] = v
    BY <1>6
  <2> HIDE DEF pair
  <2> QED
    BY <1>3, <1>5, <2>1
<1>7. ASSUME NEW n \in FileOptions
      PROVE  IF line[1] = "pair" /\ line[2] = n THEN t[n] = {Word(line[3])} ELSE t[n] = s[n]
  <2>1. n \in Declared
    BY NameFacts DEF Declared
  <2>2. CASE line[1] = "pair" /\ line[2] = n
    BY <1>4, <1>6, <2>2
  <2>3. CASE ~(line[1] = "pair" /\ line[2] = n)
    BY <1>3, <1>4, <1>5, <2>1, <2>3
  <2> QED
    BY <2>2, <2>3
<1>8. ASSUME NEW n \in Flags
      PROVE  t[n] # {} <=> s[n] # {} \/ (line[1] = "just" /\ LongFlag(line[2]) = n)
  <2>1. n \in Declared
    BY DEF Declared
  <2>2. CASE line[1] = "just" /\ LongFlag(line[2]) = n
    <3>1. t[n] = {True}
      BY <1>4, <1>6, <2>2
    <3> QED
      BY <2>2, <3>1
  <2>3. CASE ~(line[1] = "just" /\ LongFlag(line[2]) = n)
    BY <1>3, <1>4, <1>5, <2>1, <2>3
  <2> QED
    BY <2>2, <2>3
<1> QED
  BY <1>7, <1>8 DEF line, TookLine

PairsOf(n, lines) == {j \in DOMAIN lines : lines[j][1] = "pair" /\ lines[j][2] = n}

LoadSoFar(g, vals, lines, n, i) ==
    /\ (\A j \in PairsOf(n, lines) : ~(j <= i)) => g[i][n] = vals[n]
    /\ \A j \in PairsOf(n, lines) :
          j <= i /\ (\A k \in PairsOf(n, lines) : k <= i => k <= j)
             => g[i][n] = {Word(lines[j][3])}

LEMMA LoadOptionStep ==
    ASSUME program \in Programs, NEW lines \in Seq(Line),
           NEW g, NEW vals, Loads(g, vals, lines), NEW i \in 1..Len(lines),
           NEW n \in FileOptions, LoadSoFar(g, vals, lines, n, i - 1)
    PROVE  LoadSoFar(g, vals, lines, n, i)
<1> DEFINE s == g[i - 1]
           t == g[i]
           S == PairsOf(n, lines)
<1>1. IF i \in S THEN t[n] = {Word(lines[i][3])} ELSE t[n] = s[n]
  <2>1. i \in S <=> lines[i][1] = "pair" /\ lines[i][2] = n
    BY DEF PairsOf
  <2> HIDE DEF s, t, S
  <2>2. s = g[i - 1] /\ t = g[i]
    BY DEF s, t
  <2>3. TookLine(s, t, lines[i])
    BY <2>2, LoadStep
  <2> QED
    BY <2>1, <2>3 DEF TookLine
<1>2. \A j \in S : j \in Nat /\ (j <= i <=> j <= i - 1 \/ j = i)
  BY DEF PairsOf
<1>3. /\ (\A j \in S : ~(j <= i - 1)) => s[n] = vals[n]
      /\ \A j \in S : j <= i - 1 /\ (\A k \in S : k <= i - 1 => k <= j)
            => s[n] = {Word(lines[j][3])}
  BY DEF LoadSoFar
<1>4. SUFFICES /\ (\A j \in S : ~(j <= i)) => t[n] = vals[n]
               /\ \A j \in S : j <= i /\ (\A k \in S : k <= i => k <= j)
                     => t[n] = {Word(lines[j][3])}
  BY DEF LoadSoFar
<1> HIDE DEF s, t, S
<1>5. CASE i \in S
  <2>1. i <= i /\ \A j \in S : j <= i /\ i <= j => j = i
    BY <1>2
  <2> QED
    BY <1>1, <1>5, <2>1
<1>6. CASE i \notin S
  <2>1. \A j \in S : (j <= i <=> j <= i - 1)
    BY <1>2, <1>6
  <2> QED
    BY <1>1, <1>3, <1>6, <2>1
<1> QED
  BY <1>5, <1>6

LEMMA LoadOptions ==
    ASSUME program \in Programs, NEW vals \in Vals, NEW lines \in Seq(Line), NEW n \in FileOptions
    PROVE  /\ PairsOf(n, lines) = {} => Loaded(vals, lines)[n] = vals[n]
           /\ \A j \in PairsOf(n, lines) :
                 IsLast(j, PairsOf(n, lines)) => Loaded(vals, lines)[n] = {Word(lines[j][3])}
<1>1. PICK g : Loads(g, vals, lines) /\ Loaded(vals, lines) = g[Len(lines)]
  BY LoadExists
<1> DEFINE G == {i \in 0..Len(lines) : LoadSoFar(g, vals, lines, n, i)}
           m == Len(lines)
<1>2. 0 \in G /\ m \in Nat
  <2>1. g[0] = vals
    BY <1>1 DEF Loads
  <2>2. \A j \in PairsOf(n, lines) : ~(j <= 0)
    BY DEF PairsOf
  <2> QED
    BY <2>1, <2>2 DEF LoadSoFar
<1>3. ASSUME NEW i \in 1..m, i - 1 \in G PROVE i \in G
  BY <1>1, <1>3, LoadOptionStep
<1>4. m \in G
  <2> HIDE DEF G, m
  <2>1. 0..m \subseteq G /\ m \in 0..m
    BY <1>2, <1>3, Steps
  <2> QED
    BY <2>1
<1>5. \A j \in PairsOf(n, lines) : j <= m
  BY DEF PairsOf
<1>6. LoadSoFar(g, vals, lines, n, m)
  BY <1>4
<1> HIDE DEF m
<1>7. Loaded(vals, lines) = g[m]
  BY <1>1 DEF m
<1> QED
  BY <1>5, <1>6, <1>7 DEF LoadSoFar, IsLast

JustGives(lines, n, j) == lines[j][1] = "just" /\ LongFlag(lines[j][2]) = n

LEMMA LoadFlags ==
    ASSUME program \in Programs, NEW vals \in Vals, NEW lines \in Seq(Line), NEW n \in Flags
    PROVE  Loaded(vals, lines)[n] # {} <=>
              vals[n] # {} \/ \E j \in DOMAIN lines : JustGives(lines, n, j)
<1>1. PICK g : Loads(g, vals, lines) /\ Loaded(vals, lines) = g[Len(lines)]
  BY LoadExists
<1> DEFINE P(i) == g[i][n] # {} <=>
                      vals[n] # {} \/ \E j \in DOMAIN lines : j <= i /\ JustGives(lines, n, j)
           G == {i \in 0..Len(lines) : P(i)}
           m == Len(lines)
<1>2. 0 \in G /\ m \in Nat
  <2>1. g[0] = vals
    BY <1>1 DEF Loads
  <2> QED
    BY <2>1
<1>3. ASSUME NEW i \in 1..m, i - 1 \in G PROVE i \in G
  <2> DEFINE s == g[i - 1]
             t == g[i]
  <2>1. t[n] # {} <=> s[n] # {} \/ JustGives(lines, n, i)
    <3>1. s = g[i - 1] /\ t = g[i]
      OBVIOUS
    <3> HIDE DEF s, t
    <3>2. TookLine(s, t, lines[i])
      BY <1>1, <3>1, LoadStep
    <3> QED
      BY <3>2 DEF JustGives, TookLine
  <2>2. \A j \in DOMAIN lines : (j <= i <=> j <= i - 1 \/ j = i)
    OBVIOUS
  <2>3. s[n] # {} <=> vals[n] # {} \/ \E j \in DOMAIN lines : j <= i - 1 /\ JustGives(lines, n, j)
    BY <1>3
  <2>4. i \in DOMAIN lines /\ i \in 0..m
    OBVIOUS
  <2> HIDE DEF s
  <2>5. P(i)
    BY <2>1, <2>2, <2>3, <2>4
  <2> QED
    BY <2>4, <2>5
<1>4. m \in G
  <2> HIDE DEF G, m
  <2>1. 0..m \subseteq G /\ m \in 0..m
    BY <1>2, <1>3, Steps
  <2> QED
    BY <2>1
<1>5. \A j \in DOMAIN lines : j <= m
  OBVIOUS
<1> QED
  BY <1>1, <1>4, <1>5
-----------------------------------------------------------------------------
(* What a pass and what the file make of the values.                          *)
Typed ==
    /\ program \in Programs /\ args \in Seq(Argument) /\ disk \in Disks
    /\ pc \in {"firstPass", "readConfig", "secondPass", "interpret", "usage", "error"}
                 \cup Connecting
    /\ values \in Vals /\ positional \in Seq(ToSet(args))

GivenByArgs(n) == \E j \in DOMAIN args : ~IsValue(j) /\ Sets(n, j)
FlagGiven(n) ==
    \/ GivenByArgs(n)
    \/ \E f \in DocumentedFile : \E j \in DOMAIN f.lines : JustGives(f.lines, n, j)

LEMMA ProcessFacts ==
    ASSUME Typed, ProcessCommandArgs
    PROVE  /\ values' \in Vals /\ positional' \in Seq(ToSet(args))
           /\ \A n \in Flags :
                 /\ values[n] # {} \/ GivenByArgs(n) => values'[n] # {}
                 /\ WellFormed /\ values'[n] # {} => values[n] # {} \/ GivenByArgs(n)
           /\ WellFormed => \A n \in Options :
                 /\ OnCommandLine(n) = {} => values'[n] = values[n]
                 /\ OnCommandLine(n) # {} =>
                       values'[n] = LastOf(OnCommandLine(n)) /\ values'[n] # {}
           /\ WellFormed => positional' = DocumentedInput
<1>1. program \in Programs /\ args \in Seq(Argument) /\ values \in Vals
  BY DEF Typed
<1>2. PICK g : /\ Passes(g, values)
               /\ values' = g[Len(args)].values /\ positional' = g[Len(args)].words
  BY <1>1, PassExists
<1>3. g[Len(args)] \in Parsing
  <2>1. Len(args) \in 0..Len(args)
    BY <1>1
  <2> QED
    BY <1>2, <2>1 DEF Passes
<1>4. values' \in Vals /\ positional' \in Seq(ToSet(args))
  BY <1>2, <1>3 DEF Parsing
<1>5. ASSUME NEW n \in Flags
      PROVE  /\ values[n] # {} \/ GivenByArgs(n) => values'[n] # {}
             /\ WellFormed /\ values'[n] # {} => values[n] # {} \/ GivenByArgs(n)
  BY <1>1, <1>2, PassFlags DEF GivenByArgs
<1>6. ASSUME WellFormed, NEW n \in Options
      PROVE  /\ OnCommandLine(n) = {} => values'[n] = values[n]
             /\ OnCommandLine(n) # {} =>
                   values'[n] = LastOf(OnCommandLine(n)) /\ values'[n] # {}
  BY <1>1, <1>2, <1>6, PassOptions
<1>7. ASSUME WellFormed
      PROVE  positional' = DocumentedInput
  BY <1>1, <1>2, <1>7, PassWords
<1> QED
  BY <1>4, <1>5, <1>6, <1>7

LEMMA ConfigFileFacts ==
    ASSUME Typed
    PROVE  /\ \A f \in ConfigFile :
                 f.lines \in Seq(Line) /\ f.terminated \in BOOLEAN /\ ConfigFile = {f}
           /\ (\A n \in Options : values[n] = LastOf(OnCommandLine(n))) =>
                 ConfigFile = DocumentedFile
<1>1. "config" \in Options /\ "config" \in Declared
  BY NameFacts DEF Declared, Typed
<1>2. values["config"] = {} \/ \E a : values["config"] = {a}
  BY <1>1 DEF Typed, Vals, Cells
<1>3. ASSUME NEW path \in {DefaultConfig} \cup DOMAIN disk
      PROVE  /\ disk[path] \subseteq [lines : Seq(Line), terminated : BOOLEAN]
             /\ \A file, other \in disk[path] : file = other
  BY CommandLineAssumption DEF Typed
<1>4. ConfigFile = {} \/ \E path \in {DefaultConfig} \cup DOMAIN disk : ConfigFile = disk[path]
  <2>1. CASE values["config"] = {}
    BY <2>1 DEF ConfigFile, HomeConfigFile
  <2>2. ASSUME NEW a, values["config"] = {a}
        PROVE  ConfigFile = {} \/ \E path \in {DefaultConfig} \cup DOMAIN disk : ConfigFile = disk[path]
    <3>1. ConfigFile = UNION {disk[path] : path \in {a} \cap DOMAIN disk}
      BY <2>2 DEF ConfigFile
    <3>2. CASE a \in DOMAIN disk
      <4>1. {a} \cap DOMAIN disk = {a}
        BY <3>2
      <4>2. ConfigFile = disk[a]
        BY <3>1, <4>1
      <4> QED
        BY <3>2, <4>2
    <3>3. CASE a \notin DOMAIN disk
      BY <3>1, <3>3
    <3> QED
      BY <3>2, <3>3
  <2> QED
    BY <1>2, <2>1, <2>2
<1>5. ASSUME NEW f \in ConfigFile
      PROVE  f.lines \in Seq(Line) /\ f.terminated \in BOOLEAN /\ ConfigFile = {f}
  <2>1. PICK path \in {DefaultConfig} \cup DOMAIN disk : ConfigFile = disk[path]
    BY <1>4
  <2>2. f \in [lines : Seq(Line), terminated : BOOLEAN]
    BY <1>3, <2>1
  <2>3. \A other \in ConfigFile : other = f
    BY <1>3, <2>1
  <2> QED
    BY <2>2, <2>3
<1>6. ASSUME \A n \in Options : values[n] = LastOf(OnCommandLine(n))
      PROVE  ConfigFile = DocumentedFile
  <2>1. values["config"] = LastOf(OnCommandLine("config"))
    BY <1>1, <1>6
  <2>2. LastOf(OnCommandLine("config")) = {} <=> OnCommandLine("config") = {}
    <3> DEFINE n == "config"
    <3>1. n \in Options
      BY <1>1
    <3> HIDE DEF n
    <3>2. OnCommandLine(n) = {} => LastOf(OnCommandLine(n)) = {}
      BY <3>1, OnCommandLineFacts DEF Typed
    <3>3. OnCommandLine(n) # {} => \E j : LastOf(OnCommandLine(n)) = {Given(j)}
      BY <3>1, OnCommandLineFacts DEF Typed
    <3> QED
      BY <3>2, <3>3 DEF n
  <2> QED
    BY <2>1, <2>2 DEF ConfigFile, DocumentedFile, HomeConfigFile
<1> QED
  BY <1>5, <1>6

(* Of a file without a newline at its end, the lines before the last are read *)
(* as they are, and the last is lost or stays one that names what it named.   *)
Follows(lines, whole) ==
    LET m == Len(whole)
    IN  /\ \A j \in 1..m : j < m => j \in DOMAIN lines /\ lines[j] = whole[j]
        /\ \A j \in DOMAIN lines : j <= m
        /\ m \in DOMAIN lines =>
              /\ lines[m][1] = whole[m][1]
              /\ whole[m][1] = "pair" => lines[m][2] = whole[m][2]

LEMMA GoesOnFacts ==
    ASSUME NEW line \in Line, NEW on \in GoesOn(line)
    PROVE  on \in Line /\ on[1] = line[1] /\ (line[1] = "pair" => on[2] = line[2])
<1>1. Garbage \subseteq Text
  BY CommandLineAssumption
<1>2. CASE on = line
  BY <1>2
<1>3. CASE line[1] = "pair" /\ on \in {"pair"} \X {line[2]} \X Garbage
  <2>1. line[2] \in Text
    BY <1>3 DEF Line
  <2>2. PICK w \in Garbage : on = <<"pair", line[2], w>>
    BY <1>3
  <2>3. on[1] = "pair" /\ on[2] = line[2]
    BY <2>2
  <2>4. on \in Line
    BY <1>1, <2>1, <2>2 DEF Line
  <2> QED
    BY <1>3, <2>3, <2>4
<1>4. CASE line[1] # "pair" /\ on \in {"just"} \X Garbage
  <2>1. line[1] = "just"
    BY <1>4 DEF Line
  <2>2. PICK w \in Garbage : on = <<"just", w>>
    BY <1>4
  <2>3. on[1] = "just" /\ on \in Line
    BY <1>1, <2>2 DEF Line
  <2> QED
    BY <1>4, <2>1, <2>3
<1> QED
  BY <1>2, <1>3, <1>4 DEF GoesOn

LEMMA LinesReadFacts ==
    ASSUME NEW f, f.lines \in Seq(Line), f.terminated \in BOOLEAN, NEW lines \in LinesRead(f)
    PROVE  /\ lines \in Seq(Line)
           /\ \/ lines = f.lines
              \/ ~f.terminated /\ f.lines # <<>> /\ Follows(lines, f.lines)
<1> DEFINE whole == f.lines
           m == Len(whole)
<1>1. CASE f.terminated \/ whole = <<>>
  BY <1>1 DEF LinesRead
<1>2. CASE ~(f.terminated \/ whole = <<>>)
  <2> DEFINE front == Front(whole)
             line == whole[m]
  <2>1. m \in Nat /\ m # 0 /\ line \in Line /\ Last(whole) = line
    BY <1>2 DEF Last
  <2>2. /\ front \in Seq(Line) /\ Len(front) = m - 1
        /\ \A j \in 1..(m - 1) : front[j] = whole[j]
    BY <2>1 DEF Front
  <2>3. lines = front \/ \E on \in GoesOn(line) : lines = Append(front, on)
    BY <1>2, <2>1 DEF LinesRead
  <2> HIDE DEF front
  <2>4. CASE lines = front
    <3>1. Follows(lines, whole)
      BY <2>1, <2>2, <2>4 DEF Follows
    <3> QED
      BY <1>2, <2>2, <2>4, <3>1
  <2>5. ASSUME NEW on \in GoesOn(line), lines = Append(front, on)
        PROVE  lines \in Seq(Line) /\ Follows(lines, whole)
    <3>1. on \in Line /\ on[1] = line[1] /\ (line[1] = "pair" => on[2] = line[2])
      BY <2>1, <2>5, GoesOnFacts
    <3>2. /\ lines \in Seq(Line) /\ DOMAIN lines = 1..m /\ lines[m] = on
          /\ \A j \in 1..(m - 1) : lines[j] = whole[j]
      BY <2>1, <2>2, <2>5, <3>1
    <3>3. \A j \in 1..m : j < m => j \in 1..(m - 1)
      BY <2>1
    <3> QED
      BY <2>1, <3>1, <3>2, <3>3 DEF Follows
  <2> QED
    BY <1>2, <2>3, <2>4, <2>5
<1> QED
  BY <1>1, <1>2

(* So what the last line does not name is read as it stands in the file.      *)
LEMMA FollowsFacts ==
    ASSUME NEW lines \in Seq(Line), NEW whole \in Seq(Line), whole # <<>>, Follows(lines, whole)
    PROVE  /\ \A n : ~(Last(whole)[1] = "pair" /\ Last(whole)[2] = n) =>
                 /\ PairsOf(n, lines) = PairsOf(n, whole)
                 /\ \A j \in PairsOf(n, whole) : lines[j] = whole[j]
           /\ Last(whole)[1] # "just" =>
                 \A n : (\E j \in DOMAIN lines : JustGives(lines, n, j)) <=>
                        (\E j \in DOMAIN whole : JustGives(whole, n, j))
<1> DEFINE m == Len(whole)
<1>1. /\ m \in DOMAIN whole /\ Last(whole) = whole[m]
      /\ \A j \in DOMAIN whole : j = m \/ j < m
  BY DEF Last
<1>2. \A j \in DOMAIN lines : j = m \/ (j < m /\ j \in DOMAIN whole)
  BY DEF Follows
<1>3. \A j \in DOMAIN whole : j < m => j \in DOMAIN lines /\ lines[j] = whole[j]
  BY DEF Follows
<1>4. m \in DOMAIN lines =>
         /\ lines[m][1] = whole[m][1]
         /\ whole[m][1] = "pair" => lines[m][2] = whole[m][2]
  BY DEF Follows
<1> HIDE DEF m
<1>5. ASSUME NEW n, ~(Last(whole)[1] = "pair" /\ Last(whole)[2] = n)
      PROVE  /\ PairsOf(n, lines) = PairsOf(n, whole)
             /\ \A j \in PairsOf(n, whole) : lines[j] = whole[j]
  <2>1. m \notin PairsOf(n, whole) /\ m \notin PairsOf(n, lines)
    BY <1>1, <1>4, <1>5 DEF PairsOf
  <2>2. \A j : j \in PairsOf(n, lines) <=> j \in PairsOf(n, whole)
    BY <1>1, <1>2, <1>3, <2>1 DEF PairsOf
  <2>3. \A j \in PairsOf(n, whole) : lines[j] = whole[j]
    BY <1>1, <1>3, <2>1 DEF PairsOf
  <2> QED
    BY <2>2, <2>3
<1>6. ASSUME Last(whole)[1] # "just", NEW n
      PROVE  (\E j \in DOMAIN lines : JustGives(lines, n, j)) <=>
             (\E j \in DOMAIN whole : JustGives(whole, n, j))
  BY <1>1, <1>2, <1>3, <1>4, <1>6 DEF JustGives
<1> QED
  BY <1>5, <1>6

LEMMA InFileFacts ==
    ASSUME NEW f, DocumentedFile = {f}, f.lines \in Seq(Line), NEW n
    PROVE  /\ PairsOf(n, f.lines) = {} => LastOf(InFile(n)) = {}
           /\ PairsOf(n, f.lines) # {} =>
                 \E j \in PairsOf(n, f.lines) : /\ IsLast(j, PairsOf(n, f.lines))
                                                /\ LastOf(InFile(n)) = {Word(f.lines[j][3])}
<1> DEFINE S == PairsOf(n, f.lines)
           m == Len(f.lines)
           V == [j \in 1..m |-> Word(f.lines[j][3])]
           D == InFile(n)
<1>1. m \in Nat /\ S \subseteq 1..m /\ \A j \in S : V[j] = Word(f.lines[j][3])
  BY DEF PairsOf
<1>2. Lists(D, S, V)
  <2>1. InFile(n) = {<<i, Word(f.lines[i][3])>> : i \in S}
    BY DEF InFile, PairsOf
  <2> QED
    BY <1>1, <2>1 DEF Lists
<1> HIDE DEF S, m, V, D
<1>3. /\ S = {} => LastOf(D) = {}
      /\ \A j \in S : IsLast(j, S) => LastOf(D) = {V[j]}
  BY <1>1, <1>2, LastOfFacts
<1>4. S # {} => \E j \in S : IsLast(j, S)
  BY <1>1, LastExists
<1> QED
  BY <1>1, <1>3, <1>4 DEF S, D
LEMMA NothingInFile ==
    ASSUME DocumentedFile = {}, NEW n
    PROVE  LastOf(InFile(n)) = {}
<1>1. InFile(n) = {}
  BY DEF InFile
<1> QED
  BY <1>1 DEF LastOf

LEMMA ReadConfigFacts ==
    ASSUME Typed, ReadConfig,
           WellFormed => /\ \A n \in Options : values[n] = LastOf(OnCommandLine(n))
                         /\ \A n \in Flags : values[n] # {} <=> GivenByArgs(n)
    PROVE  /\ values' \in Vals
           /\ WellFormed =>
                 /\ \A n \in FileOptions :
                       OnCommandLine(n) = {} /\ ~OptionOpen(n) => values'[n] = LastOf(InFile(n))
                 /\ ~FlagsOpen => \A n \in Flags : values'[n] # {} <=> FlagGiven(n)
<1>1. program \in Programs /\ values \in Vals
  BY DEF Typed
<1>2. CASE ConfigFile = {}
  <2>1. values' = values
    BY <1>2 DEF ReadConfig
  <2>2. ASSUME WellFormed
        PROVE  /\ \A n \in FileOptions :
                     OnCommandLine(n) = {} => values'[n] = LastOf(InFile(n))
               /\ \A n \in Flags : values'[n] # {} <=> FlagGiven(n)
    <3>1. DocumentedFile = {}
      BY <1>2, <2>2, ConfigFileFacts
    <3>2. ASSUME NEW n \in FileOptions, OnCommandLine(n) = {}
          PROVE  values'[n] = LastOf(InFile(n))
      <4>1. n \in Options
        BY <1>1, NameFacts
      <4>2. LastOf(OnCommandLine(n)) = {}
        BY <3>2 DEF LastOf
      <4> QED
        BY <2>1, <2>2, <3>1, <4>1, <4>2, NothingInFile
    <3>3. \A n \in Flags : FlagGiven(n) <=> GivenByArgs(n)
      BY <3>1 DEF FlagGiven
    <3> QED
      BY <2>1, <2>2, <3>2, <3>3
  <2> QED
    BY <1>1, <2>1, <2>2
<1>3. CASE ConfigFile # {}
  <2>1. PICK f \in ConfigFile : \E lines \in LinesRead(f) : values' = FoldLeft(TakeLine, values, lines)
    BY <1>3 DEF ReadConfig
  <2>2. PICK lines \in LinesRead(f) : values' = Loaded(values, lines)
    BY <2>1 DEF Loaded
  <2>3. f.lines \in Seq(Line) /\ f.terminated \in BOOLEAN /\ ConfigFile = {f}
    BY <2>1, ConfigFileFacts
  <2>4. /\ lines \in Seq(Line)
        /\ \/ lines = f.lines
           \/ ~f.terminated /\ f.lines # <<>> /\ Follows(lines, f.lines)
    BY <2>2, <2>3, LinesReadFacts
  <2>5. values' \in Vals
    <3>1. PICK g : Loads(g, values, lines) /\ Loaded(values, lines) = g[Len(lines)]
      BY <1>1, <2>4, LoadExists
    <3>2. Len(lines) \in 0..Len(lines)
      BY <2>4
    <3> QED
      BY <2>2, <3>1, <3>2 DEF Loads
  <2>6. ASSUME WellFormed
        PROVE  /\ \A n \in FileOptions :
                     OnCommandLine(n) = {} /\ ~OptionOpen(n) => values'[n] = LastOf(InFile(n))
               /\ ~FlagsOpen => \A n \in Flags : values'[n] # {} <=> FlagGiven(n)
    <3>1. DocumentedFile = {f}
      BY <2>3, <2>6, ConfigFileFacts
    <3>4. ~f.terminated /\ f.lines # <<>> => Last(f.lines) \in Unfinished
      BY <3>1 DEF Unfinished
    <3>2. ASSUME NEW n \in FileOptions, OnCommandLine(n) = {}, ~OptionOpen(n)
          PROVE  values'[n] = LastOf(InFile(n))
      <4>1. n \in Options
        BY <1>1, NameFacts
      <4>2. values[n] = {}
        <5>1. LastOf(OnCommandLine(n)) = {}
          BY <3>2 DEF LastOf
        <5> QED
          BY <2>6, <4>1, <5>1
      <4>5. /\ PairsOf(n, lines) = PairsOf(n, f.lines)
            /\ \A j \in PairsOf(n, f.lines) : lines[j] = f.lines[j]
        <5>1. CASE lines = f.lines
          BY <5>1
        <5>2. CASE ~f.terminated /\ f.lines # <<>> /\ Follows(lines, f.lines)
          <6>1. ~(Last(f.lines)[1] = "pair" /\ Last(f.lines)[2] = n)
            BY <3>2, <3>4, <5>2 DEF OptionOpen
          <6> QED
            BY <2>3, <2>4, <5>2, <6>1, FollowsFacts
        <5> QED
          BY <2>4, <5>1, <5>2
      <4>3. CASE PairsOf(n, f.lines) = {}
        <5>1. values'[n] = values[n]
          BY <1>1, <2>2, <2>4, <4>3, <4>5, LoadOptions
        <5>2. LastOf(InFile(n)) = {}
          BY <2>3, <3>1, <4>3, InFileFacts
        <5> QED
          BY <4>2, <5>1, <5>2
      <4>4. CASE PairsOf(n, f.lines) # {}
        <5>1. PICK j \in PairsOf(n, f.lines) : /\ IsLast(j, PairsOf(n, f.lines))
                                               /\ LastOf(InFile(n)) = {Word(f.lines[j][3])}
          BY <2>3, <3>1, <4>4, InFileFacts
        <5>2. values'[n] = {Word(f.lines[j][3])}
          BY <1>1, <2>2, <2>4, <4>5, <5>1, LoadOptions
        <5> QED
          BY <5>1, <5>2
      <4> QED
        BY <4>3, <4>4
    <3>3. ASSUME ~FlagsOpen, NEW n \in Flags
          PROVE  values'[n] # {} <=> FlagGiven(n)
      <4>1. values'[n] # {} <=> values[n] # {} \/ \E j \in DOMAIN lines : JustGives(lines, n, j)
        BY <1>1, <2>2, <2>4, LoadFlags
      <4>2. FlagGiven(n) <=> GivenByArgs(n) \/ \E j \in DOMAIN f.lines : JustGives(f.lines, n, j)
        BY <3>1 DEF FlagGiven
      <4>3. (\E j \in DOMAIN lines : JustGives(lines, n, j)) <=>
            (\E j \in DOMAIN f.lines : JustGives(f.lines, n, j))
        <5>1. CASE lines = f.lines
          BY <5>1
        <5>2. CASE ~f.terminated /\ f.lines # <<>> /\ Follows(lines, f.lines)
          <6>1. Last(f.lines)[1] # "just"
            BY <3>3, <3>4, <5>2 DEF FlagsOpen
          <6> QED
            BY <2>3, <2>4, <5>2, <6>1, FollowsFacts
        <5> QED
          BY <2>4, <5>1, <5>2
      <4> QED
        BY <2>6, <4>1, <4>2, <4>3
    <3> QED
      BY <3>2, <3>3
  <2> QED
    BY <2>5, <2>6
<1> QED
  BY <1>2, <1>3

-----------------------------------------------------------------------------
(* The invariant: what is known after each of the steps.                      *)
AtStart ==
    pc = "firstPass" => \A n \in Declared : values[n] = {}

AfterFirstPass ==
    pc = "readConfig" /\ WellFormed =>
        /\ \A n \in Options : values[n] = LastOf(OnCommandLine(n))
        /\ \A n \in Flags : values[n] # {} <=> GivenByArgs(n)

AfterReadConfig ==
    pc = "secondPass" /\ WellFormed =>
        /\ \A n \in FileOptions :
              OnCommandLine(n) = {} /\ ~OptionOpen(n) => values[n] = LastOf(InFile(n))
        /\ ~FlagsOpen => \A n \in Flags : values[n] # {} <=> FlagGiven(n)

AfterSecondPass ==
    pc \in {"interpret"} \cup Connecting =>
        /\ \A n \in Flags : GivenByArgs(n) => values[n] # {}
        /\ WellFormed =>
              /\ \A n \in Options :
                    OnCommandLine(n) # {} =>
                       values[n] = LastOf(OnCommandLine(n)) /\ values[n] # {}
              /\ positional = DocumentedInput
              /\ \A n \in FileOptions : ~OptionOpen(n) => values[n] = Documented(n)
              /\ ~FlagsOpen => \A n \in Flags : values[n] # {} <=> FlagGiven(n)

Configured ==
    IF pc \in Connecting THEN config = Parameters /\ ~Unusable ELSE config = Unread

Ports ==
    /\ pc = "connectTestnet" => config.rpcport = 0
    /\ IF pc = "connected"
       THEN port = {FirstPort} \/ (config.rpcport = 0 /\ port = {TestnetPort})
       ELSE port = {}

Inv ==
    /\ Typed /\ AtStart /\ AfterFirstPass /\ AfterReadConfig /\ AfterSecondPass
    /\ Configured /\ Ports

(* What is given does not change, and what is said of it alone does not.      *)
LEMMA WorldKept ==
    ASSUME UNCHANGED world
    PROVE  /\ Declared' = Declared /\ Options' = Options /\ Flags' = Flags
           /\ FileOptions' = FileOptions /\ Vals' = Vals
           /\ \A i : IsOption(i)' <=> IsOption(i)
           /\ \A i : IsValue(i)' <=> IsValue(i)
           /\ WellFormed' <=> WellFormed
           /\ Unread' = Unread
BY DEF world, Unread, Declared, Options, Flags, FlagsOf, FileOptions, Vals, WellFormed, IsOption, IsValue

LEMMA GivenKept ==
    ASSUME UNCHANGED world
    PROVE  /\ \A n : OnCommandLine(n)' = OnCommandLine(n)
           /\ DocumentedFile' = DocumentedFile
           /\ \A n : InFile(n)' = InFile(n)
           /\ \A n : Documented(n)' = Documented(n)
           /\ \A n : GivenByArgs(n)' <=> GivenByArgs(n)
           /\ \A n : FlagGiven(n)' <=> FlagGiven(n)
           /\ \A n : OptionOpen(n)' <=> OptionOpen(n)
           /\ FlagsOpen' <=> FlagsOpen
           /\ DocumentedInput' = DocumentedInput
<1>1. args' = args /\ disk' = disk /\ program' = program
  BY DEF world
<1>2. \A n : OnCommandLine(n)' = OnCommandLine(n)
  BY <1>1, WorldKept DEF OnCommandLine
<1>3. DocumentedFile' = DocumentedFile
  BY <1>1, <1>2 DEF DocumentedFile
<1>4. \A n : InFile(n)' = InFile(n)
  BY <1>3 DEF InFile
<1>5. \A n : Documented(n)' = Documented(n)
  BY <1>2, <1>4 DEF Documented
<1>6. \A a : Assigns(a)' = Assigns(a)
  BY WorldKept DEF Assigns
<1>7. \A n : GivenByArgs(n)' <=> GivenByArgs(n)
  BY <1>1, <1>6, WorldKept DEF GivenByArgs, Sets
<1>8. \A n : FlagGiven(n)' <=> FlagGiven(n)
  BY <1>3, <1>7 DEF FlagGiven, JustGives
<1>11. Unfinished' = Unfinished
  BY <1>3 DEF Unfinished
<1>9. /\ \A n : OptionOpen(n)' <=> OptionOpen(n)
      /\ FlagsOpen' <=> FlagsOpen
  BY <1>2, <1>11 DEF OptionOpen, FlagsOpen
<1>10. DocumentedInput' = DocumentedInput
  <2> DEFINE InOrder(words, a) ==
               [k \in 1..Cardinality(words) |->
                   a[CHOOSE i \in words : Cardinality({j \in words : j <= i}) = k]]
  <2>1. DocumentedInput = InOrder(Inputs, args)
    BY DEF DocumentedInput, Inputs
  <2>2. DocumentedInput' = InOrder(Inputs', args')
    BY DEF DocumentedInput, Inputs
  <2>3. Inputs' = Inputs
    BY <1>1, WorldKept DEF Inputs
  <2> HIDE DEF InOrder
  <2> QED
    BY <1>1, <2>1, <2>2, <2>3
<1> QED
  BY <1>2, <1>3, <1>4, <1>5, <1>7, <1>8, <1>9, <1>10

LEMMA ParametersKept ==
    ASSUME UNCHANGED <<world, values, positional>>
    PROVE  Parameters' = Parameters /\ (Unusable' <=> Unusable)
<1>1. program' = program /\ values' = values /\ positional' = positional /\ Declared' = Declared
  BY WorldKept DEF world
<1>2. \A n : IsSet(n)' <=> IsSet(n)
  BY <1>1 DEF IsSet
<1>3. \A n : Value(n)' = Value(n)
  BY <1>1 DEF Value
<1>4. \A n, d : Number(n, d)' = Number(n, d)
  BY <1>2, <1>3 DEF Number
<1>5. Parameters' = Parameters
  BY <1>1, <1>2, <1>3, <1>4 DEF Parameters
<1>6. Unusable' <=> Unusable
  BY <1>1, <1>2, <1>3, <1>4
     DEF Unusable, NoCredentials, NoInteger, NoTxoIndex, TooFewWords, NoFee, Required
<1> QED
  BY <1>5, <1>6
-----------------------------------------------------------------------------
(* The steps keep the invariant.                                              *)
LEMMA InitInv == Init => Inv
<1> SUFFICES ASSUME Init PROVE Inv
  OBVIOUS
<1>1. args \in Seq(Argument)
  BY CommandLineAssumption DEF Init
<1>2. values \in Vals /\ \A n \in Declared : values[n] = {}
  BY DEF Init, Vals, Cells
<1>3. Typed
  BY <1>1, <1>2 DEF Init, Typed
<1> QED
  BY <1>2, <1>3 DEF Init, Inv, AtStart, AfterFirstPass, AfterReadConfig, AfterSecondPass,
                    Configured, Ports, Connecting

LEMMA FirstPassInv ==
    ASSUME Inv, FirstPass
    PROVE  Inv'
<1>1. /\ Typed /\ pc = "firstPass" /\ config' = config /\ port' = port /\ UNCHANGED world
      /\ config = Unread /\ port = {}
  BY DEF Inv, FirstPass, Configured, Ports, Connecting
<1>2. \A n \in Declared : values[n] = {}
  BY <1>1 DEF Inv, AtStart
<1>3. args' = args /\ program' = program /\ disk' = disk
  BY <1>1 DEF world
<1>4. CASE args = <<>>
  <2>1. pc' = "usage" /\ values' = values /\ positional' = positional
    BY <1>4 DEF FirstPass
  <2>2. Typed'
    BY <1>1, <1>3, <2>1, WorldKept DEF Typed
  <2> QED
    BY <1>1, <2>1, <2>2, WorldKept DEF Inv, AtStart, AfterFirstPass, AfterReadConfig, AfterSecondPass,
                            Configured, Ports, Connecting
<1>5. CASE args # <<>>
  <2>1. pc' = "readConfig" /\ ProcessCommandArgs
    BY <1>5 DEF FirstPass
  <2>2. Typed'
    BY <1>1, <1>3, <2>1, WorldKept, ProcessFacts DEF Typed
  <2>3. ASSUME WellFormed
        PROVE  /\ \A n \in Options : values'[n] = LastOf(OnCommandLine(n))
               /\ \A n \in Flags : values'[n] # {} <=> GivenByArgs(n)
    <3>1. \A n \in Options : n \in Declared
      BY DEF Declared
    <3>2. \A n \in Flags : n \in Declared
      BY DEF Declared
    <3>3. ASSUME NEW n \in Options
          PROVE  values'[n] = LastOf(OnCommandLine(n))
      <4>1. CASE OnCommandLine(n) = {}
        <5>1. LastOf(OnCommandLine(n)) = {}
          BY <4>1 DEF LastOf
        <5> QED
          BY <1>1, <1>2, <2>1, <2>3, <3>1, <4>1, <5>1, ProcessFacts
      <4>2. CASE OnCommandLine(n) # {}
        BY <1>1, <2>1, <2>3, <4>2, ProcessFacts
      <4> QED
        BY <4>1, <4>2
    <3>4. \A n \in Flags : values'[n] # {} <=> GivenByArgs(n)
      BY <1>1, <1>2, <2>1, <2>3, <3>2, ProcessFacts
    <3> QED
      BY <3>3, <3>4
  <2>4. AfterFirstPass'
    BY <1>1, <2>3, WorldKept, GivenKept DEF AfterFirstPass
  <2> QED
    BY <1>1, <2>1, <2>2, <2>4, WorldKept DEF Inv, AtStart, AfterReadConfig, AfterSecondPass,
                                  Configured, Ports, Connecting
<1> QED
  BY <1>4, <1>5

LEMMA ReadConfigInv ==
    ASSUME Inv, ReadConfig
    PROVE  Inv'
<1>1. /\ Typed /\ pc = "readConfig" /\ pc' = "secondPass"
      /\ positional' = positional /\ config' = config /\ port' = port /\ UNCHANGED world
      /\ config = Unread /\ port = {}
  BY DEF Inv, ReadConfig, Configured, Ports, Connecting
<1>2. args' = args /\ program' = program /\ disk' = disk
  BY <1>1 DEF world
<1>3. /\ values' \in Vals
      /\ WellFormed =>
            /\ \A n \in FileOptions :
                  OnCommandLine(n) = {} /\ ~OptionOpen(n) => values'[n] = LastOf(InFile(n))
            /\ ~FlagsOpen => \A n \in Flags : values'[n] # {} <=> FlagGiven(n)
  BY <1>1, ReadConfigFacts DEF Inv, AfterFirstPass
<1>4. Typed'
  BY <1>1, <1>2, <1>3, WorldKept DEF Typed
<1>5. AfterReadConfig'
  BY <1>1, <1>3, WorldKept, GivenKept DEF AfterReadConfig
<1> QED
  BY <1>1, <1>4, <1>5, WorldKept DEF Inv, AtStart, AfterFirstPass, AfterSecondPass,
                          Configured, Ports, Connecting

LEMMA SecondPassInv ==
    ASSUME Inv, SecondPass
    PROVE  Inv'
<1>1. /\ Typed /\ pc = "secondPass" /\ pc' = "interpret" /\ ProcessCommandArgs
      /\ config' = config /\ port' = port /\ UNCHANGED world
      /\ config = Unread /\ port = {}
  BY DEF Inv, SecondPass, Configured, Ports, Connecting
<1>2. args' = args /\ program' = program /\ disk' = disk
  BY <1>1 DEF world
<1>3. Typed'
  BY <1>1, <1>2, WorldKept, ProcessFacts DEF Typed
<1>4. \A n \in Flags : GivenByArgs(n) => values'[n] # {}
  BY <1>1, ProcessFacts
<1>5. WellFormed =>
         /\ \A n \in Options :
               OnCommandLine(n) # {} =>
                  values'[n] = LastOf(OnCommandLine(n)) /\ values'[n] # {}
         /\ positional' = DocumentedInput
  BY <1>1, ProcessFacts
<1>6. ASSUME WellFormed
      PROVE  /\ \A n \in FileOptions : ~OptionOpen(n) => values'[n] = Documented(n)
             /\ ~FlagsOpen => \A n \in Flags : values'[n] # {} <=> FlagGiven(n)
  <2>1. /\ \A n \in FileOptions :
              OnCommandLine(n) = {} /\ ~OptionOpen(n) => values[n] = LastOf(InFile(n))
        /\ ~FlagsOpen => \A n \in Flags : values[n] # {} <=> FlagGiven(n)
    BY <1>1, <1>6 DEF Inv, AfterReadConfig
  <2>2. ASSUME NEW n \in FileOptions, ~OptionOpen(n)
        PROVE  values'[n] = Documented(n)
    <3>1. n \in Options
      BY <1>1, NameFacts DEF Typed
    <3>2. /\ OnCommandLine(n) = {} => values'[n] = values[n]
          /\ OnCommandLine(n) # {} => values'[n] = LastOf(OnCommandLine(n))
      BY <1>1, <1>6, <3>1, ProcessFacts
    <3> QED
      BY <2>1, <2>2, <3>2 DEF Documented
  <2>3. ASSUME ~FlagsOpen, NEW n \in Flags
        PROVE  values'[n] # {} <=> FlagGiven(n)
    <3>1. GivenByArgs(n) => FlagGiven(n)
      BY DEF FlagGiven
    <3> QED
      BY <1>1, <1>6, <2>1, <2>3, <3>1, ProcessFacts
  <2> QED
    BY <2>2, <2>3
<1>7. AfterSecondPass'
  BY <1>1, <1>4, <1>5, <1>6, WorldKept, GivenKept DEF AfterSecondPass
<1> QED
  BY <1>1, <1>3, <1>7, WorldKept DEF Inv, AtStart, AfterFirstPass, AfterReadConfig,
                          Configured, Ports, Connecting

(* From here on the values stay, and with them what is known of them.         *)
LEMMA ValuesStay ==
    ASSUME Inv, UNCHANGED <<world, values, positional>>,
           pc \in {"interpret"} \cup Connecting,
           pc' \in {"usage", "error"} \cup Connecting
    PROVE  Typed' /\ AtStart' /\ AfterFirstPass' /\ AfterReadConfig' /\ AfterSecondPass'
<1>1. /\ args' = args /\ program' = program /\ disk' = disk
      /\ values' = values /\ positional' = positional /\ UNCHANGED world
  BY DEF world
<1>2. Typed'
  BY <1>1, WorldKept DEF Inv, Typed
<1>3. AfterSecondPass'
  <2>1. /\ \A n \in Flags : GivenByArgs(n) => values[n] # {}
        /\ WellFormed =>
              /\ \A n \in Options :
                    OnCommandLine(n) # {} =>
                       values[n] = LastOf(OnCommandLine(n)) /\ values[n] # {}
              /\ positional = DocumentedInput
              /\ \A n \in FileOptions : ~OptionOpen(n) => values[n] = Documented(n)
              /\ ~FlagsOpen => \A n \in Flags : values[n] # {} <=> FlagGiven(n)
    BY DEF Inv, AfterSecondPass
  <2> QED
    BY <1>1, <2>1, WorldKept, GivenKept DEF AfterSecondPass
<1> QED
  BY <1>2, <1>3 DEF AtStart, AfterFirstPass, AfterReadConfig, Connecting

LEMMA InterpretInv ==
    ASSUME Inv, Interpret
    PROVE  Inv'
<1>1. /\ pc = "interpret" /\ UNCHANGED <<world, values, positional>> /\ port' = port
      /\ config = Unread /\ port = {}
  BY DEF Inv, Interpret, Configured, Ports, Connecting
<1>2. \/ pc' \in {"usage", "error"} /\ config' = config
      \/ pc' = "connect" /\ config' = Parameters /\ ~Unusable
  BY DEF Interpret
<1>3. Typed' /\ AtStart' /\ AfterFirstPass' /\ AfterReadConfig' /\ AfterSecondPass'
  BY <1>1, <1>2, ValuesStay DEF Connecting
<1>4. Parameters' = Parameters /\ (Unusable' <=> Unusable)
  BY <1>1, ParametersKept
<1>5. Configured' /\ Ports'
  BY <1>1, <1>2, <1>4, WorldKept DEF Configured, Ports, Connecting
<1> QED
  BY <1>3, <1>5 DEF Inv

LEMMA ConnectInv ==
    ASSUME Inv, Connect \/ ConnectTestnet
    PROVE  Inv'
<1>1. /\ pc \in {"connect", "connectTestnet"} /\ pc' \in Connecting
      /\ UNCHANGED <<world, values, positional>> /\ config' = config
      /\ config = Parameters /\ ~Unusable /\ port = {}
  BY DEF Inv, Connect, ConnectTestnet, Answers, NoAnswer, Configured, Ports, Connecting
<1>2. pc \in {"interpret"} \cup Connecting /\ pc' \in {"usage", "error"} \cup Connecting
  BY <1>1 DEF Connecting
<1>6. Typed' /\ AtStart' /\ AfterFirstPass' /\ AfterReadConfig' /\ AfterSecondPass'
  BY <1>1, <1>2, ValuesStay
<1>3. Configured'
  BY <1>1, ParametersKept DEF Configured
<1>4. FirstPort' = FirstPort
  BY <1>1 DEF FirstPort
<1>5. Ports'
  BY <1>1, <1>4 DEF Inv, Ports, Connect, ConnectTestnet, Answers, NoAnswer
<1> QED
  BY <1>3, <1>5, <1>6 DEF Inv

LEMMA StepInv == Inv /\ [Next]_vars => Inv'
<1> SUFFICES ASSUME Inv, [Next]_vars PROVE Inv'
  OBVIOUS
<1>1. CASE FirstPass
  BY <1>1, FirstPassInv
<1>2. CASE ReadConfig
  BY <1>2, ReadConfigInv
<1>3. CASE SecondPass
  BY <1>3, SecondPassInv
<1>4. CASE Interpret
  BY <1>4, InterpretInv
<1>5. CASE Connect \/ ConnectTestnet
  BY <1>5, ConnectInv
<1>6. CASE UNCHANGED vars
  <2>1. UNCHANGED <<world, values, positional>> /\ pc' = pc /\ config' = config /\ port' = port
    BY <1>6 DEF vars
  <2>2. /\ args' = args /\ program' = program /\ disk' = disk
        /\ values' = values /\ positional' = positional /\ UNCHANGED world
    BY <2>1 DEF world
  <2>3. Typed' /\ AtStart'
    BY <2>1, <2>2, WorldKept DEF Inv, Typed, AtStart
  <2>4. AfterFirstPass'
    BY <2>1, <2>2, WorldKept, GivenKept DEF Inv, AfterFirstPass
  <2>5. AfterReadConfig'
    BY <2>1, <2>2, WorldKept, GivenKept DEF Inv, AfterReadConfig
  <2>6. AfterSecondPass'
    BY <2>1, <2>2, WorldKept, GivenKept DEF Inv, AfterSecondPass
  <2>7. Configured'
    BY <2>1, ParametersKept DEF Inv, Configured
  <2>8. Ports'
    BY <2>1 DEF Inv, Ports, FirstPort
  <2> QED
    BY <2>3, <2>4, <2>5, <2>6, <2>7, <2>8 DEF Inv
<1> QED
  BY <1>1, <1>2, <1>3, <1>4, <1>5, <1>6 DEF Next

LEMMA Invariance == Spec => []Inv
<1> QED
  BY InitInv, StepInv, PTL DEF Spec

-----------------------------------------------------------------------------
(* A program that connects knows user and password, and its parameters are    *)
(* the numbers and words they should be.                                      *)
LEMMA OneValue ==
    ASSUME Typed, NEW n, IsSet(n)
    PROVE  values[n] = {Value(n)} /\ n \in Declared
<1>1. n \in Declared /\ values[n] # {} /\ values[n] \in Cells
  BY DEF IsSet, Typed, Vals
<1>2. PICK a : values[n] = {a}
  BY <1>1 DEF Cells
<1>3. Value(n) \in values[n]
  BY <1>1 DEF Value
<1> QED
  BY <1>1, <1>2, <1>3

LEMMA ParameterFacts ==
    ASSUME Inv, pc \in Connecting
    PROVE  /\ config.rpcconnect = (IF IsSet("rpcconnect") THEN Value("rpcconnect")
                                                          ELSE Unread.rpcconnect)
           /\ config.rpcuser = Value("rpcuser") /\ config.rpcpassword = Value("rpcpassword")
           /\ config["rpcuser"] = Value("rpcuser")
           /\ config["rpcpassword"] = Value("rpcpassword")
           /\ IsSet("rpcuser") /\ IsSet("rpcpassword")
           /\ config.rpcport = (IF IsSet("rpcport") THEN Stoi[Value("rpcport")] ELSE 0)
           /\ config.txoIndex = (IF IsSet("txoIndex") THEN Stoi[Value("txoIndex")] ELSE -1)
           /\ config.txoIndex >= -1
           /\ config.dryrun = IsSet("dryrun")
           /\ config.input = positional /\ Len(positional) >= Required
<1>1. config = Parameters /\ ~Unusable
  BY DEF Inv, Configured
<1>2. /\ IsSet("rpcuser") /\ IsSet("rpcpassword") /\ ~TooFewWords /\ ~NoTxoIndex
  BY <1>1 DEF Unusable, NoCredentials
<1>3. Len(positional) >= Required
  <2>1. Len(positional) \in Nat
    BY DEF Inv, Typed
  <2> QED
    BY <1>2, <2>1 DEF TooFewWords, Required
<1>4. /\ config.rpcport = (IF IsSet("rpcport") THEN Stoi[Value("rpcport")] ELSE 0)
      /\ config.txoIndex = (IF IsSet("txoIndex") THEN Stoi[Value("txoIndex")] ELSE -1)
  BY <1>1 DEF Parameters, Number
<1>5. config.txoIndex >= -1
  <2>1. CASE IsSet("txoIndex")
    <3>1. Value("txoIndex") \in DOMAIN Stoi /\ ~(Stoi[Value("txoIndex")] < 0)
      BY <1>2, <2>1 DEF NoTxoIndex, NoInteger, Number
    <3>2. Stoi[Value("txoIndex")] \in Int
      BY <3>1, CommandLineAssumption
    <3> QED
      BY <1>4, <2>1, <3>1, <3>2
  <2>2. CASE ~IsSet("txoIndex")
    BY <1>4, <2>2
  <2> QED
    BY <2>1, <2>2
<1>6. config.rpcconnect = (IF IsSet("rpcconnect") THEN Value("rpcconnect")
                                                  ELSE Unread.rpcconnect)
  BY <1>1 DEF Parameters
<1>7. /\ config.rpcuser = Value("rpcuser") /\ config.rpcpassword = Value("rpcpassword")
      /\ config["rpcuser"] = Value("rpcuser") /\ config["rpcpassword"] = Value("rpcpassword")
      /\ config.dryrun = IsSet("dryrun") /\ config.input = positional
  BY <1>1 DEF Parameters
<1> QED
  BY <1>2, <1>3, <1>4, <1>5, <1>6, <1>7

(* Every variable has its type; a program that has what it needs (pc in       *)
(* Connecting) has as many words as createBtcrDid.cpp and the others ask for, *)
(* and it has a port exactly when a bitcoind has answered.                    *)
THEOREM CommandLineTypes == Spec => []TypeOK
<1>1. Inv => TypeOK
  <2> SUFFICES ASSUME Inv PROVE TypeOK
    OBVIOUS
  <2>1. Typed
    BY DEF Inv
  <2>2. DOMAIN values = Declared
    BY <2>1 DEF Typed, Vals
  <2>3. ASSUME NEW n \in Declared PROVE Cardinality(values[n]) <= 1
    <3>1. values[n] = {} \/ \E a : values[n] = {a}
      BY <2>1 DEF Typed, Vals, Cells
    <3>2. \A a : Cardinality({a}) = 1
      BY FS_Singleton
    <3>3. Cardinality({}) = 0
      BY FS_EmptySet
    <3>4. CASE values[n] = {}
      BY <3>3, <3>4
    <3>5. CASE \E a : values[n] = {a}
      <4>1. PICK a : values[n] = {a}
        BY <3>5
      <4>2. Cardinality(values[n]) = 1
        BY <3>2, <4>1
      <4> QED
        BY <4>2
    <3> QED
      BY <3>1, <3>4, <3>5
  <2>4. ToSet(positional) \subseteq ToSet(args)
    BY <2>1 DEF Typed, ToSet
  <2>5. config.txoIndex >= -1
    <3>1. CASE pc \in Connecting
      BY <3>1, ParameterFacts
    <3>2. CASE pc \notin Connecting
      <4>1. config = Unread
        BY <3>2 DEF Inv, Configured
      <4>2. Unread.txoIndex = -1
        BY DEF Unread
      <4> QED
        BY <4>1, <4>2
    <3> QED
      BY <3>1, <3>2
  <2>6. pc \in Connecting => Len(config.input) >= Required
    BY ParameterFacts
  <2>7. Cardinality(port) = (IF pc = "connected" THEN 1 ELSE 0)
    <3>1. IF pc = "connected" THEN \E p : port = {p} ELSE port = {}
      BY DEF Inv, Ports
    <3>2. \A p : Cardinality({p}) = 1
      BY FS_Singleton
    <3>3. Cardinality({}) = 0
      BY FS_EmptySet
    <3>4. CASE pc = "connected"
      BY <3>1, <3>2, <3>4
    <3>5. CASE pc # "connected"
      BY <3>1, <3>3, <3>5
    <3> QED
      BY <3>4, <3>5
  <2> QED
    BY <2>1, <2>2, <2>3, <2>4, <2>5, <2>6, <2>7 DEF TypeOK, Typed
<1> QED
  BY <1>1, Invariance, PTL

(* -n, alone or among other letters, and --dryrun are heard, whatever the     *)
(* command line (of any length), the file and the two passes of               *)
(* createBtcrDid.cpp over it: only the argument after an option that came     *)
(* without its value can be lost.                                             *)
THEOREM DryRunHeard == Spec => []DryRunIsHeard
<1>1. Inv => DryRunIsHeard
  <2> SUFFICES ASSUME Inv, pc \in Connecting, program = "createBtcrDid",
                      NEW i \in DOMAIN args, SaysDryRun(args[i]), ~IsValue(i)
               PROVE  config.dryrun
    BY DEF DryRunIsHeard
  <2>1. "dryrun" \in Flags
    BY NameFacts DEF Inv, Typed
  <2>2. GivenByArgs("dryrun")
    <3>1. args[i] \in Argument
      BY DEF Inv, Typed
    <3> QED
      BY <3>1, DryRunFacts DEF GivenByArgs, Sets
  <2>3. values["dryrun"] # {}
    BY <2>1, <2>2 DEF Inv, AfterSecondPass
  <2>4. IsSet("dryrun")
    BY <2>1, <2>3 DEF IsSet, Declared
  <2> QED
    BY <2>4, ParameterFacts
<1> QED
  BY <1>1, Invariance, PTL

(* BitcoinRPCFacade accepts a bitcoind on the port the command line gives and *)
(* on no other, so a program told the testnet's port never runs on mainnet.   *)
THEOREM PortGivenUsed == Spec => []PortGivenIsPortUsed
<1>1. Inv => PortGivenIsPortUsed
  <2> SUFFICES ASSUME Inv, WellFormed, OnCommandLine("rpcport") # {}, NEW p \in port,
                      NEW v \in LastOf(OnCommandLine("rpcport")), Stoi[v] # 0
               PROVE  p = Stoi[v]
    BY DEF PortGivenIsPortUsed
  <2>1. pc = "connected" /\ pc \in Connecting
    BY DEF Inv, Ports, Connecting
  <2>2. "rpcport" \in Options /\ "rpcport" \in Declared
    BY NameFacts DEF Inv, Typed, Declared
  <2>3. values["rpcport"] = LastOf(OnCommandLine("rpcport")) /\ values["rpcport"] # {}
    BY <2>1, <2>2 DEF Inv, AfterSecondPass
  <2>4. IsSet("rpcport")
    BY <2>2, <2>3 DEF IsSet
  <2>5. v = Value("rpcport")
    BY <2>3, <2>4, OneValue DEF Inv
  <2>6. config.rpcport = Stoi[v]
    BY <2>1, <2>4, <2>5, ParameterFacts
  <2> QED
    BY <2>1, <2>6 DEF Inv, Ports, FirstPort
<1> QED
  BY <1>1, Invariance, PTL

(* What --dryrun comes to is what the usage text says of it.                  *)
LEMMA DryRunGivenFacts ==
    ASSUME Typed, program = "createBtcrDid"
    PROVE  FlagGiven("dryrun") <=> DryRunGiven
<1>1. \A j \in DOMAIN args : args[j] \in Argument
  BY DEF Typed
<1>2. GivenByArgs("dryrun") <=> \E i \in DOMAIN args : ~IsValue(i) /\ SaysDryRun(args[i])
  BY <1>1, DryRunFacts DEF GivenByArgs, Sets
<1>3. \A w : LongFlag(w) = "dryrun" <=> w \in {"n", "dryrun"}
  BY DEF LongFlag, LetterFlag
<1> QED
  BY <1>2, <1>3 DEF FlagGiven, DryRunGiven, JustGives

(* A setting is the value that is stored, as text or as number, or else the   *)
(* default.                                                                   *)
LEMMA SettingFacts ==
    ASSUME Inv, pc \in Connecting, NEW n \in Settings
    PROVE  /\ IsSet(n) => config[n] = (IF n \in {"rpcport", "txoIndex"} THEN Stoi[Value(n)]
                                                                       ELSE Value(n))
           /\ ~IsSet(n) => n \notin {"rpcuser", "rpcpassword"} /\ config[n] = Unread[n]
<1>1. config["rpcconnect"] = config.rpcconnect /\ config["rpcport"] = config.rpcport
      /\ config["txoIndex"] = config.txoIndex
      /\ Unread["rpcconnect"] = Unread.rpcconnect
      /\ Unread["rpcport"] = 0 /\ Unread["txoIndex"] = -1
  BY DEF Unread
<1>2. CASE n = "rpcconnect"
  BY <1>1, <1>2, ParameterFacts
<1>3. CASE n \in {"rpcuser", "rpcpassword"}
  BY <1>3, ParameterFacts
<1>4. CASE n = "rpcport"
  BY <1>1, <1>4, ParameterFacts
<1>5. CASE n = "txoIndex"
  BY <1>1, <1>5, ParameterFacts
<1> QED
  BY <1>2, <1>3, <1>4, <1>5 DEF Settings

(* The parameters the programs of src/src start with, the port of bitcoind    *)
(* among them, are those the usage text promises, for command lines of any    *)
(* length in any order and files of any number of lines: the command line     *)
(* before the file, the last before the ones before it, and the words that    *)
(* are nobody's value in their order. What AnyOption::readConfig loses is     *)
(* excepted: a setting, or the flags, that the last line of a file names      *)
(* where that line does not end in a newline.                                 *)
THEOREM AsDocumented == Spec => []ConfiguredAsDocumented
<1>1. Inv => ConfiguredAsDocumented
  <2> SUFFICES ASSUME Inv, pc \in Connecting, WellFormed
               PROVE  /\ \A n \in Settings : ~OptionOpen(n) => config[n] \in Promised(n)
                      /\ ~FlagsOpen => config.dryrun = (program = "createBtcrDid" /\ DryRunGiven)
                      /\ config.input = DocumentedInput
    BY DEF ConfiguredAsDocumented
  <2>1. Typed /\ program \in Programs
    BY DEF Inv, Typed
  <2>2. /\ \A n \in FileOptions : ~OptionOpen(n) => values[n] = Documented(n)
        /\ ~FlagsOpen => \A n \in Flags : values[n] # {} <=> FlagGiven(n)
        /\ positional = DocumentedInput
    BY DEF Inv, AfterSecondPass
  <2>3. ASSUME NEW n \in Settings, ~OptionOpen(n)
        PROVE  config[n] \in Promised(n)
    <3>1. n \in Options => n \in FileOptions /\ n \in Declared
      BY DEF Settings, Options, Declared
    <3>2. n \in Declared => n \in Options
      BY <2>1, NameFacts DEF Settings, Declared
    <3>3. CASE IsSet(n)
      <4>1. values[n] = {Value(n)} /\ n \in Options
        BY <2>1, <3>2, <3>3, OneValue
      <4>2. Documented(n) = {Value(n)}
        BY <2>2, <2>3, <3>1, <4>1
      <4>3. config[n] = (IF n \in {"rpcport", "txoIndex"} THEN Stoi[Value(n)] ELSE Value(n))
        BY <3>3, SettingFacts
      <4> QED
        BY <4>1, <4>2, <4>3 DEF Promised
    <3>4. CASE ~IsSet(n)
      <4>1. n \in Options => Documented(n) = {}
        BY <2>2, <2>3, <3>1, <3>4 DEF IsSet
      <4>2. n \notin {"rpcuser", "rpcpassword"} /\ config[n] = Unread[n]
        BY <3>4, SettingFacts
      <4> QED
        BY <4>1, <4>2 DEF Promised
    <3> QED
      BY <3>3, <3>4
  <2>4. ASSUME ~FlagsOpen
        PROVE  config.dryrun = (program = "createBtcrDid" /\ DryRunGiven)
    <3>1. "dryrun" \in Declared <=> program = "createBtcrDid"
      BY <2>1, NameFacts DEF Declared
    <3>2. "dryrun" \in Flags <=> program = "createBtcrDid"
      BY <2>1, NameFacts
    <3>3. IsSet("dryrun") <=> program = "createBtcrDid" /\ DryRunGiven
      BY <2>1, <2>2, <2>4, <3>1, <3>2, DryRunGivenFacts DEF IsSet
    <3>4. IsSet("dryrun") \in BOOLEAN
      BY DEF IsSet
    <3>5. config.dryrun = IsSet("dryrun")
      BY ParameterFacts
    <3> QED
      BY <3>3, <3>4, <3>5
  <2> QED
    BY <2>2, <2>3, <2>4, ParameterFacts
<1> QED
  BY <1>1, Invariance, PTL
=============================================================================
