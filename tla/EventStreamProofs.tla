-------------------------- MODULE EventStreamProofs -------------------------
(* Proofs about the way of the events, for all configurations, histograms   *)
(* and lengths of the topics.                                               *)
EXTENDS EventStream, FiniteSetTheorems, WellFoundedInduction, TLAPS

-----------------------------------------------------------------------------
(* What FlattenSeq of the community modules makes of a sequence of          *)
(* sequences, for sequences of any length.  Its definition recurs along the *)
(* natural numbers; induction is done with sets of numbers that would be    *)
(* exceptions, of which the least one is looked at.                         *)

(* A non-empty set of natural numbers has a least one.                      *)
LEMMA LeastNatural ==
  ASSUME NEW T \in SUBSET Nat, T # {}
  PROVE  \E x \in T : \A y \in T : x <= y
<1> DEFINE R == {ss \in Nat \X Nat : ss[1] < ss[2]}
<1>1. IsWellFoundedOn(R, Nat)
  BY NatLessThanWellFounded DEF OpToRel
<1>2. T \subseteq Nat
  OBVIOUS
<1>3. \E x \in T : \A y \in T : <<y, x>> \notin R
  <2> HIDE DEF R
  <2> QED
    BY <1>1, <1>2, WFMin, Zenon
<1>4. PICK x \in T : \A y \in T : <<y, x>> \notin R
  BY <1>3
<1>5. ASSUME NEW y \in T PROVE x <= y
  <2>1. x \in Nat /\ y \in Nat /\ ~ y < x
    BY <1>4
  <2>2. QED
    BY <2>1
<1>6. QED
  BY <1>4, <1>5

(* Induction up to a number, for a set.                                     *)
LEMMA UpTo ==
  ASSUME NEW n \in Nat, NEW T, 1 \in T,
         \A k \in 1 .. n : k \in T /\ k < n => k + 1 \in T
  PROVE  1 .. n \subseteq T
<1> DEFINE E == (1 .. n) \ T
<1> SUFFICES ASSUME E # {} PROVE FALSE
  OBVIOUS
<1>1. PICK x \in E : \A y \in E : x <= y
  <2>1. E \in SUBSET Nat
    OBVIOUS
  <2> HIDE DEF E
  <2>2. QED
    BY <2>1, LeastNatural
<1>2. x \in 2 .. n /\ x - 1 \in 1 .. n
  BY <1>1
<1>3. x - 1 \in T
  BY <1>1, <1>2
<1>4. x - 1 + 1 \in T
  BY <1>2, <1>3
<1>5. QED
  BY <1>1, <1>2, <1>4

Step(seqs, f, i) == IF i = 1 THEN seqs[i] ELSE f[i - 1] \o seqs[i]
Flattens(seqs, f, k) == f = [i \in 1 .. k |-> Step(seqs, f, i)]

LEMMA FlatteningExists ==
  ASSUME NEW seqs, NEW n \in Nat
  PROVE  \A k \in 1 .. n : \E f : Flattens(seqs, f, k)
<1> DEFINE T == {k \in 1 .. n + 1 : \E f : Flattens(seqs, f, k)}
<1>1. 1 \in T
  <2> DEFINE f == [i \in 1 .. 1 |-> seqs[i]]
  <2>1. ASSUME NEW i \in 1 .. 1 PROVE Step(seqs, f, i) = seqs[i]
    BY DEF Step
  <2>2. Flattens(seqs, f, 1)
    BY <2>1 DEF Flattens
  <2>3. QED
    BY <2>2
<1>2. ASSUME NEW k \in 1 .. n, k \in T PROVE k + 1 \in T
  <2>0. n \in Nat \ {0}
    BY <1>2
  <2>1. PICK f : Flattens(seqs, f, k)
    BY <1>2
  <2> DEFINE g == [i \in 1 .. k + 1 |-> IF i = k + 1 THEN f[k] \o seqs[i] ELSE f[i]]
  <2>2. ASSUME NEW i \in 1 .. k PROVE f[i] = Step(seqs, f, i)
    BY <2>1 DEF Flattens
  <2>3. ASSUME NEW i \in 1 .. k + 1 PROVE g[i] = Step(seqs, g, i)
    <3>1. CASE i = k + 1
      <4>1. i # 1 /\ i - 1 = k /\ k \in 1 .. k + 1 /\ k # k + 1
        BY <3>1
      <4>2. g[k] = f[k]
        BY <4>1
      <4>3. g[i] = f[k] \o seqs[i]
        BY <3>1
      <4> HIDE DEF g
      <4>4. QED
        BY <4>1, <4>2, <4>3 DEF Step
    <3>2. CASE i # k + 1
      <4>1. i \in 1 .. k /\ g[i] = f[i]
        BY <3>2
      <4>2. i # 1 => g[i - 1] = f[i - 1]
        BY <3>2
      <4> HIDE DEF g
      <4>3. QED
        BY <2>2, <4>1, <4>2 DEF Step
    <3>3. QED
      BY <3>1, <3>2
  <2>4. g = [i \in 1 .. k + 1 |-> Step(seqs, g, i)]
    <3>1. g = [i \in 1 .. k + 1 |-> g[i]]
      OBVIOUS
    <3> HIDE DEF g
    <3>2. QED
      BY <2>3, <3>1
  <2>5. Flattens(seqs, g, k + 1)
    BY <2>4, Zenon DEF Flattens
  <2>6. QED
    BY <2>5
<1>3. 1 .. n \subseteq T
  BY <1>1, <1>2, UpTo
<1>4. QED
  BY <1>3

(* So FlattenSeq is the last of what grows by a sequence at each step.      *)
Grows(seqs, f, n) ==
  /\ f[1] = seqs[1]
  /\ \A i \in 1 .. n - 1 : f[i + 1] = f[i] \o seqs[i + 1]

LEMMA FlattenSeqGrows ==
  ASSUME NEW n \in Nat \ {0}, NEW seqs, Len(seqs) = n
  PROVE  \E f : FlattenSeq(seqs) = f[n] /\ Grows(seqs, f, n)
<1> DEFINE f == CHOOSE g : Flattens(seqs, g, n)
<1>1. FlattenSeq(seqs) = f[n]
  BY DEF FlattenSeq, Flattens, Step
<1>2. Flattens(seqs, f, n)
  BY FlatteningExists
<1> HIDE DEF f
<1>3. \A i \in 1 .. n : f[i] = Step(seqs, f, i)
  BY <1>2 DEF Flattens
<1>4. f[1] = seqs[1]
  <2>1. 1 \in 1 .. n
    OBVIOUS
  <2>2. QED
    BY <1>3, <2>1 DEF Step
<1>5. ASSUME NEW i \in 1 .. n - 1 PROVE f[i + 1] = f[i] \o seqs[i + 1]
  <2>1. PICK j \in 1 .. n : j = i + 1 /\ j # 1 /\ j - 1 = i
    OBVIOUS
  <2>2. f[j] = Step(seqs, f, j)
    BY <1>3
  <2>3. Step(seqs, f, j) = f[j - 1] \o seqs[j]
    BY <2>1 DEF Step
  <2>4. f[j] = f[i] \o seqs[j]
    BY <2>1, <2>2, <2>3, Zenon
  <2>5. QED
    BY <2>1, <2>4, Zenon
<1>6. QED
  BY <1>1, <1>4, <1>5 DEF Grows

(* One sequence is itself.                                                  *)
LEMMA FlattenOne ==
  ASSUME NEW seqs, Len(seqs) = 1
  PROVE  FlattenSeq(seqs) = seqs[1]
<1>1. 1 \in Nat \ {0}
  OBVIOUS
<1>2. PICK f : FlattenSeq(seqs) = f[1] /\ Grows(seqs, f, 1)
  BY <1>1, FlattenSeqGrows, Zenon
<1>3. QED
  BY <1>2 DEF Grows

LEMMA Together ==
  ASSUME NEW S, NEW a \in Seq(S), NEW b \in Seq(S)
  PROVE  a \o b \in Seq(S) /\ Len(a \o b) = Len(a) + Len(b)
  OBVIOUS

(* n sequences over S, and n more that are as long, one by one.             *)
AsLong(S, n, seqs, seqt) ==
  /\ Len(seqs) = n /\ Len(seqt) = n
  /\ n = 0 => seqs = <<>> /\ seqt = <<>>
  /\ \A i \in 1 .. n :
       seqs[i] \in Seq(S) /\ seqt[i] \in Seq(S) /\ Len(seqs[i]) = Len(seqt[i])

(* Sequences that are as long as others, one by one, are as long together.  *)
LEMMA FlattenedLengths ==
  ASSUME NEW S, NEW n \in Nat, NEW seqs, NEW seqt, AsLong(S, n, seqs, seqt)
  PROVE  /\ FlattenSeq(seqs) \in Seq(S) /\ FlattenSeq(seqt) \in Seq(S)
         /\ Len(FlattenSeq(seqs)) = Len(FlattenSeq(seqt))
<1> USE DEF AsLong
<1>1. CASE n = 0
  <2>1. FlattenSeq(seqs) = <<>> /\ FlattenSeq(seqt) = <<>>
    BY <1>1 DEF FlattenSeq
  <2>2. <<>> \in Seq(S)
    OBVIOUS
  <2>3. QED
    BY <2>1, <2>2, Zenon
<1>2. CASE n # 0
  <2>0. n \in Nat \ {0}
    BY <1>2
  <2>1. PICK f : FlattenSeq(seqs) = f[n] /\ Grows(seqs, f, n)
    BY <2>0, FlattenSeqGrows, Zenon
  <2>2. PICK g : FlattenSeq(seqt) = g[n] /\ Grows(seqt, g, n)
    BY <2>0, FlattenSeqGrows, Zenon
  <2> DEFINE Alike(k) == f[k] \in Seq(S) /\ g[k] \in Seq(S) /\ Len(f[k]) = Len(g[k])
             A == {k \in 1 .. n : Alike(k)}
  <2>3. 1 \in A
    <3>1. 1 \in 1 .. n
      BY <1>2
    <3>2. seqs[1] \in Seq(S) /\ seqt[1] \in Seq(S) /\ Len(seqs[1]) = Len(seqt[1])
      BY <3>1
    <3>3. Alike(1)
      BY <2>1, <2>2, <3>2, Zenon DEF Grows
    <3>4. QED
      BY <3>1, <3>3
  <2>4. ASSUME NEW k \in 1 .. n, k \in A, k < n PROVE k + 1 \in A
    <3>1. k + 1 \in 1 .. n /\ k \in 1 .. n - 1
      BY <2>4
    <3>2. f[k + 1] = f[k] \o seqs[k + 1] /\ g[k + 1] = g[k] \o seqt[k + 1]
      BY <2>1, <2>2, <3>1, Zenon DEF Grows
    <3>3. Alike(k)
      BY <2>4
    <3>4. seqs[k + 1] \in Seq(S) /\ seqt[k + 1] \in Seq(S)
          /\ Len(seqs[k + 1]) = Len(seqt[k + 1])
      BY <3>1
    <3>5. f[k] \o seqs[k + 1] \in Seq(S) /\ g[k] \o seqt[k + 1] \in Seq(S)
      BY <3>3, <3>4, Together, Zenon
    <3>6. /\ Len(f[k] \o seqs[k + 1]) = Len(f[k]) + Len(seqs[k + 1])
          /\ Len(g[k] \o seqt[k + 1]) = Len(g[k]) + Len(seqt[k + 1])
      BY <3>3, <3>4, Together, Zenon
    <3>7. Alike(k + 1)
      BY <3>2, <3>3, <3>4, <3>5, <3>6, Zenon
    <3>8. QED
      BY <3>1, <3>7
  <2>5. 1 .. n \subseteq A
    <3> HIDE DEF A
    <3>1. \A k \in 1 .. n : k \in A /\ k < n => k + 1 \in A
      BY <2>4
    <3>2. QED
      BY <2>3, <3>1, UpTo
  <2>6. Alike(n)
    <3>1. n \in 1 .. n
      BY <1>2
    <3>2. n \in A
      BY <2>5, <3>1
    <3>3. QED
      BY <3>2
  <2>7. QED
    BY <2>1, <2>2, <2>6, Zenon
<1>3. QED
  BY <1>1, <1>2

-----------------------------------------------------------------------------
(* Configurations.                                                          *)

(* Of the options with a name one comes last.                               *)
LEMMA LastOption ==
  ASSUME NEW line \in Seq([name : STRING, text : STRING]),
         NEW n \in {line[i].name : i \in DOMAIN line}
  PROVE  \E i \in DOMAIN line :
           line[i].name = n /\ Cfg!ParseCommandLine(line)[n] = line[i].text
<1> DEFINE LastNamed(i) == line[i].name = n /\ \A j \in DOMAIN line : line[j].name = n => j <= i
           T == {Len(line) - i : i \in {j \in DOMAIN line : line[j].name = n}}
<1>1. DOMAIN line = 1 .. Len(line) /\ Len(line) \in Nat
  OBVIOUS
<1>2. T \in SUBSET Nat /\ T # {}
  BY <1>1
<1>3. PICK x \in T : \A y \in T : x <= y
  <2> HIDE DEF T
  <2> QED
    BY <1>2, LeastNatural
<1>4. PICK i \in DOMAIN line : line[i].name = n /\ x = Len(line) - i
  OBVIOUS
<1>5. ASSUME NEW j \in DOMAIN line, line[j].name = n PROVE j <= i
  <2>1. Len(line) - j \in T
    BY <1>5
  <2>2. x <= Len(line) - j
    BY <2>1, <1>3
  <2>3. QED
    BY <2>2, <1>1, <1>4
<1>6. \E k \in DOMAIN line : LastNamed(k)
  BY <1>4, <1>5
<1>7. (CHOOSE k \in DOMAIN line : LastNamed(k)) \in DOMAIN line
      /\ LastNamed(CHOOSE k \in DOMAIN line : LastNamed(k))
  BY <1>6
<1>8. Cfg!ParseCommandLine(line)[n] = line[CHOOSE k \in DOMAIN line : LastNamed(k)].text
  BY DEF Cfg!ParseCommandLine
<1>9. QED
  BY <1>7, <1>8

LEMMA ArgumentsAreLines ==
  ASSUME NEW line \in Arguments
  PROVE  /\ line \in Seq([name : STRING, text : STRING])
         /\ \A i \in DOMAIN line :
              /\ line[i].name = "producer_uri" => line[i].text \in DOMAIN Uri \cup {""}
              /\ line[i].name \in Cfg!NumberKeys
                   => line[i].text \in DOMAIN Number \cup {""}
<1>1. CASE line \in CommandLines
  BY <1>1, StreamAssumption
<1>2. CASE line \notin CommandLines
  <2>1. PICK l \in CommandLines \ {<<>>} : line = Tail(l)
    BY <1>2 DEF Arguments
  <2>2. l \in Seq([name : STRING, text : STRING]) /\ l # <<>>
    BY StreamAssumption
  <2>3. /\ line \in Seq([name : STRING, text : STRING])
        /\ \A i \in DOMAIN line : i + 1 \in DOMAIN l /\ line[i] = l[i + 1]
    BY <2>1, <2>2
  <2>4. \A i \in DOMAIN l :
          /\ l[i].name = "producer_uri" => l[i].text \in DOMAIN Uri \cup {""}
          /\ l[i].name \in Cfg!NumberKeys
               => l[i].text \in DOMAIN Number \cup {""}
    BY <2>1, StreamAssumption, Zenon
  <2>5. QED
    BY <2>3, <2>4, Zenon
<1>3. QED
  BY <1>1, <1>2

(* What an option gives is what one of the texts says.                      *)
LEMMA GivenOption ==
  ASSUME NEW line \in Arguments, NEW keys, NEW k \in Cfg!Given(Cfg!ParseCommandLine(line), keys)
  PROVE  LET text == Cfg!ParseCommandLine(line)[k] IN
           /\ k \in keys
           /\ k = "producer_uri" => text \in DOMAIN Uri
           /\ k \in Cfg!NumberKeys => text \in DOMAIN Number
<1>1. k \in keys /\ k \in {line[i].name : i \in DOMAIN line}
      /\ Cfg!ParseCommandLine(line)[k] # ""
  BY DEF Cfg!Given, Cfg!ParseCommandLine
<1>2. PICK i \in DOMAIN line :
        line[i].name = k /\ Cfg!ParseCommandLine(line)[k] = line[i].text
  BY <1>1, ArgumentsAreLines, LastOption
<1>3. QED
  BY <1>1, <1>2, ArgumentsAreLines

LEMMA UrisName ==
  ASSUME NEW t \in DOMAIN Uri
  PROVE  /\ Cfg!StrictUri(t).topic \in Topics \cup {""}
         /\ Cfg!LenientUri(t).topic \in Topics \cup {""}
  BY DEF Topics, Cfg!StrictUri, Cfg!LenientUri, Cfg!Found, Cfg!NoMatch

Keys == DOMAIN Cfg!Defaults

LEMMA KeysAre ==
  /\ Keys = {"broker", "topic", "source", "source_name"} \cup Cfg!NumberKeys
  /\ Cfg!Defaults.topic = ""
  /\ \A k \in Cfg!NumberKeys : Cfg!Defaults[k] = 0
  BY DEF Keys, Cfg!Defaults, Cfg!NumberKeys

LEMMA FilesFit ==
  ASSUME NEW file \in Files
  PROVE  /\ DOMAIN file.texts \subseteq Cfg!TextKeys \cup {"producer_uri"}
         /\ "producer_uri" \in DOMAIN file.texts
              => file.texts.producer_uri \in DOMAIN Uri
         /\ DOMAIN file.numbers \subseteq Cfg!NumberKeys
         /\ \A k \in DOMAIN file.numbers : file.numbers[k] \in Int
  BY StreamAssumption

(* Numbers laid over numbers.                                               *)
LEMMA OverlaidNumbers ==
  ASSUME NEW config, NEW settings, Cfg!NumberKeys \subseteq DOMAIN config,
         \A k \in Cfg!NumberKeys : config[k] \in Int,
         \A k \in DOMAIN settings \cap Cfg!NumberKeys : settings[k] \in Int
  PROVE  \A k \in Cfg!NumberKeys : Cfg!Overlay(config, settings)[k] \in Int
  BY DEF Cfg!Overlay

LEMMA FromFileFits ==
  ASSUME NEW file \in Files
  PROVE  /\ DOMAIN Cfg!FromFile(file) = Keys
         /\ Cfg!FromFile(file).topic \in Topics \cup {""}
         /\ \A k \in Cfg!NumberKeys : Cfg!FromFile(file)[k] \in Int
<1> DEFINE texts == Cfg!Overlay(Cfg!Defaults, file.texts)
           numbers == Cfg!Overlay(texts, file.numbers)
<1>1. /\ DOMAIN texts = Keys
      /\ texts.topic = ""
      /\ \A k \in Cfg!NumberKeys : texts[k] \in Int
  <2>1. DOMAIN texts = Keys
    BY DEF Cfg!Overlay, Keys
  <2>2. texts.topic = ""
    BY KeysAre, FilesFit DEF Cfg!Overlay, Cfg!TextKeys, Keys
  <2>3. ASSUME NEW k \in Cfg!NumberKeys PROVE texts[k] \in Int
    <3>1. k \in Keys /\ k \notin Cfg!TextKeys \cup {"producer_uri"}
      BY KeysAre DEF Cfg!NumberKeys, Cfg!TextKeys
    <3>2. k \notin DOMAIN file.texts
      BY <3>1, FilesFit
    <3>3. texts[k] = Cfg!Defaults[k]
      BY <3>1, <3>2 DEF Cfg!Overlay, Keys
    <3>4. Cfg!Defaults[k] \in Int
      <4>1. 0 \in Int
        OBVIOUS
      <4>2. QED
        BY <4>1, KeysAre, Zenon
    <3> HIDE DEF texts
    <3>5. QED
      BY <3>3, <3>4
  <2>4. QED
    BY <2>1, <2>2, <2>3
<1>2. /\ DOMAIN numbers = Keys
      /\ numbers.topic = ""
      /\ \A k \in Cfg!NumberKeys : numbers[k] \in Int
  <2> HIDE DEF texts
  <2>1. DOMAIN numbers = Keys
    BY <1>1 DEF Cfg!Overlay
  <2>2. numbers.topic = ""
    BY <1>1, KeysAre, FilesFit DEF Cfg!Overlay, Cfg!NumberKeys
  <2>3. \A k \in Cfg!NumberKeys : numbers[k] \in Int
    <3>1. \A k \in Cfg!NumberKeys : texts[k] \in Int
      BY <1>1
    <3>2. Cfg!NumberKeys \subseteq DOMAIN texts
      BY <1>1, KeysAre
    <3>3. \A k \in DOMAIN file.numbers \cap Cfg!NumberKeys : file.numbers[k] \in Int
      BY FilesFit
    <3>4. QED
      BY <3>1, <3>2, <3>3, OverlaidNumbers
  <2>4. QED
    BY <2>1, <2>2, <2>3
<1>3. CASE "producer_uri" \notin DOMAIN file.texts
  <2>1. Cfg!FromFile(file) = numbers
    BY <1>3 DEF Cfg!FromFile
  <2> HIDE DEF numbers
  <2>2. QED
    BY <1>2, <2>1
<1>4. CASE "producer_uri" \in DOMAIN file.texts
  <2> DEFINE uri == Cfg!StrictUri(file.texts.producer_uri)
  <2>1. Cfg!FromFile(file) = Cfg!Overlay(numbers, uri)
    BY <1>4 DEF Cfg!FromFile
  <2>2. uri.topic \in Topics \cup {""} /\ DOMAIN uri = {"broker", "topic"}
    BY <1>4, StreamAssumption, UrisName DEF Cfg!StrictUri
  <2> HIDE DEF numbers, uri
  <2>3. DOMAIN Cfg!FromFile(file) = Keys /\ Cfg!FromFile(file).topic = uri.topic
    BY <1>2, <2>1, <2>2, KeysAre DEF Cfg!Overlay
  <2>4. \A k \in Cfg!NumberKeys : Cfg!FromFile(file)[k] \in Int
    <3>1. DOMAIN uri \cap Cfg!NumberKeys = {}
      BY <2>2 DEF Cfg!NumberKeys
    <3>2. QED
      BY <1>2, <2>1, <3>1, KeysAre, OverlaidNumbers
  <2>5. QED
    BY <2>2, <2>3, <2>4
<1>5. QED
  BY <1>3, <1>4

(* A configuration that parsing leaves behind names a topic there is, and   *)
(* has a size.                                                              *)
LEMMA ConfigurationsFit ==
  ASSUME NEW file \in Files, NEW line \in Arguments,
         NEW c \in Cfg!ParseConfiguration(file, line)
  PROVE  /\ c.topic \in Topics /\ c.bytes \in Nat \ {0}
         /\ c.multiplier \in Nat \ {0}
<1> DEFINE options == Cfg!ParseCommandLine(line)
           base == Cfg!FromFile(file)
           texts == Cfg!Overlay(base, [k \in Cfg!Given(options, Cfg!TextKeys) |-> options[k]])
           producer == IF Cfg!Given(options, {"producer_uri"}) = {} THEN texts
                       ELSE Cfg!Overlay(texts, Cfg!LenientUri(options.producer_uri))
<1>1. Cfg!Validates(c) /\ c \in Cfg!Overridden(base, options)
  BY DEF Cfg!ParseConfiguration, Cfg!Requested
<1>2. PICK numbers \in Cfg!Readings(options) : c = Cfg!Overlay(producer, numbers)
  BY <1>1 DEF Cfg!Overridden
<1>3. /\ DOMAIN numbers \subseteq Cfg!NumberKeys
      /\ \A k \in DOMAIN numbers : numbers[k] \in Int
  <2>1. DOMAIN numbers = Cfg!Given(options, Cfg!NumberKeys)
        /\ \A k \in DOMAIN numbers : numbers[k] \in Number[options[k]]
    <3> HIDE DEF options
    <3> QED
      BY DEF Cfg!Readings
  <2>2. \A k \in DOMAIN numbers : k \in Cfg!NumberKeys /\ options[k] \in DOMAIN Number
    BY <2>1, GivenOption
  <2> HIDE DEF options
  <2>3. QED
    BY <2>1, <2>2, StreamAssumption
<1>4. /\ DOMAIN texts = Keys
      /\ texts.topic \in Topics \cup {""}
      /\ \A k \in Cfg!NumberKeys : texts[k] \in Int
  <2>1. Cfg!Given(options, Cfg!TextKeys) \subseteq Cfg!TextKeys
    BY DEF Cfg!Given
  <2> DEFINE given == [k \in Cfg!Given(options, Cfg!TextKeys) |-> options[k]]
  <2>2. DOMAIN given \subseteq Cfg!TextKeys
    BY <2>1
  <2>3. /\ DOMAIN base = Keys /\ base.topic \in Topics \cup {""}
        /\ \A k \in Cfg!NumberKeys : base[k] \in Int
    BY FromFileFits
  <2>4. texts = Cfg!Overlay(base, given)
    OBVIOUS
  <2> HIDE DEF given, base, texts, options
  <2>5. DOMAIN texts = Keys
    BY <2>3, <2>4 DEF Cfg!Overlay
  <2>6. texts.topic = base.topic
    BY <2>2, <2>3, <2>4, KeysAre DEF Cfg!Overlay, Cfg!TextKeys
  <2>7. \A k \in Cfg!NumberKeys : texts[k] \in Int
    <3>1. DOMAIN given \cap Cfg!NumberKeys = {}
      BY <2>2 DEF Cfg!NumberKeys, Cfg!TextKeys
    <3>2. QED
      BY <2>3, <2>4, <3>1, KeysAre, OverlaidNumbers
  <2>8. QED
    BY <2>3, <2>5, <2>6, <2>7
<1>5. /\ DOMAIN producer = Keys
      /\ producer.topic \in Topics \cup {""}
      /\ \A k \in Cfg!NumberKeys : producer[k] \in Int
  <2>1. CASE Cfg!Given(options, {"producer_uri"}) = {}
    <3>1. producer = texts
      BY <2>1
    <3> HIDE DEF texts, producer
    <3>2. QED
      BY <3>1, <1>4
  <2>2. CASE Cfg!Given(options, {"producer_uri"}) # {}
    <3> DEFINE uri == Cfg!LenientUri(options.producer_uri)
    <3>1. producer = Cfg!Overlay(texts, uri)
      BY <2>2
    <3>2. PICK k \in Cfg!Given(options, {"producer_uri"}) : TRUE
      BY <2>2
    <3>3. k = "producer_uri" /\ options[k] \in DOMAIN Uri
      BY <3>2, GivenOption
    <3>4. uri.topic \in Topics \cup {""} /\ DOMAIN uri = {"broker", "topic"}
      BY <3>3, UrisName DEF Cfg!LenientUri
    <3> HIDE DEF texts, producer, uri, options
    <3>5. DOMAIN producer = Keys /\ producer.topic = uri.topic
      BY <1>4, <3>1, <3>4, KeysAre DEF Cfg!Overlay
    <3>6. \A n \in Cfg!NumberKeys : producer[n] \in Int
      <4>1. DOMAIN uri \cap Cfg!NumberKeys = {}
        BY <3>4 DEF Cfg!NumberKeys
      <4>2. QED
        BY <1>4, <3>1, <4>1, KeysAre, OverlaidNumbers
    <3>7. QED
      BY <3>4, <3>5, <3>6
  <2>3. QED
    BY <2>1, <2>2
<1> HIDE DEF options, base, texts, producer
<1>6. c.topic = producer.topic
  BY <1>2, <1>3, <1>5, KeysAre DEF Cfg!Overlay, Cfg!NumberKeys
<1>7. c.multiplier \in Int /\ c.bytes \in Int
  <2>1. \A k \in Cfg!NumberKeys : c[k] \in Int
    BY <1>2, <1>3, <1>5, KeysAre, OverlaidNumbers
  <2>2. QED
    BY <2>1 DEF Cfg!NumberKeys
<1>8. c.topic # "" /\ c.bytes > 0 /\ c.multiplier > 0
  BY <1>1 DEF Cfg!Validates
<1>9. c.topic \in Topics
  BY <1>5, <1>6, <1>8
<1>10. c.multiplier \in Nat \ {0} /\ c.bytes \in Nat \ {0}
  <2>1. \A n \in Int : n > 0 => n \in Nat \ {0}
    OBVIOUS
  <2>2. QED
    BY <1>7, <1>8, <2>1, Zenon
<1>11. QED
  BY <1>8, <1>9, <1>10

-----------------------------------------------------------------------------
(* The types.                                                               *)

Configurations ==
  UNION {UNION {Cfg!ParseConfiguration(f, l) : l \in Arguments} : f \in Files}

OwnMessages ==
  UNION {{Serialise(c.source_name, id, Data(c)) : id \in 0 .. MaxPulse - 1} :
           c \in Configurations}
StrangersMessages == {Serialise(n, 0, <<>>) : n \in Strangers}
StreamMessages == OwnMessages \cup StrangersMessages

(* What has run has been configured, and what has not run has done nothing. *)
Configured ==
  /\ gen = "streaming" => gcfg \in Configurations /\ CanStream(gcfg)
  /\ gen # "streaming" => queue = <<>> /\ PulseID = 0
  /\ lis = "listening" => lcfg \in Configurations
  /\ lis # "listening" =>
       /\ start = 0 /\ offset = 0 /\ Expected = -1
       /\ MessagesLost = -1 /\ MessagesReceived = 0 /\ reported = 0

StreamTyped ==
  /\ log \in [Topics -> Seq(StreamMessages)]
  /\ queue \in Seq(StreamMessages)
  /\ offset \in Nat /\ reported \in Int

StreamInv == TypeOK /\ StreamTyped /\ Configured

LEMMA Bounds == MaxPulse \in Nat \ {0} /\ MaxQueue \in Nat /\ MaxForeign \in Nat
  BY StreamAssumption

LEMMA ConfigurationsName ==
  ASSUME NEW c \in Configurations
  PROVE  /\ c.topic \in Topics /\ c.bytes \in Nat \ {0}
         /\ c.multiplier \in Nat \ {0}
  BY ConfigurationsFit DEF Configurations

LEMMA SerialiseIs ==
  ASSUME NEW n, NEW id, NEW data
  PROVE  Serialise(n, id, data).message_id = id /\ Serialise(n, id, data).source = n
  BY DEF Serialise

LEMMA MessagesNumbered ==
  ASSUME NEW m \in StreamMessages
  PROVE  m.message_id \in 0 .. MaxPulse - 1
<1>1. CASE m \in OwnMessages
  <2>1. PICK c \in Configurations, id \in 0 .. MaxPulse - 1 :
          m = Serialise(c.source_name, id, Data(c))
    BY <1>1 DEF OwnMessages
  <2>2. m.message_id = id
    BY <2>1, SerialiseIs
  <2>3. QED
    BY <2>1, <2>2, Zenon
<1>2. CASE m \in StrangersMessages
  <2>1. PICK n \in Strangers : m = Serialise(n, 0, <<>>)
    BY <1>2 DEF StrangersMessages
  <2>2. m.message_id = 0
    BY <2>1, SerialiseIs
  <2>3. 0 \in 0 .. MaxPulse - 1
    BY Bounds
  <2>4. QED
    BY <2>2, <2>3, Zenon
<1>3. QED
  BY <1>1, <1>2 DEF StreamMessages

LEMMA RemoveAtTyped ==
  ASSUME NEW S, NEW s \in Seq(S), NEW i \in DOMAIN s
  PROVE  RemoveAt(s, i) \in Seq(S) /\ Len(RemoveAt(s, i)) = Len(s) - 1
<1> DEFINE a == SubSeq(s, 1, i - 1)
           b == SubSeq(s, i + 1, Len(s))
<1>1. i \in 1 .. Len(s) /\ Len(s) \in Nat
  OBVIOUS
<1>2. a \in Seq(S) /\ Len(a) = i - 1
  BY <1>1
<1>3. b \in Seq(S) /\ Len(b) = Len(s) - i
  BY <1>1
<1>4. RemoveAt(s, i) = a \o b
  BY DEF RemoveAt
<1> HIDE DEF a, b
<1>5. a \o b \in Seq(S) /\ Len(a \o b) = Len(a) + Len(b)
  BY <1>2, <1>3, Together, Zenon
<1>6. QED
  BY <1>1, <1>2, <1>3, <1>4, <1>5

(* The log only grows.                                                      *)
LogGrows ==
  \A t \in Topics :
    /\ Len(log'[t]) \in Nat /\ Len(log'[t]) >= Len(log[t])
    /\ \A i \in 1 .. Len(log[t]) : log'[t][i] = log[t][i]

LEMMA AppendedGrows ==
  ASSUME StreamTyped, NEW t \in Topics, NEW m \in StreamMessages,
         log' = [log EXCEPT ![t] = Append(@, m)]
  PROVE  log' \in [Topics -> Seq(StreamMessages)] /\ LogGrows
<1>1. \A u \in Topics : log[u] \in Seq(StreamMessages) /\ Len(log[u]) \in Nat
  BY DEF StreamTyped
<1>2. ASSUME NEW u \in Topics PROVE log'[u] = IF u = t THEN Append(log[t], m) ELSE log[u]
  BY DEF StreamTyped
<1>3. log' \in [Topics -> Seq(StreamMessages)]
  <2>1. Append(log[t], m) \in Seq(StreamMessages)
    BY <1>1
  <2>2. QED
    BY <2>1 DEF StreamTyped
<1>4. ASSUME NEW u \in Topics
      PROVE  /\ Len(log'[u]) \in Nat /\ Len(log'[u]) >= Len(log[u])
             /\ \A i \in 1 .. Len(log[u]) : log'[u][i] = log[u][i]
  BY <1>1, <1>2
<1>5. QED
  BY <1>3, <1>4 DEF LogGrows

LEMMA UnchangedGrows ==
  ASSUME StreamTyped, UNCHANGED log
  PROVE  LogGrows
<1>1. \A u \in Topics : Len(log[u]) \in Nat
  BY DEF StreamTyped
<1>2. QED
  BY <1>1 DEF LogGrows

LEMMA StreamInitial == Init => StreamInv
<1> SUFFICES ASSUME Init PROVE StreamInv
  OBVIOUS
<1>1. TypeOK
  <2>1. Len(queue) <= MaxQueue /\ PulseID \in 0 .. MaxPulse
    BY Bounds DEF Init
  <2>2. start \in 0 .. offset /\ MessagesLost \in -1 .. offset
        /\ MessagesReceived \in 0 .. offset /\ Expected \in -1 .. MaxPulse
    BY Bounds DEF Init
  <2>3. QED
    BY <2>1, <2>2 DEF Init, TypeOK
<1>2. StreamTyped
  <2>1. <<>> \in Seq(StreamMessages)
    OBVIOUS
  <2>2. log \in [Topics -> Seq(StreamMessages)]
    BY <2>1 DEF Init
  <2>3. QED
    BY <2>1, <2>2 DEF Init, StreamTyped
<1>3. Configured
  BY DEF Init, Configured
<1>4. QED
  BY <1>1, <1>2, <1>3 DEF StreamInv

LEMMA LostIs ==
  ASSUME NEW m \in StreamMessages
  PROVE  Received(m) \in 0 .. MaxPulse - 1
<1>1. 0 \in 0 .. MaxPulse - 1
  BY Bounds
<1>2. QED
  BY <1>1, MessagesNumbered, Zenon DEF Received

LEMMA HeardIsAMessage ==
  ASSUME StreamInv, lis = "listening", NEW i \in 1 .. Len(log[lcfg.topic])
  PROVE  lcfg.topic \in Topics /\ Heard(i) \in StreamMessages
  BY ConfigurationsName DEF StreamInv, Configured, StreamTyped, Heard

(* What a log that grows does not touch.                                    *)
LEMMA ListenerKept ==
  ASSUME StreamInv, LogGrows, UNCHANGED lisVars
  PROVE  lis' = "listening" => offset' <= Len(log'[lcfg'.topic])
<1> SUFFICES ASSUME lis = "listening" PROVE offset <= Len(log'[lcfg.topic])
  BY DEF lisVars
<1>1. lcfg.topic \in Topics /\ offset <= Len(log[lcfg.topic]) /\ offset \in Nat
  BY ConfigurationsName DEF StreamInv, TypeOK, StreamTyped, Configured
<1>2. Len(log'[lcfg.topic]) >= Len(log[lcfg.topic])
  BY <1>1 DEF LogGrows
<1>3. Len(log[lcfg.topic]) \in Nat
  BY <1>1 DEF StreamInv, StreamTyped
<1>4. QED
  BY <1>1, <1>2, <1>3

LEMMA StreamKept == StreamInv /\ [Next]_vars => StreamInv'
<1> SUFFICES ASSUME StreamInv, [Next]_vars PROVE StreamInv'
  OBVIOUS
<1> USE DEF genVars, lisVars
<1>1. TypeOK /\ StreamTyped /\ Configured
  BY DEF StreamInv
<1>2. ASSUME LogGrows, UNCHANGED lisVars
      PROVE  lis' = "listening" => offset' <= Len(log'[lcfg'.topic])
  BY <1>2, ListenerKept
<1>3. ASSUME StartGenerator PROVE StreamInv'
  <2>1. /\ gen = "off" /\ gen' \in {"streaming", "ended"}
        /\ UNCHANGED <<status, PulseID, queue, log, foreign, clean, lisVars>>
    BY <1>3 DEF StartGenerator
  <2>2. gen' = "streaming" => gcfg' \in Configurations /\ CanStream(gcfg')
    <3> SUFFICES ASSUME gen' = "streaming"
                 PROVE  gcfg' \in Configurations /\ CanStream(gcfg')
      OBVIOUS
    <3>1. PICK file \in Files, line \in Arguments :
            /\ Cfg!IsParsed(file, line) /\ gcfg' \in Cfg!Requested(file, line)
            /\ Cfg!Validates(gcfg') /\ CanStream(gcfg')
      BY <1>3 DEF StartGenerator
    <3>2. gcfg' \in Cfg!ParseConfiguration(file, line)
      BY <3>1 DEF Cfg!ParseConfiguration
    <3>3. QED
      BY <3>1, <3>2 DEF Configurations
  <2>3. QED
    BY <1>1, <2>1, <2>2 DEF StreamInv, TypeOK, StreamTyped, Configured
<1>4. ASSUME Command PROVE StreamInv'
  BY <1>1, <1>4 DEF Command, StreamInv, TypeOK, StreamTyped, Configured
<1>5. ASSUME Pulse PROVE StreamInv'
  <2>1. /\ gen = "streaming" /\ Len(queue) < MaxQueue /\ PulseID < MaxPulse
        /\ PulseID' = PulseID + 1 /\ clean' \in BOOLEAN
        /\ UNCHANGED <<gen, gcfg, status, log, foreign, lisVars>>
    BY <1>1, <1>5 DEF Pulse, TypeOK
  <2>2. PulseID \in 0 .. MaxPulse - 1 /\ PulseID' \in 0 .. MaxPulse
    BY <1>1, <2>1, Bounds DEF TypeOK
  <2>3. Serialise(gcfg.source_name, PulseID, Data(gcfg)) \in StreamMessages
    BY <1>1, <2>1, <2>2 DEF Configured, StreamMessages, OwnMessages
  <2>4. queue' \in Seq(StreamMessages) /\ Len(queue') <= MaxQueue
    <3>1. CASE Sends
      BY <1>1, <1>5, <2>1, <2>3, <3>1, Bounds DEF Pulse, StreamTyped
    <3>2. CASE ~Sends
      BY <1>1, <1>5, <3>2 DEF Pulse, StreamTyped, TypeOK
    <3>3. QED
      BY <3>1, <3>2
  <2>5. QED
    BY <1>1, <2>1, <2>2, <2>4 DEF StreamInv, TypeOK, StreamTyped, Configured
<1>6. ASSUME NEW i \in DOMAIN queue, Store(i) PROVE StreamInv'
  <2>1. gen = "streaming" /\ queue[i] \in StreamMessages
    BY <1>1 DEF Configured, StreamTyped
  <2>2. gcfg.topic \in Topics
    BY <1>1, <2>1, ConfigurationsName DEF Configured
  <2>3. log' \in [Topics -> Seq(StreamMessages)] /\ LogGrows
    BY <1>1, <1>6, <2>1, <2>2, AppendedGrows DEF Store
  <2>4. queue' \in Seq(StreamMessages) /\ Len(queue') = Len(queue) - 1
    BY <1>1, <1>6, RemoveAtTyped DEF Store, StreamTyped
  <2>5. Len(queue') <= MaxQueue
    BY <1>1, <2>4, Bounds DEF TypeOK, StreamTyped
  <2>6. UNCHANGED lisVars /\ UNCHANGED <<gen, gcfg, status, PulseID, foreign>>
        /\ clean' \in BOOLEAN
    BY <1>1, <1>6 DEF Store, TypeOK
  <2>7. QED
    BY <1>1, <1>2, <2>1, <2>3, <2>4, <2>5, <2>6
       DEF StreamInv, TypeOK, StreamTyped, Configured
<1>7. ASSUME NEW i \in DOMAIN queue, Lose(i) PROVE StreamInv'
  <2>1. gen = "streaming"
    BY <1>1 DEF Configured
  <2>2. queue' \in Seq(StreamMessages) /\ Len(queue') = Len(queue) - 1
    BY <1>1, <1>7, RemoveAtTyped DEF Lose, StreamTyped
  <2>3. Len(queue') <= MaxQueue
    BY <1>1, <2>2, Bounds DEF TypeOK, StreamTyped
  <2>4. QED
    BY <1>1, <1>7, <2>1, <2>2, <2>3 DEF Lose, StreamInv, TypeOK, StreamTyped, Configured
<1>8. ASSUME NEW name \in Strangers, NEW topic \in Topics, Foreign(name, topic)
      PROVE  StreamInv'
  <2>1. Serialise(name, 0, <<>>) \in StreamMessages
    BY DEF StreamMessages, StrangersMessages
  <2>2. log' \in [Topics -> Seq(StreamMessages)] /\ LogGrows
    BY <1>1, <1>8, <2>1, AppendedGrows DEF Foreign
  <2>3. UNCHANGED lisVars /\ UNCHANGED genVars /\ clean' \in BOOLEAN
    BY <1>8 DEF Foreign
  <2>4. QED
    BY <1>1, <1>2, <2>2, <2>3 DEF StreamInv, TypeOK, StreamTyped, Configured
<1>9. ASSUME StartListener PROVE StreamInv'
  <2>1. /\ lis = "off" /\ lis' \in {"listening", "ended"}
        /\ UNCHANGED <<genVars, log, foreign, clean, Events, Expected, MessagesLost,
                       MessagesReceived, reported>>
    BY <1>9 DEF StartListener
  <2>2. CASE lis' = "listening"
    <3>1. PICK file \in Files, line \in CommandLines :
            \E c \in Cfg!ParseConfiguration(file, line) :
              lcfg' = c /\ start' = Len(log[c.topic]) /\ offset' = start'
      BY <1>9, <2>2 DEF StartListener
    <3>2. line \in Arguments
      BY DEF Arguments
    <3>3. lcfg' \in Configurations
      BY <3>1, <3>2 DEF Configurations
    <3>4. lcfg'.topic \in Topics
      BY <3>3, ConfigurationsName
    <3>5. start' = Len(log[lcfg'.topic]) /\ offset' = start' /\ start' \in Nat
      BY <1>1, <3>1, <3>4 DEF StreamTyped
    <3>6. /\ start' \in 0 .. offset' /\ offset' \in Nat
          /\ MessagesLost' \in -1 .. offset' /\ MessagesReceived' \in 0 .. offset'
          /\ Expected' \in -1 .. MaxPulse /\ offset' <= Len(log'[lcfg'.topic])
      BY <1>1, <2>1, <3>5, Bounds DEF Configured
    <3>7. QED
      BY <1>1, <2>1, <2>2, <3>3, <3>6 DEF StreamInv, TypeOK, StreamTyped, Configured
  <2>3. CASE lis' = "ended"
    <3>1. UNCHANGED <<lcfg, start, offset>>
      BY <1>9, <2>3 DEF StartListener
    <3>2. QED
      BY <1>1, <2>1, <2>3, <3>1 DEF StreamInv, TypeOK, StreamTyped, Configured
  <2>4. QED
    BY <2>1, <2>2, <2>3
<1>10. ASSUME Consume PROVE StreamInv'
  <2> DEFINE m == log[lcfg.topic][offset + 1]
  <2>1. /\ lis = "listening" /\ offset < Len(log[lcfg.topic])
        /\ UNCHANGED <<genVars, log, foreign, clean, lis, lcfg, start>>
        /\ offset' = offset + 1
        /\ MessagesLost' \in {Lost(m), 0} /\ reported' \in {reported, reported + Lost(m)}
        /\ MessagesReceived' \in {MessagesReceived, MessagesReceived + 1, 0}
        /\ Expected' = NextExpected(m)
    BY <1>1, <1>10 DEF Consume, TypeOK
  <2>2. lcfg.topic \in Topics /\ log[lcfg.topic] \in Seq(StreamMessages)
    BY <1>1, <2>1, ConfigurationsName DEF Configured, StreamTyped
  <2>3. m \in StreamMessages /\ offset' <= Len(log[lcfg.topic])
    BY <1>1, <2>1, <2>2 DEF StreamTyped
  <2>4. Expected' \in -1 .. MaxPulse
    BY <2>1, <2>3, LostIs, Bounds DEF NextExpected
  <2>5. Lost(m) \in {MessagesLost, MessagesLost + 1}
    BY <1>1 DEF Lost, TypeOK
  <2> HIDE DEF m
  <2>6. /\ start' \in 0 .. offset' /\ offset' \in Nat /\ reported' \in Int
        /\ MessagesLost' \in -1 .. offset' /\ MessagesReceived' \in 0 .. offset'
    BY <1>1, <2>1, <2>5 DEF TypeOK, StreamTyped
  <2>7. QED
    BY <1>1, <2>1, <2>3, <2>4, <2>6 DEF StreamInv, TypeOK, StreamTyped, Configured
<1>11. ASSUME UNCHANGED vars PROVE StreamInv'
  BY <1>1, <1>11 DEF vars, StreamInv, TypeOK, StreamTyped, Configured
<1>12. QED
  BY <1>3, <1>4, <1>5, <1>6, <1>7, <1>8, <1>9, <1>10, <1>11 DEF Next

(* Generator, topics and listener keep their types, and the listener never  *)
(* runs ahead of its topic (generator.hpp:101-187).                         *)
THEOREM TypeCorrect == Spec => []TypeOK
<1>1. StreamInv => TypeOK
  BY DEF StreamInv
<1>2. QED
  BY <1>1, StreamInitial, StreamKept, PTL DEF Spec

-----------------------------------------------------------------------------
(* Losses.                                                                  *)

Span == start + 1 .. offset
Breaks == {i \in Span : Break(i)}
Alone == \A i \in Span : ~IsForeign(i)

Counted ==
  lis = "listening" =>
    /\ reported + MessagesLost + 1 <= Cardinality(Breaks)
    /\ Alone => reported + MessagesLost + 1 = Cardinality(Breaks)

(* The number that is expected is that after the last one.                  *)
ExpectsTheNext ==
  lis = "listening" =>
    Expected = IF offset = start THEN -1 ELSE Received(Heard(offset)) + 1

LossInv == StreamInv /\ Counted /\ ExpectsTheNext

LEMMA BreaksAreFinite ==
  ASSUME StreamInv
  PROVE  IsFiniteSet(Span) /\ IsFiniteSet(Breaks) /\ Cardinality(Breaks) \in Nat
<1>1. IsFiniteSet(Span)
  BY FS_Interval DEF Span, StreamInv, StreamTyped, TypeOK
<1>2. Breaks \subseteq Span
  BY DEF Breaks
<1>3. QED
  BY <1>1, <1>2, FS_Subset, FS_CardinalityType

(* A log that grows has the same breaks.                                    *)
LEMMA BreaksStay ==
  ASSUME StreamInv, LogGrows, UNCHANGED lisVars, lis = "listening"
  PROVE  /\ Breaks' = Breaks /\ Alone' = Alone
         /\ offset > start => Heard(offset)' = Heard(offset)
<1>1. lcfg.topic \in Topics /\ offset <= Len(log[lcfg.topic]) /\ offset \in Nat
      /\ start \in Nat
  BY ConfigurationsName DEF StreamInv, TypeOK, StreamTyped, Configured
<1>2. Len(log[lcfg.topic]) \in Nat
  BY <1>1 DEF StreamInv, StreamTyped
<1>3. UNCHANGED <<lis, lcfg, start, offset>> /\ Span' = Span
  BY DEF lisVars, Span
<1>4. ASSUME NEW i \in Span PROVE Heard(i)' = Heard(i)
  <2>1. i \in 1 .. Len(log[lcfg.topic])
    BY <1>1, <1>2 DEF Span
  <2>2. log'[lcfg.topic][i] = log[lcfg.topic][i]
    BY <1>1, <2>1 DEF LogGrows
  <2>3. QED
    BY <1>3, <2>2 DEF Heard
<1>5. ASSUME NEW i \in Span PROVE IsForeign(i)' = IsForeign(i)
  BY <1>3, <1>4 DEF IsForeign
<1>6. ASSUME NEW i \in Span PROVE Break(i)' = Break(i)
  <2>1. CASE i = start + 1
    BY <1>3, <2>1 DEF Break
  <2>2. CASE i # start + 1
    <3>1. i - 1 \in Span
      BY <1>1, <2>2 DEF Span
    <3>2. Heard(i)' = Heard(i) /\ Heard(i - 1)' = Heard(i - 1)
          /\ IsForeign(i)' = IsForeign(i) /\ IsForeign(i - 1)' = IsForeign(i - 1)
      BY <1>4, <1>5, <3>1
    <3>3. QED
      BY <1>3, <3>2 DEF Break
  <2>3. QED
    BY <2>1, <2>2
<1>7. Breaks' = Breaks
  BY <1>3, <1>6 DEF Breaks
<1>8. Alone' = Alone
  BY <1>3, <1>5 DEF Alone
<1>9. offset > start => Heard(offset)' = Heard(offset)
  <2>1. offset > start => offset \in 1 .. Len(log[lcfg.topic])
    BY <1>1, <1>2
  <2>2. offset > start => log'[lcfg.topic][offset] = log[lcfg.topic][offset]
    BY <1>1, <2>1 DEF LogGrows
  <2>3. QED
    BY <1>3, <2>2 DEF Heard
<1>10. QED
  BY <1>7, <1>8, <1>9

LEMMA LossUndisturbed ==
  ASSUME LossInv, LogGrows, UNCHANGED lisVars
  PROVE  Counted' /\ ExpectsTheNext'
<1>1. UNCHANGED <<lis, lcfg, start, offset, Expected, MessagesLost, reported>>
  BY DEF lisVars
<1>2. CASE lis # "listening"
  BY <1>1, <1>2 DEF Counted, ExpectsTheNext
<1>3. CASE lis = "listening"
  <2>1. /\ Breaks' = Breaks /\ Alone' = Alone
        /\ offset > start => Heard(offset)' = Heard(offset)
    BY <1>3, BreaksStay DEF LossInv
  <2>2. Counted'
    BY <1>1, <1>3, <2>1 DEF LossInv, Counted
  <2>3. offset = start \/ offset > start
    BY DEF LossInv, StreamInv, TypeOK, StreamTyped
  <2>4. ExpectsTheNext'
    <3>1. CASE offset = start
      BY <1>1, <1>3, <3>1 DEF LossInv, ExpectsTheNext
    <3>2. CASE offset > start
      <4>1. Received(Heard(offset))' = Received(Heard(offset))
        BY <1>1, <2>1, <3>2 DEF Received
      <4>2. QED
        BY <1>1, <1>3, <3>2, <4>1 DEF LossInv, ExpectsTheNext
    <3>3. QED
      BY <2>3, <3>1, <3>2
  <2>5. QED
    BY <2>2, <2>4
<1>4. QED
  BY <1>2, <1>3

(* A message has the wrong number only where there is a break, and it has   *)
(* where there is one between two of its own.                               *)
LEMMA WrongNumbersAreBreaks ==
  ASSUME LossInv, lis = "listening", offset < Len(log[lcfg.topic])
  PROVE  LET wrong == Received(Heard(offset + 1)) # Expected IN
           /\ wrong => Break(offset + 1)
           /\ Alone /\ ~IsForeign(offset + 1) /\ Break(offset + 1) => wrong
<1> DEFINE n == offset + 1
<1>1. offset \in Nat /\ start \in 0 .. offset
  BY DEF LossInv, StreamInv, TypeOK, StreamTyped
<1>2. Len(log[lcfg.topic]) \in Nat /\ offset <= Len(log[lcfg.topic])
  BY ConfigurationsName DEF LossInv, StreamInv, TypeOK, StreamTyped, Configured
<1>3. Heard(n) \in StreamMessages
  BY <1>1, <1>2, HeardIsAMessage DEF LossInv
<1>4. Received(Heard(n)) \in Nat
  BY <1>3, LostIs, Bounds
<1>5. CASE offset = start
  <2>1. Expected = -1 /\ Break(n)
    BY <1>5 DEF LossInv, ExpectsTheNext, Break
  <2>2. Received(Heard(n)) # Expected
    BY <1>4, <2>1
  <2>3. QED
    BY <2>1, <2>2
<1>6. CASE offset # start
  <2>1. Heard(offset) \in StreamMessages
    BY <1>1, <1>2, <1>6, HeardIsAMessage DEF LossInv
  <2>2. Heard(n).message_id \in Nat /\ Heard(offset).message_id \in Nat
    BY <1>3, <2>1, MessagesNumbered, Bounds
  <2>3. Expected = Received(Heard(offset)) + 1
    BY <1>6 DEF LossInv, ExpectsTheNext
  <2>4. n - 1 = offset /\ n # start + 1 /\ offset \in Span
    BY <1>1, <1>6 DEF Span
  <2>5. Break(n) <=> \/ IsForeign(n) \/ IsForeign(offset)
                     \/ Heard(n).message_id # Heard(offset).message_id + 1
    BY <2>4 DEF Break
  <2>6. ASSUME ~IsForeign(n), ~IsForeign(offset)
        PROVE  /\ Received(Heard(n)) = Heard(n).message_id
               /\ Received(Heard(offset)) = Heard(offset).message_id
    BY <2>6 DEF IsForeign, Received
  <2>7. Alone => ~IsForeign(offset)
    BY <2>4 DEF Alone
  <2>8. Received(Heard(n)) # Expected => Break(n)
    BY <2>3, <2>5, <2>6
  <2>9. Alone /\ ~IsForeign(n) /\ Break(n) => Received(Heard(n)) # Expected
    BY <2>2, <2>3, <2>5, <2>6, <2>7
  <2>10. QED
    BY <2>8, <2>9
<1>7. QED
  BY <1>5, <1>6

LEMMA ConsumeCounts ==
  ASSUME LossInv, Consume
  PROVE  Counted' /\ ExpectsTheNext'
<1> DEFINE n == offset + 1
           wrong == Received(Heard(n)) # Expected
<1>1. /\ lis = "listening" /\ offset < Len(log[lcfg.topic])
      /\ UNCHANGED <<log, lis, lcfg, start>>
      /\ offset' = n
      /\ Expected' = Received(Heard(n)) + 1
      /\ \/ MessagesLost' = Lost(Heard(n)) /\ reported' = reported
         \/ MessagesLost' = 0 /\ reported' = reported + Lost(Heard(n))
  BY DEF Consume, Heard, NextExpected
<1>2. offset \in Nat /\ start \in 0 .. offset /\ reported \in Int /\ MessagesLost \in Int
  BY DEF LossInv, StreamInv, TypeOK, StreamTyped
<1>3. reported' + MessagesLost' = reported + MessagesLost + (IF wrong THEN 1 ELSE 0)
  BY <1>1, <1>2 DEF Lost
<1>4. Span' = Span \cup {n} /\ n \notin Span
  BY <1>1, <1>2 DEF Span
<1>5. \A i : IsForeign(i)' = IsForeign(i) /\ Break(i)' = Break(i)
  BY <1>1 DEF IsForeign, Break, Heard
<1>6. Breaks' = IF Break(n) THEN Breaks \cup {n} ELSE Breaks
  BY <1>4, <1>5 DEF Breaks
<1>7. Alone' <=> Alone /\ ~IsForeign(n)
  BY <1>4, <1>5 DEF Alone
<1>8. IsFiniteSet(Breaks) /\ n \notin Breaks /\ Cardinality(Breaks) \in Nat
  BY <1>4, BreaksAreFinite DEF LossInv, Breaks
<1>9. Cardinality(Breaks') = Cardinality(Breaks) + (IF Break(n) THEN 1 ELSE 0)
  BY <1>6, <1>8, FS_AddElement
<1>10. /\ wrong => Break(n)
       /\ Alone /\ ~IsForeign(n) /\ Break(n) => wrong
  BY <1>1, WrongNumbersAreBreaks
<1>11. /\ reported + MessagesLost + 1 <= Cardinality(Breaks)
       /\ Alone => reported + MessagesLost + 1 = Cardinality(Breaks)
  BY <1>1 DEF LossInv, Counted
<1>12. Counted'
  <2> HIDE DEF wrong, n
  <2>1. reported' + MessagesLost' + 1 <= Cardinality(Breaks')
    BY <1>2, <1>3, <1>8, <1>9, <1>10, <1>11
  <2>2. Alone' => reported' + MessagesLost' + 1 = Cardinality(Breaks')
    BY <1>2, <1>3, <1>7, <1>8, <1>9, <1>10, <1>11
  <2>3. QED
    BY <2>1, <2>2 DEF Counted
<1>13. ExpectsTheNext'
  <2>1. offset' # start'
    BY <1>1, <1>2
  <2>2. Received(Heard(offset))' = Received(Heard(n))
    BY <1>1 DEF Received, Heard
  <2>3. QED
    BY <1>1, <2>1, <2>2 DEF ExpectsTheNext
<1>14. QED
  BY <1>12, <1>13

LEMMA ListenerStartsCounting ==
  ASSUME LossInv, StartListener
  PROVE  Counted' /\ ExpectsTheNext'
<1>1. CASE lis' # "listening"
  BY <1>1 DEF Counted, ExpectsTheNext
<1>2. CASE lis' = "listening"
  <2>1. lis # "listening" /\ UNCHANGED <<Expected, MessagesLost, reported>>
    BY DEF StartListener
  <2>2. Expected' = -1 /\ MessagesLost' = -1 /\ reported' = 0
    BY <2>1 DEF LossInv, StreamInv, Configured
  <2>3. offset' = start' /\ offset' \in Nat
    <3>1. offset' = start'
      BY <1>2 DEF StartListener
    <3>2. offset' \in Nat
      BY StreamKept DEF LossInv, Next, StreamInv, StreamTyped
    <3>3. QED
      BY <3>1, <3>2
  <2>4. Breaks' = {}
    <3>1. \A n \in Nat : n + 1 .. n = {}
      OBVIOUS
    <3>2. Span' = {}
      BY <2>3, <3>1 DEF Span
    <3>3. QED
      BY <3>2 DEF Breaks
  <2>5. Cardinality(Breaks') = 0
    BY <2>4, FS_EmptySet
  <2>6. QED
    BY <2>2, <2>3, <2>5 DEF Counted, ExpectsTheNext
<1>3. QED
  BY <1>1, <1>2

LEMMA StoredGrows ==
  ASSUME StreamInv, NEW i \in DOMAIN queue, Store(i)
  PROVE  gen = "streaming" /\ gcfg.topic \in Topics /\ queue[i] \in StreamMessages /\ LogGrows
<1>1. gen = "streaming" /\ queue[i] \in StreamMessages
  BY DEF StreamInv, Configured, StreamTyped
<1>2. gcfg.topic \in Topics
  BY <1>1, ConfigurationsName DEF StreamInv, Configured
<1>3. QED
  BY <1>1, <1>2, AppendedGrows DEF Store, StreamInv

LEMMA ForeignGrows ==
  ASSUME StreamInv, NEW name \in Strangers, NEW topic \in Topics, Foreign(name, topic)
  PROVE  LogGrows
<1>1. Serialise(name, 0, <<>>) \in StreamMessages
  BY DEF StreamMessages, StrangersMessages
<1>2. QED
  BY <1>1, AppendedGrows DEF Foreign, StreamInv

LEMMA LossInitial == Init => LossInv
  BY StreamInitial DEF LossInv, Init, Counted, ExpectsTheNext

LEMMA LossKept == LossInv /\ [Next]_vars => LossInv'
<1> SUFFICES ASSUME LossInv, [Next]_vars PROVE Counted' /\ ExpectsTheNext'
  BY StreamKept DEF LossInv
<1>1. StreamInv /\ StreamTyped
  BY DEF LossInv, StreamInv
<1>2. ASSUME UNCHANGED <<log, lisVars>> PROVE Counted' /\ ExpectsTheNext'
  BY <1>1, <1>2, UnchangedGrows, LossUndisturbed
<1>3. CASE StartGenerator \/ Command \/ Pulse \/ UNCHANGED vars
  BY <1>2, <1>3 DEF StartGenerator, Command, Pulse, vars
<1>4. ASSUME NEW i \in DOMAIN queue, Store(i) PROVE Counted' /\ ExpectsTheNext'
  BY <1>1, <1>4, StoredGrows, LossUndisturbed DEF Store
<1>5. ASSUME NEW i \in DOMAIN queue, Lose(i) PROVE Counted' /\ ExpectsTheNext'
  BY <1>2, <1>5 DEF Lose
<1>6. ASSUME NEW name \in Strangers, NEW topic \in Topics, Foreign(name, topic)
      PROVE  Counted' /\ ExpectsTheNext'
  BY <1>1, <1>6, ForeignGrows, LossUndisturbed DEF Foreign
<1>7. QED
  BY <1>3, <1>4, <1>5, <1>6, ListenerStartsCounting, ConsumeCounts DEF Next

(* However long the topic is and whoever writes to it, the listener counts  *)
(* each break once, over all its reports (generator.hpp:164-185).           *)
THEOREM MissedMessagesAreBreaks == Spec => []MissedAreBreaks
<1>1. LossInv => MissedAreBreaks
  BY DEF LossInv, Counted, MissedAreBreaks, Breaks, Alone, Span
<1>2. QED
  BY <1>1, LossInitial, LossKept, PTL DEF Spec

-----------------------------------------------------------------------------
(* Undisturbed streams.                                                     *)

(* A message of the generator's with the number it should have.             *)
Numbered(m, id) == m.message_id = id /\ m.source = gcfg.source_name

OwnLog == log[gcfg.topic]

(* What the generator has numbered is in its topic, in order, and after it  *)
(* in its queue.                                                            *)
InOrder ==
  /\ \A t \in Topics \ {gcfg.topic} : log[t] = <<>>
  /\ Len(OwnLog) + Len(queue) = PulseID
  /\ \A i \in 1 .. Len(OwnLog) : Numbered(OwnLog[i], i - 1)
  /\ \A i \in 1 .. Len(queue) : Numbered(queue[i], Len(OwnLog) + i - 1)

CleanStream ==
  clean => IF gen = "streaming" THEN InOrder ELSE \A t \in Topics : log[t] = <<>>

CleanInv == StreamInv /\ CleanStream

LEMMA CleanInitial == Init => CleanInv
  BY StreamInitial DEF CleanInv, CleanStream, Init

LEMMA OwnLogTyped ==
  ASSUME StreamInv, gen = "streaming"
  PROVE  /\ gcfg.topic \in Topics
         /\ OwnLog \in Seq(StreamMessages) /\ Len(OwnLog) \in Nat
         /\ queue \in Seq(StreamMessages) /\ Len(queue) \in Nat
<1>1. gcfg.topic \in Topics
  BY ConfigurationsName DEF StreamInv, Configured
<1>2. QED
  BY <1>1 DEF StreamInv, StreamTyped, OwnLog

LEMMA GeneratorStartsClean ==
  ASSUME CleanInv, StartGenerator
  PROVE  CleanStream'
<1> SUFFICES ASSUME clean' PROVE CleanStream'
  BY DEF CleanStream
<1>1. gen # "streaming" /\ UNCHANGED <<PulseID, queue, log, clean>>
  BY DEF StartGenerator
<1>2. queue = <<>> /\ PulseID = 0 /\ \A t \in Topics : log[t] = <<>>
  BY <1>1 DEF CleanInv, CleanStream, StreamInv, Configured
<1>3. CASE gen' # "streaming"
  BY <1>1, <1>2, <1>3 DEF CleanStream
<1>4. CASE gen' = "streaming"
  <2>1. gcfg'.topic \in Topics
    BY <1>4, StreamKept, ConfigurationsName DEF CleanInv, Next, StreamInv, Configured
  <2>2. OwnLog' = <<>> /\ queue' = <<>> /\ PulseID' = 0
    BY <1>1, <1>2, <2>1 DEF OwnLog
  <2>3. \A t \in Topics : log'[t] = <<>>
    BY <1>1, <1>2
  <2>4. InOrder'
    BY <2>2, <2>3 DEF InOrder
  <2>5. QED
    BY <1>4, <2>4 DEF CleanStream
<1>5. QED
  BY <1>3, <1>4

LEMMA PulseStaysClean ==
  ASSUME CleanInv, Pulse
  PROVE  CleanStream'
<1> SUFFICES ASSUME clean' PROVE InOrder'
  BY DEF CleanStream, Pulse
<1> DEFINE m == Serialise(gcfg.source_name, PulseID, Data(gcfg))
<1>1. /\ gen = "streaming" /\ clean
      /\ queue' = Append(queue, m) /\ PulseID' = PulseID + 1
      /\ UNCHANGED <<gcfg, log>>
  BY DEF Pulse
<1>2. InOrder
  BY <1>1 DEF CleanInv, CleanStream
<1>3. /\ OwnLog' = OwnLog /\ Len(OwnLog) \in Nat
      /\ queue \in Seq(StreamMessages) /\ Len(queue) \in Nat
  BY <1>1, OwnLogTyped DEF CleanInv, OwnLog
<1>4. Numbered(m, PulseID) /\ PulseID = Len(OwnLog) + Len(queue)
  BY <1>2, SerialiseIs DEF Numbered, InOrder
<1> HIDE DEF m
<1>5. \A m1, id : Numbered(m1, id)' = Numbered(m1, id)
  BY <1>1 DEF Numbered
<1>6. Len(queue') = Len(queue) + 1 /\ queue'[Len(queue) + 1] = m
      /\ \A i \in 1 .. Len(queue) : queue'[i] = queue[i]
  BY <1>1, <1>3
<1>7. ASSUME NEW i \in 1 .. Len(queue')
      PROVE  Numbered(queue'[i], Len(OwnLog) + i - 1)
  <2>1. CASE i = Len(queue) + 1
    <3>1. Len(OwnLog) + i - 1 = PulseID /\ queue'[i] = m
      BY <1>3, <1>4, <1>6, <2>1
    <3>2. QED
      BY <1>4, <3>1
  <2>2. CASE i # Len(queue) + 1
    <3>1. i \in 1 .. Len(queue)
      BY <1>3, <1>6, <2>2
    <3>2. QED
      BY <1>2, <1>6, <3>1 DEF InOrder
  <2>3. QED
    BY <2>1, <2>2
<1>8. Len(OwnLog') + Len(queue') = PulseID'
  BY <1>1, <1>3, <1>4, <1>6
<1>9. QED
  BY <1>1, <1>2, <1>3, <1>7, <1>8 DEF InOrder, Numbered, OwnLog

LEMMA FirstRemoved ==
  ASSUME NEW S, NEW s \in Seq(S), s # <<>>
  PROVE  RemoveAt(s, 1) = Tail(s)
<1>1. SubSeq(s, 1, 1 - 1) = <<>>
  OBVIOUS
<1>2. SubSeq(s, 1 + 1, Len(s)) = Tail(s) /\ Tail(s) \in Seq(S)
  OBVIOUS
<1>3. <<>> \o Tail(s) = Tail(s)
  BY <1>2
<1>4. RemoveAt(s, 1) = SubSeq(s, 1, 1 - 1) \o SubSeq(s, 1 + 1, Len(s))
  BY DEF RemoveAt
<1>5. QED
  BY <1>1, <1>2, <1>3, <1>4

LEMMA StoreStaysClean ==
  ASSUME CleanInv, NEW i \in DOMAIN queue, Store(i)
  PROVE  CleanStream'
<1> SUFFICES ASSUME clean' PROVE InOrder'
  BY StoredGrows DEF CleanInv, CleanStream, Store
<1>1. /\ gen = "streaming" /\ clean /\ i = 1
      /\ log' = [log EXCEPT ![gcfg.topic] = Append(@, queue[1])]
      /\ queue' = RemoveAt(queue, 1)
      /\ UNCHANGED <<gcfg, PulseID>>
  BY StoredGrows DEF CleanInv, Store
<1>2. InOrder
  BY <1>1 DEF CleanInv, CleanStream
<1>3. /\ gcfg.topic \in Topics /\ OwnLog \in Seq(StreamMessages) /\ Len(OwnLog) \in Nat
      /\ queue \in Seq(StreamMessages) /\ Len(queue) \in Nat /\ queue # <<>>
      /\ Len(queue) > 0
  BY <1>1, OwnLogTyped DEF CleanInv
<1>4. queue' = Tail(queue)
  <2>1. queue \in Seq(StreamMessages) /\ queue # <<>>
    BY <1>3
  <2>2. RemoveAt(queue, 1) = Tail(queue)
    BY <2>1, FirstRemoved
  <2>3. QED
    BY <1>1, <2>2
<1>5. Len(queue') = Len(queue) - 1 /\ \A j \in 1 .. Len(queue') : queue'[j] = queue[j + 1]
  BY <1>3, <1>4
<1>6. /\ OwnLog' = Append(OwnLog, queue[1])
      /\ \A t \in Topics \ {gcfg.topic} : log'[t] = log[t]
  BY <1>1, <1>3 DEF OwnLog, CleanInv, StreamInv, StreamTyped
<1>7. /\ Len(OwnLog') = Len(OwnLog) + 1 /\ OwnLog'[Len(OwnLog) + 1] = queue[1]
      /\ \A j \in 1 .. Len(OwnLog) : OwnLog'[j] = OwnLog[j]
  BY <1>3, <1>6
<1>8. Numbered(queue[1], Len(OwnLog))
  <2>1. 1 \in 1 .. Len(queue) /\ Len(OwnLog) + 1 - 1 = Len(OwnLog)
    BY <1>3
  <2>2. QED
    BY <1>2, <2>1 DEF InOrder
<1>9. ASSUME NEW j \in 1 .. Len(OwnLog')
      PROVE  Numbered(OwnLog'[j], j - 1)
  <2>1. CASE j = Len(OwnLog) + 1
    <3>1. j - 1 = Len(OwnLog) /\ OwnLog'[j] = queue[1]
      BY <1>3, <1>7, <2>1
    <3>2. QED
      BY <1>8, <3>1
  <2>2. CASE j # Len(OwnLog) + 1
    <3>1. j \in 1 .. Len(OwnLog)
      BY <1>3, <1>7, <2>2
    <3>2. QED
      BY <1>2, <1>7, <3>1 DEF InOrder
  <2>3. QED
    BY <2>1, <2>2
<1>10. ASSUME NEW j \in 1 .. Len(queue')
       PROVE  Numbered(queue'[j], Len(OwnLog') + j - 1)
  <2>1. j + 1 \in 1 .. Len(queue) /\ queue'[j] = queue[j + 1]
        /\ Len(OwnLog') + j - 1 = Len(OwnLog) + (j + 1) - 1
    BY <1>3, <1>5, <1>7
  <2>2. QED
    BY <1>2, <2>1 DEF InOrder
<1>11. Len(OwnLog') + Len(queue') = PulseID'
  <2>1. Len(OwnLog) + Len(queue) = PulseID' /\ Len(queue) \in Nat /\ Len(OwnLog) \in Nat
    BY <1>1, <1>2, <1>3 DEF InOrder
  <2>2. Len(OwnLog') = Len(OwnLog) + 1 /\ Len(queue') = Len(queue) - 1
    BY <1>5, <1>7
  <2>3. QED
    BY <2>1, <2>2
<1>12. \A t \in Topics \ {gcfg'.topic} : log'[t] = <<>>
  BY <1>1, <1>2, <1>6 DEF InOrder
<1>13. QED
  BY <1>1, <1>9, <1>10, <1>11, <1>12 DEF InOrder, Numbered

LEMMA CleanKept == CleanInv /\ [Next]_vars => CleanInv'
<1> SUFFICES ASSUME CleanInv, [Next]_vars PROVE CleanStream'
  BY StreamKept DEF CleanInv
<1>1. ASSUME UNCHANGED <<gen, gcfg, PulseID, queue, log>>, clean' => clean
      PROVE  CleanStream'
  BY <1>1 DEF CleanInv, CleanStream, InOrder, OwnLog, Numbered
<1>2. CASE Command \/ StartListener \/ Consume \/ UNCHANGED vars
  BY <1>1, <1>2 DEF Command, StartListener, Consume, vars, genVars
<1>3. ASSUME NEW i \in DOMAIN queue, Lose(i) PROVE CleanStream'
  BY <1>3 DEF Lose, CleanStream
<1>4. ASSUME NEW name \in Strangers, NEW topic \in Topics, Foreign(name, topic)
      PROVE  CleanStream'
  BY <1>4 DEF Foreign, CleanStream
<1>5. QED
  BY <1>2, <1>3, <1>4, GeneratorStartsClean, PulseStaysClean, StoreStaysClean DEF Next

(* Messages that are all there and in order have no break but the first.    *)
LEMMA OneBreakAtMost ==
  ASSUME CleanInv, clean, gen = "streaming", lis = "listening",
         lcfg.source_name = gcfg.source_name
  PROVE  Cardinality(Breaks) <= 1
<1>1. /\ lcfg.topic \in Topics /\ Len(log[lcfg.topic]) \in Nat
      /\ offset \in Nat /\ start \in Nat /\ offset <= Len(log[lcfg.topic])
  BY ConfigurationsName DEF CleanInv, StreamInv, TypeOK, StreamTyped, Configured
<1>2. InOrder
  BY DEF CleanInv, CleanStream
<1>3. ASSUME NEW i \in Span, i # start + 1 PROVE ~Break(i)
  <2>1. i \in 1 .. Len(log[lcfg.topic]) /\ i - 1 \in 1 .. Len(log[lcfg.topic])
    BY <1>1, <1>3 DEF Span
  <2>2. lcfg.topic = gcfg.topic
    BY <1>1, <1>2, <2>1 DEF InOrder
  <2>3. Numbered(Heard(i), i - 1) /\ Numbered(Heard(i - 1), i - 1 - 1)
    BY <1>2, <2>1, <2>2 DEF InOrder, OwnLog, Heard
  <2>4. ~IsForeign(i) /\ ~IsForeign(i - 1)
    BY <2>3 DEF Numbered, IsForeign
  <2>5. Heard(i).message_id = Heard(i - 1).message_id + 1
    BY <1>1, <2>1, <2>3 DEF Numbered
  <2>6. QED
    BY <1>3, <2>4, <2>5 DEF Break
<1>4. Breaks \subseteq {start + 1}
  BY <1>3 DEF Breaks
<1>5. IsFiniteSet({start + 1}) /\ Cardinality({start + 1}) = 1
  BY FS_Singleton
<1>6. Cardinality(Breaks) <= Cardinality({start + 1})
  BY <1>4, <1>5, FS_Subset
<1>7. QED
  BY <1>5, <1>6

(* Whenever a listener joins and however long it listens, it reports no     *)
(* losses as long as all that the generator has numbered is in its topic,   *)
(* in order (generator.hpp:101-187).                                        *)
THEOREM CleanStreamsLoseNothing == Spec => []CleanStreamLosesNothing
<1>1. LossInv /\ CleanInv => CleanStreamLosesNothing
  <2> SUFFICES ASSUME LossInv, CleanInv, clean, gen = "streaming", lis = "listening",
                      lcfg.source_name = gcfg.source_name
               PROVE  reported + MessagesLost <= 0
    BY DEF CleanStreamLosesNothing
  <2>1. reported + MessagesLost + 1 <= Cardinality(Breaks) /\ Cardinality(Breaks) \in Nat
    BY BreaksAreFinite DEF LossInv, Counted
  <2>2. Cardinality(Breaks) <= 1
    BY OneBreakAtMost
  <2>3. reported \in Int /\ MessagesLost \in Int
    BY DEF CleanInv, StreamInv, TypeOK, StreamTyped
  <2>4. QED
    BY <2>1, <2>2, <2>3
<1>2. QED
  BY <1>1, LossInitial, LossKept, CleanInitial, CleanKept, PTL DEF Spec

-----------------------------------------------------------------------------
(* The events themselves.                                                   *)

Cells == [row : Int, tof : Int, count : Nat]

LEMMA RepeatTyped ==
  ASSUME NEW x \in Int, NEW n \in Nat
  PROVE  Repeat(x, n) \in Seq(Int) /\ Len(Repeat(x, n)) = n
  BY DEF Repeat

(* There are as many times as detectors, whatever the histogram.            *)
LEMMA AsManyTimes ==
  ASSUME NEW h \in Seq(Cells)
  PROVE  /\ Times(h) \in Seq(Int) /\ Detectors(h) \in Seq(Int)
         /\ Len(Times(h)) = Len(Detectors(h))
<1> DEFINE times == [c \in DOMAIN h |-> Repeat(h[c].tof, h[c].count)]
           rows == [c \in DOMAIN h |-> Repeat(h[c].row, h[c].count)]
           n == Len(h)
<1>1. n \in Nat /\ DOMAIN h = 1 .. n
  OBVIOUS
<1>2. ASSUME NEW i \in 1 .. n
      PROVE  times[i] \in Seq(Int) /\ rows[i] \in Seq(Int) /\ Len(times[i]) = Len(rows[i])
  <2>1. h[i] \in Cells
    BY <1>1
  <2>2. h[i].tof \in Int /\ h[i].row \in Int /\ h[i].count \in Nat
    BY <2>1 DEF Cells
  <2>3. times[i] = Repeat(h[i].tof, h[i].count) /\ rows[i] = Repeat(h[i].row, h[i].count)
    BY <1>1
  <2>4. /\ Repeat(h[i].tof, h[i].count) \in Seq(Int)
        /\ Len(Repeat(h[i].tof, h[i].count)) = h[i].count
    BY <2>2, RepeatTyped, Zenon
  <2>5. /\ Repeat(h[i].row, h[i].count) \in Seq(Int)
        /\ Len(Repeat(h[i].row, h[i].count)) = h[i].count
    BY <2>2, RepeatTyped, Zenon
  <2> HIDE DEF times, rows
  <2>6. QED
    BY <2>3, <2>4, <2>5, Zenon
<1>3. Len(times) = n /\ Len(rows) = n
  BY <1>1
<1>4. n = 0 => times = <<>> /\ rows = <<>>
  BY <1>1
<1>5. Times(h) = FlattenSeq(times) /\ Detectors(h) = FlattenSeq(rows)
  BY DEF Times, Detectors
<1> HIDE DEF times, rows, n
<1>6. \A i \in 1 .. n :
        times[i] \in Seq(Int) /\ rows[i] \in Seq(Int) /\ Len(times[i]) = Len(rows[i])
  BY <1>2
<1>7. AsLong(Int, n, times, rows)
  BY <1>3, <1>4, <1>6 DEF AsLong
<1>8. /\ FlattenSeq(times) \in Seq(Int) /\ FlattenSeq(rows) \in Seq(Int)
      /\ Len(FlattenSeq(times)) = Len(FlattenSeq(rows))
  BY <1>1, <1>7, FlattenedLengths
<1>9. QED
  BY <1>5, <1>8

LEMMA TogetherAt ==
  ASSUME NEW S, NEW a \in Seq(S), NEW b \in Seq(S), Len(a) = Len(b), NEW e \in 1 .. Len(a)
  PROVE  (a \o b)[e] = a[e] /\ (a \o b)[Len(a) + e] = b[e]
<1>1. e \in Nat /\ Len(a) \in Nat /\ e \in 1 .. Len(b)
  OBVIOUS
<1>2. (a \o b)[e] = a[e]
  OBVIOUS
<1>3. (a \o b)[Len(a) + e] = b[e]
  BY <1>1
<1>4. QED
  BY <1>2, <1>3

LEMMA TimesThenDetectors ==
  ASSUME NEW h \in Seq(Cells), NEW e \in 1 .. Len(Times(h))
  PROVE  /\ ToEventFmt(h)[e] = Times(h)[e]
         /\ ToEventFmt(h)[Len(Times(h)) + e] = Detectors(h)[e]
<1> DEFINE t == Times(h)
           d == Detectors(h)
<1>1. t \in Seq(Int) /\ d \in Seq(Int) /\ Len(t) = Len(d) /\ e \in 1 .. Len(t)
  BY AsManyTimes, Zenon
<1>2. ToEventFmt(h) = t \o d
  BY DEF ToEventFmt
<1> HIDE DEF t, d
<1>3. (t \o d)[e] = t[e] /\ (t \o d)[Len(t) + e] = d[e]
  BY <1>1, TogetherAt
<1>4. QED
  BY <1>2, <1>3 DEF t, d

(* A source that is not replicated is resized, and that is all.             *)
LEMMA DataAreResized ==
  ASSUME NEW c \in Configurations, CanStream(c)
  PROVE  Data(c) = Resized(ToEventFmt(Histogram[c.source]), c.bytes \div 4)
<1> DEFINE x == ToEventFmt(Histogram[c.source])
<1>1. c.multiplier = 1 /\ c.bytes > 0
  <2>1. c.bytes \in Nat \ {0} /\ c.multiplier \in Nat \ {0} /\ ~ c.multiplier > 1
    BY ConfigurationsName DEF CanStream
  <2>2. QED
    BY <2>1
<1> HIDE DEF x
<1>2. Len(Repeat(x, 1)) = 1 /\ Repeat(x, 1)[1] = x
  BY DEF Repeat
<1>3. Replicated(x, 1) = x
  BY <1>2, FlattenOne DEF Replicated
<1>4. QED
  BY <1>1, <1>3 DEF Data, x

(* Whatever file and command line ask for, what a generator streams is its  *)
(* source once, cut or filled up to the size: the repetitions that          *)
(* README.md:70 promises are refused without a size by validate() and with  *)
(* one by main() (Configuration.cxx:303, AMORgenerator.cxx:34-37).          *)
THEOREM SourceIsNotReplicated ==
  Spec => [](gen = "streaming" =>
               /\ gcfg.multiplier = 1
               /\ Data(gcfg) = Resized(ToEventFmt(Histogram[gcfg.source]),
                                       gcfg.bytes \div 4))
<1> DEFINE Once ==
      gen = "streaming" =>
        /\ gcfg.multiplier = 1
        /\ Data(gcfg) = Resized(ToEventFmt(Histogram[gcfg.source]),
                                gcfg.bytes \div 4)
<1>1. StreamInv => Once
  <2> SUFFICES ASSUME StreamInv, gen = "streaming" PROVE Once
    OBVIOUS
  <2>1. gcfg \in Configurations /\ CanStream(gcfg)
    BY DEF StreamInv, Configured
  <2>2. gcfg.multiplier = 1
    <3>1. gcfg.bytes > 0 /\ gcfg.multiplier \in Nat \ {0} /\ ~ gcfg.multiplier > 1
      BY <2>1, ConfigurationsName DEF CanStream
    <3>2. QED
      BY <3>1
  <2>3. QED
    BY <2>1, <2>2, DataAreResized
<1>2. QED
  BY <1>1, StreamInitial, StreamKept, PTL DEF Spec

LEMMA EventsAreHalves ==
  ASSUME NEW h \in Seq(Cells)
  PROVE  /\ ToEventFmt(h) \in Seq(Int) /\ Len(Times(h)) \in Nat
         /\ Len(ToEventFmt(h)) = 2 * Len(Times(h))
<1> DEFINE t == Times(h)
           d == Detectors(h)
<1>1. t \in Seq(Int) /\ d \in Seq(Int) /\ Len(t) = Len(d)
  BY AsManyTimes, Zenon
<1>2. ToEventFmt(h) = t \o d
  BY DEF ToEventFmt
<1> HIDE DEF t, d
<1>3. t \o d \in Seq(Int) /\ Len(t \o d) = Len(t) + Len(d)
  BY <1>1, Together, Zenon
<1>4. Len(t) \in Nat /\ Len(t \o d) = 2 * Len(t)
  BY <1>1, <1>3
<1>5. ToEventFmt(h) \in Seq(Int) /\ Len(ToEventFmt(h)) = 2 * Len(t)
  BY <1>2, <1>3, <1>4, Zenon
<1>6. QED
  BY <1>4, <1>5 DEF t

(* Two elements of four bytes to an event of eight.                         *)
LEMMA FourOfEight ==
  ASSUME NEW b \in Nat, NEW k \in Nat, b \div 8 = k
  PROVE  b \div 4 \in {2 * k, 2 * k + 1}
<1>1. 8 * k <= b /\ b < 8 * k + 8
  OBVIOUS
<1>2. QED
  BY <1>1

LEMMA SameElements ==
  ASSUME NEW a \in Seq(Int), NEW b \in Seq(Int), Len(a) = Len(b),
         \A i \in 1 .. Len(a) : a[i] = b[i]
  PROVE  a = b
<1> DEFINE n == Len(a)
<1>1. a \in [1 .. n -> Int] /\ b \in [1 .. n -> Int]
  OBVIOUS
<1>2. \A i \in 1 .. n : a[i] = b[i]
  OBVIOUS
<1> HIDE DEF n
<1>3. a = [i \in 1 .. n |-> a[i]] /\ b = [i \in 1 .. n |-> b[i]]
  BY <1>1
<1>4. QED
  BY <1>2, <1>3

(* A sequence of two halves, and a size of as many elements or one more.    *)
Halving(x, k, l) ==
  x \in Seq(Int) /\ k \in Nat /\ Len(x) = 2 * k /\ l \in {2 * k, 2 * k + 1}

(* Resizing to the size it has, or to one element more, halving and         *)
(* extracting leave a sequence as it is.                                    *)
LEMMA HalvesMeet ==
  ASSUME NEW x, NEW k, NEW l, Halving(x, k, l), NEW name, NEW id
  PROVE  Extract(Serialise(name, id, Resized(x, l))) = x
<1> DEFINE data == Resized(x, l)
           first == SubSeq(data, 1, k)
           second == SubSeq(data, k + 1, 2 * k)
<1> SUFFICES ASSUME x \in Seq(Int), k \in Nat, Len(x) = 2 * k, l \in {2 * k, 2 * k + 1}
             PROVE  Extract(Serialise(name, id, data)) = x
  BY DEF Halving
<1>1. /\ data \in Seq(Int) /\ Len(data) = l
      /\ \A i \in 1 .. 2 * k : data[i] = x[i]
  BY DEF Resized
<1>2. l \div 2 = k
  OBVIOUS
<1>3. Extract(Serialise(name, id, data)) = first \o second
  <2> HIDE DEF data
  <2>1. QED
    BY <1>1, <1>2 DEF Extract, Serialise
<1> HIDE DEF data
<1>4. first \in Seq(Int) /\ Len(first) = k /\ \A i \in 1 .. k : first[i] = data[i]
  BY <1>1
<1>5. second \in Seq(Int) /\ Len(second) = k /\ \A i \in 1 .. k : second[i] = data[k + i]
  BY <1>1
<1> HIDE DEF first, second
<1>6. first \o second \in Seq(Int) /\ Len(first \o second) = 2 * k
  <2>1. first \o second \in Seq(Int) /\ Len(first \o second) = Len(first) + Len(second)
    BY <1>4, <1>5, Together, Zenon
  <2>2. QED
    BY <1>4, <1>5, <2>1
<1>7. ASSUME NEW i \in 1 .. 2 * k PROVE (first \o second)[i] = x[i]
  <2>1. \/ i \in 1 .. k /\ (first \o second)[i] = first[i]
        \/ i - k \in 1 .. k /\ (first \o second)[i] = second[i - k]
    <3>1. i \in 1 .. Len(first \o second)
      BY <1>6
    <3>2. \/ i \in 1 .. Len(first) /\ (first \o second)[i] = first[i]
          \/ /\ i - Len(first) \in 1 .. Len(second)
             /\ (first \o second)[i] = second[i - Len(first)]
      <4>1. first \in Seq(Int) /\ second \in Seq(Int)
        BY <1>4, <1>5
      <4>2. QED
        BY <3>1, <4>1
    <3>3. QED
      BY <1>4, <1>5, <3>2, Zenon
  <2>2. CASE i \in 1 .. k /\ (first \o second)[i] = first[i]
    BY <1>1, <1>4, <2>2
  <2>3. CASE i - k \in 1 .. k /\ (first \o second)[i] = second[i - k]
    <3>1. second[i - k] = data[k + (i - k)]
      BY <1>5, <2>3
    <3>2. k + (i - k) = i
      OBVIOUS
    <3>3. QED
      BY <1>1, <2>3, <3>1, <3>2
  <2>4. QED
    BY <2>1, <2>2, <2>3
<1>8. first \o second = x
  <2> DEFINE y == first \o second
  <2>1. y \in Seq(Int) /\ Len(y) = Len(x)
    BY <1>6
  <2>2. \A i \in 1 .. Len(y) : y[i] = x[i]
    BY <1>6, <1>7
  <2> HIDE DEF y
  <2>3. y = x
    BY <2>1, <2>2, SameElements
  <2>4. QED
    BY <2>3 DEF y
<1>9. QED
  BY <1>3, <1>8

(* What is on its way or stored was written by others or by the generator   *)
(* as it is configured now.                                                 *)
Sent ==
  StrangersMessages \cup
    (IF gen = "streaming"
     THEN {Serialise(gcfg.source_name, id, Data(gcfg)) : id \in 0 .. MaxPulse - 1}
     ELSE {})

Origin == queue \in Seq(Sent) /\ log \in [Topics -> Seq(Sent)]

(* The listener holds the events of the message it heard last.              *)
HoldsTheLast ==
  lis = "listening" /\ offset > start => Events = Extract(Heard(offset))

ArrivalInv == StreamInv /\ Origin /\ HoldsTheLast

LEMMA ArrivalInitial == Init => ArrivalInv
<1> SUFFICES ASSUME Init PROVE Origin /\ HoldsTheLast
  BY StreamInitial DEF ArrivalInv
<1>1. <<>> \in Seq(Sent)
  OBVIOUS
<1>2. QED
  BY <1>1 DEF Init, Origin, HoldsTheLast

LEMMA AppendedTyped ==
  ASSUME NEW S, NEW T, NEW l \in [S -> Seq(T)], NEW t \in S, NEW m \in T
  PROVE  [l EXCEPT ![t] = Append(@, m)] \in [S -> Seq(T)]
<1>1. Append(l[t], m) \in Seq(T)
  OBVIOUS
<1>2. QED
  BY <1>1

LEMMA MoreSequences ==
  ASSUME NEW S, NEW T, S \subseteq T, NEW I, NEW l \in [I -> Seq(S)]
  PROVE  l \in [I -> Seq(T)]
<1>1. ASSUME NEW s \in Seq(S) PROVE s \in Seq(T)
  BY <1>1
<1>2. QED
  BY <1>1

LEMMA OriginKept == ArrivalInv /\ [Next]_vars => Origin'
<1> SUFFICES ASSUME ArrivalInv, [Next]_vars PROVE Origin'
  OBVIOUS
<1>1. Origin /\ StreamInv
  BY DEF ArrivalInv
<1>2. ASSUME UNCHANGED <<gen, gcfg>> PROVE Sent' = Sent
  BY <1>2 DEF Sent
<1>3. CASE Command \/ StartListener \/ Consume \/ UNCHANGED vars
  <2>1. UNCHANGED <<gen, gcfg, queue, log>>
    BY <1>3 DEF Command, StartListener, Consume, vars, genVars
  <2>2. QED
    BY <1>1, <1>2, <2>1 DEF Origin
<1>4. CASE StartGenerator
  <2>1. gen = "off" /\ queue' = queue /\ log' = log
    BY <1>4 DEF StartGenerator
  <2>2. Sent = StrangersMessages
    BY <2>1 DEF Sent
  <2>3. StrangersMessages \subseteq Sent'
    BY DEF Sent, StrangersMessages
  <2>4. queue = <<>>
    BY <1>1, <2>1 DEF StreamInv, Configured
  <2>5. queue' \in Seq(Sent')
    BY <2>1, <2>4
  <2>6. log' \in [Topics -> Seq(Sent')]
    BY <1>1, <2>1, <2>2, <2>3, MoreSequences DEF Origin
  <2>7. QED
    BY <2>5, <2>6 DEF Origin
<1>5. CASE Pulse
  <2>1. /\ gen = "streaming" /\ UNCHANGED <<gen, gcfg, log>> /\ PulseID < MaxPulse
        /\ queue' \in
             {queue, Append(queue, Serialise(gcfg.source_name, PulseID, Data(gcfg)))}
    BY <1>5 DEF Pulse
  <2>2. PulseID \in 0 .. MaxPulse - 1
    BY <1>1, <2>1, Bounds DEF StreamInv, TypeOK
  <2>3. Serialise(gcfg.source_name, PulseID, Data(gcfg)) \in Sent
    BY <2>1, <2>2 DEF Sent
  <2>4. queue' \in Seq(Sent)
    BY <1>1, <2>1, <2>3 DEF Origin
  <2>5. QED
    BY <1>1, <1>2, <2>1, <2>4 DEF Origin
<1>6. ASSUME NEW i \in DOMAIN queue, Store(i) PROVE Origin'
  <2>1. queue[i] \in Sent /\ UNCHANGED <<gen, gcfg>>
    BY <1>1, <1>6 DEF Origin, Store
  <2>2. gcfg.topic \in Topics
    BY <1>1, ConfigurationsName DEF StreamInv, Configured
  <2>3. log' \in [Topics -> Seq(Sent)]
    BY <1>1, <1>6, <2>1, <2>2, AppendedTyped DEF Origin, Store
  <2>4. queue' \in Seq(Sent)
    BY <1>1, <1>6, RemoveAtTyped DEF Origin, Store
  <2>5. QED
    BY <1>2, <2>1, <2>3, <2>4 DEF Origin
<1>7. ASSUME NEW i \in DOMAIN queue, Lose(i) PROVE Origin'
  <2>1. queue' \in Seq(Sent) /\ UNCHANGED <<gen, gcfg, log>>
    BY <1>1, <1>7, RemoveAtTyped DEF Origin, Lose
  <2>2. QED
    BY <1>1, <1>2, <2>1 DEF Origin
<1>8. ASSUME NEW name \in Strangers, NEW topic \in Topics, Foreign(name, topic)
      PROVE  Origin'
  <2>1. Serialise(name, 0, <<>>) \in Sent
    BY DEF Sent, StrangersMessages
  <2>2. UNCHANGED <<gen, gcfg, queue>>
    BY <1>8 DEF Foreign, genVars
  <2>3. log' \in [Topics -> Seq(Sent)]
    BY <1>1, <1>8, <2>1, AppendedTyped DEF Origin, Foreign
  <2>4. QED
    BY <1>1, <1>2, <2>2, <2>3 DEF Origin
<1>9. QED
  BY <1>3, <1>4, <1>5, <1>6, <1>7, <1>8 DEF Next

(* What it heard last stays what it was while the topic grows.              *)
LEMMA HeldKept == ArrivalInv /\ [Next]_vars => HoldsTheLast'
<1> SUFFICES ASSUME ArrivalInv, [Next]_vars, lis' = "listening", offset' > start'
             PROVE  Events' = Extract(Heard(offset)')
  BY DEF HoldsTheLast
<1>1. StreamInv /\ HoldsTheLast
  BY DEF ArrivalInv
<1>2. ASSUME UNCHANGED lisVars, LogGrows PROVE Events' = Extract(Heard(offset)')
  <2>1. /\ lcfg.topic \in Topics /\ offset \in Nat /\ offset >= 1
        /\ offset <= Len(log[lcfg.topic]) /\ Len(log[lcfg.topic]) \in Nat
    BY <1>1, <1>2, ConfigurationsName
       DEF lisVars, StreamInv, StreamTyped, TypeOK, Configured
  <2>2. offset \in 1 .. Len(log[lcfg.topic])
    BY <2>1
  <2>3. log'[lcfg.topic][offset] = log[lcfg.topic][offset]
    BY <1>2, <2>1, <2>2 DEF LogGrows
  <2>4. QED
    BY <1>1, <1>2, <2>3 DEF lisVars, HoldsTheLast, Heard
<1>3. CASE StartGenerator \/ Command \/ Pulse \/ UNCHANGED vars
  <2>1. UNCHANGED lisVars /\ UNCHANGED log
    BY <1>3 DEF StartGenerator, Command, Pulse, vars
  <2>2. QED
    BY <1>1, <1>2, <2>1, UnchangedGrows DEF StreamInv
<1>4. ASSUME NEW i \in DOMAIN queue, Store(i) PROVE Events' = Extract(Heard(offset)')
  BY <1>1, <1>2, <1>4, StoredGrows DEF Store
<1>5. ASSUME NEW i \in DOMAIN queue, Lose(i) PROVE Events' = Extract(Heard(offset)')
  BY <1>1, <1>2, <1>5, UnchangedGrows DEF Lose, StreamInv
<1>6. ASSUME NEW name \in Strangers, NEW topic \in Topics, Foreign(name, topic)
      PROVE  Events' = Extract(Heard(offset)')
  BY <1>1, <1>2, <1>6, ForeignGrows DEF Foreign
<1>7. CASE StartListener
  <2>1. offset' = start'
    BY <1>7 DEF StartListener
  <2>2. QED
    BY <1>1, <1>7, <2>1, StreamKept DEF StreamInv, TypeOK, StreamTyped
<1>8. CASE Consume
  BY <1>8 DEF Consume, Heard
<1>9. QED
  BY <1>3, <1>4, <1>5, <1>6, <1>7, <1>8 DEF Next

LEMMA ArrivalKept == ArrivalInv /\ [Next]_vars => ArrivalInv'
  BY StreamKept, OriginKept, HeldKept DEF ArrivalInv

(* The events of a source arrive as they are, whatever the histogram, when  *)
(* bytes is the size of its events (nexus_reader.hpp:195-219,               *)
(* serialiser.hpp:21-39, generator.hpp:152-187).                            *)
THEOREM SourceEventsArrive == Spec => []EventsArrive
<1>1. ArrivalInv => EventsArrive
  <2> DEFINE h == Histogram[gcfg.source]
             k == Len(Times(h))
             x == ToEventFmt(h)
  <2> SUFFICES ASSUME ArrivalInv, lis = "listening", offset > start,
                      gen = "streaming", lcfg.topic = gcfg.topic,
                      Heard(offset).source = gcfg.source_name,
                      gcfg.bytes \div 8 = k
               PROVE  Events = x
    BY DEF EventsArrive
  <2>1. gcfg \in Configurations /\ CanStream(gcfg) /\ lcfg.topic \in Topics
    BY ConfigurationsName DEF ArrivalInv, StreamInv, Configured
  <2>2. gcfg.source_name \notin Strangers
    BY <2>1, StrangersAssumption DEF Configurations
  <2>3. offset \in 1 .. Len(log[lcfg.topic])
    BY <2>1 DEF ArrivalInv, StreamInv, StreamTyped, TypeOK
  <2>4. Heard(offset) \in Sent
    BY <2>1, <2>3 DEF ArrivalInv, Origin, Heard
  <2>5. PICK id : Heard(offset) = Serialise(gcfg.source_name, id, Data(gcfg))
    <3>1. Heard(offset) \notin StrangersMessages
      <4>1. ASSUME NEW n \in Strangers PROVE Heard(offset) # Serialise(n, 0, <<>>)
        BY <2>2, SerialiseIs
      <4>2. QED
        BY <4>1 DEF StrangersMessages
    <3>2. QED
      BY <2>4, <3>1 DEF Sent
  <2>6. Events = Extract(Serialise(gcfg.source_name, id, Data(gcfg)))
    BY <2>5 DEF ArrivalInv, HoldsTheLast
  <2>7. h \in Seq(Cells)
    BY <2>1, StreamAssumption DEF CanStream, Cells
  <2>8. x \in Seq(Int) /\ k \in Nat /\ Len(x) = 2 * k
    <3> HIDE DEF h
    <3>1. QED
      BY <2>7, EventsAreHalves, Zenon
  <2>9. gcfg.bytes \div 4 \in {2 * k, 2 * k + 1}
    <3>1. gcfg.bytes \in Nat
      BY <2>1, ConfigurationsName
    <3> HIDE DEF k, h
    <3>2. QED
      BY <2>8, <3>1, FourOfEight, Zenon
  <2>10. Data(gcfg) = Resized(x, gcfg.bytes \div 4)
    BY <2>1, DataAreResized
  <2> HIDE DEF x, k, h
  <2>11. Halving(x, k, gcfg.bytes \div 4)
    BY <2>8, <2>9, Zenon DEF Halving
  <2>12. Extract(Serialise(gcfg.source_name, id, Resized(x, gcfg.bytes \div 4))) = x
    BY <2>11, HalvesMeet, Zenon
  <2>13. QED
    BY <2>6, <2>10, <2>12, Zenon
<1>2. QED
  BY <1>1, ArrivalInitial, ArrivalKept, PTL DEF Spec

-----------------------------------------------------------------------------
(* Which time belongs to which detector.                                    *)

(* The elements at e of s and t stand together in one of the sequences.     *)
FromOne(n, seqs, seqt, s, t, e) ==
  \E i \in 1 .. n : \E j \in 1 .. Len(seqs[i]) :
    s[e] = seqs[i][j] /\ t[e] = seqt[i][j]

Paired(n, seqs, seqt, s, t) ==
  \A e \in 1 .. Len(s) : FromOne(n, seqs, seqt, s, t, e)

LEMMA PairedTogether ==
  ASSUME NEW S, NEW n \in Nat, NEW seqs, NEW seqt, AsLong(S, n, seqs, seqt),
         NEW s \in Seq(S), NEW t \in Seq(S), Len(s) = Len(t),
         Paired(n, seqs, seqt, s, t), NEW k \in 1 .. n
  PROVE  Paired(n, seqs, seqt, s \o seqs[k], t \o seqt[k])
<1>1. seqs[k] \in Seq(S) /\ seqt[k] \in Seq(S) /\ Len(seqs[k]) = Len(seqt[k])
  BY DEF AsLong
<1> SUFFICES ASSUME NEW e \in 1 .. Len(s \o seqs[k])
             PROVE  FromOne(n, seqs, seqt, s \o seqs[k], t \o seqt[k], e)
  BY DEF Paired
<1>2. Len(s \o seqs[k]) = Len(t \o seqt[k])
  <2>1. /\ Len(s \o seqs[k]) = Len(s) + Len(seqs[k])
        /\ Len(t \o seqt[k]) = Len(t) + Len(seqt[k])
    BY <1>1, Together, Zenon
  <2>2. QED
    BY <1>1, <2>1
<1>3. \/ e \in 1 .. Len(s) /\ (s \o seqs[k])[e] = s[e]
      \/ /\ e - Len(s) \in 1 .. Len(seqs[k]) /\ e \notin 1 .. Len(s)
         /\ (s \o seqs[k])[e] = seqs[k][e - Len(s)]
  <2> DEFINE u == seqs[k]
  <2>1. u \in Seq(S) /\ e \in 1 .. Len(s \o u)
    BY <1>1
  <2> HIDE DEF u
  <2>2. \/ e \in 1 .. Len(s) /\ (s \o u)[e] = s[e]
        \/ /\ e - Len(s) \in 1 .. Len(u) /\ e \notin 1 .. Len(s)
           /\ (s \o u)[e] = u[e - Len(s)]
    BY <2>1
  <2>3. QED
    BY <2>2 DEF u
<1>4. \/ e \in 1 .. Len(t) /\ (t \o seqt[k])[e] = t[e]
      \/ /\ e - Len(t) \in 1 .. Len(seqt[k]) /\ e \notin 1 .. Len(t)
         /\ (t \o seqt[k])[e] = seqt[k][e - Len(t)]
  <2> DEFINE u == seqt[k]
  <2>1. u \in Seq(S) /\ e \in 1 .. Len(t \o u)
    BY <1>1, <1>2
  <2> HIDE DEF u
  <2>2. \/ e \in 1 .. Len(t) /\ (t \o u)[e] = t[e]
        \/ /\ e - Len(t) \in 1 .. Len(u) /\ e \notin 1 .. Len(t)
           /\ (t \o u)[e] = u[e - Len(t)]
    BY <2>1
  <2>3. QED
    BY <2>2 DEF u
<1>5. CASE e \in 1 .. Len(s)
  <2>1. (s \o seqs[k])[e] = s[e] /\ (t \o seqt[k])[e] = t[e]
    BY <1>3, <1>4, <1>5
  <2>2. FromOne(n, seqs, seqt, s, t, e)
    BY <1>5 DEF Paired
  <2>3. QED
    BY <2>1, <2>2, Zenon DEF FromOne
<1>6. CASE e \notin 1 .. Len(s)
  <2>1. PICK j \in 1 .. Len(seqs[k]) : j = e - Len(s)
    BY <1>3, <1>6
  <2>2. (s \o seqs[k])[e] = seqs[k][j] /\ (t \o seqt[k])[e] = seqt[k][j]
    BY <1>3, <1>4, <1>6, <2>1
  <2>3. QED
    BY <2>2, Zenon DEF FromOne
<1>7. QED
  BY <1>5, <1>6

(* Whatever sequences are put one after the other, what stood together      *)
(* stands together afterwards.                                              *)
LEMMA FlattenedInPairs ==
  ASSUME NEW S, NEW n \in Nat, NEW seqs, NEW seqt, AsLong(S, n, seqs, seqt)
  PROVE  Paired(n, seqs, seqt, FlattenSeq(seqs), FlattenSeq(seqt))
<1>1. CASE n = 0
  <2>1. FlattenSeq(seqs) = <<>> /\ FlattenSeq(seqt) = <<>>
    BY <1>1 DEF FlattenSeq, AsLong
  <2>2. Paired(n, seqs, seqt, <<>>, <<>>)
    BY DEF Paired
  <2>3. QED
    BY <2>1, <2>2, Zenon
<1>2. CASE n # 0
  <2>0. n \in Nat \ {0}
    BY <1>2
  <2>1. PICK f : FlattenSeq(seqs) = f[n] /\ Grows(seqs, f, n)
    BY <2>0, FlattenSeqGrows, Zenon DEF AsLong
  <2>2. PICK g : FlattenSeq(seqt) = g[n] /\ Grows(seqt, g, n)
    BY <2>0, FlattenSeqGrows, Zenon DEF AsLong
  <2> DEFINE Alike(k) == /\ f[k] \in Seq(S) /\ g[k] \in Seq(S)
                         /\ Len(f[k]) = Len(g[k])
                         /\ Paired(n, seqs, seqt, f[k], g[k])
             A == {k \in 1 .. n : Alike(k)}
  <2>3. 1 \in A
    <3>1. 1 \in 1 .. n
      BY <1>2
    <3>2. seqs[1] \in Seq(S) /\ seqt[1] \in Seq(S) /\ Len(seqs[1]) = Len(seqt[1])
      BY <3>1 DEF AsLong
    <3>3. Paired(n, seqs, seqt, seqs[1], seqt[1])
      BY <3>1, Zenon DEF Paired, FromOne
    <3>4. Alike(1)
      BY <2>1, <2>2, <3>2, <3>3, Zenon DEF Grows
    <3>5. QED
      BY <3>1, <3>4
  <2>4. ASSUME NEW k \in 1 .. n, k \in A, k < n PROVE k + 1 \in A
    <3>1. k + 1 \in 1 .. n /\ k \in 1 .. n - 1
      BY <2>4
    <3>2. f[k + 1] = f[k] \o seqs[k + 1] /\ g[k + 1] = g[k] \o seqt[k + 1]
      BY <2>1, <2>2, <3>1, Zenon DEF Grows
    <3>3. Alike(k)
      BY <2>4
    <3>4. seqs[k + 1] \in Seq(S) /\ seqt[k + 1] \in Seq(S)
          /\ Len(seqs[k + 1]) = Len(seqt[k + 1])
      BY <3>1 DEF AsLong
    <3>5. f[k] \o seqs[k + 1] \in Seq(S) /\ g[k] \o seqt[k + 1] \in Seq(S)
      BY <3>3, <3>4, Together, Zenon
    <3>6. /\ Len(f[k] \o seqs[k + 1]) = Len(f[k]) + Len(seqs[k + 1])
          /\ Len(g[k] \o seqt[k + 1]) = Len(g[k]) + Len(seqt[k + 1])
      BY <3>3, <3>4, Together, Zenon
    <3>7. Paired(n, seqs, seqt, f[k] \o seqs[k + 1], g[k] \o seqt[k + 1])
      BY <3>1, <3>3, PairedTogether, Zenon
    <3>8. Alike(k + 1)
      BY <3>2, <3>3, <3>4, <3>5, <3>6, <3>7, Zenon
    <3>9. QED
      BY <3>1, <3>8
  <2>5. 1 .. n \subseteq A
    <3> HIDE DEF A
    <3>1. \A k \in 1 .. n : k \in A /\ k < n => k + 1 \in A
      BY <2>4
    <3>2. QED
      BY <2>3, <3>1, UpTo
  <2>6. Alike(n)
    <3>1. n \in 1 .. n
      BY <1>2
    <3>2. n \in A
      BY <2>5, <3>1
    <3>3. QED
      BY <3>2
  <2>7. QED
    BY <2>1, <2>2, <2>6, Zenon
<1>3. QED
  BY <1>1, <1>2

(* Time and detector at the same place are those of one cell that counted.  *)
OfACell(h, time, row) ==
  \E c \in DOMAIN h : h[c].count > 0 /\ h[c].tof = time /\ h[c].row = row

LEMMA RepeatedIs ==
  ASSUME NEW x, NEW n \in Nat
  PROVE  Len(Repeat(x, n)) = n /\ \A j \in 1 .. n : Repeat(x, n)[j] = x
  BY DEF Repeat

LEMMA TimesMeetDetectors ==
  ASSUME NEW h \in Seq(Cells), NEW e \in 1 .. Len(Times(h))
  PROVE  OfACell(h, Times(h)[e], Detectors(h)[e])
<1> DEFINE times == [c \in DOMAIN h |-> Repeat(h[c].tof, h[c].count)]
           rows == [c \in DOMAIN h |-> Repeat(h[c].row, h[c].count)]
           n == Len(h)
<1>1. n \in Nat /\ DOMAIN h = 1 .. n
  OBVIOUS
<1>2. \A i \in 1 .. n :
        /\ times[i] = Repeat(h[i].tof, h[i].count)
        /\ rows[i] = Repeat(h[i].row, h[i].count)
        /\ h[i].tof \in Int /\ h[i].row \in Int /\ h[i].count \in Nat
  <2> SUFFICES ASSUME NEW i \in 1 .. n
               PROVE  /\ times[i] = Repeat(h[i].tof, h[i].count)
                      /\ rows[i] = Repeat(h[i].row, h[i].count)
                      /\ h[i].tof \in Int /\ h[i].row \in Int /\ h[i].count \in Nat
    OBVIOUS
  <2>1. h[i] \in Cells
    BY <1>1
  <2>2. h[i].tof \in Int /\ h[i].row \in Int /\ h[i].count \in Nat
    BY <2>1 DEF Cells
  <2>3. QED
    BY <1>1, <2>2
<1>3. AsLong(Int, n, times, rows)
  <2>1. Len(times) = n /\ Len(rows) = n
    BY <1>1
  <2>2. n = 0 => times = <<>> /\ rows = <<>>
    BY <1>1
  <2> HIDE DEF times, rows, n
  <2>3. ASSUME NEW i \in 1 .. n
        PROVE  times[i] \in Seq(Int) /\ rows[i] \in Seq(Int) /\ Len(times[i]) = Len(rows[i])
    <3>1. /\ Repeat(h[i].tof, h[i].count) \in Seq(Int)
          /\ Len(Repeat(h[i].tof, h[i].count)) = h[i].count
      BY <1>2, RepeatTyped, Zenon
    <3>2. /\ Repeat(h[i].row, h[i].count) \in Seq(Int)
          /\ Len(Repeat(h[i].row, h[i].count)) = h[i].count
      BY <1>2, RepeatTyped, Zenon
    <3>3. QED
      BY <1>2, <3>1, <3>2, Zenon
  <2>4. QED
    BY <2>1, <2>2, <2>3, Zenon DEF AsLong
<1>4. Times(h) = FlattenSeq(times) /\ Detectors(h) = FlattenSeq(rows)
  BY DEF Times, Detectors
<1> HIDE DEF times, rows, n
<1>5. Paired(n, times, rows, Times(h), Detectors(h))
  BY <1>1, <1>3, <1>4, FlattenedInPairs, Zenon
<1>6. PICK i \in 1 .. n : \E j \in 1 .. Len(times[i]) :
        Times(h)[e] = times[i][j] /\ Detectors(h)[e] = rows[i][j]
  BY <1>5, Zenon DEF Paired, FromOne
<1>7. PICK j \in 1 .. Len(times[i]) :
        Times(h)[e] = times[i][j] /\ Detectors(h)[e] = rows[i][j]
  BY <1>6
<1>8. /\ Len(times[i]) = h[i].count /\ h[i].count > 0
      /\ times[i][j] = h[i].tof /\ rows[i][j] = h[i].row
  <2>1. times[i] = Repeat(h[i].tof, h[i].count) /\ rows[i] = Repeat(h[i].row, h[i].count)
        /\ h[i].count \in Nat
    BY <1>2
  <2>2. Len(Repeat(h[i].tof, h[i].count)) = h[i].count
    BY <2>1, RepeatedIs
  <2>3. j \in 1 .. h[i].count
    BY <2>1, <2>2
  <2>4. Repeat(h[i].tof, h[i].count)[j] = h[i].tof /\ Repeat(h[i].row, h[i].count)[j] = h[i].row
    BY <2>1, <2>3, RepeatedIs
  <2>5. h[i].count > 0
    BY <2>1, <2>3
  <2>6. QED
    BY <2>1, <2>2, <2>4, <2>5
<1>9. QED
  BY <1>1, <1>7, <1>8 DEF OfACell

(* The halves of data that are as long as the events, or an element longer. *)
LEMMA HalvesOfData ==
  ASSUME NEW x, NEW k, NEW l, Halving(x, k, l), NEW name, NEW id
  PROVE  LET m == Serialise(name, id, Resized(x, l)) IN
         /\ DOMAIN m.detector_id = 1 .. k
         /\ \A e \in 1 .. k : m.time_of_flight[e] = x[e] /\ m.detector_id[e] = x[k + e]
<1> USE DEF Halving
<1> DEFINE data == Resized(x, l)
<1>1. /\ data \in Seq(Int) /\ Len(data) = l
      /\ \A i \in 1 .. 2 * k : data[i] = x[i]
  BY DEF Resized
<1>2. l \div 2 = k
  OBVIOUS
<1> HIDE DEF data
<1>3. /\ Serialise(name, id, data).time_of_flight = SubSeq(data, 1, k)
      /\ Serialise(name, id, data).detector_id = SubSeq(data, k + 1, 2 * k)
  BY <1>1, <1>2 DEF Serialise
<1>4. \A e \in 1 .. k : SubSeq(data, 1, k)[e] = x[e]
  BY <1>1
<1>5. /\ DOMAIN SubSeq(data, k + 1, 2 * k) = 1 .. k
      /\ \A e \in 1 .. k : SubSeq(data, k + 1, 2 * k)[e] = x[k + e]
  BY <1>1
<1>6. QED
  BY <1>3, <1>4, <1>5 DEF data

(* When bytes is the size of the source's events, each message on its way   *)
(* to the broker has the time of each event at the place of its detector,   *)
(* whatever the histogram: the finding on EventsAreOfTheSource has no other *)
(* cause than a size that does not fit (nexus_reader.hpp:195-219,           *)
(* AMORgenerator.cxx:48-50, serialiser.hpp:21-39).                          *)
THEOREM FittingSizesPairUp ==
  Spec => [](/\ gen = "streaming"
             /\ gcfg.bytes \div 8 = Len(Times(Histogram[gcfg.source]))
             => EventsAreOfTheSource)
<1>1. ArrivalInv =>
        (/\ gen = "streaming"
         /\ gcfg.bytes \div 8 = Len(Times(Histogram[gcfg.source]))
         => EventsAreOfTheSource)
  <2> DEFINE h == Histogram[gcfg.source]
             k == Len(Times(h))
             x == ToEventFmt(h)
             l == gcfg.bytes \div 4
  <2> SUFFICES ASSUME ArrivalInv, gen = "streaming", gcfg.bytes \div 8 = k,
                      NEW i \in DOMAIN queue, NEW e \in DOMAIN queue[i].detector_id
               PROVE  OfACell(h, queue[i].time_of_flight[e], queue[i].detector_id[e])
    BY DEF EventsAreOfTheSource, OfACell
  <2>1. gcfg \in Configurations /\ CanStream(gcfg)
    BY DEF ArrivalInv, StreamInv, Configured
  <2>2. h \in Seq(Cells)
    BY <2>1, StreamAssumption DEF CanStream, Cells
  <2>3. Data(gcfg) = Resized(x, l)
    BY <2>1, DataAreResized
  <2>4. gcfg.bytes \in Nat
    BY <2>1, ConfigurationsName
  <2>5. queue[i] \in Sent
    BY DEF ArrivalInv, Origin
  <2>6. CASE queue[i] \in StrangersMessages
    <3>1. PICK n \in Strangers : queue[i] = Serialise(n, 0, <<>>)
      BY <2>6 DEF StrangersMessages
    <3>2. queue[i].detector_id = <<>>
      BY <3>1 DEF Serialise
    <3>3. QED
      BY <3>2
  <2>7. CASE queue[i] \notin StrangersMessages
    <3>1. PICK id : queue[i] = Serialise(gcfg.source_name, id, Data(gcfg))
      BY <2>5, <2>7 DEF Sent
    <3> HIDE DEF h, k, x, l
    <3>2. x \in Seq(Int) /\ k \in Nat /\ Len(x) = 2 * k
      BY <2>2, EventsAreHalves, Zenon DEF x, k
    <3>3. l \in {2 * k, 2 * k + 1}
      BY <2>4, <3>2, FourOfEight, Zenon DEF l
    <3>4. Halving(x, k, l)
      BY <3>2, <3>3, Zenon DEF Halving
    <3>5. queue[i] = Serialise(gcfg.source_name, id, Resized(x, l))
      BY <2>3, <3>1
    <3>6. /\ DOMAIN queue[i].detector_id = 1 .. k
          /\ \A y \in 1 .. k : /\ queue[i].time_of_flight[y] = x[y]
                               /\ queue[i].detector_id[y] = x[k + y]
      BY <3>4, <3>5, HalvesOfData
    <3>7. e \in 1 .. k
      BY <3>6
    <3>8. x[e] = Times(h)[e] /\ x[k + e] = Detectors(h)[e]
      BY <2>2, <3>7, TimesThenDetectors DEF x, k
    <3>9. OfACell(h, Times(h)[e], Detectors(h)[e])
      BY <2>2, <3>7, TimesMeetDetectors DEF k
    <3>10. QED
      BY <3>6, <3>7, <3>8, <3>9
  <2>8. QED
    BY <2>6, <2>7
<1>2. QED
  BY <1>1, ArrivalInitial, ArrivalKept, PTL DEF Spec

=============================================================================
