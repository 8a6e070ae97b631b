---------------------------- MODULE HPowerProofs ----------------------------
(***************************************************************************)
(* Theorems about the main program, for any command lines, files and       *)
(* architectures, and whatever the recursions of the power estimation      *)
(* find in a block: its types, that options are read as they are meant,    *)
(* that a placement which gets through is the one the file names, and      *)
(* that the estimate has each site of the architecture once.               *)
(***************************************************************************)
EXTENDS HPower, NaturalRecursion, FiniteSetTheorems, TLAPS
-----------------------------------------------------------------------------
(* The steps *)

\* Options are read in the first two phases only, and the other steps leave them alone.
LEMMA OptionSteps ==
  ASSUME [Next]_vars
  PROVE  /\ input' = input
         /\ \/ read_options
            \/ /\ UNCHANGED options
               /\ \/ main' = main
                  \/ main \notin {"start", "options"} \cup Ended /\ main' \notin {"start", "options"}
<1>. USE DEF options, placement, sites, estimate, Ended
<1>1. CASE read_options
  BY <1>1 DEF read_options, Usage, Start, ReadName, ReadOption, NoValue, ReadUnknown, NameFiles,
              NoCircuit, Stop
<1>2. CASE ReadPart
  BY <1>2 DEF ReadPart, After
<1>3. CASE build_place
  BY <1>3 DEF build_place, BadHeading, Heading, UnknownBlock, ShortLine, PlaceBlock, EndOfPlace,
              InPlace, Stop
<1>4. CASE NoGrid \/ InitArch
  BY <1>4 DEF NoGrid, InitArch, Stop
<1>5. CASE sync_grid_to_blocks
  BY <1>5 DEF sync_grid_to_blocks, BadLocation, SetBlock, Overrun, Synced, InSync, Stop
<1>6. CASE NoLibrary \/ read_power_lib
  BY <1>6 DEF NoLibrary, read_power_lib, Stop
<1>7. CASE power_complex_block
  BY <1>7 DEF power_complex_block, SkipTile, UnnamedTile, CountTile, PrintEstimate, InPower, Stop
<1>8. CASE UNCHANGED vars
  BY <1>8 DEF vars
<1>9. QED
  BY <1>1, <1>2, <1>3, <1>4, <1>5, <1>6, <1>7, <1>8 DEF Next

-----------------------------------------------------------------------------
(* The options *)

CommandWord == [dash : BOOLEAN, text : STRING]

\* The names and the options for a file among the words before k, of which os are the
\* options.
NamesBefore(words, os, k) == {p \in Plain(words, os) : p < k}
OptionsBefore(words, os, k, f) == {o \in os : o < k /\ OptionFile[words[o].text] = f}
LastOf(words, options_for) ==
  IF options_for # {} THEN Named(words[Max(options_for) + 1].text) ELSE NULL

\* The words before k were understood as os has them.
Understood(words, os, k, names) ==
  /\ \A o \in os : k # o + 1
  /\ \A j \in 1 .. 3 : names[NameOrder[j]] = NULL <=> j > Cardinality(NamesBefore(words, os, k))
  /\ \A p \in NamesBefore(words, os, k) : names[NameOrder[Rank(words, os, p)]] = Named(words[p].text)
  /\ \A f \in DOMAIN Endings : names[f] = LastOf(words, OptionsBefore(words, os, k, f))

ReadSoFar(os) ==
  /\ Understood(input.argv, os, arg_idx, file_names)
  /\ \A i \in arg_idx .. Len(argv) : argv[i] = input.argv[i]

\* What a reading says of the files.
FilesOf(names, words, os) ==
  LET For(f) == {o \in os : OptionFile[words[o].text] = f}
  IN /\ \A p \in Plain(words, os) : names[NameOrder[Rank(words, os, p)]] = Named(words[p].text)
     /\ \A f \in DOMAIN Endings :
          names[f] = IF For(f) # {} THEN Named(words[Max(For(f)) + 1].text)
                     ELSE [word |-> names.circuitName.word, ending |-> Endings[f]]

OptionsInv ==
  /\ input \in Inputs
  /\ argv \in Seq(CommandWord) /\ Len(argv) = Len(input.argv)
  /\ arg_idx \in 1 .. Len(argv) + 2
  /\ DOMAIN file_names = Files
  /\ main = "start" => argv = input.argv /\ arg_idx = 1 /\ file_names = [f \in Files |-> NULL]
  /\ main = "options" =>
       \A os \in Readings(input.argv) : Cardinality(Plain(input.argv, os)) = 3 => ReadSoFar(os)
  /\ OptionsUnderstood

LEMMA FileFacts ==
  /\ \A j \in 1 .. 3 : NameOrder[j] \in Files /\ NameOrder[j] \notin DOMAIN Endings
  /\ \A i, j \in 1 .. 3 : NameOrder[i] = NameOrder[j] => i = j
  /\ DOMAIN Endings \subseteq Files
  /\ \A text : Known(text) => OptionFile[text] \in DOMAIN Endings
  /\ \A word : Named(word) # NULL
<1>1. NameOrder[1] = "archFile" /\ NameOrder[2] = "circuitName" /\ NameOrder[3] = "libFile"
  BY DEF NameOrder
<1>2. DOMAIN Endings = {"blifFile", "actFile", "netFile", "placeFile", "routeFile"}
  BY DEF Endings
<1>3. \A j \in 1 .. 3 : j = 1 \/ j = 2 \/ j = 3
  OBVIOUS
<1>4. \A j \in 1 .. 3 : NameOrder[j] \in Files /\ NameOrder[j] \notin DOMAIN Endings
  BY <1>1, <1>2, <1>3 DEF Files
<1>5. \A i, j \in 1 .. 3 : NameOrder[i] = NameOrder[j] => i = j
  BY <1>1, <1>3
<1>6. \A text : Known(text) => OptionFile[text] \in DOMAIN Endings
  BY <1>2 DEF Known, OptionFile
<1>7. ASSUME NEW word PROVE Named(word) # NULL
  <2>1. DOMAIN Named(word) = {"word", "ending"} /\ DOMAIN NULL = {"ending"}
    BY DEF Named, NULL
  <2>2. QED
    BY <2>1
<1>8. QED
  BY <1>4, <1>5, <1>6, <1>7 DEF Files

\* The words of a command line, as a reading sees them.
LEMMA ReadingFacts ==
  ASSUME NEW words \in Seq(CommandWord), NEW os \in Readings(words)
  PROVE  /\ DOMAIN words = 1 .. Len(words) /\ Len(words) \in Nat
         /\ os \subseteq 1 .. Len(words)
         /\ \A o \in os : /\ words[o].dash /\ Known(words[o].text)
                          /\ o + 1 \in 1 .. Len(words) /\ o + 1 \notin os
         /\ \A i \in 1 .. Len(words) :
              i \in Plain(words, os) <=> i \notin os /\ \A o \in os : i # o + 1
         /\ Plain(words, os) \subseteq 1 .. Len(words)
         /\ \A p \in Plain(words, os) : ~words[p].dash
         /\ IsFiniteSet(Plain(words, os))
<1>1. DOMAIN words = 1 .. Len(words) /\ Len(words) \in Nat
  OBVIOUS
<1>2. Reading(words, os) /\ os \subseteq 1 .. Len(words)
  BY <1>1 DEF Readings
<1>3. \A o \in os : o + 1 \in 1 .. Len(words) /\ o + 1 \notin os
  BY <1>1, <1>2 DEF Reading
<1>4. IsFiniteSet(1 .. Len(words)) /\ Plain(words, os) \subseteq 1 .. Len(words)
  BY <1>1, FS_Interval DEF Plain
<1>5. QED
  BY <1>1, <1>2, <1>3, <1>4, FS_Subset DEF Reading, Plain

\* The places among the plain words.
LEMMA Ranks ==
  ASSUME NEW words \in Seq(CommandWord), NEW os \in Readings(words), NEW k \in Nat
  PROVE  /\ IsFiniteSet(NamesBefore(words, os, k))
         /\ Cardinality(NamesBefore(words, os, k)) \in Nat
         /\ NamesBefore(words, os, k) \subseteq Plain(words, os)
         /\ \A p \in Plain(words, os) : Rank(words, os, p) = Cardinality(NamesBefore(words, os, p + 1))
         /\ \A p \in NamesBefore(words, os, k) :
              Rank(words, os, p) \in 1 .. Cardinality(NamesBefore(words, os, k))
<1>. DEFINE B == NamesBefore(words, os, k)
<1>1. IsFiniteSet(Plain(words, os)) /\ Plain(words, os) \subseteq Nat
  BY ReadingFacts
<1>2. B \subseteq Plain(words, os) /\ IsFiniteSet(B) /\ Cardinality(B) \in Nat
  BY <1>1, FS_Subset, FS_CardinalityType DEF NamesBefore
<1>3. ASSUME NEW p \in Plain(words, os) PROVE Rank(words, os, p) = Cardinality(NamesBefore(words, os, p + 1))
  <2>1. {q \in Plain(words, os) : q <= p} = NamesBefore(words, os, p + 1)
    BY <1>1 DEF NamesBefore
  <2>2. QED
    BY <2>1 DEF Rank
<1>4. ASSUME NEW p \in B PROVE Rank(words, os, p) \in 1 .. Cardinality(B)
  <2>. DEFINE R == {r \in Plain(words, os) : r <= p}
  <2>1. R \subseteq B /\ p \in R
    BY <1>1 DEF NamesBefore
  <2>2. IsFiniteSet(R) /\ Cardinality(R) \in Nat /\ Cardinality(R) <= Cardinality(B)
    BY <1>2, <2>1, FS_Subset, FS_CardinalityType
  <2>3. Cardinality(R) # 0
    BY <2>1, <2>2, FS_EmptySet
  <2>4. QED
    BY <1>2, <2>2, <2>3 DEF Rank
<1>5. QED
  BY <1>2, <1>3, <1>4

\* Reading the next name.
LEMMA UnderstoodName ==
  ASSUME NEW words \in Seq(CommandWord), NEW os \in Readings(words), NEW names, DOMAIN names = Files,
         NEW p \in Plain(words, os), Understood(words, os, p, names),
         Cardinality(NamesBefore(words, os, p)) <= 2
  PROVE  Understood(words, os, p + 1,
           [names EXCEPT ![NameOrder[Cardinality(NamesBefore(words, os, p)) + 1]] = Named(words[p].text)])
<1>. DEFINE c == Cardinality(NamesBefore(words, os, p))
            new == [names EXCEPT ![NameOrder[c + 1]] = Named(words[p].text)]
<1>1. /\ os \subseteq Nat /\ p \in Nat /\ p \notin os /\ Plain(words, os) \subseteq Nat
  BY ReadingFacts
<1>2. c \in Nat /\ c + 1 \in 1 .. 3 /\ IsFiniteSet(NamesBefore(words, os, p))
  <2>1. c \in Nat /\ IsFiniteSet(NamesBefore(words, os, p))
    BY <1>1, Ranks
  <2>2. c <= 2
    OBVIOUS
  <2>. HIDE DEF c
  <2>3. QED
    BY <2>1, <2>2
<1>3. NamesBefore(words, os, p + 1) = NamesBefore(words, os, p) \cup {p} /\ p \notin NamesBefore(words, os, p)
  BY <1>1 DEF NamesBefore
<1>4. Cardinality(NamesBefore(words, os, p + 1)) = c + 1
  BY <1>2, <1>3, FS_AddElement
<1>5. Rank(words, os, p) = c + 1
  BY <1>1, <1>4, Ranks
<1>6. \A q \in NamesBefore(words, os, p) : Rank(words, os, q) \in 1 .. c
  BY <1>1, Ranks
<1>7. \A f : OptionsBefore(words, os, p + 1, f) = OptionsBefore(words, os, p, f)
  <2>1. \A o \in os : o < p + 1 <=> o < p
    BY <1>1
  <2>2. QED
    BY <2>1 DEF OptionsBefore
<1>. HIDE DEF c
<1>8. /\ \A j \in 1 .. 3 : new[NameOrder[j]] = IF j = c + 1 THEN Named(words[p].text) ELSE names[NameOrder[j]]
      /\ \A f \in DOMAIN Endings : new[f] = names[f]
  BY <1>2, FileFacts
<1>. HIDE DEF new
<1>9. \A o \in os : p + 1 # o + 1
  BY <1>1
<1>10. \A j \in 1 .. 3 : new[NameOrder[j]] = NULL <=> j > c + 1
  <2>1. \A j \in 1 .. 3 : names[NameOrder[j]] = NULL <=> j > c
    BY DEF Understood, c
  <2>2. QED
    BY <1>2, <1>8, <2>1, FileFacts
<1>11. ASSUME NEW q \in NamesBefore(words, os, p + 1) PROVE new[NameOrder[Rank(words, os, q)]] = Named(words[q].text)
  <2>1. CASE q = p
    BY <1>2, <1>5, <1>8, <2>1
  <2>2. CASE q \in NamesBefore(words, os, p)
    <3>1. Rank(words, os, q) \in 1 .. 3 /\ Rank(words, os, q) # c + 1
      BY <1>2, <1>6, <2>2
    <3>2. names[NameOrder[Rank(words, os, q)]] = Named(words[q].text)
      BY <2>2 DEF Understood
    <3>3. QED
      BY <1>8, <3>1, <3>2
  <2>3. QED
    BY <1>3, <2>1, <2>2
<1>12. \A f \in DOMAIN Endings : new[f] = LastOf(words, OptionsBefore(words, os, p + 1, f))
  BY <1>7, <1>8 DEF Understood
<1>13. Understood(words, os, p + 1, new)
  BY <1>4, <1>9, <1>10, <1>11, <1>12 DEF Understood
<1>14. QED
  BY <1>13 DEF new, c

\* Reading the next option with its value.
LEMMA UnderstoodOption ==
  ASSUME NEW words \in Seq(CommandWord), NEW os \in Readings(words), NEW names, DOMAIN names = Files,
         NEW p \in os, Understood(words, os, p, names),
         Cardinality(Plain(words, os)) = 3
  PROVE  Understood(words, os, p + 2,
           [names EXCEPT ![OptionFile[words[p].text]] = Named(words[p + 1].text)])
<1>. DEFINE file == OptionFile[words[p].text]
            new == [names EXCEPT ![file] = Named(words[p + 1].text)]
<1>1. /\ os \subseteq Nat /\ Plain(words, os) \subseteq Nat /\ p \in Nat /\ Known(words[p].text)
      /\ p + 1 \notin os /\ p \notin Plain(words, os) /\ IsFiniteSet(Plain(words, os))
  BY ReadingFacts
<1>2. p + 1 \notin Plain(words, os)
  BY ReadingFacts
<1>3. NamesBefore(words, os, p + 2) = NamesBefore(words, os, p)
  <2>1. \A q \in Plain(words, os) : q < p + 2 <=> q < p
    <3>1. ASSUME NEW q \in Plain(words, os) PROVE q < p + 2 <=> q < p
      <4>1. q \in Nat /\ q # p /\ q # p + 1
        BY <1>1, <1>2
      <4>2. QED
        BY <1>1, <4>1
    <3>2. QED
      BY <3>1
  <2>2. QED
    BY <2>1 DEF NamesBefore
<1>4. ASSUME NEW o \in os PROVE o < p + 2 <=> o < p \/ o = p
  <2>1. o \in Nat /\ o # p + 1
    BY <1>1
  <2>2. QED
    BY <1>1, <2>1
<1>5. OptionsBefore(words, os, p + 2, file) = OptionsBefore(words, os, p, file) \cup {p}
  BY <1>4 DEF OptionsBefore
<1>6. \A f : f # file => OptionsBefore(words, os, p + 2, f) = OptionsBefore(words, os, p, f)
  BY <1>4 DEF OptionsBefore
<1>7. Max(OptionsBefore(words, os, p + 2, file)) = p
  <2>. DEFINE S == OptionsBefore(words, os, p + 2, file)
  <2>1. p \in S
    BY <1>5
  <2>2. ASSUME NEW o \in S PROVE o \in Nat /\ p >= o
    <3>1. o \in os /\ o < p + 2
      BY <2>2 DEF OptionsBefore
    <3>2. QED
      BY <1>1, <1>4, <3>1
  <2>. HIDE DEF S
  <2>3. Max(S) \in S /\ \A o \in S : Max(S) >= o
    BY <2>1, <2>2 DEF Max
  <2>4. Max(S) >= p /\ p >= Max(S) /\ Max(S) \in Nat
    BY <2>1, <2>2, <2>3
  <2>5. QED
    BY <1>1, <2>4 DEF S
<1>8. file \in DOMAIN Endings /\ file \in DOMAIN names
  BY <1>1, FileFacts
<1>. HIDE DEF file
<1>9. /\ \A j \in 1 .. 3 : new[NameOrder[j]] = names[NameOrder[j]]
      /\ \A f \in DOMAIN Endings : new[f] = IF f = file THEN Named(words[p + 1].text) ELSE names[f]
  BY <1>8, FileFacts
<1>. HIDE DEF new
<1>10. \A o \in os : p + 2 # o + 1
  <2>1. ASSUME NEW o \in os PROVE p + 2 # o + 1
    <3>1. o \in Nat /\ o # p + 1
      BY <1>1
    <3>2. QED
      BY <1>1, <3>1
  <2>2. QED
    BY <2>1
<1>11. \A j \in 1 .. 3 : new[NameOrder[j]] = NULL <=> j > Cardinality(NamesBefore(words, os, p + 2))
  BY <1>3, <1>9 DEF Understood
<1>12. ASSUME NEW q \in NamesBefore(words, os, p + 2)
       PROVE  new[NameOrder[Rank(words, os, q)]] = Named(words[q].text)
  <2>1. Rank(words, os, q) \in 1 .. Cardinality(NamesBefore(words, os, p))
    BY <1>1, <1>3, Ranks
  <2>2. NamesBefore(words, os, p) \subseteq Plain(words, os)
    BY <1>1, Ranks
  <2>3. Cardinality(NamesBefore(words, os, p)) \in Nat /\ Cardinality(NamesBefore(words, os, p)) <= 3
    BY <1>1, <2>2, FS_Subset, FS_CardinalityType
  <2>4. Rank(words, os, q) \in 1 .. 3
    BY <2>1, <2>3
  <2>5. QED
    BY <1>3, <1>9, <2>4 DEF Understood
<1>13. ASSUME NEW f \in DOMAIN Endings PROVE new[f] = LastOf(words, OptionsBefore(words, os, p + 2, f))
  <2>1. CASE f = file
    <3>1. OptionsBefore(words, os, p + 2, file) # {}
      BY <1>5
    <3>2. QED
      BY <1>7, <1>9, <2>1, <3>1 DEF LastOf
  <2>2. CASE f # file
    BY <1>6, <1>9, <2>2 DEF Understood
  <2>3. QED
    BY <2>1, <2>2
<1>14. Understood(words, os, p + 2, new)
  BY <1>10, <1>11, <1>12, <1>13 DEF Understood
<1>15. QED
  BY <1>14 DEF new, file

\* The word at hand begins an option, or is a name that is still wanted.
LEMMA WordAtHand ==
  ASSUME OptionsInv, InOptions, NEW os \in Readings(input.argv),
         Cardinality(Plain(input.argv, os)) = 3
  PROVE  LET words == input.argv
             c == Cardinality(NamesBefore(words, os, arg_idx))
         IN /\ words \in Seq(CommandWord)
            /\ ReadSoFar(os)
            /\ arg_idx \in 1 .. Len(words) /\ Len(argv) = Len(words) /\ DOMAIN argv = 1 .. Len(words)
            /\ Word = words[arg_idx]
            /\ Word.dash => arg_idx \in os /\ Known(Word.text)
            /\ ~Word.dash => /\ arg_idx \in Plain(words, os) /\ IsName
                             /\ c <= 2 /\ Min(Missing) = c + 1
<1>. DEFINE words == input.argv
            names == NamesBefore(words, os, arg_idx)
            c == Cardinality(names)
<1>1. words \in Seq(CommandWord)
  BY InputsAssumption DEF OptionsInv, CommandWord
<1>2. arg_idx \in 1 .. Len(words) /\ Len(argv) = Len(words) /\ DOMAIN argv = 1 .. Len(words)
  BY DEF OptionsInv, InOptions
<1>3. ReadSoFar(os)
  BY DEF OptionsInv, InOptions
<1>. HIDE DEF words
<1>4. Word = words[arg_idx] /\ \A o \in os : arg_idx # o + 1
  BY <1>2, <1>3 DEF ReadSoFar, Understood, Word, words
<1>5. os \in Readings(words) /\ Cardinality(Plain(words, os)) = 3
  BY DEF words
<1>6. IsFiniteSet(Plain(words, os))
  BY <1>1, <1>5, ReadingFacts
<1>7. names \subseteq Plain(words, os) /\ c \in Nat
  BY <1>1, <1>2, <1>5, Ranks
<1>8. Word.dash => arg_idx \in os /\ Known(Word.text)
  BY <1>1, <1>2, <1>4, <1>5, ReadingFacts
<1>9. ASSUME ~Word.dash
      PROVE  arg_idx \in Plain(words, os) /\ IsName /\ c <= 2 /\ Min(Missing) = c + 1
  <2>1. arg_idx \in Plain(words, os)
    BY <1>1, <1>2, <1>4, <1>5, <1>9, ReadingFacts
  <2>2. Cardinality(Plain(words, os) \ {arg_idx}) = 2 /\ IsFiniteSet(Plain(words, os) \ {arg_idx})
    BY <1>5, <1>6, <2>1, FS_RemoveElement
  <2>3. names \subseteq Plain(words, os) \ {arg_idx}
    BY <1>2, <1>7 DEF NamesBefore
  <2>4. c <= 2
    BY <2>2, <2>3, FS_Subset
  <2>5. \A j \in 1 .. 3 : file_names[NameOrder[j]] = NULL <=> j > c
    BY <1>3 DEF ReadSoFar, Understood, words
  <2>. HIDE DEF c
  <2>6. Missing = {j \in 1 .. 3 : j > c}
    BY <2>5 DEF Missing
  <2>7. c + 1 \in Missing /\ \A j \in Missing : c + 1 <= j
    BY <1>7, <2>4, <2>6
  <2>8. Min(Missing) = c + 1
    <3>1. Min(Missing) \in Missing /\ \A j \in Missing : Min(Missing) <= j
      BY <2>7 DEF Min
    <3>2. Min(Missing) \in Int /\ c \in Nat
      BY <1>7, <2>6, <3>1
    <3>3. QED
      BY <2>7, <3>1, <3>2
  <2>9. IsName
    BY <1>9, <2>7 DEF IsName
  <2>10. QED
    BY <2>1, <2>4, <2>8, <2>9
<1>10. QED
  BY <1>1, <1>2, <1>3, <1>4, <1>8, <1>9 DEF words

LEMMA ReadNameSoFar ==
  ASSUME OptionsInv, ReadName, NEW os \in Readings(input.argv),
         Cardinality(Plain(input.argv, os)) = 3
  PROVE  ReadSoFar(os)'
<1>. DEFINE words == input.argv
            c == Cardinality(NamesBefore(words, os, arg_idx))
<1>1. /\ input' = input /\ argv' = argv /\ arg_idx' = arg_idx + 1 /\ InOptions /\ IsName
      /\ file_names' = [file_names EXCEPT ![NameOrder[Min(Missing)]] = Named(Word.text)]
  BY DEF ReadName
<1>2. /\ words \in Seq(CommandWord) /\ ReadSoFar(os) /\ arg_idx \in 1 .. Len(words)
      /\ Word = words[arg_idx]
      /\ ~Word.dash => arg_idx \in Plain(words, os) /\ c <= 2 /\ Min(Missing) = c + 1
  BY <1>1, WordAtHand
<1>3. arg_idx \in Plain(words, os) /\ c <= 2 /\ Min(Missing) = c + 1
  BY <1>1, <1>2 DEF IsName
<1>4. file_names' = [file_names EXCEPT ![NameOrder[c + 1]] = Named(words[arg_idx].text)]
  BY <1>1, <1>2, <1>3
<1>5. Understood(words, os, arg_idx, file_names) /\ DOMAIN file_names = Files
  BY <1>2 DEF ReadSoFar, OptionsInv
<1>6. Understood(words, os, arg_idx + 1, file_names')
  BY <1>2, <1>3, <1>4, <1>5, UnderstoodName
<1>7. \A i \in arg_idx + 1 .. Len(argv) : argv[i] = words[i]
  BY <1>2 DEF ReadSoFar
<1>8. QED
  BY <1>1, <1>6, <1>7 DEF ReadSoFar

LEMMA ReadOptionSoFar ==
  ASSUME OptionsInv, ReadOption, NEW os \in Readings(input.argv),
         Cardinality(Plain(input.argv, os)) = 3
  PROVE  ReadSoFar(os)'
<1>. DEFINE words == input.argv
<1>1. /\ input' = input /\ arg_idx' = arg_idx + 2 /\ InOptions /\ ~IsName /\ arg_idx + 1 \in DOMAIN argv
      /\ argv' = [argv EXCEPT ![arg_idx].dash = FALSE]
      /\ file_names' = [file_names EXCEPT ![OptionFile[Word.text]] = Named(argv[arg_idx + 1].text)]
  BY DEF ReadOption, AfterValue
<1>2. /\ words \in Seq(CommandWord) /\ ReadSoFar(os) /\ arg_idx \in 1 .. Len(words)
      /\ Word = words[arg_idx] /\ DOMAIN argv = 1 .. Len(words) /\ Len(argv) = Len(words) /\ arg_idx \in os
  BY <1>1, WordAtHand
<1>3. \A i \in arg_idx .. Len(argv) : argv[i] = words[i]
  BY <1>2 DEF ReadSoFar
<1>4. file_names' = [file_names EXCEPT ![OptionFile[words[arg_idx].text]] = Named(words[arg_idx + 1].text)]
  <2>1. arg_idx \in Nat /\ arg_idx + 1 \in arg_idx .. Len(argv)
    BY <1>1, <1>2
  <2>2. argv[arg_idx + 1] = words[arg_idx + 1]
    BY <1>3, <2>1
  <2>3. QED
    BY <1>1, <1>2, <2>2
<1>5. Understood(words, os, arg_idx, file_names) /\ DOMAIN file_names = Files
  BY <1>2 DEF ReadSoFar, OptionsInv
<1>6. Understood(words, os, arg_idx + 2, file_names')
  BY <1>2, <1>4, <1>5, UnderstoodOption
<1>7. Len(argv') = Len(argv) /\ \A i \in 1 .. Len(argv) : i # arg_idx => argv'[i] = argv[i]
  BY <1>1, <1>2 DEF OptionsInv
<1>8. \A i \in arg_idx + 2 .. Len(argv) : argv'[i] = words[i]
  BY <1>2, <1>3, <1>7
<1>9. QED
  BY <1>1, <1>6, <1>7, <1>8 DEF ReadSoFar

\* The missing files get their names when all words were read.
LEMMA NamesGiven ==
  ASSUME OptionsInv, NameFiles
  PROVE  OptionsUnderstood'
<1>. SUFFICES ASSUME NEW os \in Readings(input.argv), Cardinality(Plain(input.argv, os)) = 3
              PROVE  FilesOf(file_names', input.argv, os)
  <2>1. \A os \in Readings(input'.argv) :
          Cardinality(Plain(input'.argv, os)) = 3 => FilesOf(file_names', input'.argv, os)
    BY DEF NameFiles
  <2>2. QED
    BY <2>1 DEF OptionsUnderstood, FilesOf
<1>. DEFINE words == input.argv
            For(f) == {o \in os : OptionFile[words[o].text] = f}
<1>1. words \in Seq(CommandWord) /\ Understood(words, os, arg_idx, file_names)
  BY InputsAssumption DEF NameFiles, OptionsInv, CommandWord, ReadSoFar
<1>2. Len(argv) = Len(words) /\ arg_idx \in {Len(words) + 1, Len(words) + 2}
  BY DEF NameFiles, OptionsInv
<1>3. file_names' = [f \in Files |-> IF f \in DOMAIN Endings /\ file_names[f] = NULL
                       THEN [word |-> file_names.circuitName.word, ending |-> Endings[f]] ELSE file_names[f]]
  BY DEF NameFiles, Derived
<1>. HIDE DEF words
<1>4. os \in Readings(words) /\ Cardinality(Plain(words, os)) = 3
  BY DEF words
<1>5. /\ os \subseteq 1 .. Len(words) /\ Plain(words, os) \subseteq 1 .. Len(words) /\ Len(words) \in Nat
  BY <1>1, <1>4, ReadingFacts
<1>6. NamesBefore(words, os, arg_idx) = Plain(words, os)
  BY <1>2, <1>5 DEF NamesBefore
<1>7. ASSUME NEW f PROVE OptionsBefore(words, os, arg_idx, f) = For(f)
  <2>1. \A o \in os : o < arg_idx
    BY <1>2, <1>5
  <2>2. QED
    BY <2>1 DEF OptionsBefore
<1>8. \A f \in DOMAIN Endings : file_names[f] = LastOf(words, For(f))
  BY <1>1, <1>7 DEF Understood
<1>9. \A j \in 1 .. 3 : file_names'[NameOrder[j]] = file_names[NameOrder[j]]
  BY <1>3, FileFacts
<1>10. ASSUME NEW p \in Plain(words, os)
       PROVE  file_names'[NameOrder[Rank(words, os, p)]] = Named(words[p].text)
  <2>1. arg_idx \in Nat
    BY <1>2, <1>5
  <2>2. Rank(words, os, p) \in 1 .. Cardinality(NamesBefore(words, os, arg_idx))
    BY <1>1, <1>4, <1>6, <2>1, Ranks
  <2>3. Rank(words, os, p) \in 1 .. 3
    BY <1>4, <1>6, <2>2
  <2>4. file_names[NameOrder[Rank(words, os, p)]] = Named(words[p].text)
    BY <1>1, <1>6 DEF Understood
  <2>5. QED
    BY <1>9, <2>3, <2>4
<1>11. file_names'.circuitName = file_names.circuitName
  <2>1. NameOrder[2] = "circuitName"
    BY DEF NameOrder
  <2>2. QED
    BY <1>9, <2>1
<1>. HIDE DEF For
<1>12. ASSUME NEW f \in DOMAIN Endings
       PROVE  file_names'[f] = IF For(f) # {} THEN Named(words[Max(For(f)) + 1].text)
                               ELSE [word |-> file_names'.circuitName.word, ending |-> Endings[f]]
  <2>1. f \in Files
    BY FileFacts
  <2>2. file_names'[f] = IF file_names[f] = NULL
                         THEN [word |-> file_names'.circuitName.word, ending |-> Endings[f]] ELSE file_names[f]
    BY <1>3, <1>11, <2>1
  <2>3. QED
    BY <1>8, <2>2, FileFacts DEF LastOf
<1>13. /\ \A p \in Plain(words, os) : file_names'[NameOrder[Rank(words, os, p)]] = Named(words[p].text)
       /\ \A f \in DOMAIN Endings :
            file_names'[f] = IF For(f) # {} THEN Named(words[Max(For(f)) + 1].text)
                             ELSE [word |-> file_names'.circuitName.word, ending |-> Endings[f]]
  BY <1>10, <1>12
<1>14. QED
  BY <1>13 DEF FilesOf, For, words

LEMMA OptionsStart ==
  ASSUME Init
  PROVE  OptionsInv
<1>1. input \in Inputs /\ argv = input.argv /\ arg_idx = 1 /\ main = "start" /\ file_names = [f \in Files |-> NULL]
  BY DEF Init
<1>2. argv \in Seq(CommandWord)
  BY <1>1, InputsAssumption DEF CommandWord
<1>3. Len(argv) \in Nat
  BY <1>2
<1>4. OptionsUnderstood
  BY <1>1 DEF OptionsUnderstood
<1>5. QED
  BY <1>1, <1>2, <1>3, <1>4 DEF OptionsInv

\* Before the first word nothing was read.
LEMMA FirstWord ==
  ASSUME OptionsInv, main = "start", NEW os \in Readings(input.argv)
  PROVE  ReadSoFar(os)
<1>. DEFINE words == input.argv
<1>1. words \in Seq(CommandWord)
  BY InputsAssumption DEF OptionsInv, CommandWord
<1>2. argv = words /\ arg_idx = 1 /\ file_names = [f \in Files |-> NULL]
  BY DEF OptionsInv
<1>. HIDE DEF words
<1>3. os \in Readings(words)
  BY DEF words
<1>4. os \subseteq Nat \ {0} /\ Plain(words, os) \subseteq Nat \ {0}
  BY <1>1, <1>3, ReadingFacts
<1>5. NamesBefore(words, os, 1) = {} /\ \A f : OptionsBefore(words, os, 1, f) = {}
  <2>1. /\ \A p \in Plain(words, os) : ~(p < 1)
        /\ \A o \in os : ~(o < 1)
    BY <1>4
  <2>2. QED
    BY <2>1 DEF NamesBefore, OptionsBefore
<1>6. Cardinality(NamesBefore(words, os, 1)) = 0
  BY <1>5, FS_EmptySet
<1>7. \A o \in os : 1 # o + 1
  BY <1>4
<1>8. \A j \in 1 .. 3 : file_names[NameOrder[j]] = NULL
  BY <1>2, FileFacts
<1>9. \A f \in DOMAIN Endings : file_names[f] = NULL
  BY <1>2, FileFacts
<1>10. \A j \in 1 .. 3 : j > 0
  OBVIOUS
<1>11. Understood(words, os, 1, file_names)
  BY <1>5, <1>6, <1>7, <1>8, <1>9, <1>10 DEF Understood, LastOf
<1>12. QED
  BY <1>2, <1>11 DEF ReadSoFar, words

\* What is said of the files is not about the other variables.
LEMMA OptionsKept ==
  ASSUME OptionsInv, input' = input, UNCHANGED options,
         \/ main' = main
         \/ main \notin {"start", "options"} \cup Ended /\ main' \notin {"start", "options"}
  PROVE  OptionsInv'
<1>1. ASSUME NEW os, ReadSoFar(os) PROVE ReadSoFar(os)'
  BY <1>1 DEF ReadSoFar, options
<1>2. main \notin {"start", "options"} \cup Ended =>
        \A os \in Readings(input.argv) :
          Cardinality(Plain(input.argv, os)) = 3 => FilesOf(file_names, input.argv, os)
  BY DEF OptionsUnderstood, OptionsInv, FilesOf
<1>3. OptionsUnderstood'
  <2>1. file_names' = file_names
    BY DEF options
  <2>2. main' \notin {"start", "options"} \cup Ended =>
          \A os \in Readings(input.argv) :
            Cardinality(Plain(input.argv, os)) = 3 => FilesOf(file_names', input'.argv, os)
    BY <1>2, <2>1
  <2>3. QED
    BY <2>2 DEF OptionsUnderstood, FilesOf
<1>4. main' = "options" => main = "options"
  OBVIOUS
<1>5. QED
  BY <1>1, <1>3, <1>4 DEF OptionsInv, options

\* An end says nothing of the files.
LEMMA OptionsStop ==
  ASSUME OptionsInv, input' = input, UNCHANGED options, main' \in Ended
  PROVE  OptionsInv'
<1>1. OptionsUnderstood'
  BY DEF OptionsUnderstood, Ended
<1>2. main' # "start" /\ main' # "options"
  BY DEF Ended
<1>3. QED
  BY <1>1, <1>2 DEF OptionsInv, options

LEMMA WithoutDash ==
  ASSUME NEW words \in Seq(CommandWord), NEW i \in DOMAIN words
  PROVE  /\ [words EXCEPT ![i].dash = FALSE] \in Seq(CommandWord)
         /\ Len([words EXCEPT ![i].dash = FALSE]) = Len(words)
<1>1. words[i] \in CommandWord
  OBVIOUS
<1>2. [words[i] EXCEPT !.dash = FALSE] \in CommandWord
  BY <1>1 DEF CommandWord
<1>3. \A word \in CommandWord : /\ [words EXCEPT ![i] = word] \in Seq(CommandWord)
                                /\ Len([words EXCEPT ![i] = word]) = Len(words)
  OBVIOUS
<1>4. [words EXCEPT ![i].dash = FALSE] = [words EXCEPT ![i] = [words[i] EXCEPT !.dash = FALSE]]
  OBVIOUS
<1>5. QED
  BY <1>2, <1>3, <1>4

LEMMA OptionsStep ==
  ASSUME OptionsInv, [Next]_vars
  PROVE  OptionsInv'
<1>1. input' = input /\ input \in Inputs
  BY OptionSteps DEF OptionsInv
<1>2. CASE Usage \/ NoCircuit
  <2>1. UNCHANGED options /\ main' \in Ended
    BY <1>2 DEF Usage, NoCircuit, Stop, Ended
  <2>2. QED
    BY <1>1, <2>1, OptionsStop
<1>3. CASE Start
  <2>1. main = "start" /\ main' = "options" /\ UNCHANGED options
    BY <1>3 DEF Start
  <2>2. ASSUME NEW os \in Readings(input.argv) PROVE ReadSoFar(os)'
    <3>1. ReadSoFar(os)
      BY <2>1, FirstWord
    <3>2. QED
      BY <1>1, <2>1, <3>1 DEF ReadSoFar, options
  <2>3. OptionsUnderstood'
    BY <2>1 DEF OptionsUnderstood
  <2>4. QED
    BY <1>1, <2>1, <2>2, <2>3 DEF OptionsInv, options
<1>4. CASE ReadName
  <2>1. /\ main = "options" /\ main' = main /\ argv' = argv /\ arg_idx' = arg_idx + 1 /\ arg_idx \in DOMAIN argv
        /\ file_names' = [file_names EXCEPT ![NameOrder[Min(Missing)]] = Named(Word.text)]
    BY <1>4 DEF ReadName, InOptions
  <2>2. ASSUME NEW os \in Readings(input.argv), Cardinality(Plain(input.argv, os)) = 3 PROVE ReadSoFar(os)'
    BY <1>4, <2>2, ReadNameSoFar
  <2>3. OptionsUnderstood'
    BY <2>1 DEF OptionsUnderstood
  <2>4. arg_idx' \in 1 .. Len(argv') + 1 /\ DOMAIN file_names' = Files
    BY <2>1 DEF OptionsInv
  <2>5. QED
    BY <1>1, <2>1, <2>2, <2>3, <2>4 DEF OptionsInv
<1>5. CASE ReadOption
  <2>1. /\ main = "options" /\ main' = main /\ arg_idx' = arg_idx + 2 /\ arg_idx + 1 \in DOMAIN argv
        /\ arg_idx \in DOMAIN argv
        /\ argv' = [argv EXCEPT ![arg_idx].dash = FALSE]
        /\ file_names' = [file_names EXCEPT ![OptionFile[Word.text]] = Named(argv[arg_idx + 1].text)]
    BY <1>5 DEF ReadOption, InOptions, AfterValue
  <2>2. ASSUME NEW os \in Readings(input.argv), Cardinality(Plain(input.argv, os)) = 3 PROVE ReadSoFar(os)'
    BY <1>5, <2>2, ReadOptionSoFar
  <2>3. OptionsUnderstood'
    BY <2>1 DEF OptionsUnderstood
  <2>4. argv' \in Seq(CommandWord) /\ Len(argv') = Len(argv)
    <3>1. argv \in Seq(CommandWord)
      BY DEF OptionsInv
    <3>2. QED
      BY <2>1, <3>1, WithoutDash
  <2>5. arg_idx' \in 1 .. Len(argv) + 2 /\ DOMAIN file_names' = Files
    BY <2>1 DEF OptionsInv
  <2>6. QED
    BY <1>1, <2>1, <2>2, <2>3, <2>4, <2>5 DEF OptionsInv
<1>6. CASE ReadUnknown
  <2>1. /\ main = "options" /\ main' = main /\ arg_idx' = arg_idx /\ file_names' = file_names
        /\ arg_idx \in DOMAIN argv /\ argv' = [argv EXCEPT ![arg_idx].dash = FALSE]
        /\ InOptions /\ ~IsName /\ ~Known(Word.text)
    BY <1>6 DEF ReadUnknown, InOptions
  <2>2. ASSUME NEW os \in Readings(input.argv), Cardinality(Plain(input.argv, os)) = 3 PROVE FALSE
    BY <2>1, <2>2, WordAtHand DEF IsName
  <2>3. OptionsUnderstood'
    BY <2>1 DEF OptionsUnderstood
  <2>4. argv' \in Seq(CommandWord) /\ Len(argv') = Len(argv)
    <3>1. argv \in Seq(CommandWord)
      BY DEF OptionsInv
    <3>2. QED
      BY <2>1, <3>1, WithoutDash
  <2>5. QED
    BY <1>1, <2>1, <2>2, <2>3, <2>4 DEF OptionsInv
<1>7. CASE NameFiles
  <2>1. main' = "arch" /\ argv' = argv /\ arg_idx' = arg_idx /\ DOMAIN file_names' = Files
    BY <1>7 DEF NameFiles
  <2>2. OptionsUnderstood'
    BY <1>7, NamesGiven
  <2>3. QED
    BY <1>1, <2>1, <2>2 DEF OptionsInv
<1>8. CASE NoValue
  <2>1. /\ main = "options" /\ main' = main /\ arg_idx' = arg_idx + 2 /\ arg_idx + 1 \notin DOMAIN argv
        /\ arg_idx \in DOMAIN argv /\ InOptions /\ ~IsName
        /\ argv' = [argv EXCEPT ![arg_idx].dash = FALSE]
        /\ file_names' = [file_names EXCEPT ![OptionFile[Word.text]] = NULL]
    BY <1>8 DEF NoValue, InOptions, AfterValue
  <2>2. ASSUME NEW os \in Readings(input.argv), Cardinality(Plain(input.argv, os)) = 3 PROVE FALSE
    <3>1. arg_idx \in os /\ DOMAIN argv = 1 .. Len(input.argv) /\ input.argv \in Seq(CommandWord)
      BY <2>1, <2>2, WordAtHand DEF IsName
    <3>2. arg_idx + 1 \in DOMAIN input.argv
      BY <3>1 DEF Readings, Reading
    <3>3. QED
      BY <2>1, <3>1, <3>2
  <2>3. OptionsUnderstood'
    BY <2>1 DEF OptionsUnderstood
  <2>4. argv' \in Seq(CommandWord) /\ Len(argv') = Len(argv)
    <3>1. argv \in Seq(CommandWord)
      BY DEF OptionsInv
    <3>2. QED
      BY <2>1, <3>1, WithoutDash
  <2>5. arg_idx' \in 1 .. Len(argv) + 2 /\ DOMAIN file_names' = Files
    BY <2>1 DEF OptionsInv
  <2>6. QED
    BY <1>1, <2>1, <2>2, <2>3, <2>4, <2>5 DEF OptionsInv
<1>9. CASE ~read_options
  BY <1>1, <1>9, OptionSteps, OptionsKept
<1>10. QED
  BY <1>2, <1>3, <1>4, <1>5, <1>6, <1>7, <1>8, <1>9 DEF read_options

LEMMA OptionsHold == Spec => []OptionsInv
<1>1. Init => OptionsInv
  BY OptionsStart
<1>2. OptionsInv /\ [Next]_vars => OptionsInv'
  BY OptionsStep
<1>3. QED
  BY <1>1, <1>2, PTL DEF Spec

\* Once the options are read, every file has the name the command line gives it: for every
\* command line with one reading, as long as it may be (read_options of main.c).
THEOREM OptionsAreUnderstood == Spec => []OptionsUnderstood
<1>1. OptionsInv => OptionsUnderstood
  BY DEF OptionsInv
<1>2. QED
  BY <1>1, OptionsHold, PTL

-----------------------------------------------------------------------------
(* The placement on the grid *)

OnGrid == {"sync", "trace", "lib", "power", "done"}
GridIsFull == {"trace", "lib", "power", "done"}

\* The block is the one its name is looked up as.
FirstOfName(in, i) == \A j \in 1 .. i - 1 : in.blocks[j].name # in.blocks[i].name
LinesBefore(in, i, k) ==
  {l \in DOMAIN in.place.lines : l < k /\ in.place.lines[l].name = in.blocks[i].name}
CoordsOf(line) == [x |-> line.x, y |-> line.y, z |-> line.z]
Origin == [x |-> 0, y |-> 0, z |-> 0]

\* Where a block is when the lines before k are read.
CoordsAt(in, i, k) ==
  IF FirstOfName(in, i) /\ LinesBefore(in, i, k) # {}
  THEN CoordsOf(in.place.lines[Max(LinesBefore(in, i, k))]) ELSE Origin

ReadInv ==
  /\ input \in Inputs
  /\ next_line \in 0 .. Len(input.place.lines) + 1
  /\ coords = [i \in Blocks |-> CoordsAt(input, i, next_line)]
  /\ IF next_line = 0 THEN nx = 0 /\ ny = 0 ELSE nx = input.place.nx /\ ny = input.place.ny
  /\ main \in {"grid"} \cup OnGrid => next_line = Len(input.place.lines) + 1

LEMMA InputFacts ==
  ASSUME input \in Inputs
  PROVE  /\ Len(input.blocks) \in Nat /\ Blocks = 1 .. Len(input.blocks)
         /\ \A i \in Blocks : input.blocks[i].type \in DOMAIN Types
         /\ input.place.nx \in Int /\ input.place.ny \in Int
         /\ input.place.nx <= MAX_GRID => 1 .. input.place.nx \subseteq DOMAIN ColumnType
         /\ Len(input.place.lines) \in Nat
         /\ DOMAIN input.place.lines = 1 .. Len(input.place.lines)
         /\ \A l \in 1 .. Len(input.place.lines) :
              CoordsOf(input.place.lines[l]) \in [x : Int, y : Int, z : Int]
<1>1. \A l \in DOMAIN input.place.lines :
        input.place.lines[l].x \in Int /\ input.place.lines[l].y \in Int /\ input.place.lines[l].z \in Int
  BY InputsAssumption
<1>2. \A l \in DOMAIN input.place.lines : CoordsOf(input.place.lines[l]) \in [x : Int, y : Int, z : Int]
  BY <1>1 DEF CoordsOf
<1>3. QED
  BY <1>2, InputsAssumption DEF Blocks

\* The last of the lines before k for a block is one of them.
LEMMA LastLine ==
  ASSUME input \in Inputs, NEW i, NEW k \in Nat, LinesBefore(input, i, k) # {}
  PROVE  /\ Max(LinesBefore(input, i, k)) \in LinesBefore(input, i, k)
         /\ \A l \in LinesBefore(input, i, k) : l <= Max(LinesBefore(input, i, k))
         /\ Max(LinesBefore(input, i, k)) \in 1 .. Len(input.place.lines)
<1>. DEFINE L == LinesBefore(input, i, k)
<1>1. L \subseteq 1 .. Len(input.place.lines) /\ Len(input.place.lines) \in Nat
  BY InputFacts DEF LinesBefore
<1>2. L # {}
  OBVIOUS
<1>. HIDE DEF L
<1>3. L \subseteq 0 .. Len(input.place.lines)
  BY <1>1
<1>4. \E m \in L : \A l \in L : l <= m
  BY <1>1, <1>2, <1>3, Largest
<1>5. Max(L) \in L /\ \A l \in L : Max(L) >= l
  BY <1>4, <1>1 DEF Max
<1>6. QED
  BY <1>1, <1>5 DEF L

\* The block a name is looked up as.
LEMMA TheBlock ==
  ASSUME input \in Inputs, NEW b \in Blocks
  PROVE  /\ CurBlk = b => FirstOfName(input, b) /\ Line.name = input.blocks[b].name
         /\ FirstOfName(input, b) /\ Line.name = input.blocks[b].name => CurBlk = b
<1>. DEFINE I == {j \in 1 .. Len(input.blocks) : input.blocks[j].name = Line.name}
            n == Len(input.blocks)
<1>1. Blocks = 1 .. n /\ n \in Nat
  BY InputFacts
<1>2. CurBlk = IF I # {} THEN Min(I) ELSE 0
  BY DEF CurBlk, SelectInSeq
<1>3. I \subseteq 1 .. n /\ \A j \in 1 .. n : j \in I <=> input.blocks[j].name = Line.name
  OBVIOUS
<1>. HIDE DEF I, n
<1>4. ASSUME I # {} PROVE Min(I) \in I /\ \A j \in I : Min(I) <= j
  <2>1. I \subseteq 0 .. n
    BY <1>1, <1>3
  <2>2. \E m \in I : \A j \in I : m <= j
    BY <1>1, <1>4, <2>1, Smallest
  <2>3. QED
    BY <2>2 DEF Min
<1>5. ASSUME CurBlk = b PROVE FirstOfName(input, b) /\ Line.name = input.blocks[b].name
  <2>1. I # {} /\ Min(I) = b
    BY <1>1, <1>2, <1>5
  <2>2. b \in I /\ \A j \in I : b <= j
    BY <1>4, <2>1
  <2>3. \A j \in 1 .. b - 1 : j \notin I /\ j \in 1 .. n
    BY <1>1, <1>3, <2>2
  <2>4. QED
    BY <1>3, <2>2, <2>3 DEF FirstOfName
<1>6. ASSUME FirstOfName(input, b), Line.name = input.blocks[b].name PROVE CurBlk = b
  <2>1. b \in I
    BY <1>1, <1>3, <1>6
  <2>2. Min(I) \in I /\ Min(I) <= b
    BY <1>4, <2>1
  <2>3. Min(I) \in 1 .. n /\ input.blocks[Min(I)].name = input.blocks[b].name
    BY <1>3, <1>6, <2>2
  <2>4. ~(Min(I) \in 1 .. b - 1)
    BY <1>6, <2>3 DEF FirstOfName
  <2>5. Min(I) = b
    BY <1>1, <2>2, <2>3, <2>4
  <2>6. QED
    BY <1>2, <2>1, <2>5
<1>7. QED
  BY <1>5, <1>6

\* Reading the next line puts its block where it says, and leaves the others.
LEMMA CoordsNext ==
  ASSUME input \in Inputs, next_line \in DOMAIN place.lines, CurBlk # 0, NEW i \in Blocks
  PROVE  CoordsAt(input, i, next_line + 1) =
           IF i = CurBlk THEN CoordsOf(Line) ELSE CoordsAt(input, i, next_line)
<1>. DEFINE L == LinesBefore(input, i, next_line)
            M == LinesBefore(input, i, next_line + 1)
<1>1. /\ next_line \in 1 .. Len(input.place.lines) /\ Len(input.place.lines) \in Nat
      /\ DOMAIN input.place.lines = 1 .. Len(input.place.lines)
      /\ Line = input.place.lines[next_line]
  BY InputFacts DEF place, Line
<1>2. next_line \in Nat
  BY <1>1
<1>3. \A l \in DOMAIN input.place.lines : l < next_line + 1 <=> l < next_line \/ l = next_line
  BY <1>1
<1>4. CASE i = CurBlk
  <2>1. FirstOfName(input, i) /\ Line.name = input.blocks[i].name
    BY <1>4, TheBlock
  <2>2. next_line \in M
    BY <1>1, <1>2, <2>1 DEF LinesBefore
  <2>3. \A l \in M : l <= next_line
    BY <1>1, <1>3 DEF LinesBefore
  <2>4. Max(M) \in M /\ (\A l \in M : l <= Max(M)) /\ Max(M) \in Nat
    BY <1>2, <2>2, LastLine
  <2>5. Max(M) = next_line
    BY <1>2, <2>2, <2>3, <2>4
  <2>6. QED
    BY <1>1, <1>4, <2>1, <2>2, <2>5 DEF CoordsAt
<1>5. CASE i # CurBlk
  <2>1. FirstOfName(input, i) => Line.name # input.blocks[i].name
    BY <1>5, TheBlock
  <2>2. FirstOfName(input, i) => M = L
    BY <1>1, <1>3, <2>1 DEF LinesBefore
  <2>3. QED
    BY <1>5, <2>2 DEF CoordsAt
<1>6. QED
  BY <1>4, <1>5

LEMMA ReadStart ==
  ASSUME Init
  PROVE  ReadInv
<1>1. input \in Inputs /\ next_line = 0 /\ nx = 0 /\ ny = 0 /\ main = "start" /\ coords = [i \in Blocks |-> Origin]
  BY DEF Init, Origin
<1>2. Len(input.place.lines) \in Nat /\ DOMAIN input.place.lines = 1 .. Len(input.place.lines)
  BY <1>1, InputFacts
<1>3. ASSUME NEW i \in Blocks PROVE CoordsAt(input, i, 0) = Origin
  <2>1. LinesBefore(input, i, 0) = {}
    BY <1>2 DEF LinesBefore
  <2>2. QED
    BY <2>1 DEF CoordsAt
<1>4. QED
  BY <1>1, <1>2, <1>3 DEF ReadInv, OnGrid

\* The placement file is read in one phase.
LEMMA PlacementSteps ==
  ASSUME [Next]_vars
  PROVE  /\ input' = input
         /\ \/ Heading \/ PlaceBlock
            \/ EndOfPlace
            \/ /\ UNCHANGED placement
               /\ main' \in {"grid"} \cup OnGrid => main \in {"grid"} \cup OnGrid
<1>. USE DEF options, placement, sites, estimate, OnGrid
<1>1. CASE read_options
  BY <1>1 DEF read_options, Usage, Start, ReadName, ReadOption, NoValue, ReadUnknown, NameFiles,
              NoCircuit, Stop
<1>2. CASE ReadPart
  BY <1>2 DEF ReadPart, After
<1>3. CASE build_place
  BY <1>3 DEF build_place, BadHeading, Heading, UnknownBlock, ShortLine, PlaceBlock, EndOfPlace,
              InPlace, Stop
<1>4. CASE NoGrid \/ InitArch
  BY <1>4 DEF NoGrid, InitArch, Stop
<1>5. CASE sync_grid_to_blocks
  BY <1>5 DEF sync_grid_to_blocks, BadLocation, SetBlock, Overrun, Synced, InSync, Stop
<1>6. CASE NoLibrary \/ read_power_lib
  BY <1>6 DEF NoLibrary, read_power_lib, Stop
<1>7. CASE power_complex_block
  BY <1>7 DEF power_complex_block, SkipTile, UnnamedTile, CountTile, PrintEstimate, InPower, Stop
<1>8. CASE UNCHANGED vars
  BY <1>8 DEF vars
<1>9. QED
  BY <1>1, <1>2, <1>3, <1>4, <1>5, <1>6, <1>7, <1>8 DEF Next

LEMMA ReadStep ==
  ASSUME ReadInv, [Next]_vars
  PROVE  ReadInv'
<1>1. input' = input /\ input \in Inputs /\ Blocks' = Blocks
  BY PlacementSteps DEF ReadInv, Blocks
<1>2. Len(input.place.lines) \in Nat /\ DOMAIN input.place.lines = 1 .. Len(input.place.lines)
  BY <1>1, InputFacts
<1>3. CASE Heading
  <2>1. /\ next_line = 0 /\ next_line' = 1 /\ coords' = coords /\ main' = main /\ main = "place"
        /\ nx' = input.place.nx /\ ny' = input.place.ny
    BY <1>3 DEF Heading, place
  <2>2. ASSUME NEW i \in Blocks PROVE CoordsAt(input, i, 0) = Origin /\ CoordsAt(input, i, 1) = Origin
    <3>1. LinesBefore(input, i, 0) = {} /\ LinesBefore(input, i, 1) = {}
      BY <1>2 DEF LinesBefore
    <3>2. QED
      BY <3>1 DEF CoordsAt
  <2>3. coords' = [i \in Blocks |-> CoordsAt(input, i, 1)]
    BY <2>1, <2>2 DEF ReadInv
  <2>4. QED
    BY <1>1, <1>2, <2>1, <2>3 DEF ReadInv, OnGrid
<1>4. CASE PlaceBlock
  <2>1. /\ next_line \in DOMAIN place.lines /\ CurBlk # 0 /\ main = "place" /\ main' = main
        /\ coords' = [coords EXCEPT ![CurBlk] = CoordsOf(Line)]
        /\ next_line' = next_line + 1 /\ nx' = nx /\ ny' = ny
    BY <1>4 DEF PlaceBlock, InPlace, CoordsOf
  <2>2. next_line \in 1 .. Len(input.place.lines)
    BY <1>2, <2>1 DEF place
  <2>3. coords' = [i \in Blocks |-> CoordsAt(input, i, next_line + 1)]
    <3>1. coords = [i \in Blocks |-> CoordsAt(input, i, next_line)]
      BY DEF ReadInv
    <3>2. coords' = [i \in Blocks |-> IF i = CurBlk THEN CoordsOf(Line) ELSE CoordsAt(input, i, next_line)]
      BY <2>1, <3>1
    <3>3. QED
      BY <1>1, <2>1, <3>2, CoordsNext
  <2>4. IF next_line + 1 = 0 THEN nx = 0 /\ ny = 0 ELSE nx = input.place.nx /\ ny = input.place.ny
    BY <2>2 DEF ReadInv
  <2>5. QED
    BY <1>1, <1>2, <2>1, <2>2, <2>3, <2>4 DEF ReadInv, OnGrid
<1>5. CASE EndOfPlace
  BY <1>1, <1>5 DEF EndOfPlace, ReadInv, placement, place
<1>6. CASE /\ UNCHANGED placement
           /\ main' \in {"grid"} \cup OnGrid => main \in {"grid"} \cup OnGrid
  BY <1>1, <1>6 DEF ReadInv, placement
<1>7. QED
  BY <1>3, <1>4, <1>5, <1>6, PlacementSteps

\* A grid of the architecture: what its tiles are is decided when it is made.
GridSize ==
  /\ nx \in Int /\ ny \in Int /\ nx >= 1 /\ ny >= 1
  /\ 1 .. nx \subseteq DOMAIN ColumnType
Made(x, y) ==
  IF x \in 1 .. nx
  THEN IF y \in 1 .. ny THEN Core(x, y) ELSE Pads
  ELSE IF y \in 1 .. ny THEN Pads ELSE Corner

LEMMA MadeGrid ==
  ASSUME GridSize
  PROVE  /\ DOMAIN alloc_and_load_grid = 0 .. nx + 1
         /\ \A x \in 0 .. nx + 1 : /\ DOMAIN alloc_and_load_grid[x] = 0 .. ny + 1
                                   /\ \A y \in 0 .. ny + 1 : alloc_and_load_grid[x][y] = Made(x, y)
BY DEF alloc_and_load_grid, Made

\* The kinds of tile.
LEMMA Tiles ==
  ASSUME GridSize, NEW x \in 0 .. nx + 1, NEW y \in 0 .. ny + 1
  PROVE  \/ Made(x, y) = Corner
         \/ Made(x, y) = Tile(EMPTY_TYPE, 0, 1)
         \/ Made(x, y) = Pads /\ ~(x \in 1 .. nx /\ y \in 1 .. ny)
         \/ /\ x \in 1 .. nx /\ y \in 1 .. ny
            /\ ColumnType[x] \in DOMAIN Types \ {IO_TYPE} /\ Types[ColumnType[x]].capacity = 1
            /\ y + Types[ColumnType[x]].height - 1 - ((y - 1) % Types[ColumnType[x]].height) <= ny
            /\ Made(x, y) = Tile(ColumnType[x], (y - 1) % Types[ColumnType[x]].height, 1)
<1>1. CASE x \in 1 .. nx /\ y \in 1 .. ny
  <2>. DEFINE t == ColumnType[x]
              offset == (y - 1) % Types[t].height
  <2>1. t \in DOMAIN Types \ {IO_TYPE} /\ Types[t].capacity = 1
    BY <1>1, TypesAssumption DEF GridSize
  <2>2. Types[t].height \in Nat \ {0}
    BY <2>1, TypesAssumption
  <2>3. y \in Int /\ y - 1 \in Int /\ offset \in Int
    BY <2>2
  <2>4. Made(x, y) = IF y + Types[t].height - 1 - offset > ny THEN Tile(EMPTY_TYPE, 0, 1) ELSE Tile(t, offset, 1)
    BY <1>1 DEF Made, Core
  <2>. HIDE DEF offset
  <2>5. y + Types[t].height - 1 - offset > ny \/ y + Types[t].height - 1 - offset <= ny
    BY <2>2, <2>3 DEF GridSize
  <2>6. QED
    BY <1>1, <2>1, <2>4, <2>5 DEF offset
<1>2. CASE ~(x \in 1 .. nx /\ y \in 1 .. ny)
  BY <1>2 DEF Made
<1>3. QED
  BY <1>1, <1>2

\* A tile of a type has the cells of the type, all free, and the corner has none.
LEMMA TileFacts ==
  ASSUME GridSize, NEW x \in 0 .. nx + 1, NEW y \in 0 .. ny + 1
  PROVE  /\ DOMAIN Made(x, y) = {"type", "offset", "blocks"}
         /\ Made(x, y).offset \in Nat
         /\ \A z \in DOMAIN Made(x, y).blocks : Made(x, y).blocks[z] = OPEN
         /\ Made(x, y).type \in DOMAIN Types \cup {EMPTY_TYPE}
         /\ Made(x, y).type # EMPTY_TYPE => DOMAIN Made(x, y).blocks = 0 .. Types[Made(x, y).type].capacity - 1
         /\ x = 0 /\ y = 0 => Made(x, y).type = EMPTY_TYPE
<1>0. \A t, o, c : /\ DOMAIN Tile(t, o, c) = {"type", "offset", "blocks"}
                   /\ Tile(t, o, c).type = t /\ Tile(t, o, c).offset = o
                   /\ DOMAIN Tile(t, o, c).blocks = 0 .. c - 1
                   /\ \A z \in 0 .. c - 1 : Tile(t, o, c).blocks[z] = OPEN
  BY DEF Tile
<1>1. CASE Made(x, y) = Corner
  <2>1. EMPTY_TYPE \notin DOMAIN Types
    BY TypesAssumption
  <2>2. QED
    BY <1>0, <1>1 DEF Corner
<1>2. CASE Made(x, y) = Tile(EMPTY_TYPE, 0, 1)
  BY <1>0, <1>2
<1>3. CASE Made(x, y) = Pads /\ ~(x \in 1 .. nx /\ y \in 1 .. ny)
  <2>1. IO_TYPE \in DOMAIN Types /\ IO_TYPE # EMPTY_TYPE
    BY TypesAssumption
  <2>2. x = 0 /\ y = 0 => Made(x, y) = Corner
    BY DEF Made, GridSize
  <2>3. x = 0 /\ y = 0 => Made(x, y).type = EMPTY_TYPE
    BY <1>0, <2>2 DEF Corner
  <2>4. Made(x, y) = Tile(IO_TYPE, 0, Types[IO_TYPE].capacity)
    BY <1>3 DEF Pads
  <2>5. /\ DOMAIN Made(x, y) = {"type", "offset", "blocks"}
        /\ Made(x, y).type = IO_TYPE /\ Made(x, y).offset = 0
        /\ DOMAIN Made(x, y).blocks = 0 .. Types[IO_TYPE].capacity - 1
        /\ \A z \in 0 .. Types[IO_TYPE].capacity - 1 : Made(x, y).blocks[z] = OPEN
    BY <1>0, <2>4
  <2>6. QED
    BY <2>1, <2>3, <2>5
<1>4. CASE /\ x \in 1 .. nx /\ y \in 1 .. ny
           /\ ColumnType[x] \in DOMAIN Types \ {IO_TYPE} /\ Types[ColumnType[x]].capacity = 1
           /\ Made(x, y) = Tile(ColumnType[x], (y - 1) % Types[ColumnType[x]].height, 1)
  <2>1. Types[ColumnType[x]].height \in Nat \ {0}
    BY <1>4, TypesAssumption
  <2>2. y - 1 \in Int /\ x # 0
    BY <1>4
  <2>3. \A a \in Int, h \in Nat \ {0} : a % h \in Nat
    OBVIOUS
  <2>. DEFINE o == (y - 1) % Types[ColumnType[x]].height
              t == ColumnType[x]
  <2>4. o \in Nat /\ t \in DOMAIN Types /\ Types[t].capacity = 1 /\ Made(x, y) = Tile(t, o, 1)
    BY <1>4, <2>1, <2>2, <2>3
  <2>. HIDE DEF o, t
  <2>5. QED
    BY <1>0, <2>2, <2>4
<1>5. QED
  BY <1>1, <1>2, <1>3, <1>4, Tiles

\* Above the first tile of a large block are its other tiles.
LEMMA UpperTiles ==
  ASSUME GridSize, NEW x \in 0 .. nx + 1, NEW y \in 0 .. ny + 1, NEW v \in 0 .. ny + 1,
         Made(x, y).type \in DOMAIN Types, Made(x, y).offset = 0,
         v \in y + 1 .. y + Types[Made(x, y).type].height - 1
  PROVE  Made(x, v).offset # 0
<1>0. \A t, o, c : Tile(t, o, c).type = t /\ Tile(t, o, c).offset = o
  BY DEF Tile
<1>. DEFINE t == ColumnType[x]
            h == Types[t].height
<1>1. ~(Made(x, y) = Corner) /\ ~(Made(x, y) = Tile(EMPTY_TYPE, 0, 1))
  BY <1>0, TypesAssumption DEF Corner
<1>2. ~(Made(x, y) = Pads)
  <2>1. ASSUME Made(x, y) = Pads PROVE FALSE
    <3>1. Types[Made(x, y).type].height = 1
      BY <1>0, <2>1, TypesAssumption DEF Pads
    <3>2. y \in Int
      OBVIOUS
    <3>3. QED
      BY <3>1, <3>2
  <2>2. QED
    BY <2>1
<1>3. /\ x \in 1 .. nx /\ y \in 1 .. ny /\ t \in DOMAIN Types
      /\ y + h - 1 - ((y - 1) % h) <= ny
      /\ Made(x, y) = Tile(t, (y - 1) % h, 1)
  BY <1>1, <1>2, Tiles
<1>4. h \in Nat \ {0}
  BY <1>3, TypesAssumption
<1>5. (y - 1) % h = 0 /\ Made(x, y).type = t
  BY <1>0, <1>3
<1>. HIDE DEF h
<1>6. /\ y \in Int /\ v \in Int /\ y + 1 <= v /\ v <= y + h - 1 /\ y >= 1 /\ y + h - 1 <= ny
  BY <1>3, <1>4, <1>5 DEF h, GridSize
<1>7. (v - 1) % h = v - y
  <2>1. \A a, k \in Int, d \in Nat \ {0} : a % d = 0 /\ k \in 0 .. d - 1 => (a + k) % d = k
    OBVIOUS
  <2>2. y - 1 \in Int /\ v - y \in Int /\ v - y \in 0 .. h - 1 /\ v - 1 = (y - 1) + (v - y)
    BY <1>4, <1>6
  <2>3. ((y - 1) + (v - y)) % h = v - y
    BY <1>4, <1>5, <2>1, <2>2
  <2>4. QED
    BY <2>2, <2>3
<1>8. v \in 1 .. ny
  BY <1>4, <1>6 DEF GridSize
<1>9. Made(x, v) = IF v + h - 1 - (v - y) > ny THEN Tile(EMPTY_TYPE, 0, 1) ELSE Tile(t, v - y, 1)
  BY <1>3, <1>7, <1>8 DEF Made, Core, h
<1>10. ~(v + h - 1 - (v - y) > ny)
  BY <1>4, <1>6 DEF GridSize
<1>11. Made(x, v).offset = v - y
  BY <1>0, <1>9, <1>10
<1>12. QED
  BY <1>6, <1>11

LEMMA CoordsType ==
  ASSUME ReadInv
  PROVE  coords \in [Blocks -> [x : Int, y : Int, z : Int]]
<1>1. ASSUME NEW i \in Blocks PROVE CoordsAt(input, i, next_line) \in [x : Int, y : Int, z : Int]
  <2>1. CASE FirstOfName(input, i) /\ LinesBefore(input, i, next_line) # {}
    <3>1. next_line \in Nat /\ input \in Inputs
      BY InputFacts DEF ReadInv
    <3>2. Max(LinesBefore(input, i, next_line)) \in 1 .. Len(input.place.lines)
      BY <2>1, <3>1, LastLine
    <3>3. QED
      BY <2>1, <3>1, <3>2, InputFacts DEF CoordsAt
  <2>2. CASE ~(FirstOfName(input, i) /\ LinesBefore(input, i, next_line) # {})
    BY <2>2 DEF CoordsAt, Origin
  <2>3. QED
    BY <2>1, <2>2
<1>2. coords = [i \in Blocks |-> CoordsAt(input, i, next_line)]
  BY DEF ReadInv
<1>3. QED
  BY <1>1, <1>2

\* The tiles keep what they are; only what is on them changes.
IsTile(tile, made) ==
  /\ DOMAIN tile = {"type", "offset", "blocks"}
  /\ tile.type = made.type /\ tile.offset = made.offset /\ DOMAIN tile.blocks = DOMAIN made.blocks
GridShape ==
  /\ DOMAIN grid = 0 .. nx + 1
  /\ \A x \in 0 .. nx + 1 : /\ DOMAIN grid[x] = 0 .. ny + 1
                            /\ \A y \in 0 .. ny + 1 : IsTile(grid[x][y], Made(x, y))

\* The block is on the tile of its coordinates, the first one of a site for its type.
OnSite(i) ==
  /\ coords[i].x \in 0 .. nx + 1 /\ coords[i].y \in 0 .. ny + 1
  /\ coords[i].z \in 0 .. TypeOf(i).capacity
  /\ Made(coords[i].x, coords[i].y).type = input.blocks[i].type
  /\ Made(coords[i].x, coords[i].y).offset = 0
  /\ coords[i].z < TypeOf(i).capacity => grid[coords[i].x][coords[i].y].blocks[coords[i].z] = i

\* What is on the first tile of a site is a block with its coordinates.
Filled(x, y) ==
  Made(x, y).offset = 0 =>
    \A z \in DOMAIN grid[x][y].blocks : \A i : i = grid[x][y].blocks[z] /\ i # OPEN =>
      i \in Blocks /\ i < next_block /\ coords[i] = [x |-> x, y |-> y, z |-> z]

GridInv ==
  /\ next_block \in 1 .. Len(input.blocks) + 1
  /\ main \notin OnGrid \cup Ended => next_block = 1
  /\ main \in GridIsFull => next_block = Len(input.blocks) + 1
  /\ main \in OnGrid =>
       /\ GridSize /\ GridShape
       /\ \A i \in Blocks : i < next_block => OnSite(i)
       /\ \A x \in 0 .. nx + 1, y \in 0 .. ny + 1 : Filled(x, y)

LEMMA MadeSame ==
  ASSUME nx' = nx, ny' = ny
  PROVE  /\ \A x, y : Made(x, y)' = Made(x, y)
         /\ GridSize' = GridSize
BY DEF Made, Core, Pads, Corner, Tile, GridSize

\* Setting a block changes the first tile of its site, and upper tiles.
LEMMA SetTiles ==
  ASSUME ReadInv, GridInv, SetBlock
  PROVE  /\ next_block \in Blocks /\ main = "sync" /\ GridSize /\ GridShape
         /\ Here \in [x : Int, y : Int, z : Int]
         /\ Here.x \in 0 .. nx + 1 /\ Here.y \in 0 .. ny + 1 /\ Here.z \in 0 .. TypeOf(next_block).capacity
         /\ Made(Here.x, Here.y).type = input.blocks[next_block].type
         /\ Made(Here.x, Here.y).offset = 0
         /\ DOMAIN grid[Here.x][Here.y].blocks = 0 .. TypeOf(next_block).capacity - 1
         /\ DOMAIN grid' = DOMAIN grid
         /\ \A x \in 0 .. nx + 1 : DOMAIN grid'[x] = DOMAIN grid[x]
         /\ \A x \in 0 .. nx + 1, y \in 0 .. ny + 1 :
              /\ IsTile(grid'[x][y], Made(x, y))
              /\ Made(x, y).offset = 0 =>
                   \A z \in DOMAIN grid[x][y].blocks :
                     grid'[x][y].blocks[z] = IF Here = [x |-> x, y |-> y, z |-> z]
                                             THEN next_block ELSE grid[x][y].blocks[z]
<1>. DEFINE h == TypeOf(next_block).height
            Set(tile) == [tile EXCEPT !.blocks[Here.z] = next_block]
<1>1. /\ next_block \in Blocks /\ main = "sync" /\ GridSize /\ GridShape /\ input \in Inputs
  BY DEF SetBlock, InSync, GridInv, OnGrid, ReadInv
<1>2. Here \in [x : Int, y : Int, z : Int]
  BY <1>1, CoordsType DEF Here
<1>3. Here.x \in Int /\ Here.y \in Int /\ Here.z \in Int
  BY <1>2
<1>4. input.blocks[next_block].type \in DOMAIN Types
  BY <1>1, InputFacts
<1>5. h \in Nat \ {0} /\ TypeOf(next_block).capacity \in Nat
  BY <1>4, TypesAssumption DEF TypeOf
<1>6. /\ Here.x \in 0 .. nx + 1 /\ Here.y >= 0 /\ Here.y + h - 1 <= ny + 1
      /\ Here.z \in 0 .. TypeOf(next_block).capacity
  BY DEF SetBlock, InRange
<1>7. Here.y \in 0 .. ny + 1
  <2>. HIDE DEF h
  <2>1. QED
    BY <1>1, <1>3, <1>5, <1>6 DEF GridSize
<1>8. IsTile(Below, Made(Here.x, Here.y))
  BY <1>1, <1>6, <1>7 DEF GridShape, Below
<1>9. /\ Made(Here.x, Here.y).type = input.blocks[next_block].type
      /\ Made(Here.x, Here.y).offset = 0
  BY <1>8 DEF SetBlock, TypeFits, IsTile
<1>10. EMPTY_TYPE \notin DOMAIN Types
  BY TypesAssumption
<1>11. DOMAIN Below.blocks = 0 .. TypeOf(next_block).capacity - 1
  BY <1>1, <1>4, <1>6, <1>7, <1>8, <1>9, <1>10, TileFacts DEF IsTile, TypeOf
<1>12. CASE Beyond
  <2>1. grid' = grid
    BY <1>12 DEF SetBlock
  <2>2. ASSUME NEW x \in 0 .. nx + 1, NEW y \in 0 .. ny + 1, NEW z \in DOMAIN grid[x][y].blocks
        PROVE  Here # [x |-> x, y |-> y, z |-> z]
    <3>1. ASSUME Here = [x |-> x, y |-> y, z |-> z] PROVE FALSE
      <4>1. Here.x = x /\ Here.y = y /\ Here.z = z
        BY <3>1
      <4>2. QED
        BY <1>12, <4>1 DEF Beyond, Below
    <3>2. QED
      BY <3>1
  <2>3. QED
    BY <1>1, <1>2, <1>6, <1>7, <1>9, <1>11, <2>1, <2>2 DEF GridShape, Below
<1>13. CASE ~Beyond
  <2>1. grid' = [grid EXCEPT ![Here.x] = [y \in DOMAIN @ |->
           IF y \in Here.y .. Here.y + h - 1 THEN Set(@[y]) ELSE @[y]]]
    BY <1>13 DEF SetBlock
  <2>2. DOMAIN grid = 0 .. nx + 1 /\ \A x \in 0 .. nx + 1 : DOMAIN grid[x] = 0 .. ny + 1
    BY <1>1 DEF GridShape
  <2>. HIDE DEF h, Set
  <2>3. DOMAIN grid' = DOMAIN grid /\ \A x \in 0 .. nx + 1 : DOMAIN grid'[x] = DOMAIN grid[x]
    BY <1>6, <2>1, <2>2
  <2>4. \A x \in 0 .. nx + 1, y \in 0 .. ny + 1 :
          grid'[x][y] = IF x = Here.x /\ y \in Here.y .. Here.y + h - 1 THEN Set(grid[x][y]) ELSE grid[x][y]
    BY <1>6, <2>1, <2>2
  <2>5. ASSUME NEW tile, NEW made, IsTile(tile, made)
        PROVE  /\ IsTile(Set(tile), made)
               /\ \A z \in DOMAIN tile.blocks :
                    Set(tile).blocks[z] = IF z = Here.z THEN next_block ELSE tile.blocks[z]
    BY <2>5 DEF IsTile, Set
  <2>6. ASSUME NEW x \in 0 .. nx + 1, NEW y \in 0 .. ny + 1
        PROVE  /\ IsTile(grid'[x][y], Made(x, y))
               /\ Made(x, y).offset = 0 =>
                    \A z \in DOMAIN grid[x][y].blocks :
                      grid'[x][y].blocks[z] = IF Here = [x |-> x, y |-> y, z |-> z]
                                              THEN next_block ELSE grid[x][y].blocks[z]
    <3>1. IsTile(grid[x][y], Made(x, y))
      BY <1>1 DEF GridShape
    <3>2. IsTile(grid'[x][y], Made(x, y))
      BY <2>4, <2>5, <3>1
    <3>3. ASSUME Made(x, y).offset = 0, NEW z \in DOMAIN grid[x][y].blocks
          PROVE  grid'[x][y].blocks[z] = IF Here = [x |-> x, y |-> y, z |-> z]
                                         THEN next_block ELSE grid[x][y].blocks[z]
      <4>1. Here = [x |-> x, y |-> y, z |-> z] <=> Here.x = x /\ Here.y = y /\ Here.z = z
        BY <1>2
      <4>2. ASSUME x = Here.x, y \in Here.y + 1 .. Here.y + h - 1 PROVE FALSE
        BY <1>1, <1>4, <1>6, <1>7, <1>9, <3>3, <4>2, UpperTiles DEF TypeOf, h
      <4>3. y \in Here.y .. Here.y + h - 1 <=> y = Here.y \/ y \in Here.y + 1 .. Here.y + h - 1
        BY <1>3, <1>5
      <4>4. grid'[x][y] = IF x = Here.x /\ y = Here.y THEN Set(grid[x][y]) ELSE grid[x][y]
        BY <2>4, <4>2, <4>3
      <4>5. Set(grid[x][y]).blocks[z] = IF z = Here.z THEN next_block ELSE grid[x][y].blocks[z]
        BY <2>5, <3>1
      <4>6. CASE x = Here.x /\ y = Here.y
        <5>1. grid'[x][y] = Set(grid[x][y])
          BY <4>4, <4>6
        <5>2. QED
          BY <4>1, <4>5, <4>6, <5>1
      <4>7. CASE ~(x = Here.x /\ y = Here.y)
        BY <4>1, <4>4, <4>7
      <4>8. QED
        BY <4>6, <4>7
    <3>4. QED
      BY <3>2, <3>3
  <2>7. QED
    BY <1>1, <1>2, <1>6, <1>7, <1>9, <1>11, <2>3, <2>6 DEF Below
<1>14. QED
  BY <1>12, <1>13

\* The grid and what is on it in the steps that do not set a block.
LEMMA GridKept ==
  ASSUME ReadInv, GridInv, input' = input, UNCHANGED placement, UNCHANGED sites,
         main' \in OnGrid => main \in OnGrid,
         main' \notin OnGrid \cup Ended => main \notin OnGrid \cup Ended,
         main' \in GridIsFull => main \in GridIsFull \/ next_block = Len(input.blocks) + 1
  PROVE  GridInv'
<1>1. /\ nx' = nx /\ ny' = ny /\ coords' = coords /\ grid' = grid /\ next_block' = next_block
      /\ Blocks' = Blocks
  BY DEF placement, sites, Blocks
<1>2. (\A x, y : Made(x, y)' = Made(x, y)) /\ GridSize' = GridSize
  BY <1>1, MadeSame
<1>3. GridShape => GridShape'
  BY <1>1, <1>2 DEF GridShape
<1>4. ASSUME NEW i, OnSite(i) PROVE OnSite(i)'
  BY <1>1, <1>2, <1>4 DEF OnSite, TypeOf
<1>5. ASSUME NEW x, NEW y, Filled(x, y) PROVE Filled(x, y)'
  BY <1>1, <1>2, <1>5 DEF Filled
<1>6. CASE main' \in OnGrid
  <2>1. /\ GridSize /\ GridShape
        /\ \A i \in Blocks : i < next_block => OnSite(i)
        /\ \A x \in 0 .. nx + 1, y \in 0 .. ny + 1 : Filled(x, y)
    BY <1>6 DEF GridInv
  <2>2. /\ GridSize' /\ GridShape'
        /\ \A i \in Blocks' : i < next_block' => OnSite(i)'
        /\ \A x \in 0 .. nx' + 1, y \in 0 .. ny' + 1 : Filled(x, y)'
    BY <1>1, <1>2, <1>3, <1>4, <1>5, <2>1
  <2>3. next_block' \in 1 .. Len(input'.blocks) + 1
    BY <1>1 DEF GridInv
  <2>4. main' \in GridIsFull => next_block' = Len(input'.blocks) + 1
    BY <1>1 DEF GridInv
  <2>5. QED
    BY <1>6, <2>2, <2>3, <2>4 DEF GridInv
<1>7. CASE main' \notin OnGrid
  <2>1. main' \notin GridIsFull
    BY <1>7 DEF OnGrid, GridIsFull
  <2>2. next_block' \in 1 .. Len(input'.blocks) + 1
    BY <1>1 DEF GridInv
  <2>3. main' \notin OnGrid \cup Ended => next_block' = 1
    BY <1>1 DEF GridInv
  <2>4. QED
    BY <1>7, <2>1, <2>2, <2>3 DEF GridInv
<1>8. QED
  BY <1>6, <1>7

LEMMA GridSteps ==
  ASSUME [Next]_vars
  PROVE  /\ input' = input
         /\ \/ InitArch \/ SetBlock
            \/ build_place /\ UNCHANGED sites /\ main = "place" /\ main' \in {"place", "grid"} \cup (Ended \ {"done"})
            \/ /\ UNCHANGED placement /\ UNCHANGED sites
               /\ main' \in OnGrid => main \in OnGrid
               /\ main' \notin OnGrid \cup Ended => main \notin OnGrid \cup Ended
               /\ main' \in GridIsFull => main \in GridIsFull \/ next_block = Len(input.blocks) + 1
<1>. USE DEF options, placement, sites, estimate, OnGrid, GridIsFull, Ended
<1>1. CASE read_options
  BY <1>1 DEF read_options, Usage, Start, ReadName, ReadOption, NoValue, ReadUnknown, NameFiles,
              NoCircuit, Stop, InOptions
<1>2. CASE ReadPart
  <2>1. main \in {"arch", "blif", "netlist", "trace"} /\ main' \in {"exit", After[main]}
        /\ UNCHANGED placement /\ UNCHANGED sites /\ input' = input
    BY <1>2 DEF ReadPart, After
  <2>2. After["arch"] = "blif" /\ After["blif"] = "netlist" /\ After["netlist"] = "place" /\ After["trace"] = "lib"
    BY DEF After
  <2>3. QED
    BY <2>1, <2>2
<1>3. CASE build_place
  BY <1>3 DEF build_place, BadHeading, Heading, UnknownBlock, ShortLine, PlaceBlock, EndOfPlace,
              InPlace, Stop
<1>4. CASE NoGrid \/ InitArch
  <2>1. CASE NoGrid
    BY <2>1 DEF NoGrid, Stop
  <2>2. CASE InitArch
    <3>1. input' = input
      BY <2>2 DEF InitArch
    <3>2. QED
      BY <2>2, <3>1
  <2>3. QED
    BY <1>4, <2>1, <2>2
<1>5. CASE sync_grid_to_blocks
  <2>1. CASE BadLocation
    BY <2>1 DEF BadLocation, InSync, Stop
  <2>2. CASE Synced
    BY <2>2 DEF Synced
  <2>3. CASE SetBlock
    <3>1. input' = input
      BY <2>3 DEF SetBlock
    <3>2. QED
      BY <2>3, <3>1
  <2>4. CASE Overrun
    BY <2>4 DEF Overrun, InSync, Stop
  <2>5. QED
    BY <1>5, <2>1, <2>2, <2>3, <2>4 DEF sync_grid_to_blocks
<1>6. CASE NoLibrary \/ read_power_lib
  BY <1>6 DEF NoLibrary, read_power_lib, Stop
<1>7. CASE power_complex_block
  BY <1>7 DEF power_complex_block, SkipTile, UnnamedTile, CountTile, PrintEstimate, InPower, Stop
<1>8. CASE UNCHANGED vars
  BY <1>8 DEF vars
<1>9. QED
  BY <1>1, <1>2, <1>3, <1>4, <1>5, <1>6, <1>7, <1>8 DEF Next

LEMMA GridStart ==
  ASSUME Init
  PROVE  GridInv
<1>1. next_block = 1 /\ main = "start" /\ input \in Inputs
  BY DEF Init
<1>2. Len(input.blocks) \in Nat
  BY <1>1, InputFacts
<1>3. QED
  BY <1>1, <1>2 DEF GridInv, OnGrid, GridIsFull

LEMMA GridMade ==
  ASSUME ReadInv, GridInv, InitArch
  PROVE  GridInv'
<1>1. /\ nx' = nx /\ ny' = ny /\ coords' = coords /\ next_block' = next_block /\ input' = input
      /\ Blocks' = Blocks /\ nx >= 1 /\ ny >= 1 /\ main = "grid"
      /\ grid' = alloc_and_load_grid /\ main' \in {"sync", "exit"}
  BY DEF InitArch, placement, Blocks
<1>2. input \in Inputs /\ next_block = 1
  BY <1>1 DEF ReadInv, GridInv, OnGrid, Ended
<1>3. nx = input.place.nx /\ ny = input.place.ny
  BY <1>1 DEF ReadInv
<1>4. GridSize
  <2>1. nx <= MAX_GRID
    BY <1>2, <1>3, InputFacts DEF InitArch, TooLarge, MAX_GRID
  <2>2. QED
    BY <1>1, <1>2, <1>3, <2>1, InputFacts DEF GridSize
<1>5. (\A x, y : Made(x, y)' = Made(x, y)) /\ GridSize' = GridSize
  BY <1>1, MadeSame
<1>6. /\ DOMAIN grid' = 0 .. nx + 1
      /\ \A x \in 0 .. nx + 1 : /\ DOMAIN grid'[x] = 0 .. ny + 1
                                /\ \A y \in 0 .. ny + 1 : grid'[x][y] = Made(x, y)
  BY <1>1, <1>4, MadeGrid
<1>7. ASSUME NEW x \in 0 .. nx + 1, NEW y \in 0 .. ny + 1
      PROVE  IsTile(Made(x, y), Made(x, y)) /\ \A z \in DOMAIN Made(x, y).blocks : Made(x, y).blocks[z] = OPEN
  BY <1>4, TileFacts DEF IsTile
<1>8. GridShape'
  BY <1>1, <1>5, <1>6, <1>7 DEF GridShape
<1>9. ASSUME NEW x \in 0 .. nx + 1, NEW y \in 0 .. ny + 1 PROVE Filled(x, y)'
  <2>1. \A z \in DOMAIN grid'[x][y].blocks : grid'[x][y].blocks[z] = OPEN
    BY <1>6, <1>7
  <2>2. QED
    BY <2>1 DEF Filled
<1>10. next_block' \in 1 .. Len(input'.blocks) + 1
  BY <1>1 DEF GridInv
<1>11. \A i \in Blocks : ~(i < 1)
  BY <1>2, InputFacts
<1>12. main' \notin GridIsFull
  BY <1>1 DEF GridIsFull
<1>13. QED
  BY <1>1, <1>2, <1>4, <1>5, <1>8, <1>9, <1>10, <1>11, <1>12 DEF GridInv

LEMMA GridSet ==
  ASSUME ReadInv, GridInv, SetBlock
  PROVE  GridInv'
<1>1. /\ nx' = nx /\ ny' = ny /\ coords' = coords /\ next_block' = next_block + 1 /\ input' = input
      /\ Blocks' = Blocks /\ main = "sync" /\ main' = main
  BY DEF SetBlock, placement, Blocks, InSync
<1>2. /\ GridSize /\ GridShape /\ next_block \in Blocks
      /\ \A i \in Blocks : i < next_block => OnSite(i)
      /\ \A x \in 0 .. nx + 1, y \in 0 .. ny + 1 : Filled(x, y)
  BY <1>1 DEF GridInv, OnGrid, SetBlock, InSync
<1>3. (\A x, y : Made(x, y)' = Made(x, y)) /\ GridSize' = GridSize
  BY <1>1, MadeSame
<1>4. Len(input.blocks) \in Nat /\ Blocks = 1 .. Len(input.blocks) /\ next_block \in Nat
  BY <1>2, InputFacts DEF ReadInv
<1>. DEFINE b == next_block
<1>5. /\ Here.x \in 0 .. nx + 1 /\ Here.y \in 0 .. ny + 1 /\ Here.z \in 0 .. TypeOf(b).capacity
      /\ Made(Here.x, Here.y).type = input.blocks[b].type
      /\ Made(Here.x, Here.y).offset = 0
      /\ DOMAIN grid[Here.x][Here.y].blocks = 0 .. TypeOf(b).capacity - 1
      /\ Here \in [x : Int, y : Int, z : Int]
  BY SetTiles
<1>6. /\ DOMAIN grid' = DOMAIN grid
      /\ \A x \in 0 .. nx + 1 : DOMAIN grid'[x] = DOMAIN grid[x]
      /\ \A x \in 0 .. nx + 1, y \in 0 .. ny + 1 : IsTile(grid'[x][y], Made(x, y))
  BY SetTiles
<1>7. \A x \in 0 .. nx + 1, y \in 0 .. ny + 1 :
        Made(x, y).offset = 0 =>
          \A z \in DOMAIN grid[x][y].blocks :
            grid'[x][y].blocks[z] = IF Here = [x |-> x, y |-> y, z |-> z] THEN b ELSE grid[x][y].blocks[z]
  BY SetTiles
<1>8. GridShape'
  BY <1>1, <1>2, <1>3, <1>6 DEF GridShape
<1>9. \A x \in 0 .. nx + 1, y \in 0 .. ny + 1 : DOMAIN grid'[x][y].blocks = DOMAIN grid[x][y].blocks
  BY <1>2, <1>6 DEF GridShape, IsTile
<1>10. Here = coords[b] /\ Here = [x |-> Here.x, y |-> Here.y, z |-> Here.z]
  BY <1>5 DEF Here
<1>11. ASSUME NEW i \in Blocks, i < next_block + 1 PROVE OnSite(i)'
  <2>1. CASE i = b
    <3>1. Here.z < TypeOf(b).capacity => grid'[Here.x][Here.y].blocks[Here.z] = b
      <4>. SUFFICES ASSUME Here.z < TypeOf(b).capacity
                    PROVE  grid'[Here.x][Here.y].blocks[Here.z] = b
        OBVIOUS
      <4>1. Here.z \in DOMAIN grid[Here.x][Here.y].blocks
        <5>1. TypeOf(b).capacity \in Nat
          BY <1>2, InputFacts, TypesAssumption DEF TypeOf, ReadInv
        <5>2. QED
          BY <1>5, <5>1
      <4>2. QED
        <5>. DEFINE x == Here.x
                    y == Here.y
                    z == Here.z
        <5>1. x \in 0 .. nx + 1 /\ y \in 0 .. ny + 1 /\ Made(x, y).offset = 0
          BY <1>5
        <5>2. z \in DOMAIN grid[x][y].blocks
          BY <4>1
        <5>3. Here = [x |-> x, y |-> y, z |-> z]
          BY <1>10
        <5>. HIDE DEF x, y, z
        <5>4. grid'[x][y].blocks[z] = b
          BY <1>7, <5>1, <5>2, <5>3
        <5>5. QED
          BY <5>4 DEF x, y, z
    <3>2. QED
      BY <1>1, <1>3, <1>5, <1>10, <2>1, <3>1 DEF OnSite, TypeOf
  <2>2. CASE i # b
    <3>1. i < next_block
      BY <1>4, <1>11, <2>2
    <3>2. OnSite(i)
      BY <1>2, <3>1
    <3>. DEFINE c == coords[i]
    <3>3. ASSUME c.z < TypeOf(i).capacity PROVE grid'[c.x][c.y].blocks[c.z] = i
      <4>1. /\ c.x \in 0 .. nx + 1 /\ c.y \in 0 .. ny + 1 /\ c.z \in 0 .. TypeOf(i).capacity
            /\ Made(c.x, c.y).type = input.blocks[i].type /\ Made(c.x, c.y).offset = 0
            /\ grid[c.x][c.y].blocks[c.z] = i
        BY <3>2, <3>3 DEF OnSite
      <4>2. input.blocks[i].type \in DOMAIN Types /\ TypeOf(i).capacity \in Nat /\ input.blocks[i].type # EMPTY_TYPE
        BY InputFacts, TypesAssumption DEF TypeOf, ReadInv
      <4>3. DOMAIN grid[c.x][c.y].blocks = 0 .. TypeOf(i).capacity - 1
        BY <1>2, <4>1, <4>2, TileFacts DEF GridShape, IsTile, TypeOf
      <4>4. c.z \in DOMAIN grid[c.x][c.y].blocks
        BY <3>3, <4>1, <4>2, <4>3
      <4>5. Here # [x |-> c.x, y |-> c.y, z |-> c.z]
        <5>1. ASSUME Here = [x |-> c.x, y |-> c.y, z |-> c.z] PROVE FALSE
          <6>1. Here.x = c.x /\ Here.y = c.y /\ Here.z = c.z
            BY <5>1
          <6>2. ~Beyond
            BY <4>4, <6>1 DEF Beyond, Below
          <6>3. Below.blocks[Here.z] = OPEN
            BY <6>2 DEF SetBlock, Free
          <6>4. i = OPEN
            BY <4>1, <6>1, <6>3 DEF Below
          <6>5. QED
            BY <1>4, <6>4 DEF OPEN
        <5>2. QED
          BY <5>1
      <4>6. QED
        <5>. DEFINE x == c.x
                    y == c.y
                    z == c.z
        <5>1. /\ x \in 0 .. nx + 1 /\ y \in 0 .. ny + 1 /\ Made(x, y).offset = 0
              /\ z \in DOMAIN grid[x][y].blocks /\ Here # [x |-> x, y |-> y, z |-> z]
              /\ grid[x][y].blocks[z] = i
          BY <4>1, <4>4, <4>5
        <5>. HIDE DEF x, y, z
        <5>2. grid'[x][y].blocks[z] = i
          BY <1>7, <5>1
        <5>3. QED
          BY <5>2 DEF x, y, z
    <3>4. QED
      BY <1>1, <1>3, <3>2, <3>3 DEF OnSite, TypeOf
  <2>3. QED
    BY <2>1, <2>2
<1>12. ASSUME NEW x \in 0 .. nx + 1, NEW y \in 0 .. ny + 1 PROVE Filled(x, y)'
  <2>1. ASSUME Made(x, y).offset = 0, NEW z \in DOMAIN grid[x][y].blocks,
               NEW i, i = grid'[x][y].blocks[z], i # OPEN
        PROVE  i \in Blocks /\ i < next_block + 1 /\ coords[i] = [x |-> x, y |-> y, z |-> z]
    <3>1. CASE Here = [x |-> x, y |-> y, z |-> z]
      <4>1. i = b
        BY <1>7, <2>1, <3>1
      <4>2. b < b + 1
        BY <1>4
      <4>3. QED
        BY <1>2, <1>10, <3>1, <4>1, <4>2
    <3>2. CASE Here # [x |-> x, y |-> y, z |-> z]
      <4>1. i = grid[x][y].blocks[z]
        BY <1>7, <2>1, <3>2
      <4>2. i \in Blocks /\ i < next_block /\ coords[i] = [x |-> x, y |-> y, z |-> z]
        BY <1>2, <2>1, <4>1 DEF Filled
      <4>3. i \in Nat
        BY <1>4, <4>2
      <4>4. QED
        BY <1>4, <4>2, <4>3
    <3>3. QED
      BY <3>1, <3>2
  <2>2. QED
    BY <1>1, <1>3, <1>9, <2>1 DEF Filled
<1>13. next_block' \in 1 .. Len(input'.blocks) + 1 /\ main' \notin GridIsFull /\ main' \in OnGrid
  BY <1>1, <1>2, <1>4 DEF GridIsFull, OnGrid
<1>14. QED
  BY <1>1, <1>2, <1>3, <1>8, <1>11, <1>12, <1>13 DEF GridInv

LEMMA GridStep ==
  ASSUME ReadInv, GridInv, [Next]_vars
  PROVE  GridInv'
<1>1. input' = input
  BY GridSteps
<1>2. CASE InitArch
  BY <1>2, GridMade
<1>3. CASE SetBlock
  BY <1>3, GridSet
<1>4. CASE build_place /\ UNCHANGED sites /\ main = "place" /\ main' \in {"place", "grid"} \cup (Ended \ {"done"})
  <2>1. next_block' = 1 /\ next_block' \in 1 .. Len(input'.blocks) + 1
    BY <1>1, <1>4 DEF GridInv, sites, OnGrid, Ended
  <2>2. main' \notin OnGrid /\ main' \notin GridIsFull
    BY <1>4 DEF OnGrid, GridIsFull, Ended
  <2>3. QED
    BY <2>1, <2>2 DEF GridInv
<1>5. CASE /\ UNCHANGED placement /\ UNCHANGED sites
           /\ main' \in OnGrid => main \in OnGrid
           /\ main' \notin OnGrid \cup Ended => main \notin OnGrid \cup Ended
           /\ main' \in GridIsFull => main \in GridIsFull \/ next_block = Len(input.blocks) + 1
  BY <1>1, <1>5, GridKept
<1>6. QED
  BY <1>2, <1>3, <1>4, <1>5, GridSteps

LEMMA PlacementHolds == Spec => [](ReadInv /\ GridInv)
<1>1. Init => ReadInv /\ GridInv
  BY ReadStart, GridStart
<1>2. ReadInv /\ GridInv /\ [Next]_vars => ReadInv' /\ GridInv'
  BY ReadStep, GridStep
<1>3. QED
  BY <1>1, <1>2, PTL DEF Spec

\* A block list is overrun by a block whose z is the capacity of its type.
OverrunInv == main = "overrun" => \E i \in Blocks : AtCapacity(i)

LEMMA OverrunAt ==
  ASSUME ReadInv, GridInv, Overrun
  PROVE  next_block \in Blocks /\ AtCapacity(next_block)
<1>1. /\ next_block \in Blocks /\ main = "sync" /\ GridSize /\ GridShape /\ input \in Inputs
  BY DEF Overrun, InSync, GridInv, OnGrid, ReadInv
<1>2. Here \in [x : Int, y : Int, z : Int] /\ Here = coords[next_block]
  BY <1>1, CoordsType DEF Here
<1>3. Here.x \in Int /\ Here.y \in Int /\ Here.z \in Int
  BY <1>2
<1>4. input.blocks[next_block].type \in DOMAIN Types /\ EMPTY_TYPE \notin DOMAIN Types
  BY <1>1, InputFacts, TypesAssumption
<1>. DEFINE h == TypeOf(next_block).height
            c == TypeOf(next_block).capacity
<1>5. h \in Nat \ {0} /\ c \in Nat
  BY <1>4, TypesAssumption DEF TypeOf
<1>6. /\ Here.x \in 0 .. nx + 1 /\ Here.y >= 0 /\ Here.y + h - 1 <= ny + 1 /\ Here.z \in 0 .. c
      /\ Here.z \notin DOMAIN Below.blocks
  BY DEF Overrun, InRange, Beyond
<1>7. Here.y \in 0 .. ny + 1
  <2>. HIDE DEF h
  <2>1. QED
    BY <1>1, <1>3, <1>5, <1>6 DEF GridSize
<1>8. IsTile(Below, Made(Here.x, Here.y))
  BY <1>1, <1>6, <1>7 DEF GridShape, Below
<1>9. Made(Here.x, Here.y).type = input.blocks[next_block].type
  BY <1>8 DEF Overrun, TypeFits, IsTile
<1>10. DOMAIN Below.blocks = 0 .. c - 1
  BY <1>1, <1>4, <1>6, <1>7, <1>8, <1>9, TileFacts DEF IsTile, TypeOf
<1>. HIDE DEF c
<1>11. Here.z = c
  BY <1>3, <1>5, <1>6, <1>10
<1>12. QED
  BY <1>1, <1>2, <1>11 DEF AtCapacity, c

LEMMA OverrunOnly ==
  ASSUME [Next]_vars, main' = "overrun"
  PROVE  Overrun \/ (main = "overrun" /\ UNCHANGED vars)
<1>1. CASE read_options
  BY <1>1 DEF read_options, Usage, Start, ReadName, ReadOption, NoValue, ReadUnknown, NameFiles,
              NoCircuit, InOptions, Stop
<1>2. CASE ReadPart
  BY <1>2 DEF ReadPart, After
<1>3. CASE build_place
  BY <1>3 DEF build_place, BadHeading, Heading, UnknownBlock, ShortLine, PlaceBlock, EndOfPlace,
              InPlace, Stop
<1>4. CASE NoGrid \/ InitArch
  BY <1>4 DEF NoGrid, InitArch, Stop
<1>5. CASE sync_grid_to_blocks
  BY <1>5 DEF sync_grid_to_blocks, BadLocation, SetBlock, Synced, InSync, Stop
<1>6. CASE NoLibrary \/ read_power_lib
  BY <1>6 DEF NoLibrary, read_power_lib, Stop
<1>7. CASE power_complex_block
  BY <1>7 DEF power_complex_block, SkipTile, UnnamedTile, CountTile, PrintEstimate, InPower, Stop
<1>8. CASE UNCHANGED vars
  BY <1>8 DEF vars
<1>9. QED
  BY <1>1, <1>2, <1>3, <1>4, <1>5, <1>6, <1>7, <1>8 DEF Next

LEMMA OverrunStep ==
  ASSUME ReadInv, GridInv, OverrunInv, [Next]_vars
  PROVE  OverrunInv'
<1>1. SUFFICES ASSUME main' = "overrun" PROVE (\E i \in Blocks : AtCapacity(i))'
  BY DEF OverrunInv
<1>2. CASE Overrun
  <2>1. next_block \in Blocks /\ AtCapacity(next_block)
    BY <1>2, OverrunAt
  <2>2. input' = input /\ coords' = coords
    BY <1>2 DEF Overrun, Stop, placement
  <2>3. QED
    BY <2>1, <2>2 DEF AtCapacity, TypeOf, Blocks
<1>3. CASE main = "overrun" /\ UNCHANGED vars
  <2>1. \E i \in Blocks : AtCapacity(i)
    BY <1>3 DEF OverrunInv
  <2>2. input' = input /\ coords' = coords
    BY <1>3 DEF vars, placement
  <2>3. QED
    BY <2>1, <2>2 DEF AtCapacity, TypeOf, Blocks
<1>4. QED
  BY <1>1, <1>2, <1>3, OverrunOnly

LEMMA OverrunHolds == Spec => []OverrunInv
<1>1. Init => OverrunInv
  BY DEF Init, OverrunInv
<1>2. ReadInv /\ GridInv /\ OverrunInv /\ [Next]_vars => OverrunInv'
  BY OverrunStep
<1>3. QED
  BY <1>1, <1>2, PlacementHolds, PTL DEF Spec

\* Once every block is set, each is on a site.
LEMMA AllOnSite ==
  ASSUME ReadInv, GridInv, main \in GridIsFull
  PROVE  \A i \in Blocks : OnSite(i)
<1>1. /\ \A i \in Blocks : i < next_block => OnSite(i)
      /\ next_block = Len(input.blocks) + 1 /\ input \in Inputs
  BY DEF GridInv, GridIsFull, OnGrid, ReadInv
<1>2. Len(input.blocks) \in Nat /\ Blocks = 1 .. Len(input.blocks)
  BY <1>1, InputFacts
<1>3. \A i \in Blocks : i < next_block
  BY <1>1, <1>2
<1>4. QED
  BY <1>1, <1>3

\* When every block is on a site, each has a line of the placement file, its last one is
\* where it is, and only a z beyond the site lets two blocks be in one place: no block can be
\* in the corner where those without a line stay.
LEMMA NamedByThen ==
  ASSUME ReadInv, GridInv, OverrunInv
  PROVE  PlacedWhereNamed
<1>1. SUFFICES ASSUME main \in GridIsFull, NEW i \in Blocks, ~AtCapacity(i)
               PROVE  LET lines == {l \in DOMAIN place.lines : place.lines[l].name = input.blocks[i].name}
                          last == place.lines[Max(lines)]
                      IN /\ lines # {}
                         /\ coords[i] = [x |-> last.x, y |-> last.y, z |-> last.z]
                         /\ grid[last.x][last.y].blocks[last.z] = i
                         /\ \A j \in Blocks \ {i} : coords[j] # coords[i]
  BY DEF PlacedWhereNamed, GridIsFull, OverrunInv
<1>. DEFINE lines == LinesBefore(input, i, Len(input.place.lines) + 1)
            last == input.place.lines[Max(lines)]
<1>2. main \in OnGrid /\ input \in Inputs
  BY <1>1 DEF GridIsFull, OnGrid, ReadInv
<1>3. /\ Len(input.place.lines) \in Nat /\ DOMAIN input.place.lines = 1 .. Len(input.place.lines)
      /\ Blocks = 1 .. Len(input.blocks) /\ Len(input.blocks) \in Nat
      /\ \A j \in Blocks : input.blocks[j].type \in DOMAIN Types
  BY <1>2, InputFacts
<1>4. lines = {l \in DOMAIN place.lines : place.lines[l].name = input.blocks[i].name}
  <2>1. \A l \in DOMAIN input.place.lines : l < Len(input.place.lines) + 1
    BY <1>3
  <2>2. QED
    BY <2>1 DEF LinesBefore, place
<1>5. /\ GridSize /\ GridShape /\ next_block = Len(input.blocks) + 1
      /\ \A j \in Blocks : j < next_block => OnSite(j)
  BY <1>1, <1>2 DEF GridInv
<1>6. \A j \in Blocks : OnSite(j)
  <2>1. \A j \in Blocks : j < next_block
    BY <1>3, <1>5
  <2>2. QED
    BY <1>5, <2>1
<1>7. coords[i] = CoordsAt(input, i, Len(input.place.lines) + 1)
  BY <1>2 DEF ReadInv
<1>8. coords[i] # Origin
  <2>1. ASSUME coords[i] = Origin PROVE FALSE
    <3>1. Made(0, 0).type = input.blocks[i].type
      BY <1>6, <2>1 DEF OnSite, Origin
    <3>2. 0 \in 0 .. nx + 1 /\ 0 \in 0 .. ny + 1
      BY <1>5 DEF GridSize
    <3>3. Made(0, 0).type = EMPTY_TYPE
      BY <1>5, <3>2, TileFacts
    <3>4. QED
      BY <1>3, <3>1, <3>3, TypesAssumption
  <2>2. QED
    BY <2>1
<1>9. lines # {} /\ coords[i] = CoordsOf(last)
  BY <1>7, <1>8 DEF CoordsAt
<1>10. /\ grid[last.x][last.y].blocks[last.z] = i
       /\ \A j \in Blocks \ {i} : coords[j] # coords[i]
  <2>1. coords[i].x = last.x /\ coords[i].y = last.y /\ coords[i].z = last.z
    BY <1>9 DEF CoordsOf
  <2>2. TypeOf(i).capacity \in Nat
    BY <1>3, TypesAssumption DEF TypeOf
  <2>3. coords[i].z \in 0 .. TypeOf(i).capacity
    BY <1>6 DEF OnSite
  <2>4. coords[i].z < TypeOf(i).capacity
    BY <1>1, <2>1, <2>2, <2>3 DEF AtCapacity
  <2>5. grid[coords[i].x][coords[i].y].blocks[coords[i].z] = i
    BY <1>6, <2>4 DEF OnSite
  <2>6. ASSUME NEW j \in Blocks, coords[j] = coords[i] PROVE j = i
    <3>1. input.blocks[j].type = input.blocks[i].type
      BY <1>6, <2>6 DEF OnSite
    <3>2. coords[j].z < TypeOf(j).capacity
      BY <2>4, <2>6, <3>1 DEF TypeOf
    <3>3. grid[coords[j].x][coords[j].y].blocks[coords[j].z] = j
      BY <1>6, <3>2 DEF OnSite
    <3>4. QED
      BY <2>5, <2>6, <3>3
  <2>7. QED
    BY <2>1, <2>5, <2>6
<1>11. place.lines = input.place.lines
  BY DEF place
<1>12. QED
  BY <1>4, <1>9, <1>10, <1>11 DEF CoordsOf

\* Whatever the placement file holds, and whatever the architecture, an estimate is of the
\* placement the file names (build_place of read_place.c, sync_grid_to_blocks of vpr_utils.c).
THEOREM BlocksPlacedWhereNamed == Spec => []PlacedWhereNamed
<1>1. ReadInv /\ GridInv /\ OverrunInv => PlacedWhereNamed
  BY NamedByThen
<1>2. QED
  BY <1>1, PlacementHolds, OverrunHolds, PTL

-----------------------------------------------------------------------------
(* The walk over the sites *)

\* A site is a cell of the first tile of a complex block.
SiteType(s) == Made(s[1][1], s[1][2]).type
Sites ==
  {s \in ((0 .. nx + 1) \X (0 .. ny + 1)) \X (0 .. Types[IO_TYPE].capacity) :
     /\ Made(s[1][1], s[1][2]).offset = 0 /\ SiteType(s) # EMPTY_TYPE
     /\ s[2] \in 0 .. Types[SiteType(s)].capacity - 1}
BlockOn(s) == grid[s[1][1]][s[1][2]].blocks[s[2]]
PbOn(s) == IF BlockOn(s) = OPEN THEN NoPb ELSE input.blocks[BlockOn(s)].pb
PartsOn(s) ==
  BlockParts(Types[SiteType(s)].node, PbOn(s), instances[EntryFor(SiteType(s), instances)], input.lib.mux_size)
BitsOn == [s \in Sites |-> Bits(PartsOn(s))]
MuxesOn == [s \in Sites |-> Muxes(PartsOn(s))]

\* The sites of the library's types on the tiles before a place.
Before(tile, a) == tile[1] < a.x \/ (tile[1] = a.x /\ tile[2] < a.y)
Visited(a) == {s \in Sites : Before(s[1], a) /\ EntryFor(SiteType(s), instances) # 0}

Walking == {"power", "done"}
WalkInv ==
  /\ main \in Walking =>
       /\ \E unset \in Unset :
            instances = [e \in DOMAIN input.lib.instances |-> LoadedEntry(input.lib.instances[e], unset)]
       /\ at = [x |-> at.x, y |-> at.y] /\ at.x \in 0 .. nx + 2 /\ at.y \in 0 .. ny + 1
       /\ \A s \in Visited(at) : Bits(PartsOn(s)) \in Nat /\ Muxes(PartsOn(s)) \in Nat
       /\ logic_conf_bits = Sum(BitsOn, Visited(at))
       /\ num_muxes = Sum(MuxesOn, Visited(at))
       /\ counted = [i \in Blocks |-> Cardinality({s \in Visited(at) : BlockOn(s) = i})]
  /\ main = "done" => at.x = nx + 2
  /\ main \notin {"power"} \cup Ended =>
       logic_conf_bits = 0 /\ num_muxes = 0 /\ counted = [i \in Blocks |-> 0]
  /\ logic_conf_bits \in Nat /\ num_muxes \in Nat /\ DOMAIN counted = Blocks

LEMMA SiteFacts ==
  ASSUME GridSize
  PROVE  /\ IsFiniteSet(Sites)
         /\ \A s \in Sites : SiteType(s) \in DOMAIN Types
         /\ \A s \in Sites : s = <<<<s[1][1], s[1][2]>>, s[2]>> /\ s[1] = <<s[1][1], s[1][2]>>
                             /\ s[1][1] \in 0 .. nx + 1 /\ s[1][2] \in 0 .. ny + 1
         /\ \A x \in 0 .. nx + 1, y \in 0 .. ny + 1 : \A z :
              <<<<x, y>>, z>> \in Sites <=>
                /\ Made(x, y).offset = 0 /\ Made(x, y).type # EMPTY_TYPE
                /\ z \in 0 .. Types[Made(x, y).type].capacity - 1
<1>. DEFINE Places == ((0 .. nx + 1) \X (0 .. ny + 1)) \X (0 .. Types[IO_TYPE].capacity)
<1>1. Types[IO_TYPE].capacity \in Nat /\ IO_TYPE \in DOMAIN Types
  BY TypesAssumption
<1>2. IsFiniteSet(Places)
  <2>1. IsFiniteSet(0 .. nx + 1) /\ IsFiniteSet(0 .. ny + 1) /\ IsFiniteSet(0 .. Types[IO_TYPE].capacity)
    BY <1>1, FS_Interval DEF GridSize
  <2>2. IsFiniteSet((0 .. nx + 1) \X (0 .. ny + 1))
    BY <2>1, FS_Product
  <2>3. QED
    BY <2>1, <2>2, FS_Product
<1>3. Sites \subseteq Places
  BY DEF Sites
<1>4. IsFiniteSet(Sites)
  BY <1>2, <1>3, FS_Subset
<1>5. \A s \in Sites : s = <<<<s[1][1], s[1][2]>>, s[2]>> /\ s[1] = <<s[1][1], s[1][2]>>
                       /\ s[1][1] \in 0 .. nx + 1 /\ s[1][2] \in 0 .. ny + 1
  BY <1>3
<1>6. ASSUME NEW s \in Sites PROVE SiteType(s) \in DOMAIN Types
  <2>1. s[1][1] \in 0 .. nx + 1 /\ s[1][2] \in 0 .. ny + 1
    BY <1>5
  <2>2. SiteType(s) # EMPTY_TYPE
    BY DEF Sites
  <2>3. QED
    BY <2>1, <2>2, TileFacts DEF SiteType
<1>7. ASSUME NEW x \in 0 .. nx + 1, NEW y \in 0 .. ny + 1, NEW z,
             Made(x, y).type # EMPTY_TYPE, z \in 0 .. Types[Made(x, y).type].capacity - 1
      PROVE  z \in 0 .. Types[IO_TYPE].capacity
  <2>0. \A t, o, c : Tile(t, o, c).type = t
    BY DEF Tile
  <2>1. Made(x, y).type = IO_TYPE \/ Types[Made(x, y).type].capacity = 1
    BY <1>7, <2>0, Tiles DEF Corner, Pads
  <2>2. QED
    BY <1>1, <1>7, <2>1
<1>8. ASSUME NEW x \in 0 .. nx + 1, NEW y \in 0 .. ny + 1, NEW z
      PROVE  <<<<x, y>>, z>> \in Sites <=>
               /\ Made(x, y).offset = 0 /\ Made(x, y).type # EMPTY_TYPE
               /\ z \in 0 .. Types[Made(x, y).type].capacity - 1
  BY <1>7 DEF Sites, SiteType
<1>9. QED
  BY <1>4, <1>5, <1>6, <1>8

\* The tile at hand.
LEMMA TileAtHand ==
  ASSUME ReadInv, GridInv, WalkInv, InPower
  PROVE  /\ GridSize /\ GridShape /\ at.x \in 0 .. nx + 1 /\ at.y \in 0 .. ny + 1
         /\ IsTile(TheTile, Made(at.x, at.y)) /\ TheTile.offset \in Nat
         /\ ~NoSite <=> Made(at.x, at.y).offset = 0 /\ Made(at.x, at.y).type # EMPTY_TYPE
         /\ TheTile.type = Made(at.x, at.y).type
         /\ ~NoSite => /\ TheTile.type \in DOMAIN Types
                       /\ Cells \subseteq Nat /\ IsFiniteSet(Cells) /\ DOMAIN TheTile.blocks = Cells
<1>1. main = "power" /\ at.x <= nx + 1
  BY DEF InPower
<1>2. GridSize /\ GridShape
  BY <1>1 DEF GridInv, OnGrid
<1>3. at.x \in 0 .. nx + 2 /\ at.y \in 0 .. ny + 1
  BY <1>1 DEF WalkInv, Walking
<1>4. at.x \in 0 .. nx + 1
  BY <1>1, <1>2, <1>3 DEF GridSize
<1>5. IsTile(TheTile, Made(at.x, at.y))
  BY <1>2, <1>3, <1>4 DEF GridShape, TheTile
<1>6. TheTile.type = Made(at.x, at.y).type /\ TheTile.offset = Made(at.x, at.y).offset
      /\ DOMAIN TheTile.blocks = DOMAIN Made(at.x, at.y).blocks
  BY <1>5 DEF IsTile
<1>7. ASSUME Made(at.x, at.y).type # EMPTY_TYPE
      PROVE  Made(at.x, at.y).type \in DOMAIN Types /\ DOMAIN Made(at.x, at.y).blocks = Cells
  BY <1>2, <1>3, <1>4, <1>6, <1>7, TileFacts DEF Cells
<1>8. ASSUME Made(at.x, at.y).type \in DOMAIN Types PROVE Cells \subseteq Nat /\ IsFiniteSet(Cells)
  <2>1. Types[TheTile.type].capacity \in Nat
    BY <1>6, <1>8, TypesAssumption
  <2>2. \A c \in Nat : 0 .. c - 1 \subseteq Nat /\ c - 1 \in Int
    OBVIOUS
  <2>3. QED
    BY <2>1, <2>2, FS_Interval DEF Cells
<1>9. TheTile.offset \in Nat
  BY <1>2, <1>3, <1>4, <1>6, TileFacts
<1>10. QED
  BY <1>2, <1>3, <1>4, <1>5, <1>6, <1>7, <1>8, <1>9 DEF NoSite

\* The next tile is the next one of the column, or the first of the next column.
LEMMA NextPlace ==
  ASSUME ReadInv, GridInv, WalkInv, InPower, NextTile
  PROVE  /\ at' = [x |-> at'.x, y |-> at'.y] /\ at'.x \in 0 .. nx + 2 /\ at'.y \in 0 .. ny + 1
         /\ \A x \in 0 .. nx + 1, y \in 0 .. ny + 1 :
              Before(<<x, y>>, at') <=> Before(<<x, y>>, at) \/ <<x, y>> = <<at.x, at.y>>
         /\ ~Before(<<at.x, at.y>>, at)
<1>1. at.x \in 0 .. nx + 1 /\ at.y \in 0 .. ny + 1 /\ nx \in Int /\ ny \in Int
  BY TileAtHand DEF GridSize
<1>2. at = [x |-> at.x, y |-> at.y]
  BY DEF WalkInv, InPower, Walking
<1>3. ~Before(<<at.x, at.y>>, at)
  BY <1>1 DEF Before
<1>4. CASE at.y = ny + 1
  <2>1. at' = [x |-> at.x + 1, y |-> 0]
    BY <1>4 DEF NextTile
  <2>2. at'.x = at.x + 1 /\ at'.y = 0
    BY <2>1
  <2>3. ASSUME NEW x \in 0 .. nx + 1, NEW y \in 0 .. ny + 1
        PROVE  Before(<<x, y>>, at') <=> Before(<<x, y>>, at) \/ <<x, y>> = <<at.x, at.y>>
    BY <1>1, <1>4, <2>2 DEF Before
  <2>4. QED
    BY <1>1, <1>3, <2>1, <2>2, <2>3
<1>5. CASE at.y # ny + 1
  <2>1. at' = [at EXCEPT !.y = at.y + 1]
    BY <1>5 DEF NextTile
  <2>2. at'.x = at.x /\ at'.y = at.y + 1 /\ at' = [x |-> at'.x, y |-> at'.y]
    BY <1>2, <2>1
  <2>3. ASSUME NEW x \in 0 .. nx + 1, NEW y \in 0 .. ny + 1
        PROVE  Before(<<x, y>>, at') <=> Before(<<x, y>>, at) \/ <<x, y>> = <<at.x, at.y>>
    BY <1>1, <2>2 DEF Before
  <2>4. QED
    BY <1>1, <1>3, <1>5, <2>2, <2>3
<1>6. QED
  BY <1>4, <1>5

\* The sites visited once the tile at hand is: none but its own are added.
LEMMA NextVisited ==
  ASSUME ReadInv, GridInv, WalkInv, InPower, NextTile
  PROVE  /\ NoSite \/ Entry = 0 => Visited(at') = Visited(at)
         /\ ~NoSite /\ Entry # 0 =>
              /\ Visited(at') = Visited(at) \cup {<<<<at.x, at.y>>, z>> : z \in Cells}
              /\ Visited(at) \cap {<<<<at.x, at.y>>, z>> : z \in Cells} = {}
              /\ {<<<<at.x, at.y>>, z>> : z \in Cells} \subseteq Sites
<1>. DEFINE tile == <<at.x, at.y>>
<1>1. /\ GridSize /\ at.x \in 0 .. nx + 1 /\ at.y \in 0 .. ny + 1
      /\ ~NoSite <=> Made(at.x, at.y).offset = 0 /\ Made(at.x, at.y).type # EMPTY_TYPE
      /\ TheTile.type = Made(at.x, at.y).type
  BY TileAtHand
<1>2. ASSUME NEW s \in Sites
      PROVE  (Before(s[1], at') <=> Before(s[1], at) \/ s[1] = tile) /\ ~Before(tile, at)
  BY <1>1, SiteFacts, NextPlace
<1>3. ASSUME NEW s \in Sites, s[1] = tile
      PROVE  /\ ~NoSite /\ SiteType(s) = TheTile.type /\ s = <<tile, s[2]>> /\ s[2] \in Cells
  <2>1. s[1][1] = at.x /\ s[1][2] = at.y
    BY <1>3
  <2>2. SiteType(s) = TheTile.type
    BY <1>1, <2>1 DEF SiteType
  <2>3. s = <<tile, s[2]>>
    BY <1>1, <1>3, SiteFacts
  <2>4. Made(at.x, at.y).offset = 0 /\ SiteType(s) # EMPTY_TYPE /\ s[2] \in 0 .. Types[SiteType(s)].capacity - 1
    BY <2>1 DEF Sites
  <2>5. QED
    BY <1>1, <2>2, <2>3, <2>4 DEF Cells
<1>4. ASSUME ~NoSite, NEW z \in Cells
      PROVE  <<tile, z>> \in Sites /\ SiteType(<<tile, z>>) = TheTile.type
  <2>1. <<tile, z>> \in Sites
    BY <1>1, <1>4, SiteFacts DEF Cells
  <2>2. QED
    BY <1>1, <2>1 DEF SiteType
<1>. HIDE DEF tile
<1>5. ASSUME NoSite \/ Entry = 0 PROVE Visited(at') = Visited(at)
  <2>1. ASSUME NEW s \in Sites, s[1] = tile PROVE EntryFor(SiteType(s), instances) = 0
    BY <1>3, <1>5, <2>1 DEF Entry
  <2>2. QED
    BY <1>2, <2>1 DEF Visited
<1>6. ASSUME ~NoSite, Entry # 0
      PROVE  /\ Visited(at') = Visited(at) \cup {<<tile, z>> : z \in Cells}
             /\ Visited(at) \cap {<<tile, z>> : z \in Cells} = {}
             /\ {<<tile, z>> : z \in Cells} \subseteq Sites
  <2>1. ASSUME NEW s \in Sites
        PROVE  s[1] = tile <=> s \in {<<tile, z>> : z \in Cells}
    BY <1>3
  <2>2. \A s \in {<<tile, z>> : z \in Cells} : s \in Sites /\ s[1] = tile /\ SiteType(s) = TheTile.type
    BY <1>4, <1>6
  <2>3. ASSUME NEW s PROVE s \in Visited(at') <=> s \in Visited(at) \/ s \in {<<tile, z>> : z \in Cells}
    BY <1>2, <1>6, <2>1, <2>2 DEF Visited, Entry
  <2>4. ASSUME NEW s \in Visited(at) PROVE s \notin {<<tile, z>> : z \in Cells}
    BY <1>2, <2>1 DEF Visited
  <2>5. QED
    BY <2>2, <2>3, <2>4
<1>7. QED
  BY <1>5, <1>6 DEF tile

\* Counting the cells of a tile adds up to counting its sites.
LEMMA VisitedSum ==
  ASSUME ReadInv, GridInv, WalkInv, InPower, NextTile, ~NoSite, Entry # 0,
         NEW f, Numbers(f, Visited(at)), NEW g, DOMAIN g = Cells, Numbers(g, Cells),
         \A z \in Cells : g[z] = f[<<<<at.x, at.y>>, z>>]
  PROVE  /\ Numbers(f, Visited(at'))
         /\ Sum(f, Visited(at')) = Sum(f, Visited(at)) + SumFunction(g)
<1>. DEFINE V == Visited(at)
            W == Visited(at')
            h == [z \in Cells |-> <<<<at.x, at.y>>, z>>]
            H == {h[z] : z \in Cells}
<1>1. W = V \cup H /\ V \cap H = {}
  BY NextVisited
<1>2. IsFiniteSet(Sites) /\ W \subseteq Sites /\ V \subseteq W
  BY <1>1, TileAtHand, SiteFacts DEF Visited
<1>3. IsFiniteSet(W)
  BY <1>2, FS_Subset
<1>4. \A z \in Cells : g[z] = f[h[z]]
  OBVIOUS
<1>5. \A y, z \in Cells : h[y] = h[z] => y = z
  OBVIOUS
<1>6. IsFiniteSet(Cells)
  BY TileAtHand
<1>. HIDE DEF h, V, W
<1>7. Sum(g, Cells) = Sum(f, H)
  BY <1>4, <1>5, <1>6, SumImage
<1>8. Numbers(f, H)
  BY <1>4 DEF Numbers
<1>9. Numbers(f, V)
  BY DEF V
<1>. HIDE DEF H
<1>10. Numbers(f, W)
  BY <1>1, <1>8, <1>9 DEF Numbers
<1>11. Sum(f, W) = Sum(f, V) + Sum(f, W \ V)
  BY <1>2, <1>3, <1>10, SumSplit
<1>12. W \ V = H
  BY <1>1
<1>13. SumFunction(g) = Sum(g, Cells)
  BY DEF SumFunction, Sum
<1>14. QED
  BY <1>7, <1>10, <1>11, <1>12, <1>13 DEF V, W

\* The block on a site is of the site's type and has its coordinates.
LEMMA BlockOnSite ==
  ASSUME ReadInv, GridInv, main \in OnGrid, NEW s \in Sites, BlockOn(s) # OPEN
  PROVE  /\ BlockOn(s) \in Blocks /\ input.blocks[BlockOn(s)].type = SiteType(s)
         /\ coords[BlockOn(s)] = [x |-> s[1][1], y |-> s[1][2], z |-> s[2]]
<1>1. /\ GridSize /\ GridShape
      /\ \A i \in Blocks : i < next_block => OnSite(i)
      /\ \A x \in 0 .. nx + 1, y \in 0 .. ny + 1 : Filled(x, y)
  BY DEF GridInv
<1>2. s[1][1] \in 0 .. nx + 1 /\ s[1][2] \in 0 .. ny + 1
  BY <1>1, SiteFacts
<1>3. /\ Made(s[1][1], s[1][2]).offset = 0 /\ SiteType(s) # EMPTY_TYPE
      /\ s[2] \in 0 .. Types[SiteType(s)].capacity - 1
  BY DEF Sites
<1>4. s[2] \in DOMAIN grid[s[1][1]][s[1][2]].blocks
  <2>1. DOMAIN grid[s[1][1]][s[1][2]].blocks = DOMAIN Made(s[1][1], s[1][2]).blocks
    BY <1>1, <1>2 DEF GridShape, IsTile
  <2>2. DOMAIN Made(s[1][1], s[1][2]).blocks = 0 .. Types[Made(s[1][1], s[1][2]).type].capacity - 1
    BY <1>1, <1>2, <1>3, TileFacts DEF SiteType
  <2>3. s[2] \in 0 .. Types[Made(s[1][1], s[1][2]).type].capacity - 1
    BY <1>3 DEF SiteType
  <2>4. QED
    BY <2>1, <2>2, <2>3
<1>5. /\ BlockOn(s) \in Blocks /\ BlockOn(s) < next_block
      /\ coords[BlockOn(s)] = [x |-> s[1][1], y |-> s[1][2], z |-> s[2]]
  <2>. DEFINE x == s[1][1]
              y == s[1][2]
              z == s[2]
  <2>1. /\ Filled(x, y) /\ Made(x, y).offset = 0 /\ z \in DOMAIN grid[x][y].blocks
        /\ grid[x][y].blocks[z] # OPEN /\ BlockOn(s) = grid[x][y].blocks[z]
    BY <1>1, <1>2, <1>3, <1>4 DEF BlockOn
  <2>. HIDE DEF x, y, z
  <2>2. /\ BlockOn(s) \in Blocks /\ BlockOn(s) < next_block
        /\ coords[BlockOn(s)] = [x |-> x, y |-> y, z |-> z]
    BY <2>1 DEF Filled
  <2>3. QED
    BY <2>2 DEF x, y, z
<1>6. OnSite(BlockOn(s))
  BY <1>1, <1>5
<1>7. Made(s[1][1], s[1][2]).type = input.blocks[BlockOn(s)].type
  BY <1>5, <1>6 DEF OnSite
<1>8. QED
  BY <1>5, <1>7 DEF SiteType

\* What is found at a cell of the tile at hand is what is on the site.
LEMMA PartsHere ==
  ASSUME ReadInv, GridInv, WalkInv, InPower, ~NoSite, Entry # 0, NEW z \in Cells
  PROVE  /\ PartsAt(z) = PartsOn(<<<<at.x, at.y>>, z>>)
         /\ BlockAt(z) = BlockOn(<<<<at.x, at.y>>, z>>)
         /\ <<<<at.x, at.y>>, z>> \in Sites
         /\ ~NeverEnds(Types[TheTile.type].node, PbAt(z), instances[Entry], input.lib.mux_size) =>
              Bits(PartsAt(z)) \in Nat /\ Muxes(PartsAt(z)) \in Nat
<1>. DEFINE s == <<<<at.x, at.y>>, z>>
            t == TheTile.type
<1>1. /\ GridSize /\ at.x \in 0 .. nx + 1 /\ at.y \in 0 .. ny + 1
      /\ Made(at.x, at.y).offset = 0 /\ Made(at.x, at.y).type # EMPTY_TYPE
      /\ t = Made(at.x, at.y).type /\ t \in DOMAIN Types
  BY TileAtHand
<1>2. s \in Sites
  BY <1>1, SiteFacts DEF Cells
<1>3. s[1][1] = at.x /\ s[1][2] = at.y /\ s[2] = z
  OBVIOUS
<1>. HIDE DEF s
<1>4. BlockAt(z) = BlockOn(s) /\ SiteType(s) = t
  BY <1>1, <1>3 DEF BlockAt, BlockOn, SiteType, TheTile
<1>. HIDE DEF t
<1>5. PbAt(z) = PbOn(s)
  BY <1>4 DEF PbAt, PbOn
<1>6. PartsAt(z) = PartsOn(s)
  BY <1>4, <1>5 DEF PartsAt, PartsOn, Entry, t
<1>7. main \in OnGrid /\ main \in Walking /\ input \in Inputs
  BY DEF InPower, OnGrid, Walking, ReadInv
<1>8. PbAt(z) \in {NoPb} \cup {input.blocks[b].pb : b \in {c \in DOMAIN input.blocks : input.blocks[c].type = t}}
  <2>1. CASE BlockOn(s) = OPEN
    BY <1>4, <2>1 DEF PbAt
  <2>2. CASE BlockOn(s) # OPEN
    <3>1. BlockOn(s) \in Blocks /\ input.blocks[BlockOn(s)].type = t
      BY <1>2, <1>4, <1>7, <2>2, BlockOnSite
    <3>2. PbAt(z) = input.blocks[BlockOn(s)].pb
      BY <1>4, <2>2 DEF PbAt
    <3>3. QED
      BY <3>1, <3>2 DEF Blocks
  <2>3. QED
    BY <2>1, <2>2
<1>9. PICK unset \in Unset :
        instances = [e \in DOMAIN input.lib.instances |-> LoadedEntry(input.lib.instances[e], unset)]
  BY <1>7 DEF WalkInv
<1>10. Entry = EntryFor(t, instances)
  BY DEF Entry, t
<1>11. \A pb \in {NoPb} \cup {input.blocks[b].pb : b \in {c \in DOMAIN input.blocks : input.blocks[c].type = t}} :
         \/ NeverEnds(Types[t].node, pb, instances[Entry], input.lib.mux_size)
         \/ /\ Bits(BlockParts(Types[t].node, pb, instances[Entry], input.lib.mux_size)) \in Nat
            /\ Muxes(BlockParts(Types[t].node, pb, instances[Entry], input.lib.mux_size)) \in Nat
  BY <1>1, <1>7, <1>9, <1>10, PartsAssumption
<1>12. \/ NeverEnds(Types[t].node, PbAt(z), instances[Entry], input.lib.mux_size)
       \/ Bits(PartsAt(z)) \in Nat /\ Muxes(PartsAt(z)) \in Nat
  BY <1>8, <1>11 DEF PartsAt, t
<1>13. QED
  BY <1>2, <1>4, <1>6, <1>12 DEF s, t

\* Only the walk itself changes what its sums are over.
LEMMA WalkSame ==
  ASSUME input' = input, UNCHANGED placement, UNCHANGED sites, instances' = instances
  PROVE  /\ Sites' = Sites /\ Visited(at)' = Visited(at') /\ BitsOn' = BitsOn /\ MuxesOn' = MuxesOn
         /\ \A s : PartsOn(s)' = PartsOn(s) /\ BlockOn(s)' = BlockOn(s)
<1>1. /\ nx' = nx /\ ny' = ny /\ grid' = grid
  BY DEF placement, sites
<1>2. \A x, y : Made(x, y)' = Made(x, y)
  BY <1>1, MadeSame
<1>3. \A s : SiteType(s)' = SiteType(s) /\ BlockOn(s)' = BlockOn(s)
  BY <1>1, <1>2 DEF SiteType, BlockOn
<1>4. Sites' = Sites
  BY <1>1, <1>2, <1>3 DEF Sites
<1>5. \A s : PbOn(s)' = PbOn(s)
  BY <1>3 DEF PbOn
<1>6. \A s : PartsOn(s)' = PartsOn(s)
  BY <1>3, <1>5 DEF PartsOn
<1>7. BitsOn' = BitsOn /\ MuxesOn' = MuxesOn
  BY <1>4, <1>6 DEF BitsOn, MuxesOn
<1>8. Visited(at)' = Visited(at')
  BY <1>3, <1>4 DEF Visited
<1>9. QED
  BY <1>3, <1>4, <1>6, <1>7, <1>8

LEMMA WalkStart ==
  ASSUME Init
  PROVE  WalkInv
BY DEF Init, WalkInv, Walking, Ended

\* Before the walk and after it the counts stand still.
LEMMA WalkIdle ==
  ASSUME WalkInv, input' = input, UNCHANGED estimate, main' \notin Walking,
         main' \notin Ended => main \notin {"power"} \cup Ended
  PROVE  WalkInv'
<1>1. /\ at' = at /\ counted' = counted /\ logic_conf_bits' = logic_conf_bits /\ num_muxes' = num_muxes
      /\ Blocks' = Blocks
  BY DEF estimate, Blocks
<1>2. main' # "done" /\ main' # "power"
  BY DEF Walking
<1>3. main' \notin {"power"} \cup Ended =>
        logic_conf_bits = 0 /\ num_muxes = 0 /\ counted = [i \in Blocks |-> 0]
  BY DEF WalkInv
<1>4. QED
  BY <1>1, <1>2, <1>3 DEF WalkInv

\* A step of the walk that adds nothing.
LEMMA WalkOn ==
  ASSUME WalkInv, main \in Walking, main' \in Walking, input' = input, UNCHANGED placement, UNCHANGED sites,
         instances' = instances, counted' = counted, logic_conf_bits' = logic_conf_bits, num_muxes' = num_muxes,
         at' = [x |-> at'.x, y |-> at'.y], at'.x \in 0 .. nx + 2, at'.y \in 0 .. ny + 1,
         Visited(at') = Visited(at), main' = "done" => at'.x = nx + 2
  PROVE  WalkInv'
<1>1. /\ Visited(at)' = Visited(at) /\ BitsOn' = BitsOn /\ MuxesOn' = MuxesOn
      /\ \A s : PartsOn(s)' = PartsOn(s) /\ BlockOn(s)' = BlockOn(s)
  BY WalkSame
<1>2. nx' = nx /\ ny' = ny /\ Blocks' = Blocks
  BY DEF placement, Blocks
<1>3. /\ \E unset \in Unset :
           instances = [e \in DOMAIN input.lib.instances |-> LoadedEntry(input.lib.instances[e], unset)]
      /\ \A s \in Visited(at) : Bits(PartsOn(s)) \in Nat /\ Muxes(PartsOn(s)) \in Nat
      /\ logic_conf_bits = Sum(BitsOn, Visited(at))
      /\ num_muxes = Sum(MuxesOn, Visited(at))
      /\ counted = [i \in Blocks |-> Cardinality({s \in Visited(at) : BlockOn(s) = i})]
      /\ logic_conf_bits \in Nat /\ num_muxes \in Nat /\ DOMAIN counted = Blocks
  BY DEF WalkInv
<1>4. main' \in {"power"} \cup Ended
  BY DEF Walking, Ended
<1>5. \A s \in Visited(at)' : (Bits(PartsOn(s)) \in Nat /\ Muxes(PartsOn(s)) \in Nat)'
  BY <1>1, <1>3
<1>6. logic_conf_bits' = Sum(BitsOn', Visited(at)') /\ num_muxes' = Sum(MuxesOn', Visited(at)')
  BY <1>1, <1>3
<1>7. counted' = [i \in Blocks' |-> Cardinality({s \in Visited(at)' : BlockOn(s)' = i})]
  BY <1>1, <1>2, <1>3
<1>8. (\E unset \in Unset :
         instances = [e \in DOMAIN input.lib.instances |-> LoadedEntry(input.lib.instances[e], unset)])'
  BY <1>3
<1>9. logic_conf_bits' \in Nat /\ num_muxes' \in Nat /\ DOMAIN counted' = Blocks'
  BY <1>2, <1>3
<1>. HIDE DEF Walking
<1>10. QED
  BY <1>2, <1>4, <1>5, <1>6, <1>7, <1>8, <1>9 DEF WalkInv

LEMMA WalkBegins ==
  ASSUME ReadInv, GridInv, WalkInv, read_power_lib
  PROVE  WalkInv'
<1>1. /\ main = "lib" /\ main' = "power" /\ input' = input /\ at' = [x |-> 0, y |-> 0]
      /\ counted' = counted /\ logic_conf_bits' = logic_conf_bits /\ num_muxes' = num_muxes
      /\ nx' = nx /\ ny' = ny /\ Blocks' = Blocks
      /\ \E unset \in Unset :
           instances' = [e \in DOMAIN input.lib.instances |-> LoadedEntry(input.lib.instances[e], unset)]
  BY DEF read_power_lib, placement, Blocks
<1>2. logic_conf_bits = 0 /\ num_muxes = 0 /\ counted = [i \in Blocks |-> 0]
  BY <1>1 DEF WalkInv, Ended
<1>3. GridSize /\ GridSize'
  <2>1. GridSize
    BY <1>1 DEF GridInv, OnGrid
  <2>2. QED
    BY <1>1, <2>1, MadeSame
<1>4. Visited(at)' = {}
  <2>1. \A s \in Sites' : s[1][1] \in 0 .. nx + 1 /\ s[1][2] \in 0 .. ny + 1
    BY <1>1 DEF Sites
  <2>2. ASSUME NEW s \in Sites' PROVE ~Before(s[1], at')
    BY <1>1, <2>1 DEF Before
  <2>3. QED
    BY <2>2 DEF Visited
<1>5. Sum(BitsOn', Visited(at)') = 0 /\ Sum(MuxesOn', Visited(at)') = 0
  BY <1>4, SumEmpty
<1>6. ASSUME NEW i PROVE Cardinality({s \in Visited(at)' : BlockOn(s)' = i}) = 0
  BY <1>4, FS_EmptySet
<1>7. at'.x \in 0 .. nx + 2 /\ at'.y \in 0 .. ny + 1 /\ at' = [x |-> at'.x, y |-> at'.y]
  BY <1>1, <1>3 DEF GridSize
<1>8. \A s \in Visited(at)' : (Bits(PartsOn(s)) \in Nat /\ Muxes(PartsOn(s)) \in Nat)'
  BY <1>4
<1>9. counted' = [i \in Blocks' |-> Cardinality({s \in Visited(at)' : BlockOn(s)' = i})]
  BY <1>1, <1>2, <1>6
<1>10. (\E unset \in Unset :
         instances = [e \in DOMAIN input.lib.instances |-> LoadedEntry(input.lib.instances[e], unset)])'
  BY <1>1
<1>11. QED
  BY <1>1, <1>2, <1>5, <1>7, <1>8, <1>9, <1>10 DEF WalkInv

LEMMA WalkCounts ==
  ASSUME ReadInv, GridInv, WalkInv, CountTile, main' # "crashed"
  PROVE  WalkInv'
<1>. DEFINE H == {<<<<at.x, at.y>>, z>> : z \in Cells}
            bits == [z \in Cells |-> Bits(PartsAt(z))]
            muxes == [z \in Cells |-> Muxes(PartsAt(z))]
<1>1. /\ InPower /\ ~NoSite /\ Entry # 0 /\ NextTile /\ main = "power" /\ main' = main
      /\ \A z \in Cells : ~NeverEnds(Types[TheTile.type].node, PbAt(z), instances[Entry], input.lib.mux_size)
      /\ logic_conf_bits' = logic_conf_bits + SumFunction(bits)
      /\ num_muxes' = num_muxes + SumFunction(muxes)
      /\ counted' = [i \in Blocks |-> counted[i] + Cardinality({z \in Cells : BlockAt(z) = i})]
      /\ input' = input /\ UNCHANGED placement /\ UNCHANGED sites /\ instances' = instances
      /\ nx' = nx /\ ny' = ny /\ Blocks' = Blocks
  BY DEF CountTile, Stop, InPower, placement, Blocks
<1>2. /\ \E unset \in Unset :
           instances = [e \in DOMAIN input.lib.instances |-> LoadedEntry(input.lib.instances[e], unset)]
      /\ \A s \in Visited(at) : Bits(PartsOn(s)) \in Nat /\ Muxes(PartsOn(s)) \in Nat
      /\ logic_conf_bits = Sum(BitsOn, Visited(at))
      /\ num_muxes = Sum(MuxesOn, Visited(at))
      /\ counted = [i \in Blocks |-> Cardinality({s \in Visited(at) : BlockOn(s) = i})]
  BY <1>1 DEF WalkInv, Walking
<1>3. /\ Visited(at)' = Visited(at') /\ BitsOn' = BitsOn /\ MuxesOn' = MuxesOn
      /\ \A s : PartsOn(s)' = PartsOn(s) /\ BlockOn(s)' = BlockOn(s)
  BY <1>1, WalkSame
<1>4. /\ Visited(at') = Visited(at) \cup H /\ Visited(at) \cap H = {} /\ H \subseteq Sites
      /\ Visited(at) \subseteq Sites
  BY <1>1, NextVisited DEF Visited
<1>5. \A z \in Cells : /\ PartsAt(z) = PartsOn(<<<<at.x, at.y>>, z>>)
                       /\ BlockAt(z) = BlockOn(<<<<at.x, at.y>>, z>>)
                       /\ <<<<at.x, at.y>>, z>> \in Sites
                       /\ Bits(PartsAt(z)) \in Nat /\ Muxes(PartsAt(z)) \in Nat
  BY <1>1, PartsHere
<1>6. /\ Numbers(BitsOn, Visited(at)) /\ Numbers(MuxesOn, Visited(at))
  BY <1>2, <1>4 DEF Numbers, BitsOn, MuxesOn
<1>7. /\ DOMAIN bits = Cells /\ Numbers(bits, Cells)
      /\ \A z \in Cells : bits[z] = BitsOn[<<<<at.x, at.y>>, z>>]
      /\ DOMAIN muxes = Cells /\ Numbers(muxes, Cells)
      /\ \A z \in Cells : muxes[z] = MuxesOn[<<<<at.x, at.y>>, z>>]
  BY <1>5 DEF Numbers, BitsOn, MuxesOn
<1>. HIDE DEF bits, muxes
<1>8. /\ Sum(BitsOn, Visited(at')) = logic_conf_bits'
      /\ Sum(MuxesOn, Visited(at')) = num_muxes'
  BY <1>1, <1>2, <1>6, <1>7, VisitedSum
<1>9. IsFiniteSet(Visited(at')) /\ IsFiniteSet(Cells)
  <2>1. Visited(at') \subseteq Sites /\ IsFiniteSet(Sites)
    BY <1>1, TileAtHand, SiteFacts DEF Visited
  <2>2. QED
    BY <1>1, <2>1, FS_Subset, TileAtHand
<1>10. ASSUME NEW i \in Blocks
       PROVE  Cardinality({s \in Visited(at') : BlockOn(s) = i})
                = Cardinality({s \in Visited(at) : BlockOn(s) = i}) + Cardinality({z \in Cells : BlockAt(z) = i})
  <2>. DEFINE A == {s \in Visited(at) : BlockOn(s) = i}
              C == {z \in Cells : BlockAt(z) = i}
              h == [z \in C |-> <<<<at.x, at.y>>, z>>]
              B == {h[z] : z \in C}
  <2>1. B = {s \in H : BlockOn(s) = i}
    BY <1>5
  <2>2. {s \in Visited(at') : BlockOn(s) = i} = A \cup B /\ A \cap B = {}
    BY <1>4, <2>1
  <2>3. IsFiniteSet(C) /\ \A y, z \in C : h[y] = h[z] => y = z
    BY <1>9, FS_Subset
  <2>4. IsFiniteSet(A)
    BY <1>4, <1>9, FS_Subset
  <2>. HIDE DEF A, C, h
  <2>5. IsFiniteSet(B) /\ Cardinality(B) = Cardinality(C)
    BY <2>3, CardImage
  <2>. HIDE DEF B
  <2>6. /\ Cardinality(A \cup B) = Cardinality(A) + Cardinality(B) - Cardinality({})
        /\ Cardinality({}) = 0 /\ Cardinality(A) \in Nat /\ Cardinality(B) \in Nat
    <3>1. Cardinality(A \cup B) = Cardinality(A) + Cardinality(B) - Cardinality(A \cap B)
      BY <2>4, <2>5, FS_Union
    <3>2. Cardinality({}) = 0
      BY FS_EmptySet
    <3>3. Cardinality(A) \in Nat /\ Cardinality(B) \in Nat
      BY <2>4, <2>5, FS_CardinalityType
    <3>4. QED
      BY <2>2, <3>1, <3>2, <3>3
  <2>7. Cardinality(A \cup B) = Cardinality(A) + Cardinality(C)
    BY <2>5, <2>6
  <2>8. QED
    BY <2>2, <2>7 DEF A, C
<1>11. counted' = [i \in Blocks' |-> Cardinality({s \in Visited(at)' : BlockOn(s)' = i})]
  <2>1. \A i \in Blocks : counted[i] = Cardinality({s \in Visited(at) : BlockOn(s) = i})
    BY <1>2
  <2>2. \A i \in Blocks : counted[i] + Cardinality({z \in Cells : BlockAt(z) = i})
                            = Cardinality({s \in Visited(at') : BlockOn(s) = i})
    BY <1>10, <2>1
  <2>3. counted' = [i \in Blocks |-> Cardinality({s \in Visited(at') : BlockOn(s) = i})]
    BY <1>1, <2>2
  <2>4. QED
    BY <1>1, <1>3, <2>3
<1>12. \A s \in Visited(at)' : (Bits(PartsOn(s)) \in Nat /\ Muxes(PartsOn(s)) \in Nat)'
  BY <1>2, <1>3, <1>4, <1>5
<1>13. logic_conf_bits' = Sum(BitsOn', Visited(at)') /\ num_muxes' = Sum(MuxesOn', Visited(at)')
  BY <1>3, <1>8
<1>14. (\E unset \in Unset :
         instances = [e \in DOMAIN input.lib.instances |-> LoadedEntry(input.lib.instances[e], unset)])'
  BY <1>1, <1>2
<1>15. at' = [x |-> at'.x, y |-> at'.y] /\ at'.x \in 0 .. nx' + 2 /\ at'.y \in 0 .. ny' + 1
  BY <1>1, NextPlace
<1>16. logic_conf_bits' \in Nat /\ num_muxes' \in Nat /\ DOMAIN counted' = Blocks'
  <2>1. /\ Numbers(BitsOn, Visited(at')) /\ Numbers(MuxesOn, Visited(at'))
    BY <1>1, <1>6, <1>7, VisitedSum
  <2>2. Sum(BitsOn, Visited(at')) \in Nat /\ Sum(MuxesOn, Visited(at')) \in Nat
    BY <1>9, <2>1, SumType
  <2>3. QED
    BY <1>1, <1>8, <2>2
<1>17. QED
  BY <1>1, <1>11, <1>12, <1>13, <1>14, <1>15, <1>16 DEF WalkInv

LEMMA WalkSteps ==
  ASSUME [Next]_vars
  PROVE  \/ read_power_lib
         \/ main = "power" /\ main' # "crashed" /\ (SkipTile \/ UnnamedTile \/ CountTile)
         \/ PrintEstimate
         \/ UNCHANGED vars
         \/ /\ input' = input /\ UNCHANGED estimate /\ main' \notin Walking
            /\ main' \notin Ended => main \notin {"power"} \cup Ended
<1>. USE DEF options, placement, sites, estimate, Walking, Ended
<1>1. CASE read_options
  BY <1>1 DEF read_options, Usage, Start, ReadName, ReadOption, NoValue, ReadUnknown, NameFiles,
              NoCircuit, Stop, InOptions
<1>2. CASE ReadPart
  <2>1. main \in {"arch", "blif", "netlist", "trace"} /\ main' \in {"exit", After[main]}
        /\ UNCHANGED estimate /\ input' = input
    BY <1>2 DEF ReadPart, After
  <2>2. After["arch"] = "blif" /\ After["blif"] = "netlist" /\ After["netlist"] = "place" /\ After["trace"] = "lib"
    BY DEF After
  <2>3. QED
    BY <2>1, <2>2
<1>3. CASE build_place
  BY <1>3 DEF build_place, BadHeading, Heading, UnknownBlock, ShortLine, PlaceBlock, EndOfPlace,
              InPlace, Stop
<1>4. CASE NoGrid \/ InitArch
  BY <1>4 DEF NoGrid, InitArch, Stop
<1>5. CASE sync_grid_to_blocks
  BY <1>5 DEF sync_grid_to_blocks, BadLocation, SetBlock, Overrun, Synced, InSync, Stop
<1>6. CASE NoLibrary
  BY <1>6 DEF NoLibrary, Stop
<1>7. CASE SkipTile \/ UnnamedTile \/ CountTile
  BY <1>7 DEF SkipTile, UnnamedTile, CountTile, InPower, Stop
<1>8. QED
  BY <1>1, <1>2, <1>3, <1>4, <1>5, <1>6, <1>7 DEF Next, power_complex_block

LEMMA WalkStep ==
  ASSUME ReadInv, GridInv, WalkInv, [Next]_vars
  PROVE  WalkInv'
<1>1. CASE read_power_lib
  BY <1>1, WalkBegins
<1>2. CASE main = "power" /\ main' # "crashed" /\ (SkipTile \/ UnnamedTile)
  <2>1. /\ InPower /\ NextTile /\ (NoSite \/ Entry = 0) /\ main' = main
        /\ input' = input /\ UNCHANGED placement /\ UNCHANGED sites /\ instances' = instances
        /\ counted' = counted /\ logic_conf_bits' = logic_conf_bits /\ num_muxes' = num_muxes
    BY <1>2 DEF SkipTile, UnnamedTile, Stop
  <2>2. Visited(at') = Visited(at)
    BY <2>1, NextVisited
  <2>3. at' = [x |-> at'.x, y |-> at'.y] /\ at'.x \in 0 .. nx + 2 /\ at'.y \in 0 .. ny + 1
    BY <2>1, NextPlace
  <2>4. QED
    BY <1>2, <2>1, <2>2, <2>3, WalkOn DEF Walking
<1>3. CASE main' # "crashed" /\ CountTile
  BY <1>3, WalkCounts
<1>4. CASE PrintEstimate
  <2>1. /\ main = "power" /\ at.x = nx + 2 /\ main' = "done" /\ at' = at
        /\ input' = input /\ UNCHANGED placement /\ UNCHANGED sites /\ instances' = instances
        /\ counted' = counted /\ logic_conf_bits' = logic_conf_bits /\ num_muxes' = num_muxes
    BY <1>4 DEF PrintEstimate, Stop, estimate
  <2>2. at = [x |-> at.x, y |-> at.y] /\ at.x \in 0 .. nx + 2 /\ at.y \in 0 .. ny + 1
    BY <2>1 DEF WalkInv, Walking
  <2>3. QED
    BY <2>1, <2>2, WalkOn DEF Walking
<1>5. CASE UNCHANGED vars
  <2>1. /\ input' = input /\ UNCHANGED placement /\ UNCHANGED sites /\ instances' = instances /\ main' = main
        /\ UNCHANGED estimate
    BY <1>5 DEF vars
  <2>2. CASE main \in Walking
    BY <2>1, <2>2, WalkOn DEF estimate, WalkInv
  <2>3. CASE main \notin Walking
    BY <2>1, <2>3, WalkIdle DEF Walking
  <2>4. QED
    BY <2>2, <2>3
<1>6. CASE /\ input' = input /\ UNCHANGED estimate /\ main' \notin Walking
           /\ main' \notin Ended => main \notin {"power"} \cup Ended
  BY <1>6, WalkIdle
<1>7. QED
  BY <1>1, <1>2, <1>3, <1>4, <1>5, <1>6, WalkSteps

LEMMA WalkHolds == Spec => [](ReadInv /\ GridInv /\ WalkInv)
<1>1. Init => ReadInv /\ GridInv /\ WalkInv
  BY ReadStart, GridStart, WalkStart
<1>2. ReadInv /\ GridInv /\ WalkInv /\ [Next]_vars => ReadInv' /\ GridInv' /\ WalkInv'
  BY ReadStep, GridStep, WalkStep
<1>3. QED
  BY <1>1, <1>2, PTL DEF Spec

Phases == {"start", "options", "arch", "blif", "netlist", "place", "grid", "sync", "trace", "lib", "power"} \cup Ended

LEMMA PhaseStep ==
  ASSUME main \in Phases, [Next]_vars
  PROVE  main' \in Phases
<1>. USE DEF Phases, Ended
<1>1. CASE read_options
  BY <1>1 DEF read_options, Usage, Start, ReadName, ReadOption, NoValue, ReadUnknown, NameFiles,
              NoCircuit, Stop
<1>2. CASE ReadPart
  <2>1. main \in {"arch", "blif", "netlist", "trace"} /\ main' \in {"exit", After[main]}
    BY <1>2 DEF ReadPart, After
  <2>2. After["arch"] = "blif" /\ After["blif"] = "netlist" /\ After["netlist"] = "place" /\ After["trace"] = "lib"
    BY DEF After
  <2>3. QED
    BY <2>1, <2>2
<1>3. CASE build_place
  BY <1>3 DEF build_place, BadHeading, Heading, UnknownBlock, ShortLine, PlaceBlock, EndOfPlace,
              InPlace, Stop
<1>4. CASE NoGrid \/ InitArch
  BY <1>4 DEF NoGrid, InitArch, Stop
<1>5. CASE sync_grid_to_blocks
  BY <1>5 DEF sync_grid_to_blocks, BadLocation, SetBlock, Overrun, Synced, InSync, Stop
<1>6. CASE NoLibrary \/ read_power_lib
  BY <1>6 DEF NoLibrary, read_power_lib, Stop
<1>7. CASE power_complex_block
  BY <1>7 DEF power_complex_block, SkipTile, UnnamedTile, CountTile, PrintEstimate, InPower, Stop
<1>8. CASE UNCHANGED vars
  BY <1>8 DEF vars
<1>9. QED
  BY <1>1, <1>2, <1>3, <1>4, <1>5, <1>6, <1>7, <1>8 DEF Next

PhaseOK == main \in Phases

LEMMA PhasesHold == Spec => []PhaseOK
<1>1. Init => PhaseOK
  BY DEF Init, Phases, PhaseOK
<1>2. PhaseOK /\ [Next]_vars => PhaseOK'
  BY PhaseStep DEF PhaseOK
<1>3. QED
  BY <1>1, <1>2, PTL DEF Spec

\* Every variable keeps its type: no tile is looked for beyond the grid on the walk, and the
\* counts are numbers.
THEOREM TypesOK == Spec => []TypeOK
<1>1. ASSUME OptionsInv, ReadInv, GridInv, WalkInv, PhaseOK PROVE TypeOK
  <2>1. input \in Inputs
    BY <1>1 DEF ReadInv
  <2>2. DOMAIN argv = DOMAIN input.argv /\ arg_idx \in 1 .. Len(argv) + 2 /\ DOMAIN file_names = Files
    <3>1. input.argv \in Seq(CommandWord)
      BY <2>1, InputsAssumption DEF CommandWord
    <3>2. QED
      BY <1>1, <3>1 DEF OptionsInv
  <2>3. next_line \in 0 .. Len(place.lines) + 1
    BY <1>1 DEF ReadInv, place
  <2>4. nx \in Int /\ ny \in Int
    BY <1>1, <2>1, InputFacts DEF ReadInv
  <2>5. coords \in [Blocks -> [x : Int, y : Int, z : Int]]
    BY <1>1, CoordsType
  <2>6. next_block \in 1 .. Len(input.blocks) + 1
    BY <1>1 DEF GridInv
  <2>7. main \in {"sync", "trace", "lib", "power", "done"} => DOMAIN grid = 0 .. nx + 1
    BY <1>1 DEF GridInv, GridShape, OnGrid
  <2>8. main \in {"power", "done"} => at.x \in 0 .. nx + 2 /\ at.y \in 0 .. ny + 1
    BY <1>1 DEF WalkInv, Walking
  <2>9. DOMAIN counted = Blocks /\ logic_conf_bits \in Nat /\ num_muxes \in Nat
    BY <1>1 DEF WalkInv
  <2>10. QED
    BY <1>1, <2>2, <2>3, <2>4, <2>5, <2>6, <2>7, <2>8, <2>9 DEF TypeOK, Phases, PhaseOK
<1>2. QED
  BY <1>1, OptionsHold, WalkHolds, PhasesHold, PTL

-----------------------------------------------------------------------------
(* The sites of the architecture *)

SitesOf(t) == {s \in Sites : SiteType(s) = t}

LEMMA PadSum ==
  ASSUME NEW a \in Nat, NEW b \in Nat, NEW c \in Nat
  PROVE  (2 * b + a * 2) * c = 2 * c * (a + b)
<1>1. (2 * b + a * 2) = 2 * (a + b)
  OBVIOUS
<1>2. \A d \in Nat : (2 * d) * c = 2 * c * d
  OBVIOUS
<1>3. a + b \in Nat
  OBVIOUS
<1>4. QED
  BY <1>1, <1>2, <1>3

LEMMA PadSites ==
  ASSUME GridSize
  PROVE  Cardinality(SitesOf(IO_TYPE)) = 2 * Types[IO_TYPE].capacity * (nx + ny)
<1>. DEFINE Sides == {0, nx + 1} \X (1 .. ny)
            Ends == (1 .. nx) \X {0, ny + 1}
            P == Sides \cup Ends
            c == Types[IO_TYPE].capacity
<1>1. nx \in Nat /\ ny \in Nat /\ nx # 0 /\ ny # 0 /\ c \in Nat /\ IO_TYPE \in DOMAIN Types /\ IO_TYPE # EMPTY_TYPE
  BY TypesAssumption DEF GridSize
<1>2. ASSUME NEW n \in Nat PROVE IsFiniteSet({0, n + 1}) /\ Cardinality({0, n + 1}) = 2
  <2>1. IsFiniteSet({0}) /\ Cardinality({0}) = 1
    BY FS_Singleton
  <2>2. n + 1 \notin {0} /\ {0, n + 1} = {0} \cup {n + 1}
    OBVIOUS
  <2>3. IsFiniteSet({0} \cup {n + 1}) /\ Cardinality({0} \cup {n + 1}) = 2
    BY <2>1, <2>2, FS_AddElement
  <2>4. QED
    BY <2>2, <2>3
<1>3. ASSUME NEW n \in Nat PROVE IsFiniteSet(1 .. n) /\ Cardinality(1 .. n) = n
  <2>1. IsFiniteSet(1 .. n) /\ Cardinality(1 .. n) = IF 1 > n THEN 0 ELSE n - 1 + 1
    BY FS_Interval
  <2>2. QED
    BY <2>1
<1>4. IsFiniteSet(Sides) /\ Cardinality(Sides) = 2 * ny
  <2>. DEFINE A == {0, nx + 1}
              B == 1 .. ny
  <2>1. IsFiniteSet(A) /\ Cardinality(A) = 2 /\ IsFiniteSet(B) /\ Cardinality(B) = ny
    BY <1>1, <1>2, <1>3
  <2>. HIDE DEF A, B
  <2>2. IsFiniteSet(A \X B) /\ Cardinality(A \X B) = 2 * ny
    BY <2>1, FS_Product
  <2>3. QED
    BY <2>2 DEF A, B
<1>5. IsFiniteSet(Ends) /\ Cardinality(Ends) = nx * 2
  <2>. DEFINE A == 1 .. nx
              B == {0, ny + 1}
  <2>1. IsFiniteSet(A) /\ Cardinality(A) = nx /\ IsFiniteSet(B) /\ Cardinality(B) = 2
    BY <1>1, <1>2, <1>3
  <2>. HIDE DEF A, B
  <2>2. IsFiniteSet(A \X B) /\ Cardinality(A \X B) = nx * 2
    BY <2>1, FS_Product
  <2>3. QED
    BY <2>2 DEF A, B
<1>6. Sides \cap Ends = {}
  BY <1>1
<1>7. IsFiniteSet(P) /\ Cardinality(P) = 2 * ny + nx * 2
  <2>. HIDE DEF Sides, Ends
  <2>1. /\ IsFiniteSet(P)
        /\ Cardinality(P) = Cardinality(Sides) + Cardinality(Ends) - Cardinality(Sides \cap Ends)
    BY <1>4, <1>5, FS_Union
  <2>2. Cardinality(Sides \cap Ends) = 0
    BY <1>6, FS_EmptySet
  <2>3. QED
    BY <1>1, <1>4, <1>5, <2>1, <2>2
<1>8. IsFiniteSet(0 .. c - 1) /\ Cardinality(0 .. c - 1) = c
  <2>1. c - 1 \in Int
    BY <1>1
  <2>. HIDE DEF c
  <2>2. IsFiniteSet(0 .. c - 1) /\ Cardinality(0 .. c - 1) = IF 0 > c - 1 THEN 0 ELSE (c - 1) - 0 + 1
    BY <2>1, FS_Interval
  <2>3. QED
    BY <1>1, <2>1, <2>2
<1>9. SitesOf(IO_TYPE) = P \X (0 .. c - 1)
  <2>0. \A t, o, k : Tile(t, o, k).type = t /\ Tile(t, o, k).offset = o
    BY DEF Tile
  <2>1. ASSUME NEW x \in 0 .. nx + 1, NEW y \in 0 .. ny + 1
        PROVE  /\ Made(x, y).type = IO_TYPE <=> <<x, y>> \in P
               /\ <<x, y>> \in P => Made(x, y).offset = 0
    <3>1. <<x, y>> \in P <=> \/ x \in 1 .. nx /\ y \notin 1 .. ny
                             \/ x \notin 1 .. nx /\ y \in 1 .. ny
      BY <1>1
    <3>2. <<x, y>> \in P => Made(x, y) = Pads
      BY <3>1 DEF Made
    <3>3. ASSUME x \notin 1 .. nx, y \notin 1 .. ny PROVE Made(x, y) = Corner
      BY <3>3 DEF Made
    <3>4. ASSUME x \in 1 .. nx, y \in 1 .. ny PROVE Made(x, y).type # IO_TYPE
      BY <1>1, <2>0, <3>4, Tiles DEF Corner
    <3>5. QED
      BY <1>1, <2>0, <3>1, <3>2, <3>3, <3>4 DEF Pads, Corner
  <2>2. ASSUME NEW s \in SitesOf(IO_TYPE) PROVE s \in P \X (0 .. c - 1)
    <3>1. s \in Sites /\ SiteType(s) = IO_TYPE
      BY DEF SitesOf
    <3>2. /\ s = <<<<s[1][1], s[1][2]>>, s[2]>>
          /\ s[1][1] \in 0 .. nx + 1 /\ s[1][2] \in 0 .. ny + 1
      BY <3>1, SiteFacts
    <3>3. s[2] \in 0 .. c - 1
      BY <3>1 DEF Sites
    <3>4. <<s[1][1], s[1][2]>> \in P
      BY <2>1, <3>1, <3>2 DEF SiteType
    <3>. HIDE DEF P, c
    <3>5. QED
      BY <3>2, <3>3, <3>4
  <2>3. ASSUME NEW tile \in P, NEW z \in 0 .. c - 1 PROVE <<tile, z>> \in SitesOf(IO_TYPE)
    <3>1. PICK x \in 0 .. nx + 1, y \in 0 .. ny + 1 : tile = <<x, y>>
      BY <1>1
    <3>2. Made(x, y).type = IO_TYPE /\ Made(x, y).offset = 0
      BY <2>1, <3>1
    <3>3. <<<<x, y>>, z>> \in Sites
      BY <1>1, <3>2, SiteFacts
    <3>4. SiteType(<<<<x, y>>, z>>) = IO_TYPE
      BY <3>2 DEF SiteType
    <3>5. QED
      BY <3>1, <3>3, <3>4 DEF SitesOf
  <2>. HIDE DEF P, c
  <2>4. QED
    BY <2>2, <2>3
<1>. HIDE DEF P, c
<1>10. Cardinality(SitesOf(IO_TYPE)) = (2 * ny + nx * 2) * c
  <2>. DEFINE Z == 0 .. c - 1
  <2>1. IsFiniteSet(Z) /\ Cardinality(Z) = c /\ SitesOf(IO_TYPE) = P \X Z
    BY <1>8, <1>9
  <2>. HIDE DEF Z
  <2>2. Cardinality(P \X Z) = Cardinality(P) * Cardinality(Z)
    BY <1>7, <2>1, FS_Product
  <2>3. QED
    BY <1>7, <2>1, <2>2
<1>11. QED
  BY <1>1, <1>10, PadSum DEF c

LEMMA CoreSites ==
  ASSUME GridSize, GridShape, NEW t \in DOMAIN Types, t # IO_TYPE
  PROVE  Cardinality(SitesOf(t)) =
           Cardinality({p \in (1 .. nx) \X (1 .. ny) :
                          LET tile == grid[p[1]][p[2]] IN tile.type = t /\ tile.offset = 0})
<1>. DEFINE P == {p \in (1 .. nx) \X (1 .. ny) : LET tile == grid[p[1]][p[2]] IN tile.type = t /\ tile.offset = 0}
            h == [p \in P |-> <<p, 0>>]
<1>0. nx \in Nat /\ ny \in Nat
  BY DEF GridSize
<1>1. IsFiniteSet(P)
  <2>1. IsFiniteSet(1 .. nx) /\ IsFiniteSet(1 .. ny)
    BY <1>0, FS_Interval
  <2>2. IsFiniteSet((1 .. nx) \X (1 .. ny))
    BY <2>1, FS_Product
  <2>3. QED
    BY <2>2, FS_Subset
<1>2. ASSUME NEW p \in P
      PROVE  p[1] \in 1 .. nx /\ p[2] \in 1 .. ny /\ p = <<p[1], p[2]>> /\ Made(p[1], p[2]).type = t /\ Made(p[1], p[2]).offset = 0
  <2>1. p[1] \in 1 .. nx /\ p[2] \in 1 .. ny /\ p = <<p[1], p[2]>>
    OBVIOUS
  <2>2. p[1] \in 0 .. nx + 1 /\ p[2] \in 0 .. ny + 1
    BY <1>0, <2>1
  <2>3. IsTile(grid[p[1]][p[2]], Made(p[1], p[2]))
    BY <2>2 DEF GridShape
  <2>4. QED
    BY <2>1, <2>3 DEF IsTile
<1>3. EMPTY_TYPE \notin DOMAIN Types
  BY TypesAssumption
<1>4. ASSUME NEW x \in 0 .. nx + 1, NEW y \in 0 .. ny + 1, Made(x, y).type = t
      PROVE  x \in 1 .. nx /\ y \in 1 .. ny /\ Types[t].capacity = 1
  <2>1. \A u, o, k : Tile(u, o, k).type = u
    BY DEF Tile
  <2>2. QED
    BY <1>3, <1>4, <2>1, Tiles DEF Corner, Pads
<1>5. ASSUME NEW p \in P PROVE <<p, 0>> \in SitesOf(t)
  <2>1. p[1] \in 0 .. nx + 1 /\ p[2] \in 0 .. ny + 1
    BY <1>0, <1>2
  <2>2. Types[t].capacity = 1
    BY <1>2, <1>4, <2>1
  <2>3. <<<<p[1], p[2]>>, 0>> \in Sites
    BY <1>2, <1>3, <2>1, <2>2, SiteFacts
  <2>4. SiteType(<<<<p[1], p[2]>>, 0>>) = t
    BY <1>2 DEF SiteType
  <2>. HIDE DEF P
  <2>5. QED
    BY <1>2, <2>3, <2>4 DEF SitesOf
<1>6. ASSUME NEW s \in SitesOf(t) PROVE \E p \in P : s = <<p, 0>>
  <2>1. s \in Sites /\ SiteType(s) = t
    BY DEF SitesOf
  <2>2. /\ s = <<<<s[1][1], s[1][2]>>, s[2]>>
        /\ s[1][1] \in 0 .. nx + 1 /\ s[1][2] \in 0 .. ny + 1
    BY <2>1, SiteFacts
  <2>3. Made(s[1][1], s[1][2]).type = t /\ Made(s[1][1], s[1][2]).offset = 0 /\ s[2] \in 0 .. Types[t].capacity - 1
    BY <2>1 DEF Sites, SiteType
  <2>4. s[1][1] \in 1 .. nx /\ s[1][2] \in 1 .. ny /\ s[2] = 0
    BY <1>4, <2>2, <2>3
  <2>5. IsTile(grid[s[1][1]][s[1][2]], Made(s[1][1], s[1][2]))
    BY <2>2 DEF GridShape
  <2>6. <<s[1][1], s[1][2]>> \in P
    BY <2>3, <2>4, <2>5 DEF IsTile
  <2>7. QED
    BY <2>2, <2>4, <2>6
<1>7. SitesOf(t) = {h[p] : p \in P}
  <2>. HIDE DEF P
  <2>1. QED
    BY <1>5, <1>6
<1>8. \A p, q \in P : h[p] = h[q] => p = q
  OBVIOUS
<1>. HIDE DEF h
<1>9. Cardinality({h[p] : p \in P}) = Cardinality(P)
  BY <1>1, <1>8, CardImage
<1>10. QED
  BY <1>7, <1>9

\* The netlist's blocks of a type, and the sites of it that are left.
Having(t) == {i \in Blocks : input.blocks[i].type = t}
Left(t) == num_instances_type(t, grid) - Cardinality(Having(t))

LEMMA InstancesOf ==
  ASSUME GridSize, GridShape, NEW t \in DOMAIN Types
  PROVE  num_instances_type(t, grid) = Cardinality(SitesOf(t))
<1>1. CASE t = IO_TYPE
  BY <1>1, PadSites DEF num_instances_type
<1>2. CASE t # IO_TYPE
  <2>1. num_instances_type(t, grid) =
          Cardinality({p \in (1 .. nx) \X (1 .. ny) :
                         LET tile == grid[p[1]][p[2]] IN tile.type = t /\ tile.offset = 0})
    BY <1>2 DEF num_instances_type
  <2>2. QED
    BY <1>2, <2>1, CoreSites
<1>3. QED
  BY <1>1, <1>2

\* At the end every block whose z is within its site is on a site of its own.
LEMMA SiteOfBlock ==
  ASSUME ReadInv, GridInv, main \in GridIsFull, NEW i \in Blocks, coords[i].z < TypeOf(i).capacity
  PROVE  LET s == <<<<coords[i].x, coords[i].y>>, coords[i].z>>
         IN s \in SitesOf(input.blocks[i].type) /\ BlockOn(s) = i
<1>. DEFINE x == coords[i].x
            y == coords[i].y
            z == coords[i].z
            s == <<<<x, y>>, z>>
            t == input.blocks[i].type
<1>1. main \in OnGrid /\ input \in Inputs
  BY DEF GridIsFull, OnGrid, ReadInv
<1>2. Blocks = 1 .. Len(input.blocks) /\ Len(input.blocks) \in Nat /\ t \in DOMAIN Types
  BY <1>1, InputFacts
<1>3. i < next_block
  BY <1>2 DEF GridInv
<1>4. OnSite(i) /\ GridSize
  BY <1>1, <1>3 DEF GridInv
<1>5. /\ x \in 0 .. nx + 1 /\ y \in 0 .. ny + 1 /\ z \in 0 .. TypeOf(i).capacity
      /\ Made(x, y).type = t /\ Made(x, y).offset = 0
      /\ grid[x][y].blocks[z] = i
  BY <1>4 DEF OnSite
<1>6. TypeOf(i) = Types[t] /\ Types[t].capacity \in Nat /\ t # EMPTY_TYPE
  BY <1>2, TypesAssumption DEF TypeOf
<1>. HIDE DEF x, y, z, t
<1>7. z \in 0 .. Types[t].capacity - 1
  BY <1>5, <1>6 DEF z
<1>8. s \in Sites
  BY <1>4, <1>5, <1>6, <1>7, SiteFacts
<1>9. SiteType(s) = t /\ BlockOn(s) = i
  BY <1>5 DEF SiteType, BlockOn
<1>10. QED
  BY <1>8, <1>9 DEF SitesOf, x, y, z, t

\* The sum of so many times the same.
Repeated(count, c) == SumFunction([n \in 1 .. count |-> c])

\* The sites of a type: its blocks are on so many of them, and the others are left.
LEMMA SumOfType ==
  ASSUME ReadInv, GridInv, main \in GridIsFull, \A i \in Blocks : coords[i].z < TypeOf(i).capacity,
         NEW t \in DOMAIN Types, NEW f, Numbers(f, SitesOf(t)), NEW used, NEW idle,
         \A s \in SitesOf(t) : f[s] = IF BlockOn(s) = OPEN THEN idle ELSE used[BlockOn(s)]
  PROVE  /\ Left(t) \in Nat
         /\ Sum(f, SitesOf(t)) = Sum(used, Having(t)) + Repeated(Left(t), idle)
         /\ Sum(used, Having(t)) \in Nat /\ Repeated(Left(t), idle) \in Nat
<1>. DEFINE S == SitesOf(t)
            T == {s \in S : BlockOn(s) # OPEN}
            F == S \ T
            h == [s \in T |-> BlockOn(s)]
            rest == [n \in 1 .. Left(t) |-> idle]
<1>1. main \in OnGrid /\ input \in Inputs
  BY DEF GridIsFull, OnGrid, ReadInv
<1>2. GridSize /\ GridShape
  BY <1>1 DEF GridInv
<1>3. IsFiniteSet(S) /\ S \subseteq Sites /\ T \subseteq S
  BY <1>2, SiteFacts, FS_Subset DEF SitesOf
<1>4. \A i \in Blocks : i # OPEN
  BY <1>1, InputFacts DEF OPEN
<1>5. ASSUME NEW s \in T
      PROVE  h[s] \in Having(t) /\ coords[h[s]] = [x |-> s[1][1], y |-> s[1][2], z |-> s[2]]
             /\ s = <<<<s[1][1], s[1][2]>>, s[2]>>
  <2>1. s \in Sites /\ SiteType(s) = t /\ BlockOn(s) # OPEN
    BY DEF SitesOf
  <2>2. QED
    BY <1>1, <1>2, <2>1, BlockOnSite, SiteFacts DEF Having
<1>6. ASSUME NEW i \in Having(t) PROVE \E s \in T : h[s] = i
  <2>1. i \in Blocks /\ input.blocks[i].type = t
    BY DEF Having
  <2>2. PICK s \in SitesOf(t) : BlockOn(s) = i
    BY <2>1, SiteOfBlock
  <2>3. s \in T
    BY <1>4, <2>1, <2>2
  <2>4. QED
    BY <2>2, <2>3
<1>7. \A r, s \in T : h[r] = h[s] => r = s
  <2>1. ASSUME NEW r \in T, NEW s \in T, h[r] = h[s] PROVE r = s
    <3>1. [x |-> r[1][1], y |-> r[1][2], z |-> r[2]] = [x |-> s[1][1], y |-> s[1][2], z |-> s[2]]
      BY <1>5, <2>1
    <3>2. r[1][1] = s[1][1] /\ r[1][2] = s[1][2] /\ r[2] = s[2]
      BY <3>1
    <3>3. r = <<<<r[1][1], r[1][2]>>, r[2]>> /\ s = <<<<s[1][1], s[1][2]>>, s[2]>>
      BY <1>5
    <3>4. QED
      BY <3>2, <3>3
  <2>2. QED
    BY <2>1
<1>8. {h[s] : s \in T} = Having(t)
  <2>. HIDE DEF T, h
  <2>1. QED
    BY <1>5, <1>6
<1>9. \A s \in T : f[s] = used[h[s]]
  OBVIOUS
<1>10. \A s \in F : f[s] = idle
  OBVIOUS
<1>11. Numbers(f, T) /\ Numbers(f, F) /\ Numbers(f, S)
  BY DEF Numbers
<1>. HIDE DEF S, T, h
<1>12. IsFiniteSet(T) /\ IsFiniteSet(F)
  BY <1>3, FS_Subset
<1>13. /\ Sum(f, T) = Sum(used, Having(t)) /\ Cardinality(T) = Cardinality(Having(t))
  BY <1>7, <1>8, <1>9, <1>11, <1>12, SumImage, CardImage
<1>14. Sum(f, S) = Sum(f, T) + Sum(f, F)
  BY <1>3, <1>11, SumSplit
<1>15. Left(t) = Cardinality(F) /\ Cardinality(F) \in Nat
  <2>1. num_instances_type(t, grid) = Cardinality(S)
    BY <1>2, InstancesOf DEF S
  <2>2. S = T \cup F /\ T \cap F = {}
    BY <1>3
  <2>. HIDE DEF F
  <2>3. /\ Cardinality(S) = Cardinality(T) + Cardinality(F) - Cardinality({})
        /\ Cardinality({}) = 0 /\ Cardinality(T) \in Nat /\ Cardinality(F) \in Nat
    BY <1>12, <2>2, FS_Union, FS_EmptySet, FS_CardinalityType
  <2>4. QED
    BY <1>13, <2>1, <2>3 DEF Left
<1>16. Sum(f, T) \in Nat /\ Sum(f, F) \in Nat
  BY <1>11, <1>12, SumType
<1>17. SumFunction(rest) = Sum(f, F)
  <2>1. SumFunction(rest) = Sum(rest, 1 .. Left(t))
    BY DEF SumFunction, Sum
  <2>2. CASE F = {}
    <3>1. Cardinality(F) = 0
      BY <2>2, FS_EmptySet
    <3>2. 1 .. Left(t) = {}
      BY <1>15, <3>1
    <3>3. QED
      BY <2>1, <2>2, <3>2, SumEmpty
  <2>3. CASE F # {}
    <3>1. idle \in Nat
      BY <1>10, <1>11, <2>3 DEF Numbers
    <3>2. Sum(f, F) = Cardinality(F) * idle
      BY <1>10, <1>12, <3>1, SumConstant
    <3>3. IsFiniteSet(1 .. Left(t)) /\ Cardinality(1 .. Left(t)) = Left(t)
      <4>. DEFINE n == Left(t)
      <4>1. n \in Nat
        BY <1>15
      <4>. HIDE DEF n
      <4>2. IsFiniteSet(1 .. n) /\ Cardinality(1 .. n) = IF 1 > n THEN 0 ELSE n - 1 + 1
        BY <4>1, FS_Interval
      <4>3. Cardinality(1 .. n) = n
        BY <4>1, <4>2
      <4>4. QED
        BY <4>2, <4>3 DEF n
    <3>4. Sum(rest, 1 .. Left(t)) = Cardinality(1 .. Left(t)) * idle
      <4>1. \A n \in 1 .. Left(t) : rest[n] = idle
        OBVIOUS
      <4>. HIDE DEF rest
      <4>2. QED
        BY <3>1, <3>3, <4>1, SumConstant
    <3>5. QED
      BY <1>15, <2>1, <3>2, <3>3, <3>4
  <2>4. QED
    BY <2>2, <2>3
<1>18. QED
  BY <1>13, <1>14, <1>15, <1>16, <1>17 DEF S, Repeated

InLibrary == {t \in DOMAIN Types : EntryFor(t, instances) # 0}

\* The walk is over when it has been on every site.
LEMMA AllVisited ==
  ASSUME ReadInv, GridInv, WalkInv, main = "done"
  PROVE  /\ GridSize
         /\ Visited(at) = {s \in Sites : SiteType(s) \in InLibrary}
<1>1. GridSize
  BY DEF GridInv, OnGrid
<1>2. at.x = nx + 2
  BY DEF WalkInv
<1>3. ASSUME NEW s \in Sites
      PROVE  Before(s[1], at) /\ (SiteType(s) \in InLibrary <=> EntryFor(SiteType(s), instances) # 0)
  <2>1. s[1][1] \in 0 .. nx + 1 /\ SiteType(s) \in DOMAIN Types
    BY <1>1, SiteFacts
  <2>2. QED
    BY <1>1, <1>2, <2>1 DEF Before, InLibrary, GridSize
<1>4. QED
  BY <1>1, <1>3 DEF Visited

\* The sum of what the blocks use, and of what the idle sites do.
SiteSum(used, idle) ==
  SumFunction([t \in InLibrary |->
    SumFunction([i \in Having(t) |-> used[i]]) + SumFunction([n \in 1 .. Left(t) |-> idle[t]])])

\* What is found on the sites adds up type by type: the blocks of it, then its idle sites.
LEMMA EstimateSum ==
  ASSUME ReadInv, GridInv, WalkInv, main = "done", \A i \in Blocks : coords[i].z < TypeOf(i).capacity,
         NEW f, Numbers(f, Visited(at)), NEW used, NEW idle,
         \A s \in Visited(at) : f[s] = IF BlockOn(s) = OPEN THEN idle[SiteType(s)] ELSE used[BlockOn(s)]
  PROVE  Sum(f, Visited(at)) = SiteSum(used, idle)
<1>. DEFINE V == Visited(at)
            k == [s \in V |-> SiteType(s)]
            K == InLibrary
            g == [t \in K |-> Sum(f, {s \in V : k[s] = t})]
            part(t) == SumFunction([i \in Having(t) |-> used[i]]) + SumFunction([n \in 1 .. Left(t) |-> idle[t]])
            h == [t \in K |-> part(t)]
<1>1. V = {s \in Sites : SiteType(s) \in K} /\ GridSize /\ main \in GridIsFull /\ main \in OnGrid
  BY AllVisited DEF GridIsFull, OnGrid
<1>2. IsFiniteSet(V)
  BY <1>1, SiteFacts, FS_Subset
<1>3. IsFiniteSet(K) /\ K \subseteq DOMAIN Types
  BY TypesAssumption, FS_Subset DEF InLibrary
<1>4. \A s \in V : k[s] \in K
  BY <1>1
<1>5. ASSUME NEW t \in K PROVE {s \in V : k[s] = t} = SitesOf(t)
  BY <1>1, <1>5 DEF SitesOf
<1>6. ASSUME NEW t \in K PROVE g[t] = h[t] /\ g[t] \in Nat
  <2>. DEFINE u == [i \in Having(t) |-> used[i]]
  <2>1. t \in DOMAIN Types /\ SitesOf(t) \subseteq V
    BY <1>3, <1>5
  <2>2. Numbers(f, SitesOf(t))
    BY <2>1 DEF Numbers
  <2>3. ASSUME NEW s \in SitesOf(t) PROVE f[s] = IF BlockOn(s) = OPEN THEN idle[t] ELSE u[BlockOn(s)]
    <3>1. s \in Sites /\ SiteType(s) = t /\ s \in V
      BY <2>1 DEF SitesOf
    <3>2. f[s] = IF BlockOn(s) = OPEN THEN idle[t] ELSE used[BlockOn(s)]
      BY <3>1
    <3>3. BlockOn(s) # OPEN => BlockOn(s) \in Having(t)
      BY <1>1, <3>1, BlockOnSite DEF Having
    <3>4. QED
      BY <3>2, <3>3
  <2>4. SumFunction(u) = Sum(u, Having(t))
    BY DEF SumFunction, Sum
  <2>5. /\ Sum(f, SitesOf(t)) = Sum(u, Having(t)) + SumFunction([n \in 1 .. Left(t) |-> idle[t]])
        /\ Sum(u, Having(t)) \in Nat /\ SumFunction([n \in 1 .. Left(t) |-> idle[t]]) \in Nat
    <3>. DEFINE c == idle[t]
    <3>1. \A s \in SitesOf(t) : f[s] = IF BlockOn(s) = OPEN THEN c ELSE u[BlockOn(s)]
      BY <2>3
    <3>. HIDE DEF c, u
    <3>2. /\ Sum(f, SitesOf(t)) = Sum(u, Having(t)) + Repeated(Left(t), c)
          /\ Sum(u, Having(t)) \in Nat /\ Repeated(Left(t), c) \in Nat
      BY <1>1, <2>1, <2>2, <3>1, SumOfType
    <3>3. QED
      BY <3>2 DEF c, Repeated
  <2>. HIDE DEF u, V, k
  <2>6. g[t] = Sum(f, SitesOf(t))
    BY <1>5, <1>6
  <2>7. h[t] = Sum(u, Having(t)) + SumFunction([n \in 1 .. Left(t) |-> idle[t]])
    BY <1>6, <2>4 DEF u
  <2>8. QED
    BY <2>5, <2>6, <2>7
<1>7. Sum(f, V) = Sum(g, K)
  <2>. HIDE DEF V, k, K
  <2>1. Numbers(f, V)
    BY DEF V
  <2>2. QED
    BY <1>2, <1>3, <1>4, <2>1, SumGroups
<1>8. SumFunction(h) = Sum(h, K)
  BY DEF SumFunction, Sum
<1>. HIDE DEF g, h, V, K
<1>9. Sum(g, K) = Sum(h, K)
  <2>1. Numbers(g, K)
    BY <1>6 DEF Numbers
  <2>2. QED
    BY <1>3, <1>6, <2>1, SumSame
<1>10. QED
  BY <1>7, <1>8, <1>9 DEF h, V, K, SiteSum

\* Each block of a type the library has is met once.
LEMMA CountedOnce ==
  ASSUME ReadInv, GridInv, WalkInv, main = "done", NEW i \in Blocks,
         \A j \in Blocks : coords[j].z < TypeOf(j).capacity
  PROVE  counted[i] = IF input.blocks[i].type \in InLibrary THEN 1 ELSE 0
<1>. DEFINE A == {s \in Visited(at) : BlockOn(s) = i}
            s0 == <<<<coords[i].x, coords[i].y>>, coords[i].z>>
            t == input.blocks[i].type
<1>1. /\ Visited(at) = {s \in Sites : SiteType(s) \in InLibrary} /\ GridSize
      /\ main \in GridIsFull /\ main \in OnGrid /\ input \in Inputs
  BY AllVisited DEF GridIsFull, OnGrid, ReadInv
<1>2. counted[i] = Cardinality(A)
  BY DEF WalkInv, Walking
<1>3. i # OPEN
  BY <1>1, InputFacts DEF OPEN
<1>4. s0 \in Sites /\ SiteType(s0) = t /\ BlockOn(s0) = i
  BY <1>1, SiteOfBlock DEF SitesOf
<1>5. ASSUME NEW s \in Sites, BlockOn(s) = i PROVE s = s0 /\ SiteType(s) = t
  <2>1. /\ coords[i] = [x |-> s[1][1], y |-> s[1][2], z |-> s[2]] /\ SiteType(s) = t
    BY <1>1, <1>3, <1>5, BlockOnSite
  <2>2. s = <<<<s[1][1], s[1][2]>>, s[2]>>
    BY <1>1, SiteFacts
  <2>3. coords[i].x = s[1][1] /\ coords[i].y = s[1][2] /\ coords[i].z = s[2]
    BY <2>1
  <2>4. QED
    BY <2>1, <2>2, <2>3
<1>. HIDE DEF s0, t
<1>6. CASE t \in InLibrary
  <2>1. A = {s0}
    BY <1>1, <1>4, <1>5, <1>6
  <2>2. QED
    BY <1>2, <1>6, <2>1, FS_Singleton DEF t
<1>7. CASE t \notin InLibrary
  <2>1. A = {}
    BY <1>1, <1>5, <1>7
  <2>2. QED
    BY <1>2, <1>7, <2>1, FS_EmptySet DEF t
<1>8. QED
  BY <1>6, <1>7

-----------------------------------------------------------------------------
(* The multiplexers of a tree *)

LEMMA Products ==
  ASSUME NEW b \in Nat \ {0}, NEW c \in Nat, NEW e \in Nat
  PROVE  /\ b * c \in Nat
         /\ c <= e => b * c <= b * e
         /\ c < e => b * c + b <= b * e
         /\ c <= b * c
OBVIOUS

LEMMA CeilFacts ==
  ASSUME NEW a \in Nat, NEW b \in Nat \ {0}
  PROVE  Ceil(a, b) \in Nat /\ a <= b * Ceil(a, b) /\ b * Ceil(a, b) < a + b
<1>. DEFINE n == a + b - 1
            q == n \div b
            r == n % b
<1>1. n \in Nat /\ b \in Nat \ {0}
  OBVIOUS
<1>. HIDE DEF n
<1>2. q \in Nat /\ r \in 0 .. b - 1 /\ n = b * q + r
  BY <1>1
<1>. HIDE DEF q, r
<1>3. b * q \in Nat
  BY <1>2, Products
<1>4. a <= b * q /\ b * q < a + b
  BY <1>2, <1>3 DEF n
<1>5. Ceil(a, b) = q
  BY DEF Ceil, q, n
<1>6. QED
  BY <1>2, <1>4, <1>5

LEMMA CeilOnly ==
  ASSUME NEW a \in Nat, NEW b \in Nat \ {0}, NEW c \in Nat, a <= b * c, b * c < a + b
  PROVE  c = Ceil(a, b)
<1>. DEFINE e == Ceil(a, b)
<1>1. e \in Nat /\ a <= b * e /\ b * e < a + b
  BY CeilFacts
<1>. HIDE DEF e
<1>2. b * c \in Nat /\ b * e \in Nat
  BY <1>1, Products
<1>3. ~(c < e)
  <2>1. c < e => b * c + b <= b * e
    BY <1>1, Products
  <2>2. QED
    BY <1>1, <1>2, <2>1
<1>4. ~(e < c)
  <2>1. e < c => b * e + b <= b * c
    BY <1>1, Products
  <2>2. QED
    BY <1>1, <1>2, <2>1
<1>5. QED
  BY <1>1, <1>3, <1>4 DEF e

\* As many as are needed for the ones needed.
LEMMA CeilTwice ==
  ASSUME NEW a \in Nat, NEW p \in Nat \ {0}, NEW d \in Nat \ {0}
  PROVE  Ceil(Ceil(a, p), d) = Ceil(a, d * p) /\ d * p \in Nat \ {0}
<1>. DEFINE e == Ceil(a, p)
            c == Ceil(e, d)
<1>1. e \in Nat /\ a <= p * e /\ p * e < a + p
  BY CeilFacts
<1>. HIDE DEF e
<1>2. c \in Nat /\ e <= d * c /\ d * c < e + d
  BY <1>1, CeilFacts
<1>. HIDE DEF c
<1>3. d * c \in Nat /\ p * (d * c) \in Nat /\ p * e \in Nat /\ d * p \in Nat
  BY <1>1, <1>2, Products
<1>4. p * e <= p * (d * c)
  BY <1>1, <1>2, <1>3, Products
<1>5. p * (d * c) <= p * (e + (d - 1))
  <2>1. e + (d - 1) \in Nat /\ d * c <= e + (d - 1)
    BY <1>1, <1>2, <1>3
  <2>2. QED
    BY <1>3, <2>1, Products
<1>6. p * (e + (d - 1)) = p * e + d * p - p
  BY <1>1
<1>7. (d * p) * c = p * (d * c)
  BY <1>2
<1>8. a <= (d * p) * c /\ (d * p) * c < a + d * p
  BY <1>1, <1>3, <1>4, <1>5, <1>6, <1>7
<1>9. d * p \in Nat \ {0}
  BY <1>3, Products
<1>10. c = Ceil(a, d * p)
  <2>. DEFINE b == d * p
  <2>1. b \in Nat \ {0} /\ a <= b * c /\ b * c < a + b
    BY <1>8, <1>9
  <2>. HIDE DEF b
  <2>2. c = Ceil(a, b)
    BY <1>2, <2>1, CeilOnly
  <2>3. QED
    BY <2>2 DEF b
<1>11. QED
  BY <1>9, <1>10 DEF c, e

LEMMA CeilBounds ==
  ASSUME NEW a \in Nat, NEW b \in Nat \ {0}
  PROVE  /\ Ceil(a, b) <= a
         /\ a <= b => Ceil(a, b) <= 1
         /\ b > 1 /\ a > b => Ceil(a, b) # 0 /\ Ceil(a, b) < a
         /\ b = 1 => Ceil(a, b) = a
<1>. DEFINE c == Ceil(a, b)
<1>1. c \in Nat /\ a <= b * c /\ b * c < a + b
  BY CeilFacts
<1>. HIDE DEF c
<1>2. b * c \in Nat
  BY <1>1, Products
<1>3. c <= a
  <2>1. a < c => b * a + b <= b * c
    BY <1>1, Products
  <2>2. b * a \in Nat /\ a <= b * a
    BY Products
  <2>3. QED
    BY <1>1, <1>2, <2>1, <2>2
<1>4. a <= b => c <= 1
  <2>1. 1 < c => b * 1 + b <= b * c
    BY <1>1, Products
  <2>2. b * 1 = b
    OBVIOUS
  <2>3. QED
    BY <1>1, <1>2, <2>1, <2>2
<1>5. ASSUME b > 1, a > b PROVE c # 0 /\ c < a
  <2>1. c # 0
    BY <1>1, <1>5
  <2>2. c = a => b * a < a + b
    BY <1>1
  <2>3. b * a >= 2 * a
    BY <1>5
  <2>4. QED
    BY <1>1, <1>3, <1>5, <2>1, <2>2, <2>3
<1>6. b = 1 => c = a
  BY <1>1
<1>7. QED
  BY <1>3, <1>4, <1>5, <1>6 DEF c

\* The powers of the size, as TreeMuxes has them.
PowersOf(size) == LET Powers[k \in Nat] == IF k = 0 THEN 1 ELSE size * Powers[k - 1] IN Powers

LEMMA PowerFacts ==
  ASSUME NEW d \in Nat, d > 1
  PROVE  /\ PowersOf(d)[0] = 1
         /\ \A k \in Nat : /\ PowersOf(d)[k + 1] = d * PowersOf(d)[k]
                           /\ PowersOf(d)[k] \in Nat \ {0} /\ k < PowersOf(d)[k]
<1>. DEFINE P == CHOOSE p : p = [k \in Nat |-> IF k = 0 THEN 1 ELSE d * p[k - 1]]
            Is(p) == p = [k \in Nat |-> IF k = 0 THEN 1 ELSE d * p[k - 1]]
            Grown == {k \in Nat : P[k] \in Nat \ {0} /\ k < P[k]}
<1>1. PICK p \in [Nat -> Nat] : p[0] = 1 /\ \A k \in Nat : p[k + 1] = d * p[k]
  <2>. DEFINE step == [k \in Nat |-> [n \in Nat |-> d * n]]
  <2>1. step \in Steps(Nat) /\ \A k, n \in Nat : step[k][n] = d * n
    BY Products DEF Steps
  <2>. DEFINE S == Nat
              first == 1
  <2>2. first \in S /\ step \in Steps(S)
    BY <2>1
  <2>. HIDE DEF step, S, first
  <2>3. PICK p \in [Nat -> S] : p[0] = first /\ \A k \in Nat : p[k + 1] = step[k][p[k]]
    BY <2>2, EndlessIteration
  <2>4. p \in [Nat -> Nat] /\ p[0] = 1 /\ \A k \in Nat : p[k] \in Nat
    BY <2>3 DEF S, first
  <2>5. ASSUME NEW k \in Nat PROVE p[k + 1] = d * p[k]
    <3>1. p[k + 1] = step[k][p[k]] /\ p[k] \in Nat
      BY <2>3, <2>4
    <3>2. QED
      BY <2>1, <3>1
  <2>6. QED
    BY <2>4, <2>5
<1>2. Is(p)
  <2>1. ASSUME NEW k \in Nat PROVE p[k] = IF k = 0 THEN 1 ELSE d * p[k - 1]
    <3>1. CASE k = 0
      BY <1>1, <3>1
    <3>2. CASE k # 0
      <4>1. k - 1 \in Nat /\ (k - 1) + 1 = k
        BY <3>2
      <4>2. QED
        BY <1>1, <3>2, <4>1
    <3>3. QED
      BY <3>1, <3>2
  <2>2. p = [k \in Nat |-> p[k]]
    BY <1>1
  <2>3. QED
    BY <2>1, <2>2
<1>3. Is(P)
  <2>1. P = CHOOSE g : Is(g)
    OBVIOUS
  <2>. HIDE DEF P, Is
  <2>2. QED
    BY <1>2, <2>1
<1>. HIDE DEF P
<1>4. P[0] = 1 /\ \A k \in Nat : P[k + 1] = d * P[k]
  <2>1. \A k \in Nat : P[k] = IF k = 0 THEN 1 ELSE d * P[k - 1]
    BY <1>3
  <2>. HIDE DEF Is
  <2>2. ASSUME NEW k \in Nat PROVE P[k + 1] = d * P[k]
    <3>1. k + 1 \in Nat /\ k + 1 # 0 /\ (k + 1) - 1 = k
      OBVIOUS
    <3>2. QED
      BY <2>1, <3>1
  <2>3. QED
    BY <2>1, <2>2
<1>. HIDE DEF Is
<1>5. 0 \in Grown
  BY <1>4
<1>6. ASSUME NEW k \in Nat, k \in Grown PROVE k + 1 \in Grown
  <2>1. P[k] \in Nat \ {0} /\ k < P[k]
    BY <1>6
  <2>2. P[k + 1] = d * P[k]
    BY <1>4
  <2>3. d * P[k] \in Nat /\ d * P[k] >= 2 * P[k]
    BY <2>1, Products
  <2>4. P[k + 1] \in Nat \ {0} /\ k + 1 < P[k + 1]
    BY <2>1, <2>2, <2>3
  <2>5. QED
    BY <2>4
<1>7. Nat \subseteq Grown
  <2>. HIDE DEF Grown
  <2>1. QED
    BY <1>5, <1>6, SetInduction
<1>8. PowersOf(d) = P
  BY DEF PowersOf, P
<1>9. \A k \in Nat : P[k] \in Nat \ {0} /\ k < P[k]
  BY <1>7
<1>10. QED
  BY <1>4, <1>8, <1>9

\* The multiplexers needed when the inputs of so many powers of the size are put together.
Needed(n, d, k) == Ceil(n, PowersOf(d)[k])
Level(n, d, k) == IF Needed(n, d, k - 1) > d THEN Needed(n, d, k) ELSE 0
Levels(n, d) == [k \in 1 .. n |-> Level(n, d, k)]

LEMMA NeededFacts ==
  ASSUME NEW d \in Nat, d > 1, NEW n \in Nat
  PROVE  /\ Needed(n, d, 0) = n
         /\ Needed(n, d, 1) = Ceil(n, d)
         /\ \A k \in Nat : /\ Needed(n, d, k) \in Nat /\ Needed(n, d, k) <= n
                           /\ n <= k + 1 => Needed(n, d, k) <= 1
                           /\ Needed(n, d, k + 1) = Needed(Ceil(n, d), d, k)
<1>. DEFINE P == PowersOf(d)
<1>1. /\ P[0] = 1 /\ d \in Nat \ {0}
      /\ \A k \in Nat : P[k + 1] = d * P[k] /\ P[k] \in Nat \ {0} /\ k < P[k]
  BY PowerFacts
<1>. HIDE DEF P
<1>2. Ceil(n, 1) = n
  BY CeilBounds
<1>3. P[1] = d
  <2>1. P[0 + 1] = d * P[0] /\ 0 + 1 = 1 /\ d * 1 = d
    BY <1>1
  <2>2. QED
    BY <1>1, <2>1
<1>4. ASSUME NEW k \in Nat
      PROVE  /\ Ceil(n, P[k]) \in Nat /\ Ceil(n, P[k]) <= n
             /\ n <= k + 1 => Ceil(n, P[k]) <= 1
             /\ Ceil(n, P[k + 1]) = Ceil(Ceil(n, d), P[k])
  <2>1. P[k] \in Nat \ {0} /\ k < P[k]
    BY <1>1
  <2>2. Ceil(n, P[k]) \in Nat /\ Ceil(n, P[k]) <= n /\ (n <= P[k] => Ceil(n, P[k]) <= 1)
    BY <2>1, CeilFacts, CeilBounds
  <2>3. Ceil(Ceil(n, d), P[k]) = Ceil(n, P[k] * d)
    <3>. DEFINE p == P[k]
    <3>1. p \in Nat \ {0}
      BY <2>1
    <3>. HIDE DEF p
    <3>2. Ceil(Ceil(n, d), p) = Ceil(n, p * d)
      BY <1>1, <3>1, CeilTwice
    <3>3. QED
      BY <3>2 DEF p
  <2>4. P[k] * d = d * P[k]
    BY <2>1
  <2>5. n <= k + 1 => n <= P[k]
    BY <2>1
  <2>6. QED
    BY <1>1, <2>2, <2>3, <2>4, <2>5
<1>5. \A m, k : Needed(m, d, k) = Ceil(m, P[k])
  BY DEF Needed, P
<1>6. QED
  BY <1>1, <1>2, <1>3, <1>4, <1>5

LEMMA TreeIs ==
  ASSUME NEW d, NEW n
  PROVE  TreeMuxes(n, d) = 1 + Sum(Levels(n, d), 1 .. n)
BY DEF TreeMuxes, Levels, Level, Needed, PowersOf, SumFunction, Sum

\* One more level over the multiplexers of the first.
LEMMA TreeStep ==
  ASSUME NEW d \in Nat, d > 1, NEW n \in Nat
  PROVE  /\ TreeMuxes(n, d) \in Nat
         /\ n <= d => TreeMuxes(n, d) = 1
         /\ n > d => TreeMuxes(n, d) = Ceil(n, d) + TreeMuxes(Ceil(n, d), d)
<1>. DEFINE m == Ceil(n, d)
            f == Levels(n, d)
            g == Levels(m, d)
<1>1. m \in Nat /\ (n > d => m # 0 /\ m < n)
  BY CeilFacts, CeilBounds
<1>. HIDE DEF m
<1>2. ASSUME NEW a \in Nat PROVE IsFiniteSet(1 .. a)
  BY <1>2, FS_Interval
<1>3. ASSUME NEW a \in Nat, NEW k \in 1 .. a PROVE Levels(a, d)[k] = Level(a, d, k) /\ Level(a, d, k) \in Nat
  <2>1. k \in Nat /\ Needed(a, d, k) \in Nat
    BY NeededFacts
  <2>2. QED
    BY <2>1 DEF Levels, Level
<1>4. Numbers(f, 1 .. n) /\ Numbers(g, 1 .. m)
  BY <1>1, <1>3 DEF Numbers
<1>5. Sum(f, 1 .. n) \in Nat /\ Sum(g, 1 .. m) \in Nat
  BY <1>1, <1>2, <1>4, SumType
<1>6. TreeMuxes(n, d) = 1 + Sum(f, 1 .. n) /\ TreeMuxes(m, d) = 1 + Sum(g, 1 .. m)
  BY TreeIs
<1>7. \A k \in 1 .. n : f[k] = Level(n, d, k)
  BY <1>3
<1>8. \A k \in 1 .. m : g[k] = Level(m, d, k)
  BY <1>1, <1>3
<1>. HIDE DEF f, g
<1>9. ASSUME n <= d PROVE Sum(f, 1 .. n) = 0
  <2>1. ASSUME NEW k \in 1 .. n PROVE f[k] = 0
    <3>1. k - 1 \in Nat
      OBVIOUS
    <3>2. Needed(n, d, k - 1) \in Nat /\ Needed(n, d, k - 1) <= n
      BY <3>1, NeededFacts
    <3>3. QED
      BY <1>7, <1>9, <3>2 DEF Level
  <2>2. Sum(f, 1 .. n) = Cardinality(1 .. n) * 0 /\ Cardinality(1 .. n) \in Nat
    BY <1>2, <2>1, SumConstant, FS_CardinalityType
  <2>3. QED
    BY <2>2
<1>10. ASSUME n > d PROVE Sum(f, 1 .. n) = m + Sum(g, 1 .. m)
  <2>. DEFINE A == 2 .. n
              B == 2 .. m + 1
              h == [k \in 1 .. m |-> k + 1]
  <2>1. 1 \in 1 .. n /\ (1 .. n) \ {1} = A /\ B \subseteq A
    BY <1>1, <1>10
  <2>2. f[1] = m
    <3>1. Needed(n, d, 1 - 1) = n /\ Needed(n, d, 1) = m
      BY NeededFacts DEF m
    <3>2. QED
      BY <1>7, <1>10, <2>1, <3>1 DEF Level
  <2>3. ASSUME NEW k \in Nat, k >= 1 PROVE Level(n, d, k + 1) = Level(m, d, k)
    <3>1. k - 1 \in Nat /\ (k - 1) + 1 = k /\ (k + 1) - 1 = k
      BY <2>3
    <3>2. Needed(n, d, k) = Needed(m, d, k - 1) /\ Needed(n, d, k + 1) = Needed(m, d, k)
      <4>1. \A j \in Nat : Needed(n, d, j + 1) = Needed(m, d, j)
        BY NeededFacts DEF m
      <4>2. QED
        BY <3>1, <4>1
    <3>3. QED
      BY <3>1, <3>2 DEF Level
  <2>4. \A k \in 1 .. m : g[k] = f[h[k]] /\ h[k] = k + 1
    <3>1. ASSUME NEW k \in 1 .. m PROVE g[k] = f[k + 1]
      <4>1. k + 1 \in 1 .. n /\ k \in Nat /\ k >= 1
        BY <1>1, <1>10
      <4>2. QED
        BY <1>7, <1>8, <2>3, <4>1
    <3>2. QED
      BY <3>1
  <2>5. ASSUME NEW k \in A \ B PROVE f[k] = 0
    <3>1. k - 1 \in Nat /\ k - 1 >= 1 /\ k - 1 >= m + 1 /\ (k - 1) + 1 = k /\ k \in 1 .. n /\ k - 2 \in Nat /\ (k - 1) - 1 = k - 2
      BY <1>1
    <3>2. f[k] = Level(m, d, k - 1)
      BY <1>7, <2>3, <3>1
    <3>3. Needed(m, d, k - 2) \in Nat /\ Needed(m, d, k - 2) <= 1
      <4>1. m <= (k - 2) + 1
        BY <1>1, <3>1
      <4>2. QED
        BY <1>1, <3>1, <4>1, NeededFacts
    <3>4. QED
      BY <3>1, <3>2, <3>3 DEF Level
  <2>6. {h[k] : k \in 1 .. m} = B
    <3>1. \A k \in B : k - 1 \in 1 .. m /\ h[k - 1] = k
      BY <1>1
    <3>2. \A k \in 1 .. m : k + 1 \in B
      BY <1>1
    <3>. HIDE DEF B
    <3>3. \A k \in 1 .. m : h[k] \in B
      BY <2>4, <3>2
    <3>. HIDE DEF h
    <3>4. QED
      BY <3>1, <3>3
  <2>7. \A j, k \in 1 .. m : h[j] = h[k] => j = k
    BY <2>4
  <2>8. IsFiniteSet(1 .. n) /\ IsFiniteSet(1 .. m) /\ IsFiniteSet(A) /\ IsFiniteSet(B)
    BY <1>1, <1>2, <2>1, FS_Subset
  <2>9. Numbers(f, A) /\ Numbers(f, A \ B)
    BY <1>4, <2>1 DEF Numbers
  <2>. HIDE DEF A, B, h
  <2>10. Sum(g, 1 .. m) = Sum(f, B)
    <3>. DEFINE M == 1 .. m
    <3>1. /\ IsFiniteSet(M) /\ Numbers(g, M) /\ {h[k] : k \in M} = B
          /\ \A j, k \in M : h[j] = h[k] => j = k
          /\ \A k \in M : g[k] = f[h[k]]
      BY <1>4, <2>4, <2>6, <2>7, <2>8
    <3>. HIDE DEF M
    <3>2. Sum(g, M) = Sum(f, {h[k] : k \in M})
      BY <3>1, SumImage
    <3>3. QED
      BY <3>1, <3>2 DEF M
  <2>11. Sum(f, 1 .. n) = f[1] + Sum(f, A)
    BY <1>4, <2>1, <2>8, SumAny
  <2>12. Sum(f, A) = Sum(f, B) + Sum(f, A \ B)
    BY <2>1, <2>8, <2>9, SumSplit
  <2>13. Sum(f, A \ B) = 0
    <3>1. IsFiniteSet(A \ B)
      BY <2>8, FS_Subset
    <3>2. Sum(f, A \ B) = Cardinality(A \ B) * 0 /\ Cardinality(A \ B) \in Nat
      BY <2>5, <3>1, SumConstant, FS_CardinalityType
    <3>3. QED
      BY <3>2
  <2>14. QED
    BY <1>5, <2>2, <2>10, <2>11, <2>12, <2>13
<1>11. QED
  BY <1>1, <1>5, <1>6, <1>9, <1>10 DEF m

\* The recursion counts the multiplexers of a tree.
LEMMA MuxesOfTree ==
  ASSUME NEW d \in Nat, d > 1, NEW n \in Nat
  PROVE  num_default_muxes(n, d) = TreeMuxes(n, d)
<1>. DEFINE Is(g) == g = [size \in Nat |->
                      IF size > d THEN LET level == Ceil(size, d) IN level + g[level] ELSE 1]
            From == CHOOSE g : g = [size \in Nat |->
                      IF size > d THEN LET level == Ceil(size, d) IN level + g[level] ELSE 1]
            T == [size \in Nat |-> TreeMuxes(size, d)]
            Agree == {k \in Nat : \A j \in 0 .. k : From[j] = TreeMuxes(j, d)}
<1>1. \A k \in Nat : Ceil(k, d) \in Nat /\ (k > d => Ceil(k, d) < k)
  BY CeilFacts, CeilBounds
<1>2. Is(T)
  <2>1. ASSUME NEW k \in Nat
        PROVE  TreeMuxes(k, d) = IF k > d THEN Ceil(k, d) + TreeMuxes(Ceil(k, d), d) ELSE 1
    BY TreeStep
  <2>2. ASSUME NEW k \in Nat
        PROVE  T[k] = IF k > d THEN LET level == Ceil(k, d) IN level + T[level] ELSE 1
    BY <1>1, <2>1
  <2>3. T = [k \in Nat |-> T[k]]
    OBVIOUS
  <2>. HIDE DEF T
  <2>4. QED
    BY <2>2, <2>3
<1>3. Is(From)
  <2>1. From = CHOOSE g : Is(g)
    OBVIOUS
  <2>. HIDE DEF From, Is, T
  <2>2. QED
    BY <1>2, <2>1
<1>. HIDE DEF From
<1>4. \A k \in Nat : From[k] = IF k > d THEN Ceil(k, d) + From[Ceil(k, d)] ELSE 1
  BY <1>3
<1>. HIDE DEF Is
<1>5. ASSUME NEW k \in Nat, \A j \in Nat : j < k => From[j] = TreeMuxes(j, d)
      PROVE  From[k] = TreeMuxes(k, d)
  <2>1. CASE k > d
    <3>1. From[Ceil(k, d)] = TreeMuxes(Ceil(k, d), d)
      BY <1>1, <1>5, <2>1
    <3>2. QED
      BY <1>4, <2>1, <3>1, TreeStep
  <2>2. CASE ~(k > d)
    <3>1. k <= d
      BY <2>2
    <3>2. QED
      BY <1>4, <2>2, <3>1, TreeStep
  <2>3. QED
    BY <2>1, <2>2
<1>6. 0 \in Agree
  <2>1. \A j \in 0 .. 0 : j = 0
    OBVIOUS
  <2>2. From[0] = TreeMuxes(0, d)
    BY <1>5
  <2>3. QED
    BY <2>1, <2>2
<1>7. ASSUME NEW k \in Nat, k \in Agree PROVE k + 1 \in Agree
  <2>1. \A j \in Nat : j < k + 1 => From[j] = TreeMuxes(j, d)
    BY <1>7
  <2>2. From[k + 1] = TreeMuxes(k + 1, d)
    BY <1>5, <2>1
  <2>3. \A j \in 0 .. k + 1 : j = k + 1 \/ (j \in Nat /\ j < k + 1)
    OBVIOUS
  <2>4. QED
    BY <2>1, <2>2, <2>3
<1>8. n \in Agree
  <2>. HIDE DEF Agree
  <2>1. QED
    BY <1>6, <1>7, SetInduction
<1>9. From[n] = TreeMuxes(n, d)
  BY <1>8
<1>10. num_default_muxes(n, d) = From[n]
  BY DEF num_default_muxes, From
<1>11. QED
  BY <1>9, <1>10

\* What is found in a complex block of the type, or of an idle site with NoPb.
PartsOf(t, pb) == BlockParts(Types[t].node, pb, instances[EntryFor(t, instances)], input.lib.mux_size)
Used(i) == PartsOf(input.blocks[i].type, input.blocks[i].pb)

LEMMA PartsOnSite ==
  ASSUME ReadInv, GridInv, WalkInv, main = "done", NEW s \in Visited(at)
  PROVE  /\ SiteType(s) \in InLibrary /\ s \in Sites
         /\ PartsOn(s) = IF BlockOn(s) = OPEN THEN PartsOf(SiteType(s), NoPb) ELSE Used(BlockOn(s))
         /\ BlockOn(s) # OPEN => BlockOn(s) \in Blocks
<1>1. s \in Sites /\ SiteType(s) \in InLibrary /\ main \in OnGrid
  BY AllVisited DEF OnGrid
<1>2. BlockOn(s) # OPEN => BlockOn(s) \in Blocks /\ input.blocks[BlockOn(s)].type = SiteType(s)
  BY <1>1, BlockOnSite
<1>3. QED
  BY <1>1, <1>2 DEF PartsOn, PbOn, PartsOf, Used

LEMMA Estimates ==
  ASSUME ReadInv, GridInv, WalkInv, main = "done", \A i \in Blocks : coords[i].z < TypeOf(i).capacity
  PROVE  /\ logic_conf_bits = SiteSum([i \in Blocks |-> Bits(Used(i))], [t \in InLibrary |-> Bits(PartsOf(t, NoPb))])
         /\ num_muxes = SiteSum([i \in Blocks |-> Muxes(Used(i))], [t \in InLibrary |-> Muxes(PartsOf(t, NoPb))])
<1>1. /\ logic_conf_bits = Sum(BitsOn, Visited(at)) /\ num_muxes = Sum(MuxesOn, Visited(at))
      /\ \A s \in Visited(at) : Bits(PartsOn(s)) \in Nat /\ Muxes(PartsOn(s)) \in Nat
  BY DEF WalkInv, Walking
<1>. DEFINE ub == [i \in Blocks |-> Bits(Used(i))]
            ib == [t \in InLibrary |-> Bits(PartsOf(t, NoPb))]
            um == [i \in Blocks |-> Muxes(Used(i))]
            im == [t \in InLibrary |-> Muxes(PartsOf(t, NoPb))]
<1>2. ASSUME NEW s \in Visited(at)
      PROVE  /\ BitsOn[s] = Bits(PartsOn(s)) /\ MuxesOn[s] = Muxes(PartsOn(s))
             /\ BitsOn[s] = IF BlockOn(s) = OPEN THEN ib[SiteType(s)] ELSE ub[BlockOn(s)]
             /\ MuxesOn[s] = IF BlockOn(s) = OPEN THEN im[SiteType(s)] ELSE um[BlockOn(s)]
  <2>1. /\ SiteType(s) \in InLibrary /\ s \in Sites
        /\ PartsOn(s) = IF BlockOn(s) = OPEN THEN PartsOf(SiteType(s), NoPb) ELSE Used(BlockOn(s))
        /\ BlockOn(s) # OPEN => BlockOn(s) \in Blocks
    BY PartsOnSite
  <2>2. BitsOn[s] = Bits(PartsOn(s)) /\ MuxesOn[s] = Muxes(PartsOn(s))
    BY <2>1 DEF BitsOn, MuxesOn
  <2>3. QED
    BY <2>1, <2>2
<1>. HIDE DEF ub, ib, um, im
<1>3. Numbers(BitsOn, Visited(at)) /\ Numbers(MuxesOn, Visited(at))
  BY <1>1, <1>2 DEF Numbers
<1>4. Sum(BitsOn, Visited(at)) = SiteSum(ub, ib)
  <2>1. \A s \in Visited(at) : BitsOn[s] = IF BlockOn(s) = OPEN THEN ib[SiteType(s)] ELSE ub[BlockOn(s)]
    BY <1>2
  <2>2. QED
    BY <1>3, <2>1, EstimateSum
<1>5. Sum(MuxesOn, Visited(at)) = SiteSum(um, im)
  <2>1. \A s \in Visited(at) : MuxesOn[s] = IF BlockOn(s) = OPEN THEN im[SiteType(s)] ELSE um[BlockOn(s)]
    BY <1>2
  <2>2. QED
    BY <1>3, <2>1, EstimateSum
<1>6. QED
  BY <1>1, <1>4, <1>5 DEF ub, ib, um, im

\* At the end of every run whose blocks are on sites of their own, the estimate has each
\* block of a type in the library once, each other site of the type as an idle one, and
\* nothing else; and the multiplexers of an interconnect are those of a tree. On any grid
\* and with any library, whatever power_pb finds in a block.
THEOREM EstimateCountsOnce == Spec => []SitesCountedOnce
<1>1. ASSUME ReadInv, GridInv, WalkInv PROVE SitesCountedOnce
  <2>. SUFFICES ASSUME main = "done", \A i \in Blocks : ~AtCapacity(i)
                PROVE  /\ \A i \in Blocks : counted[i] = IF input.blocks[i].type \in InLibrary THEN 1 ELSE 0
                       /\ logic_conf_bits = SiteSum([i \in Blocks |-> Bits(Used(i))], [t \in InLibrary |-> Bits(PartsOf(t, NoPb))])
                       /\ num_muxes = SiteSum([i \in Blocks |-> Muxes(Used(i))], [t \in InLibrary |-> Muxes(PartsOf(t, NoPb))])
                       /\ \A t \in DOMAIN Types : \A mode \in ToSet(Types[t].node.modes) : \A m \in ToSet(mode.muxes) :
                            input.lib.mux_size > 1 =>
                              num_default_muxes(m.inputs, input.lib.mux_size) = TreeMuxes(m.inputs, input.lib.mux_size)
    BY DEF SitesCountedOnce, SiteSum, InLibrary, Having, Left, Used, PartsOf
  <2>0. \A i \in Blocks : coords[i].z < TypeOf(i).capacity
    <3>1. \A i \in Blocks : OnSite(i)
      BY <1>1, AllOnSite DEF GridIsFull
    <3>2. ASSUME NEW i \in Blocks PROVE TypeOf(i).capacity \in Nat
      BY <1>1, InputFacts, TypesAssumption DEF TypeOf, ReadInv
    <3>3. ASSUME NEW i \in Blocks PROVE coords[i].z < TypeOf(i).capacity
      <4>. DEFINE z == coords[i].z
                  c == TypeOf(i).capacity
      <4>1. z \in 0 .. c /\ z # c /\ c \in Nat
        BY <3>1, <3>2 DEF OnSite, AtCapacity
      <4>. HIDE DEF z, c
      <4>2. z < c
        BY <4>1
      <4>3. QED
        BY <4>2 DEF z, c
    <3>4. QED
      BY <3>3
  <2>1. \A i \in Blocks : counted[i] = IF input.blocks[i].type \in InLibrary THEN 1 ELSE 0
    BY <1>1, <2>0, CountedOnce
  <2>2. /\ logic_conf_bits = SiteSum([i \in Blocks |-> Bits(Used(i))], [t \in InLibrary |-> Bits(PartsOf(t, NoPb))])
        /\ num_muxes = SiteSum([i \in Blocks |-> Muxes(Used(i))], [t \in InLibrary |-> Muxes(PartsOf(t, NoPb))])
    BY <1>1, <2>0, Estimates
  <2>3. ASSUME NEW t \in DOMAIN Types, NEW mode \in ToSet(Types[t].node.modes), NEW m \in ToSet(mode.muxes),
               input.lib.mux_size > 1
        PROVE  num_default_muxes(m.inputs, input.lib.mux_size) = TreeMuxes(m.inputs, input.lib.mux_size)
    <3>1. m.inputs \in Nat
      BY TypesAssumption
    <3>2. input.lib.mux_size \in Nat
      <4>1. input.lib.mux_size \in Int
        BY <1>1, InputsAssumption DEF ReadInv
      <4>2. QED
        BY <2>3, <4>1
    <3>3. QED
      BY <2>3, <3>1, <3>2, MuxesOfTree
  <2>4. QED
    BY <2>1, <2>2, <2>3
<1>2. QED
  BY <1>1, WalkHolds, PTL
=============================================================================
