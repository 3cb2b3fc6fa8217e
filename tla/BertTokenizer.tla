---------------------------- MODULE BertTokenizer ----------------------------
(***************************************************************************)
(* The WordPiece tokenizer of foldermcp v3, a pure function of a text:     *)
(* special tokens are found in the raw text, what lies between them is     *)
(* normalised, cut into words and these into the longest pieces of the     *)
(* vocabulary, and the ids are framed, cut and padded to one length.  A    *)
(* text is a sequence of characters, known by their classes; an id is a    *)
(* record, a vocabulary being one-to-one.  A behaviour encodes one text.   *)
(***************************************************************************)
EXTENDS Naturals, Sequences, FiniteSets, FiniteSetsExt, SequencesExt

CONSTANTS
    Characters,
    Dropped,       \* control characters, NUL and U+FFFD, other than tab and newline
    Whitespace,        \* white space to isWhitespace
    Spaces,        \* white space to strings.Fields
    Ideographs,
    Marks,         \* nonspacing
    Punctuation,
    Decompose,     \* character -> sequence of its canonical decomposition
    Lower,         \* character -> its lower case
    Vocabulary,    \* pieces: [kind |-> "first" or "next" of a word, chars |-> sequence]
    AddedTokens,   \* the special ones, sequences of raw characters
    MaxInputChars, \* characters of a word
    MaxSeqLen,
    MaxText,       \* bound: characters of a text
    Options        \* normalisers of tokenizer.json: sets of names

ASSUME TokenizerAssumption ==
    /\ Whitespace \cup Spaces \cup Ideographs \cup Marks \cup Punctuation \cup Dropped
           \subseteq Characters
    /\ AddedTokens \subseteq Seq(Characters) \ {<< >>}
    /\ Vocabulary \subseteq [kind : {"first", "next"}, chars : Seq(Characters)]
    /\ MaxSeqLen \in Nat /\ MaxSeqLen >= 2
    /\ {MaxInputChars, MaxText} \subseteq Nat

\* What Unicode says of the characters: the decomposition of an ideograph is one
\* letter, which no white space is, in any case; a space is its own decomposition.
ASSUME CharacterAssumption ==
    /\ Decompose \in [Characters -> Seq(Characters)]
    /\ Lower \in [Characters -> Characters]
    /\ "space" \in Spaces \ Marks /\ Decompose["space"] = <<"space">> /\ Lower["space"] = "space"
    /\ Punctuation \cap Spaces = {}
    /\ Ideographs \cap Whitespace = {} /\ "space" \notin Ideographs
    /\ \A c \in Ideographs :
           \E d \in Characters \ Marks :
               Decompose[c] = <<d>> /\ {c, d, Lower[c], Lower[d]} \cap Spaces = {}

VARIABLES text, options, encoded   \* encoded: ids and mask, or none

tokenizerVars == <<text, options, encoded>>

Special(t) == [kind |-> "special", chars |-> t]
Unknown == Special(<<"UNK">>)
NotEncoded == [ids |-> << >>, mask |-> << >>]

-----------------------------------------------------------------------------
(* Encode                                                                  *)

\* Each normaliser maps a character to a sequence of them.
Each(f, s) == FlattenSeq([i \in DOMAIN s |-> f[s[i]]])

\* Fault: tabs and line ends are control characters too.
DropControls ==
    [c \in Characters |-> IF c \in Dropped \cup (Whitespace \ {"space"}) THEN << >> ELSE <<c>>]

CleanText ==
    [c \in Characters |->
        IF c \in Dropped THEN << >> ELSE IF c \in Whitespace THEN <<"space">> ELSE <<c>>]
SurroundIdeograph == [c \in Characters |-> IF c \in Ideographs THEN <<"space", c, "space">> ELSE <<c>>]
DropMark == [c \in Characters |-> IF c \in Marks THEN << >> ELSE <<c>>]
StripAccents == [c \in Characters |-> Each(DropMark, Decompose[c])]
LowerCase == [c \in Characters |-> <<Lower[c]>>]

When(chosen, name, f, s) == IF name \in chosen THEN Each(f, s) ELSE s

Normalize(chosen, s) ==
    When(chosen, "lowercase", LowerCase,
     When(chosen, "strip_accents", StripAccents,
      When(chosen, "handle_chinese_chars", SurroundIdeograph,
       When(chosen, "clean_text", CleanText, s))))

\* Words end at white space; punctuation is a word of its own.
Flush(acc) == IF acc.word = << >> THEN acc.words ELSE Append(acc.words, acc.word)

AddLetter(acc, c) ==
    IF c \in Spaces THEN [words |-> Flush(acc), word |-> << >>]
    ELSE IF c \in Punctuation THEN [words |-> Append(Flush(acc), <<c>>), word |-> << >>]
    ELSE [words |-> acc.words, word |-> Append(acc.word, c)]

BasicTokenize(s) ==
    LET scan[i \in 0 .. Len(s)] ==
            IF i = 0 THEN [words |-> << >>, word |-> << >>] ELSE AddLetter(scan[i - 1], s[i])
    IN  Flush(scan[Len(s)])

\* The prefix of a continuing piece is of punctuation, which a longer word has none of.
Piece(word, start, end) ==
    [kind |-> IF start = 1 THEN "first" ELSE "next", chars |-> SubSeq(word, start, end)]

\* Where a piece that begins at start may end.
Ends(word, start) == {end \in start .. Len(word) : Piece(word, start, end) \in Vocabulary}

Pieces(word) ==
    LET from[start \in 1 .. Len(word) + 1] ==
            IF start > Len(word) THEN << >>
            ELSE IF Ends(word, start) = {} THEN <<Unknown>>
            ELSE LET end == Max(Ends(word, start))
                 IN  <<Piece(word, start, end)>> \o from[end + 1]
    IN  from[1]

\* One piece missing, and the whole word is unknown.
WordPiece(word) ==
    IF Len(word) > MaxInputChars \/ Unknown \in ToSet(Pieces(word)) THEN <<Unknown>>
    ELSE Pieces(word)

PiecesOfAll(words) == FlattenSeq([i \in DOMAIN words |-> WordPiece(words[i])])
Tokens(s) == PiecesOfAll(BasicTokenize(s))

\* The lengths of the special tokens that a text has at a position.
SpecialLengths(raw, i) ==
    {Len(t) : t \in {t \in AddedTokens : IsPrefix(t, SubSeq(raw, i, Len(raw)))}}

\* splitOnAddedTokens: the leftmost one, the longest of those, then the rest.
TokensFrom(chosen, raw) ==
    LET from[k \in 1 .. Len(raw) + 1] ==
            LET found == {i \in k .. Len(raw) : SpecialLengths(raw, i) # {}}
                first == Min(found)
                next == first + Max(SpecialLengths(raw, first))
            IN  IF found = {} THEN Tokens(Normalize(chosen, SubSeq(raw, k, Len(raw))))
                ELSE Tokens(Normalize(chosen, SubSeq(raw, k, first - 1)))
                         \o <<Special(SubSeq(raw, first, next - 1))>> \o from[next]
    IN  from[1]

\* CLS and SEP have a place each.
Truncate(ids) == SubSeq(ids, 1, Min({Len(ids), MaxSeqLen - 2}))

Frame(content) ==
    [ids |-> [i \in 1 .. MaxSeqLen |->
                 CASE i = 1 -> Special(<<"CLS">>)
                   [] i > 1 /\ i <= Len(content) + 1 -> content[i - 1]
                   [] i = Len(content) + 2 -> Special(<<"SEP">>)
                   [] OTHER -> Special(<<"PAD">>)],
     mask |-> [i \in 1 .. MaxSeqLen |-> IF i <= Len(content) + 2 THEN 1 ELSE 0]]

Encode ==
    /\ encoded = NotEncoded
    /\ encoded' = Frame(Truncate(TokensFrom(options, text)))
    /\ UNCHANGED <<text, options>>

TokenizerInit ==
    /\ text \in BoundedSeq(Characters, MaxText)
    /\ options \in Options
    /\ encoded = NotEncoded

TokenizerNext == Encode

TokenizerSpec == TokenizerInit /\ [][TokenizerNext]_tokenizerVars

-----------------------------------------------------------------------------
(* What the tokens should be, said of positions of the text.               *)

\* The length of the special token that is found at each position, or zero: there
\* is none inside another.
SpecialAt(raw) ==
    LET At[i \in DOMAIN raw] ==
            IF SpecialLengths(raw, i) = {} \/ \E j \in 1 .. i - 1 : j + At[j] > i THEN 0
            ELSE Max(SpecialLengths(raw, i))
    IN  At

\* What a character becomes, white space included.
Letters(chosen, c) ==
    LET spaced == IF "clean_text" \in chosen /\ c \in Whitespace THEN "space" ELSE c
        apart == IF "strip_accents" \in chosen THEN StripAccents[spaced] ELSE <<spaced>>
    IN  IF "clean_text" \in chosen /\ c \in Dropped THEN << >>
        ELSE [i \in DOMAIN apart |-> IF "lowercase" \in chosen THEN Lower[apart[i]] ELSE apart[i]]

\* A character's letters, each known to stand alone or not.
Marked(chosen, c) ==
    [k \in DOMAIN Letters(chosen, c) |->
        [chars |-> <<Letters(chosen, c)[k]>>, special |-> FALSE,
         alone |-> \/ Letters(chosen, c)[k] \in Punctuation
                   \/ "handle_chinese_chars" \in chosen /\ c \in Ideographs]]

\* The text as letters and special tokens, which stand alone.
MarkedAt(chosen, raw, i) ==
    LET at == SpecialAt(raw)
    IN  IF at[i] > 0
        THEN <<[chars |-> SubSeq(raw, i, i + at[i] - 1), alone |-> TRUE, special |-> TRUE]>>
        ELSE IF \E j \in 1 .. i - 1 : j + at[j] > i THEN << >>
        ELSE Marked(chosen, raw[i])

MarkedText(chosen, raw) == FlattenSeq([i \in DOMAIN raw |-> MarkedAt(chosen, raw, i)])

\* A word is a longest run of letters without space, none alone, or one alone.
Joins(marked, i) ==
    /\ i \in DOMAIN marked
    /\ ~marked[i].alone
    /\ marked[i].chars[1] \notin Spaces

BeginsWord(marked, i, j) ==
    \/ i = j /\ marked[i].alone
    \/ /\ i <= j /\ \A k \in i .. j : Joins(marked, k)
       /\ ~Joins(marked, i - 1)

EndsWord(marked, j) == marked[j].alone \/ (Joins(marked, j) /\ ~Joins(marked, j + 1))

\* Pieces that spell the word, none of which could have been longer, by where they begin.
After(S, word, i) == Min({j \in S : j > i} \cup {Len(word) + 1})

Cuts(word) ==
    {S \in SUBSET DOMAIN word :
        /\ 1 \in S
        /\ \A i \in S : /\ Piece(word, i, After(S, word, i) - 1) \in Vocabulary
                        /\ \A j \in After(S, word, i) .. Len(word) :
                               Piece(word, i, j) \notin Vocabulary}

PiecesOf(word) ==
    IF Len(word) > MaxInputChars \/ Cuts(word) = {} THEN <<Unknown>>
    ELSE LET S == CHOOSE S \in Cuts(word) : TRUE
         IN  FlattenSeq([i \in DOMAIN word |->
                 IF i \in S THEN <<Piece(word, i, After(S, word, i) - 1)>> ELSE << >>])

Spelled(marked, i, j) == [k \in 1 .. j - i + 1 |-> marked[i + k - 1].chars[1]]

\* The ids of the word that ends at a position, if one does.
IdsAt(marked, j) ==
    IF ~EndsWord(marked, j) THEN << >>
    ELSE IF marked[j].special THEN <<Special(marked[j].chars)>>
    ELSE PiecesOf(Spelled(marked, CHOOSE i \in 1 .. j : BeginsWord(marked, i, j), j))

TokensOf(chosen, raw) ==
    LET marked == MarkedText(chosen, raw)
    IN  FlattenSeq([j \in DOMAIN marked |-> IdsAt(marked, j)])

-----------------------------------------------------------------------------
(* Properties.                                                             *)

\* Whatever the text and the normalisers, the mask covers one stretch of the ids,
\* from CLS to SEP, with padding behind; between them is what fits of the special
\* tokens and the longest pieces of the words, in the order of the text, although
\* the code finds them in passes of which each rewrites it (berttok.go:115-155).
TokensAreOfTheWords ==
    encoded # NotEncoded =>
        LET last == Cardinality({i \in 1 .. MaxSeqLen : encoded.mask[i] = 1})
            tokens == TokensOf(options, text)
        IN  /\ Len(encoded.ids) = MaxSeqLen /\ Len(encoded.mask) = MaxSeqLen
            /\ encoded.ids[1] = Special(<<"CLS">>) /\ encoded.ids[last] = Special(<<"SEP">>)
            /\ \A i \in 1 .. MaxSeqLen :
                   /\ encoded.mask[i] = 1 <=> i <= last
                   /\ i > last => encoded.ids[i] = Special(<<"PAD">>)
            /\ last - 2 = Min({Len(tokens), MaxSeqLen - 2})
            /\ SubSeq(encoded.ids, 2, last - 1) = SubSeq(tokens, 1, last - 2)
=============================================================================
