----------------------------- MODULE SourceCache -----------------------------
(***************************************************************************)
(* The local cache of a source file on a network share: Get compares the   *)
(* hashes of the source and of the copy and copies the file if they        *)
(* differ; Invalidate removes the copy.  A file is read and written piece  *)
(* by piece through what was opened, whatever happens to its path; others  *)
(* edit the source in place or put another file in its place.  The hash of *)
(* a content is the content.                                               *)
(***************************************************************************)
EXTENDS Naturals, Sequences, FiniteSets

CONSTANTS
    Getters,
    MaxPieces,                \* bound on the pieces of a file
    MaxGets, MaxSourceEdits   \* bounds

ASSUME CacheAssumption == {MaxPieces, MaxGets, MaxSourceEdits} \subseteq Nat

VARIABLES
    data,     \* the contents of the source files there ever were
    source,   \* which of them is at the source's path, or Gone
    copies,   \* the contents of the copies there ever were
    copy,     \* which of them is at the copy's path, or Gone
    getter,   \* [at, in, out: the files it has open, read: from in, so far]
    gets, edits,
    (* Observers. *)
    held,     \* getter -> contents of the source since its Get began
    edited,   \* getters during whose Get the source was edited in place
    undisturbed   \* getters that met no other Get or Invalidate

cacheVars == <<data, source, copies, copy, getter, gets, edits, held, edited, undisturbed>>

Gone == 0
Hole == 0

\* The k pieces of an editor's v-th content; a piece is the content it comes from.
Written(v, k) == [i \in 1..k |-> v]

NoGet == [at |-> "idle", in |-> Gone, out |-> Gone, read |-> << >>]

CacheInit ==
    /\ data = <<Written(1, MaxPieces)>> /\ source = 1
    /\ \/ copies = << >> /\ copy = Gone
       \/ \E k \in 0..MaxPieces : copies = <<Written(1, k)>> /\ copy = 1
    /\ getter = [g \in Getters |-> NoGet]
    /\ gets = MaxGets
    /\ edits = MaxSourceEdits
    /\ held = [g \in Getters |-> {}]
    /\ edited = {} /\ undisturbed = {}

GetAt(g, at) == getter' = [getter EXCEPT ![g] = [NoGet EXCEPT !.at = at]]
GetEnds(g) == getter' = [getter EXCEPT ![g] = NoGet]
GetOpens(g, at, in, out) ==
    getter' = [getter EXCEPT ![g] = [at |-> at, in |-> in, out |-> out, read |-> << >>]]
GetReads(g, piece) == getter' = [getter EXCEPT ![g].read = Append(@, piece)]
Busy == {g \in Getters : getter[g].at # "idle"}
AtSource == IF source = Gone THEN {} ELSE {data[source]}

AtEnd(g) == Len(getter[g].read) >= Len(data[getter[g].in])
NextPiece(g) == data[getter[g].in][Len(getter[g].read) + 1]

BeginGet(g) ==
    /\ getter[g].at = "idle"
    /\ gets > 0
    /\ gets' = gets - 1
    /\ GetAt(g, IF copy = Gone THEN "open" ELSE "hash")
    /\ held' = [held EXCEPT ![g] = AtSource]
    /\ edited' = edited \ {g}
    /\ undisturbed' = IF Busy = {} THEN {g} ELSE {}
    /\ UNCHANGED <<data, source, copies, copy, edits>>

\* A source that cannot be opened ends the Get.
HashTheSource(g) ==
    /\ getter[g].at = "hash"
    /\ \/ GetEnds(g)
       \/ /\ source # Gone
          /\ GetOpens(g, "hashing", source, Gone)
    /\ UNCHANGED <<data, source, copies, copy, gets, edits, held, edited, undisturbed>>

HashPiece(g) ==
    /\ getter[g].at = "hashing"
    /\ \/ GetEnds(g)
       \/ AtEnd(g) /\ getter' = [getter EXCEPT ![g].at = "compare"]
       \/ ~AtEnd(g) /\ GetReads(g, NextPiece(g))
    /\ UNCHANGED <<data, source, copies, copy, gets, edits, held, edited, undisturbed>>

\* Fault: a copy that is there will do.
CompareExistence(g) ==
    /\ getter[g].at = "compare"
    /\ GetAt(g, IF copy = Gone THEN "open" ELSE "answer")
    /\ UNCHANGED <<data, source, copies, copy, gets, edits, held, edited, undisturbed>>

\* A copy that differs or cannot be hashed is copied again.  Only another Get
\* could change the copy while it is read.
CompareCopy(g) ==
    /\ getter[g].at = "compare"
    /\ \/ GetAt(g, "open")
       \/ copy # Gone /\ copies[copy] = getter[g].read /\ GetAt(g, "answer")
    /\ UNCHANGED <<data, source, copies, copy, gets, edits, held, edited, undisturbed>>

\* The source is opened before the copy is created, or truncated if it is there.
CreateCopy(g) ==
    /\ getter[g].at = "open"
    /\ \/ GetEnds(g) /\ UNCHANGED <<copies, copy>>
       \/ /\ source # Gone
          /\ IF copy = Gone
             THEN copies' = Append(copies, << >>) /\ copy' = Len(copies) + 1
             ELSE copies' = [copies EXCEPT ![copy] = << >>] /\ UNCHANGED copy
          /\ GetOpens(g, "copy", source, copy')
    /\ UNCHANGED <<data, source, gets, edits, held, edited, undisturbed>>

\* The content of a file after a write of a piece at place i.
WriteAt(content, i, piece) ==
    [j \in 1..(IF i > Len(content) THEN i ELSE Len(content)) |->
        IF j = i THEN piece ELSE IF j <= Len(content) THEN content[j] ELSE Hole]

\* A read or a write may fail and leaves what was copied.
CopyPiece(g) ==
    /\ getter[g].at = "copy"
    /\ \/ GetEnds(g) /\ UNCHANGED copies
       \/ AtEnd(g) /\ GetAt(g, "answer") /\ UNCHANGED copies
       \/ /\ ~AtEnd(g)
          /\ GetReads(g, NextPiece(g))
          /\ copies' = [copies EXCEPT ![getter[g].out] =
                           WriteAt(@, Len(getter[g].read) + 1, NextPiece(g))]
    /\ UNCHANGED <<data, source, copy, gets, edits, held, edited, undisturbed>>

\* The caller reads the copy at the path it was given.
AnswerGet(g) ==
    /\ getter[g].at = "answer"
    /\ GetEnds(g)
    /\ UNCHANGED <<data, source, copies, copy, gets, edits, held, edited, undisturbed>>

Invalidate ==
    /\ copy # Gone
    /\ copy' = Gone
    /\ undisturbed' = {}
    /\ UNCHANGED <<data, source, copies, getter, gets, edits, held, edited>>

\* Others remove the source, put another file there or write the one that is there.
EditSource ==
    /\ edits > 0
    /\ edits' = edits - 1
    /\ \/ source' = Gone /\ UNCHANGED <<data, edited>>
       \/ \E k \in 0..MaxPieces :
              /\ data' = Append(data, Written(edits + 1, k)) /\ source' = Len(data) + 1
              /\ UNCHANGED edited
       \/ /\ source # Gone
          /\ \E k \in 0..MaxPieces : data' = [data EXCEPT ![source] = Written(edits + 1, k)]
          /\ edited' = edited \cup Busy
          /\ UNCHANGED source
    /\ held' = [g \in Getters |-> held[g] \cup AtSource']
    /\ UNCHANGED <<copies, copy, getter, gets, undisturbed>>

CacheNext ==
    \/ \E g \in Getters : \/ BeginGet(g) \/ HashTheSource(g) \/ HashPiece(g) \/ CompareCopy(g)
                          \/ CreateCopy(g) \/ CopyPiece(g) \/ AnswerGet(g)
    \/ Invalidate \/ EditSource

CacheSpec == CacheInit /\ [][CacheNext]_cacheVars

-----------------------------------------------------------------------------
(* Property.                                                               *)

\* Every piece of the content was at its place in one of the others.
FoundIn(content, others) ==
    \A i \in 1..Len(content) : \E c \in others : i <= Len(c) /\ c[i] = content[i]

\* A Get that met no other and no Invalidate answers, whatever cut an earlier
\* copy short, with a copy of a content the source had during it -- unless the
\* source was edited in place meanwhile: that may mix the copy from several such
\* contents, and the Get does not notice (cache.go:33-54, cache.go:89-98).
CachedCopyIsOfTheSource ==
    \A g \in undisturbed : getter[g].at = "answer" =>
        /\ copy # Gone
        /\ FoundIn(copies[copy], held[g])
        /\ g \notin edited => copies[copy] \in held[g]
=============================================================================
