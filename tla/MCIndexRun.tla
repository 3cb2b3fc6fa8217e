----------------------------- MODULE MCIndexRun -----------------------------
(***************************************************************************)
(* Instances of IndexRun for TLC.  "code" has two symbols with a chunk     *)
(* each, "long" is prose cut into two chunks, "prose" has one chunk, the   *)
(* same as one of "long", "blank" is an empty text file, "late" hides a    *)
(* NUL behind the walker's sample, and "media" is not indexable though it  *)
(* has no NUL, so that a stale class would turn it into garbage chunks.    *)
(***************************************************************************)
EXTENDS IndexRunInvariant, TLC

MCNodeNames == [c \in Contents |-> IF c = "code" THEN {"f", "g"} ELSE {"file"}]

PiecesOf ==
    [code |-> {<<"f", "t1">>, <<"g", "t2">>},
     long |-> {<<"file", "t1">>, <<"file", "t2">>},
     prose |-> {<<"file", "t1">>},
     blank |-> {},
     late |-> {<<"file", "t2">>},
     media |-> {<<"file", "t2">>}]

MCPieces == [c \in Contents |-> PiecesOf[c]]

Symmetry == Permutations(Files) \cup Permutations(NodeIds) \cup Permutations(ChunkIds)
=============================================================================
