--------------------------- MODULE MCSearchServer ---------------------------
(***************************************************************************)
(* Instances of SearchServer for TLC.  The index starts with the file p    *)
(* indexed as "prose" (one chunk, "t1") and q walked but not yet indexed,  *)
(* or with both indexed, or empty but for p's row; q's ids may   *)
(* turn out to be those that p gives up.                                   *)
(***************************************************************************)
EXTENDS SearchServer, TLC

CONSTANTS p, q, n1, n2, c1, c2

MCNodeNames == [c \in Contents |-> {"file"}]
MCPieces == [c \in Contents |-> IF c = "prose" THEN {<<"file", "t1">>} ELSE {<<"file", "t2">>}]

\* The server's binary, and an older one that scaled every vector by itself.
MCQuantMode == [v \in Schemes |-> IF v = "old" THEN "int8" ELSE "fixed"]

WalkedRow(c, gone) == [sha |-> c, class |-> "indexable", seen |-> 1, deleted |-> gone]

Walked(d, f, c, gone) == [d EXCEPT !.files[f] = WalkedRow(c, gone)]

Indexed(d, f, c, n, k, text) ==
    [InsertChunks(InsertNodes(d, n :> [file |-> f, name |-> "file"]),
                  k :> [node |-> n, text |-> text])
        EXCEPT !.emb[k] = [text |-> text, scheme |-> d.fp],
               !.pstate[f] = [x \in Passes |-> "done"]]

OneIndexed(v, gone) ==
    Indexed([Walked(Walked(EmptyDatabase, p, "prose", gone), q, "memo", FALSE) EXCEPT !.fp = v],
            p, "prose", n1, c1, "t1")

BothIndexed(v) == Indexed(OneIndexed(v, FALSE), q, "memo", n2, c2, "t2")

MCDatabases == {OneIndexed("new", FALSE), OneIndexed("old", FALSE), BothIndexed("new")}
MCShared == {Indexed([Walked(EmptyDatabase, p, "prose", FALSE) EXCEPT !.fp = "new"], p, "prose", n1, c1, "t1")}
MCFresh == {Walked(EmptyDatabase, p, "prose", FALSE)}
MCBoth == {BothIndexed("new")}

\* The query's words are in "prose" and its path words in p's path; or it is
\* all punctuation.
Ask(mode) == [mode |-> mode, texts |-> {"t1"}, files |-> {p}]
MCAuto == {Ask("auto")}
MCModes == {Ask(m) : m \in Modes \ {"auto"}}
           \cup {[mode |-> "lexical", texts |-> Null, files |-> {p, q}],
                 [mode |-> "filename", texts |-> Null, files |-> {p, q}],
                 [mode |-> "filename", texts |-> Null, files |-> Null]}
=============================================================================
