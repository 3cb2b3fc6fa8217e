----------------------------- MODULE MCServices -----------------------------
(***************************************************************************)
(* Nine parts of foldermcp that share no state with one another, for TLC. *)
(* A behaviour picks one of them and is a behaviour of that part; the      *)
(* others stay where they start.                                           *)
(***************************************************************************)
EXTENDS IndexDaemon, FolderWatch, SharedApprovals, SourceCache, ToolRuntime, IndexTools,
        ClientConfig, QueryEmbedder, BertTokenizer, TLC

CONSTANTS p1, p2

VARIABLE focus

\* One pair of model values for the actors of every part: a behaviour has one part.
Symmetry == Permutations({p1, p2})

Indexed(v, build, backed) ==
    [db |-> [version |-> v, made |-> {m \in Migrations : m <= v}, fp |-> build,
             vectors |-> {build}],
     backup |-> backed]

\* A new store; one of an old binary; one upgraded once.
MCStores == {[db |-> Blank, backup |-> NoBackup], Indexed(1, "int8", NoBackup),
             Indexed(2, "int8", [by |-> NoProcess, whole |-> TRUE, version |-> 1])}

\* Two projects with one name, in different directories, and a third.
MCBaseName == [q \in Projects |-> IF q = "lib" THEN "lib" ELSE "app"]

\* A letter in three guises, one of them two characters when decomposed.
MCDecompose == [c \in Characters |-> IF c = "aacute" THEN <<"a", "acute">> ELSE <<c>>]
MCLower == [c \in Characters |-> IF c = "A" THEN "a" ELSE c]

\* "aba" is ab, then nothing, although a and ##ba would spell it.
MCVocabulary == [kind : {"first"}, chars : {<<"a">>, <<"a", "b">>, <<"!">>, <<"han">>}]
                \cup [kind : {"next"}, chars : {<<"b">>, <<"b", "a">>}]
MCAddedTokens == {<<"!", "A">>, <<"!", "A", "!">>}
MCOptions == {{}, {"clean_text", "handle_chinese_chars", "strip_accents", "lowercase"}}

vars == <<daemonVars, watchVars, approvalsVars, cacheVars, runtimeVars, toolsVars, clientVars,
          embedderVars, tokenizerVars, focus>>

Init ==
    /\ focus \in {"daemon", "watch", "approvals", "cache", "runtime", "tools", "client",
                  "embedder", "tokenizer"}
    /\ DaemonInit
    /\ focus # "daemon" => platform = "unix" /\ db = Blank
    /\ WatchInit
    /\ focus # "watch" => folder = Nothing
    /\ ApprovalsInit
    /\ focus # "approvals" => lock = NoLock
    /\ CacheInit
    /\ focus # "cache" => copy = Gone
    /\ RuntimeInit
    /\ ToolsInit
    /\ ClientInit
    /\ focus # "client" => application = "cursor" /\ settings = NotThere
    /\ EmbedderInit
    /\ focus # "embedder" => program = "server"
    /\ TokenizerInit
    /\ focus # "tokenizer" => text = << >> /\ options = {}

Next ==
    \/ /\ focus = "daemon" /\ DaemonNext
       /\ UNCHANGED <<watchVars, approvalsVars, cacheVars, runtimeVars, toolsVars, clientVars,
                     embedderVars, tokenizerVars, focus>>
    \/ /\ focus = "watch" /\ WatchNext
       /\ UNCHANGED <<daemonVars, approvalsVars, cacheVars, runtimeVars, toolsVars, clientVars,
                     embedderVars, tokenizerVars, focus>>
    \/ /\ focus = "approvals" /\ ApprovalsNext
       /\ UNCHANGED <<daemonVars, watchVars, cacheVars, runtimeVars, toolsVars, clientVars,
                     embedderVars, tokenizerVars, focus>>
    \/ /\ focus = "cache" /\ CacheNext
       /\ UNCHANGED <<daemonVars, watchVars, approvalsVars, runtimeVars, toolsVars, clientVars,
                     embedderVars, tokenizerVars, focus>>
    \/ /\ focus = "runtime" /\ RuntimeNext
       /\ UNCHANGED <<daemonVars, watchVars, approvalsVars, cacheVars, toolsVars, clientVars,
                     embedderVars, tokenizerVars, focus>>
    \/ /\ focus = "tools" /\ ToolsNext
       /\ UNCHANGED <<daemonVars, watchVars, approvalsVars, cacheVars, runtimeVars, clientVars,
                     embedderVars, tokenizerVars, focus>>
    \/ /\ focus = "client" /\ ClientNext
       /\ UNCHANGED <<daemonVars, watchVars, approvalsVars, cacheVars, runtimeVars, toolsVars,
                     embedderVars, tokenizerVars, focus>>
    \/ /\ focus = "embedder" /\ EmbedderNext
       /\ UNCHANGED <<daemonVars, watchVars, approvalsVars, cacheVars, runtimeVars, toolsVars,
                     clientVars, tokenizerVars, focus>>
    \/ /\ focus = "tokenizer" /\ TokenizerNext
       /\ UNCHANGED <<daemonVars, watchVars, approvalsVars, cacheVars, runtimeVars, toolsVars,
                     clientVars, embedderVars, focus>>

Spec == Init /\ [][Next]_vars
=============================================================================
