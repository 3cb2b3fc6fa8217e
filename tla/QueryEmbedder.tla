---------------------------- MODULE QueryEmbedder ----------------------------
(***************************************************************************)
(* The embedders of a process of foldermcp v3: one shared by its searches, *)
(* one of the indexer that all-v3 runs beside them.  Each owns tensors     *)
(* that every call writes and reads again; both share the environment of   *)
(* the ONNX runtime, which may be initialised once.  The search command    *)
(* closes its embedder when it returns, a goroutine that embeds or not.    *)
(***************************************************************************)
EXTENDS Naturals

CONSTANTS
    Searches,    \* goroutines that embed a query
    Indexer,     \* the goroutine of the pipeline, in all-v3
    Phrases,     \* what there is to embed
    NoPhrase,
    MaxEmbeds,   \* bound: calls
    MaxBreaks    \* bound: steps that fail

ASSUME EmbedderAssumption ==
    /\ Indexer \notin Searches
    /\ NoPhrase \notin Phrases \cup Searches \cup {Indexer}
    /\ {MaxEmbeds, MaxBreaks} \subseteq Nat

VARIABLES
    program,     \* server, or the search command, one call: command, then returned
    env,         \* ortEnvOnce: none, busy, ok or err
    embedder,    \* of whom -> see Fresh
    call,        \* caller -> [at, phrase, vector]
    embeds, breaks

embedderVars == <<program, env, embedder, call, embeds, breaks>>

Callers == Searches \cup {Indexer}

\* The embedder of the queries, and the one of the indexer.
Owner(c) == IF c = Indexer THEN "index" ELSE "query"
Of(c) == embedder[Owner(c)]

\* Unwritten is what no phrase gives: a vector is a run's output, pooled by a mask.
Unwritten == [ids |-> NoPhrase, mask |-> NoPhrase]

\* holder: of mu, if not NoPhrase; tokenizer, init: of the two sync.Once; ids, mask, output: tensors.
Fresh == [holder |-> NoPhrase, tokenizer |-> "none", init |-> "none", ids |-> NoPhrase,
          mask |-> NoPhrase, output |-> Unwritten, closed |-> FALSE]

Idling == [at |-> "idle", phrase |-> NoPhrase, vector |-> Unwritten]

EmbedderInit ==
    /\ program \in {"server", "command"}
    /\ env = "none"
    /\ embedder = [o \in {"query", "index"} |-> Fresh]
    /\ call = [c \in Callers |-> Idling]
    /\ embeds = IF program = "command" THEN 1 ELSE MaxEmbeds
    /\ breaks = MaxBreaks

Goes(c, at) == call' = [call EXCEPT ![c].at = at]
Sets(c, e) == embedder' = [embedder EXCEPT ![Owner(c)] = e]
Breaks == breaks > 0 /\ breaks' = breaks - 1
Works == UNCHANGED breaks

\* The deferred unlock; Init takes no lock.
Released(c, e) == IF e.holder = c THEN [e EXCEPT !.holder = NoPhrase] ELSE e

\* An error: a search degrades, the runner stops when Init fails.
GivesUp(c, e) ==
    /\ Sets(c, Released(c, e))
    /\ Goes(c, IF c = Indexer /\ call[c].phrase = NoPhrase THEN "stopped" ELSE "failed")

-----------------------------------------------------------------------------
\* The runner begins with Init, before the first file.
CallInit ==
    /\ program = "server" /\ call[Indexer].at = "idle" /\ Of(Indexer).init = "none"
    /\ Goes(Indexer, "tokenizer")
    /\ UNCHANGED <<program, env, embedder, embeds, breaks>>

CallEmbedQuery(c, phrase) ==
    /\ call[c].at \in {"idle", "answered", "failed"}
    /\ embeds > 0 /\ embeds' = embeds - 1
    /\ c = Indexer => Of(c).init = "ok"
    /\ call' = [call EXCEPT ![c] = [at |-> "lock", phrase |-> phrase, vector |-> Unwritten]]
    /\ UNCHANGED <<program, env, embedder, breaks>>

\* Fault: no lock.
RunThrough(c) ==
    /\ call[c].at = "lock"
    /\ Goes(c, "tokenizer")
    /\ UNCHANGED <<program, env, embedder, embeds, breaks>>

Lock(c) ==
    /\ call[c].at = "lock" /\ Of(c).holder = NoPhrase
    /\ Sets(c, [Of(c) EXCEPT !.holder = c])
    /\ Goes(c, "tokenizer")
    /\ UNCHANGED <<program, env, embeds, breaks>>

\* tokOnce: a tokenizer.json that could not be loaded is never tried again.
LoadTokenizer(c) ==
    /\ call[c].at = "tokenizer"
    /\ \/ Of(c).tokenizer \in {"none", "ok"} /\ Works
          /\ Sets(c, [Of(c) EXCEPT !.tokenizer = "ok"]) /\ Goes(c, "init")
       \/ Of(c).tokenizer = "none" /\ Breaks
          /\ GivesUp(c, [Of(c) EXCEPT !.tokenizer = "err",
                                    !.init = IF c = Indexer THEN "err" ELSE @])
       \/ Of(c).tokenizer = "err" /\ Works /\ GivesUp(c, Of(c))
    /\ UNCHANGED <<program, env, embeds>>

\* once.Do: the first call initialises, others wait for it, its error is for good.
EnterInit(c) ==
    /\ call[c].at = "init"
    /\ \/ Of(c).init = "none" /\ Sets(c, [Of(c) EXCEPT !.init = "busy"]) /\ Goes(c, "env")
       \/ Of(c).init = "ok" /\ Goes(c, "copy ids") /\ UNCHANGED embedder
       \/ Of(c).init = "err" /\ GivesUp(c, Of(c))
    /\ UNCHANGED <<program, env, embeds, breaks>>

InitFails(c) == GivesUp(c, [Of(c) EXCEPT !.init = "err"])

\* initOrtEnv, of the whole process: here the two embedders meet.
InitOrtEnv(c) ==
    /\ call[c].at = "env"
    /\ \/ env = "none" /\ env' = "busy" /\ Goes(c, "env busy") /\ UNCHANGED embedder
       \/ env = "ok" /\ Goes(c, "session") /\ UNCHANGED <<env, embedder>>
       \/ env = "err" /\ InitFails(c) /\ UNCHANGED env
    /\ UNCHANGED <<program, embeds, breaks>>

InitializeEnvironment(c) ==
    /\ call[c].at = "env busy"
    /\ \/ env' = "ok" /\ Works /\ Goes(c, "session") /\ UNCHANGED embedder
       \/ env' = "err" /\ Breaks /\ InitFails(c)
    /\ UNCHANGED <<program, embeds>>

\* Four tensors and a session over them.
NewSession(c) ==
    /\ call[c].at = "session"
    /\ \/ /\ Works /\ Sets(c, [Of(c) EXCEPT !.init = "ok"])
          /\ Goes(c, IF call[c].phrase = NoPhrase THEN "idle" ELSE "copy ids")
       \/ Breaks /\ InitFails(c)
    /\ UNCHANGED <<program, env, embeds>>

\* Embed copies its input into the shared tensors; the type ids are always zero ...
CopyIds(c) ==
    /\ call[c].at = "copy ids" /\ ~Of(c).closed
    /\ Sets(c, [Of(c) EXCEPT !.ids = call[c].phrase])
    /\ Goes(c, "copy mask")
    /\ UNCHANGED <<program, env, embeds, breaks>>

CopyMask(c) ==
    /\ call[c].at = "copy mask" /\ ~Of(c).closed
    /\ Sets(c, [Of(c) EXCEPT !.mask = call[c].phrase])
    /\ Goes(c, "run")
    /\ UNCHANGED <<program, env, embeds, breaks>>

\* ... runs the model over them into the output tensor ...
RunSession(c) ==
    /\ call[c].at = "run" /\ ~Of(c).closed
    /\ \/ /\ Works /\ Goes(c, "pool")
          /\ Sets(c, [Of(c) EXCEPT !.output = [ids |-> Of(c).ids, mask |-> Of(c).mask]])
       \/ Breaks /\ GivesUp(c, Of(c))
    /\ UNCHANGED <<program, env, embeds>>

\* ... and pools that by its own mask; EmbedQuery quantises, unlocks and answers.
Pool(c) ==
    /\ call[c].at = "pool" /\ ~Of(c).closed
    /\ Sets(c, Released(c, Of(c)))
    /\ call' = [call EXCEPT ![c].at = "answered",
                            ![c].vector = IF Of(c).output.mask = call[c].phrase
                                          THEN Of(c).output ELSE Unwritten]
    /\ UNCHANGED <<program, env, embeds, breaks>>

\* SearchBroadly returns on its deadline too: the embedder may be in use, or being
\* initialised, some of its tensors there and destroyed.
Close ==
    /\ program = "command" /\ program' = "returned"
    /\ \E closed \in BOOLEAN :
           /\ embedder["query"].init # "busy" => closed = (embedder["query"].init = "ok")
           /\ embedder' = [embedder EXCEPT !["query"].closed = closed]
    /\ UNCHANGED <<env, call, embeds, breaks>>

\* A destroyed tensor or session: whatever happens, until the process exits.
UseAfterClose(c) ==
    /\ Of(c).closed /\ call[c].at \in {"copy ids", "copy mask", "run", "pool"}
    /\ Goes(c, "undefined")
    /\ UNCHANGED <<program, env, embedder, embeds, breaks>>

EmbedderNext ==
    \/ CallInit \/ Close
    \/ \E c \in Callers, phrase \in Phrases : CallEmbedQuery(c, phrase)
    \/ \E c \in Callers :
           \/ Lock(c) \/ LoadTokenizer(c) \/ EnterInit(c) \/ InitOrtEnv(c)
           \/ InitializeEnvironment(c) \/ NewSession(c)
           \/ CopyIds(c) \/ CopyMask(c) \/ RunSession(c) \/ Pool(c) \/ UseAfterClose(c)

EmbedderSpec == EmbedderInit /\ [][EmbedderNext]_embedderVars

-----------------------------------------------------------------------------
(* Properties.                                                             *)

\* However many searches share the tensors, a vector that EmbedQuery returns is of
\* the text it was asked for, and comes from a session opened in an environment that
\* was initialised: never of another search's words (query.go:13-16).
EmbeddingsAreOfTheText ==
    \A c \in Callers :
        call[c].at = "answered" =>
            /\ call[c].vector = [ids |-> call[c].phrase, mask |-> call[c].phrase]
            /\ Of(c).init = "ok" /\ env = "ok"
=============================================================================
