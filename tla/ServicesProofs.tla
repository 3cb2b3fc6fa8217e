---------------------------- MODULE ServicesProofs ----------------------------
(***************************************************************************)
(* The properties of smaller parts, for any number of actors and any bound *)
(***************************************************************************)
EXTENDS QueryEmbedder, FolderWatch, SharedApprovals, SourceCache, ToolRuntime, ClientConfig,
        FiniteSetTheorems, SequenceTheorems, TLAPS

-----------------------------------------------------------------------------
(* QueryEmbedder: who is past the lock holds it, so what is in the tensors *)
(* is what the holder put there.                                           *)

EmbedStages == {"copy ids", "copy mask", "run", "pool"}
InitStages == {"env", "env busy", "session"}
LockedStages == {"tokenizer", "init", "undefined"} \cup InitStages \cup EmbedStages
CallStages == {"idle", "lock", "answered", "failed", "stopped"} \cup LockedStages

Texts == Phrases \cup {NoPhrase}
Vectors == [ids : Texts, mask : Texts]
Calls == [at : CallStages, phrase : Texts, vector : Vectors]
Embedders ==
    [holder : Callers \cup {NoPhrase}, tokenizer : {"none", "ok", "err"},
     init : {"none", "busy", "ok", "err"}, ids : Texts, mask : Texts, output : Vectors,
     closed : BOOLEAN]

EmbedderTypeOK ==
    /\ env \in {"none", "busy", "ok", "err"}
    /\ embedder \in [{"query", "index"} -> Embedders]
    /\ call \in [Callers -> Calls]

\* Of a call x, the embedder e it uses and the environment v.
Consistent(c, x, e, v) ==
    /\ x.at \in LockedStages /\ c # Indexer => e.holder = c
    /\ x.at \in InitStages => e.init = "busy"
    /\ x.at \in {"init"} \cup InitStages => e.tokenizer = "ok"
    /\ x.at = "env busy" => v = "busy"
    /\ x.at = "session" => v = "ok"
    /\ x.at \in {"answered"} \cup EmbedStages => e.init = "ok"
    /\ x.at \in {"copy mask", "run"} => e.ids = x.phrase
    /\ x.at = "run" => e.mask = x.phrase
    /\ x.at = "pool" => e.output = [ids |-> x.phrase, mask |-> x.phrase]
    /\ x.at = "answered" => x.vector = [ids |-> x.phrase, mask |-> x.phrase]

\* What a caller sees of its embedder is these five fields.
LEMMA SameFields ==
    ASSUME NEW c, NEW x, NEW e, NEW g, NEW v, Consistent(c, x, e, v),
           g.holder = e.holder, g.tokenizer = e.tokenizer, g.init = e.init,
           g.ids = e.ids, g.mask = e.mask, g.output = e.output
    PROVE  Consistent(c, x, g, v)
BY DEF Consistent

Prepared(e, v) == e.init = "ok" => e.tokenizer = "ok" /\ v = "ok"

EmbedderInvariant ==
    /\ EmbedderTypeOK
    /\ \A c \in Callers : Consistent(c, call[c], Of(c), env)
    /\ \A o \in {"query", "index"} : Prepared(embedder[o], env)
    /\ \A c, d \in Callers : call[c].at = "env busy" /\ call[d].at = "env busy" => c = d

LEMMA OwnersTyped ==
    ASSUME NEW c \in Callers
    PROVE  Owner(c) \in {"query", "index"}
  BY DEF Owner

\* Two callers of one embedder are searches.
LEMMA SharersAreSearches ==
    ASSUME NEW c \in Callers, NEW d \in Callers, c # d, Owner(c) = Owner(d)
    PROVE  c # Indexer /\ d # Indexer
  BY DEF Owner

LEMMA InitEmbedders == EmbedderInit => EmbedderInvariant
<1> SUFFICES ASSUME EmbedderInit PROVE EmbedderInvariant
  OBVIOUS
<1>1. Unwritten \in Vectors
  BY DEF Unwritten, Vectors, Texts
<1>2. Fresh \in Embedders
  BY <1>1 DEF Fresh, Embedders, Texts
<1>3. Idling \in Calls
  BY <1>1 DEF Idling, Calls, CallStages, Texts
<1>4. EmbedderTypeOK
  BY <1>2, <1>3 DEF EmbedderTypeOK, EmbedderInit
<1>5. \A c \in Callers : Consistent(c, call[c], Of(c), env)
  BY DEF EmbedderInit, Idling, Consistent, LockedStages, InitStages, EmbedStages
<1>6. \A o \in {"query", "index"} : Prepared(embedder[o], env)
  BY DEF EmbedderInit, Fresh, Prepared
<1>7. QED
  BY <1>4, <1>5, <1>6 DEF EmbedderInvariant, EmbedderInit, Idling

\* A step of one caller, which leaves a call x and its embedder e.
Acts(c, x, e) ==
    /\ call' = [call EXCEPT ![c] = x]
    /\ embedder' = [embedder EXCEPT ![Owner(c)] = e]

\* It leaves the others alone if the lock is free or its own, and if what was
\* prepared stays so.
LEMMA OthersStayConsistent ==
    ASSUME EmbedderInvariant, NEW c \in Callers, NEW x \in Calls, NEW e \in Embedders,
           Acts(c, x, e),
           e = Of(c) \/ call[c].at \in LockedStages \/ Of(c).holder = NoPhrase,
           Of(c).init = "ok" => e.init = "ok",
           env = "ok" => env' = "ok",
           env = "busy" => env' = "busy" \/ call[c].at = "env busy",
           NEW d \in Callers, d # c
    PROVE  Consistent(d, call[d], Of(d)', env') /\ call'[d] = call[d]
<1>1. call'[d] = call[d]
  BY DEF Acts, EmbedderInvariant, EmbedderTypeOK
<1>2. /\ Consistent(d, call[d], Of(d), env)
      /\ Consistent(c, call[c], Of(c), env)
  BY DEF EmbedderInvariant
<1>3. call[d].at = "env busy" => env' = env \/ env' = "busy"
  BY <1>2 DEF EmbedderInvariant, Consistent
<1>4. call[d].at = "session" => env' = "ok"
  BY <1>2 DEF Consistent
<1>5. CASE Owner(d) # Owner(c) \/ e = Of(c)
  <2>1. Of(d)' = Of(d)
    BY <1>5, OwnersTyped DEF Acts, Of, EmbedderInvariant, EmbedderTypeOK, Owner
  <2>2. QED
    BY <1>1, <1>2, <1>3, <1>4, <2>1 DEF Consistent
<1>6. CASE Owner(d) = Owner(c) /\ e # Of(c)
  <2>1. Of(d) = Of(c) /\ Of(d)' = e
    BY <1>6, OwnersTyped DEF Acts, Of, EmbedderInvariant, EmbedderTypeOK, Owner
  <2>2. c # Indexer /\ d # Indexer
    BY <1>6, SharersAreSearches
  <2>3. call[d].at \notin LockedStages
    BY <1>2, <1>6, <2>1, <2>2, EmbedderAssumption DEF Consistent, Callers
  <2>4. call[d].at \notin {"init"} \cup InitStages \cup EmbedStages
    BY <2>3 DEF LockedStages
  <2>5. QED
    BY <1>1, <1>2, <2>1, <2>3, <2>4 DEF Consistent, InitStages, EmbedStages
<1>7. QED
  BY <1>5, <1>6

\* Hence such a step keeps the invariant if it does so for its own caller.
LEMMA CallersStep ==
    ASSUME EmbedderInvariant, NEW c \in Callers, NEW x \in Calls, NEW e \in Embedders,
           Acts(c, x, e),
           env' \in {"none", "busy", "ok", "err"},
           e = Of(c) \/ call[c].at \in LockedStages \/ Of(c).holder = NoPhrase,
           Of(c).init = "ok" => e.init = "ok",
           env = "ok" => env' = "ok",
           env = "busy" => env' = "busy" \/ call[c].at = "env busy",
           x.at = "env busy" => env # "busy",
           Consistent(c, x, e, env'),
           Prepared(e, env')
    PROVE  EmbedderInvariant'
<1>1. Owner(c) \in {"query", "index"}
  BY OwnersTyped
<1>2. call'[c] = x /\ Of(c)' = e
  BY <1>1 DEF Acts, EmbedderInvariant, EmbedderTypeOK, Of
<1>3. EmbedderTypeOK'
  BY <1>1 DEF Acts, EmbedderInvariant, EmbedderTypeOK
<1>4. \A d \in Callers : d # c =>
          Consistent(d, call[d], Of(d)', env') /\ call'[d] = call[d]
  BY OthersStayConsistent
<1>5. \A d \in Callers : Consistent(d, call[d], Of(d), env)'
  BY <1>2, <1>4
<1>6. ASSUME NEW o \in {"query", "index"} PROVE Prepared(embedder[o], env)'
  <2>1. CASE o = Owner(c)
    BY <1>2, <2>1 DEF Of
  <2>2. CASE o # Owner(c)
    <3>1. embedder'[o] = embedder[o]
      BY <2>2 DEF Acts, EmbedderInvariant, EmbedderTypeOK
    <3>2. QED
      BY <3>1 DEF EmbedderInvariant, Prepared
  <2>3. QED
    BY <2>1, <2>2
<1>7. \A d \in Callers : call[d].at = "env busy" => env = "busy"
  BY DEF EmbedderInvariant, Consistent
<1>8. \A b, d \in Callers : call'[b].at = "env busy" /\ call'[d].at = "env busy" => b = d
  BY <1>2, <1>4, <1>7 DEF EmbedderInvariant
<1>9. QED
  BY <1>3, <1>5, <1>6, <1>8 DEF EmbedderInvariant

\* What holds of a caller and of its embedder.
LEMMA CallersHave ==
    ASSUME EmbedderInvariant, NEW c \in Callers
    PROVE  /\ call[c] \in Calls /\ Of(c) \in Embedders
           /\ Consistent(c, call[c], Of(c), env)
           /\ Prepared(Of(c), env)
           /\ env \in {"none", "busy", "ok", "err"}
           /\ call = [call EXCEPT ![c] = call[c]]
           /\ embedder = [embedder EXCEPT ![Owner(c)] = Of(c)]
  BY OwnersTyped DEF EmbedderInvariant, EmbedderTypeOK, Of

LEMMA StagesTyped ==
    ASSUME NEW x \in Calls, NEW at \in CallStages
    PROVE  [x EXCEPT !.at = at] \in Calls
  BY DEF Calls

LEMMA EmbeddersTyped ==
    ASSUME NEW e \in Embedders, NEW c \in Callers \cup {NoPhrase}, NEW p \in Texts
    PROVE  /\ [e EXCEPT !.holder = c] \in Embedders
           /\ \A t \in {"none", "ok", "err"} : [e EXCEPT !.tokenizer = t] \in Embedders
           /\ \A i \in {"none", "busy", "ok", "err"} : [e EXCEPT !.init = i] \in Embedders
           /\ [e EXCEPT !.ids = p] \in Embedders
           /\ [e EXCEPT !.mask = p] \in Embedders
           /\ \A v \in Vectors : [e EXCEPT !.output = v] \in Embedders
           /\ \A b \in BOOLEAN : [e EXCEPT !.closed = b] \in Embedders
<1> USE DEF Embedders
<1>1. /\ [e EXCEPT !.holder = c] \in Embedders
      /\ [e EXCEPT !.ids = p] \in Embedders
      /\ [e EXCEPT !.mask = p] \in Embedders
  OBVIOUS
<1>2. /\ \A t \in {"none", "ok", "err"} : [e EXCEPT !.tokenizer = t] \in Embedders
      /\ \A i \in {"none", "busy", "ok", "err"} : [e EXCEPT !.init = i] \in Embedders
  OBVIOUS
<1>3. \A v \in Vectors : [e EXCEPT !.output = v] \in Embedders
  OBVIOUS
<1>4. \A b \in BOOLEAN : [e EXCEPT !.closed = b] \in Embedders
  OBVIOUS
<1>5. QED
  BY <1>1, <1>2, <1>3, <1>4

LEMMA EmbeddersFields ==
    ASSUME NEW e \in Embedders, NEW v
    PROVE  /\ [e EXCEPT !.holder = v].init = e.init /\ [e EXCEPT !.holder = v].holder = v
           /\ [e EXCEPT !.holder = v].tokenizer = e.tokenizer
           /\ [e EXCEPT !.tokenizer = v].init = e.init /\ [e EXCEPT !.tokenizer = v].tokenizer = v
           /\ [e EXCEPT !.tokenizer = v].holder = e.holder
           /\ [e EXCEPT !.init = v].init = v /\ [e EXCEPT !.init = v].tokenizer = e.tokenizer
           /\ [e EXCEPT !.init = v].holder = e.holder
  BY DEF Embedders

LEMMA NotPhraseTyped == NoPhrase \in Texts /\ NoPhrase \in Callers \cup {NoPhrase}
  BY DEF Texts

LEMMA ReleasedTyped ==
    ASSUME NEW e \in Embedders, NEW c \in Callers
    PROVE  /\ Released(c, e) \in Embedders
           /\ Released(c, e).init = e.init /\ Released(c, e).tokenizer = e.tokenizer
<1>1. [e EXCEPT !.holder = NoPhrase] \in Embedders
  BY EmbeddersTyped, NotPhraseTyped
<1>2. [e EXCEPT !.holder = NoPhrase].init = e.init
      /\ [e EXCEPT !.holder = NoPhrase].tokenizer = e.tokenizer
  BY DEF Embedders
<1>3. QED
  BY <1>1, <1>2 DEF Released

\* A call that stops where nothing is promised.
LEMMA RestsConsistent ==
    ASSUME NEW x \in Calls, x.at \in {"idle", "lock", "failed", "stopped"},
           NEW c, NEW e, NEW v
    PROVE  Consistent(c, x, e, v)
  BY DEF Consistent, LockedStages, InitStages, EmbedStages

\* An error, at a stage that holds the lock, that takes nothing back that was prepared.
LEMMA GivesUpStep ==
    ASSUME EmbedderInvariant, NEW c \in Callers, NEW e \in Embedders, GivesUp(c, e),
           call[c].at \in LockedStages,
           Of(c).init = "ok" => e.init = "ok",
           env' \in {"none", "busy", "ok", "err"},
           env = "ok" => env' = "ok",
           env = "busy" => env' = "busy" \/ call[c].at = "env busy",
           Prepared(e, env')
    PROVE  EmbedderInvariant'
<1> DEFINE at == IF c = Indexer /\ call[c].phrase = NoPhrase THEN "stopped" ELSE "failed"
           x == [call[c] EXCEPT !.at = at]
<1>1. x \in Calls /\ x.at \in {"failed", "stopped"}
  BY CallersHave, StagesTyped DEF Calls, CallStages
<1>2. Acts(c, x, Released(c, e))
  BY DEF GivesUp, Sets, Goes, Acts
<1>3. Consistent(c, x, Released(c, e), env')
  BY <1>1, RestsConsistent
<1>4. Prepared(Released(c, e), env') /\ Released(c, e).init = e.init
  BY ReleasedTyped DEF Prepared
<1> HIDE DEF x
<1>5. QED
  BY <1>1, <1>2, <1>3, <1>4, ReleasedTyped, CallersStep

\* A step to the next stage, of a call with the environment as it is.
LEMMA GoesStep ==
    ASSUME EmbedderInvariant, NEW c \in Callers, NEW e \in Embedders, NEW at \in CallStages,
           Goes(c, at), Sets(c, e), UNCHANGED env, at # "env busy",
           e = Of(c) \/ call[c].at \in LockedStages \/ Of(c).holder = NoPhrase,
           Of(c).init = "ok" => e.init = "ok",
           Consistent(c, [call[c] EXCEPT !.at = at], e, env),
           Prepared(e, env)
    PROVE  EmbedderInvariant'
<1> DEFINE x == [call[c] EXCEPT !.at = at]
<1>1. x \in Calls /\ x.at = at
  BY CallersHave, StagesTyped DEF Calls
<1>2. Acts(c, x, e)
  BY DEF Sets, Goes, Acts
<1>3. env' = env /\ env \in {"none", "busy", "ok", "err"} /\ Consistent(c, x, e, env')
      /\ Prepared(e, env')
  BY CallersHave
<1> HIDE DEF x
<1>4. QED
  BY <1>1, <1>2, <1>3, CallersStep

LEMMA IdleSteps ==
    ASSUME EmbedderInvariant
    PROVE  /\ CallInit => EmbedderInvariant'
           /\ \A c \in Callers, phrase \in Phrases :
                  CallEmbedQuery(c, phrase) => EmbedderInvariant'
<1>1. ASSUME CallInit PROVE EmbedderInvariant'
  <2>1. Indexer \in Callers
    BY DEF Callers
  <2>2. Sets(Indexer, Of(Indexer)) /\ Goes(Indexer, "tokenizer") /\ UNCHANGED env
    BY <1>1, <2>1, CallersHave DEF CallInit, Sets
  <2>3. Consistent(Indexer, [call[Indexer] EXCEPT !.at = "tokenizer"], Of(Indexer), env)
    BY <2>1, CallersHave DEF Consistent, Calls, InitStages, EmbedStages
  <2>4. "tokenizer" \in CallStages
    BY DEF CallStages, LockedStages
  <2>5. QED
    BY <2>1, <2>2, <2>3, <2>4, CallersHave, GoesStep
<1>2. ASSUME NEW c \in Callers, NEW phrase \in Phrases, CallEmbedQuery(c, phrase)
      PROVE  EmbedderInvariant'
  <2> DEFINE x == [at |-> "lock", phrase |-> phrase, vector |-> Unwritten]
  <2>1. x \in Calls /\ x.at = "lock"
    BY DEF Calls, CallStages, Unwritten, Vectors, Texts
  <2>2. Acts(c, x, Of(c)) /\ env' = env
    BY <1>2, CallersHave DEF CallEmbedQuery, Acts
  <2>3. Consistent(c, x, Of(c), env')
    BY <2>1, RestsConsistent
  <2> HIDE DEF x
  <2>4. QED
    BY <2>1, <2>2, <2>3, CallersHave, CallersStep
<1>3. QED
  BY <1>1, <1>2

LEMMA LockStep ==
    ASSUME EmbedderInvariant, NEW c \in Callers, Lock(c)
    PROVE  EmbedderInvariant'
<1> DEFINE e == [Of(c) EXCEPT !.holder = c]
<1>1. e \in Embedders /\ e.init = Of(c).init /\ e.tokenizer = Of(c).tokenizer /\ e.holder = c
  <2>1. Of(c) \in Embedders
    BY CallersHave
  <2>2. e \in Embedders
    BY <2>1, EmbeddersTyped, NotPhraseTyped
  <2>3. QED
    BY <2>1, <2>2, EmbeddersFields
<1>2. Sets(c, e) /\ Goes(c, "tokenizer") /\ UNCHANGED env /\ Of(c).holder = NoPhrase
  BY DEF Lock
<1> HIDE DEF e
<1>3. Consistent(c, [call[c] EXCEPT !.at = "tokenizer"], e, env)
  BY <1>1, CallersHave DEF Consistent, Calls, InitStages, EmbedStages
<1>4. "tokenizer" \in CallStages
  BY DEF CallStages, LockedStages
<1>5. Prepared(e, env)
  BY <1>1, CallersHave DEF Prepared
<1>6. QED
  BY <1>1, <1>2, <1>3, <1>4, <1>5, GoesStep

LEMMA LoadTokenizerStep ==
    ASSUME EmbedderInvariant, NEW c \in Callers, LoadTokenizer(c)
    PROVE  EmbedderInvariant'
<1>1. call[c].at = "tokenizer" /\ call[c].at \in LockedStages /\ env' = env
  BY DEF LoadTokenizer, LockedStages
<1>2. CASE Sets(c, [Of(c) EXCEPT !.tokenizer = "ok"]) /\ Goes(c, "init")
  <2> DEFINE e == [Of(c) EXCEPT !.tokenizer = "ok"]
  <2>1. e \in Embedders /\ e.init = Of(c).init /\ e.tokenizer = "ok" /\ e.holder = Of(c).holder
    <3>1. Of(c) \in Embedders
      BY CallersHave
    <3>2. e \in Embedders
      BY <3>1, EmbeddersTyped, NotPhraseTyped
    <3>3. QED
      BY <3>1, <3>2, EmbeddersFields
  <2>2. Sets(c, e) /\ Goes(c, "init")
    BY <1>2
  <2> HIDE DEF e
  <2>3. Consistent(c, [call[c] EXCEPT !.at = "init"], e, env)
    BY <1>1, <2>1, CallersHave DEF Consistent, Calls, InitStages, EmbedStages, LockedStages
  <2>4. Prepared(e, env)
    BY <2>1, CallersHave DEF Prepared
  <2>5. "init" \in CallStages
    BY DEF CallStages, LockedStages
  <2>6. QED
    BY <1>1, <2>1, <2>2, <2>3, <2>4, <2>5, GoesStep
<1>3. CASE Of(c).tokenizer = "none"
           /\ GivesUp(c, [Of(c) EXCEPT !.tokenizer = "err",
                                       !.init = IF c = Indexer THEN "err" ELSE @])
  <2> DEFINE i == IF c = Indexer THEN "err" ELSE Of(c).init
             e == [[Of(c) EXCEPT !.tokenizer = "err"] EXCEPT !.init = i]
  <2>1. Of(c).init # "ok"
    BY <1>3, CallersHave DEF Prepared
  <2>2. i \in {"none", "busy", "ok", "err"} /\ i # "ok"
    BY <2>1, CallersHave DEF Embedders
  <2> HIDE DEF i
  <2>3. [Of(c) EXCEPT !.tokenizer = "err"] \in Embedders
    BY CallersHave, EmbeddersTyped, NotPhraseTyped
  <2>4. e \in Embedders
    BY <2>2, <2>3, EmbeddersTyped, NotPhraseTyped
  <2>5. e.init = i
    BY <2>3 DEF Embedders
  <2>6. [Of(c) EXCEPT !.tokenizer = "err", !.init = IF c = Indexer THEN "err" ELSE @] = e
    BY CallersHave DEF Embedders, i
  <2>7. GivesUp(c, e)
    BY <1>3, <2>6
  <2> HIDE DEF e
  <2>8. Prepared(e, env')
    BY <2>2, <2>5 DEF Prepared
  <2>9. QED
    BY <1>1, <2>1, <2>4, <2>7, <2>8, CallersHave, GivesUpStep
<1>4. CASE GivesUp(c, Of(c))
  BY <1>1, <1>4, CallersHave, GivesUpStep
<1>5. QED
  BY <1>2, <1>3, <1>4 DEF LoadTokenizer

LEMMA EnterInitStep ==
    ASSUME EmbedderInvariant, NEW c \in Callers, EnterInit(c)
    PROVE  EmbedderInvariant'
<1>1. call[c].at = "init" /\ call[c].at \in LockedStages /\ env' = env
  BY DEF EnterInit, LockedStages
<1>2. CASE Of(c).init = "none" /\ Sets(c, [Of(c) EXCEPT !.init = "busy"]) /\ Goes(c, "env")
  <2> DEFINE e == [Of(c) EXCEPT !.init = "busy"]
  <2>1. e \in Embedders /\ e.init = "busy" /\ e.tokenizer = Of(c).tokenizer
        /\ e.holder = Of(c).holder
    <3>1. Of(c) \in Embedders
      BY CallersHave
    <3>2. e \in Embedders
      BY <3>1, EmbeddersTyped, NotPhraseTyped
    <3>3. QED
      BY <3>1, <3>2, EmbeddersFields
  <2>2. Sets(c, e) /\ Goes(c, "env") /\ Of(c).init # "ok"
    BY <1>2
  <2> HIDE DEF e
  <2>3. Consistent(c, [call[c] EXCEPT !.at = "env"], e, env)
    BY <1>1, <2>1, CallersHave DEF Consistent, Calls, InitStages, EmbedStages, LockedStages
  <2>4. Prepared(e, env)
    BY <2>1 DEF Prepared
  <2>5. "env" \in CallStages
    BY DEF CallStages, LockedStages, InitStages
  <2>6. QED
    BY <1>1, <2>1, <2>2, <2>3, <2>4, <2>5, GoesStep
<1>3. CASE Of(c).init = "ok" /\ Goes(c, "copy ids") /\ UNCHANGED embedder
  <2>1. Consistent(c, [call[c] EXCEPT !.at = "copy ids"], Of(c), env)
    BY <1>1, <1>3, CallersHave DEF Consistent, Calls, InitStages, EmbedStages, LockedStages
  <2>2. "copy ids" \in CallStages
    BY DEF CallStages, LockedStages, EmbedStages
  <2>3. Sets(c, Of(c))
    BY <1>3, CallersHave DEF Sets
  <2>4. QED
    BY <1>1, <1>3, <2>1, <2>2, <2>3, CallersHave, GoesStep
<1>4. CASE GivesUp(c, Of(c))
  BY <1>1, <1>4, CallersHave, GivesUpStep
<1>5. QED
  BY <1>2, <1>3, <1>4 DEF EnterInit

\* An initialisation that fails was the one at work.
LEMMA InitFailsStep ==
    ASSUME EmbedderInvariant, NEW c \in Callers, InitFails(c), call[c].at \in InitStages,
           env' \in {"none", "busy", "ok", "err"},
           env = "ok" => env' = "ok",
           env = "busy" => env' = "busy" \/ call[c].at = "env busy"
    PROVE  EmbedderInvariant'
<1> DEFINE e == [Of(c) EXCEPT !.init = "err"]
<1>1. e \in Embedders /\ e.init = "err"
  <2>1. Of(c) \in Embedders
    BY CallersHave
  <2>2. e \in Embedders
    BY <2>1, EmbeddersTyped, NotPhraseTyped
  <2>3. QED
    BY <2>1, <2>2, EmbeddersFields
<1>2. GivesUp(c, e)
  BY DEF InitFails
<1> HIDE DEF e
<1>3. Of(c).init = "busy" /\ call[c].at \in LockedStages
  BY CallersHave DEF Consistent, LockedStages
<1>4. Prepared(e, env')
  BY <1>1 DEF Prepared
<1>5. QED
  BY <1>1, <1>2, <1>3, <1>4, GivesUpStep

LEMMA InitOrtEnvStep ==
    ASSUME EmbedderInvariant, NEW c \in Callers, InitOrtEnv(c)
    PROVE  EmbedderInvariant'
<1>1. call[c].at = "env" /\ call[c].at \in InitStages /\ call[c].at \in LockedStages
  BY DEF InitOrtEnv, LockedStages, InitStages
<1>2. CASE env = "none" /\ env' = "busy" /\ Goes(c, "env busy") /\ UNCHANGED embedder
  <2> DEFINE x == [call[c] EXCEPT !.at = "env busy"]
  <2>1. "env busy" \in CallStages
    BY DEF CallStages, LockedStages, InitStages
  <2>2. x \in Calls /\ x.at = "env busy"
    BY <2>1, CallersHave, StagesTyped DEF Calls
  <2>3. Acts(c, x, Of(c))
    BY <1>2, CallersHave DEF Goes, Acts
  <2> HIDE DEF x
  <2>4. Consistent(c, x, Of(c), env')
    BY <1>1, <1>2, <2>2, CallersHave DEF Consistent, InitStages, EmbedStages
  <2>5. Prepared(Of(c), env')
    BY <1>2, CallersHave DEF Prepared
  <2>6. QED
    BY <1>2, <2>2, <2>3, <2>4, <2>5, CallersHave, CallersStep
<1>3. CASE env = "ok" /\ Goes(c, "session") /\ UNCHANGED <<env, embedder>>
  <2>1. Consistent(c, [call[c] EXCEPT !.at = "session"], Of(c), env)
    BY <1>1, <1>3, CallersHave DEF Consistent, Calls, InitStages, EmbedStages
  <2>2. "session" \in CallStages
    BY DEF CallStages, LockedStages, InitStages
  <2>3. Sets(c, Of(c))
    BY <1>3, CallersHave DEF Sets
  <2>4. QED
    BY <1>3, <2>1, <2>2, <2>3, CallersHave, GoesStep
<1>4. CASE InitFails(c) /\ UNCHANGED env
  BY <1>1, <1>4, CallersHave, InitFailsStep
<1>5. QED
  BY <1>2, <1>3, <1>4 DEF InitOrtEnv

LEMMA InitializeEnvironmentStep ==
    ASSUME EmbedderInvariant, NEW c \in Callers, InitializeEnvironment(c)
    PROVE  EmbedderInvariant'
<1>1. call[c].at = "env busy" /\ call[c].at \in InitStages /\ call[c].at \in LockedStages
  BY DEF InitializeEnvironment, LockedStages, InitStages
<1>2. env = "busy" /\ Of(c).init = "busy"
  BY <1>1, CallersHave DEF Consistent
<1>3. CASE env' = "ok" /\ Goes(c, "session") /\ UNCHANGED embedder
  <2> DEFINE x == [call[c] EXCEPT !.at = "session"]
  <2>1. "session" \in CallStages
    BY DEF CallStages, LockedStages, InitStages
  <2>2. x \in Calls /\ x.at = "session"
    BY <2>1, CallersHave, StagesTyped DEF Calls
  <2>3. Acts(c, x, Of(c))
    BY <1>3, CallersHave DEF Goes, Acts
  <2> HIDE DEF x
  <2>4. Consistent(c, x, Of(c), env')
    BY <1>1, <1>3, <2>2, CallersHave DEF Consistent, InitStages, EmbedStages
  <2>5. Prepared(Of(c), env')
    BY <1>2 DEF Prepared
  <2>6. QED
    BY <1>1, <1>3, <2>2, <2>3, <2>4, <2>5, CallersHave, CallersStep
<1>4. CASE env' = "err" /\ InitFails(c)
  BY <1>1, <1>2, <1>4, InitFailsStep
<1>5. QED
  BY <1>3, <1>4 DEF InitializeEnvironment

LEMMA NewSessionStep ==
    ASSUME EmbedderInvariant, NEW c \in Callers, NewSession(c)
    PROVE  EmbedderInvariant'
<1>1. call[c].at = "session" /\ call[c].at \in InitStages /\ call[c].at \in LockedStages
      /\ env' = env
  BY DEF NewSession, LockedStages, InitStages
<1>2. env = "ok" /\ Of(c).tokenizer = "ok"
  BY <1>1, CallersHave DEF Consistent
<1> DEFINE e == [Of(c) EXCEPT !.init = "ok"]
           at == IF call[c].phrase = NoPhrase THEN "idle" ELSE "copy ids"
<1>3. CASE Sets(c, e) /\ Goes(c, at)
  <2>1. e \in Embedders /\ e.init = "ok" /\ e.tokenizer = "ok" /\ e.holder = Of(c).holder
    <3>1. Of(c) \in Embedders
      BY CallersHave
    <3>2. e \in Embedders
      BY <3>1, EmbeddersTyped, NotPhraseTyped
    <3>3. QED
      BY <1>2, <3>1, <3>2, EmbeddersFields
  <2>2. at \in CallStages /\ at \in {"idle", "copy ids"}
    BY DEF CallStages, LockedStages, EmbedStages
  <2> HIDE DEF e, at
  <2>3. Consistent(c, [call[c] EXCEPT !.at = at], e, env)
    BY <1>1, <2>1, <2>2, CallersHave DEF Consistent, Calls, LockedStages, InitStages, EmbedStages
  <2>4. Prepared(e, env)
    BY <1>2, <2>1 DEF Prepared
  <2>5. QED
    BY <1>1, <1>3, <2>1, <2>2, <2>3, <2>4, GoesStep
<1>4. CASE InitFails(c)
  BY <1>1, <1>2, <1>4, InitFailsStep
<1>5. QED
  BY <1>3, <1>4 DEF NewSession

LEMMA CopySteps ==
    ASSUME EmbedderInvariant, NEW c \in Callers, CopyIds(c) \/ CopyMask(c)
    PROVE  EmbedderInvariant'
<1>1. call[c].phrase \in Texts /\ Of(c) \in Embedders /\ call[c] \in Calls
  BY CallersHave DEF Calls
<1>2. CASE CopyIds(c)
  <2> DEFINE e == [Of(c) EXCEPT !.ids = call[c].phrase]
  <2>1. e \in Embedders
    BY <1>1, EmbeddersTyped, NotPhraseTyped
  <2>2. /\ e.init = Of(c).init /\ e.tokenizer = Of(c).tokenizer /\ e.holder = Of(c).holder
        /\ e.ids = call[c].phrase
    BY <1>1 DEF Embedders
  <2>3. call[c].at = "copy ids" /\ Sets(c, e) /\ Goes(c, "copy mask") /\ UNCHANGED env
    BY <1>2 DEF CopyIds
  <2> HIDE DEF e
  <2>4. Consistent(c, [call[c] EXCEPT !.at = "copy mask"], e, env)
    BY <1>1, <2>2, <2>3, CallersHave DEF Consistent, Calls, LockedStages, InitStages, EmbedStages
  <2>5. "copy mask" \in CallStages /\ call[c].at \in LockedStages
    BY <2>3 DEF CallStages, LockedStages, EmbedStages
  <2>6. Prepared(e, env)
    BY <2>2, CallersHave DEF Prepared
  <2>7. QED
    BY <2>1, <2>2, <2>3, <2>4, <2>5, <2>6, GoesStep
<1>3. CASE CopyMask(c)
  <2> DEFINE e == [Of(c) EXCEPT !.mask = call[c].phrase]
  <2>1. e \in Embedders
    BY <1>1, EmbeddersTyped, NotPhraseTyped
  <2>2. /\ e.init = Of(c).init /\ e.tokenizer = Of(c).tokenizer /\ e.holder = Of(c).holder
        /\ e.ids = Of(c).ids /\ e.mask = call[c].phrase
    BY <1>1 DEF Embedders
  <2>3. call[c].at = "copy mask" /\ Sets(c, e) /\ Goes(c, "run") /\ UNCHANGED env
    BY <1>3 DEF CopyMask
  <2> HIDE DEF e
  <2>4. Consistent(c, [call[c] EXCEPT !.at = "run"], e, env)
    BY <1>1, <2>2, <2>3, CallersHave DEF Consistent, Calls, LockedStages, InitStages, EmbedStages
  <2>5. "run" \in CallStages /\ call[c].at \in LockedStages
    BY <2>3 DEF CallStages, LockedStages, EmbedStages
  <2>6. Prepared(e, env)
    BY <2>2, CallersHave DEF Prepared
  <2>7. QED
    BY <2>1, <2>2, <2>3, <2>4, <2>5, <2>6, GoesStep
<1>4. QED
  BY <1>2, <1>3

LEMMA RunSessionStep ==
    ASSUME EmbedderInvariant, NEW c \in Callers, RunSession(c)
    PROVE  EmbedderInvariant'
<1>1. call[c].at = "run" /\ call[c].at \in LockedStages /\ env' = env
  BY DEF RunSession, LockedStages, EmbedStages
<1>2. Of(c).ids = call[c].phrase /\ Of(c).mask = call[c].phrase
  BY <1>1, CallersHave DEF Consistent
<1>3. call[c].phrase \in Texts /\ Of(c) \in Embedders /\ call[c] \in Calls
  BY CallersHave DEF Calls
<1> DEFINE v == [ids |-> Of(c).ids, mask |-> Of(c).mask]
           e == [Of(c) EXCEPT !.output = v]
<1>4. CASE Goes(c, "pool") /\ Sets(c, e)
  <2>1. v \in Vectors /\ v = [ids |-> call[c].phrase, mask |-> call[c].phrase]
    BY <1>2, <1>3 DEF Vectors
  <2> HIDE DEF v
  <2>2. e \in Embedders
    BY <1>3, <2>1, EmbeddersTyped, NotPhraseTyped
  <2>3. /\ e.init = Of(c).init /\ e.tokenizer = Of(c).tokenizer /\ e.holder = Of(c).holder
        /\ e.output = v
    BY <1>3 DEF Embedders
  <2> HIDE DEF e
  <2>4. [call[c] EXCEPT !.at = "pool"].at = "pool"
        /\ [call[c] EXCEPT !.at = "pool"].phrase = call[c].phrase
    BY <1>3 DEF Calls
  <2>5. Consistent(c, [call[c] EXCEPT !.at = "pool"], e, env)
    BY <1>1, <2>1, <2>3, <2>4, CallersHave DEF Consistent, InitStages, EmbedStages
  <2>6. "pool" \in CallStages
    BY DEF CallStages, LockedStages, EmbedStages
  <2>7. Prepared(e, env)
    BY <2>3, CallersHave DEF Prepared
  <2>8. QED
    BY <1>1, <1>4, <2>2, <2>3, <2>5, <2>6, <2>7, GoesStep
<1>5. CASE GivesUp(c, Of(c))
  BY <1>1, <1>5, CallersHave, GivesUpStep
<1>6. QED
  BY <1>4, <1>5 DEF RunSession

LEMMA PoolStep ==
    ASSUME EmbedderInvariant, NEW c \in Callers, Pool(c)
    PROVE  EmbedderInvariant'
<1>1. call[c].at = "pool" /\ call[c].at \in LockedStages /\ env' = env
  BY DEF Pool, LockedStages, EmbedStages
<1>2. Of(c).output = [ids |-> call[c].phrase, mask |-> call[c].phrase] /\ Of(c).init = "ok"
  BY <1>1, CallersHave DEF Consistent, EmbedStages
<1>3. Of(c) \in Embedders /\ call[c] \in Calls
  BY CallersHave
<1> DEFINE v == [ids |-> call[c].phrase, mask |-> call[c].phrase]
           x == [[call[c] EXCEPT !.at = "answered"] EXCEPT !.vector = v]
           e == Released(c, Of(c))
<1>4. v \in Vectors
  BY <1>3 DEF Vectors, Calls
<1>5. (IF Of(c).output.mask = call[c].phrase THEN Of(c).output ELSE Unwritten) = v
  BY <1>2
<1> HIDE DEF v
<1>6. x \in Calls /\ x.at = "answered" /\ x.vector = v /\ x.phrase = call[c].phrase
  BY <1>3, <1>4 DEF Calls, CallStages
<1>7. Acts(c, x, e)
  BY <1>3, <1>5 DEF Pool, Sets, Acts, Calls, EmbedderInvariant, EmbedderTypeOK
<1>8. e \in Embedders /\ e.init = "ok" /\ e.tokenizer = Of(c).tokenizer
  BY <1>2, <1>3, ReleasedTyped
<1> HIDE DEF x, e
<1>9. Consistent(c, x, e, env')
  BY <1>6, <1>8 DEF Consistent, LockedStages, InitStages, EmbedStages, v
<1>10. Prepared(e, env')
  BY <1>1, <1>2, <1>8, CallersHave DEF Prepared
<1>11. QED
  BY <1>1, <1>6, <1>7, <1>8, <1>9, <1>10, CallersHave, CallersStep

LEMMA EndSteps ==
    ASSUME EmbedderInvariant
    PROVE  /\ Close => EmbedderInvariant'
           /\ \A c \in Callers : UseAfterClose(c) => EmbedderInvariant'
<1>1. ASSUME Close PROVE EmbedderInvariant'
  <2>1. PICK closed \in BOOLEAN : embedder' = [embedder EXCEPT !["query"].closed = closed]
    BY <1>1 DEF Close
  <2>2. embedder["query"] \in Embedders /\ UNCHANGED <<env, call>>
    BY <1>1 DEF Close, EmbedderInvariant, EmbedderTypeOK
  <2>3. [embedder["query"] EXCEPT !.closed = closed] \in Embedders
    BY <2>2, EmbeddersTyped, NotPhraseTyped
  <2>4. embedder' = [embedder EXCEPT !["query"] = [embedder["query"] EXCEPT !.closed = closed]]
    BY <2>1
  <2>5. EmbedderTypeOK'
    BY <2>2, <2>3, <2>4 DEF EmbedderInvariant, EmbedderTypeOK
  <2>6. \A o \in {"query", "index"} :
            /\ embedder'[o].holder = embedder[o].holder
            /\ embedder'[o].tokenizer = embedder[o].tokenizer
            /\ embedder'[o].init = embedder[o].init
            /\ embedder'[o].ids = embedder[o].ids
            /\ embedder'[o].mask = embedder[o].mask
            /\ embedder'[o].output = embedder[o].output
    BY <2>2, <2>4 DEF EmbedderInvariant, EmbedderTypeOK, Embedders
  <2>7. \A c \in Callers : Consistent(c, call[c], Of(c), env)'
    <3>1. TAKE c \in Callers
    <3>2. Consistent(c, call[c], Of(c), env) /\ Owner(c) \in {"query", "index"}
      BY CallersHave, OwnersTyped
    <3>3. Of(c) = embedder[Owner(c)] /\ Of(c)' = embedder'[Owner(c)]
      BY DEF Of, Owner
    <3>4. /\ Of(c)'.holder = Of(c).holder /\ Of(c)'.tokenizer = Of(c).tokenizer
          /\ Of(c)'.init = Of(c).init /\ Of(c)'.ids = Of(c).ids /\ Of(c)'.mask = Of(c).mask
          /\ Of(c)'.output = Of(c).output
      BY <2>6, <3>2, <3>3
    <3>5. call' = call /\ env' = env
      BY <2>2
    <3>6. QED
      BY <3>2, <3>4, <3>5, SameFields
  <2>8. \A o \in {"query", "index"} : Prepared(embedder[o], env)'
    BY <2>2, <2>6 DEF EmbedderInvariant, Prepared
  <2>9. QED
    BY <2>2, <2>5, <2>7, <2>8 DEF EmbedderInvariant
<1>2. ASSUME NEW c \in Callers, UseAfterClose(c) PROVE EmbedderInvariant'
  <2>1. /\ call[c].at \in EmbedStages /\ Goes(c, "undefined")
        /\ UNCHANGED env /\ Sets(c, Of(c))
    BY <1>2, CallersHave DEF UseAfterClose, EmbedStages, Sets
  <2>2. Consistent(c, [call[c] EXCEPT !.at = "undefined"], Of(c), env)
    BY <2>1, CallersHave DEF Consistent, Calls, LockedStages, InitStages, EmbedStages
  <2>3. "undefined" \in CallStages
    BY DEF CallStages, LockedStages
  <2>4. QED
    BY <2>1, <2>2, <2>3, CallersHave, GoesStep
<1>3. QED
  BY <1>1, <1>2

LEMMA EmbedderStep == EmbedderInvariant /\ [EmbedderNext]_embedderVars => EmbedderInvariant'
<1> SUFFICES ASSUME EmbedderInvariant, [EmbedderNext]_embedderVars PROVE EmbedderInvariant'
  OBVIOUS
<1>1. CASE EmbedderNext
  BY <1>1, IdleSteps, LockStep, LoadTokenizerStep, EnterInitStep, InitOrtEnvStep,
     InitializeEnvironmentStep, NewSessionStep, CopySteps, RunSessionStep, PoolStep, EndSteps
     DEF EmbedderNext
<1>2. CASE UNCHANGED embedderVars
  <2>1. embedder' = embedder /\ call' = call /\ env' = env
    BY <1>2 DEF embedderVars
  <2>2. QED
    BY <2>1 DEF EmbedderInvariant, EmbedderTypeOK, Of
<1>3. QED
  BY <1>1, <1>2

\* Whatever number of searches share the tensors and however their calls are
\* interleaved, fail or are cut off by the close of the command: a vector that is
\* returned is of the text that was asked for (query.go, onnx.go).
THEOREM EmbeddingsStayOfTheText == EmbedderSpec => []EmbeddingsAreOfTheText
<1>1. EmbedderSpec => []EmbedderInvariant
  BY InitEmbedders, EmbedderStep, PTL DEF EmbedderSpec
<1>2. EmbedderInvariant => EmbeddingsAreOfTheText
  <2> SUFFICES ASSUME EmbedderInvariant, NEW c \in Callers, call[c].at = "answered"
               PROVE  /\ call[c].vector = [ids |-> call[c].phrase, mask |-> call[c].phrase]
                      /\ Of(c).init = "ok" /\ env = "ok"
    BY DEF EmbeddingsAreOfTheText
  <2>1. QED
    BY CallersHave DEF Consistent, Prepared
<1>3. QED
  BY <1>1, <1>2, PTL

-----------------------------------------------------------------------------
(* FolderWatch: of every path the last event that is queued, or what the   *)
(* reader knows if there is none, agrees with the snapshot.                *)

Polls ==
    [at : {"start", "walk", "tick", "emit", "stopped"}, first : BOOLEAN, walked : SUBSET Paths,
     seen : [Paths -> Nat], snapshot : [Paths -> Nat], consecutiveFailures : Nat]
Events == [path : Paths, type : {"created", "modified", "deleted"}]

WatchTypeOK ==
    /\ folder \in [Paths -> Nat] /\ changes \in Nat
    /\ watch \in Polls
    /\ events \in Seq(Events)

\* What a poll has told of p, or will count as told when it ends.
Recent(p) == IF watch.at = "emit" /\ p \in watch.walked THEN watch.seen[p] ELSE watch.snapshot[p]

LastOf(p, i) == events[i].path = p /\ \A j \in (i + 1)..Len(events) : events[j].path # p

\* A reader of all events will find p there, or not.
WillFind(p, there) ==
    /\ \A i \in 1..Len(events) : LastOf(p, i) => (events[i].type # "deleted" <=> there)
    /\ (\A i \in 1..Len(events) : events[i].path # p) => (p \in known <=> there)

WatchInvariant ==
    /\ WatchTypeOK
    /\ watch.first => /\ watch.at \in {"start", "walk"} /\ events = << >> /\ known = {}
                      /\ watch.snapshot = Nothing
    /\ \A p \in Paths \ dropped : WillFind(p, Recent(p) # 0)

LEMMA InitWatch == WatchInit => WatchInvariant
<1> SUFFICES ASSUME WatchInit PROVE WatchInvariant
  OBVIOUS
<1>1. Nothing \in [Paths -> Nat] /\ \A p \in Paths : Nothing[p] = 0
  BY DEF Nothing
<1>2. WatchTypeOK
  BY <1>1 DEF WatchInit, WatchTypeOK, Polls
<1>3. \A p \in Paths : Recent(p) = 0
  BY <1>1 DEF WatchInit, Recent
<1>4. QED
  BY <1>2, <1>3 DEF WatchInit, WatchInvariant, WillFind

\* A step of the watcher that tells nothing.
LEMMA SilentStep ==
    ASSUME WatchInvariant, WatchTypeOK', UNCHANGED <<events, known, dropped>>,
           watch'.first => watch.first /\ watch'.at \in {"start", "walk"},
           watch'.first => watch'.snapshot = watch.snapshot,
           \A p \in Paths : Recent(p)' = Recent(p)
    PROVE  WatchInvariant'
  BY DEF WatchInvariant, WillFind, LastOf

LEMMA WalkSteps ==
    ASSUME WatchInvariant,
           ChangeFolder \/ BeginWalk \/ WalkFile \/ WalkFails \/ Compare \/ EndPoll \/ StopWatch
    PROVE  WatchInvariant'
<1>1. WatchTypeOK /\ (watch.first => watch.at \in {"start", "walk"}) /\ UNCHANGED <<events, known, dropped>>
  BY DEF WatchInvariant, ChangeFolder, BeginWalk, WalkFile, WalkFails, Compare, EndPoll, StopWatch
<1>2. CASE ChangeFolder
  <2>1. WatchTypeOK' /\ watch' = watch
    BY <1>1, <1>2 DEF ChangeFolder, WatchTypeOK
  <2>2. QED
    BY <1>1, <2>1, SilentStep DEF Recent, WatchInvariant
<1>3. CASE BeginWalk \/ WalkFails \/ Compare \/ StopWatch
  <2>1. /\ watch.at \in {"start", "tick", "walk"} /\ UNCHANGED <<folder, changes>>
        /\ \/ watch' = [watch EXCEPT !.at = "walk", !.walked = {}, !.seen = Nothing]
           \/ watch' = [watch EXCEPT !.at = "tick", !.first = FALSE,
                            !.consecutiveFailures = IF watch.first THEN @ ELSE @ + 1]
           \/ /\ ~watch.first
              /\ watch' = [watch EXCEPT !.at = "emit", !.walked = {}, !.consecutiveFailures = 0]
           \/ ~watch.first /\ watch' = [watch EXCEPT !.at = "stopped"]
    BY <1>1, <1>3 DEF BeginWalk, WalkFails, Compare, StopWatch
  <2>2. Nothing \in [Paths -> Nat]
    BY DEF Nothing
  <2>3. /\ watch' \in Polls /\ watch'.snapshot = watch.snapshot
        /\ watch'.first => watch.first /\ watch'.at \in {"start", "walk"}
        /\ watch'.at = "emit" => watch'.walked = {}
    <3>1. CASE watch' = [watch EXCEPT !.at = "walk", !.walked = {}, !.seen = Nothing]
      BY <1>1, <2>2, <3>1 DEF WatchTypeOK, Polls
    <3>2. CASE watch' = [watch EXCEPT !.at = "tick", !.first = FALSE,
                             !.consecutiveFailures = IF watch.first THEN @ ELSE @ + 1]
      <4>1. PICK n \in Nat : n = IF watch.first THEN watch.consecutiveFailures
                                 ELSE watch.consecutiveFailures + 1
        BY <1>1 DEF WatchTypeOK, Polls
      <4>2. watch' = [watch EXCEPT !.at = "tick", !.first = FALSE, !.consecutiveFailures = n]
        BY <1>1, <3>2, <4>1 DEF WatchTypeOK, Polls
      <4>3. QED
        BY <1>1, <4>2 DEF WatchTypeOK, Polls
    <3>3. CASE /\ ~watch.first
               /\ watch' = [watch EXCEPT !.at = "emit", !.walked = {}, !.consecutiveFailures = 0]
      BY <1>1, <3>3 DEF WatchTypeOK, Polls
    <3>4. CASE ~watch.first /\ watch' = [watch EXCEPT !.at = "stopped"]
      BY <1>1, <3>4 DEF WatchTypeOK, Polls
    <3>5. QED
      BY <2>1, <3>1, <3>2, <3>3, <3>4
  <2>4. \A p \in Paths : Recent(p)' = Recent(p)
    BY <2>1, <2>3 DEF Recent
  <2>5. WatchTypeOK'
    BY <1>1, <2>1, <2>3 DEF WatchTypeOK
  <2>6. QED
    BY <1>1, <2>3, <2>4, <2>5, SilentStep
<1>4. CASE WalkFile
  <2>1. /\ watch.at = "walk" /\ UNCHANGED <<folder, changes>>
        /\ \E p \in Paths : watch' = [watch EXCEPT !.walked = @ \cup {p},
                                          !.seen[p] = IF p \in Filtered THEN folder[p] ELSE 0]
    BY <1>4 DEF WalkFile
  <2>2. /\ watch' \in Polls /\ watch'.snapshot = watch.snapshot
        /\ watch'.first = watch.first /\ watch'.at = "walk"
    <3>1. PICK p \in Paths, n \in Nat :
              watch' = [watch EXCEPT !.walked = @ \cup {p}, !.seen[p] = n]
      BY <1>1, <2>1 DEF WatchTypeOK
    <3>2. /\ watch.walked \cup {p} \in SUBSET Paths
          /\ [watch.seen EXCEPT ![p] = n] \in [Paths -> Nat]
      BY <1>1 DEF WatchTypeOK, Polls
    <3>3. watch' = [watch EXCEPT !.walked = watch.walked \cup {p}, !.seen = [watch.seen EXCEPT ![p] = n]]
      BY <1>1, <3>1 DEF WatchTypeOK, Polls
    <3>4. QED
      BY <1>1, <2>1, <3>2, <3>3 DEF WatchTypeOK, Polls
  <2>3. WatchTypeOK' /\ \A p \in Paths : Recent(p)' = Recent(p)
    BY <1>1, <2>1, <2>2 DEF Recent, WatchTypeOK
  <2>4. QED
    BY <1>1, <2>2, <2>3, SilentStep
<1>5. CASE EndPoll
  <2>1. /\ watch.at = "emit" /\ watch.walked = Paths /\ UNCHANGED <<folder, changes>>
        /\ watch' = [watch EXCEPT !.at = "tick", !.walked = {}, !.snapshot = watch.seen]
    BY <1>5 DEF EndPoll
  <2>2. /\ watch' \in Polls /\ watch'.snapshot = watch.seen
        /\ watch'.first = watch.first /\ watch'.at = "tick"
    BY <1>1, <2>1 DEF WatchTypeOK, Polls
  <2>3. WatchTypeOK' /\ \A p \in Paths : Recent(p)' = Recent(p)
    BY <1>1, <2>1, <2>2 DEF Recent, WatchTypeOK
  <2>4. QED
    BY <1>1, <2>1, <2>2, <2>3, SilentStep
<1>6. QED
  BY <1>2, <1>3, <1>4, <1>5

LEMMA FirstStep ==
    ASSUME WatchInvariant, FirstSnapshot
    PROVE  WatchInvariant'
<1>1. /\ WatchTypeOK /\ events = << >>
      /\ watch' = [watch EXCEPT !.at = "tick", !.first = FALSE, !.snapshot = watch.seen]
      /\ known' = Existing(watch.seen)
      /\ UNCHANGED <<folder, events, changes, dropped>>
  BY DEF FirstSnapshot, WatchInvariant
<1>2. /\ watch' \in Polls /\ watch'.snapshot = watch.seen /\ ~watch'.first /\ watch'.at = "tick"
  BY <1>1 DEF WatchTypeOK, Polls
<1>3. WatchTypeOK'
  BY <1>1, <1>2 DEF WatchTypeOK
<1>4. \A p \in Paths : p \in known' <=> Recent(p)' # 0
  BY <1>1, <1>2 DEF Existing, Recent
<1>5. events' = << >>
  BY <1>1
<1>6. QED
  BY <1>2, <1>3, <1>4, <1>5 DEF WatchInvariant, WillFind

\* A path whose news is appended; of others nothing changes.
LEMMA Appended ==
    ASSUME WatchTypeOK, NEW e \in Events, events' = Append(events, e), known' = known,
           NEW p \in Paths, NEW type, e.path = p, e.type = type
    PROVE  /\ WillFind(p, type # "deleted")'
           /\ \A q \in Paths \ {p}, there \in BOOLEAN :
                  WillFind(q, there) => WillFind(q, there)'
<1>1. /\ Len(events) \in Nat /\ Len(events') = Len(events) + 1
      /\ events'[Len(events) + 1] = e
      /\ \A i \in 1..Len(events) : events'[i] = events[i]
  BY DEF WatchTypeOK
<1>2. WillFind(p, type # "deleted")'
  <2>1. ASSUME NEW i \in 1..Len(events'), LastOf(p, i)' PROVE i = Len(events) + 1
    BY <1>1, <2>1 DEF LastOf
  <2>2. QED
    BY <1>1, <2>1 DEF WillFind
<1>3. ASSUME NEW q \in Paths \ {p}, NEW there \in BOOLEAN, WillFind(q, there)
      PROVE  WillFind(q, there)'
  <2>1. ASSUME NEW i \in 1..Len(events'), LastOf(q, i)'
        PROVE  i \in 1..Len(events) /\ LastOf(q, i) /\ events'[i] = events[i]
    BY <1>1, <1>3, <2>1 DEF LastOf
  <2>2. (\A i \in 1..Len(events') : events'[i].path # q) =>
            \A i \in 1..Len(events) : events[i].path # q
    BY <1>1
  <2>3. QED
    BY <1>3, <2>1, <2>2 DEF WillFind
<1>4. QED
  BY <1>2, <1>3

LEMMA EmitStep ==
    ASSUME WatchInvariant, Emit
    PROVE  WatchInvariant'
<1>1. WatchTypeOK /\ watch.at = "emit" /\ ~watch.first /\ UNCHANGED <<folder, changes, known>>
  BY DEF Emit, WatchInvariant
<1>2. PICK p \in Paths \ watch.walked, type \in {"none", "created", "modified", "deleted"} :
          /\ type = News(watch.snapshot, watch.seen, p)
          /\ watch' = [watch EXCEPT !.walked = @ \cup {p}]
          /\ IF type = "none" THEN UNCHANGED <<events, dropped>>
             ELSE \/ events' = Append(events, [path |-> p, type |-> type]) /\ UNCHANGED dropped
                  \/ dropped' = dropped \cup {p} /\ UNCHANGED events
  <2>1. \A p \in Paths :
            News(watch.snapshot, watch.seen, p) \in {"none", "created", "modified", "deleted"}
    BY DEF News
  <2>2. QED
    BY <2>1 DEF Emit
<1>3. /\ watch' \in Polls /\ ~watch'.first
      /\ Recent(p) = watch.snapshot[p] /\ Recent(p)' = watch.seen[p]
      /\ \A q \in Paths : q # p => Recent(q)' = Recent(q)
  BY <1>1, <1>2 DEF WatchTypeOK, Polls, Recent
<1>4. /\ type = "none" => (watch.seen[p] # 0 <=> watch.snapshot[p] # 0)
      /\ type # "none" => (watch.seen[p] # 0 <=> type # "deleted")
  BY <1>2 DEF News
<1>5. CASE type = "none" \/ (dropped' = dropped \cup {p} /\ UNCHANGED events)
  <2>1. /\ UNCHANGED events /\ dropped \subseteq dropped'
        /\ p \in dropped' \/ (Recent(p)' # 0 <=> Recent(p) # 0)
    BY <1>2, <1>3, <1>4, <1>5
  <2>2. \A q \in Paths \ dropped' : WillFind(q, Recent(q) # 0)'
    BY <1>1, <1>3, <2>1 DEF WatchInvariant, WillFind, LastOf
  <2>3. QED
    BY <1>1, <1>3, <2>1, <2>2 DEF WatchInvariant, WatchTypeOK
<1>6. CASE type # "none" /\ events' = Append(events, [path |-> p, type |-> type]) /\ UNCHANGED dropped
  <2>1. PICK e \in Events : e = [path |-> p, type |-> type]
    BY <1>4, <1>6 DEF Events
  <2>2. events' = Append(events, e) /\ events' \in Seq(Events)
    <3>1. events' = Append(events, e)
      BY <1>6, <2>1
    <3>2. QED
      BY <1>1, <3>1 DEF WatchTypeOK
  <2>3. /\ WillFind(p, type # "deleted")'
        /\ \A q \in Paths \ {p}, there \in BOOLEAN : WillFind(q, there) => WillFind(q, there)'
    <3>1. e.path = p /\ e.type = type /\ known' = known
      BY <1>1, <2>1
    <3>2. QED
      BY <1>1, <2>2, <3>1, Appended
  <2>4. WillFind(p, Recent(p) # 0)'
    <3>1. Recent(p)' # 0 <=> type # "deleted"
      BY <1>3, <1>4, <1>6
    <3>2. QED
      BY <2>3, <3>1 DEF WillFind
  <2>5. ASSUME NEW q \in Paths \ dropped', q # p PROVE WillFind(q, Recent(q) # 0)'
    <3>1. PICK there \in BOOLEAN : there <=> Recent(q) # 0
      OBVIOUS
    <3>2. WillFind(q, there)
      BY <1>6, <2>5, <3>1 DEF WatchInvariant, WillFind
    <3>3. WillFind(q, there)'
      BY <2>3, <2>5, <3>2
    <3>4. QED
      BY <1>3, <2>5, <3>1, <3>3 DEF WillFind
  <2>6. QED
    BY <1>1, <1>3, <2>2, <2>4, <2>5 DEF WatchInvariant, WatchTypeOK
<1>7. QED
  BY <1>2, <1>5, <1>6

LEMMA ReadStep ==
    ASSUME WatchInvariant, ReadEvent
    PROVE  WatchInvariant'
<1>1. WatchTypeOK /\ events # << >> /\ events' = Tail(events)
      /\ UNCHANGED <<folder, watch, changes, dropped>>
  BY DEF ReadEvent, WatchInvariant
<1> PICK e \in Events : e = Head(events)
  BY <1>1 DEF WatchTypeOK
<1>2. known' = IF e.type = "deleted" THEN known \ {e.path} ELSE known \cup {e.path}
  BY DEF ReadEvent
<1>3. /\ Len(events) \in Nat \ {0} /\ Len(events') = Len(events) - 1 /\ events[1] = e
      /\ events' \in Seq(Events)
      /\ \A i \in 1..Len(events') : i + 1 \in 1..Len(events) /\ events'[i] = events[i + 1]
  BY <1>1 DEF WatchTypeOK
<1>4. ASSUME NEW p \in Paths \ dropped PROVE WillFind(p, Recent(p) # 0)'
  <2>1. WillFind(p, Recent(p) # 0) /\ Recent(p)' = Recent(p)
    BY <1>1 DEF WatchInvariant, Recent
  <2>2. ASSUME NEW i \in 1..Len(events'), LastOf(p, i)' PROVE LastOf(p, i + 1)
    <3>1. ASSUME NEW j \in (i + 2)..Len(events) PROVE events[j].path # p
      <4>1. j - 1 \in (i + 1)..Len(events') /\ j - 1 \in 1..Len(events') /\ (j - 1) + 1 = j
        BY <1>3
      <4>2. events'[j - 1] = events[j]
        BY <1>3, <4>1
      <4>3. QED
        BY <2>2, <4>1, <4>2 DEF LastOf
    <3>2. QED
      BY <1>3, <2>2, <3>1 DEF LastOf
  <2>3. \A i \in 1..Len(events') :
            LastOf(p, i)' => (events'[i].type # "deleted" <=> Recent(p) # 0)
    BY <1>3, <2>1, <2>2 DEF WillFind
  <2>4. ASSUME \A i \in 1..Len(events') : events'[i].path # p
        PROVE  p \in known' <=> Recent(p) # 0
    <3>1. ASSUME NEW j \in 2..Len(events) PROVE events[j].path # p
      <4>1. j - 1 \in 1..Len(events') /\ (j - 1) + 1 = j
        BY <1>3
      <4>2. QED
        BY <1>3, <2>4, <4>1
    <3>2. CASE e.path = p
      <4>1. LastOf(p, 1) /\ 1 \in 1..Len(events)
        BY <1>3, <3>1, <3>2 DEF LastOf
      <4>2. QED
        BY <1>2, <1>3, <2>1, <3>2, <4>1 DEF WillFind
    <3>3. CASE e.path # p
      <4>1. \A i \in 1..Len(events) : events[i].path # p
        BY <1>3, <3>1, <3>3
      <4>2. QED
        BY <1>2, <2>1, <3>3, <4>1 DEF WillFind
    <3>4. QED
      BY <3>2, <3>3
  <2>5. QED
    BY <2>1, <2>3, <2>4 DEF WillFind
<1>5. ~watch.first
  BY <1>1 DEF WatchInvariant
<1>6. QED
  BY <1>1, <1>3, <1>4, <1>5 DEF WatchInvariant, WatchTypeOK

LEMMA WatchStep == WatchInvariant /\ [WatchNext]_watchVars => WatchInvariant'
<1> SUFFICES ASSUME WatchInvariant, [WatchNext]_watchVars PROVE WatchInvariant'
  OBVIOUS
<1>1. CASE UNCHANGED watchVars
  <2>1. UNCHANGED <<folder, watch, events, changes, known, dropped>>
    BY <1>1 DEF watchVars
  <2>2. QED
    BY <2>1 DEF WatchInvariant, WatchTypeOK, WillFind, LastOf, Recent
<1>2. QED
  BY <1>1, WalkSteps, FirstStep, EmitStep, ReadStep DEF WatchNext

\* Whatever changes between and during polls and however slow the reader is: once he has
\* read all events he knows which files the last snapshot holds, except for those of which
\* an event found the channel full (watcher.go:128-154).
THEOREM EventsAlwaysTell == WatchSpec => []EventsTellTheSnapshot
<1>1. WatchSpec => []WatchInvariant
  BY InitWatch, WatchStep, PTL DEF WatchSpec
<1>2. ASSUME WatchInvariant PROVE EventsTellTheSnapshot
  BY <1>2 DEF WatchInvariant, WillFind, Recent, EventsTellTheSnapshot
<1>3. QED
  BY <1>1, <1>2, PTL

-----------------------------------------------------------------------------
(* SharedApprovals: until a lock is taken from a saver at work, every      *)
(* saver at work has it, and the temporary file is its own.                *)

SaverStages == {"idle", "acquire", "stat", "break"} \cup Working
Owners == Savers \cup {Nobody}
SharedFiles == [by : Owners, whole : BOOLEAN]

ApprovalsTypeOK ==
    /\ lock \in [by : Owners, old : BOOLEAN]
    /\ tmp \in SharedFiles /\ approvals \in SharedFiles
    /\ saver \in [Savers -> [at : SaverStages, tries : Int]]
    /\ robbed \in BOOLEAN

ApprovalsInvariant ==
    /\ ApprovalsTypeOK
    /\ ~robbed =>
           /\ approvals.whole
           /\ \A s \in Savers :
                  /\ saver[s].at \in Working => lock.by = s
                  /\ saver[s].at = "write" => tmp.by = s
                  /\ saver[s].at = "rename" => tmp.by = s /\ tmp.whole

LEMMA InitApprovals == ApprovalsInit => ApprovalsInvariant
<1> SUFFICES ASSUME ApprovalsInit PROVE ApprovalsInvariant
  OBVIOUS
<1>1. MaxTries \in Int /\ Nobody \notin Savers
  BY ApprovalsAssumption
<1>2. ApprovalsTypeOK
  <2>1. lock \in [by : Owners, old : BOOLEAN]
    <3>1. NoLock \in [by : Owners, old : BOOLEAN]
      BY DEF NoLock, Owners
    <3>2. [by : Savers, old : BOOLEAN] \subseteq [by : Owners, old : BOOLEAN]
      BY DEF Owners
    <3>3. QED
      BY <3>1, <3>2 DEF ApprovalsInit
  <2>2. NoFile \in SharedFiles
    BY DEF NoFile, SharedFiles, Owners
  <2>3. Resting \in [at : SaverStages, tries : Int]
    BY DEF Resting, SaverStages
  <2>4. QED
    BY <2>1, <2>2, <2>3 DEF ApprovalsInit, ApprovalsTypeOK
<1>3. QED
  BY <1>2 DEF ApprovalsInit, ApprovalsInvariant, NoFile, Resting, Working

LEMMA SaversTyped ==
    ASSUME ApprovalsTypeOK, NEW s \in Savers, NEW at \in SaverStages
    PROVE  /\ To(s, at) =>
                  /\ saver' \in [Savers -> [at : SaverStages, tries : Int]]
                  /\ saver'[s].at = at
           /\ Retry(s, at) =>
                  /\ saver' \in [Savers -> [at : SaverStages, tries : Int]]
                  /\ saver'[s].at = at
           /\ StopSaving(s) =>
                  /\ saver' \in [Savers -> [at : SaverStages, tries : Int]]
                  /\ saver'[s].at = "idle"
           /\ To(s, at) \/ Retry(s, at) \/ StopSaving(s) =>
                  \A o \in Savers : o # s => saver'[o] = saver[o]
<1> USE DEF ApprovalsTypeOK
<1>1. ASSUME To(s, at)
      PROVE  /\ saver' \in [Savers -> [at : SaverStages, tries : Int]]
             /\ saver'[s].at = at
             /\ \A o \in Savers : o # s => saver'[o] = saver[o]
  BY <1>1 DEF To
<1>2. ASSUME Retry(s, at)
      PROVE  /\ saver' \in [Savers -> [at : SaverStages, tries : Int]]
             /\ saver'[s].at = at
             /\ \A o \in Savers : o # s => saver'[o] = saver[o]
  BY <1>2 DEF Retry
<1>3. ASSUME StopSaving(s)
      PROVE  /\ saver' \in [Savers -> [at : SaverStages, tries : Int]]
             /\ saver'[s].at = "idle"
             /\ \A o \in Savers : o # s => saver'[o] = saver[o]
  BY <1>3 DEF StopSaving, Resting, SaverStages
<1>4. QED
  BY <1>1, <1>2, <1>3

\* A saver at work keeps the others away.
LEMMA OnlyTheHolderWorks ==
    ASSUME ApprovalsInvariant, ~robbed, NEW s \in Savers, NEW o \in Savers, o # s,
           saver[s].at \in Working
    PROVE  saver[o].at \notin Working /\ lock.by = s
  BY DEF ApprovalsInvariant

LEMMA WaitSteps ==
    ASSUME ApprovalsInvariant, NEW s \in Savers,
           BeginSave(s) \/ Acquire(s) \/ StatLock(s) \/ BreakLock(s) \/ GiveUp(s)
    PROVE  ApprovalsInvariant'
<1> USE DEF ApprovalsInvariant
<1>1. Nobody \notin Savers /\ MaxTries \in Int
  BY ApprovalsAssumption
<1>2. CASE BeginSave(s)
  <2>1. ApprovalsTypeOK'
    BY <1>1, <1>2 DEF BeginSave, ApprovalsTypeOK, SaverStages
  <2>2. saver'[s].at = "acquire" /\ \A o \in Savers : o # s => saver'[o] = saver[o]
    BY <1>2 DEF BeginSave, ApprovalsTypeOK
  <2>3. QED
    BY <1>2, <2>1, <2>2 DEF BeginSave, Working
<1>3. CASE Acquire(s)
  <2>1. CASE lock = NoLock
    <3>1. lock' = [by |-> s, old |-> FALSE] /\ To(s, "truncate")
          /\ UNCHANGED <<tmp, approvals, robbed>>
      BY <1>3, <2>1 DEF Acquire
    <3>2. "truncate" \in SaverStages
      BY DEF SaverStages, Working
    <3>3. ApprovalsTypeOK'
      BY <3>1, <3>2, SaversTyped DEF ApprovalsTypeOK, Owners
    <3>4. ~robbed => \A o \in Savers : saver[o].at \notin Working
      BY <1>1, <2>1 DEF NoLock
    <3>5. saver'[s].at = "truncate" /\ \A o \in Savers : o # s => saver'[o] = saver[o]
      BY <3>1, <3>2, SaversTyped
    <3>6. QED
      BY <3>1, <3>3, <3>4, <3>5 DEF Working
  <2>2. CASE lock # NoLock
    <3>1. To(s, "stat") /\ UNCHANGED <<lock, tmp, approvals, robbed>>
      BY <1>3, <2>2 DEF Acquire
    <3>2. "stat" \in SaverStages
      BY DEF SaverStages
    <3>3. ApprovalsTypeOK'
      BY <3>1, <3>2, SaversTyped DEF ApprovalsTypeOK
    <3>4. saver'[s].at = "stat" /\ \A o \in Savers : o # s => saver'[o] = saver[o]
      BY <3>1, <3>2, SaversTyped
    <3>5. QED
      BY <3>1, <3>3, <3>4 DEF Working
  <2>3. QED
    BY <2>1, <2>2
<1>4. CASE StatLock(s) \/ GiveUp(s)
  <2>1. \E at \in {"break", "acquire"} : To(s, at) \/ Retry(s, at) \/ StopSaving(s)
    BY <1>4 DEF StatLock, GiveUp
  <2>2. {"break", "acquire"} \subseteq SaverStages
    BY DEF SaverStages
  <2>3. UNCHANGED <<lock, tmp, approvals, robbed>>
    BY <1>4 DEF StatLock, GiveUp
  <2>4. ApprovalsTypeOK'
    BY <2>1, <2>2, <2>3, SaversTyped DEF ApprovalsTypeOK
  <2>5. /\ saver'[s].at \in {"break", "acquire", "idle"}
        /\ \A o \in Savers : o # s => saver'[o] = saver[o]
    BY <2>1, <2>2, SaversTyped
  <2>6. QED
    BY <2>3, <2>4, <2>5 DEF Working
<1>5. CASE BreakLock(s)
  <2>1. /\ saver[s].at = "break" /\ lock' = NoLock /\ Retry(s, "acquire")
        /\ robbed' = (robbed \/ \E o \in Savers \ {s} : lock.by = o /\ saver[o].at \in Working)
        /\ UNCHANGED <<tmp, approvals>>
    BY <1>5 DEF BreakLock
  <2>2. "acquire" \in SaverStages
    BY DEF SaverStages
  <2>3. robbed' \in BOOLEAN
    BY <2>1
  <2>4. ApprovalsTypeOK'
    BY <2>1, <2>2, <2>3, SaversTyped DEF ApprovalsTypeOK, NoLock, Owners
  <2>5. ~robbed' => \A o \in Savers : saver[o].at \notin Working
    BY <2>1 DEF Working
  <2>6. saver'[s].at = "acquire" /\ \A o \in Savers : o # s => saver'[o] = saver[o]
    BY <2>1, <2>2, SaversTyped
  <2>7. QED
    BY <2>1, <2>4, <2>5, <2>6 DEF Working
<1>6. QED
  BY <1>2, <1>3, <1>4, <1>5

LEMMA WorkSteps ==
    ASSUME ApprovalsInvariant, NEW s \in Savers,
           \/ TruncateTmp(s) \/ WriteTmp(s) \/ FailToWrite(s) \/ RenameTmp(s) \/ FailToRename(s)
           \/ ReleaseLock(s) \/ CrashSaver(s)
    PROVE  ApprovalsInvariant'
<1> USE DEF ApprovalsInvariant
<1>1. Nobody \notin Savers
  BY ApprovalsAssumption
<1>2. CASE TruncateTmp(s)
  <2>1. /\ saver[s].at = "truncate" /\ tmp' = [by |-> s, whole |-> FALSE] /\ To(s, "write")
        /\ UNCHANGED <<lock, approvals, robbed>>
    BY <1>2 DEF TruncateTmp
  <2>2. "write" \in SaverStages /\ saver[s].at \in Working
    BY <2>1 DEF SaverStages, Working
  <2>3. ApprovalsTypeOK'
    BY <2>1, <2>2, SaversTyped DEF ApprovalsTypeOK, SharedFiles, Owners
  <2>4. saver'[s].at = "write" /\ \A o \in Savers : o # s => saver'[o] = saver[o]
    BY <2>1, <2>2, SaversTyped
  <2>5. ~robbed => lock.by = s /\ \A o \in Savers : o # s => saver[o].at \notin Working
    BY <2>2, OnlyTheHolderWorks
  <2>6. QED
    BY <2>1, <2>3, <2>4, <2>5 DEF Working
<1>3. CASE WriteTmp(s)
  <2>1. /\ saver[s].at = "write" /\ To(s, "rename") /\ UNCHANGED <<lock, robbed>>
        /\ tmp' = IF tmp.by = s THEN [tmp EXCEPT !.whole = TRUE] ELSE tmp
        /\ approvals' = IF approvals.by = s THEN [approvals EXCEPT !.whole = TRUE] ELSE approvals
    BY <1>3 DEF WriteTmp
  <2>2. "rename" \in SaverStages /\ saver[s].at \in Working
    BY <2>1 DEF SaverStages, Working
  <2>3. /\ tmp' \in SharedFiles /\ approvals' \in SharedFiles
        /\ tmp.by = s => tmp'.by = s /\ tmp'.whole
        /\ approvals.whole => approvals'.whole
    BY <2>1 DEF ApprovalsTypeOK, SharedFiles
  <2>4. ApprovalsTypeOK'
    BY <2>1, <2>2, <2>3, SaversTyped DEF ApprovalsTypeOK
  <2>5. saver'[s].at = "rename" /\ \A o \in Savers : o # s => saver'[o] = saver[o]
    BY <2>1, <2>2, SaversTyped
  <2>6. ~robbed => lock.by = s /\ \A o \in Savers : o # s => saver[o].at \notin Working
    BY <2>2, OnlyTheHolderWorks
  <2>7. QED
    BY <2>1, <2>3, <2>4, <2>5, <2>6 DEF Working
<1>4. CASE RenameTmp(s)
  <2>1. /\ saver[s].at = "rename" /\ To(s, "release") /\ UNCHANGED <<lock, robbed>>
        /\ \/ tmp = NoFile /\ UNCHANGED <<tmp, approvals>>
           \/ tmp # NoFile /\ approvals' = tmp /\ tmp' = NoFile
    BY <1>4 DEF RenameTmp
  <2>2. "release" \in SaverStages /\ saver[s].at \in Working
    BY <2>1 DEF SaverStages, Working
  <2>3. NoFile \in SharedFiles
    BY DEF NoFile, SharedFiles, Owners
  <2>4. ApprovalsTypeOK'
    BY <2>1, <2>2, <2>3, SaversTyped DEF ApprovalsTypeOK
  <2>5. ~robbed => approvals'.whole
    BY <2>1
  <2>6. saver'[s].at = "release" /\ \A o \in Savers : o # s => saver'[o] = saver[o]
    BY <2>1, <2>2, SaversTyped
  <2>7. ~robbed => lock.by = s /\ \A o \in Savers : o # s => saver[o].at \notin Working
    BY <2>2, OnlyTheHolderWorks
  <2>8. QED
    BY <2>1, <2>4, <2>5, <2>6, <2>7 DEF Working
<1>5. CASE ReleaseLock(s)
  <2>1. /\ saver[s].at = "release" /\ lock' = NoLock /\ StopSaving(s)
        /\ robbed' = (robbed \/ \E o \in Savers \ {s} : lock.by = o /\ saver[o].at \in Working)
        /\ UNCHANGED <<tmp, approvals>>
    BY <1>5 DEF ReleaseLock
  <2>2. "idle" \in SaverStages /\ saver[s].at \in Working
    BY <2>1 DEF SaverStages, Working
  <2>3. robbed' \in BOOLEAN /\ (~robbed' => ~robbed)
    BY <2>1 DEF ApprovalsTypeOK
  <2>4. ApprovalsTypeOK'
    BY <2>1, <2>2, <2>3, SaversTyped DEF ApprovalsTypeOK, NoLock, Owners
  <2>5. saver'[s].at = "idle" /\ \A o \in Savers : o # s => saver'[o] = saver[o]
    BY <2>1, <2>2, SaversTyped
  <2>6. ~robbed => \A o \in Savers : o # s => saver[o].at \notin Working
    BY <2>2, OnlyTheHolderWorks
  <2>7. QED
    BY <2>1, <2>3, <2>4, <2>5, <2>6 DEF Working
<1>6. CASE CrashSaver(s)
  <2>1. StopSaving(s) /\ UNCHANGED <<lock, tmp, approvals, robbed>>
    BY <1>6 DEF CrashSaver
  <2>2. "idle" \in SaverStages
    BY DEF SaverStages
  <2>3. ApprovalsTypeOK'
    BY <2>1, <2>2, SaversTyped DEF ApprovalsTypeOK
  <2>4. saver'[s].at = "idle" /\ \A o \in Savers : o # s => saver'[o] = saver[o]
    BY <2>1, <2>2, SaversTyped
  <2>5. QED
    BY <2>1, <2>3, <2>4 DEF Working
<1>7. CASE FailToWrite(s) \/ FailToRename(s)
  <2>1. /\ saver[s].at \in Working /\ To(s, "release") /\ UNCHANGED <<lock, approvals, robbed>>
        /\ tmp' \in {tmp, NoFile}
    BY <1>7 DEF FailToWrite, FailToRename, Working
  <2>2. "release" \in SaverStages
    BY DEF SaverStages, Working
  <2>3. NoFile \in SharedFiles
    BY DEF NoFile, SharedFiles, Owners
  <2>4. ApprovalsTypeOK'
    BY <2>1, <2>2, <2>3, SaversTyped DEF ApprovalsTypeOK
  <2>5. saver'[s].at = "release" /\ \A o \in Savers : o # s => saver'[o] = saver[o]
    BY <2>1, <2>2, SaversTyped
  <2>6. ~robbed => lock.by = s /\ \A o \in Savers : o # s => saver[o].at \notin Working
    BY <2>1, OnlyTheHolderWorks
  <2>7. QED
    BY <2>1, <2>4, <2>5, <2>6 DEF Working
<1>8. QED
  BY <1>2, <1>3, <1>4, <1>5, <1>6, <1>7

LEMMA ApprovalsStep ==
    ApprovalsInvariant /\ [ApprovalsNext]_approvalsVars => ApprovalsInvariant'
<1> SUFFICES ASSUME ApprovalsInvariant, [ApprovalsNext]_approvalsVars
             PROVE  ApprovalsInvariant'
  OBVIOUS
<1>1. CASE LockAges
  <2>1. lock'.by = lock.by /\ lock' \in [by : Owners, old : BOOLEAN]
    BY <1>1 DEF LockAges, ApprovalsInvariant, ApprovalsTypeOK
  <2>2. UNCHANGED <<tmp, approvals, saver, robbed>>
    BY <1>1 DEF LockAges
  <2>3. QED
    BY <2>1, <2>2 DEF ApprovalsInvariant, ApprovalsTypeOK
<1>2. CASE UNCHANGED approvalsVars
  BY <1>2 DEF approvalsVars, ApprovalsInvariant, ApprovalsTypeOK
<1>3. QED
  BY <1>1, <1>2, WaitSteps, WorkSteps DEF ApprovalsNext

\* However many machines save, crash, wait and break old locks: until a lock was
\* taken from a saver at work, readers find a whole file and one saver is at work
\* (approvals.go:116-128).
THEOREM ApprovalsStayWhole == ApprovalsSpec => []ApprovalsAreWhole
<1>1. ApprovalsSpec => []ApprovalsInvariant
  BY InitApprovals, ApprovalsStep, PTL DEF ApprovalsSpec
<1>2. ApprovalsInvariant => ApprovalsAreWhole
  <2> SUFFICES ASSUME ApprovalsInvariant, ~robbed
               PROVE  /\ approvals.whole
                      /\ Cardinality({s \in Savers : saver[s].at \in Working}) <= 1
    BY DEF ApprovalsAreWhole
  <2> DEFINE W == {s \in Savers : saver[s].at \in Working}
  <2>1. W \subseteq {lock.by} /\ approvals.whole
    BY DEF ApprovalsInvariant
  <2>2. IsFiniteSet({lock.by}) /\ Cardinality({lock.by}) = 1
    BY FS_Singleton
  <2>3. Cardinality(W) <= Cardinality({lock.by})
    BY <2>1, <2>2, FS_Subset
  <2>4. QED
    BY <2>1, <2>2, <2>3
<1>3. QED
  BY <1>1, <1>2, PTL

-----------------------------------------------------------------------------
(* SourceCache: an undisturbed Get is the only one at work, so the copy    *)
(* holds what it has read, and what it reads is of a file that was at the  *)
(* source's path during it.                                                *)

Contents == Seq(Nat)
GetStages == {"idle", "hash", "hashing", "compare", "open", "copy", "answer"}
Gets == [at : GetStages, in : Nat, out : Nat, read : Contents]

\* The files a Get has open are there.
Opened(x) ==
    /\ x.at \in {"hashing", "copy"} => x.in \in 1..Len(data)
    /\ x.at = "copy" => x.out \in 1..Len(copies)

CacheTypeOK ==
    /\ data \in Seq(Contents) /\ source \in 0..Len(data)
    /\ copies \in Seq(Contents) /\ copy \in 0..Len(copies)
    /\ edits \in Nat
    /\ getter \in [Getters -> Gets] /\ \A g \in Getters : Opened(getter[g])
    /\ held \in [Getters -> SUBSET Contents]

StartOf(some, whole) == Len(some) <= Len(whole) /\ \A i \in 1..Len(some) : some[i] = whole[i]

\* Of a Get x that has seen the contents seen, and perhaps an edit in place.
Undisturbed(x, seen, mixed) ==
    /\ x.at # "idle" => AtSource \subseteq seen
    /\ x.at \in {"hashing", "copy"} =>
           data[x.in] \in seen /\ (~mixed => StartOf(x.read, data[x.in]))
    /\ x.at \in {"hashing", "compare", "copy"} => FoundIn(x.read, seen)
    /\ x.at = "compare" => mixed \/ x.read \in seen
    /\ x.at = "copy" => x.out = copy /\ copies[copy] = x.read
    /\ x.at = "answer" =>
           copy # Gone /\ FoundIn(copies[copy], seen) /\ (mixed \/ copies[copy] \in seen)

CacheInvariant ==
    /\ CacheTypeOK
    /\ \A g \in undisturbed \cap Getters :
           /\ getter[g].at # "idle" => \A o \in Getters : o # g => getter[o].at = "idle"
           /\ Undisturbed(getter[g], held[g], g \in edited)

LEMMA WrittenTyped ==
    ASSUME NEW v \in Nat, NEW k \in Nat
    PROVE  Written(v, k) \in Contents /\ Len(Written(v, k)) = k
  BY DEF Written, Contents

LEMMA EmptyContent ==
    /\ << >> \in Contents
    /\ \A seen : FoundIn(<< >>, seen)
    /\ \A c \in Contents : StartOf(<< >>, c)
  BY DEF Contents, FoundIn, StartOf

\* One more piece of a file whose content was seen.
LEMMA PieceRead ==
    ASSUME NEW r \in Contents, NEW c \in Contents, NEW seen, c \in seen,
           Len(r) < Len(c), FoundIn(r, seen)
    PROVE  /\ FoundIn(Append(r, c[Len(r) + 1]), seen)
           /\ StartOf(r, c) => StartOf(Append(r, c[Len(r) + 1]), c)
<1> DEFINE p == c[Len(r) + 1]
<1>1. Len(r) \in Nat /\ Len(c) \in Nat /\ Len(r) + 1 \in 1..Len(c)
  BY DEF Contents
<1>2. p \in Nat
  BY <1>1 DEF Contents
<1> HIDE DEF p
<1>3. /\ Append(r, p) \in Seq(Nat) /\ Len(Append(r, p)) = Len(r) + 1
      /\ \A i \in 1..Len(r) : Append(r, p)[i] = r[i]
      /\ Append(r, p)[Len(r) + 1] = p
  BY <1>2 DEF Contents
<1>4. ASSUME NEW i \in 1..Len(Append(r, p))
      PROVE  \E d \in seen : i <= Len(d) /\ d[i] = Append(r, p)[i]
  <2>1. CASE i = Len(r) + 1
    BY <1>1, <1>3, <2>1 DEF p
  <2>2. CASE i \in 1..Len(r)
    BY <1>3, <2>2 DEF FoundIn
  <2>3. QED
    BY <1>1, <1>3, <2>1, <2>2
<1>5. ASSUME StartOf(r, c), NEW i \in 1..Len(Append(r, p)) PROVE Append(r, p)[i] = c[i]
  <2>1. CASE i = Len(r) + 1
    BY <1>3, <2>1 DEF p
  <2>2. CASE i \in 1..Len(r)
    BY <1>3, <1>5, <2>2 DEF StartOf
  <2>3. QED
    BY <1>1, <1>3, <2>1, <2>2
<1>6. FoundIn(Append(r, p), seen)
  BY <1>4 DEF FoundIn
<1>7. StartOf(r, c) => StartOf(Append(r, p), c)
  BY <1>1, <1>3, <1>5 DEF StartOf
<1>8. QED
  BY <1>6, <1>7 DEF p

LEMMA ReadOn ==
    ASSUME NEW r \in Contents, NEW c \in Contents, Len(r) < Len(c)
    PROVE  c[Len(r) + 1] \in Nat /\ Append(r, c[Len(r) + 1]) \in Contents
  BY DEF Contents

\* What is read to its end is the content.
LEMMA ReadToEnd ==
    ASSUME NEW r \in Contents, NEW c \in Contents, StartOf(r, c), Len(r) >= Len(c)
    PROVE  r = c
<1>1. Len(r) \in Nat /\ Len(c) \in Nat /\ Len(r) = Len(c)
  BY DEF Contents, StartOf
<1>2. \A i \in 1..Len(r) : r[i] = c[i]
  BY DEF StartOf
<1>3. QED
  BY <1>1, <1>2, SeqEqual DEF Contents

LEMMA WriteTyped ==
    ASSUME NEW c \in Contents, NEW i \in Nat \ {0}, NEW p \in Nat
    PROVE  WriteAt(c, i, p) \in Contents
<1> DEFINE n == IF i > Len(c) THEN i ELSE Len(c)
           at(j) == IF j = i THEN p ELSE IF j <= Len(c) THEN c[j] ELSE Hole
<1>1. n \in Nat /\ Len(c) \in Nat
  BY DEF Contents
<1>2. \A j \in 1..n : at(j) \in Nat
  BY <1>1 DEF Contents, Hole
<1>3. WriteAt(c, i, p) = [j \in 1..n |-> at(j)]
  BY DEF WriteAt
<1> HIDE DEF n, at
<1>4. QED
  BY <1>1, <1>2, <1>3 DEF Contents

\* A write at the end of what is there.
LEMMA WriteAtEnd ==
    ASSUME NEW c \in Contents, NEW p \in Nat
    PROVE  WriteAt(c, Len(c) + 1, p) = Append(c, p)
<1>1. Len(c) \in Nat /\ Append(c, p) \in Seq(Nat) /\ Len(Append(c, p)) = Len(c) + 1
  BY DEF Contents
<1>2. WriteAt(c, Len(c) + 1, p) \in Seq(Nat) /\ DOMAIN WriteAt(c, Len(c) + 1, p) = 1..(Len(c) + 1)
  BY <1>1, WriteTyped DEF Contents, WriteAt
<1>3. \A j \in 1..(Len(c) + 1) : WriteAt(c, Len(c) + 1, p)[j] = Append(c, p)[j]
  BY <1>1 DEF Contents, WriteAt
<1>4. DOMAIN Append(c, p) = 1..(Len(c) + 1) /\ Len(WriteAt(c, Len(c) + 1, p)) = Len(c) + 1
  BY <1>1, <1>2
<1>5. QED
  BY <1>1, <1>2, <1>3, <1>4, SeqEqual

LEMMA InitCache == CacheInit => CacheInvariant
<1> SUFFICES ASSUME CacheInit PROVE CacheInvariant
  OBVIOUS
<1>1. NoGet \in Gets /\ Opened(NoGet)
  BY DEF NoGet, Gets, GetStages, Opened, Gone, Contents
<1>2. data \in Seq(Contents) /\ source \in 0..Len(data)
  BY WrittenTyped, CacheAssumption DEF CacheInit
<1>3. copies \in Seq(Contents) /\ copy \in 0..Len(copies)
  <2>1. CASE copies = << >> /\ copy = Gone
    BY <2>1 DEF Gone
  <2>2. ASSUME NEW k \in 0..MaxPieces, copies = <<Written(1, k)>>, copy = 1
        PROVE  copies \in Seq(Contents) /\ copy \in 0..Len(copies)
    BY <2>2, WrittenTyped, CacheAssumption
  <2>3. QED
    BY <2>1, <2>2 DEF CacheInit
<1>4. CacheTypeOK
  BY <1>1, <1>2, <1>3, CacheAssumption DEF CacheInit, CacheTypeOK
<1>5. QED
  BY <1>4 DEF CacheInit, CacheInvariant

\* What a Get does that began before; it may change the copies.
LEMMA GettersStep ==
    ASSUME CacheInvariant, NEW g \in Getters, NEW x \in Gets,
           getter[g].at # "idle", getter' = [getter EXCEPT ![g] = x],
           UNCHANGED <<data, source, edits, held, edited, undisturbed>>,
           copies' \in Seq(Contents), copy' \in 0..Len(copies'), Len(copies') >= Len(copies),
           Opened(x)', g \in undisturbed => Undisturbed(x, held[g], g \in edited)'
    PROVE  CacheInvariant'
<1> USE DEF CacheInvariant
<1>1. getter'[g] = x /\ \A o \in Getters : o # g => getter'[o] = getter[o]
  BY DEF CacheTypeOK
<1>2. \A o \in Getters : Opened(getter[o])'
  <2> SUFFICES ASSUME NEW o \in Getters PROVE Opened(getter[o])'
    OBVIOUS
  <2>1. CASE o = g
    BY <1>1, <2>1 DEF Opened
  <2>2. CASE o # g
    <3>1. Len(copies) \in Nat /\ Len(copies') \in Nat
      BY DEF CacheTypeOK
    <3>2. getter'[o] = getter[o] /\ Opened(getter[o]) /\ getter[o] \in Gets
      BY <1>1, <2>2 DEF CacheTypeOK
    <3>3. QED
      BY <3>1, <3>2 DEF Opened, Gets
  <2>3. QED
    BY <2>1, <2>2
<1>3. CacheTypeOK'
  BY <1>2 DEF CacheTypeOK
<1>4. ASSUME NEW d \in undisturbed \cap Getters
      PROVE  /\ getter'[d].at # "idle" => \A o \in Getters : o # d => getter'[o].at = "idle"
             /\ Undisturbed(getter[d], held[d], d \in edited)'
  <2>1. CASE d = g
    <3>1. Undisturbed(x, held[g], g \in edited)'
      BY <2>1
    <3>2. Undisturbed(getter[d], held[d], d \in edited)'
      BY <1>1, <2>1, <3>1 DEF Undisturbed
    <3>3. QED
      BY <1>1, <2>1, <3>2
  <2>2. CASE d # g
    <3>1. getter[d].at = "idle" /\ getter'[d].at = "idle"
      BY <1>1, <2>2
    <3>2. QED
      BY <3>1 DEF Undisturbed
  <2>3. QED
    BY <2>1, <2>2
<1>5. QED
  BY <1>3, <1>4

LEMMA StageTyped ==
    ASSUME NEW at \in GetStages
    PROVE  /\ [NoGet EXCEPT !.at = at] \in Gets
           /\ [NoGet EXCEPT !.at = at].at = at
           /\ NoGet \in Gets /\ NoGet.at = "idle"
  BY EmptyContent DEF Gets, NoGet, GetStages, Gone

\* An end of a Get, and a step to a stage of which nothing but the source is known.
LEMMA PlainGets ==
    ASSUME CacheInvariant, NEW g \in Getters, getter[g].at # "idle",
           GetEnds(g) \/ GetAt(g, "open") \/ GetAt(g, "hash"),
           UNCHANGED <<data, source, edits, held, edited, undisturbed, copies, copy>>
    PROVE  CacheInvariant'
<1>1. PICK y \in Gets : getter' = [getter EXCEPT ![g] = y] /\ y.at \in {"idle", "open", "hash"}
  BY StageTyped DEF GetEnds, GetAt, GetStages
<1>2. g \in undisturbed => AtSource \subseteq held[g]
  BY DEF CacheInvariant, Undisturbed
<1>3. Opened(y)' /\ (g \in undisturbed => Undisturbed(y, held[g], g \in edited)')
  BY <1>1, <1>2 DEF Opened, Undisturbed, AtSource
<1>4. /\ copies' \in Seq(Contents) /\ copy' \in 0..Len(copies') /\ Len(copies') >= Len(copies)
      /\ UNCHANGED <<data, source, edits, held, edited, undisturbed>>
  BY DEF CacheInvariant, CacheTypeOK
<1>5. QED
  BY <1>1, <1>3, <1>4, GettersStep

LEMMA GetsTyped ==
    ASSUME NEW x \in Gets, NEW at \in GetStages, NEW n \in Nat, NEW m \in Nat, NEW r \in Contents
    PROVE  /\ [x EXCEPT !.at = at] \in Gets
           /\ [x EXCEPT !.read = r] \in Gets
           /\ [at |-> at, in |-> n, out |-> m, read |-> r] \in Gets
<1>1. [x EXCEPT !.at = at] \in Gets
  BY DEF Gets
<1>2. [x EXCEPT !.read = r] \in Gets
  BY DEF Gets
<1>3. [at |-> at, in |-> n, out |-> m, read |-> r] \in Gets
  BY DEF Gets
<1>4. QED
  BY <1>1, <1>2, <1>3

LEMMA HashSteps ==
    ASSUME CacheInvariant, NEW g \in Getters,
           HashTheSource(g) \/ HashPiece(g) \/ CompareCopy(g) \/ AnswerGet(g)
    PROVE  CacheInvariant'
<1> DEFINE same == UNCHANGED <<data, source, edits, held, edited, undisturbed, copies, copy>>
<1>1. /\ getter[g] \in Gets /\ Opened(getter[g])
      /\ data \in Seq(Contents) /\ source \in 0..Len(data) /\ Len(data) \in Nat
      /\ copies \in Seq(Contents) /\ copy \in 0..Len(copies) /\ Len(copies) \in Nat
      /\ getter \in [Getters -> Gets] /\ held[g] \subseteq Contents
      /\ g \in undisturbed => Undisturbed(getter[g], held[g], g \in edited)
  BY DEF CacheInvariant, CacheTypeOK
<1>2. /\ getter[g].read \in Contents /\ getter[g].in \in Nat
      /\ {"hashing", "compare", "answer"} \subseteq GetStages
  BY <1>1 DEF Gets, GetStages
\* What is left to show of a step to x that leaves the files alone.
<1>3. ASSUME NEW x \in Gets, getter[g].at # "idle", getter' = [getter EXCEPT ![g] = x], same,
             Opened(x), g \in undisturbed => Undisturbed(x, held[g], g \in edited)
      PROVE  CacheInvariant'
  <2>1. Opened(x)'
    BY <1>3 DEF Opened
  <2>2. g \in undisturbed => Undisturbed(x, held[g], g \in edited)'
    BY <1>3 DEF Undisturbed, AtSource
  <2>3. Len(copies') >= Len(copies)
    BY <1>1, <1>3
  <2>4. QED
    BY <1>1, <1>3, <2>1, <2>2, <2>3, GettersStep
<1>4. CASE HashTheSource(g)
  <2>1. getter[g].at = "hash" /\ same
    BY <1>4 DEF HashTheSource
  <2>2. CASE GetEnds(g)
    BY <2>1, <2>2, PlainGets
  <2>3. CASE /\ source # Gone
             /\ GetOpens(g, "hashing", source, Gone)
    <3>1. PICK y \in Gets : y = [at |-> "hashing", in |-> source, out |-> Gone, read |-> << >>]
      <4>1. source \in Nat /\ "hashing" \in GetStages
        BY <1>1, <1>2
      <4>2. [at |-> "hashing", in |-> source, out |-> Gone, read |-> << >>] \in Gets
        BY <4>1, EmptyContent DEF Gets, Gone
      <4>3. QED
        BY <4>2, Zenon
    <3>2. y.at = "hashing" /\ y.in = source /\ y.read = << >>
      BY <3>1
    <3>3. source \in 1..Len(data) /\ data[source] \in Contents /\ AtSource = {data[source]}
      BY <1>1, <2>3 DEF Gone, AtSource
    <3>4. Opened(y)
      BY <3>2, <3>3 DEF Opened
    <3>5. g \in undisturbed => Undisturbed(y, held[g], g \in edited)
      BY <1>1, <2>1, <3>2, <3>3, EmptyContent DEF Undisturbed
    <3>6. QED
      BY <1>3, <2>1, <2>3, <3>1, <3>4, <3>5 DEF GetOpens
  <2>4. QED
    BY <1>4, <2>2, <2>3 DEF HashTheSource
<1>5. CASE HashPiece(g)
  <2> DEFINE r == getter[g].read
             c == data[getter[g].in]
  <2>1. getter[g].at = "hashing" /\ same
    BY <1>5 DEF HashPiece
  <2>2. c \in Contents /\ (g \in undisturbed => c \in held[g] /\ FoundIn(r, held[g])
                                                /\ (g \in edited \/ StartOf(r, c)))
    BY <1>1, <2>1 DEF Opened, Undisturbed
  <2>3. CASE GetEnds(g)
    BY <2>1, <2>3, PlainGets
  <2>4. CASE AtEnd(g) /\ getter' = [getter EXCEPT ![g].at = "compare"]
    <3>1. PICK y \in Gets : y = [getter[g] EXCEPT !.at = "compare"]
      <4>1. [getter[g] EXCEPT !.at = "compare"] \in Gets
        BY <1>1, <1>2, GetsTyped
      <4>2. QED
        BY <4>1, Zenon
    <3>2. y.at = "compare" /\ y.read = r
      BY <1>1, <3>1 DEF Gets
    <3>3. getter' = [getter EXCEPT ![g] = y]
      BY <1>1, <2>4, <3>1
    <3>4. Opened(y)
      BY <3>2 DEF Opened
    <3>5. StartOf(r, c) => r = c
      BY <1>2, <2>2, <2>4, ReadToEnd DEF AtEnd
    <3>6. g \in undisturbed => Undisturbed(y, held[g], g \in edited)
      BY <1>1, <2>1, <2>2, <3>2, <3>5 DEF Undisturbed
    <3>7. QED
      BY <1>3, <2>1, <3>3, <3>4, <3>6
  <2>5. CASE ~AtEnd(g) /\ GetReads(g, NextPiece(g))
    <3>1. Len(r) < Len(c) /\ NextPiece(g) = c[Len(r) + 1]
      BY <1>2, <2>2, <2>5 DEF AtEnd, NextPiece, Contents
    <3>2. Append(r, NextPiece(g)) \in Contents
      BY <1>2, <2>2, <3>1, ReadOn
    <3>3. PICK y \in Gets : y = [getter[g] EXCEPT !.read = Append(r, NextPiece(g))]
      <4>1. [getter[g] EXCEPT !.read = Append(r, NextPiece(g))] \in Gets
        BY <1>1, <1>2, <3>2, GetsTyped
      <4>2. QED
        BY <4>1, Zenon
    <3>4. /\ y.at = "hashing" /\ y.in = getter[g].in /\ y.read = Append(r, NextPiece(g))
          /\ y.out = getter[g].out
      BY <1>1, <2>1, <3>3 DEF Gets
    <3>5. getter' = [getter EXCEPT ![g] = y]
      BY <1>1, <2>5, <3>3 DEF GetReads
    <3>6. Opened(y)
      BY <1>1, <2>1, <3>4 DEF Opened
    <3>7. g \in undisturbed => /\ FoundIn(Append(r, NextPiece(g)), held[g])
                               /\ StartOf(r, c) => StartOf(Append(r, NextPiece(g)), c)
      BY <1>2, <2>2, <3>1, PieceRead
    <3>8. g \in undisturbed => Undisturbed(y, held[g], g \in edited)
      BY <1>1, <2>1, <2>2, <3>4, <3>7 DEF Undisturbed
    <3>9. QED
      BY <1>3, <2>1, <3>5, <3>6, <3>8
  <2>6. QED
    BY <1>5, <2>3, <2>4, <2>5 DEF HashPiece
<1>6. CASE CompareCopy(g)
  <2>1. getter[g].at = "compare" /\ same
    BY <1>6 DEF CompareCopy
  <2>2. CASE GetAt(g, "open")
    BY <2>1, <2>2, PlainGets
  <2>3. CASE copy # Gone /\ copies[copy] = getter[g].read /\ GetAt(g, "answer")
    <3>1. PICK y \in Gets : y = [NoGet EXCEPT !.at = "answer"] /\ y.at = "answer"
      BY <1>2, StageTyped
    <3>2. getter' = [getter EXCEPT ![g] = y]
      BY <2>3, <3>1 DEF GetAt
    <3>3. Opened(y)
      BY <3>1 DEF Opened
    <3>4. g \in undisturbed => Undisturbed(y, held[g], g \in edited)
      BY <1>1, <2>1, <2>3, <3>1 DEF Undisturbed
    <3>5. QED
      BY <1>3, <2>1, <3>2, <3>3, <3>4
  <2>4. QED
    BY <1>6, <2>2, <2>3 DEF CompareCopy
<1>7. CASE AnswerGet(g)
  BY <1>7, PlainGets DEF AnswerGet
<1>8. QED
  BY <1>4, <1>5, <1>6, <1>7

LEMMA CreateCopyStep ==
    ASSUME CacheInvariant, NEW g \in Getters, CreateCopy(g)
    PROVE  CacheInvariant'
<1>1. /\ data \in Seq(Contents) /\ source \in 0..Len(data) /\ Len(data) \in Nat
      /\ copies \in Seq(Contents) /\ copy \in 0..Len(copies) /\ Len(copies) \in Nat
      /\ g \in undisturbed => Undisturbed(getter[g], held[g], g \in edited)
  BY DEF CacheInvariant, CacheTypeOK
<1>2. getter[g].at = "open" /\ UNCHANGED <<data, source, edits, held, edited, undisturbed>>
  BY DEF CreateCopy
<1>3. CASE GetEnds(g) /\ UNCHANGED <<copies, copy>>
  BY <1>2, <1>3, PlainGets
<1>4. CASE /\ source # Gone
           /\ IF copy = Gone
              THEN copies' = Append(copies, << >>) /\ copy' = Len(copies) + 1
              ELSE copies' = [copies EXCEPT ![copy] = << >>] /\ UNCHANGED copy
           /\ GetOpens(g, "copy", source, copy')
  <2>1. /\ copies' \in Seq(Contents) /\ Len(copies') \in Nat /\ Len(copies') >= Len(copies)
        /\ copy' \in 1..Len(copies') /\ copies'[copy'] = << >>
    <3>1. CASE copy = Gone
      <4>1. copies' = Append(copies, << >>) /\ copy' = Len(copies) + 1
        BY <1>4, <3>1
      <4>2. /\ Append(copies, << >>) \in Seq(Contents)
            /\ Len(Append(copies, << >>)) = Len(copies) + 1
            /\ Append(copies, << >>)[Len(copies) + 1] = << >>
        BY <1>1, EmptyContent, AppendProperties
      <4>3. QED
        BY <1>1, <4>1, <4>2
    <3>2. CASE copy # Gone
      BY <1>1, <1>4, <3>2, EmptyContent DEF Gone
    <3>3. QED
      BY <3>1, <3>2
  <2>2. source \in 1..Len(data) /\ data[source] \in Contents /\ AtSource = {data[source]}
        /\ AtSource' = AtSource
    BY <1>1, <1>2, <1>4 DEF Gone, AtSource
  <2>3. PICK y \in Gets : y = [at |-> "copy", in |-> source, out |-> copy', read |-> << >>]
    <3>1. copy' \in Nat /\ source \in Nat /\ "copy" \in GetStages
      BY <1>1, <2>1 DEF GetStages
    <3>2. [at |-> "copy", in |-> source, out |-> copy', read |-> << >>] \in Gets
      BY <3>1, EmptyContent DEF Gets
    <3>3. QED
      BY <3>2, Zenon
  <2>4. y.at = "copy" /\ y.in = source /\ y.out = copy' /\ y.read = << >>
    BY <2>3
  <2>5. Opened(y)'
    BY <1>2, <2>1, <2>2, <2>4 DEF Opened
  <2>6. g \in undisturbed => Undisturbed(y, held[g], g \in edited)'
    BY <1>1, <1>2, <2>1, <2>2, <2>4, EmptyContent DEF Undisturbed
  <2>7. copy' \in 0..Len(copies') /\ getter' = [getter EXCEPT ![g] = y] /\ getter[g].at # "idle"
    BY <1>2, <1>4, <2>1, <2>3 DEF GetOpens
  <2>8. QED
    BY <1>2, <2>1, <2>3, <2>5, <2>6, <2>7, GettersStep
<1>5. QED
  BY <1>3, <1>4 DEF CreateCopy

LEMMA CopyPieceStep ==
    ASSUME CacheInvariant, NEW g \in Getters, CopyPiece(g)
    PROVE  CacheInvariant'
<1> DEFINE r == getter[g].read
           c == data[getter[g].in]
           o == getter[g].out
<1>1. /\ getter[g] \in Gets /\ Opened(getter[g])
      /\ data \in Seq(Contents) /\ source \in 0..Len(data) /\ Len(data) \in Nat
      /\ copies \in Seq(Contents) /\ copy \in 0..Len(copies) /\ Len(copies) \in Nat
      /\ getter \in [Getters -> Gets]
      /\ g \in undisturbed => Undisturbed(getter[g], held[g], g \in edited)
  BY DEF CacheInvariant, CacheTypeOK
<1>2. getter[g].at = "copy" /\ UNCHANGED <<data, source, copy, edits, held, edited, undisturbed>>
  BY DEF CopyPiece
<1>3. /\ r \in Contents /\ c \in Contents /\ o \in 1..Len(copies)
      /\ g \in undisturbed => /\ c \in held[g] /\ FoundIn(r, held[g]) /\ o = copy
                              /\ copies[copy] = r /\ (g \in edited \/ StartOf(r, c))
                              /\ AtSource \subseteq held[g]
  BY <1>1, <1>2 DEF Gets, Opened, Undisturbed
<1>4. CASE GetEnds(g) /\ UNCHANGED copies
  BY <1>2, <1>4, PlainGets
<1>5. CASE AtEnd(g) /\ GetAt(g, "answer") /\ UNCHANGED copies
  <2>1. PICK y \in Gets : y = [NoGet EXCEPT !.at = "answer"] /\ y.at = "answer"
    BY StageTyped DEF GetStages
  <2>2. getter' = [getter EXCEPT ![g] = y]
    BY <1>5, <2>1 DEF GetAt
  <2>3. Opened(y)'
    BY <2>1 DEF Opened
  <2>4. StartOf(r, c) => r = c
    BY <1>3, <1>5, ReadToEnd DEF AtEnd
  <2>5. g \in undisturbed => Undisturbed(y, held[g], g \in edited)'
    <3> SUFFICES ASSUME g \in undisturbed PROVE Undisturbed(y, held[g], g \in edited)'
      OBVIOUS
    <3>1. copy # Gone /\ FoundIn(copies[copy], held[g]) /\ (g \in edited \/ copies[copy] \in held[g])
      BY <1>1, <1>3, <2>4 DEF Gone
    <3>2. QED
      BY <1>2, <1>3, <1>5, <2>1, <3>1 DEF Undisturbed, AtSource
  <2>6. /\ copies' \in Seq(Contents) /\ copy' \in 0..Len(copies') /\ Len(copies') >= Len(copies)
        /\ getter[g].at # "idle"
    BY <1>1, <1>2, <1>5
  <2>7. QED
    BY <1>2, <2>1, <2>2, <2>3, <2>5, <2>6, GettersStep
<1>6. CASE /\ ~AtEnd(g)
           /\ GetReads(g, NextPiece(g))
           /\ copies' = [copies EXCEPT ![o] = WriteAt(@, Len(r) + 1, NextPiece(g))]
  <2>1. Len(r) < Len(c) /\ NextPiece(g) = c[Len(r) + 1] /\ Len(r) \in Nat
    <3>1. Len(r) \in Nat /\ Len(c) \in Nat
      BY <1>3 DEF Contents
    <3>2. QED
      BY <1>6, <3>1 DEF AtEnd, NextPiece
  <2>2. NextPiece(g) \in Nat /\ Append(r, NextPiece(g)) \in Contents
    BY <1>3, <2>1, ReadOn
  <2>3. PICK p \in Nat : p = NextPiece(g)
    BY <2>2
  <2>4. WriteAt(copies[o], Len(r) + 1, p) \in Contents
    <3>1. copies[o] \in Contents
      BY <1>1, <1>3
    <3>2. Len(r) + 1 \in Nat \ {0}
      BY <2>1
    <3>3. QED
      BY <3>1, <3>2, WriteTyped
  <2>5. /\ copies' \in Seq(Contents) /\ Len(copies') = Len(copies)
        /\ copies'[o] = WriteAt(copies[o], Len(r) + 1, p)
    BY <1>1, <1>3, <1>6, <2>3, <2>4
  <2>6. PICK y \in Gets : y = [getter[g] EXCEPT !.read = Append(r, p)]
    <3>1. [getter[g] EXCEPT !.read = Append(r, p)] \in Gets
      BY <1>1, <2>2, <2>3 DEF Gets
    <3>2. QED
      BY <3>1, Zenon
  <2>7. y.at = "copy" /\ y.in = getter[g].in /\ y.out = o /\ y.read = Append(r, p)
    BY <1>1, <1>2, <2>6 DEF Gets
  <2>8. getter' = [getter EXCEPT ![g] = y]
    BY <1>1, <1>6, <2>3, <2>6 DEF GetReads
  <2>9. Opened(y)'
    BY <1>1, <1>2, <2>5, <2>7 DEF Opened
  <2>10. g \in undisturbed => Undisturbed(y, held[g], g \in edited)'
    <3> SUFFICES ASSUME g \in undisturbed PROVE Undisturbed(y, held[g], g \in edited)'
      OBVIOUS
    <3>1. /\ FoundIn(Append(r, p), held[g])
          /\ StartOf(r, c) => StartOf(Append(r, p), c)
      BY <1>3, <2>1, <2>3, PieceRead
    <3>2. copies'[copy] = Append(r, p)
      BY <1>3, <2>3, <2>5, WriteAtEnd
    <3>3. data' = data /\ copy' = copy /\ held' = held /\ edited' = edited /\ AtSource' = AtSource
      BY <1>2 DEF AtSource
    <3>4. QED
      BY <1>3, <2>7, <3>1, <3>2, <3>3 DEF Undisturbed
  <2>11. copy' \in 0..Len(copies') /\ Len(copies') >= Len(copies) /\ getter[g].at # "idle"
    BY <1>1, <1>2, <2>5
  <2>12. QED
    BY <1>2, <2>5, <2>6, <2>8, <2>9, <2>10, <2>11, GettersStep
<1>7. QED
  BY <1>4, <1>5, <1>6 DEF CopyPiece

LEMMA BeginGetStep ==
    ASSUME CacheInvariant, NEW g \in Getters, BeginGet(g)
    PROVE  CacheInvariant'
<1>1. /\ getter[g].at = "idle" /\ held' = [held EXCEPT ![g] = AtSource]
      /\ undisturbed' = (IF Busy = {} THEN {g} ELSE {})
      /\ UNCHANGED <<data, source, copies, copy, edits>>
  BY DEF BeginGet
<1>2. PICK y \in Gets : getter' = [getter EXCEPT ![g] = y] /\ y.at \in {"open", "hash"}
  <2>1. {"open", "hash"} \subseteq GetStages
    BY DEF GetStages
  <2>2. QED
    BY <2>1, StageTyped DEF BeginGet, GetAt
<1>3. AtSource \subseteq Contents /\ AtSource' = AtSource
  BY <1>1 DEF CacheInvariant, CacheTypeOK, AtSource, Gone
<1>4. /\ getter'[g] = y /\ held'[g] = AtSource
      /\ \A o \in Getters : o # g => getter'[o] = getter[o]
  BY <1>1, <1>2 DEF CacheInvariant, CacheTypeOK
<1>5. \A o \in Getters : Opened(getter[o])'
  BY <1>1, <1>2, <1>4 DEF CacheInvariant, CacheTypeOK, Opened
<1>6. CacheTypeOK'
  BY <1>1, <1>2, <1>3, <1>5 DEF CacheInvariant, CacheTypeOK
<1>7. ASSUME NEW d \in undisturbed' \cap Getters
      PROVE  /\ getter'[d].at # "idle" => \A o \in Getters : o # d => getter'[o].at = "idle"
             /\ Undisturbed(getter[d], held[d], d \in edited)'
  <2>1. Busy = {} /\ d = g
    BY <1>1, <1>7
  <2>2. \A o \in Getters : o # d => getter'[o].at = "idle"
    BY <1>4, <2>1 DEF Busy
  <2>3. Undisturbed(getter[d], held[d], d \in edited)'
    BY <1>2, <1>3, <1>4, <2>1 DEF Undisturbed
  <2>4. QED
    BY <2>2, <2>3
<1>8. QED
  BY <1>6, <1>7 DEF CacheInvariant

\* A Get sees more, and what it has open is as it was or was edited in place.
LEMMA EditStep ==
    ASSUME CacheInvariant, EditSource
    PROVE  CacheInvariant'
<1>1. /\ edits \in Nat /\ edits > 0 /\ edits' = edits - 1 /\ edits' \in Nat
      /\ held' = [g \in Getters |-> held[g] \cup AtSource']
      /\ UNCHANGED <<copies, copy, getter, undisturbed>>
  BY DEF EditSource, CacheInvariant, CacheTypeOK
<1>2. /\ data \in Seq(Contents) /\ source \in 0..Len(data) /\ Len(data) \in Nat
      /\ \A g \in Getters : getter[g] \in Gets /\ Opened(getter[g])
      /\ held \in [Getters -> SUBSET Contents]
  BY DEF CacheInvariant, CacheTypeOK
\* The files that were there stay, with the content they had unless it is seen now.
<1> DEFINE edit ==
        /\ data' \in Seq(Contents) /\ source' \in 0..Len(data') /\ Len(data') \in Nat
        /\ Len(data') >= Len(data) /\ edited \subseteq edited'
        /\ \A i \in 1..Len(data) : \/ data'[i] = data[i]
                                   \/ data'[i] \in AtSource' /\ Busy \subseteq edited'
<1>3. edit
  <2>1. CASE source' = Gone /\ UNCHANGED <<data, edited>>
    BY <1>2, <2>1 DEF Gone
  <2>2. ASSUME NEW k \in 0..MaxPieces, data' = Append(data, Written(edits + 1, k)),
               source' = Len(data) + 1, UNCHANGED edited
        PROVE  edit
    <3>1. Written(edits + 1, k) \in Contents
      BY <1>1, CacheAssumption, WrittenTyped
    <3>2. QED
      BY <1>2, <2>2, <3>1
  <2>3. ASSUME source # Gone, NEW k \in 0..MaxPieces, edited' = edited \cup Busy, UNCHANGED source,
               data' = [data EXCEPT ![source] = Written(edits + 1, k)]
        PROVE  edit
    <3>1. Written(edits + 1, k) \in Contents
      BY <1>1, CacheAssumption, WrittenTyped
    <3>2. source \in 1..Len(data)
      BY <1>2, <2>3 DEF Gone
    <3>3. AtSource' = {data'[source]}
      BY <2>3 DEF AtSource
    <3>4. QED
      BY <1>2, <2>3, <3>1, <3>2, <3>3
  <2>4. QED
    BY <2>1, <2>2, <2>3 DEF EditSource
<1>4. AtSource' \subseteq Contents
  BY <1>3 DEF AtSource, Gone
<1>5. \A g \in Getters : Opened(getter[g])'
  BY <1>1, <1>2, <1>3 DEF Opened
<1>6. CacheTypeOK'
  BY <1>1, <1>2, <1>3, <1>4, <1>5 DEF CacheInvariant, CacheTypeOK
<1>7. \A g \in Getters : held'[g] = held[g] \cup AtSource'
  BY <1>1
<1>8. ASSUME NEW g \in undisturbed \cap Getters
      PROVE  Undisturbed(getter[g], held[g], g \in edited)'
  <2> DEFINE x == getter[g]
  <2>1. /\ Undisturbed(x, held[g], g \in edited) /\ x \in Gets /\ Opened(x)
        /\ getter'[g] = x /\ copies' = copies /\ copy' = copy
    BY <1>1, <1>2 DEF CacheInvariant
  <2>2. held[g] \subseteq held'[g] /\ AtSource' \subseteq held'[g]
    BY <1>7
  <2>3. x.at \in {"hashing", "copy"} =>
            data'[x.in] \in held'[g] /\ (g \notin edited' => StartOf(x.read, data'[x.in]))
    BY <1>3, <2>1, <2>2 DEF Undisturbed, Opened, Busy
  <2>4. x.at \in {"hashing", "compare", "copy"} => FoundIn(x.read, held'[g])
    BY <2>1, <2>2 DEF Undisturbed, FoundIn
  <2>5. x.at = "answer" => FoundIn(copies[copy], held'[g])
    BY <2>1, <2>2 DEF Undisturbed, FoundIn
  <2>6. x.at = "compare" => g \in edited' \/ x.read \in held'[g]
    BY <1>3, <2>1, <2>2 DEF Undisturbed
  <2>7. x.at = "answer" => g \in edited' \/ copies[copy] \in held'[g]
    BY <1>3, <2>1, <2>2 DEF Undisturbed
  <2> HIDE DEF x
  <2>8. Undisturbed(x, held[g], g \in edited)'
    BY <2>1, <2>2, <2>3, <2>4, <2>5, <2>6, <2>7 DEF Undisturbed, x
  <2>9. QED
    BY <2>8 DEF x
<1>9. QED
  BY <1>1, <1>6, <1>8 DEF CacheInvariant

LEMMA CacheStep == CacheInvariant /\ [CacheNext]_cacheVars => CacheInvariant'
<1> SUFFICES ASSUME CacheInvariant, [CacheNext]_cacheVars PROVE CacheInvariant'
  OBVIOUS
<1>1. CASE Invalidate
  <2>1. /\ copy' = Gone /\ undisturbed' = {}
        /\ UNCHANGED <<data, source, copies, getter, edits, held, edited>>
    BY <1>1 DEF Invalidate
  <2>2. Len(copies) \in Nat /\ copy' \in 0..Len(copies')
    BY <2>1 DEF CacheInvariant, CacheTypeOK, Gone
  <2>3. QED
    BY <2>1, <2>2 DEF CacheInvariant, CacheTypeOK, Opened
<1>2. CASE UNCHANGED cacheVars
  BY <1>2 DEF cacheVars, CacheInvariant, CacheTypeOK, Opened, Undisturbed, AtSource
<1>3. QED
  BY <1>1, <1>2, HashSteps, CreateCopyStep, CopyPieceStep, BeginGetStep, EditStep DEF CacheNext

LEMMA DisturbedAreGetters == CacheSpec => [](undisturbed \subseteq Getters)
<1>1. CacheInit => undisturbed \subseteq Getters
  BY DEF CacheInit
<1>2. undisturbed \subseteq Getters /\ [CacheNext]_cacheVars => (undisturbed \subseteq Getters)'
  BY DEF CacheNext, cacheVars, BeginGet, HashTheSource, HashPiece, CompareCopy, CreateCopy,
         CopyPiece, AnswerGet, Invalidate, EditSource
<1>3. QED
  BY <1>1, <1>2, PTL DEF CacheSpec

\* Whatever an earlier copy was cut short by and however the source changes, piece by
\* piece: a Get that no other and no Invalidate met answers with a copy of what the
\* source held during it, or of pieces of that if it was edited in place meanwhile
\* (cache.go:33-54, cache.go:89-98).
THEOREM CachedCopiesStayOfTheSource == CacheSpec => []CachedCopyIsOfTheSource
<1>1. CacheSpec => []CacheInvariant
  BY InitCache, CacheStep, PTL DEF CacheSpec
<1>2. CacheInvariant /\ undisturbed \subseteq Getters => CachedCopyIsOfTheSource
  BY DEF CacheInvariant, Undisturbed, CachedCopyIsOfTheSource
<1>3. QED
  BY <1>1, <1>2, DisturbedAreGetters, PTL

-----------------------------------------------------------------------------
(* ClientConfig: while no connect is overtaken, one is at work, what it    *)
(* read is still there, and the file it writes is not the one in place.    *)

Entries == Projects \cup {"any", "none"}
SettingsFiles ==
    [no : Nat, is : {"json", "cut", "typo", "gone"}, rest : Nat, servers : [Keys -> Entries]]
ConnectRecords ==
    [at : {"idle", "truncate", "write", "rename"}, no : Nat, fd : Nat, key : Keys,
     entry : Entries, content : SettingsFiles]

ClientTypeOK ==
    /\ settings \in SettingsFiles /\ settingsTmp \in SettingsFiles
    /\ connect \in [Connects -> ConnectRecords]
    /\ written \in Nat /\ commands \in Nat
    /\ connected \in [Keys -> Entries]
    /\ overtaken \in BOOLEAN

\* The settings with what connect x adds to them.
IsResult(f, x) ==
    f.is = "json" /\ f.rest = written /\ f.servers = [connected EXCEPT ![x.key] = x.entry]

\* No file has the number of a command to come.
NumbersAreFresh ==
    /\ settings.no = 0 \/ settings.no > commands
    /\ settingsTmp = NotThere \/ (settingsTmp.no > commands /\ settingsTmp.no # settings.no)

\* What a connect x is about, at its stage.
ConnectIsSound(x) ==
    /\ x.at # "idle" => IsResult(x.content, x)
    /\ x.at = "truncate" => x.no > commands /\ x.no # settings.no
    /\ x.at = "write" => settingsTmp # NotThere /\ x.fd = settingsTmp.no
    /\ x.at = "rename" => settingsTmp # NotThere /\ IsResult(settingsTmp, x)

ClientInvariant ==
    /\ ClientTypeOK
    /\ ~overtaken =>
           /\ settings.is # "cut" /\ settings.rest = written /\ settings.servers = connected
           /\ NumbersAreFresh
           /\ \A c, d \in Connects : connect[c].at # "idle" /\ connect[d].at # "idle" => c = d
           /\ \A c \in Connects : ConnectIsSound(connect[c])

LEMMA FilesTyped ==
    /\ <<"foldermcp">> \in Keys
    /\ \A p \in Projects : <<"foldermcp", BaseName[p]>> \in Keys
    /\ NoServers \in [Keys -> Entries]
    /\ NotThere \in SettingsFiles /\ NotThere.is = "gone" /\ NotThere.rest = 0
    /\ NotThere.servers = NoServers /\ NotThere.no = 0
    /\ Unreadable(0, "typo") \in SettingsFiles
    /\ NotRunning \in ConnectRecords /\ NotRunning.at = "idle"
<1>1. <<"foldermcp">> \in Keys /\ \A p \in Projects : <<"foldermcp", BaseName[p]>> \in Keys
  BY DEF Keys
<1>2. NoServers \in [Keys -> Entries]
  BY DEF NoServers, Entries
<1> HIDE DEF NoServers
<1>3. /\ NotThere \in SettingsFiles /\ NotThere.is = "gone" /\ NotThere.rest = 0
      /\ NotThere.servers = NoServers /\ NotThere.no = 0
      /\ Unreadable(0, "typo") \in SettingsFiles
  BY <1>2 DEF NotThere, Unreadable, SettingsFiles
<1>4. NotRunning.at = "idle" /\ NotRunning \in ConnectRecords
  BY <1>1, <1>3 DEF NotRunning, ConnectRecords, Entries
<1>5. QED
  BY <1>1, <1>2, <1>3, <1>4

LEMMA InitClient == ClientInit => ClientInvariant
<1> SUFFICES ASSUME ClientInit PROVE ClientInvariant
  OBVIOUS
<1>1. /\ settings \in SettingsFiles /\ settings.is \in {"gone", "typo"} /\ settings.no = 0
      /\ settings.rest = 0 /\ settings.servers = NoServers
  BY FilesTyped DEF ClientInit, Unreadable, NotThere
<1>2. ClientTypeOK
  BY <1>1, FilesTyped, ClientAssumption DEF ClientInit, ClientTypeOK
<1>3. \A c \in Connects : connect[c].at = "idle"
  BY FilesTyped DEF ClientInit
<1>4. NumbersAreFresh
  BY <1>1 DEF ClientInit, NumbersAreFresh
<1>5. \A c \in Connects : ConnectIsSound(connect[c])
  BY <1>3 DEF ConnectIsSound
<1>6. QED
  BY <1>1, <1>2, <1>3, <1>4, <1>5 DEF ClientInit, ClientInvariant

LEMMA ConnectStep ==
    ASSUME ClientInvariant, NEW c \in Connects, NEW key \in Keys, NEW entry \in Entries,
           Connect(c, key, entry)
    PROVE  ClientInvariant'
<1>1. /\ ClientTypeOK /\ commands \in Nat /\ settings \in SettingsFiles
      /\ commands > 0 /\ commands' = commands - 1
      /\ overtaken' = (overtaken \/ \E o \in Connects : connect[o].at # "idle")
      /\ UNCHANGED <<settings, settingsTmp, written, connected>>
  BY DEF ClientInvariant, ClientTypeOK, Connect
<1> DEFINE servers == [settings.servers EXCEPT ![key] = entry]
           content == Object(0, settings.rest, servers)
           x == [at |-> "truncate", no |-> commands, fd |-> 0, key |-> key, entry |-> entry,
                 content |-> content]
<1>2. servers \in [Keys -> Entries]
  BY <1>1 DEF SettingsFiles
<1>3. ~overtaken => servers = [connected EXCEPT ![key] = entry]
  BY DEF ClientInvariant
<1> HIDE DEF servers
<1>4. /\ content \in SettingsFiles /\ content.is = "json" /\ content.rest = settings.rest
      /\ content.servers = servers
  BY <1>1, <1>2 DEF Object, SettingsFiles
<1> HIDE DEF content
<1>5. x \in ConnectRecords /\ x.at = "truncate" /\ x.no = commands /\ x.content = content
      /\ x.key = key /\ x.entry = entry
  BY <1>1, <1>4 DEF ConnectRecords
<1>6. connect' = connect \/ connect' = [connect EXCEPT ![c] = x]
  BY DEF Connect, content, servers
<1> HIDE DEF x
<1>7. connect' \in [Connects -> ConnectRecords]
  BY <1>1, <1>5, <1>6 DEF ClientTypeOK
<1>8. overtaken' \in BOOLEAN /\ commands' \in Nat
  BY <1>1
<1>9. ClientTypeOK'
  BY <1>1, <1>7, <1>8 DEF ClientTypeOK
<1>10. ASSUME ~overtaken'
       PROVE  /\ (settings.is # "cut" /\ settings.rest = written /\ settings.servers = connected)'
              /\ NumbersAreFresh'
              /\ \A d, e \in Connects : connect'[d].at # "idle" /\ connect'[e].at # "idle" => d = e
              /\ \A d \in Connects : ConnectIsSound(connect[d])'
  <2>1. ~overtaken /\ \A d \in Connects : connect[d].at = "idle"
    BY <1>1, <1>10
  <2>2. \A d \in Connects : connect'[d].at # "idle" => d = c /\ connect'[d] = x
    BY <1>1, <1>6, <2>1 DEF ClientTypeOK
  <2>3. NumbersAreFresh'
    <3>1. NotThere' = NotThere
      BY DEF NotThere, Unreadable, NoServers, Keys
    <3>2. NumbersAreFresh /\ settings.no \in Nat /\ settingsTmp.no \in Nat
      BY <1>1, <2>1 DEF ClientInvariant, ClientTypeOK, SettingsFiles
    <3>3. QED
      BY <1>1, <3>1, <3>2 DEF NumbersAreFresh
  <2>4. IsResult(content, x)
    BY <1>3, <1>4, <1>5, <2>1 DEF IsResult, ClientInvariant
  <2>5. settings.no = 0 \/ settings.no > commands
    BY <2>1 DEF ClientInvariant, NumbersAreFresh
  <2>6. x.no > commands' /\ x.no # settings.no
    BY <1>1, <1>5, <2>5 DEF SettingsFiles
  <2>7. \A d \in Connects : connect'[d] = x => ConnectIsSound(connect[d])'
    BY <1>1, <1>5, <2>4, <2>6 DEF ConnectIsSound, IsResult
  <2>8. \A d \in Connects : ConnectIsSound(connect[d])'
    BY <2>2, <2>7 DEF ConnectIsSound
  <2>9. QED
    BY <1>1, <2>1, <2>2, <2>3, <2>8 DEF ClientInvariant
<1>11. QED
  BY <1>9, <1>10 DEF ClientInvariant

\* What is at work, and what is not, beside connect c.
LEMMA OneConnects ==
    ASSUME ClientInvariant, ~overtaken, NEW c \in Connects, connect[c].at # "idle"
    PROVE  /\ \A d \in Connects : d # c => connect[d].at = "idle"
           /\ ConnectIsSound(connect[c]) /\ NumbersAreFresh
           /\ settings.is # "cut" /\ settings.rest = written /\ settings.servers = connected
  BY DEF ClientInvariant

\* A step of connect c to stage x that leaves the numbers and the settings sound.
LEMMA ConnectsStep ==
    ASSUME ClientInvariant, NEW c \in Connects, NEW x \in ConnectRecords,
           connect[c].at # "idle",
           connect' = [connect EXCEPT ![c] = x],
           settings' \in SettingsFiles, settingsTmp' \in SettingsFiles,
           connected' \in [Keys -> Entries],
           UNCHANGED <<written, commands, overtaken>>,
           ~overtaken => /\ settings'.is # "cut" /\ settings'.rest = written
                         /\ settings'.servers = connected'
                         /\ NumbersAreFresh'
                         /\ ConnectIsSound(x)'
    PROVE  ClientInvariant'
<1>1. connect'[c] = x /\ \A d \in Connects : d # c => connect'[d] = connect[d]
  BY DEF ClientInvariant, ClientTypeOK
<1>2. ClientTypeOK'
  BY DEF ClientInvariant, ClientTypeOK
<1>3. ASSUME ~overtaken'
      PROVE  /\ \A d, e \in Connects : connect'[d].at # "idle" /\ connect'[e].at # "idle" => d = e
             /\ \A d \in Connects : ConnectIsSound(connect[d])'
  <2>1. \A d \in Connects : d # c => connect'[d].at = "idle"
    BY <1>1, <1>3, OneConnects
  <2>2. \A d \in Connects : d # c => ConnectIsSound(connect[d])'
    BY <2>1 DEF ConnectIsSound
  <2>3. x' = connect'[c]
    BY <1>1
  <2>4. ConnectIsSound(connect[c])'
    BY <1>1, <1>3 DEF ConnectIsSound, IsResult
  <2>5. QED
    BY <2>1, <2>2, <2>4
<1>4. QED
  BY <1>2, <1>3 DEF ClientInvariant

LEMMA FileNumbers ==
    ASSUME NEW f \in SettingsFiles, NEW n \in Nat
    PROVE  /\ Unreadable(n, "cut") \in SettingsFiles /\ Unreadable(n, "cut").no = n
           /\ Unreadable(n, "cut").is = "cut"
           /\ [f EXCEPT !.no = n] \in SettingsFiles /\ [f EXCEPT !.no = n].no = n
           /\ [f EXCEPT !.no = n].is = f.is /\ [f EXCEPT !.no = n].rest = f.rest
           /\ [f EXCEPT !.no = n].servers = f.servers
<1>1. [f EXCEPT !.no = n] \in SettingsFiles /\ [f EXCEPT !.no = n].no = n
      /\ [f EXCEPT !.no = n].is = f.is /\ [f EXCEPT !.no = n].rest = f.rest
      /\ [f EXCEPT !.no = n].servers = f.servers
  BY DEF SettingsFiles
<1>2. NoServers \in [Keys -> Entries]
  BY FilesTyped
<1>3. /\ Unreadable(n, "cut") \in SettingsFiles /\ Unreadable(n, "cut").no = n
      /\ Unreadable(n, "cut").is = "cut"
  BY <1>2 DEF Unreadable, SettingsFiles
<1>4. QED
  BY <1>1, <1>3

LEMMA NotThereStays == NotThere' = NotThere
  BY DEF NotThere, Unreadable, NoServers, Keys

LEMMA TruncateStep ==
    ASSUME ClientInvariant, NEW c \in Connects, TruncateSettingsTmp(c)
    PROVE  ClientInvariant'
<1>1. ClientTypeOK /\ connect[c] \in ConnectRecords
  BY DEF ClientInvariant, ClientTypeOK
<1>2. PICK n \in Nat : n = IF settingsTmp = NotThere THEN connect[c].no ELSE settingsTmp.no
  BY <1>1 DEF ClientTypeOK, SettingsFiles, ConnectRecords
<1>3. /\ connect[c].at = "truncate" /\ settingsTmp' = Unreadable(n, "cut")
      /\ connect' = [connect EXCEPT ![c].at = "write", ![c].fd = n]
      /\ UNCHANGED <<settings, written, commands, connected, overtaken>>
  BY <1>2 DEF TruncateSettingsTmp
<1>4. PICK x \in ConnectRecords : x = [connect[c] EXCEPT !.at = "write", !.fd = n]
  BY <1>1 DEF ConnectRecords
<1>5. /\ x.at = "write" /\ x.fd = n /\ x.key = connect[c].key /\ x.entry = connect[c].entry
      /\ x.content = connect[c].content
  BY <1>1, <1>4 DEF ConnectRecords
<1>6. connect' = [connect EXCEPT ![c] = x]
  BY <1>1, <1>3, <1>4 DEF ClientTypeOK
<1>7. /\ settingsTmp' \in SettingsFiles /\ settingsTmp'.no = n /\ settingsTmp'.is = "cut"
  BY <1>1, <1>3, FileNumbers DEF ClientTypeOK
<1>8. settingsTmp' # NotThere
  BY <1>7, FilesTyped
<1>9. ASSUME ~overtaken
      PROVE  /\ settings'.is # "cut" /\ settings'.rest = written /\ settings'.servers = connected'
             /\ NumbersAreFresh' /\ ConnectIsSound(x)'
  <2>1. /\ ConnectIsSound(connect[c]) /\ NumbersAreFresh
        /\ settings.is # "cut" /\ settings.rest = written /\ settings.servers = connected
    BY <1>3, <1>9, OneConnects
  <2>2. n > commands /\ n # settings.no
    BY <1>2, <1>3, <2>1 DEF ConnectIsSound, NumbersAreFresh
  <2>3. NumbersAreFresh'
    BY <1>3, <1>7, <2>1, <2>2 DEF NumbersAreFresh
  <2>4. IsResult(x.content, x)
    BY <1>3, <1>5, <2>1 DEF ConnectIsSound, IsResult
  <2>5. ConnectIsSound(x)'
    BY <1>3, <1>5, <1>7, <1>8, <2>4, NotThereStays DEF ConnectIsSound, IsResult
  <2>6. QED
    BY <1>3, <2>1, <2>3, <2>5
<1>10. QED
  BY <1>1, <1>3, <1>6, <1>7, <1>9, ConnectsStep DEF ClientTypeOK

LEMMA WriteStep ==
    ASSUME ClientInvariant, NEW c \in Connects, WriteSettingsTmp(c)
    PROVE  ClientInvariant'
<1>1. ClientTypeOK /\ connect[c] \in ConnectRecords
  BY DEF ClientInvariant, ClientTypeOK
<1>2. connect[c].content \in SettingsFiles /\ connect[c].fd \in Nat /\ settingsTmp.no \in Nat
      /\ settings.no \in Nat /\ commands \in Nat
  BY <1>1 DEF ConnectRecords, ClientTypeOK, SettingsFiles
<1> DEFINE Put(f) == IF f.no = connect[c].fd THEN [connect[c].content EXCEPT !.no = f.no] ELSE f
<1>3. /\ connect[c].at = "write" /\ settingsTmp' = Put(settingsTmp) /\ settings' = Put(settings)
      /\ connect' = [connect EXCEPT ![c].at = "rename"]
      /\ UNCHANGED <<written, commands, connected, overtaken>>
  BY DEF WriteSettingsTmp, ConnectAt
<1>4. PICK x \in ConnectRecords : x = [connect[c] EXCEPT !.at = "rename"]
  BY <1>1 DEF ConnectRecords
<1>5. /\ x.at = "rename" /\ x.key = connect[c].key /\ x.entry = connect[c].entry
      /\ x.content = connect[c].content
  BY <1>1, <1>4 DEF ConnectRecords
<1>6. connect' = [connect EXCEPT ![c] = x]
  BY <1>3, <1>4
<1>7. settingsTmp' \in SettingsFiles /\ settings' \in SettingsFiles
  <2>1. \A f \in SettingsFiles : Put(f) \in SettingsFiles
    <3>1. TAKE f \in SettingsFiles
    <3>2. f.no \in Nat
      BY DEF SettingsFiles
    <3>3. [connect[c].content EXCEPT !.no = f.no] \in SettingsFiles
      BY <1>2, <3>2, FileNumbers
    <3>4. QED
      BY <3>3
  <2>2. QED
    BY <1>1, <1>3, <2>1 DEF ClientTypeOK
<1>8. ASSUME ~overtaken
      PROVE  /\ settings'.is # "cut" /\ settings'.rest = written /\ settings'.servers = connected'
             /\ NumbersAreFresh' /\ ConnectIsSound(x)'
  <2>1. /\ ConnectIsSound(connect[c]) /\ NumbersAreFresh
        /\ settings.is # "cut" /\ settings.rest = written /\ settings.servers = connected
    BY <1>3, <1>8, OneConnects
  <2>2. settingsTmp # NotThere /\ connect[c].fd = settingsTmp.no /\ settingsTmp.no # settings.no
        /\ settingsTmp.no > commands /\ IsResult(connect[c].content, connect[c])
    BY <1>3, <2>1 DEF ConnectIsSound, NumbersAreFresh
  <2>3. settings' = settings
    BY <1>3, <2>2
  <2>4. settingsTmp' = [connect[c].content EXCEPT !.no = settingsTmp.no]
    BY <1>3, <2>2
  <2>5. /\ settingsTmp'.no = settingsTmp.no /\ settingsTmp'.is = connect[c].content.is
        /\ settingsTmp'.rest = connect[c].content.rest
        /\ settingsTmp'.servers = connect[c].content.servers
    BY <1>2, <2>4, FileNumbers
  <2>6. settingsTmp'.is = "json"
    BY <2>2, <2>5 DEF IsResult
  <2>7. settingsTmp' # NotThere
    BY <2>6, FilesTyped
  <2>8. NumbersAreFresh'
    <3>1. commands' = commands /\ settings'.no = settings.no /\ settingsTmp'.no = settingsTmp.no
      BY <1>3, <2>3, <2>5
    <3>2. settings.no = 0 \/ settings.no > commands
      BY <2>1 DEF NumbersAreFresh
    <3>3. QED
      BY <2>2, <3>1, <3>2 DEF NumbersAreFresh
  <2>9. IsResult(settingsTmp, x)'
    BY <1>3, <1>5, <2>2, <2>5 DEF IsResult
  <2>10. IsResult(x.content, x)'
    BY <1>3, <1>5, <2>2 DEF IsResult
  <2>11. ConnectIsSound(x)'
    BY <1>5, <2>7, <2>9, <2>10, NotThereStays DEF ConnectIsSound
  <2>12. connected' = connected
    BY <1>3
  <2>13. settings'.is # "cut" /\ settings'.rest = written /\ settings'.servers = connected'
    BY <2>1, <2>3, <2>12
  <2>14. QED
    BY <2>8, <2>11, <2>13
<1>9. QED
  BY <1>1, <1>3, <1>6, <1>7, <1>8, ConnectsStep DEF ClientTypeOK

LEMMA EndStep ==
    ASSUME ClientInvariant, NEW c \in Connects, RenameSettingsTmp(c) \/ ConnectKilled(c)
    PROVE  ClientInvariant'
<1>1. ClientTypeOK /\ connect[c] \in ConnectRecords
  BY DEF ClientInvariant, ClientTypeOK
<1>2. connect[c].at # "idle" /\ connect' = [connect EXCEPT ![c] = NotRunning]
      /\ UNCHANGED <<written, commands, overtaken>>
  BY DEF RenameSettingsTmp, ConnectKilled, ConnectEnds
<1>3. PICK x \in ConnectRecords : x = NotRunning /\ x.at = "idle"
  BY FilesTyped
<1>4. ConnectIsSound(x)'
  BY <1>3 DEF ConnectIsSound
<1>5. CASE UNCHANGED <<settings, settingsTmp, connected>>
  <2>1. ~overtaken => NumbersAreFresh'
    BY <1>2, <1>5, OneConnects, NotThereStays DEF NumbersAreFresh
  <2>2. QED
    BY <1>1, <1>2, <1>3, <1>4, <1>5, <2>1, OneConnects, ConnectsStep DEF ClientTypeOK
<1>6. CASE /\ connect[c].at = "rename" /\ settingsTmp # NotThere
           /\ settings' = settingsTmp /\ settingsTmp' = NotThere
           /\ connected' = [connected EXCEPT ![connect[c].key] = connect[c].entry]
  <2>1. connected' \in [Keys -> Entries]
    BY <1>1, <1>6 DEF ClientTypeOK, ConnectRecords
  <2>2. ASSUME ~overtaken
        PROVE  /\ settings'.is # "cut" /\ settings'.rest = written /\ settings'.servers = connected'
               /\ NumbersAreFresh'
    <3>1. IsResult(settingsTmp, connect[c]) /\ NumbersAreFresh
      BY <1>2, <1>6, <2>2, OneConnects DEF ConnectIsSound
    <3>2. settings'.is = "json" /\ settings'.rest = written /\ settings'.servers = connected'
      BY <1>6, <3>1 DEF IsResult
    <3>3. NumbersAreFresh'
      BY <1>2, <1>6, <3>1, NotThereStays DEF NumbersAreFresh
    <3>4. QED
      BY <3>2, <3>3
  <2>3. settings' \in SettingsFiles /\ settingsTmp' \in SettingsFiles
    BY <1>1, <1>6, FilesTyped DEF ClientTypeOK
  <2>4. QED
    BY <1>2, <1>3, <1>4, <2>1, <2>2, <2>3, ConnectsStep
<1>7. QED
  BY <1>5, <1>6 DEF RenameSettingsTmp, ConnectKilled

LEMMA ApplicationStep ==
    ASSUME ClientInvariant, ApplicationWrites
    PROVE  ClientInvariant'
<1>1. /\ written' = written + 1 /\ settings' = Object(0, written + 1, settings.servers)
      /\ overtaken' = (overtaken \/ \E c \in Connects : connect[c].at # "idle")
      /\ UNCHANGED <<settingsTmp, connect, commands, connected>>
  BY DEF ApplicationWrites
<1>2. ClientTypeOK
  BY DEF ClientInvariant
<1>3. /\ settings' \in SettingsFiles /\ settings'.no = 0 /\ settings'.is = "json"
      /\ settings'.rest = written + 1 /\ settings'.servers = settings.servers
  BY <1>1, <1>2 DEF ClientTypeOK, SettingsFiles, Object
<1>4. overtaken' \in BOOLEAN /\ written' \in Nat
  BY <1>1, <1>2 DEF ClientTypeOK
<1>5. ClientTypeOK'
  BY <1>1, <1>2, <1>3, <1>4 DEF ClientTypeOK
<1>6. ASSUME ~overtaken'
      PROVE  /\ (settings.is # "cut" /\ settings.rest = written /\ settings.servers = connected)'
             /\ NumbersAreFresh'
             /\ \A c, d \in Connects : connect'[c].at # "idle" /\ connect'[d].at # "idle" => c = d
             /\ \A c \in Connects : ConnectIsSound(connect[c])'
  <2>1. ~overtaken /\ \A c \in Connects : connect[c].at = "idle"
    BY <1>1, <1>6
  <2>2. NumbersAreFresh /\ settings.servers = connected
    BY <2>1 DEF ClientInvariant
  <2>3. commands \in Nat /\ settingsTmp.no \in Nat
    BY <1>2 DEF ClientTypeOK, SettingsFiles
  <2>4. NumbersAreFresh'
    BY <1>1, <1>3, <2>2, <2>3, NotThereStays DEF NumbersAreFresh
  <2>5. \A c \in Connects : ConnectIsSound(connect[c])'
    BY <1>1, <2>1 DEF ConnectIsSound
  <2>6. QED
    BY <1>1, <1>3, <2>1, <2>2, <2>4, <2>5
<1>7. QED
  BY <1>5, <1>6 DEF ClientInvariant

LEMMA ClientStep == ClientInvariant /\ [ClientNext]_clientVars => ClientInvariant'
<1> SUFFICES ASSUME ClientInvariant, [ClientNext]_clientVars PROVE ClientInvariant'
  OBVIOUS
<1>1. ASSUME NEW c \in Connects, NEW p \in Projects,
             ConnectClaudeDesktop(c, p) \/ ConnectCursor(c, p) \/ ConnectOther(c, p)
      PROVE  ClientInvariant'
  <2>1. p \in Entries /\ "any" \in Entries
    BY DEF Entries
  <2>2. QED
    BY <1>1, <2>1, FilesTyped, ConnectStep
       DEF ConnectClaudeDesktop, ConnectCursor, ConnectOther
<1>2. ASSUME NEW c \in Connects, ConnectClaudeCode(c) PROVE ClientInvariant'
  <2>1. "any" \in Entries
    BY DEF Entries
  <2>2. QED
    BY <1>2, <2>1, FilesTyped, ConnectStep DEF ConnectClaudeCode
<1>3. CASE UNCHANGED clientVars
  <2>1. UNCHANGED <<settings, settingsTmp, connect, written, commands, connected, overtaken>>
    BY <1>3 DEF clientVars
  <2>2. NumbersAreFresh' = NumbersAreFresh
    BY <2>1, NotThereStays DEF NumbersAreFresh
  <2>3. \A c \in Connects : ConnectIsSound(connect[c])' = ConnectIsSound(connect[c])
    BY <2>1, NotThereStays DEF ConnectIsSound, IsResult
  <2>4. ClientTypeOK' = ClientTypeOK
    BY <2>1 DEF ClientTypeOK, SettingsFiles, ConnectRecords, Keys, Entries
  <2>5. QED
    BY <2>1, <2>2, <2>3, <2>4 DEF ClientInvariant
<1>4. QED
  BY <1>1, <1>2, <1>3, TruncateStep, WriteStep, EndStep, ApplicationStep DEF ClientNext

\* Whatever connects are killed and whatever temporary files they leave: until a connect
\* meets another one or a write of the application's, the application finds its settings
\* whole, with the entry of every connect that succeeded (connect.go:123-129, 378-384).
THEOREM SettingsAlwaysSurvive == ClientSpec => []SettingsSurvive
<1>1. ClientSpec => []ClientInvariant
  BY InitClient, ClientStep, PTL DEF ClientSpec
<1>2. ClientInvariant => SettingsSurvive
  BY DEF ClientInvariant, SettingsSurvive
<1>3. QED
  BY <1>1, <1>2, PTL

-----------------------------------------------------------------------------
(* ToolRuntime: a run takes a slot when it begins and gives it back when   *)
(* it ends, so the slots count the runs.                                   *)

RunStages == {"idle", "path", "env", "wait", "run", "check", "log", "rename", "reopen", "write"}
Processes ==
    [up : BOOLEAN, env : {"unread", "read"}, slots : Int, fd : Nat, busy : BOOLEAN]
RunRecords ==
    [at : RunStages, host : Hosts, kind : {"call", "test", "smoke"}, expired : BOOLEAN]

LogLines == [entry : Nat, whole : BOOLEAN]

RuntimeTypeOK ==
    /\ host \in [Hosts -> Processes]
    /\ run \in [Runs -> RunRecords]
    /\ names \in [{"log", "backup"} -> Nat]
    /\ files \in Seq(Seq(LogLines))
    /\ acked \in Nat

Holders(h) == {r \in Runs : run[r].at = "run" /\ run[r].host = h}

SlotsInvariant ==
    /\ RuntimeTypeOK
    /\ \A h \in Hosts : host[h].slots = Cardinality(Holders(h)) /\ host[h].slots <= MaxConcurrent

LEMMA HoldersAreFinite ==
    ASSUME NEW h \in Hosts
    PROVE  IsFiniteSet(Holders(h)) /\ Cardinality(Holders(h)) \in Nat
<1>1. IsFiniteSet(Runs) /\ Holders(h) \subseteq Runs
  BY RuntimeAssumption DEF Holders
<1>2. IsFiniteSet(Holders(h))
  BY <1>1, FS_Subset
<1>3. QED
  BY <1>2, FS_CardinalityType

LEMMA InitSlots == RuntimeInit => SlotsInvariant
<1> SUFFICES ASSUME RuntimeInit PROVE SlotsInvariant
  OBVIOUS
<1>1. Down \in Processes /\ Down.slots = 0 /\ Idle \in RunRecords /\ Idle.at = "idle"
  BY DEF Down, Processes, Idle, RunRecords, RunStages, Hosts
<1>2. << >> \in Seq(Seq(LogLines)) /\ [log |-> 0, backup |-> 0] \in [{"log", "backup"} -> Nat]
  OBVIOUS
<1>3. RuntimeTypeOK
  BY <1>1, <1>2 DEF RuntimeInit, RuntimeTypeOK
<1>4. \A h \in Hosts : Holders(h) = {}
  BY <1>1 DEF RuntimeInit, Holders
<1>5. Cardinality({}) = 0 /\ MaxConcurrent \in Nat
  BY FS_EmptySet, RuntimeAssumption
<1>6. \A h \in Hosts : host[h].slots = 0
  BY <1>1 DEF RuntimeInit
<1>7. \A h \in Hosts : /\ host[h].slots = Cardinality(Holders(h))
                       /\ host[h].slots <= MaxConcurrent
  BY <1>4, <1>5, <1>6
<1>8. QED
  BY <1>3, <1>7 DEF SlotsInvariant

\* Where runs begin and end, nothing moves but them.
SlotsStay ==
    /\ \A h \in Hosts : host'[h].slots = host[h].slots
    /\ \A r \in Runs :
           /\ run[r].at = "run" <=> run'[r].at = "run"
           /\ run[r].at = "run" => run'[r].host = run[r].host

LEMMA StayingStep ==
    ASSUME SlotsInvariant, RuntimeTypeOK', SlotsStay
    PROVE  SlotsInvariant'
<1>1. \A h \in Hosts : Holders(h)' = Holders(h)
  BY DEF Holders, SlotsStay
<1>2. QED
  BY <1>1 DEF SlotsInvariant, SlotsStay

\* The steps of a run r.
LEMMA RunSteps ==
    ASSUME RuntimeTypeOK, NEW r \in Runs, NEW at \in RunStages
    PROVE  /\ Becomes(r, at) =>
                  /\ run' \in [Runs -> RunRecords]
                  /\ run'[r].at = at /\ run'[r].host = run[r].host
           /\ Done(r) => run' \in [Runs -> RunRecords] /\ run'[r].at = "idle"
           /\ Becomes(r, at) \/ Done(r) => \A o \in Runs : o # r => run'[o] = run[o]
<1>1. Idle \in RunRecords /\ Idle.at = "idle"
  BY DEF Idle, RunRecords, RunStages, Hosts
<1>2. ASSUME Becomes(r, at)
      PROVE  /\ run' \in [Runs -> RunRecords]
             /\ run'[r].at = at /\ run'[r].host = run[r].host
             /\ \A o \in Runs : o # r => run'[o] = run[o]
  BY <1>2 DEF Becomes, RuntimeTypeOK, RunRecords
<1>3. ASSUME Done(r)
      PROVE  /\ run' \in [Runs -> RunRecords] /\ run'[r].at = "idle"
             /\ \A o \in Runs : o # r => run'[o] = run[o]
  BY <1>1, <1>3 DEF Done, RuntimeTypeOK
<1>4. QED
  BY <1>2, <1>3

\* A run that is not at its subprocess, before or after.
LEMMA RunsAside ==
    ASSUME RuntimeTypeOK, NEW r \in Runs, NEW at \in RunStages \ {"run"},
           run[r].at # "run", Becomes(r, at) \/ Done(r)
    PROVE  /\ run' \in [Runs -> RunRecords]
           /\ \A o \in Runs :
                  /\ run[o].at = "run" <=> run'[o].at = "run"
                  /\ run[o].at = "run" => run'[o].host = run[o].host
<1>1. /\ run' \in [Runs -> RunRecords] /\ run'[r].at \in {at, "idle"}
      /\ \A o \in Runs : o # r => run'[o] = run[o]
  BY RunSteps
<1>2. QED
  BY <1>1

LEMMA EndedStages ==
    ASSUME NEW r, NEW outcome, Ended(r, outcome)
    PROVE  Becomes(r, "log") \/ Done(r)
  BY DEF Ended

LEMMA OpenLogTyped ==
    ASSUME RuntimeTypeOK, NEW h \in Hosts, OpenLog(h)
    PROVE  /\ files' \in Seq(Seq(LogLines)) /\ names' \in [{"log", "backup"} -> Nat]
           /\ host' \in [Hosts -> Processes]
           /\ \A o \in Hosts : host'[o].slots = host[o].slots
<1>1. Len(files) + 1 \in Nat /\ Append(files, << >>) \in Seq(Seq(LogLines))
  <2>1. << >> \in Seq(LogLines)
    OBVIOUS
  <2>2. QED
    BY <2>1 DEF RuntimeTypeOK
<1>2. files' \in Seq(Seq(LogLines)) /\ names' \in [{"log", "backup"} -> Nat]
  BY <1>1 DEF OpenLog, RuntimeTypeOK
<1>3. names'.log \in Nat
  BY <1>2
<1>4. host' = [host EXCEPT ![h].up = TRUE, ![h].fd = names'.log]
  BY DEF OpenLog
<1>5. host' \in [Hosts -> Processes]
  <2>1. host \in [Hosts -> Processes] /\ h \in Hosts
    BY DEF RuntimeTypeOK
  <2>2. [host[h] EXCEPT !.up = TRUE, !.fd = names'.log] \in Processes
    BY <1>3, <2>1 DEF Processes
  <2>3. host' = [host EXCEPT ![h] = [host[h] EXCEPT !.up = TRUE, !.fd = names'.log]]
    BY <1>4, <2>1
  <2>4. QED
    BY <2>1, <2>2, <2>3
<1>6. \A o \in Hosts : host'[o].slots = host[o].slots
  BY <1>4 DEF RuntimeTypeOK, Processes
<1>7. QED
  BY <1>2, <1>5, <1>6

LEMMA HostSteps ==
    ASSUME SlotsInvariant, NEW h \in Hosts, LaunchHost(h) \/ HostEnds(h)
    PROVE  SlotsInvariant'
<1>1. RuntimeTypeOK
  BY DEF SlotsInvariant
<1>2. CASE LaunchHost(h)
  <2>1. run' = run /\ acked' = acked
    BY <1>2 DEF LaunchHost
  <2>2. /\ files' \in Seq(Seq(LogLines)) /\ names' \in [{"log", "backup"} -> Nat]
        /\ host' \in [Hosts -> Processes]
        /\ \A o \in Hosts : host'[o].slots = host[o].slots
    <3>1. CASE OpenLog(h)
      BY <1>1, <3>1, OpenLogTyped
    <3>2. CASE host' = [host EXCEPT ![h].up = TRUE] /\ UNCHANGED <<names, files>>
      BY <1>1, <3>2 DEF RuntimeTypeOK, Processes
    <3>3. QED
      BY <1>2, <3>1, <3>2 DEF LaunchHost
  <2>3. RuntimeTypeOK'
    BY <1>1, <2>1, <2>2 DEF RuntimeTypeOK
  <2>4. SlotsStay
    BY <2>1, <2>2 DEF SlotsStay
  <2>5. QED
    BY <2>3, <2>4, StayingStep
<1>3. CASE HostEnds(h)
  <2>1. Down \in Processes /\ Down.slots = 0 /\ Idle \in RunRecords /\ Idle.at = "idle"
    BY DEF Down, Processes, Idle, RunRecords, RunStages, Hosts
  <2>2. /\ host' = [host EXCEPT ![h] = Down]
        /\ run' = [r \in Runs |-> IF run[r].host = h THEN Idle ELSE run[r]]
        /\ UNCHANGED <<names, files, acked>>
    BY <1>3 DEF HostEnds
  <2>3. RuntimeTypeOK'
    BY <1>1, <2>1, <2>2 DEF RuntimeTypeOK
  <2>4. Holders(h)' = {}
    BY <2>1, <2>2 DEF Holders
  <2>5. \A o \in Hosts : o # h => Holders(o)' = Holders(o) /\ host'[o] = host[o]
    BY <1>1, <2>1, <2>2 DEF Holders, RuntimeTypeOK
  <2>6. host'[h].slots = 0
    BY <1>1, <2>1, <2>2 DEF RuntimeTypeOK
  <2>7. Cardinality({}) = 0 /\ MaxConcurrent \in Nat
    BY FS_EmptySet, RuntimeAssumption
  <2>8. QED
    BY <2>3, <2>4, <2>5, <2>6, <2>7 DEF SlotsInvariant
<1>4. QED
  BY <1>2, <1>3

LEMMA BeginSteps ==
    ASSUME SlotsInvariant, NEW r \in Runs,
           Invoke(r) \/ ValidatePath(r) \/ LoadDotEnv(r) \/ Expire(r)
    PROVE  SlotsInvariant'
<1>1. RuntimeTypeOK
  BY DEF SlotsInvariant
<1>2. CASE Invoke(r)
  <2>1. PICK h \in Hosts, k \in {"call", "test", "smoke"} :
            run' = [run EXCEPT ![r] = [Idle EXCEPT !.at = "path", !.host = h, !.kind = k]]
    BY <1>2 DEF Invoke
  <2> DEFINE x == [Idle EXCEPT !.at = "path", !.host = h, !.kind = k]
  <2>2. x \in RunRecords /\ x.at = "path"
    BY DEF Idle, RunRecords, RunStages
  <2>3. run' = [run EXCEPT ![r] = x]
    BY <2>1
  <2> HIDE DEF x
  <2>4. /\ run' \in [Runs -> RunRecords] /\ run'[r] = x
        /\ \A o \in Runs : o # r => run'[o] = run[o]
    BY <1>1, <2>2, <2>3 DEF RuntimeTypeOK
  <2>5. run[r].at = "idle" /\ UNCHANGED <<host, names, files, acked>>
    BY <1>2 DEF Invoke
  <2>6. RuntimeTypeOK'
    BY <1>1, <2>4, <2>5 DEF RuntimeTypeOK
  <2>7. SlotsStay
    BY <2>2, <2>4, <2>5 DEF SlotsStay
  <2>8. QED
    BY <2>6, <2>7, StayingStep
<1>3. CASE ValidatePath(r)
  <2>1. run[r].at = "path" /\ UNCHANGED <<host, names, files, acked>>
        /\ (Becomes(r, "env") \/ Becomes(r, "log") \/ Done(r))
    BY <1>3, EndedStages DEF ValidatePath
  <2>2. {"env", "log"} \subseteq RunStages \ {"run"}
    BY DEF RunStages
  <2>3. RuntimeTypeOK' /\ SlotsStay
    BY <1>1, <2>1, <2>2, RunsAside DEF RuntimeTypeOK, SlotsStay
  <2>4. QED
    BY <2>3, StayingStep
<1>4. CASE LoadDotEnv(r)
  <2>1. /\ run[r].at = "env" /\ UNCHANGED <<names, files, acked>>
        /\ Becomes(r, "wait") \/ Becomes(r, "log") \/ Done(r)
        /\ host' = [host EXCEPT ![run[r].host].env = "read"]
    BY <1>4, EndedStages DEF LoadDotEnv
  <2>2. {"wait", "log"} \subseteq RunStages \ {"run"} /\ run[r].host \in Hosts
    BY <1>1 DEF RunStages, RuntimeTypeOK, RunRecords
  <2>3. host' \in [Hosts -> Processes] /\ \A o \in Hosts : host'[o].slots = host[o].slots
    <3>1. host \in [Hosts -> Processes]
      BY <1>1 DEF RuntimeTypeOK
    <3>2. ASSUME NEW h \in Hosts
          PROVE  /\ [host[h] EXCEPT !.env = "read"] \in Processes
                 /\ [host[h] EXCEPT !.env = "read"].slots = host[h].slots
      BY <3>1 DEF Processes
    <3>3. QED
      BY <2>1, <2>2, <3>1, <3>2
  <2>4. RuntimeTypeOK' /\ SlotsStay
    BY <1>1, <2>1, <2>2, <2>3, RunsAside DEF RuntimeTypeOK, SlotsStay
  <2>5. QED
    BY <2>4, StayingStep
<1>5. CASE Expire(r)
  <2>1. run' = [run EXCEPT ![r].expired = TRUE] /\ UNCHANGED <<host, names, files, acked>>
    BY <1>5 DEF Expire
  <2>2. /\ run' \in [Runs -> RunRecords]
        /\ \A o \in Runs : run'[o].at = run[o].at /\ run'[o].host = run[o].host
    BY <1>1, <2>1 DEF RuntimeTypeOK, RunRecords
  <2>3. RuntimeTypeOK' /\ SlotsStay
    BY <1>1, <2>1, <2>2 DEF RuntimeTypeOK, SlotsStay
  <2>4. QED
    BY <2>3, StayingStep
<1>6. QED
  BY <1>2, <1>3, <1>4, <1>5

\* A process whose slots are counted anew.
LEMMA HostSlots ==
    ASSUME RuntimeTypeOK, NEW h \in Hosts, NEW d \in Int,
           host' = [host EXCEPT ![h].slots = d]
    PROVE  /\ host' \in [Hosts -> Processes] /\ host'[h].slots = d
           /\ \A o \in Hosts : o # h => host'[o] = host[o]
<1> DEFINE p == [host[h] EXCEPT !.slots = d]
<1>2. p \in Processes /\ p.slots = d
  BY DEF RuntimeTypeOK, Processes
<1>3. host' = [host EXCEPT ![h] = p]
  OBVIOUS
<1> HIDE DEF p
<1>4. QED
  BY <1>2, <1>3 DEF RuntimeTypeOK

LEMMA SlotSteps ==
    ASSUME SlotsInvariant, NEW r \in Runs, TakeSlot(r) \/ ReleaseSlot(r)
    PROVE  SlotsInvariant'
<1>1. RuntimeTypeOK /\ MaxConcurrent \in Nat /\ run[r].host \in Hosts
  BY RuntimeAssumption DEF SlotsInvariant, RuntimeTypeOK, RunRecords
<1> PICK h \in Hosts : h = run[r].host
  BY <1>1
<1>2. /\ IsFiniteSet(Holders(h)) /\ Cardinality(Holders(h)) \in Nat
      /\ host[h].slots = Cardinality(Holders(h)) /\ host[h].slots <= MaxConcurrent
  BY <1>1, HoldersAreFinite DEF SlotsInvariant
<1>3. CASE TakeSlot(r)
  <2>1. /\ run[r].at = "wait" /\ host[h].slots < MaxConcurrent
        /\ host' = [host EXCEPT ![h].slots = host[h].slots + 1]
        /\ Becomes(r, "run") /\ UNCHANGED <<names, files, acked>>
    BY <1>3 DEF TakeSlot
  <2>2. /\ run' \in [Runs -> RunRecords] /\ run'[r].at = "run" /\ run'[r].host = h
        /\ \A o \in Runs : o # r => run'[o] = run[o]
    BY <1>1, <2>1, RunSteps DEF RunStages
  <2>3. /\ host' \in [Hosts -> Processes] /\ host'[h].slots = host[h].slots + 1
        /\ \A o \in Hosts : o # h => host'[o] = host[o]
    <3>1. host[h].slots + 1 \in Int
      BY <1>2
    <3>2. QED
      BY <1>1, <2>1, <3>1, HostSlots
  <2>4. r \notin Holders(h) /\ Holders(h)' = Holders(h) \cup {r}
    BY <2>1, <2>2 DEF Holders
  <2>5. Cardinality(Holders(h)') = Cardinality(Holders(h)) + 1
    <3>1. Cardinality(Holders(h) \cup {r}) = Cardinality(Holders(h)) + 1
      BY <1>2, <2>4, FS_AddElement
    <3>2. QED
      BY <2>4, <3>1
  <2>6. \A o \in Hosts : o # h => Holders(o)' = Holders(o)
    BY <2>1, <2>2 DEF Holders
  <2>7. RuntimeTypeOK'
    BY <1>1, <2>1, <2>2, <2>3 DEF RuntimeTypeOK
  <2>8. host'[h].slots = Cardinality(Holders(h)') /\ host'[h].slots <= MaxConcurrent
    BY <1>1, <1>2, <2>1, <2>3, <2>5
  <2>9. QED
    BY <2>3, <2>6, <2>7, <2>8 DEF SlotsInvariant
<1>4. CASE ReleaseSlot(r)
  <2>1. /\ run[r].at = "run"
        /\ host' = [host EXCEPT ![h].slots = host[h].slots - 1]
        /\ Becomes(r, "check") /\ UNCHANGED <<names, files, acked>>
    BY <1>4 DEF ReleaseSlot
  <2>2. r \in Holders(h)
    BY <2>1 DEF Holders
  <2>3. /\ run' \in [Runs -> RunRecords] /\ run'[r].at = "check"
        /\ \A o \in Runs : o # r => run'[o] = run[o]
    BY <1>1, <2>1, RunSteps DEF RunStages
  <2>4. /\ host' \in [Hosts -> Processes] /\ host'[h].slots = host[h].slots - 1
        /\ \A o \in Hosts : o # h => host'[o] = host[o]
    <3>1. host[h].slots - 1 \in Int
      BY <1>2
    <3>2. QED
      BY <1>1, <2>1, <3>1, HostSlots
  <2>5. Holders(h)' = Holders(h) \ {r}
    BY <2>3 DEF Holders
  <2>6. Cardinality(Holders(h)') = Cardinality(Holders(h)) - 1
    BY <1>2, <2>2, <2>5, FS_RemoveElement
  <2>7. \A o \in Hosts : o # h => Holders(o)' = Holders(o)
    BY <2>1, <2>3 DEF Holders
  <2>8. RuntimeTypeOK'
    BY <1>1, <2>1, <2>3, <2>4 DEF RuntimeTypeOK
  <2>9. host'[h].slots = Cardinality(Holders(h)') /\ host'[h].slots <= MaxConcurrent
    BY <1>1, <1>2, <2>4, <2>6
  <2>10. QED
    BY <2>4, <2>7, <2>8, <2>9 DEF SlotsInvariant
<1>5. QED
  BY <1>3, <1>4

LEMMA EndedSteps ==
    ASSUME SlotsInvariant, NEW r \in Runs, TimeOutWaiting(r) \/ CheckTimeout(r)
    PROVE  SlotsInvariant'
<1>1. RuntimeTypeOK
  BY DEF SlotsInvariant
<1>2. run[r].at # "run" /\ UNCHANGED <<host, names, files, acked>>
      /\ (Becomes(r, "log") \/ Done(r))
  BY EndedStages DEF TimeOutWaiting, CheckTimeout
<1>3. "log" \in RunStages \ {"run"}
  BY DEF RunStages
<1>4. RuntimeTypeOK' /\ SlotsStay
  BY <1>1, <1>2, <1>3, RunsAside DEF RuntimeTypeOK, SlotsStay
<1>5. QED
  BY <1>4, StayingStep

\* A logger at work, with the file it has.
LEMMA HostLogs ==
    ASSUME RuntimeTypeOK, NEW h \in Hosts, NEW fd \in Nat,
           host' = [host EXCEPT ![h].busy = TRUE, ![h].fd = fd]
    PROVE  host' \in [Hosts -> Processes] /\ \A o \in Hosts : host'[o].slots = host[o].slots
<1> DEFINE p == [host[h] EXCEPT !.busy = TRUE, !.fd = fd]
<1>1. p \in Processes /\ p.slots = host[h].slots
  BY DEF RuntimeTypeOK, Processes
<1>2. host' = [host EXCEPT ![h] = p]
  BY DEF RuntimeTypeOK
<1> HIDE DEF p
<1>3. QED
  BY <1>1, <1>2 DEF RuntimeTypeOK

LEMMA LineTyped ==
    ASSUME RuntimeTypeOK, NEW whole \in BOOLEAN
    PROVE  /\ Line(whole) \in LogLines
           /\ Line(whole).entry = acked + 1 /\ Line(whole).whole = whole
<1>1. acked + 1 \in Nat
  BY DEF RuntimeTypeOK
<1>2. CASE whole = TRUE
  BY <1>1, <1>2 DEF Line, LogLines
<1>3. CASE whole = FALSE
  BY <1>1, <1>3 DEF Line, LogLines
<1>4. QED
  BY <1>2, <1>3

LEMMA LogSteps ==
    ASSUME SlotsInvariant, NEW r \in Runs,
           BeginLog(r) \/ RenameLog(r) \/ ReopenLog(r) \/ ReopenFails(r) \/ WriteEntry(r)
    PROVE  SlotsInvariant'
<1>1. RuntimeTypeOK /\ run[r].host \in Hosts
  BY DEF SlotsInvariant, RuntimeTypeOK, RunRecords
<1>2. {"rename", "reopen", "write"} \subseteq RunStages \ {"run"}
  BY DEF RunStages
<1>3. run[r].at # "run"
  BY DEF BeginLog, RenameLog, ReopenLog, ReopenFails, WriteEntry
<1>4. \E at \in {"rename", "reopen", "write"} : Becomes(r, at) \/ Done(r)
  BY DEF BeginLog, RenameLog, ReopenLog, ReopenFails, WriteEntry, Logs
<1>5. /\ run' \in [Runs -> RunRecords]
      /\ \A o \in Runs : /\ run[o].at = "run" <=> run'[o].at = "run"
                         /\ run[o].at = "run" => run'[o].host = run[o].host
  BY <1>1, <1>2, <1>3, <1>4, RunsAside
<1>6. /\ names' \in [{"log", "backup"} -> Nat] /\ files' \in Seq(Seq(LogLines)) /\ acked' \in Nat
      /\ host' \in [Hosts -> Processes]
      /\ \A o \in Hosts : host'[o].slots = host[o].slots
  <2>1. CASE BeginLog(r)
    <3>1. /\ host[run[r].host].fd \in Nat
          /\ UNCHANGED <<files, acked>>
          /\ names' \in {names, [names EXCEPT !.backup = 0]}
      BY <1>1, <2>1 DEF BeginLog, RuntimeTypeOK, Processes
    <3>2. \E fd \in Nat :
              host' = [host EXCEPT ![run[r].host].busy = TRUE, ![run[r].host].fd = fd]
      BY <2>1, <3>1 DEF BeginLog, Logs
    <3>3. host' \in [Hosts -> Processes] /\ \A o \in Hosts : host'[o].slots = host[o].slots
      BY <1>1, <3>2, HostLogs
    <3>4. names' \in [{"log", "backup"} -> Nat]
      <4>1. names \in [{"log", "backup"} -> Nat]
        BY <1>1 DEF RuntimeTypeOK
      <4>2. [names EXCEPT !.backup = 0] \in [{"log", "backup"} -> Nat]
        BY <4>1
      <4>3. QED
        BY <3>1, <4>1, <4>2
    <3>5. files' \in Seq(Seq(LogLines)) /\ acked' \in Nat
      BY <1>1, <3>1 DEF RuntimeTypeOK
    <3>6. QED
      BY <3>3, <3>4, <3>5
  <2>2. CASE RenameLog(r)
    <3>1. UNCHANGED <<host, files, acked>> /\ names' \in {names, [log |-> 0, backup |-> names.log]}
      BY <2>2 DEF RenameLog
    <3>2. [log |-> 0, backup |-> names.log] \in [{"log", "backup"} -> Nat]
      BY <1>1 DEF RuntimeTypeOK
    <3>3. QED
      BY <1>1, <3>1, <3>2 DEF RuntimeTypeOK
  <2>3. CASE ReopenLog(r)
    BY <1>1, <2>3, OpenLogTyped DEF ReopenLog, RuntimeTypeOK
  <2>4. CASE ReopenFails(r)
    <3>1. host' = [host EXCEPT ![run[r].host].busy = FALSE]
          /\ UNCHANGED <<names, files, acked>>
      BY <2>4 DEF ReopenFails
    <3>2. /\ host \in [Hosts -> Processes] /\ run[r].host \in Hosts
      BY <1>1 DEF RuntimeTypeOK, RunRecords
    <3>3. ASSUME NEW h \in Hosts
          PROVE  /\ [host[h] EXCEPT !.busy = FALSE] \in Processes
                 /\ [host[h] EXCEPT !.busy = FALSE].slots = host[h].slots
      BY <3>2 DEF Processes
    <3>4. host' \in [Hosts -> Processes] /\ \A o \in Hosts : host'[o].slots = host[o].slots
      BY <3>1, <3>2, <3>3
    <3>5. QED
      BY <1>1, <3>1, <3>4 DEF RuntimeTypeOK
  <2>5. CASE WriteEntry(r)
    <3> DEFINE fd == host[run[r].host].fd
    <3>1. /\ acked' \in {acked, acked + 1} /\ names' = names
          /\ \E whole \in BOOLEAN :
                 files' \in {files, [files EXCEPT ![fd] = Append(@, Line(whole))]}
          /\ host' = [host EXCEPT ![run[r].host].busy = FALSE]
      BY <2>5 DEF WriteEntry
    <3>2. PICK whole \in BOOLEAN :
              files' \in {files, [files EXCEPT ![fd] = Append(@, Line(whole))]}
      BY <3>1
    <3>3. PICK x \in LogLines : x = Line(whole)
      BY <1>1, LineTyped
    <3>4. files' \in Seq(Seq(LogLines))
      <4>1. files \in Seq(Seq(LogLines))
        BY <1>1 DEF RuntimeTypeOK
      <4>2. CASE fd \in DOMAIN files
        <5>1. Append(files[fd], x) \in Seq(LogLines)
          BY <4>1, <4>2
        <5>2. [files EXCEPT ![fd] = Append(@, x)] \in Seq(Seq(LogLines))
          <6> HIDE DEF fd
          <6>1. QED
            BY <4>1, <4>2, <5>1
        <5>3. QED
          BY <3>2, <3>3, <4>1, <5>2
      <4>3. CASE fd \notin DOMAIN files
        <5>1. [files EXCEPT ![fd] = Append(@, x)] = files
          BY <4>1, <4>3
        <5>2. QED
          BY <3>2, <3>3, <4>1, <5>1
      <4>4. QED
        BY <4>2, <4>3
    <3>5. host' \in [Hosts -> Processes] /\ \A o \in Hosts : host'[o].slots = host[o].slots
      <4>1. /\ host \in [Hosts -> Processes] /\ run[r].host \in Hosts
        BY <1>1 DEF RuntimeTypeOK, RunRecords
      <4>2. ASSUME NEW h \in Hosts
            PROVE  /\ [host[h] EXCEPT !.busy = FALSE] \in Processes
                   /\ [host[h] EXCEPT !.busy = FALSE].slots = host[h].slots
        BY <4>1 DEF Processes
      <4>3. QED
        BY <3>1, <4>1, <4>2
    <3>6. QED
      BY <1>1, <3>1, <3>4, <3>5 DEF RuntimeTypeOK
  <2>6. QED
    BY <2>1, <2>2, <2>3, <2>4, <2>5
<1>7. RuntimeTypeOK' /\ SlotsStay
  BY <1>5, <1>6 DEF RuntimeTypeOK, SlotsStay
<1>8. QED
  BY <1>7, StayingStep

LEMMA RuntimeStep == SlotsInvariant /\ [RuntimeNext]_runtimeVars => SlotsInvariant'
<1> SUFFICES ASSUME SlotsInvariant, [RuntimeNext]_runtimeVars PROVE SlotsInvariant'
  OBVIOUS
<1>1. CASE UNCHANGED runtimeVars
  <2>1. UNCHANGED <<host, run, names, files, acked>>
    BY <1>1 DEF runtimeVars
  <2>2. QED
    BY <2>1 DEF SlotsInvariant, RuntimeTypeOK, Holders
<1>2. QED
  BY <1>1, HostSteps, BeginSteps, SlotSteps, EndedSteps, LogSteps DEF RuntimeNext

\* However many runs wait, time out, end and are cut off by the end of their process:
\* the slots taken are those of the runs at their subprocess, and never more than there
\* are (executor.go:117-131).
THEOREM SlotsStayOfRuns == RuntimeSpec => []SlotsAreOfRuns
<1>1. RuntimeSpec => []SlotsInvariant
  BY InitSlots, RuntimeStep, PTL DEF RuntimeSpec
<1>2. SlotsInvariant => SlotsAreOfRuns
  BY DEF SlotsInvariant, SlotsAreOfRuns, Holders
<1>3. QED
  BY <1>1, <1>2, PTL

-----------------------------------------------------------------------------
(* ToolRuntime: while one process logs and every reopening succeeds, the   *)
(* entries kept are the latest, for the file that is renamed is full and   *)
(* the one that is removed is older than a full one.                       *)

Logging == {"rename", "reopen", "write"}
Orderly == ~silenced /\ ~shared

\* The lines of s are of the last of n entries, and of attempts at their next ones.
AreTheLatest(s, n) ==
    \A i \in DOMAIN s : EntryAt(s, n, i + 1) = s[i].entry + (IF s[i].whole THEN 1 ELSE 0)

Kept == Content("backup") \o Content("log")

KeepsEnough ==
    AreTheLatest(Kept, acked) /\ (Len(Kept) >= RotateAt \/ EntryAt(Kept, acked, 1) = 1)

NamesAreFiles ==
    /\ names.log \in 0..Len(files) /\ names.backup \in 0..Len(files)
    /\ names.log = 0 \/ names.log # names.backup

OneProcess == \A h, o \in Hosts : host[h].up /\ host[o].up => h = o

HostsHaveTheLog ==
    \A h \in Hosts :
        /\ host[h].fd # 0 => host[h].up /\ host[h].fd = names.log
        /\ h = "serve" /\ host[h].up /\ ~host[h].busy => host[h].fd # 0

\* A run r in state x, at its stage.
RunIsHosted(r, x) ==
    x.at # "idle" =>
        /\ host[x.host].up
        /\ x.host = "serve" <=> x.kind = "call"
        /\ x.host = "test" => \A o \in Runs : o # r /\ run[o].at # "idle" => run[o].host # "test"
        /\ x.at = "log" /\ x.host = "test" => host[x.host].fd # 0
        /\ x.at \in Logging => host[x.host].busy
        /\ x.at = "rename" =>
               names.log # 0 /\ Len(files[names.log]) >= RotateAt /\ host[x.host].fd = 0
        /\ x.at = "write" => host[x.host].fd # 0

RunsAreHosted == \A r \in Runs : RunIsHosted(r, run[r])

OneLogs == \A r, q \in Runs : run[r].at \in Logging /\ run[q].at \in Logging => r = q

AuditInvariant ==
    Orderly =>
        /\ OneProcess /\ HostsHaveTheLog /\ NamesAreFiles
        /\ RunsAreHosted /\ OneLogs /\ KeepsEnough

\* The latest entries: without older ones, and with a line more.
LEMMA LatestEntries ==
    ASSUME NEW a \in Seq(LogLines), NEW b \in Seq(LogLines), NEW n \in Nat, AreTheLatest(a \o b, n)
    PROVE  AreTheLatest(b, n)
<1>1. /\ Len(a \o b) = Len(a) + Len(b) /\ a \o b \in Seq(LogLines)
      /\ DOMAIN (a \o b) = 1..(Len(a) + Len(b)) /\ DOMAIN b = 1..Len(b)
      /\ Len(a) \in Nat /\ Len(b) \in Nat
  OBVIOUS
<1>2. \A i \in 1..Len(b) : Len(a) + i \in DOMAIN (a \o b) /\ (a \o b)[Len(a) + i] = b[i]
  BY <1>1
<1>3. ASSUME NEW i \in 1..Len(b)
      PROVE  EntryAt(b, n, i + 1) = b[i].entry + (IF b[i].whole THEN 1 ELSE 0)
  <2>1. /\ Len(a) + i \in DOMAIN (a \o b) /\ (a \o b)[Len(a) + i] = b[i]
        /\ i + 1 \in 1..Len(b) => (a \o b)[Len(a) + (i + 1)] = b[i + 1]
    BY <1>2
  <2>2. EntryAt(a \o b, n, (Len(a) + i) + 1) = b[i].entry + (IF b[i].whole THEN 1 ELSE 0)
    BY <2>1 DEF AreTheLatest
  <2>3. (Len(a) + i) + 1 = Len(a) + (i + 1) /\ (i + 1 > Len(b) <=> Len(a) + (i + 1) > Len(a) + Len(b))
    BY <1>1
  <2>4. i + 1 \in 1..Len(b) \/ i + 1 > Len(b)
    BY <1>1
  <2>5. EntryAt(b, n, i + 1) = EntryAt(a \o b, n, (Len(a) + i) + 1)
    BY <1>1, <2>1, <2>3, <2>4 DEF EntryAt
  <2>6. QED
    BY <2>2, <2>5
<1>4. QED
  BY <1>1, <1>3 DEF AreTheLatest

LEMMA LineMore ==
    ASSUME NEW s \in Seq(LogLines), NEW n \in Nat, NEW m \in Nat, NEW x \in LogLines,
           x.entry = n + 1, m = n + (IF x.whole THEN 1 ELSE 0), AreTheLatest(s, n)
    PROVE  /\ AreTheLatest(Append(s, x), m)
           /\ Len(Append(s, x)) = Len(s) + 1
           /\ EntryAt(Append(s, x), m, 1) = EntryAt(s, n, 1)
<1> DEFINE c == Append(s, x)
<1>1. /\ Len(s) \in Nat /\ Len(c) = Len(s) + 1 /\ DOMAIN c = 1..(Len(s) + 1)
      /\ DOMAIN s = 1..Len(s)
      /\ c[Len(s) + 1] = x /\ \A i \in 1..Len(s) : c[i] = s[i]
  OBVIOUS
<1> HIDE DEF c
<1>2. EntryAt(c, m, Len(s) + 2) = m + 1
  BY <1>1 DEF EntryAt
<1>3. \A i \in 1..(Len(s) + 1) : EntryAt(c, m, i) = EntryAt(s, n, i)
  <2> SUFFICES ASSUME NEW i \in 1..(Len(s) + 1) PROVE EntryAt(c, m, i) = EntryAt(s, n, i)
    OBVIOUS
  <2>1. CASE i = Len(s) + 1
    <3>1. EntryAt(c, m, i) = x.entry
      BY <1>1, <2>1 DEF EntryAt
    <3>2. EntryAt(s, n, i) = n + 1
      BY <1>1, <2>1 DEF EntryAt
    <3>3. QED
      BY <3>1, <3>2
  <2>2. CASE i \in 1..Len(s)
    BY <1>1, <2>2 DEF EntryAt
  <2>3. QED
    BY <1>1, <2>1, <2>2
<1>4. ASSUME NEW i \in 1..(Len(s) + 1)
      PROVE  EntryAt(c, m, i + 1) = c[i].entry + (IF c[i].whole THEN 1 ELSE 0)
  <2>1. CASE i = Len(s) + 1
    <3>1. i + 1 = Len(s) + 2 /\ c[i] = x
      BY <1>1, <2>1
    <3>2. x.whole \in BOOLEAN /\ m + 1 = x.entry + (IF x.whole THEN 1 ELSE 0)
      BY DEF LogLines
    <3>3. QED
      BY <1>2, <3>1, <3>2
  <2>2. CASE i \in 1..Len(s)
    <3>1. i + 1 \in 1..(Len(s) + 1) /\ c[i] = s[i]
      BY <1>1, <2>2
    <3>2. EntryAt(s, n, i + 1) = s[i].entry + (IF s[i].whole THEN 1 ELSE 0)
      BY <1>1, <2>2 DEF AreTheLatest
    <3>3. QED
      BY <1>3, <3>1, <3>2
  <2>3. QED
    BY <1>1, <2>1, <2>2
<1>5. AreTheLatest(c, m)
  BY <1>1, <1>4 DEF AreTheLatest
<1>6. 1 \in 1..(Len(s) + 1)
  BY <1>1
<1>7. QED
  BY <1>1, <1>3, <1>5, <1>6 DEF c

\* Lines are appended to the log, and so to what is kept.
LEMMA AppendLast ==
    ASSUME NEW a \in Seq(LogLines), NEW b \in Seq(LogLines), NEW x \in LogLines
    PROVE  a \o Append(b, x) = Append(a \o b, x)
<1>1. /\ a \o Append(b, x) \in Seq(LogLines) /\ Append(a \o b, x) \in Seq(LogLines)
      /\ Len(a) \in Nat /\ Len(b) \in Nat
      /\ Len(a \o Append(b, x)) = Len(a) + Len(b) + 1
      /\ Len(Append(a \o b, x)) = Len(a) + Len(b) + 1
  OBVIOUS
<1>2. ASSUME NEW i \in 1..(Len(a) + Len(b) + 1)
      PROVE  (a \o Append(b, x))[i] = Append(a \o b, x)[i]
  <2>1. CASE i <= Len(a)
    BY <1>1, <2>1
  <2>2. CASE i > Len(a) /\ i <= Len(a) + Len(b)
    BY <1>1, <2>2
  <2>3. CASE i = Len(a) + Len(b) + 1
    BY <1>1, <2>3
  <2>4. QED
    BY <1>1, <2>1, <2>2, <2>3
<1>3. QED
  BY <1>1, <1>2, SeqEqual

LEMMA ContentTyped ==
    ASSUME RuntimeTypeOK, NamesAreFiles
    PROVE  Content("backup") \in Seq(LogLines) /\ Content("log") \in Seq(LogLines)
<1>1. \A n \in 1..Len(files) : files[n] \in Seq(LogLines)
  BY DEF RuntimeTypeOK
<1>2. Len(files) \in Nat
  BY DEF RuntimeTypeOK
<1>3. << >> \in Seq(LogLines)
  OBVIOUS
<1>4. QED
  BY <1>1, <1>2, <1>3 DEF Content, NamesAreFiles

LEMMA InitAudit == RuntimeInit => AuditInvariant
<1> SUFFICES ASSUME RuntimeInit PROVE AuditInvariant
  OBVIOUS
<1>1. /\ \A h \in Hosts : ~host[h].up
      /\ \A r \in Runs : run[r].at = "idle"
      /\ names.log = 0 /\ names.backup = 0 /\ Len(files) = 0 /\ acked = 0
      /\ \A h \in Hosts : host[h].fd = 0
  BY DEF RuntimeInit, Down, Idle
<1>2. Kept = << >>
  BY <1>1 DEF Kept, Content
<1>3. KeepsEnough
  BY <1>1, <1>2 DEF KeepsEnough, AreTheLatest, EntryAt
<1>4. OneProcess /\ HostsHaveTheLog /\ NamesAreFiles /\ RunsAreHosted /\ OneLogs
  BY <1>1 DEF OneProcess, HostsHaveTheLog, NamesAreFiles, RunsAreHosted, RunIsHosted, OneLogs,
              Logging
<1>5. QED
  BY <1>3, <1>4 DEF AuditInvariant

\* What the executor does leaves the log and its processes alone.
LogStays ==
    /\ UNCHANGED <<names, files, acked, silenced, shared>>
    /\ \A h \in Hosts : /\ host'[h].up = host[h].up
                        /\ host'[h].fd = host[h].fd
                        /\ host'[h].busy = host[h].busy

\* Run r moves to x, which does not log, and the others stay.
LEMMA ExecutorStep ==
    ASSUME RuntimeTypeOK, AuditInvariant, LogStays, NEW r \in Runs, NEW x \in RunRecords,
           run' = [run EXCEPT ![r] = x],
           x.at \notin Logging,
           run[r].at = "idle" \/ (x.host = run[r].host /\ x.kind = run[r].kind) \/ x.at = "idle",
           Orderly /\ x.at # "idle" => RunIsHosted(r, x)
    PROVE  AuditInvariant'
<1>1. run'[r] = x /\ \A o \in Runs : o # r => run'[o] = run[o]
  BY DEF RuntimeTypeOK
<1>2. Orderly' = Orderly
  BY DEF LogStays, Orderly
<1>3. ASSUME Orderly
      PROVE  /\ OneProcess' /\ HostsHaveTheLog' /\ NamesAreFiles'
             /\ RunsAreHosted' /\ OneLogs' /\ KeepsEnough'
  <2>1. OneProcess /\ HostsHaveTheLog /\ NamesAreFiles /\ RunsAreHosted /\ OneLogs /\ KeepsEnough
    BY <1>3 DEF AuditInvariant
  <2>2. OneProcess' /\ HostsHaveTheLog' /\ NamesAreFiles'
    BY <2>1 DEF LogStays, OneProcess, HostsHaveTheLog, NamesAreFiles
  <2>3. KeepsEnough'
    BY <2>1 DEF LogStays, KeepsEnough, Kept, Content
  <2>4. OneLogs'
    BY <1>1, <2>1 DEF OneLogs
  <2>5. ASSUME NEW q \in Runs PROVE RunIsHosted(q, run[q])'
    <3>1. \A o \in Runs : run[o].host \in Hosts
      BY DEF RuntimeTypeOK, RunRecords
    <3>2. x.host \in Hosts
      BY DEF RunRecords
    <3>3. CASE q = r
      <4>1. x.at # "idle" => RunIsHosted(r, x)
        BY <1>3
      <4>2. QED
        BY <1>1, <3>2, <3>3, <4>1 DEF RunIsHosted, LogStays
    <3>4. CASE q # r
      <4>1. run'[q] = run[q] /\ RunIsHosted(q, run[q])
        BY <1>1, <2>1, <3>4 DEF RunsAreHosted
      <4>2. run[q].at # "idle" /\ run[q].host = "test" /\ x.at # "idle" => x.host # "test"
        BY <1>3, <3>4, <4>1 DEF RunIsHosted
      <4>3. QED
        BY <1>1, <3>1, <3>4, <4>1, <4>2 DEF RunIsHosted, LogStays
    <3>5. QED
      BY <3>3, <3>4
  <2>6. QED
    BY <2>2, <2>3, <2>4, <2>5 DEF RunsAreHosted
<1>4. QED
  BY <1>2, <1>3 DEF AuditInvariant

\* The steps of a run that was begun.
LEMMA GoingOn ==
    ASSUME RuntimeTypeOK, AuditInvariant, LogStays, NEW r \in Runs, NEW at \in RunStages \ Logging,
           run[r].at # "idle",
           at = "log" => run[r].kind = "call" \/ host[run[r].host].fd # 0,
           Becomes(r, at)
    PROVE  AuditInvariant'
<1>1. PICK x \in RunRecords : x = [run[r] EXCEPT !.at = at]
  BY DEF RuntimeTypeOK, RunRecords
<1>2. x.at = at /\ x.host = run[r].host /\ x.kind = run[r].kind
  BY <1>1 DEF RuntimeTypeOK, RunRecords
<1>3. run' = [run EXCEPT ![r] = x]
  BY <1>1 DEF Becomes
<1>4. Orderly => RunIsHosted(r, run[r])
  BY DEF AuditInvariant, RunsAreHosted
<1>5. Orderly => RunIsHosted(r, x)
  BY <1>2, <1>4 DEF RunIsHosted, Logging
<1>6. QED
  BY <1>2, <1>3, <1>5, ExecutorStep

LEMMA ComingToRest ==
    ASSUME RuntimeTypeOK, AuditInvariant, LogStays, NEW r \in Runs, Done(r)
    PROVE  AuditInvariant'
<1>1. PICK x \in RunRecords : x = Idle
  BY DEF Idle, RunRecords, RunStages, Hosts
<1>2. x.at = "idle"
  BY <1>1 DEF Idle
<1>3. run' = [run EXCEPT ![r] = x]
  BY <1>1 DEF Done
<1>4. QED
  BY <1>2, <1>3, ExecutorStep DEF Logging

LEMMA EndedRuns ==
    ASSUME RuntimeTypeOK, AuditInvariant, LogStays, NEW r \in Runs, NEW outcome,
           run[r].at # "idle", Ended(r, outcome)
    PROVE  AuditInvariant'
<1>1. CASE Done(r)
  BY <1>1, ComingToRest
<1>2. CASE /\ Becomes(r, "log")
           /\ run[r].kind = "call" \/ host[run[r].host].fd # 0
  <2>1. "log" \in RunStages \ Logging
    BY DEF RunStages, Logging
  <2>2. QED
    BY <1>2, <2>1, GoingOn
<1>3. QED
  BY <1>1, <1>2 DEF Ended

LEMMA ExecutorSteps ==
    ASSUME RuntimeTypeOK, AuditInvariant, NEW r \in Runs,
           \/ Invoke(r) \/ ValidatePath(r) \/ LoadDotEnv(r) \/ Expire(r) \/ TakeSlot(r)
           \/ TimeOutWaiting(r) \/ ReleaseSlot(r) \/ CheckTimeout(r)
    PROVE  AuditInvariant'
<1>1. run[r].host \in Hosts /\ run[r] \in RunRecords
  BY DEF RuntimeTypeOK, RunRecords
<1>2. LogStays
  <2>1. UNCHANGED <<names, files, acked, silenced, shared>>
    BY DEF Invoke, ValidatePath, LoadDotEnv, Expire, TakeSlot, TimeOutWaiting, ReleaseSlot,
           CheckTimeout
  <2>2. CASE UNCHANGED host
    BY <2>1, <2>2 DEF LogStays
  <2>3. CASE \/ host' = [host EXCEPT ![run[r].host].env = "read"]
             \/ host' = [host EXCEPT ![run[r].host].slots = @ + 1]
             \/ host' = [host EXCEPT ![run[r].host].slots = @ - 1]
    <3>1. host \in [Hosts -> Processes]
      BY DEF RuntimeTypeOK
    <3>2. ASSUME NEW h \in Hosts
          PROVE  /\ host'[h].up = host[h].up /\ host'[h].fd = host[h].fd
                 /\ host'[h].busy = host[h].busy
      BY <1>1, <2>3, <3>1 DEF Processes
    <3>3. QED
      BY <2>1, <3>2 DEF LogStays
  <2>4. QED
    BY <2>2, <2>3 DEF Invoke, ValidatePath, LoadDotEnv, Expire, TakeSlot, TimeOutWaiting,
                      ReleaseSlot, CheckTimeout
<1>3. {"env", "wait", "run", "check"} \subseteq (RunStages \ Logging) \ {"log"}
  BY DEF RunStages, Logging
<1>4. CASE Invoke(r)
  <2>1. PICK h \in Hosts, k \in {"call", "test", "smoke"} :
            /\ host[h].up
            /\ h = "serve" <=> k = "call"
            /\ h = "test" => \A o \in Runs : run[o].at # "idle" => run[o].host # h
            /\ run' = [run EXCEPT ![r] = [Idle EXCEPT !.at = "path", !.host = h, !.kind = k]]
    BY <1>4 DEF Invoke
  <2>2. PICK x \in RunRecords : x = [Idle EXCEPT !.at = "path", !.host = h, !.kind = k]
    BY DEF Idle, RunRecords, RunStages
  <2>3. x.at = "path" /\ x.host = h /\ x.kind = k
    BY <2>2 DEF Idle
  <2>4. run[r].at = "idle" /\ run' = [run EXCEPT ![r] = x]
    BY <1>4, <2>1, <2>2 DEF Invoke
  <2>5. RunIsHosted(r, x)
    BY <2>1, <2>3 DEF RunIsHosted, Logging
  <2>6. QED
    BY <1>2, <2>3, <2>4, <2>5, ExecutorStep DEF Logging
<1>5. CASE Expire(r)
  <2>1. run[r].at \in {"wait", "run"} /\ run' = [run EXCEPT ![r].expired = TRUE]
    BY <1>5 DEF Expire
  <2>2. PICK x \in RunRecords : x = [run[r] EXCEPT !.expired = TRUE]
    BY <1>1 DEF RunRecords
  <2>3. x.at = run[r].at /\ x.host = run[r].host /\ x.kind = run[r].kind
    BY <1>1, <2>2 DEF RunRecords
  <2>4. Orderly => RunIsHosted(r, run[r])
    BY DEF AuditInvariant, RunsAreHosted
  <2>5. Orderly => RunIsHosted(r, x)
    BY <2>3, <2>4 DEF RunIsHosted
  <2>6. run' = [run EXCEPT ![r] = x]
    BY <2>1, <2>2
  <2>7. QED
    BY <1>2, <2>1, <2>3, <2>5, <2>6, ExecutorStep DEF Logging
<1>6. CASE /\ run[r].at # "idle"
           /\ Becomes(r, "env") \/ Becomes(r, "wait") \/ Becomes(r, "run") \/ Becomes(r, "check")
  BY <1>2, <1>3, <1>6, GoingOn
<1>7. CASE run[r].at # "idle" /\ (Ended(r, "error") \/ Ended(r, "exit"))
  BY <1>2, <1>7, EndedRuns
<1>8. QED
  BY <1>4, <1>5, <1>6, <1>7 DEF ValidatePath, LoadDotEnv, TakeSlot, TimeOutWaiting, ReleaseSlot,
                                CheckTimeout

\* A log that is opened holds what it held, or nothing.
LEMMA OpenedLog ==
    ASSUME RuntimeTypeOK, NamesAreFiles, KeepsEnough, NEW h \in Hosts, OpenLog(h),
           UNCHANGED acked
    PROVE  /\ NamesAreFiles' /\ KeepsEnough' /\ names'.log # 0
           /\ host' = [host EXCEPT ![h].up = TRUE, ![h].fd = names'.log]
<1>1. Len(files) \in Nat /\ files \in Seq(Seq(LogLines)) /\ names \in [{"log", "backup"} -> Nat]
      /\ names.log \in 0..Len(files) /\ names.backup \in 0..Len(files)
  BY DEF RuntimeTypeOK, NamesAreFiles
<1>2. host' = [host EXCEPT ![h].up = TRUE, ![h].fd = names'.log]
  BY DEF OpenLog
<1>3. CASE names.log # 0
  <2>1. names' = names /\ files' = files
    BY <1>3 DEF OpenLog
  <2>2. QED
    BY <1>2, <1>3, <2>1 DEF NamesAreFiles, KeepsEnough, Kept, Content
<1>4. CASE names.log = 0
  <2>1. files' = Append(files, << >>) /\ names' = [names EXCEPT !.log = Len(files) + 1]
    BY <1>4 DEF OpenLog
  <2>2. names'.log = Len(files) + 1 /\ names'.backup = names.backup
    BY <1>1, <2>1
  <2>3. << >> \in Seq(LogLines)
    OBVIOUS
  <2>4. /\ Len(files') = Len(files) + 1 /\ files'[Len(files) + 1] = << >>
        /\ \A i \in 1..Len(files) : files'[i] = files[i]
    BY <1>1, <2>1, <2>3
  <2>5. NamesAreFiles' /\ names'.log # 0
    BY <1>1, <2>2, <2>4 DEF NamesAreFiles
  <2>6. Content("log")' = << >> /\ Content("log") = << >>
    BY <1>1, <1>4, <2>2, <2>4 DEF Content
  <2>7. Content("backup")' = Content("backup")
    BY <1>1, <2>2, <2>4 DEF Content
  <2>8. Kept' = Kept
    BY <2>6, <2>7 DEF Kept
  <2>9. KeepsEnough'
    BY <2>8 DEF KeepsEnough
  <2>10. QED
    BY <1>2, <2>5, <2>9
<1>5. QED
  BY <1>3, <1>4

LEMMA LaunchStep ==
    ASSUME RuntimeTypeOK, AuditInvariant, NEW h \in Hosts, LaunchHost(h)
    PROVE  AuditInvariant'
<1>1. /\ ~host[h].up /\ UNCHANGED <<run, acked, silenced>>
      /\ shared' = (shared \/ \E o \in Hosts \ {h} : host[o].up)
  BY DEF LaunchHost
<1>2. SUFFICES ASSUME Orderly'
               PROVE  /\ OneProcess' /\ HostsHaveTheLog' /\ NamesAreFiles'
                      /\ RunsAreHosted' /\ OneLogs' /\ KeepsEnough'
  BY DEF AuditInvariant
<1>3. Orderly /\ \A o \in Hosts : ~host[o].up
  BY <1>1, <1>2 DEF Orderly
<1>4. OneProcess /\ HostsHaveTheLog /\ NamesAreFiles /\ RunsAreHosted /\ OneLogs /\ KeepsEnough
  BY <1>3 DEF AuditInvariant
<1>5. \A r \in Runs : run[r].at = "idle"
  BY <1>3, <1>4 DEF RunsAreHosted, RunIsHosted, RuntimeTypeOK, RunRecords
<1>6. RunsAreHosted' /\ OneLogs'
  BY <1>1, <1>5 DEF RunsAreHosted, RunIsHosted, OneLogs, Logging
<1>7. CASE OpenLog(h)
  <2>1. /\ NamesAreFiles' /\ KeepsEnough' /\ names'.log # 0
        /\ host' = [host EXCEPT ![h].up = TRUE, ![h].fd = names'.log]
    BY <1>1, <1>4, <1>7, OpenedLog
  <2>2. /\ \A o \in Hosts : o # h => host'[o] = host[o]
        /\ host'[h].fd = names'.log /\ host'[h].up
    BY <2>1 DEF RuntimeTypeOK, Processes
  <2>3. \A o \in Hosts : host[o].fd = 0
    BY <1>3, <1>4 DEF HostsHaveTheLog
  <2>4. OneProcess' /\ HostsHaveTheLog'
    BY <1>3, <2>1, <2>2, <2>3 DEF OneProcess, HostsHaveTheLog
  <2>5. QED
    BY <1>6, <2>1, <2>4
<1>8. CASE h = "test" /\ host' = [host EXCEPT ![h].up = TRUE] /\ UNCHANGED <<names, files>>
  <2>1. /\ \A o \in Hosts : o # h => host'[o] = host[o]
        /\ host'[h].fd = host[h].fd
    BY <1>8 DEF RuntimeTypeOK, Processes
  <2>2. \A o \in Hosts : host[o].fd = 0
    BY <1>3, <1>4 DEF HostsHaveTheLog
  <2>3. NamesAreFiles' /\ KeepsEnough'
    BY <1>1, <1>4, <1>8 DEF NamesAreFiles, KeepsEnough, Kept, Content
  <2>4. OneProcess' /\ HostsHaveTheLog'
    BY <1>3, <1>8, <2>1, <2>2 DEF OneProcess, HostsHaveTheLog
  <2>5. QED
    BY <1>6, <2>3, <2>4
<1>9. QED
  BY <1>7, <1>8 DEF LaunchHost

LEMMA HostEndsStep ==
    ASSUME RuntimeTypeOK, AuditInvariant, NEW h \in Hosts, HostEnds(h)
    PROVE  AuditInvariant'
<1>1. /\ host' = [host EXCEPT ![h] = Down]
      /\ run' = [r \in Runs |-> IF run[r].host = h THEN Idle ELSE run[r]]
      /\ UNCHANGED <<names, files, acked, silenced, shared>>
  BY DEF HostEnds
<1>2. SUFFICES ASSUME Orderly
               PROVE  /\ OneProcess' /\ HostsHaveTheLog' /\ NamesAreFiles'
                      /\ RunsAreHosted' /\ OneLogs' /\ KeepsEnough'
  BY <1>1 DEF AuditInvariant, Orderly
<1>3. OneProcess /\ HostsHaveTheLog /\ NamesAreFiles /\ RunsAreHosted /\ OneLogs /\ KeepsEnough
  BY <1>2 DEF AuditInvariant
<1>4. ~Down.up /\ Down.fd = 0 /\ Idle.at = "idle"
  BY DEF Down, Idle
<1>5. host'[h] = Down /\ \A o \in Hosts : o # h => host'[o] = host[o]
  BY <1>1 DEF RuntimeTypeOK
<1>6. OneProcess' /\ HostsHaveTheLog'
  BY <1>1, <1>3, <1>4, <1>5 DEF OneProcess, HostsHaveTheLog
<1>7. NamesAreFiles' /\ KeepsEnough'
  BY <1>1, <1>3 DEF NamesAreFiles, KeepsEnough, Kept, Content
<1>8. \A r \in Runs : \/ run'[r].at = "idle"
                      \/ run'[r] = run[r] /\ run[r].host # h
  BY <1>1, <1>4
<1>9. OneLogs'
  BY <1>3, <1>8 DEF OneLogs, Logging
<1>10. ASSUME NEW r \in Runs PROVE RunIsHosted(r, run[r])'
  <2>1. CASE run'[r].at = "idle"
    BY <2>1 DEF RunIsHosted
  <2>2. CASE run'[r] = run[r] /\ run[r].host # h
    <3>1. RunIsHosted(r, run[r]) /\ run[r].host \in Hosts
      BY <1>3 DEF RunsAreHosted, RuntimeTypeOK, RunRecords
    <3>2. host'[run[r].host] = host[run[r].host]
      BY <1>5, <2>2, <3>1
    <3>3. QED
      BY <1>1, <1>8, <2>2, <3>1, <3>2 DEF RunIsHosted
  <2>3. QED
    BY <1>8, <2>1, <2>2
<1>11. QED
  BY <1>6, <1>7, <1>9, <1>10 DEF RunsAreHosted

\* What holds of a run that logs, or is about to.
LEMMA WhoLogs ==
    ASSUME RuntimeTypeOK, AuditInvariant, Orderly, NEW r \in Runs,
           run[r].at \in {"log"} \cup Logging
    PROVE  /\ run[r].host \in Hosts /\ host[run[r].host].up
           /\ \A o \in Hosts : host[o].up => o = run[r].host
           /\ \A o \in Runs : o # r /\ run[o].at # "idle" => run[o].host # "test"
           /\ \A o \in Runs : run[o].at # "idle" => run[o].host = run[r].host
           /\ run[r].at \in Logging \/ ~host[run[r].host].busy =>
                  \A o \in Runs : o # r => run[o].at \notin Logging
           /\ run[r].at = "log" /\ ~host[run[r].host].busy => host[run[r].host].fd # 0
<1>1. /\ OneProcess /\ HostsHaveTheLog /\ RunsAreHosted /\ OneLogs
      /\ \A o \in Runs : run[o].host \in Hosts
  BY DEF AuditInvariant, RuntimeTypeOK, RunRecords
<1>2. run[r].at # "idle"
  BY DEF Logging
<1>3. RunIsHosted(r, run[r]) /\ host[run[r].host].up
  BY <1>1, <1>2 DEF RunsAreHosted, RunIsHosted
<1>4. \A o \in Hosts : host[o].up => o = run[r].host
  BY <1>1, <1>3 DEF OneProcess
<1>5. \A o \in Runs : run[o].at # "idle" => run[o].host = run[r].host
  BY <1>1, <1>4 DEF RunsAreHosted, RunIsHosted
<1>6. \A o \in Runs : o # r /\ run[o].at # "idle" => run[o].host # "test"
  BY <1>2, <1>3, <1>5 DEF RunIsHosted
<1>7. ASSUME NEW o \in Runs, o # r, run[o].at \in Logging
      PROVE  run[r].at \notin Logging /\ host[run[r].host].busy
  <2>1. run[o].at # "idle"
    BY <1>7 DEF Logging
  <2>2. RunIsHosted(o, run[o]) /\ run[o].host = run[r].host
    BY <1>1, <1>5, <2>1 DEF RunsAreHosted
  <2>3. QED
    BY <1>1, <1>7, <2>1, <2>2 DEF RunIsHosted, OneLogs
<1>8. run[r].at = "log" /\ ~host[run[r].host].busy => host[run[r].host].fd # 0
  <2>1. run[r].host = "serve" \/ run[r].host = "test"
    BY <1>1 DEF Hosts
  <2>2. QED
    BY <1>1, <1>2, <1>3, <2>1 DEF HostsHaveTheLog, RunIsHosted
<1>9. QED
  BY <1>1, <1>3, <1>4, <1>5, <1>6, <1>7, <1>8

\* A step of a logger r to stage at, in a process that stays up.
LEMMA LoggersStep ==
    ASSUME RuntimeTypeOK, AuditInvariant, NEW r \in Runs,
           run[r].at \in {"log"} \cup Logging,
           run[r].at \in Logging \/ ~host[run[r].host].busy,
           NEW at \in RunStages \ {"log"}, Becomes(r, at) \/ (Done(r) /\ at = "idle"),
           UNCHANGED <<silenced, shared>>,
           \A o \in Hosts : o # run[r].host => host'[o] = host[o],
           Orderly =>
               /\ host'[run[r].host].up
               /\ at \in Logging => host'[run[r].host].busy
               /\ host'[run[r].host].fd # 0 => host'[run[r].host].fd = names'.log
               /\ ~host'[run[r].host].busy \/ at = "write" => host'[run[r].host].fd # 0
               /\ at = "rename" => /\ names'.log # 0 /\ Len(files'[names'.log]) >= RotateAt
                                   /\ host'[run[r].host].fd = 0
               /\ NamesAreFiles' /\ KeepsEnough'
    PROVE  AuditInvariant'
<1>1. Orderly' = Orderly
  BY DEF Orderly
<1>2. SUFFICES ASSUME Orderly
               PROVE  OneProcess' /\ HostsHaveTheLog' /\ RunsAreHosted' /\ OneLogs'
  BY <1>1 DEF AuditInvariant
<1> PICK h \in Hosts : h = run[r].host
  BY DEF RuntimeTypeOK, RunRecords
<1>3. /\ \A o \in Hosts : host[o].up => o = h
      /\ \A o \in Runs : o # r /\ run[o].at # "idle" => run[o].host # "test" /\ run[o].host = h
      /\ \A o \in Runs : o # r => run[o].at \notin Logging
  BY <1>2, WhoLogs
<1>4. run'[r].at = at /\ (at # "idle" => run'[r].host = h /\ run'[r].kind = run[r].kind)
      /\ \A o \in Runs : o # r => run'[o] = run[o]
  <2>1. CASE Becomes(r, at)
    BY <2>1 DEF Becomes, RuntimeTypeOK, RunRecords
  <2>2. CASE Done(r) /\ at = "idle"
    BY <2>2 DEF Done, Idle, RuntimeTypeOK, RunRecords
  <2>3. QED
    BY <2>1, <2>2
<1>5. OneProcess /\ HostsHaveTheLog /\ RunsAreHosted
  BY <1>2 DEF AuditInvariant
<1>6. OneProcess'
  BY <1>3 DEF OneProcess
<1>7. \A o \in Hosts : o # h => host'[o].fd = 0 /\ ~host'[o].up
  BY <1>3, <1>5 DEF HostsHaveTheLog
<1>8. HostsHaveTheLog'
  BY <1>2, <1>7 DEF HostsHaveTheLog
<1>9. OneLogs'
  BY <1>3, <1>4 DEF OneLogs
<1>10. RunIsHosted(r, run[r])'
  <2>1. run[r].host = "serve" <=> run[r].kind = "call"
    BY <1>5 DEF RunsAreHosted, RunIsHosted, Logging
  <2>2. at # "idle" =>
            /\ run'[r].host = h /\ run'[r].kind = run[r].kind
            /\ host'[h].up
    BY <1>2, <1>4
  <2>3. \A o \in Runs : o # r /\ run'[o].at # "idle" => run'[o].host # "test"
    BY <1>3, <1>4
  <2>4. QED
    BY <1>2, <1>4, <2>1, <2>2, <2>3 DEF RunIsHosted
<1>11. ASSUME NEW o \in Runs, o # r PROVE RunIsHosted(o, run[o])'
  <2>1. run'[o] = run[o] /\ RunIsHosted(o, run[o])
    BY <1>4, <1>5, <1>11 DEF RunsAreHosted
  <2>2. run[o].at # "idle" => run[o].host = h /\ run[o].host # "test" /\ host'[h].up
    BY <1>2, <1>3, <1>11
  <2>3. run[o].at # "rename" /\ run[o].at # "write" /\ run[o].at \notin Logging
    BY <1>3, <1>11 DEF Logging
  <2>4. QED
    BY <2>1, <2>2, <2>3 DEF RunIsHosted
<1>12. QED
  BY <1>6, <1>8, <1>9, <1>10, <1>11 DEF RunsAreHosted

\* The process of a logger, with its mutex and its file as they become.
LEMMA LoggersHost ==
    ASSUME RuntimeTypeOK, NEW h \in Hosts, NEW busy \in BOOLEAN, NEW fd \in Nat
    PROVE  /\ host' = [host EXCEPT ![h].busy = busy, ![h].fd = fd] =>
                  /\ host'[h].busy = busy /\ host'[h].fd = fd /\ host'[h].up = host[h].up
                  /\ \A o \in Hosts : o # h => host'[o] = host[o]
           /\ host' = [host EXCEPT ![h].busy = busy] =>
                  /\ host'[h].busy = busy /\ host'[h].fd = host[h].fd /\ host'[h].up = host[h].up
                  /\ \A o \in Hosts : o # h => host'[o] = host[o]
           /\ host' = [host EXCEPT ![h].up = TRUE, ![h].fd = fd] =>
                  /\ host'[h].busy = host[h].busy /\ host'[h].fd = fd /\ host'[h].up
                  /\ \A o \in Hosts : o # h => host'[o] = host[o]
<1>1. host \in [Hosts -> Processes]
  BY DEF RuntimeTypeOK
<1>2. ASSUME host' = [host EXCEPT ![h].busy = busy, ![h].fd = fd]
      PROVE  /\ host'[h].busy = busy /\ host'[h].fd = fd /\ host'[h].up = host[h].up
             /\ \A o \in Hosts : o # h => host'[o] = host[o]
  BY <1>1, <1>2 DEF Processes
<1>3. ASSUME host' = [host EXCEPT ![h].busy = busy]
      PROVE  /\ host'[h].busy = busy /\ host'[h].fd = host[h].fd /\ host'[h].up = host[h].up
             /\ \A o \in Hosts : o # h => host'[o] = host[o]
  BY <1>1, <1>3 DEF Processes
<1>4. ASSUME host' = [host EXCEPT ![h].up = TRUE, ![h].fd = fd]
      PROVE  /\ host'[h].busy = host[h].busy /\ host'[h].fd = fd /\ host'[h].up
             /\ \A o \in Hosts : o # h => host'[o] = host[o]
  BY <1>1, <1>4 DEF Processes
<1>5. QED
  BY <1>2, <1>3, <1>4

\* Without the backup, the latest entries are left; a full log is enough of them.
LEMMA BackupIsOlder ==
    ASSUME RuntimeTypeOK, NamesAreFiles, KeepsEnough
    PROVE  AreTheLatest(Content("log"), acked)
  BY ContentTyped, LatestEntries DEF KeepsEnough, Kept, RuntimeTypeOK

LEMMA BeginLogStep ==
    ASSUME RuntimeTypeOK, AuditInvariant, NEW r \in Runs, BeginLog(r)
    PROVE  AuditInvariant'
<1> PICK h \in Hosts : h = run[r].host
  BY DEF RuntimeTypeOK, RunRecords
<1> PICK fd \in Nat : fd = host[h].fd
  BY DEF RuntimeTypeOK, Processes
<1>1. run[r].at = "log" /\ ~host[h].busy /\ UNCHANGED <<files, acked, silenced, shared>>
  BY DEF BeginLog
<1>2. {"rename", "write"} \subseteq RunStages \ {"log"} /\ {"rename", "write"} \subseteq Logging
  BY DEF RunStages, Logging
<1>3. ASSUME Orderly
      PROVE  /\ host[h].up /\ fd # 0 /\ fd = names.log
             /\ NamesAreFiles /\ KeepsEnough
  BY <1>1, <1>3, WhoLogs DEF AuditInvariant, HostsHaveTheLog
<1>4. CASE /\ fd # 0 /\ Len(files[fd]) >= RotateAt
           /\ Becomes(r, "rename")
           /\ host' = [host EXCEPT ![h].busy = TRUE, ![h].fd = 0]
           /\ names' = [names EXCEPT !.backup = 0] \/ UNCHANGED names
  <2>1. /\ host'[h].busy /\ host'[h].fd = 0 /\ host'[h].up = host[h].up
        /\ \A o \in Hosts : o # h => host'[o] = host[o]
    <3>1. host' = [host EXCEPT ![h].busy = TRUE, ![h].fd = 0] /\ TRUE \in BOOLEAN /\ 0 \in Nat
      BY <1>4
    <3>2. /\ host'[h].busy = TRUE /\ host'[h].fd = 0 /\ host'[h].up = host[h].up
          /\ \A o \in Hosts : o # h => host'[o] = host[o]
      BY <3>1, LoggersHost, Zenon
    <3>3. QED
      BY <3>2
  <2>2. names'.log = names.log /\ names'.backup \in {0, names.backup}
    <3>1. names \in [{"log", "backup"} -> Nat]
      BY DEF RuntimeTypeOK
    <3>2. CASE names' = [names EXCEPT !.backup = 0]
      BY <3>1, <3>2
    <3>3. CASE names' = names
      BY <3>1, <3>3
    <3>4. QED
      BY <1>4, <3>2, <3>3
  <2>3. ASSUME Orderly
        PROVE  /\ names'.log # 0 /\ Len(files'[names'.log]) >= RotateAt
               /\ NamesAreFiles' /\ KeepsEnough'
    <3>1. names'.log # 0 /\ Len(files'[names'.log]) >= RotateAt
      BY <1>1, <1>3, <1>4, <2>2, <2>3
    <3>2. NamesAreFiles'
      <4>1. NamesAreFiles /\ Len(files) \in Nat /\ files' = files
        BY <1>1, <1>3, <2>3 DEF RuntimeTypeOK
      <4>2. 0 \in 0..Len(files)
        BY <4>1
      <4>3. QED
        BY <2>2, <3>1, <4>1, <4>2 DEF NamesAreFiles
    <3>3. ASSUME names'.backup = names.backup PROVE KeepsEnough'
      <4>1. Kept' = Kept
        BY <1>1, <2>2, <3>3 DEF Kept, Content
      <4>2. QED
        BY <1>1, <1>3, <2>3, <4>1 DEF KeepsEnough
    <3>4. ASSUME names'.backup = 0 PROVE KeepsEnough'
      <4>1. Content("log")' = Content("log") /\ Content("backup")' = << >>
        BY <1>1, <2>2, <3>4 DEF Content
      <4>2. Kept' = Content("log")
        BY <1>3, <2>3, <4>1, ContentTyped DEF Kept
      <4>3. Len(Content("log")) >= RotateAt
        BY <1>3, <1>4, <2>3 DEF Content
      <4>4. AreTheLatest(Content("log"), acked) /\ acked' = acked
        BY <1>1, <1>3, <2>3, BackupIsOlder
      <4>5. AreTheLatest(Kept', acked')
        BY <4>2, <4>4
      <4>6. QED
        BY <4>2, <4>3, <4>5 DEF KeepsEnough, AreTheLatest
    <3>5. QED
      BY <2>2, <3>1, <3>2, <3>3, <3>4
  <2>4. QED
    BY <1>1, <1>2, <1>3, <1>4, <2>1, <2>3, LoggersStep
<1>5. CASE /\ Becomes(r, "write")
           /\ host' = [host EXCEPT ![h].busy = TRUE, ![h].fd = fd]
           /\ UNCHANGED names
  <2>1. /\ host'[h].busy /\ host'[h].fd = fd /\ host'[h].up = host[h].up
        /\ \A o \in Hosts : o # h => host'[o] = host[o]
    <3>1. TRUE \in BOOLEAN /\ fd \in Nat
      BY <1>2
    <3>2. host' = [host EXCEPT ![h].busy = TRUE, ![h].fd = fd]
      BY <1>5
    <3>3. host \in [Hosts -> Processes]
      BY <1>1 DEF RuntimeTypeOK
    <3>4. QED
      BY <3>1, <3>2, <3>3 DEF Processes
  <2>2. Orderly => NamesAreFiles' /\ KeepsEnough'
    BY <1>1, <1>3, <1>5 DEF NamesAreFiles, KeepsEnough, Kept, Content
  <2>3. QED
    BY <1>1, <1>2, <1>3, <1>5, <2>1, <2>2, LoggersStep
<1>6. QED
  BY <1>4, <1>5 DEF BeginLog, Logs

LEMMA RenameLogStep ==
    ASSUME RuntimeTypeOK, AuditInvariant, NEW r \in Runs, RenameLog(r)
    PROVE  AuditInvariant'
<1> PICK h \in Hosts : h = run[r].host
  BY DEF RuntimeTypeOK, RunRecords
<1>1. run[r].at = "rename" /\ Becomes(r, "reopen")
      /\ UNCHANGED <<host, files, acked, silenced, shared>>
      /\ \/ names.log # 0 /\ names' = [log |-> 0, backup |-> names.log]
         \/ UNCHANGED names
  BY DEF RenameLog
<1>2. "reopen" \in RunStages \ {"log"} /\ "rename" \in Logging /\ "rename" # "idle"
  BY DEF RunStages, Logging
<1>3. ASSUME Orderly
      PROVE  /\ host[h].up /\ host[h].busy
             /\ names.log # 0 /\ Len(files[names.log]) >= RotateAt
             /\ host[h].fd # 0 => host[h].fd = names.log
             /\ NamesAreFiles /\ KeepsEnough
  BY <1>1, <1>2, <1>3 DEF AuditInvariant, HostsHaveTheLog, RunsAreHosted, RunIsHosted
<1>4. ASSUME Orderly, UNCHANGED names PROVE NamesAreFiles' /\ KeepsEnough'
  BY <1>1, <1>3, <1>4 DEF NamesAreFiles, KeepsEnough, Kept, Content
<1>5. ASSUME Orderly, names' = [log |-> 0, backup |-> names.log]
      PROVE  NamesAreFiles' /\ KeepsEnough'
  <2>1. names'.log = 0 /\ names'.backup = names.log
    BY <1>5
  <2>2. NamesAreFiles'
    BY <1>1, <1>3, <1>5, <2>1 DEF NamesAreFiles, RuntimeTypeOK
  <2>3. Content("log")' = << >> /\ Content("backup")' = Content("log")
    BY <1>1, <1>3, <1>5, <2>1 DEF Content
  <2>4. Kept' = Content("log")
    BY <1>3, <1>5, <2>3, ContentTyped DEF Kept
  <2>5. Len(Content("log")) >= RotateAt /\ AreTheLatest(Content("log"), acked)
    BY <1>3, <1>5, BackupIsOlder DEF Content
  <2>6. KeepsEnough'
    BY <1>1, <2>4, <2>5 DEF KeepsEnough, AreTheLatest
  <2>7. QED
    BY <2>2, <2>6
<1>6. Orderly => host[h].fd = 0
  BY <1>1, <1>2 DEF AuditInvariant, RunsAreHosted, RunIsHosted
<1>7. QED
  BY <1>1, <1>2, <1>3, <1>4, <1>5, <1>6, LoggersStep

LEMMA ReopenLogStep ==
    ASSUME RuntimeTypeOK, AuditInvariant, NEW r \in Runs, ReopenLog(r)
    PROVE  AuditInvariant'
<1> PICK h \in Hosts : h = run[r].host
  BY DEF RuntimeTypeOK, RunRecords
<1>1. /\ run[r].at = "reopen" /\ OpenLog(h) /\ Becomes(r, "write")
      /\ UNCHANGED <<acked, silenced, shared>>
  BY DEF ReopenLog
<1>2. "write" \in RunStages \ {"log"} /\ {"reopen", "write"} \subseteq Logging
  BY DEF RunStages, Logging
<1>3. /\ names'.log \in Nat
      /\ host' = [host EXCEPT ![h].up = TRUE, ![h].fd = names'.log]
  BY <1>1, OpenLogTyped DEF OpenLog
<1>4. /\ host'[h].busy = host[h].busy /\ host'[h].fd = names'.log /\ host'[h].up
      /\ \A o \in Hosts : o # h => host'[o] = host[o]
  BY <1>3 DEF RuntimeTypeOK, Processes
<1>5. ASSUME Orderly
      PROVE  host[h].busy /\ NamesAreFiles' /\ KeepsEnough' /\ names'.log # 0
  <2>1. NamesAreFiles /\ KeepsEnough /\ RunsAreHosted
    BY <1>5 DEF AuditInvariant
  <2>2. host[h].busy
    BY <1>1, <1>2, <2>1 DEF RunsAreHosted, RunIsHosted
  <2>3. QED
    BY <1>1, <2>1, <2>2, OpenedLog
<1>6. QED
  BY <1>1, <1>2, <1>4, <1>5, LoggersStep

\* From then on the property says nothing.
LEMMA ReopenFailsStep ==
    ASSUME NEW r \in Runs, ReopenFails(r)
    PROVE  AuditInvariant'
  BY DEF ReopenFails, AuditInvariant, Orderly

LEMMA WriteEntryStep ==
    ASSUME RuntimeTypeOK, AuditInvariant, NEW r \in Runs, WriteEntry(r)
    PROVE  AuditInvariant'
<1> PICK h \in Hosts : h = run[r].host
  BY DEF RuntimeTypeOK, RunRecords
<1>1. /\ run[r].at = "write" /\ Done(r)
      /\ host' = [host EXCEPT ![h].busy = FALSE]
      /\ UNCHANGED <<names, silenced, shared>>
  BY DEF WriteEntry
<1>2. "idle" \in RunStages \ {"log"} /\ "write" \in Logging /\ "idle" \notin Logging
  BY DEF RunStages, Logging
<1>3. /\ ~host'[h].busy /\ host'[h].fd = host[h].fd /\ host'[h].up = host[h].up
      /\ \A o \in Hosts : o # h => host'[o] = host[o]
  BY <1>1 DEF RuntimeTypeOK, Processes
<1>4. ASSUME Orderly
      PROVE  /\ host[h].up /\ host[h].fd # 0 /\ host[h].fd = names.log
             /\ NamesAreFiles' /\ KeepsEnough'
  <2>1. NamesAreFiles /\ KeepsEnough /\ RunsAreHosted /\ HostsHaveTheLog
    BY <1>4 DEF AuditInvariant
  <2>2. host[h].up /\ host[h].fd # 0 /\ host[h].fd = names.log
    BY <1>1, <2>1 DEF RunsAreHosted, RunIsHosted, HostsHaveTheLog
  <2> PICK n \in Nat : n = names.log
    BY DEF RuntimeTypeOK
  <2>3. n \in 1..Len(files) /\ names.backup \in 0..Len(files) /\ names.backup # n
    BY <2>1, <2>2 DEF NamesAreFiles, RuntimeTypeOK
  <2>4. CASE files' = files /\ acked' = acked
    BY <1>1, <2>1, <2>2, <2>4 DEF NamesAreFiles, KeepsEnough, Kept, Content
  <2>5. ASSUME NEW whole \in BOOLEAN, files' = [files EXCEPT ![n] = Append(@, Line(whole))],
               acked' = acked + (IF whole THEN 1 ELSE 0)
        PROVE  NamesAreFiles' /\ KeepsEnough'
    <3>1. PICK x \in LogLines : x = Line(whole)
      BY LineTyped
    <3>2. x.entry = acked + 1 /\ x.whole = whole /\ acked \in Nat /\ acked' \in Nat
      BY <2>5, <3>1, LineTyped DEF RuntimeTypeOK
    <3>3. /\ Len(files') = Len(files) /\ files'[n] = Append(files[n], x)
          /\ \A i \in 1..Len(files) : i # n => files'[i] = files[i]
      BY <2>3, <2>5, <3>1 DEF RuntimeTypeOK
    <3>4. NamesAreFiles'
      BY <1>1, <2>1, <3>3 DEF NamesAreFiles
    <3>5. Content("log")' = Append(Content("log"), x)
      BY <1>1, <2>3, <3>3 DEF Content
    <3>6. Content("backup")' = Content("backup")
      BY <1>1, <2>3, <3>3 DEF Content
    <3>7. Content("backup") \in Seq(LogLines) /\ Content("log") \in Seq(LogLines)
      BY <2>1, ContentTyped
    <3>8. Kept \in Seq(LogLines) /\ Kept' = Append(Kept, x)
      <4>1. Content("backup") \o Append(Content("log"), x) = Append(Kept, x)
        BY <3>7, AppendLast DEF Kept
      <4>2. Kept' = Content("backup") \o Append(Content("log"), x)
        BY <3>5, <3>6 DEF Kept
      <4>3. Kept \in Seq(LogLines)
        BY <3>7 DEF Kept
      <4>4. QED
        BY <4>1, <4>2, <4>3
    <3>9. /\ AreTheLatest(Kept', acked') /\ Len(Kept') = Len(Kept) + 1
          /\ EntryAt(Kept', acked', 1) = EntryAt(Kept, acked, 1)
      <4>1. PICK m \in Nat : m = acked'
        BY <3>2
      <4>2. m = acked + (IF x.whole THEN 1 ELSE 0) /\ AreTheLatest(Kept, acked)
        BY <2>1, <2>5, <3>2, <4>1 DEF KeepsEnough
      <4>3. /\ AreTheLatest(Append(Kept, x), m) /\ Len(Append(Kept, x)) = Len(Kept) + 1
            /\ EntryAt(Append(Kept, x), m, 1) = EntryAt(Kept, acked, 1)
        BY <3>2, <3>8, <4>2, LineMore
      <4>4. QED
        BY <3>8, <4>1, <4>3
    <3>10. Len(Kept) \in Nat /\ RotateAt \in Nat
      BY <3>8, RuntimeAssumption
    <3>11. KeepsEnough'
      BY <2>1, <3>9, <3>10 DEF KeepsEnough, AreTheLatest, EntryAt
    <3>12. QED
      BY <3>4, <3>11
  <2>6. \/ files' = files /\ acked' = acked
        \/ \E whole \in BOOLEAN : /\ files' = [files EXCEPT ![n] = Append(@, Line(whole))]
                                  /\ acked' = acked + (IF whole THEN 1 ELSE 0)
    <3>1. acked + 0 = acked
      BY DEF RuntimeTypeOK
    <3>2. host[run[r].host].fd = n /\ n # 0
      BY <2>2
    <3>3. CASE files' = [files EXCEPT ![n] = Append(@, Line(TRUE))] /\ acked' = acked + 1
      BY <3>3
    <3>4. CASE files' = [files EXCEPT ![n] = Append(@, Line(FALSE))] /\ acked' = acked
      BY <3>1, <3>4
    <3>5. CASE files' = files /\ acked' = acked
      BY <3>5
    <3>6. QED
      BY <3>2, <3>3, <3>4, <3>5 DEF WriteEntry
  <2>7. QED
    BY <2>2, <2>4, <2>5, <2>6
<1>5. QED
  BY <1>1, <1>2, <1>3, <1>4, LoggersStep

LEMMA AuditStep == SlotsInvariant /\ AuditInvariant /\ [RuntimeNext]_runtimeVars => AuditInvariant'
<1> SUFFICES ASSUME RuntimeTypeOK, AuditInvariant, [RuntimeNext]_runtimeVars
             PROVE  AuditInvariant'
  BY DEF SlotsInvariant
<1>1. CASE UNCHANGED runtimeVars
  <2>1. UNCHANGED <<host, run, names, files, acked, silenced, shared>>
    BY <1>1 DEF runtimeVars
  <2>2. QED
    BY <2>1 DEF AuditInvariant, Orderly, OneProcess, HostsHaveTheLog, NamesAreFiles,
                RunsAreHosted, RunIsHosted, OneLogs, KeepsEnough, Kept, Content
<1>2. CASE \E h \in Hosts : LaunchHost(h) \/ HostEnds(h)
  BY <1>2, LaunchStep, HostEndsStep
<1>3. ASSUME NEW r \in Runs,
             \/ Invoke(r) \/ ValidatePath(r) \/ LoadDotEnv(r) \/ Expire(r) \/ TakeSlot(r)
             \/ TimeOutWaiting(r) \/ ReleaseSlot(r) \/ CheckTimeout(r)
      PROVE  AuditInvariant'
  BY <1>3, ExecutorSteps
<1>4. ASSUME NEW r \in Runs,
             BeginLog(r) \/ RenameLog(r) \/ ReopenLog(r) \/ ReopenFails(r) \/ WriteEntry(r)
      PROVE  AuditInvariant'
  BY <1>4, BeginLogStep, RenameLogStep, ReopenLogStep, ReopenFailsStep, WriteEntryStep
<1>5. QED
  BY <1>1, <1>2, <1>3, <1>4 DEF RuntimeNext

\* While one process logs at a time and no file failed to open again, the log and its
\* backup hold the latest entries that Log acknowledged, without a gap and with nothing
\* but parts of failed lines among them, a whole file of that if there was as much,
\* wherever a write or a rotation fails or is cut short (logger.go:63-108).
THEOREM TheLatestStayAudited == RuntimeSpec => []AuditKeepsTheLatest
<1>1. RuntimeSpec => []SlotsInvariant
  BY InitSlots, RuntimeStep, PTL DEF RuntimeSpec
<1>2. RuntimeSpec => []AuditInvariant
  BY <1>1, InitAudit, AuditStep, PTL DEF RuntimeSpec
<1>3. AuditInvariant => AuditKeepsTheLatest
  BY DEF AuditInvariant, Orderly, KeepsEnough, AreTheLatest, Kept, AuditKeepsTheLatest
<1>4. QED
  BY <1>2, <1>3, PTL
=============================================================================
