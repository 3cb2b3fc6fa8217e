--------------------------- MODULE ToolServerProofs ---------------------------
(***************************************************************************)
(* Proofs about the tool life cycle: the commands of ToolReview beside the *)
(* calls of ToolServer.                                                    *)
(***************************************************************************)
EXTENDS ToolServer, WellFoundedInduction, SequenceTheorems, TLAPS

-----------------------------------------------------------------------------
(* Numbers, and the two helpers that are defined by recursion or choice.   *)

\* A set of numbers that is not empty has a least element.
LEMMA LeastNumber ==
    ASSUME NEW S \in SUBSET Nat, S # {}
    PROVE  \E x \in S : \A y \in S : x <= y
<1> DEFINE R == {p \in Nat \X Nat : p[1] < p[2]}
<1>1. R = OpToRel(<, Nat)
  BY DEF OpToRel
<1>2. IsWellFoundedOn(R, Nat)
  BY <1>1, NatLessThanWellFounded
<1>3. \E x \in S : \A y \in S : ~(<<y, x>> \in R)
  <2> HIDE DEF R
  <2> QED BY <1>2, WFMin
<1>4. PICK x \in S : \A y \in S : ~(<<y, x>> \in R)
  BY <1>3
<1>5. ASSUME NEW y \in S PROVE x <= y
  <2>1. x \in Nat /\ y \in Nat /\ <<y, x>> \notin R
    BY <1>4
  <2>2. ~(y < x)
    BY <2>1
  <2> QED BY <2>1, <2>2
<1> QED BY <1>5

\* A bounded one has a greatest.
LEMMA GreatestNumber ==
    ASSUME NEW m \in Nat, NEW S \in SUBSET (0 .. m), S # {}
    PROVE  \E x \in S : \A y \in S : y <= x
<1> DEFINE T == {m - x : x \in S}
<1>1. T \in SUBSET Nat /\ T # {}
  <2>1. \A x \in S : m - x \in Nat
    <3>1. \A x \in 0 .. m : m - x \in Nat
      OBVIOUS
    <3> QED BY <3>1
  <2>2. PICK x \in S : TRUE
    OBVIOUS
  <2> QED BY <2>1, <2>2
<1>2. PICK least \in T : \A u \in T : least <= u
  <2> HIDE DEF T
  <2> QED BY <1>1, LeastNumber
<1>3. PICK x \in S : least = m - x
  OBVIOUS
<1>4. \A a, b \in 0 .. m : m - a <= m - b => b <= a
  OBVIOUS
<1>5. ASSUME NEW y \in S PROVE y <= x
  <2>1. m - y \in T
    OBVIOUS
  <2>2. m - x <= m - y
    BY <1>2, <1>3, <2>1
  <2>3. x \in 0 .. m /\ y \in 0 .. m
    OBVIOUS
  <2> HIDE DEF T
  <2> QED BY <1>4, <2>2, <2>3
<1> QED BY <1>5

\* What is kept of a sequence is a sequence of kept elements.
LEMMA KeptType ==
    ASSUME NEW T, NEW seq \in Seq(T), NEW S
    PROVE  Kept(seq, S) \in Seq(S \cap T)
<1> DEFINE Step(g, i) == IF i = 0 THEN << >>
                         ELSE IF seq[i] \in S THEN Append(g[i - 1], seq[i]) ELSE g[i - 1]
           Follows(g, k) == g = [i \in 0 .. k |-> Step(g, i)]
           N == Len(seq)
           Good == {k \in 0 .. N : \E g : Follows(g, k)}
<1>0. N \in Nat
  OBVIOUS
<1>1. Good = 0 .. N
  <2> SUFFICES ASSUME (0 .. N) \ Good # {} PROVE FALSE
    OBVIOUS
  <2>1. PICK m \in (0 .. N) \ Good : \A k \in (0 .. N) \ Good : m <= k
    <3> HIDE DEF Good
    <3>1. (0 .. N) \ Good \in SUBSET Nat
      OBVIOUS
    <3> QED BY <3>1, LeastNumber
  <2>2. CASE m = 0
    <3>1. Follows([i \in 0 .. 0 |-> << >>], 0)
      OBVIOUS
    <3> QED BY <3>1, <2>1, <2>2, <1>0
  <2>3. CASE m # 0
    <3>1. m - 1 \in 0 .. N /\ m - 1 \in Good
      <4>1. m - 1 \in 0 .. N /\ ~(m <= m - 1)
        BY <2>3, <2>1, <1>0
      <4> HIDE DEF Good
      <4> QED BY <4>1, <2>1
    <3>2. PICK g : Follows(g, m - 1)
      BY <3>1
    <3> DEFINE h == [i \in 0 .. m |-> IF i = m THEN Step(g, m) ELSE g[i]]
    <3>3. \A i \in 0 .. m : h[i] = Step(h, i)
      <4> SUFFICES ASSUME NEW i \in 0 .. m PROVE h[i] = Step(h, i)
        OBVIOUS
      <4>1. CASE i = m
        <5>1. h[m - 1] = g[m - 1]
          BY <2>3, <1>0
        <5> QED BY <4>1, <5>1, <2>3
      <4>2. CASE i # m
        <5>1. i \in 0 .. m - 1 /\ h[i] = g[i]
          BY <4>2
        <5>2. g[i] = Step(g, i)
          BY <3>2, <5>1
        <5>3. i # 0 => i - 1 \in 0 .. m /\ h[i - 1] = g[i - 1]
          BY <5>1
        <5> QED BY <5>1, <5>2, <5>3
      <4> QED BY <4>1, <4>2
    <3>4. h = [i \in 0 .. m |-> Step(h, i)]
      <4> HIDE DEF Step
      <4>1. h = [i \in 0 .. m |-> h[i]]
        OBVIOUS
      <4> HIDE DEF h
      <4> QED BY <4>1, <3>3
    <3> QED BY <3>4, <2>1
  <2> QED BY <2>2, <2>3
<1> DEFINE f == CHOOSE g : Follows(g, N)
<1>2. Follows(f, N)
  <2>1. N \in Good
    <3> HIDE DEF Good
    <3> QED BY <1>0, <1>1
  <2>2. \E g : Follows(g, N)
    BY <2>1
  <2> HIDE DEF Follows
  <2> QED BY <2>2
<1>3. Kept(seq, S) = f[N]
  BY DEF Kept
<1> DEFINE Bad == {i \in 0 .. N : f[i] \notin Seq(S \cap T)}
<1>4. Bad = {}
  <2> HIDE DEF f
  <2> SUFFICES ASSUME Bad # {} PROVE FALSE
    OBVIOUS
  <2>1. PICK m \in Bad : \A k \in Bad : m <= k
    <3>1. Bad \in SUBSET Nat
      OBVIOUS
    <3> HIDE DEF Bad
    <3> QED BY <3>1, LeastNumber
  <2>2. f[m] = Step(f, m)
    BY <1>2
  <2>3. m # 0
    <3>1. << >> \in Seq(S \cap T)
      OBVIOUS
    <3>2. m = 0 => f[m] = << >>
      BY <2>2
    <3> QED BY <2>1, <3>1, <3>2
  <2>4. m - 1 \in 0 .. N /\ m \in 1 .. N
    BY <2>3
  <2>5. f[m - 1] \in Seq(S \cap T)
    BY <2>1, <2>4
  <2>6. seq[m] \in T
    BY <2>4
  <2>7. Step(f, m) \in Seq(S \cap T)
    BY <2>3, <2>5, <2>6
  <2> QED BY <2>1, <2>2, <2>7
<1> QED BY <1>0, <1>3, <1>4

\* Among places there is a last one, when each file has so many of them at most.
LEMMA LastOfIsOne ==
    ASSUME NEW m \in Nat, NEW most \in [0 .. m -> Nat], NEW S, S # {},
           \A p \in S : p[1] \in 0 .. m /\ p[2] \in 0 .. most[p[1]]
    PROVE  LastOf(S) \in S
<1> DEFINE I == {p[1] : p \in S}
<1>1. I \in SUBSET (0 .. m) /\ I # {}
  OBVIOUS
<1>2. PICK i \in I : \A j \in I : j <= i
  <2> HIDE DEF I
  <2> QED BY <1>1, GreatestNumber
<1> DEFINE J == {p[2] : p \in {q \in S : q[1] = i}}
<1>3. J \in SUBSET (0 .. most[i]) /\ J # {} /\ most[i] \in Nat
  <2>1. i \in 0 .. m
    BY <1>1
  <2> QED BY <2>1
<1>4. PICK j \in J : \A l \in J : l <= j
  <2> HIDE DEF J
  <2> QED BY <1>3, GreatestNumber
<1>5. PICK p \in S : p[1] = i /\ p[2] = j
  OBVIOUS
<1>6. ASSUME NEW q \in S PROVE UpTo(q, p)
  <2>1. q[1] \in I /\ q[1] <= i
    BY <1>2
  <2>2. q[1] = i => q[2] \in J
    OBVIOUS
  <2>3. q[1] = i => q[2] <= j
    BY <1>4, <2>2
  <2>4. q[1] \in Nat /\ i \in Nat
    BY <1>1, <2>1
  <2> QED BY <1>5, <2>1, <2>3, <2>4 DEF UpTo
<1> QED BY <1>5, <1>6 DEF LastOf

-----------------------------------------------------------------------------
(* The scan and the transaction of init.                                   *)

Found == [name : Names, meta : Metas, source : Files]

\* A scan finds named tools at places that are bounded.
LEMMA ScanType ==
    ASSUME NEW d \in Disks
    PROVE  /\ DOMAIN ScanDirectory(d) = Places(d)
           /\ \A p \in Places(d) : ScanDirectory(d)[p] \in Found
           /\ \E most \in [0 .. Len(Walk) -> Nat] :
                 \A p \in Places(d) : p[1] \in 0 .. Len(Walk) /\ p[2] \in 0 .. most[p[1]]
<1>1. DOMAIN ScanDirectory(d) = Places(d)
  BY DEF ScanDirectory
<1>2. ASSUME NEW p \in Places(d)
      PROVE  /\ p[1] \in 1 .. Len(Walk) /\ Walk[p[1]] \in Files
             /\ d[Walk[p[1]]] \in Contents
             /\ p[2] \in 1 .. Len(Defines[d[Walk[p[1]]]])
             /\ Len(Defines[d[Walk[p[1]]]]) \in Nat
             /\ Extracted(d, p) \in Range(Defines[d[Walk[p[1]]]])
  <2>1. PICK i \in DOMAIN Walk : d[Walk[i]] # Null /\ p \in {i} \X DOMAIN Defines[d[Walk[i]]]
    BY <1>2 DEF Places
  <2>2. p[1] = i /\ p[2] \in DOMAIN Defines[d[Walk[i]]]
    BY <2>1
  <2>3. i \in 1 .. Len(Walk) /\ Walk[i] \in Files
    BY StoreAssumption
  <2>4. d[Walk[i]] \in Contents
    BY <2>1, <2>3 DEF Disks
  <2> DEFINE c == d[Walk[i]]
  <2>5. Defines[c] \in Seq(Range(Defines[c]))
    BY <2>4, StoreAssumption
  <2> HIDE DEF c
  <2>6. Len(Defines[c]) \in Nat /\ DOMAIN Defines[c] = 1 .. Len(Defines[c])
    BY <2>5
  <2>7. p[2] \in DOMAIN Defines[c] => Defines[c][p[2]] \in Range(Defines[c])
    BY DEF Range
  <2> QED BY <2>2, <2>3, <2>4, <2>6, <2>7 DEF c, Extracted
<1>3. ASSUME NEW p \in Places(d) PROVE ScanDirectory(d)[p] \in Found
  <2>1. ScanDirectory(d)[p] = [name |-> Numbered(Extracted(d, p).name, Occurrence(d, p)),
                               meta |-> Extracted(d, p).meta, source |-> Walk[p[1]]]
    BY <1>3 DEF ScanDirectory
  <2>2. ScanDirectory(d)[p].name \in Names
    BY <1>3, StoreAssumption
  <2>3. Extracted(d, p).meta \in Metas
    BY <1>2, <1>3 DEF Metas
  <2>4. Walk[p[1]] \in Files
    BY <1>2, <1>3
  <2> QED BY <2>1, <2>2, <2>3, <2>4 DEF Found
<1>4. \E most \in [0 .. Len(Walk) -> Nat] :
         \A p \in Places(d) : p[1] \in 0 .. Len(Walk) /\ p[2] \in 0 .. most[p[1]]
  <2> DEFINE size(i) == Len(Defines[d[Walk[i]]])
             most == [i \in 0 .. Len(Walk) |-> IF size(i) \in Nat THEN size(i) ELSE 0]
  <2>1. most \in [0 .. Len(Walk) -> Nat]
    OBVIOUS
  <2>2. ASSUME NEW p \in Places(d)
        PROVE  p[1] \in 0 .. Len(Walk) /\ p[2] \in 0 .. most[p[1]]
    <3>1. p[1] \in 1 .. Len(Walk) /\ size(p[1]) \in Nat /\ p[2] \in 1 .. size(p[1])
      BY <1>2, <2>2
    <3>2. most[p[1]] = size(p[1])
      BY <3>1
    <3> HIDE DEF size, most
    <3> QED BY <3>1, <3>2
  <2> QED BY <2>1, <2>2
<1> QED BY <1>1, <1>3, <1>4

\* The last of several tools with one name is one of them.
LEMMA LastFound ==
    ASSUME NEW d \in Disks, NEW n \in Names, PlacesOf(ScanDirectory(d), n) # {}
    PROVE  LET last == LastOf(PlacesOf(ScanDirectory(d), n))
           IN  last \in PlacesOf(ScanDirectory(d), n) /\ ScanDirectory(d)[last] \in Found
<1> DEFINE P == PlacesOf(ScanDirectory(d), n)
<1>1. P \subseteq Places(d)
  BY ScanType DEF PlacesOf
<1>2. PICK most \in [0 .. Len(Walk) -> Nat] :
         \A p \in Places(d) : p[1] \in 0 .. Len(Walk) /\ p[2] \in 0 .. most[p[1]]
  BY ScanType
<1>3. Len(Walk) \in Nat
  BY StoreAssumption
<1>4. LastOf(P) \in P
  <2> HIDE DEF P
  <2>1. P # {}
    BY DEF P
  <2> QED BY <1>1, <1>2, <1>3, <2>1, LastOfIsOne
<1> QED BY <1>1, <1>4, ScanType

Stored(s) ==
    /\ s = [tools |-> s.tools, resources |-> s.resources]
    /\ s.tools \in [Names -> Row \cup {Null}]

\* What the transaction does to the row of a name.
LEMMA UpsertEffect ==
    ASSUME NEW s, Stored(s), NEW d \in Disks, NEW cfg \in Config
    PROVE  LET new == UpsertToolsBatch(s, ScanDirectory(d), cfg)
           IN  /\ Stored(new)
               /\ \A n \in Names : s.tools[n] # Null =>
                     /\ new.tools[n] # Null
                     /\ new.tools[n].state = s.tools[n].state
                     /\ new.tools[n].hash = s.tools[n].hash
               /\ \A n \in Names : s.tools[n] = Null /\ new.tools[n] # Null =>
                     /\ new.tools[n].state = Discovered(cfg, n)
                     /\ new.tools[n].hash = Null
               /\ \A p \in Places(d) : LET n == ScanDirectory(d)[p].name IN
                     /\ new.tools[n] # Null
                     /\ PlacesOf(ScanDirectory(d), n) = {p} =>
                            new.tools[n].meta = ScanDirectory(d)[p].meta
<1> DEFINE new == UpsertToolsBatch(s, ScanDirectory(d), cfg)
           P(n) == PlacesOf(ScanDirectory(d), n)
           last(n) == ScanDirectory(d)[LastOf(P(n))]
           row(n) == IF P(n) = {} THEN s.tools[n]
                     ELSE UpsertTool(s.tools[n], last(n), Discovered(cfg, n))
<1>1. /\ new = [tools |-> new.tools, resources |-> new.resources]
      /\ new.tools = [n \in Names |-> row(n)]
  <2> DEFINE T == [n \in Names |-> row(n)]
  <2>1. new = [s EXCEPT !.tools = T]
    BY DEF UpsertToolsBatch
  <2> HIDE DEF new, T
  <2>2. s = [tools |-> s.tools, resources |-> s.resources]
    BY DEF Stored
  <2>3. new = [tools |-> T, resources |-> s.resources]
    BY <2>1, <2>2
  <2>4. new.tools = T
    BY <2>3
  <2> QED BY <2>3, <2>4 DEF T
<1> HIDE DEF new
<1>2. ASSUME NEW n \in Names, P(n) # {}
      PROVE  LastOf(P(n)) \in P(n) /\ last(n) \in Found
  BY <1>2, LastFound
<1>3. ASSUME NEW n \in Names PROVE Discovered(cfg, n) \in ToolStates \cup {"typo"}
  BY DEF Discovered, Config, ToolStates
<1>4. ASSUME NEW n \in Names, P(n) # {}, s.tools[n] = Null
      PROVE  row(n) = NewRow(last(n), Discovered(cfg, n))
  BY <1>4 DEF UpsertTool
<1>5. ASSUME NEW n \in Names, P(n) # {}, s.tools[n] # Null
      PROVE  row(n) = [s.tools[n] EXCEPT !.source = last(n).source, !.meta = last(n).meta]
  BY <1>5 DEF UpsertTool
<1> HIDE DEF P, last
<1>6. ASSUME NEW n \in Names PROVE s.tools[n] \in Row \cup {Null}
  BY DEF Stored
<1>7. ASSUME NEW n \in Names, P(n) # {}, s.tools[n] = Null
      PROVE  /\ row(n) \in Row /\ row(n).meta = last(n).meta
             /\ row(n).state = Discovered(cfg, n) /\ row(n).hash = Null
  <2>1. row(n) = NewRow(last(n), Discovered(cfg, n))
    BY <1>4, <1>7
  <2>2. last(n).source \in Files /\ last(n).meta \in Metas
    BY <1>2, <1>7 DEF Found
  <2>3. Discovered(cfg, n) \in ToolStates \cup {"typo"}
    BY <1>3
  <2> HIDE DEF row
  <2> QED BY <2>1, <2>2, <2>3 DEF NewRow, Row
<1>8. ASSUME NEW n \in Names, P(n) # {}, s.tools[n] # Null
      PROVE  /\ row(n) \in Row /\ row(n).meta = last(n).meta
             /\ row(n).state = s.tools[n].state /\ row(n).hash = s.tools[n].hash
  <2>1. s.tools[n] \in Row /\ last(n) \in Found
    BY <1>2, <1>6, <1>8
  <2> QED BY <1>5, <1>8, <2>1 DEF Row, Found
<1>9. ASSUME NEW n \in Names, P(n) = {} PROVE row(n) = s.tools[n]
  BY <1>9
<1> HIDE DEF row
<1>10. Stored(new)
  <2>1. \A n \in Names : row(n) \in Row \cup {Null}
    BY <1>6, <1>7, <1>8, <1>9
  <2> QED BY <1>1, <2>1 DEF Stored
<1>11. \A n \in Names : s.tools[n] # Null =>
          /\ new.tools[n] # Null
          /\ new.tools[n].state = s.tools[n].state
          /\ new.tools[n].hash = s.tools[n].hash
  BY <1>1, <1>8, <1>9, StoreAssumption
<1>12. \A n \in Names : s.tools[n] = Null /\ new.tools[n] # Null =>
          new.tools[n].state = Discovered(cfg, n) /\ new.tools[n].hash = Null
  BY <1>1, <1>7, <1>9
<1>13. ASSUME NEW p \in Places(d)
       PROVE  LET n == ScanDirectory(d)[p].name IN
                 /\ new.tools[n] # Null
                 /\ PlacesOf(ScanDirectory(d), n) = {p} =>
                        new.tools[n].meta = ScanDirectory(d)[p].meta
  <2> DEFINE n == ScanDirectory(d)[p].name
  <2>1. n \in Names /\ p \in P(n)
    BY <1>13, ScanType DEF Found, P, PlacesOf
  <2>2. new.tools[n] # Null /\ new.tools[n].meta = last(n).meta
    BY <1>1, <1>7, <1>8, <2>1, StoreAssumption
  <2>3. P(n) = {p} => last(n) = ScanDirectory(d)[p]
    BY <1>2, <2>1 DEF last
  <2> QED BY <2>2, <2>3 DEF P
<1> QED BY <1>10, <1>11, <1>12, <1>13 DEF new

-----------------------------------------------------------------------------
(* Types: what the commands work on.                                       *)

Decisions == [name : Names \cup Resources, to : ToolStates \cup {Null}, resource : BOOLEAN,
              listed : Files \cup {Null}, strict : BOOLEAN]

Deciding == {"next", "update"} \cup Sealing
Plain == {"idle", "stat", "create", "resources"} \cup Writing
Stages == Plain \cup {"scan"} \cup Deciding

Loaded == {c \in Config : c.version = 1}

CommandType ==
    [at : Stages, cfg : Loaded, todo : Seq(Decisions) \cup Seq(Resources) \cup Seq(Files),
     saw : Disks \cup {Null}, hash : Contents \cup {Null}, changed : BOOLEAN]

TypesHold ==
    /\ disk \in Disks
    /\ Stored(store)
    /\ config \in Config \cup {Null}
    /\ cmd \in [Operators -> CommandType]
    /\ quiet \in BOOLEAN
    /\ approved \in [Names -> SUBSET Contents]
    /\ synced \in Disks \cup {Null}

\* What a command has when it is at a stage.
StageHolds(p) ==
    /\ cmd[p].at = "scan" => cmd[p].todo \in Seq(Files) /\ cmd[p].saw \in Disks
    /\ cmd[p].at \in Deciding => cmd[p].todo \in Seq(Decisions)
    /\ cmd[p].at \in Deciding \ {"next"} => cmd[p].todo # << >>
    /\ cmd[p].at = "update" => Item(p).to \in ToolStates
    /\ cmd[p].at \in Sealing => Item(p).name \in Names /\ store.tools[Item(p).name] # Null
    /\ cmd[p].at = "hash" => Item(p).listed \in Files
    /\ cmd[p].at = "seal" => cmd[p].hash \in Contents

ReviewTypes == TypesHold /\ \A p \in Operators : StageHolds(p)

\* A configuration that loads has version 1.
LEMMA LoadType ==
    ASSUME NEW file \in Config \cup {Null}, Load(file) # Null
    PROVE  /\ Load(file) \in Loaded
           /\ file \in Loaded => Load(file) = file
<1>1. DefaultConfig \in Loaded
  BY DEF DefaultConfig, Loaded, Config, Unset
<1>2. CASE file = Null
  BY <1>1, <1>2, StoreAssumption DEF Load, Loaded
<1>3. CASE file # Null
  <2>1. file \in Config /\ file.version \in {0, 1, 2}
    BY <1>3 DEF Config
  <2>2. CASE file.version = 0
    BY <1>1, <1>3, <2>2 DEF Load, Loaded
  <2>3. CASE file.version = 1
    BY <1>3, <2>1, <2>3 DEF Load, Loaded
  <2>4. CASE file.version = 2
    BY <1>3, <2>4 DEF Load
  <2> QED BY <2>1, <2>2, <2>3, <2>4
<1> QED BY <1>2, <1>3

LEMMA LoadOfLoaded ==
    ASSUME NEW file \in Loaded
    PROVE  Load(file) = file
BY StoreAssumption DEF Load, Loaded

\* The stages are told apart.
LEMMA StagesDiffer ==
    /\ {"idle", "scan"} \cap Writing = {} /\ "scan" \notin Plain
    /\ Plain \cap Deciding = {} /\ "scan" \notin Deciding /\ Writing \cap Deciding = {}
    /\ Deciding = {"next", "update", "lookup", "hash", "seal"}
    /\ Plain = {"idle", "stat", "create", "resources", "fill", "save"}
    /\ "next" \notin Sealing /\ "update" \notin Sealing
BY DEF Plain, Deciding, Sealing, Writing

LEMMA RestType == Rest \in CommandType
<1>1. DefaultConfig \in Loaded
  BY DEF DefaultConfig, Loaded, Config, Unset
<1>2. << >> \in Seq(Decisions)
  OBVIOUS
<1> QED BY <1>1, <1>2 DEF Rest, CommandType, Stages, Plain

\* Every review plans decisions.
LEMMA PlanType ==
    ASSUME Stored(store), NEW r \in Reviews
    PROVE  Plan(r) \in Seq(Decisions)
<1>1. ASSUME NEW to \in ToolStates \cup {Null} PROVE ForPending(to) \in Seq(Decisions)
  <2> DEFINE T == {n \in Names : store.tools[n] # Null}
             S == {n \in Names : store.tools[n] # Null /\ store.tools[n].state = "pending"}
             A == [i \in DOMAIN Pending |->
                     Decision(Pending[i], to, FALSE, store.tools[Pending[i]].source, TRUE)]
             B == [i \in DOMAIN PendingResources |->
                     Decision(PendingResources[i], to, TRUE, Null, TRUE)]
  <2>1. ListTools(store) \in Seq(T)
    <3>1. ListTools(store) \in Seq(T \cap Names)
      <4> HIDE DEF T
      <4> QED BY StoreAssumption, KeptType DEF ListTools, T
    <3>2. T \cap Names = T
      OBVIOUS
    <3> QED BY <3>1, <3>2
  <2>2. Pending \in Seq(S)
    <3>1. Pending \in Seq(S \cap T)
      <4> HIDE DEF T, S
      <4> QED BY <2>1, KeptType DEF Pending, S
    <3>2. S \cap T = S
      OBVIOUS
    <3> QED BY <3>1, <3>2
  <2>3. PendingResources \in Seq(Resources)
    <3> DEFINE R == {r2 \in Resources : store.resources[r2] = "pending"}
    <3>1. PendingResources \in Seq(R \cap Resources)
      <4> HIDE DEF R
      <4> QED BY StoreAssumption, KeptType DEF PendingResources, R
    <3>2. R \cap Resources \subseteq Resources
      OBVIOUS
    <3> HIDE DEF R
    <3> QED BY <3>1, <3>2
  <2>4. A \in Seq(Decisions)
    <3>1. \A i \in DOMAIN Pending : Pending[i] \in S
      BY <2>2
    <3>2. \A n \in S : n \in Names /\ store.tools[n].source \in Files
      BY DEF Stored, Row
    <3>3. \A i \in DOMAIN Pending :
             Decision(Pending[i], to, FALSE, store.tools[Pending[i]].source, TRUE) \in Decisions
      BY <3>1, <3>2 DEF Decision, Decisions
    <3>4. DOMAIN Pending = 1 .. Len(Pending) /\ Len(Pending) \in Nat
      BY <2>2
    <3>5. A \in [1 .. Len(Pending) -> Decisions]
      BY <3>3, <3>4
    <3> HIDE DEF A
    <3> QED BY <3>4, <3>5
  <2>5. B \in Seq(Decisions)
    <3>1. DOMAIN PendingResources = 1 .. Len(PendingResources) /\ Len(PendingResources) \in Nat
      BY <2>3
    <3>2. \A i \in DOMAIN PendingResources :
             Decision(PendingResources[i], to, TRUE, Null, TRUE) \in Decisions
      BY <2>3 DEF Decision, Decisions
    <3>3. B \in [1 .. Len(PendingResources) -> Decisions]
      BY <3>1, <3>2
    <3> HIDE DEF B
    <3> QED BY <3>1, <3>3
  <2>6. ForPending(to) = A \o B
    BY DEF ForPending
  <2> HIDE DEF A, B
  <2> QED BY <2>4, <2>5, <2>6
<1>2. CASE r.mode = "batch"
  <2>1. /\ r.approve \in Seq(Names \cup Resources) /\ r.disable \in Seq(Names \cup Resources)
        /\ r.confirm \in Seq(Names \cup Resources)
    BY <1>2, ReviewAssumption DEF Review
  <2> DEFINE Each(names, to, strict) ==
                [i \in DOMAIN names |-> Decision(names[i], to, IsResource(names[i]), Null, strict)]
             Confirmed == Kept(r.confirm, {n \in Names \cup Resources : ~IsResource(n)})
  <2>2. ASSUME NEW names \in Seq(Names \cup Resources), NEW to \in ToolStates,
               NEW strict \in BOOLEAN
        PROVE  Each(names, to, strict) \in Seq(Decisions)
    <3>1. DOMAIN names = 1 .. Len(names) /\ Len(names) \in Nat
      OBVIOUS
    <3>2. \A i \in DOMAIN names :
             Decision(names[i], to, IsResource(names[i]), Null, strict) \in Decisions
      <4> SUFFICES ASSUME NEW i \in DOMAIN names
                   PROVE  Decision(names[i], to, IsResource(names[i]), Null, strict) \in Decisions
        OBVIOUS
      <4>1. names[i] \in Names \cup Resources
        OBVIOUS
      <4>2. IsResource(names[i]) \in BOOLEAN
        BY DEF IsResource
      <4> QED BY <4>1, <4>2 DEF Decision, Decisions
    <3> QED BY <3>1, <3>2
  <2>3. Confirmed \in Seq(Names \cup Resources)
    <3> DEFINE S == {n \in Names \cup Resources : ~IsResource(n)}
    <3>1. Confirmed \in Seq(S \cap (Names \cup Resources))
      <4> HIDE DEF S
      <4> QED BY <2>1, KeptType DEF S
    <3>2. S \cap (Names \cup Resources) \subseteq Names \cup Resources
      OBVIOUS
    <3> HIDE DEF S, Confirmed
    <3> QED BY <3>1, <3>2
  <2>4. {"enabled", "disabled", "requires_confirmation"} \subseteq ToolStates
    BY DEF ToolStates
  <2>5. Plan(r) = Each(r.approve, "enabled", TRUE) \o Each(r.disable, "disabled", TRUE)
                  \o Each(Confirmed, "requires_confirmation", FALSE)
    BY <1>2 DEF Plan, BatchPlan
  <2> HIDE DEF Each, Confirmed
  <2>6. /\ Each(r.approve, "enabled", TRUE) \in Seq(Decisions)
        /\ Each(r.disable, "disabled", TRUE) \in Seq(Decisions)
        /\ Each(Confirmed, "requires_confirmation", FALSE) \in Seq(Decisions)
    BY <2>1, <2>2, <2>3, <2>4
  <2>7. ASSUME NEW x \in Seq(Decisions), NEW y \in Seq(Decisions), NEW z \in Seq(Decisions)
        PROVE  x \o y \o z \in Seq(Decisions)
    <3>1. x \o y \in Seq(Decisions)
      OBVIOUS
    <3> DEFINE xy == x \o y
    <3> HIDE DEF xy
    <3>2. xy \o z \in Seq(Decisions)
      BY <3>1 DEF xy
    <3> QED BY <3>2 DEF xy
  <2> QED BY <2>5, <2>6, <2>7
<1>3. CASE r.mode # "batch"
  <2>1. r.mode \in {"approve-all", "dev", "production"}
    BY <1>3, ReviewAssumption DEF Review
  <2>2. "enabled" \in ToolStates
    BY DEF ToolStates
  <2>3. CASE r.mode = "approve-all"
    BY <1>1, <2>2, <2>3 DEF Plan, ApproveAllPlan
  <2>4. CASE r.mode = "dev"
    BY <1>1, <2>2, <2>4 DEF Plan, DevPlan
  <2>5. CASE r.mode = "production"
    BY <1>1, <2>5 DEF Plan, ProductionPlan
  <2> QED BY <2>1, <2>3, <2>4, <2>5
<1> QED BY <1>2, <1>3

-----------------------------------------------------------------------------
(* Types: every step of a command keeps them.                              *)

RowsStay == \A n \in Names : store.tools[n] # Null => store'.tools[n] # Null

\* Only the command of p moves.
OnlyMoves(p) == cmd' = [cmd EXCEPT ![p] = cmd'[p]]

\* Rows stay, so the other commands keep what they have.
LEMMA OthersKeepTheirs ==
    ASSUME ReviewTypes, NEW p \in Operators, OnlyMoves(p), RowsStay,
           cmd'[p] \in CommandType, StageHolds(p)'
    PROVE  /\ cmd' \in [Operators -> CommandType]
           /\ \A q \in Operators : q # p => cmd'[q] = cmd[q]
           /\ \A q \in Operators : StageHolds(q)'
<1>1. cmd \in [Operators -> CommandType]
  BY DEF ReviewTypes, TypesHold
<1>2. /\ cmd' \in [Operators -> CommandType]
      /\ \A q \in Operators : q # p => cmd'[q] = cmd[q]
  BY <1>1 DEF OnlyMoves
<1>3. ASSUME NEW q \in Operators, q # p PROVE StageHolds(q)'
  <2>1. cmd'[q] = cmd[q]
    BY <1>2, <1>3
  <2>2. Item(q)' = Item(q)
    BY <2>1 DEF Item
  <2>3. StageHolds(q)
    BY DEF ReviewTypes
  <2> QED BY <2>1, <2>2, <2>3 DEF StageHolds, RowsStay
<1> QED BY <1>2, <1>3

\* A command that moves to a stage that needs nothing.
LEMMA PlainStage ==
    ASSUME NEW p \in Operators, cmd'[p].at \in Plain
    PROVE  StageHolds(p)'
BY StagesDiffer DEF StageHolds, Sealing

LEMMA ScanStage ==
    ASSUME NEW p \in Operators, cmd'[p].at = "scan", cmd'[p].todo \in Seq(Files), cmd'[p].saw \in Disks
    PROVE  StageHolds(p)'
BY StagesDiffer DEF StageHolds, Sealing

LEMMA NextStage ==
    ASSUME NEW p \in Operators, cmd'[p].at = "next", cmd'[p].todo \in Seq(Decisions)
    PROVE  StageHolds(p)'
BY StagesDiffer DEF StageHolds, Sealing

\* The decision that a command is at, and what comes after it.
LEMMA ItemType ==
    ASSUME ReviewTypes, NEW p \in Operators, cmd[p].at \in Deciding, cmd[p].todo # << >>
    PROVE  /\ Item(p) \in Decisions
           /\ Next1(cmd[p]) \in CommandType
           /\ Next1(cmd[p]).at = "next"
           /\ Next1(cmd[p]).todo \in Seq(Decisions)
           /\ Next1(cmd[p]).cfg = cmd[p].cfg
           /\ Next1(cmd[p]).changed = cmd[p].changed
<1>1. cmd[p].todo \in Seq(Decisions) /\ cmd[p] \in CommandType
  BY DEF ReviewTypes, TypesHold, StageHolds
<1>2. Head(cmd[p].todo) \in Decisions /\ Tail(cmd[p].todo) \in Seq(Decisions)
  BY <1>1
<1>3. Next1(cmd[p]) = [cmd[p] EXCEPT !.at = "next", !.todo = Tail(cmd[p].todo), !.hash = Null]
  BY DEF Next1
<1> DEFINE rest == Tail(cmd[p].todo)
<1> HIDE DEF rest
<1>4. Next1(cmd[p]) = [cmd[p] EXCEPT !.at = "next", !.todo = rest, !.hash = Null]
  BY <1>3 DEF rest
<1>5. rest \in Seq(Decisions)
  BY <1>2 DEF rest
<1> QED BY <1>1, <1>2, <1>4, <1>5 DEF Item, CommandType, Stages, Deciding

\* The start of a command.
LEMMA StartTypes ==
    ASSUME ReviewTypes, NEW p \in Operators, NEW c \in CommandType, Start(p, c)
    PROVE  /\ OnlyMoves(p)
           /\ cmd'[p] = [c EXCEPT !.cfg = Load(config)]
           /\ cmd'[p] \in CommandType
           /\ quiet' \in BOOLEAN
<1>1. Load(config) \in Loaded
  BY LoadType DEF ReviewTypes, TypesHold, Start
<1>2. cmd' = [cmd EXCEPT ![p] = [c EXCEPT !.cfg = Load(config)]]
  BY DEF Start, Continue
<1>3. cmd'[p] = [c EXCEPT !.cfg = Load(config)]
  BY <1>2 DEF ReviewTypes, TypesHold
<1>4. cmd'[p] \in CommandType
  BY <1>1, <1>3 DEF CommandType
<1>5. OnlyMoves(p)
  BY <1>2, <1>3 DEF OnlyMoves
<1>6. quiet' \in BOOLEAN
  BY DEF Start
<1> QED BY <1>3, <1>4, <1>5, <1>6

DataTypes ==
    /\ disk \in Disks
    /\ Stored(store)
    /\ config \in Config \cup {Null}
    /\ quiet \in BOOLEAN
    /\ approved \in [Names -> SUBSET Contents]
    /\ synced \in Disks \cup {Null}

Moves(p) == OnlyMoves(p) /\ RowsStay /\ cmd'[p] \in CommandType /\ StageHolds(p)'

LEMMA MovesKeepTypes ==
    ASSUME ReviewTypes, NEW p \in Operators, Moves(p), DataTypes'
    PROVE  ReviewTypes' /\ \A q \in Operators : q # p => cmd'[q] = cmd[q]
<1>1. /\ cmd' \in [Operators -> CommandType]
      /\ \A q \in Operators : q # p => cmd'[q] = cmd[q]
      /\ \A q \in Operators : StageHolds(q)'
  BY OthersKeepTheirs DEF Moves
<1> QED BY <1>1 DEF ReviewTypes, TypesHold, DataTypes

LEMMA SameData ==
    ASSUME ReviewTypes, UNCHANGED <<disk, store, config, quiet, approved, synced>>
    PROVE  DataTypes' /\ RowsStay
BY DEF ReviewTypes, TypesHold, DataTypes, RowsStay, Stored

\* What Continue does.
LEMMA Continued ==
    ASSUME ReviewTypes, NEW p \in Operators, NEW c, cmd' = [cmd EXCEPT ![p] = c]
    PROVE  OnlyMoves(p) /\ cmd'[p] = c
BY DEF ReviewTypes, TypesHold, OnlyMoves

LEMMA EndMoves ==
    ASSUME ReviewTypes, NEW p \in Operators, End(p)
    PROVE  OnlyMoves(p) /\ cmd'[p] = Rest /\ cmd'[p] \in CommandType /\ StageHolds(p)'
<1>1. OnlyMoves(p) /\ cmd'[p] = Rest
  BY Continued DEF End, Continue
<1>2. Rest.at = "idle"
  BY DEF Rest
<1> QED BY <1>1, <1>2, RestType, PlainStage DEF Plain

LEMMA FinishDecision ==
    ASSUME ReviewTypes, NEW p \in Operators, cmd[p].at \in Deciding, cmd[p].todo # << >>,
           Continue(p, Next1(cmd[p]))
    PROVE  /\ OnlyMoves(p) /\ cmd'[p] = Next1(cmd[p])
           /\ cmd'[p] \in CommandType /\ StageHolds(p)'
<1>1. OnlyMoves(p) /\ cmd'[p] = Next1(cmd[p])
  BY Continued DEF Continue
<1> QED BY <1>1, ItemType, NextStage

\* A scan begins with all the files before it.
LEMMA ScanningMoves ==
    ASSUME ReviewTypes, NEW p \in Operators, Continue(p, Scanning(cmd[p]))
    PROVE  /\ OnlyMoves(p) /\ cmd'[p] \in CommandType /\ StageHolds(p)'
           /\ cmd'[p].at = "scan" /\ cmd'[p].cfg = cmd[p].cfg /\ cmd'[p].changed = cmd[p].changed
<1>1. cmd[p] \in CommandType
  BY DEF ReviewTypes, TypesHold
<1> DEFINE nothing == [f \in Files |-> Null]
<1>2. nothing \in Disks /\ Walk \in Seq(Files)
  BY StoreAssumption DEF Disks
<1>3. cmd' = [cmd EXCEPT ![p] = [cmd[p] EXCEPT !.at = "scan", !.todo = Walk, !.saw = nothing]]
  BY DEF Continue, Scanning
<1> HIDE DEF nothing
<1>4. /\ OnlyMoves(p)
      /\ cmd'[p] = [cmd[p] EXCEPT !.at = "scan", !.todo = Walk, !.saw = nothing]
  BY <1>3, Continued
<1>5. cmd'[p] \in CommandType
  BY <1>1, <1>2, <1>4 DEF CommandType, Stages
<1>6. /\ cmd'[p].at = "scan" /\ cmd'[p].todo = Walk /\ cmd'[p].saw = nothing
      /\ cmd'[p].cfg = cmd[p].cfg /\ cmd'[p].changed = cmd[p].changed
  BY <1>1, <1>4 DEF CommandType
<1>7. StageHolds(p)'
  BY <1>2, <1>6, ScanStage
<1> QED BY <1>4, <1>5, <1>6, <1>7

\* A command that only moves to another stage.
LEMMA StageMoves ==
    ASSUME ReviewTypes, NEW p \in Operators, NEW at \in Stages,
           Continue(p, [cmd[p] EXCEPT !.at = at])
    PROVE  /\ OnlyMoves(p) /\ cmd'[p] \in CommandType
           /\ cmd'[p].at = at /\ cmd'[p].todo = cmd[p].todo
           /\ cmd'[p].cfg = cmd[p].cfg /\ cmd'[p].changed = cmd[p].changed
<1>1. cmd[p] \in CommandType
  BY DEF ReviewTypes, TypesHold
<1>2. OnlyMoves(p) /\ cmd'[p] = [cmd[p] EXCEPT !.at = at]
  BY Continued DEF Continue
<1> QED BY <1>1, <1>2 DEF CommandType

\* What a file may hold after it was saved.
LEMMA SavedType ==
    /\ EmptyConfig \in Config /\ Unreadable \in Config
    /\ \A cfg \in Loaded : Written(cfg) \subseteq Config
<1>1. EmptyConfig \in Config /\ Unreadable \in Config
  BY DEF EmptyConfig, Unreadable, Config, Unset
<1> QED BY <1>1 DEF Written, Loaded

\* One file of a scan.
LEMMA ScanMoves ==
    ASSUME ReviewTypes, NEW p \in Operators, Scan(p)
    PROVE  /\ OnlyMoves(p) /\ cmd'[p] \in CommandType /\ StageHolds(p)'
           /\ cmd[p].at = "scan" /\ cmd'[p].at = "scan"
           /\ cmd'[p].cfg = cmd[p].cfg /\ cmd'[p].changed = cmd[p].changed
<1>1. cmd[p] \in CommandType /\ StageHolds(p) /\ disk \in Disks
  BY DEF ReviewTypes, TypesHold
<1>2. cmd[p].at = "scan" /\ cmd[p].todo # << >>
  BY DEF Scan
<1>3. cmd[p].todo \in Seq(Files) /\ cmd[p].saw \in Disks
  BY <1>1, <1>2 DEF StageHolds
<1> DEFINE f == Head(cmd[p].todo)
           rest == Tail(cmd[p].todo)
           saw == [cmd[p].saw EXCEPT ![f] = disk[f]]
<1>4. f \in Files /\ rest \in Seq(Files)
  BY <1>2, <1>3
<1>5. saw \in Disks
  <2> HIDE DEF f
  <2> QED BY <1>1, <1>3, <1>4 DEF Disks
<1>6. \/ cmd' = [cmd EXCEPT ![p] = [cmd[p] EXCEPT !.todo = rest, !.saw = saw]]
      \/ cmd' = [cmd EXCEPT ![p] = [cmd[p] EXCEPT !.todo = rest]]
  <2>1. /\ cmd[p].todo # << >>
        /\ \/ cmd' = [cmd EXCEPT ![p] = [[cmd[p] EXCEPT !.todo = rest] EXCEPT !.saw[f] = disk[f]]]
           \/ cmd' = [cmd EXCEPT ![p] = [cmd[p] EXCEPT !.todo = rest]]
    BY DEF Scan, Continue
  <2> HIDE DEF f, rest
  <2>2. [[cmd[p] EXCEPT !.todo = rest] EXCEPT !.saw[f] = disk[f]]
        = [cmd[p] EXCEPT !.todo = rest, !.saw = saw]
    BY <1>1 DEF CommandType
  <2> QED BY <2>1, <2>2
<1> HIDE DEF f, rest, saw
<1>7. CASE cmd' = [cmd EXCEPT ![p] = [cmd[p] EXCEPT !.todo = rest, !.saw = saw]]
  <2>1. OnlyMoves(p) /\ cmd'[p] = [cmd[p] EXCEPT !.todo = rest, !.saw = saw]
    BY <1>7, Continued
  <2>2. /\ cmd'[p] \in CommandType /\ cmd'[p].at = "scan" /\ cmd'[p].todo = rest /\ cmd'[p].saw = saw
        /\ cmd'[p].cfg = cmd[p].cfg /\ cmd'[p].changed = cmd[p].changed
    BY <1>1, <1>2, <1>4, <1>5, <2>1 DEF CommandType
  <2> QED BY <1>2, <1>4, <1>5, <2>1, <2>2, ScanStage
<1>8. CASE cmd' = [cmd EXCEPT ![p] = [cmd[p] EXCEPT !.todo = rest]]
  <2>1. OnlyMoves(p) /\ cmd'[p] = [cmd[p] EXCEPT !.todo = rest]
    BY <1>8, Continued
  <2>2. /\ cmd'[p] \in CommandType /\ cmd'[p].at = "scan" /\ cmd'[p].todo = rest
        /\ cmd'[p].saw = cmd[p].saw /\ cmd'[p].cfg = cmd[p].cfg /\ cmd'[p].changed = cmd[p].changed
    BY <1>1, <1>2, <1>4, <2>1 DEF CommandType
  <2> QED BY <1>2, <1>3, <1>4, <2>1, <2>2, ScanStage
<1> QED BY <1>6, <1>7, <1>8

\* foldermcp init.
LEMMA InitStepTypes ==
    ASSUME ReviewTypes, NEW p \in Operators, InitStep(p)
    PROVE  Moves(p) /\ DataTypes'
<1>1. cmd[p] \in CommandType /\ StageHolds(p) /\ cmd \in [Operators -> CommandType]
  BY DEF ReviewTypes, TypesHold
<1> DEFINE first == [Rest EXCEPT !.at = "stat"]
<1>2. first \in CommandType /\ first.at = "stat"
  BY RestType DEF CommandType, Stages, Plain
<1>3. ASSUME Start(p, first)
      PROVE  OnlyMoves(p) /\ cmd'[p] \in CommandType /\ StageHolds(p)' /\ quiet' \in BOOLEAN
  <2> HIDE DEF first
  <2>1. /\ OnlyMoves(p) /\ cmd'[p] = [first EXCEPT !.cfg = Load(config)]
        /\ cmd'[p] \in CommandType /\ quiet' \in BOOLEAN
    BY <1>2, <1>3, StartTypes
  <2>2. cmd'[p].at = first.at
    BY <1>2, <2>1 DEF CommandType
  <2> QED BY <1>2, <2>1, <2>2, PlainStage DEF Plain
<1>4. CASE StartInit(p)
  <2>1. Start(p, first) /\ UNCHANGED <<disk, store, config, approved, synced>>
    BY <1>4 DEF StartInit
  <2> HIDE DEF first
  <2> QED BY <1>3, <2>1 DEF Moves, ReviewTypes, TypesHold, DataTypes, RowsStay, Stored
<1>5. CASE Scaffold(p)
  <2>1. Start(p, first) /\ UNCHANGED <<store, config, approved, synced>>
    BY <1>5 DEF Scaffold
  <2>2. disk' \in Disks
    <3>1. PICK new \in Templates : disk' = [f \in Files |-> IF new[f] = Null THEN disk[f] ELSE new[f]]
      BY <1>5 DEF Scaffold
    <3>2. new \in Disks /\ disk \in Disks
      BY ReviewAssumption DEF ReviewTypes, TypesHold
    <3> QED BY <3>1, <3>2 DEF Disks
  <2> HIDE DEF first
  <2> QED BY <1>3, <2>1, <2>2 DEF Moves, ReviewTypes, TypesHold, DataTypes, RowsStay, Stored
<1>6. CASE StatConfig(p)
  <2>1. UNCHANGED <<disk, store, config, quiet, approved, synced>>
    BY <1>6 DEF StatConfig
  <2>2. CASE config = Null
    <3>1. Continue(p, [cmd[p] EXCEPT !.at = "create"])
      BY <1>6, <2>2 DEF StatConfig
    <3>2. "create" \in Stages /\ "create" \in Plain
      BY DEF Stages, Plain
    <3> QED BY <2>1, <3>1, <3>2, StageMoves, PlainStage, SameData DEF Moves
  <2>3. CASE config # Null
    <3>1. Continue(p, Scanning(cmd[p]))
      BY <1>6, <2>3 DEF StatConfig
    <3> QED BY <2>1, <3>1, ScanningMoves, SameData DEF Moves
  <2> QED BY <2>2, <2>3
<1>7. CASE CreateConfig(p)
  <2>1. /\ Continue(p, [cmd[p] EXCEPT !.at = "fill"])
        /\ config' = EmptyConfig /\ UNCHANGED <<disk, store, quiet, approved, synced>>
    BY <1>7 DEF CreateConfig
  <2>2. "fill" \in Stages /\ "fill" \in Plain
    BY DEF Stages, Plain, Writing
  <2>3. OnlyMoves(p) /\ cmd'[p] \in CommandType /\ StageHolds(p)'
    BY <2>1, <2>2, StageMoves, PlainStage
  <2>4. config' \in Config
    BY <2>1, SavedType
  <2> QED BY <2>1, <2>3, <2>4 DEF Moves, ReviewTypes, TypesHold, DataTypes, RowsStay, Stored
<1>8. CASE FillConfig(p)
  <2>1. /\ Continue(p, Scanning(cmd[p])) /\ config' \in Written(cmd[p].cfg)
        /\ UNCHANGED <<disk, store, quiet, approved, synced>>
    BY <1>8 DEF FillConfig
  <2>2. config' \in Config
    BY <1>1, <2>1, SavedType DEF CommandType
  <2> QED BY <2>1, <2>2, ScanningMoves DEF Moves, ReviewTypes, TypesHold, DataTypes, RowsStay, Stored
<1>9. CASE Scan(p)
  <2>1. UNCHANGED <<disk, store, config, quiet, approved, synced>>
    BY <1>9 DEF Scan
  <2> QED BY <1>9, <2>1, ScanMoves, SameData DEF Moves
<1>10. CASE UpsertTools(p)
  <2>1. /\ cmd[p].at = "scan"
        /\ cmd' = [cmd EXCEPT ![p] = [cmd[p] EXCEPT !.at = "resources", !.todo = ResourceListing]]
        /\ store' = UpsertToolsBatch(store, ScanDirectory(cmd[p].saw), cmd[p].cfg)
        /\ synced' = cmd[p].saw
        /\ UNCHANGED <<disk, config, quiet, approved>>
    BY <1>10 DEF UpsertTools, Continue
  <2>2. OnlyMoves(p) /\ cmd'[p] = [cmd[p] EXCEPT !.at = "resources", !.todo = ResourceListing]
    BY <2>1, Continued
  <2>3. cmd'[p] \in CommandType /\ cmd'[p].at = "resources"
    BY <1>1, <2>2, StoreAssumption DEF CommandType, Stages, Plain
  <2>4. cmd[p].saw \in Disks /\ cmd[p].cfg \in Config
    BY <1>1, <2>1 DEF StageHolds, CommandType, Loaded
  <2>5. Stored(store)
    BY DEF ReviewTypes, TypesHold
  <2>6. Stored(store)' /\ RowsStay
    BY <2>1, <2>4, <2>5, UpsertEffect DEF RowsStay, Stored
  <2> QED BY <2>1, <2>2, <2>3, <2>4, <2>6, PlainStage DEF Plain, Moves, ReviewTypes, TypesHold, DataTypes
<1>11. CASE UpsertNextResource(p)
  <2>1. UNCHANGED <<disk, config, quiet, approved, synced>> /\ cmd[p].at = "resources"
    BY <1>11 DEF UpsertNextResource
  <2>2. CASE cmd[p].todo = << >>
    <3>1. End(p) /\ UNCHANGED store
      BY <1>11, <2>2 DEF UpsertNextResource
    <3> QED BY <2>1, <3>1, EndMoves, SameData DEF Moves
  <2>3. CASE cmd[p].todo # << >>
    <3>1. /\ store' = UpsertResource(store, Head(cmd[p].todo))
          /\ cmd' = [cmd EXCEPT ![p] = [cmd[p] EXCEPT !.todo = Tail(cmd[p].todo)]]
      BY <1>11, <2>3 DEF UpsertNextResource, Continue
    <3>2. Tail(cmd[p].todo) \in Seq(Decisions) \cup Seq(Resources) \cup Seq(Files)
      <4>1. cmd[p].todo \in Seq(Decisions) \cup Seq(Resources) \cup Seq(Files)
        BY <1>1 DEF CommandType
      <4> QED BY <2>3, <4>1
    <3>3. OnlyMoves(p) /\ cmd'[p] = [cmd[p] EXCEPT !.todo = Tail(cmd[p].todo)]
      BY <3>1, Continued
    <3> DEFINE rest == Tail(cmd[p].todo)
    <3> HIDE DEF rest
    <3>4. cmd'[p] \in CommandType /\ cmd'[p].at = "resources"
      <4>1. cmd'[p] = [cmd[p] EXCEPT !.todo = rest] /\ rest \in Seq(Decisions) \cup Seq(Resources) \cup Seq(Files)
        BY <3>2, <3>3 DEF rest
      <4> QED BY <1>1, <2>1, <4>1 DEF CommandType, Stages, Plain
    <3>5. Stored(store)' /\ RowsStay
      <4>1. Stored(store)
        BY DEF ReviewTypes, TypesHold
      <4> QED BY <3>1, <4>1 DEF UpsertResource, Stored, RowsStay
    <3> QED BY <2>1, <3>3, <3>4, <3>5, PlainStage DEF Plain, Moves, ReviewTypes, TypesHold, DataTypes
  <2> QED BY <2>2, <2>3
<1> HIDE DEF first
<1> QED BY <1>4, <1>5, <1>6, <1>7, <1>8, <1>9, <1>10, <1>11 DEF InitStep

\* A row whose state or hash changes is still a row.
LEMMA StateEffect ==
    ASSUME NEW s, Stored(s), NEW n \in Names, s.tools[n] # Null, NEW to \in ToolStates
    PROVE  LET new == SetToolState(s, n, to)
           IN  /\ Stored(new)
               /\ new.tools[n] # Null /\ new.tools[n].state = to
               /\ new.tools[n].hash = s.tools[n].hash /\ new.tools[n].meta = s.tools[n].meta
               /\ \A m \in Names : m # n => new.tools[m] = s.tools[m]
<1> DEFINE new == SetToolState(s, n, to)
           row == [s.tools[n] EXCEPT !.state = to]
<1>1. s.tools[n] \in Row /\ s.tools \in [Names -> Row \cup {Null}]
  BY DEF Stored
<1>2. row \in Row /\ row.state = to /\ row.hash = s.tools[n].hash /\ row.meta = s.tools[n].meta
  BY <1>1 DEF Row
<1>3. /\ new = [tools |-> [s.tools EXCEPT ![n] = row], resources |-> s.resources]
      /\ new.tools = [s.tools EXCEPT ![n] = row]
  BY DEF SetToolState, Stored
<1> HIDE DEF new, row
<1> QED BY <1>1, <1>2, <1>3, StoreAssumption DEF Stored, new

LEMMA HashEffect ==
    ASSUME NEW s, Stored(s), NEW n \in Names, s.tools[n] # Null, NEW h \in Contents
    PROVE  LET new == UpdateContentHash(s, n, h)
           IN  /\ Stored(new)
               /\ new.tools[n] # Null /\ new.tools[n].hash = h
               /\ new.tools[n].state = s.tools[n].state /\ new.tools[n].meta = s.tools[n].meta
               /\ \A m \in Names : m # n => new.tools[m] = s.tools[m]
<1> DEFINE new == UpdateContentHash(s, n, h)
           row == [s.tools[n] EXCEPT !.hash = h]
<1>1. s.tools[n] \in Row /\ s.tools \in [Names -> Row \cup {Null}]
  BY DEF Stored
<1>2. row \in Row /\ row.hash = h /\ row.state = s.tools[n].state /\ row.meta = s.tools[n].meta
  BY <1>1 DEF Row
<1>3. /\ new = [tools |-> [s.tools EXCEPT ![n] = row], resources |-> s.resources]
      /\ new.tools = [s.tools EXCEPT ![n] = row]
  BY DEF UpdateContentHash, Stored
<1> HIDE DEF new, row
<1> QED BY <1>1, <1>2, <1>3, StoreAssumption DEF Stored, new

\* A decision that fails, or is over.
LEMMA FailOrSkip ==
    ASSUME ReviewTypes, NEW p \in Operators, cmd[p].at \in Deciding, cmd[p].todo # << >>,
           \/ Fail(p)
           \/ Continue(p, Next1(cmd[p])) /\ UNCHANGED quiet,
           UNCHANGED <<disk, store, config, approved, synced>>
    PROVE  Moves(p) /\ DataTypes'
<1>1. CASE Fail(p)
  <2>1. End(p) /\ quiet' \in BOOLEAN
    BY <1>1 DEF Fail
  <2> QED BY <2>1, EndMoves DEF Moves, ReviewTypes, TypesHold, DataTypes, RowsStay, Stored
<1>2. CASE Continue(p, Next1(cmd[p])) /\ UNCHANGED quiet
  BY <1>2, FinishDecision, SameData DEF Moves
<1> QED BY <1>1, <1>2

\* foldermcp review.
LEMMA ReviewStepTypes ==
    ASSUME ReviewTypes, NEW p \in Operators, ReviewStep(p)
    PROVE  Moves(p) /\ DataTypes'
<1>1. cmd[p] \in CommandType /\ StageHolds(p) /\ cmd \in [Operators -> CommandType]
  BY DEF ReviewTypes, TypesHold
<1>2. Stored(store)
  BY DEF ReviewTypes, TypesHold
<1>3. CASE \E r \in Reviews : StartReview(p, r)
  <2>1. PICK r \in Reviews : StartReview(p, r)
    BY <1>3
  <2> DEFINE plan == Plan(r)
             first == [Rest EXCEPT !.at = "next", !.todo = plan, !.changed = r.mode # "production"]
  <2>2. plan \in Seq(Decisions)
    BY <1>2, PlanType
  <2>3. Start(p, first) /\ UNCHANGED <<disk, store, config, approved, synced>>
    BY <2>1 DEF StartReview
  <2> HIDE DEF plan
  <2>4. first \in CommandType /\ first.at = "next" /\ first.todo = plan
    BY <2>2, RestType DEF CommandType, Stages, Deciding
  <2> HIDE DEF first
  <2>5. /\ OnlyMoves(p) /\ cmd'[p] = [first EXCEPT !.cfg = Load(config)]
        /\ cmd'[p] \in CommandType /\ quiet' \in BOOLEAN
    BY <2>3, <2>4, StartTypes
  <2>6. cmd'[p].at = "next" /\ cmd'[p].todo = plan
    BY <2>4, <2>5 DEF CommandType
  <2>7. StageHolds(p)'
    BY <2>2, <2>6, NextStage
  <2> QED BY <2>3, <2>5, <2>7 DEF Moves, ReviewTypes, TypesHold, DataTypes, RowsStay, Stored
<1>4. CASE Ask(p)
  <2>1. /\ cmd[p].at = "next" /\ cmd[p].todo # << >>
        /\ UNCHANGED <<disk, store, config, quiet, approved, synced>>
    BY <1>4 DEF Ask
  <2>2. cmd[p].at \in Deciding
    BY <2>1 DEF Deciding
  <2>3. CASE Continue(p, Next1(cmd[p]))
    BY <2>1, <2>2, <2>3, FinishDecision, SameData DEF Moves
  <2>4. CASE \E to \in Answers(Item(p)) : Continue(p, [cmd[p] EXCEPT !.todo[1].to = to])
    <3>1. PICK to \in Answers(Item(p)) : Continue(p, [cmd[p] EXCEPT !.todo[1].to = to])
      BY <2>4
    <3>2. to \in ToolStates
      BY <3>1 DEF Answers, ToolStates
    <3> DEFINE todo == cmd[p].todo
               answered == [todo EXCEPT ![1].to = to]
    <3>3. todo \in Seq(Decisions) /\ todo # << >>
      BY <1>1, <2>1, <2>2 DEF StageHolds
    <3> HIDE DEF todo
    <3>4. answered \in Seq(Decisions)
      <4>1. todo[1] \in Decisions /\ 1 \in 1 .. Len(todo) /\ Len(todo) \in Nat
        BY <3>3
      <4>2. [todo[1] EXCEPT !.to = to] \in Decisions
        BY <3>2, <4>1 DEF Decisions
      <4>3. answered = [todo EXCEPT ![1] = [todo[1] EXCEPT !.to = to]]
        OBVIOUS
      <4> DEFINE item == [todo[1] EXCEPT !.to = to]
      <4> HIDE DEF item
      <4>4. [todo EXCEPT ![1] = item] \in Seq(Decisions)
        BY <3>3, <4>1, <4>2 DEF item
      <4> QED BY <4>3, <4>4 DEF item
    <3> HIDE DEF answered
    <3>5. cmd' = [cmd EXCEPT ![p] = [cmd[p] EXCEPT !.todo = answered]]
      BY <3>1 DEF Continue, answered, todo
    <3>6. OnlyMoves(p) /\ cmd'[p] = [cmd[p] EXCEPT !.todo = answered]
      BY <3>5, Continued
    <3>7. /\ cmd'[p] \in CommandType /\ cmd'[p].at = "next" /\ cmd'[p].todo \in Seq(Decisions)
      BY <1>1, <2>1, <3>4, <3>6 DEF CommandType
    <3> QED BY <2>1, <3>6, <3>7, NextStage, SameData DEF Moves
  <2> QED BY <1>4, <2>3, <2>4 DEF Ask
<1>5. CASE DecideResource(p)
  <2>1. /\ cmd[p].at = "next" /\ cmd[p].todo # << >>
        /\ store' = UpdateResourceState(store, Item(p).name, Item(p).to)
        /\ cmd' = [cmd EXCEPT ![p] = [Next1(cmd[p]) EXCEPT !.changed = TRUE]]
        /\ UNCHANGED <<disk, config, quiet, approved, synced>>
    BY <1>5 DEF DecideResource, Decided, Continue
  <2>2. cmd[p].at \in Deciding
    BY <2>1 DEF Deciding
  <2>3. OnlyMoves(p) /\ cmd'[p] = [Next1(cmd[p]) EXCEPT !.changed = TRUE]
    BY <2>1, Continued
  <2>4. /\ Next1(cmd[p]) \in CommandType /\ Next1(cmd[p]).at = "next"
        /\ Next1(cmd[p]).todo \in Seq(Decisions)
    BY <2>1, <2>2, ItemType
  <2>5. cmd'[p] \in CommandType /\ cmd'[p].at = "next" /\ cmd'[p].todo \in Seq(Decisions)
    BY <2>3, <2>4 DEF CommandType
  <2>6. Stored(store)' /\ RowsStay
    BY <1>2, <2>1 DEF UpdateResourceState, Stored, RowsStay
  <2> QED BY <2>1, <2>3, <2>5, <2>6, NextStage DEF Moves, ReviewTypes, TypesHold, DataTypes
<1>6. CASE CheckTransition(p)
  <2>1. /\ cmd[p].at = "next" /\ cmd[p].todo # << >> /\ Item(p).to \in ToolStates
        /\ cmd' = [cmd EXCEPT ![p] = [cmd[p] EXCEPT !.at = "update"]]
        /\ UNCHANGED <<disk, store, config, quiet, approved, synced>>
    BY <1>6 DEF CheckTransition, Decided, Continue, MayUpdateToolState
  <2>2. OnlyMoves(p) /\ cmd'[p] = [cmd[p] EXCEPT !.at = "update"]
    BY <2>1, Continued
  <2>3. cmd'[p] \in CommandType /\ cmd'[p].at = "update" /\ cmd'[p].todo = cmd[p].todo
    BY <1>1, <2>2 DEF CommandType, Stages, Deciding
  <2>4. Item(p)' = Item(p)
    BY <2>3 DEF Item
  <2>5. cmd[p].todo \in Seq(Decisions)
    BY <1>1, <2>1 DEF StageHolds, Deciding
  <2>6. StageHolds(p)'
    BY <2>1, <2>3, <2>4, <2>5 DEF StageHolds, Sealing
  <2> QED BY <2>1, <2>2, <2>3, <2>6, SameData DEF Moves
<1>7. CASE RefuseTransition(p)
  BY <1>7, FailOrSkip DEF RefuseTransition, Decided, Deciding
<1>8. CASE UpdateToolState(p)
  <2> DEFINE n == Item(p).name
             to == Item(p).to
             decided == Record(cmd[p], n, to)
  <2>1. /\ cmd[p].at = "update" /\ GetTool(store, n) # Null
        /\ store' = SetToolState(store, n, to)
        /\ Continue(p, IF NeedsHash(to)
                       THEN [decided EXCEPT !.at = IF Item(p).listed = Null THEN "lookup" ELSE "hash"]
                       ELSE Next1(decided))
        /\ UNCHANGED <<disk, config, quiet, approved, synced>>
    BY <1>8 DEF UpdateToolState
  <2>2. n \in Names /\ store.tools[n] # Null
    BY <2>1 DEF GetTool
  <2>3. cmd[p].todo \in Seq(Decisions) /\ cmd[p].todo # << >> /\ to \in ToolStates
    BY <1>1, <2>1 DEF StageHolds, Deciding
  <2> HIDE DEF n, to
  <2>4. /\ decided \in CommandType /\ decided.todo = cmd[p].todo
    BY <1>1, <2>2, <2>3 DEF Record, CommandType, Loaded, Config
  <2>5. Stored(store)' /\ RowsStay
    BY <1>2, <2>1, <2>2, <2>3, StateEffect DEF Stored, RowsStay
  <2> HIDE DEF decided
  <2>6. OnlyMoves(p) /\ cmd'[p] \in CommandType /\ StageHolds(p)'
    <3>1. CASE NeedsHash(to)
      <4> DEFINE at == IF Item(p).listed = Null THEN "lookup" ELSE "hash"
      <4>1. cmd' = [cmd EXCEPT ![p] = [decided EXCEPT !.at = at]]
        BY <2>1, <3>1 DEF Continue
      <4>2. /\ at \in {"lookup", "hash"} /\ at \in Stages
            /\ at = "hash" => Item(p).listed \in Files
        <5>1. Item(p) \in Decisions
          BY <2>1, <2>3, ItemType DEF Deciding
        <5> QED BY <5>1 DEF Decisions, Stages, Deciding, Sealing
      <4> HIDE DEF at
      <4>3. OnlyMoves(p) /\ cmd'[p] = [decided EXCEPT !.at = at]
        BY <4>1, Continued
      <4>4. cmd'[p] \in CommandType /\ cmd'[p].at = at /\ cmd'[p].todo = cmd[p].todo
        BY <2>4, <4>2, <4>3 DEF CommandType
      <4>5. Item(p)' = Item(p)
        BY <4>4 DEF Item
      <4>6. Item(p)'.name = n
        BY <4>5 DEF n
      <4>7. store'.tools[n] # Null
        BY <2>2, <2>5 DEF RowsStay
      <4>8. StageHolds(p)'
        BY <2>2, <2>3, <4>2, <4>4, <4>5, <4>6, <4>7, StagesDiffer DEF StageHolds, Sealing
      <4> QED BY <4>3, <4>4, <4>8
    <3>2. CASE ~NeedsHash(to)
      <4>1. cmd' = [cmd EXCEPT ![p] = Next1(decided)]
        BY <2>1, <3>2 DEF Continue
      <4>2. OnlyMoves(p) /\ cmd'[p] = Next1(decided)
        BY <4>1, Continued
      <4> DEFINE rest == Tail(cmd[p].todo)
      <4>3. rest \in Seq(Decisions)
        BY <2>3
      <4> HIDE DEF rest
      <4>4. cmd'[p] = [decided EXCEPT !.at = "next", !.todo = rest, !.hash = Null]
        BY <2>4, <4>2 DEF Next1, rest
      <4>5. cmd'[p] \in CommandType /\ cmd'[p].at = "next" /\ cmd'[p].todo \in Seq(Decisions)
        BY <2>4, <4>3, <4>4 DEF CommandType, Stages, Deciding
      <4> QED BY <4>2, <4>5, NextStage
    <3> QED BY <3>1, <3>2
  <2> QED BY <2>1, <2>5, <2>6 DEF Moves, ReviewTypes, TypesHold, DataTypes
<1>9. CASE ToolNotFound(p)
  <2>1. cmd[p].at \in Deciding /\ cmd[p].todo # << >>
    BY <1>1, <1>9 DEF ToolNotFound, StageHolds, Deciding
  <2> QED BY <1>9, <2>1, FailOrSkip DEF ToolNotFound
<1>10. CASE WarnOfFailure(p)
  <2>1. /\ cmd[p].at \in Deciding /\ cmd[p].todo # << >> /\ Continue(p, Next1(cmd[p]))
        /\ UNCHANGED <<disk, store, config, quiet, approved, synced>>
    BY <1>1, <1>10, StagesDiffer DEF WarnOfFailure, Decided, StageHolds
  <2> QED BY <2>1, FinishDecision, SameData DEF Moves
<1>11. CASE LookUpTool(p)
  <2> DEFINE todo == cmd[p].todo
             source == store.tools[Item(p).name].source
             known == [todo EXCEPT ![1].listed = source]
  <2>1. /\ cmd[p].at = "lookup" /\ cmd[p].at \in Deciding /\ todo # << >> /\ todo \in Seq(Decisions)
        /\ Item(p).name \in Names /\ store.tools[Item(p).name] # Null
    BY <1>1, <1>11, StagesDiffer DEF LookUpTool, StageHolds, Sealing
  <2>2. /\ cmd' = [cmd EXCEPT ![p] = [cmd[p] EXCEPT !.at = "hash", !.todo = known]]
        /\ UNCHANGED <<disk, store, config, quiet, approved, synced>>
    BY <1>11 DEF LookUpTool, Continue
  <2>3. source \in Files
    BY <1>2, <2>1 DEF Stored, Row
  <2> HIDE DEF source
  <2>4. Item(p) = todo[1]
    BY <2>1 DEF Item
  <2> HIDE DEF todo
  <2> DEFINE item == [todo[1] EXCEPT !.listed = source]
  <2>5. todo[1] \in Decisions /\ 1 \in 1 .. Len(todo) /\ Len(todo) \in Nat
    BY <2>1
  <2>6. item \in Decisions /\ item.name = todo[1].name /\ item.listed = source
    BY <2>3, <2>5 DEF Decisions
  <2>7. known = [todo EXCEPT ![1] = item]
    OBVIOUS
  <2> HIDE DEF item, known
  <2>8. known \in Seq(Decisions) /\ known # << >> /\ Head(known) = item
    BY <2>1, <2>5, <2>6, <2>7
  <2>9. OnlyMoves(p) /\ cmd'[p] = [cmd[p] EXCEPT !.at = "hash", !.todo = known]
    BY <2>2, Continued
  <2>10. cmd'[p] \in CommandType /\ cmd'[p].at = "hash" /\ cmd'[p].todo = known
    BY <1>1, <2>8, <2>9, StagesDiffer DEF CommandType, Stages
  <2>11. Item(p)' = item
    BY <2>8, <2>10 DEF Item
  <2>12. StageHolds(p)'
    BY <2>1, <2>2, <2>3, <2>4, <2>6, <2>8, <2>10, <2>11, StagesDiffer DEF StageHolds, Sealing
  <2> QED BY <2>2, <2>9, <2>10, <2>12, SameData DEF Moves
<1>12. CASE HashSource(p)
  <2> DEFINE content == disk[Item(p).listed]
  <2>1. /\ cmd[p].at = "hash" /\ cmd[p].at \in Deciding /\ cmd[p].todo # << >>
        /\ cmd[p].todo \in Seq(Decisions) /\ Item(p).listed \in Files
        /\ Item(p).name \in Names /\ store.tools[Item(p).name] # Null
    BY <1>1, <1>12, StagesDiffer DEF HashSource, StageHolds, Sealing
  <2>2. UNCHANGED <<disk, store, config, quiet, approved, synced>>
    BY <1>12 DEF HashSource
  <2>3. CASE content = Null
    <3>1. Continue(p, Next1(cmd[p]))
      BY <1>12, <2>3 DEF HashSource, GoOnUnhashed
    <3> QED BY <2>1, <2>2, <3>1, FinishDecision, SameData DEF Moves
  <2>4. CASE content # Null
    <3>1. cmd' = [cmd EXCEPT ![p] = [cmd[p] EXCEPT !.at = "seal", !.hash = content]]
      BY <1>12, <2>4 DEF HashSource, Continue
    <3>2. content \in Contents
      BY <2>1, <2>4 DEF ReviewTypes, TypesHold, Disks
    <3> HIDE DEF content
    <3>3. OnlyMoves(p) /\ cmd'[p] = [cmd[p] EXCEPT !.at = "seal", !.hash = content]
      BY <3>1, Continued
    <3>4. /\ cmd'[p] \in CommandType /\ cmd'[p].at = "seal" /\ cmd'[p].todo = cmd[p].todo
          /\ cmd'[p].hash \in Contents
      BY <1>1, <3>2, <3>3, StagesDiffer DEF CommandType, Stages
    <3>5. Item(p)' = Item(p)
      BY <3>4 DEF Item
    <3>6. StageHolds(p)'
      BY <2>1, <2>2, <3>4, <3>5, StagesDiffer DEF StageHolds, Sealing
    <3> QED BY <2>2, <3>3, <3>4, <3>6, SameData DEF Moves
  <2> QED BY <2>3, <2>4
<1>13. CASE StoreHash(p)
  <2>1. /\ cmd[p].at = "seal" /\ cmd[p].at \in Deciding /\ cmd[p].todo # << >>
        /\ Item(p).name \in Names /\ store.tools[Item(p).name] # Null /\ cmd[p].hash \in Contents
    BY <1>1, <1>13, StagesDiffer DEF StoreHash, StageHolds, Sealing
  <2>2. /\ store' = UpdateContentHash(store, Item(p).name, cmd[p].hash)
        /\ approved' = [approved EXCEPT ![Item(p).name] = @ \cup {cmd[p].hash}]
        /\ Continue(p, Next1(cmd[p])) /\ UNCHANGED <<disk, config, quiet, synced>>
    BY <1>13 DEF StoreHash
  <2>3. /\ OnlyMoves(p) /\ cmd'[p] \in CommandType /\ StageHolds(p)'
    BY <2>1, <2>2, FinishDecision
  <2>4. Stored(store)' /\ RowsStay
    BY <1>2, <2>1, <2>2, HashEffect DEF Stored, RowsStay
  <2>5. approved' \in [Names -> SUBSET Contents]
    BY <2>1, <2>2 DEF ReviewTypes, TypesHold
  <2> QED BY <2>2, <2>3, <2>4, <2>5 DEF Moves, ReviewTypes, TypesHold, DataTypes
<1>14. CASE LoseHash(p)
  <2>1. /\ cmd[p].at \in Deciding /\ cmd[p].todo # << >> /\ Continue(p, Next1(cmd[p]))
        /\ UNCHANGED <<disk, store, config, quiet, approved, synced>>
    BY <1>1, <1>14, StagesDiffer DEF LoseHash, GoOnUnhashed, StageHolds, Sealing
  <2> QED BY <2>1, FinishDecision, SameData DEF Moves
<1>15. CASE TruncateConfig(p)
  <2>1. UNCHANGED <<disk, store, quiet, approved, synced>>
    BY <1>15 DEF TruncateConfig
  <2>2. CASE cmd[p].changed
    <3>1. config' = EmptyConfig /\ Continue(p, [cmd[p] EXCEPT !.at = "save"])
      BY <1>15, <2>2 DEF TruncateConfig
    <3>2. "save" \in Stages /\ "save" \in Plain
      BY DEF Stages, Plain, Writing
    <3>3. OnlyMoves(p) /\ cmd'[p] \in CommandType /\ StageHolds(p)'
      BY <3>1, <3>2, StageMoves, PlainStage
    <3>4. config' \in Config
      BY <3>1, SavedType
    <3> QED BY <2>1, <3>3, <3>4 DEF Moves, ReviewTypes, TypesHold, DataTypes, RowsStay, Stored
  <2>3. CASE ~cmd[p].changed
    <3>1. End(p) /\ UNCHANGED config
      BY <1>15, <2>3 DEF TruncateConfig
    <3> QED BY <2>1, <3>1, EndMoves, SameData DEF Moves
  <2> QED BY <2>2, <2>3
<1>16. CASE SaveConfig(p)
  <2>1. /\ config' \in Written(cmd[p].cfg) /\ End(p)
        /\ UNCHANGED <<disk, store, quiet, approved, synced>>
    BY <1>16 DEF SaveConfig
  <2>2. config' \in Config
    BY <1>1, <2>1, SavedType DEF CommandType
  <2> QED BY <2>1, <2>2, EndMoves DEF Moves, ReviewTypes, TypesHold, DataTypes, RowsStay, Stored
<1> QED BY <1>3, <1>4, <1>5, <1>6, <1>7, <1>8, <1>9, <1>10, <1>11, <1>12, <1>13, <1>14, <1>15, <1>16
        DEF ReviewStep

CommandStep(p) == InitStep(p) \/ ReviewStep(p) \/ Kill(p)

LEMMA CommandTypes ==
    ASSUME ReviewTypes, NEW p \in Operators, CommandStep(p)
    PROVE  Moves(p) /\ DataTypes'
<1>1. CASE InitStep(p)
  BY <1>1, InitStepTypes
<1>2. CASE ReviewStep(p)
  BY <1>2, ReviewStepTypes
<1>3. CASE Kill(p)
  <2>1. /\ End(p) /\ quiet' \in BOOLEAN /\ UNCHANGED <<disk, store, approved, synced>>
        /\ config' \in {config, Unreadable}
    BY <1>3 DEF Kill, Fail
  <2>2. config' \in Config \cup {Null}
    BY <2>1, SavedType DEF ReviewTypes, TypesHold
  <2> QED BY <2>1, <2>2, EndMoves DEF Moves, ReviewTypes, TypesHold, DataTypes, RowsStay, Stored
<1> QED BY <1>1, <1>2, <1>3 DEF CommandStep

LEMMA EditTypes ==
    ASSUME ReviewTypes, Edit
    PROVE  ReviewTypes' /\ RowsStay /\ UNCHANGED <<store, config, cmd, quiet, approved, excused, synced>>
<1>1. UNCHANGED <<store, config, cmd, quiet, approved, excused, synced>>
  BY DEF Edit
<1>2. disk' \in Disks
  <2>1. PICK e \in Edits : disk' = [disk EXCEPT ![e[1]] = e[2]]
    BY DEF Edit
  <2>2. e[1] \in Files /\ e[2] \in Contents \cup {Null}
    BY ReviewAssumption
  <2> QED BY <2>1, <2>2 DEF ReviewTypes, TypesHold, Disks
<1>3. TypesHold'
  BY <1>1, <1>2 DEF ReviewTypes, TypesHold, Stored
<1>4. ASSUME NEW p \in Operators PROVE StageHolds(p)'
  BY <1>1 DEF ReviewTypes, StageHolds, Item
<1> QED BY <1>1, <1>3, <1>4 DEF ReviewTypes, RowsStay

LEMMA InitTypes ==
    ASSUME ReviewInit
    PROVE  ReviewTypes
<1>1. PICK w \in Workspaces :
         disk = w.disk /\ store = w.store /\ config = w.config /\ approved = w.sealed
  BY DEF ReviewInit
<1>2. /\ w.disk \in Disks /\ w.store \in Store /\ w.config \in Config \cup {Null}
      /\ w.sealed \in [Names -> SUBSET Contents]
  BY ReviewAssumption DEF Workspace
<1>3. cmd \in [Operators -> CommandType] /\ \A p \in Operators : cmd[p].at = "idle"
  BY RestType DEF ReviewInit, Rest
<1>4. Stored(store)
  BY <1>1, <1>2 DEF Store, Stored
<1>5. \A p \in Operators : StageHolds(p)
  BY <1>3 DEF StageHolds, Deciding, Sealing
<1> QED BY <1>1, <1>2, <1>3, <1>4, <1>5 DEF ReviewInit, ReviewTypes, TypesHold

-----------------------------------------------------------------------------
(* What the commands do to the store.                                      *)

\* Three steps change rows.
LEMMA WhoChangesRows ==
    ASSUME ReviewTypes, NEW p \in Operators, CommandStep(p)
    PROVE  \/ UNCHANGED <<store.tools, approved, synced>>
           \/ UpsertTools(p) \/ UpdateToolState(p) \/ StoreHash(p)
<1>1. Stored(store)
  BY DEF ReviewTypes, TypesHold
<1>2. \A r : UpsertResource(store, r).tools = store.tools
  BY <1>1 DEF UpsertResource, Stored
<1>3. \A r, to : UpdateResourceState(store, r, to).tools = store.tools
  BY <1>1 DEF UpdateResourceState, Stored
<1>4. CASE InitStep(p)
  BY <1>2, <1>4 DEF InitStep, StartInit, Scaffold, StatConfig, CreateConfig, FillConfig, Scan,
                    UpsertNextResource
<1>5. CASE ReviewStep(p)
  BY <1>3, <1>5 DEF ReviewStep, StartReview, Ask, DecideResource, CheckTransition, RefuseTransition,
                    ToolNotFound, WarnOfFailure, LookUpTool, HashSource, LoseHash, TruncateConfig,
                    SaveConfig
<1>6. CASE Kill(p)
  BY <1>6 DEF Kill
<1> QED BY <1>4, <1>5, <1>6 DEF CommandStep

\* A tool is excused once and for all.
LEMMA ExcusedStays ==
    ASSUME NEW p \in Operators, CommandStep(p)
    PROVE  excused \subseteq excused'
<1>1. CASE InitStep(p)
  BY <1>1 DEF InitStep, StartInit, Scaffold, StatConfig, CreateConfig, FillConfig, Scan, UpsertTools,
              UpsertNextResource
<1>2. CASE ReviewStep(p)
  BY <1>2 DEF ReviewStep, StartReview, Ask, DecideResource, CheckTransition, RefuseTransition,
              UpdateToolState, ToolNotFound, WarnOfFailure, LookUpTool, HashSource, GoOnUnhashed,
              StoreHash, LoseHash, TruncateConfig, SaveConfig
<1>3. CASE Kill(p)
  BY <1>3 DEF Kill
<1> QED BY <1>1, <1>2, <1>3 DEF CommandStep

\* A review that is hashing goes on hashing, or is killed.
LEMMA WhoLeavesHashing ==
    ASSUME NEW p \in Operators, CommandStep(p), cmd[p].at \in Sealing
    PROVE  LookUpTool(p) \/ HashSource(p) \/ StoreHash(p) \/ LoseHash(p) \/ Kill(p)
BY StagesDiffer
   DEF CommandStep, InitStep, StartInit, Scaffold, Start, StatConfig, CreateConfig, FillConfig, Scan,
       UpsertTools, UpsertNextResource, ReviewStep, StartReview, Ask, DecideResource, Decided,
       CheckTransition, RefuseTransition, UpdateToolState, ToolNotFound, WarnOfFailure,
       TruncateConfig, SaveConfig, Sealing

\* The three steps, row by row.
LEMMA UpsertRows ==
    ASSUME ReviewTypes, NEW p \in Operators, UpsertTools(p)
    PROVE  /\ cmd[p].at = "scan" /\ approved' = approved
           /\ \A n \in Names : store.tools[n] # Null =>
                 /\ store'.tools[n] # Null
                 /\ store'.tools[n].state = store.tools[n].state
                 /\ store'.tools[n].hash = store.tools[n].hash
           /\ \A n \in Names : store.tools[n] = Null /\ store'.tools[n] # Null =>
                 /\ store'.tools[n].state = Discovered(cmd[p].cfg, n)
                 /\ store'.tools[n].hash = Null
                 /\ store'.tools[n].state \in Served => n \in excused'
           /\ synced' \in Disks
           /\ \A place \in Places(synced') : LET n == ScanDirectory(synced')[place].name IN
                 /\ store'.tools[n] # Null
                 /\ PlacesOf(ScanDirectory(synced'), n) = {place} =>
                        store'.tools[n].meta = ScanDirectory(synced')[place].meta
<1>1. /\ cmd[p].at = "scan" /\ approved' = approved /\ synced' = cmd[p].saw
      /\ store' = UpsertToolsBatch(store, ScanDirectory(cmd[p].saw), cmd[p].cfg)
      /\ excused' = excused \cup {n \in Names : /\ store.tools[n] = Null /\ store'.tools[n] # Null
                                                /\ store'.tools[n].state \in Served}
  BY DEF UpsertTools
<1>2. Stored(store) /\ cmd[p].saw \in Disks /\ cmd[p].cfg \in Config
  BY <1>1 DEF ReviewTypes, TypesHold, StageHolds, CommandType, Loaded
<1> DEFINE new == UpsertToolsBatch(store, ScanDirectory(cmd[p].saw), cmd[p].cfg)
<1>3. /\ \A n \in Names : store.tools[n] # Null =>
            /\ new.tools[n] # Null
            /\ new.tools[n].state = store.tools[n].state
            /\ new.tools[n].hash = store.tools[n].hash
      /\ \A n \in Names : store.tools[n] = Null /\ new.tools[n] # Null =>
            /\ new.tools[n].state = Discovered(cmd[p].cfg, n)
            /\ new.tools[n].hash = Null
      /\ \A place \in Places(cmd[p].saw) : LET n == ScanDirectory(cmd[p].saw)[place].name IN
            /\ new.tools[n] # Null
            /\ PlacesOf(ScanDirectory(cmd[p].saw), n) = {place} =>
                   new.tools[n].meta = ScanDirectory(cmd[p].saw)[place].meta
  BY <1>2, UpsertEffect
<1> store' = new
  BY <1>1
<1> HIDE DEF new
<1>4. \A n \in Names : store.tools[n] = Null /\ store'.tools[n] # Null
                         /\ store'.tools[n].state \in Served => n \in excused'
  BY <1>1
<1>5. \A place \in Places(synced') : LET n == ScanDirectory(synced')[place].name IN
            /\ store'.tools[n] # Null
            /\ PlacesOf(ScanDirectory(synced'), n) = {place} =>
                   store'.tools[n].meta = ScanDirectory(synced')[place].meta
  BY <1>1, <1>3
<1> QED BY <1>1, <1>2, <1>3, <1>4, <1>5

LEMMA StateRows ==
    ASSUME ReviewTypes, NEW p \in Operators, UpdateToolState(p)
    PROVE  LET n == Item(p).name IN
           /\ cmd[p].at = "update" /\ UNCHANGED <<approved, synced, excused>>
           /\ n \in Names /\ store.tools[n] # Null /\ store'.tools[n] # Null
           /\ store'.tools[n].state = Item(p).to /\ Item(p).to \in ToolStates
           /\ store'.tools[n].hash = store.tools[n].hash
           /\ store'.tools[n].meta = store.tools[n].meta
           /\ \A m \in Names : m # n => store'.tools[m] = store.tools[m]
           /\ Item(p).to \in Served => cmd'[p].at \in Sealing /\ Item(p)' = Item(p)
<1> DEFINE n == Item(p).name
           to == Item(p).to
           decided == Record(cmd[p], n, to)
<1>1. /\ cmd[p].at = "update" /\ GetTool(store, n) # Null
      /\ store' = SetToolState(store, n, to)
      /\ cmd' = [cmd EXCEPT ![p] =
                    IF NeedsHash(to)
                    THEN [decided EXCEPT !.at = IF Item(p).listed = Null THEN "lookup" ELSE "hash"]
                    ELSE Next1(decided)]
      /\ UNCHANGED <<approved, synced, excused>>
  BY DEF UpdateToolState, Continue
<1>2. n \in Names /\ store.tools[n] # Null
  BY <1>1 DEF GetTool
<1>3. to \in ToolStates /\ Stored(store) /\ cmd[p] \in CommandType
  BY <1>1 DEF ReviewTypes, TypesHold, StageHolds
<1>4. to \in Served => cmd'[p].at \in Sealing /\ Item(p)' = Item(p)
  <2> SUFFICES ASSUME to \in Served PROVE cmd'[p].at \in Sealing /\ Item(p)' = Item(p)
    OBVIOUS
  <2> DEFINE at == IF Item(p).listed = Null THEN "lookup" ELSE "hash"
  <2>1. cmd'[p] = [decided EXCEPT !.at = at] /\ at \in Sealing
    BY <1>1 DEF NeedsHash, ReviewTypes, TypesHold, Sealing
  <2> HIDE DEF at
  <2> HIDE DEF n, to
  <2>2. decided.todo = cmd[p].todo /\ "at" \in DOMAIN decided
    BY <1>3 DEF Record, CommandType
  <2> HIDE DEF decided
  <2>3. cmd'[p].at \in Sealing /\ cmd'[p].todo = cmd[p].todo
    BY <2>1, <2>2
  <2> QED BY <2>3 DEF Item
<1> HIDE DEF n, to, decided
<1>5. LET new == SetToolState(store, n, to)
      IN  /\ new.tools[n] # Null /\ new.tools[n].state = to
          /\ new.tools[n].hash = store.tools[n].hash /\ new.tools[n].meta = store.tools[n].meta
          /\ \A m \in Names : m # n => new.tools[m] = store.tools[m]
  BY <1>2, <1>3, StateEffect
<1> QED BY <1>1, <1>2, <1>3, <1>4, <1>5 DEF n, to

LEMMA HashRows ==
    ASSUME ReviewTypes, NEW p \in Operators, StoreHash(p)
    PROVE  LET n == Item(p).name IN
           /\ cmd[p].at = "seal" /\ UNCHANGED <<synced, excused>>
           /\ n \in Names /\ store.tools[n] # Null /\ store'.tools[n] # Null
           /\ store'.tools[n].hash \in Contents /\ store'.tools[n].hash \in approved'[n]
           /\ store'.tools[n].state = store.tools[n].state
           /\ store'.tools[n].meta = store.tools[n].meta
           /\ \A m \in Names : m # n => store'.tools[m] = store.tools[m]
           /\ \A m \in Names : approved[m] \subseteq approved'[m]
<1> DEFINE n == Item(p).name
<1>1. /\ cmd[p].at = "seal" /\ store' = UpdateContentHash(store, n, cmd[p].hash)
      /\ approved' = [approved EXCEPT ![n] = @ \cup {cmd[p].hash}]
      /\ UNCHANGED <<synced, excused>>
  BY DEF StoreHash
<1>2. /\ n \in Names /\ store.tools[n] # Null /\ cmd[p].hash \in Contents /\ Stored(store)
      /\ approved \in [Names -> SUBSET Contents]
  BY <1>1 DEF ReviewTypes, TypesHold, StageHolds, Sealing
<1> HIDE DEF n
<1>3. LET new == UpdateContentHash(store, n, cmd[p].hash)
      IN  /\ new.tools[n] # Null /\ new.tools[n].hash = cmd[p].hash
          /\ new.tools[n].state = store.tools[n].state /\ new.tools[n].meta = store.tools[n].meta
          /\ \A m \in Names : m # n => new.tools[m] = store.tools[m]
  BY <1>2, HashEffect
<1> QED BY <1>1, <1>2, <1>3 DEF n

-----------------------------------------------------------------------------
(* The invariants of the store.                                            *)

\* A hash in the store is that of approved content.
SoundRows ==
    \A n \in Names : store.tools[n] # Null =>
        store.tools[n].hash = Null \/ store.tools[n].hash \in approved[n]

\* The last scan that was written is in the store.
ScanStored ==
    synced \in Disks =>
        \A place \in Places(synced) : LET n == ScanDirectory(synced)[place].name IN
            /\ store.tools[n] # Null
            /\ PlacesOf(ScanDirectory(synced), n) = {place} =>
                   store.tools[n].meta = ScanDirectory(synced)[place].meta

Agrees(cfg) ==
    \A n \in Names : store.tools[n] # Null /\ cfg.tools[n] # Null =>
        store.tools[n].state = cfg.tools[n]

\* As long as commands ran one at a time, the command that runs holds a
\* configuration that agrees with the store; it is the one in the file until
\* it records a decision, and none is while it is being written.
InFile(p) ==
    /\ cmd[p].at \notin Writing /\ (cmd[p].at \notin Deciding \/ ~cmd[p].changed) =>
           Load(config) = cmd[p].cfg
    /\ cmd[p].at \in Writing => config = EmptyConfig

OneAgrees ==
    quiet =>
        /\ \A p, q \in Operators : p # q => cmd[p].at = "idle" \/ cmd[q].at = "idle"
        /\ (\A p \in Operators : cmd[p].at = "idle") /\ Load(config) # Null =>
               Agrees(Load(config))
        /\ \A p \in Operators : cmd[p].at # "idle" =>
               /\ Agrees(cmd[p].cfg)
               /\ InFile(p)

LEMMA CommandKeepsSoundRows ==
    ASSUME ReviewTypes, SoundRows, NEW p \in Operators, CommandStep(p)
    PROVE  SoundRows'
<1>1. CASE UNCHANGED <<store.tools, approved, synced>>
  BY <1>1 DEF SoundRows
<1>2. CASE UpsertTools(p)
  BY <1>2, UpsertRows DEF SoundRows
<1>3. CASE UpdateToolState(p)
  BY <1>3, StateRows DEF SoundRows
<1>4. CASE StoreHash(p)
  <2> SUFFICES ASSUME NEW n \in Names, store'.tools[n] # Null
               PROVE  store'.tools[n].hash = Null \/ store'.tools[n].hash \in approved'[n]
    BY DEF SoundRows
  <2>1. CASE n = Item(p).name
    BY <1>4, <2>1, HashRows
  <2>2. CASE n # Item(p).name
    <3>1. store'.tools[n] = store.tools[n] /\ approved[n] \subseteq approved'[n]
      BY <1>4, <2>2, HashRows
    <3> QED BY <3>1 DEF SoundRows
  <2> QED BY <2>1, <2>2
<1> QED BY <1>1, <1>2, <1>3, <1>4, WhoChangesRows

LEMMA CommandKeepsScan ==
    ASSUME ReviewTypes, ScanStored, NEW p \in Operators, CommandStep(p)
    PROVE  ScanStored'
<1>1. CASE UNCHANGED <<store.tools, approved, synced>>
  BY <1>1 DEF ScanStored
<1>2. CASE UpsertTools(p)
  BY <1>2, UpsertRows DEF ScanStored
<1>3. CASE UNCHANGED synced /\ \A n \in Names : store.tools[n] # Null =>
                                  store'.tools[n] # Null /\ store'.tools[n].meta = store.tools[n].meta
  <2> SUFFICES ASSUME synced \in Disks, NEW place \in Places(synced)
               PROVE  LET n == ScanDirectory(synced)[place].name IN
                         /\ store'.tools[n] # Null
                         /\ PlacesOf(ScanDirectory(synced), n) = {place} =>
                                store'.tools[n].meta = ScanDirectory(synced)[place].meta
    BY <1>3 DEF ScanStored
  <2> DEFINE n == ScanDirectory(synced)[place].name
  <2>1. n \in Names
    BY ScanType DEF Found
  <2>2. /\ store.tools[n] # Null
        /\ PlacesOf(ScanDirectory(synced), n) = {place} =>
               store.tools[n].meta = ScanDirectory(synced)[place].meta
    BY DEF ScanStored
  <2> HIDE DEF n
  <2>3. store'.tools[n] # Null /\ store'.tools[n].meta = store.tools[n].meta
    BY <1>3, <2>1, <2>2
  <2> QED BY <2>2, <2>3 DEF n
<1>4. CASE UpdateToolState(p)
  <2>1. \A n \in Names : store.tools[n] # Null =>
           store'.tools[n] # Null /\ store'.tools[n].meta = store.tools[n].meta
    BY <1>4, StateRows
  <2>2. UNCHANGED synced
    BY <1>4, StateRows
  <2> QED BY <1>3, <2>1, <2>2
<1>5. CASE StoreHash(p)
  <2>1. \A n \in Names : store.tools[n] # Null =>
           store'.tools[n] # Null /\ store'.tools[n].meta = store.tools[n].meta
    BY <1>5, HashRows
  <2>2. UNCHANGED synced
    BY <1>5, HashRows
  <2> QED BY <1>3, <2>1, <2>2
<1> QED BY <1>1, <1>2, <1>4, <1>5, WhoChangesRows

\* The tools that lack a hash are being hashed, or excused.
LEMMA CommandKeepsSeals ==
    ASSUME ReviewTypes, ApprovedToolsAreSealed, NEW p \in Operators, CommandStep(p)
    PROVE  ApprovedToolsAreSealed'
<1> SUFFICES ASSUME NEW n \in Names \ excused', store'.tools[n] # Null,
                    store'.tools[n].state \in Served, store'.tools[n].hash = Null
             PROVE  \E q \in Operators : cmd'[q].at \in Sealing /\ Item(q)'.name = n
  BY DEF ApprovedToolsAreSealed
<1>1. n \notin excused
  BY ExcusedStays
<1>2. \A q \in Operators : q # p => cmd'[q] = cmd[q]
  BY CommandTypes, MovesKeepTypes
<1>3. \A q \in Operators : q # p => Item(q)' = Item(q)
  BY <1>2 DEF Item
<1>4. ASSUME store.tools[n] # Null, store.tools[n].state \in Served, store.tools[n].hash = Null,
             cmd[p].at \in Sealing /\ Item(p).name = n =>
                 cmd'[p].at \in Sealing /\ Item(p)'.name = n
      PROVE  \E q \in Operators : cmd'[q].at \in Sealing /\ Item(q)'.name = n
  <2>1. PICK q \in Operators : cmd[q].at \in Sealing /\ Item(q).name = n
    BY <1>1, <1>4 DEF ApprovedToolsAreSealed
  <2>2. CASE q = p
    BY <1>4, <2>1, <2>2
  <2>3. CASE q # p
    BY <1>2, <1>3, <2>1, <2>3
  <2> QED BY <2>2, <2>3
<1>5. ASSUME cmd[p].at \in Sealing, Item(p).name = n, ~StoreHash(p)
      PROVE  cmd'[p].at \in Sealing /\ Item(p)'.name = n
  <2>1. ~Kill(p) /\ ~LoseHash(p)
    BY <1>5 DEF Kill, LoseHash, GoOnUnhashed
  <2>2. LookUpTool(p) \/ HashSource(p)
    BY <1>5, <2>1, WhoLeavesHashing
  <2>3. cmd \in [Operators -> CommandType] /\ cmd[p] \in CommandType /\ StageHolds(p)
    BY DEF ReviewTypes, TypesHold
  <2>4. CASE HashSource(p)
    <3> DEFINE content == disk[Item(p).listed]
    <3>1. content # Null
      BY <1>5, <2>4 DEF HashSource, GoOnUnhashed
    <3>2. cmd' = [cmd EXCEPT ![p] = [cmd[p] EXCEPT !.at = "seal", !.hash = content]]
      BY <2>4, <3>1 DEF HashSource, Continue
    <3> HIDE DEF content
    <3>3. cmd'[p] = [cmd[p] EXCEPT !.at = "seal", !.hash = content]
      BY <2>3, <3>2
    <3>4. cmd'[p].at = "seal" /\ cmd'[p].todo = cmd[p].todo
      BY <2>3, <3>3 DEF CommandType
    <3> QED BY <1>5, <3>4 DEF Item, Sealing
  <2>5. CASE LookUpTool(p)
    <3> DEFINE todo == cmd[p].todo
               source == store.tools[Item(p).name].source
               known == [todo EXCEPT ![1].listed = source]
    <3>1. todo \in Seq(Decisions) /\ todo # << >>
      BY <1>5, <2>3, StagesDiffer DEF StageHolds, Sealing
    <3>2. cmd' = [cmd EXCEPT ![p] = [cmd[p] EXCEPT !.at = "hash", !.todo = known]]
      BY <2>5 DEF LookUpTool, Continue
    <3>3. todo[1].name = n
      BY <1>5, <3>1 DEF Item
    <3> HIDE DEF source, todo
    <3>4. todo[1] \in Decisions /\ 1 \in DOMAIN todo
      BY <3>1
    <3> DEFINE item == [todo[1] EXCEPT !.listed = source]
    <3>5. item.name = n
      BY <3>3, <3>4 DEF Decisions
    <3>6. known = [todo EXCEPT ![1] = item]
      OBVIOUS
    <3> HIDE DEF item, known
    <3>10. known[1].name = n
      BY <3>1, <3>4, <3>5, <3>6
    <3>7. cmd'[p] = [cmd[p] EXCEPT !.at = "hash", !.todo = known]
      BY <2>3, <3>2
    <3>8. cmd'[p].at = "hash" /\ cmd'[p].todo = known
      BY <2>3, <3>7 DEF CommandType
    <3>9. Head(known) = known[1]
      BY DEF Head
    <3> QED BY <3>8, <3>9, <3>10 DEF Item, Sealing
  <2> QED BY <2>2, <2>4, <2>5
<1>6. CASE UNCHANGED <<store.tools, approved, synced>> /\ ~StoreHash(p)
  BY <1>4, <1>5, <1>6
<1>7. CASE UpsertTools(p)
  <2>1. cmd[p].at = "scan" /\ store.tools[n] # Null
    BY <1>7, UpsertRows
  <2>2. store.tools[n].state \in Served /\ store.tools[n].hash = Null
    BY <1>7, <2>1, UpsertRows
  <2> QED BY <1>4, <2>1, <2>2 DEF Sealing
<1>8. CASE UpdateToolState(p)
  <2>1. CASE n = Item(p).name
    <3>1. Item(p).to \in Served
      BY <1>8, <2>1, StateRows
    <3>2. cmd'[p].at \in Sealing /\ Item(p)' = Item(p)
      BY <1>8, <3>1, StateRows
    <3> QED BY <2>1, <3>2
  <2>2. CASE n # Item(p).name
    BY <1>4, <1>8, <2>2, StateRows
  <2> QED BY <2>1, <2>2
<1>9. CASE StoreHash(p)
  <2>1. n # Item(p).name
    BY <1>9, HashRows, StoreAssumption
  <2>2. store'.tools[n] = store.tools[n]
    BY <1>9, <2>1, HashRows
  <2> QED BY <1>4, <2>1, <2>2
<1> QED BY <1>6, <1>7, <1>8, <1>9, WhoChangesRows

SameStates == \A n \in Names : store'.tools[n] # Null =>
                  store.tools[n] # Null /\ store'.tools[n].state = store.tools[n].state

\* A command that goes on with the configuration that it has.
GoesOn(p) ==
    /\ cmd[p].at # "idle" /\ cmd'[p].at # "idle" /\ cmd'[p].cfg = cmd[p].cfg
    /\ cmd'[p].at \in Deciding <=> cmd[p].at \in Deciding
    /\ cmd'[p].at \notin Writing /\ cmd[p].at \notin Writing
    /\ cmd[p].changed => cmd'[p].changed
    /\ SameStates
    /\ UNCHANGED <<config, quiet>>

LEMMA StatesAgree ==
    ASSUME SameStates, NEW cfg, Agrees(cfg)
    PROVE  Agrees(cfg)'
BY DEF SameStates, Agrees

LEMMA SameToolsSameStates ==
    ASSUME UNCHANGED store.tools
    PROVE  SameStates
BY DEF SameStates

LEMMA GoesOnKeepsAgreement ==
    ASSUME OneAgrees, NEW p \in Operators, GoesOn(p),
           \A q \in Operators : q # p => cmd'[q] = cmd[q]
    PROVE  OneAgrees'
<1> SUFFICES ASSUME quiet
             PROVE  /\ \A q, r \in Operators : q # r => cmd'[q].at = "idle" \/ cmd'[r].at = "idle"
                    /\ (\A q \in Operators : cmd'[q].at = "idle") /\ Load(config') # Null =>
                           Agrees(Load(config))'
                    /\ \A q \in Operators : cmd'[q].at # "idle" =>
                           /\ Agrees(cmd[q].cfg)'
                           /\ InFile(q)'
  BY DEF OneAgrees, GoesOn
<1>1. \A q \in Operators : q # p => cmd[q].at = "idle" /\ cmd'[q].at = "idle"
  BY DEF OneAgrees, GoesOn
<1>2. Agrees(cmd[p].cfg) /\ InFile(p)
  BY DEF OneAgrees, GoesOn
<1>3. Agrees(cmd[p].cfg)'
  BY <1>2 DEF GoesOn, SameStates, Agrees
<1>4. InFile(p)'
  BY <1>2 DEF GoesOn, InFile
<1> QED BY <1>1, <1>3, <1>4 DEF GoesOn

\* A command that starts beside none, with the configuration of the file.
LEMMA StartAgrees ==
    ASSUME ReviewTypes, OneAgrees, NEW p \in Operators, NEW c \in CommandType, Start(p, c),
           c.at \notin Writing, UNCHANGED <<store, config>>
    PROVE  OneAgrees'
<1> SUFFICES ASSUME quiet'
             PROVE  /\ \A q, r \in Operators : q # r => cmd'[q].at = "idle" \/ cmd'[r].at = "idle"
                    /\ (\A q \in Operators : cmd'[q].at = "idle") /\ Load(config') # Null =>
                           Agrees(Load(config))'
                    /\ \A q \in Operators : cmd'[q].at # "idle" =>
                           /\ Agrees(cmd[q].cfg)'
                           /\ InFile(q)'
  BY DEF OneAgrees
<1>1. quiet /\ (\A q \in Operators : cmd[q].at = "idle") /\ Load(config) # Null
  BY DEF Start
<1>2. OnlyMoves(p) /\ cmd'[p] = [c EXCEPT !.cfg = Load(config)]
  BY StartTypes
<1>3. \A q \in Operators : q # p => cmd'[q] = cmd[q]
  BY <1>2 DEF OnlyMoves, ReviewTypes, TypesHold
<1>4. cmd'[p].cfg = Load(config) /\ cmd'[p].at = c.at
  BY <1>2 DEF CommandType
<1>5. Agrees(Load(config))
  BY <1>1 DEF OneAgrees
<1>6. Agrees(Load(config))' /\ Agrees(cmd[p].cfg)'
  BY <1>4, <1>5 DEF Agrees
<1>7. InFile(p)'
  BY <1>4 DEF InFile
<1> QED BY <1>1, <1>3, <1>6, <1>7

\* A command that ends with its configuration in the file.
LEMMA EndAgrees ==
    ASSUME ReviewTypes, OneAgrees, NEW p \in Operators, End(p), SameStates, UNCHANGED quiet,
           cmd[p].at # "idle",
           quiet /\ Agrees(cmd[p].cfg) => Load(config') = cmd[p].cfg
    PROVE  OneAgrees'
<1> SUFFICES ASSUME quiet
             PROVE  /\ \A q \in Operators : cmd'[q].at = "idle"
                    /\ Agrees(Load(config))'
  BY DEF OneAgrees
<1>1. OnlyMoves(p) /\ cmd'[p] = Rest
  BY EndMoves
<1>2. \A q \in Operators : q # p => cmd'[q] = cmd[q] /\ cmd[q].at = "idle"
  BY <1>1 DEF OnlyMoves, ReviewTypes, TypesHold, OneAgrees
<1>3. cmd'[p].at = "idle"
  BY <1>1 DEF Rest
<1>4. Agrees(cmd[p].cfg)
  BY DEF OneAgrees
<1>5. Agrees(Load(config))'
  <2> DEFINE cfg == cmd[p].cfg
  <2>1. Load(config') = cfg
    BY <1>4
  <2>2. \A n \in Names : store'.tools[n] # Null /\ cfg.tools[n] # Null =>
           store'.tools[n].state = cfg.tools[n]
    BY <1>4 DEF SameStates, Agrees
  <2> HIDE DEF cfg
  <2> QED BY <2>1, <2>2 DEF Agrees
<1> QED BY <1>2, <1>3, <1>5

\* A command that fails says so.
LEMMA FailAgrees ==
    ASSUME NEW p \in Operators, Fail(p)
    PROVE  OneAgrees'
BY DEF Fail, OneAgrees

LEMMA SkipGoesOn ==
    ASSUME ReviewTypes, NEW p \in Operators, cmd[p].at \in Deciding, cmd[p].todo # << >>,
           Continue(p, Next1(cmd[p])), SameStates, UNCHANGED <<config, quiet>>
    PROVE  GoesOn(p)
<1>1. cmd'[p] = Next1(cmd[p])
  BY FinishDecision
<1>2. /\ Next1(cmd[p]).at = "next" /\ Next1(cmd[p]).cfg = cmd[p].cfg
      /\ Next1(cmd[p]).changed = cmd[p].changed
  BY ItemType
<1> QED BY <1>1, <1>2, StagesDiffer DEF GoesOn

\* A command that is writing finds the file as it left it.
LEMMA WrittenAlone ==
    ASSUME OneAgrees, quiet, NEW p \in Operators, cmd[p].at \in Writing,
           config' \in Written(cmd[p].cfg), cmd[p].cfg \in Loaded
    PROVE  Load(config') = cmd[p].cfg
<1>1. cmd[p].at # "idle"
  BY StagesDiffer
<1>2. config = EmptyConfig
  BY <1>1 DEF OneAgrees, InFile
<1>3. config' = cmd[p].cfg
  BY <1>2 DEF Written
<1> QED BY <1>3, LoadOfLoaded

\* A command that stops deciding, or comes from or to a save.
LEMMA FileKeepsAgreement ==
    ASSUME OneAgrees, NEW p \in Operators, cmd[p].at # "idle", cmd'[p].at # "idle",
           cmd'[p].cfg = cmd[p].cfg, quiet => InFile(p)', SameStates, UNCHANGED quiet,
           \A q \in Operators : q # p => cmd'[q] = cmd[q]
    PROVE  OneAgrees'
<1> SUFFICES ASSUME quiet
             PROVE  /\ \A q, r \in Operators : q # r => cmd'[q].at = "idle" \/ cmd'[r].at = "idle"
                    /\ (\A q \in Operators : cmd'[q].at = "idle") /\ Load(config') # Null =>
                           Agrees(Load(config))'
                    /\ \A q \in Operators : cmd'[q].at # "idle" =>
                           /\ Agrees(cmd[q].cfg)'
                           /\ InFile(q)'
  BY DEF OneAgrees
<1>1. \A q \in Operators : q # p => cmd[q].at = "idle" /\ cmd'[q].at = "idle"
  BY DEF OneAgrees
<1>2. Agrees(cmd[p].cfg)
  BY DEF OneAgrees
<1>3. Agrees(cmd[p].cfg)'
  BY <1>2 DEF SameStates, Agrees
<1> QED BY <1>1, <1>3

LEMMA InitKeepsAgreement ==
    ASSUME ReviewTypes, OneAgrees, NEW p \in Operators, InitStep(p)
    PROVE  OneAgrees'
<1>1. cmd[p] \in CommandType /\ StageHolds(p) /\ cmd \in [Operators -> CommandType]
  BY DEF ReviewTypes, TypesHold
<1>2. \A q \in Operators : q # p => cmd'[q] = cmd[q]
  BY CommandTypes, MovesKeepTypes DEF CommandStep
<1> DEFINE first == [Rest EXCEPT !.at = "stat"]
<1>3. first \in CommandType /\ first.at \notin Writing
  BY RestType DEF CommandType, Stages, Plain, Writing
<1>4. CASE StartInit(p)
  <2>1. Start(p, first) /\ UNCHANGED <<store, config>>
    BY <1>4 DEF StartInit
  <2> HIDE DEF first
  <2> QED BY <1>3, <2>1, StartAgrees
<1>5. CASE Scaffold(p)
  <2>1. Start(p, first) /\ UNCHANGED <<store, config>>
    BY <1>5 DEF Scaffold
  <2> HIDE DEF first
  <2> QED BY <1>3, <2>1, StartAgrees
<1> HIDE DEF first
<1>6. CASE StatConfig(p)
  <2>1. cmd[p].at = "stat" /\ UNCHANGED <<store, config, quiet>>
    BY <1>6 DEF StatConfig
  <2>2. /\ cmd'[p].at \in {"create", "scan"} /\ cmd'[p].cfg = cmd[p].cfg
        /\ cmd'[p].changed = cmd[p].changed
    <3>1. CASE config = Null
      <4>1. Continue(p, [cmd[p] EXCEPT !.at = "create"])
        BY <1>6, <3>1 DEF StatConfig
      <4>2. "create" \in Stages
        BY DEF Stages, Plain
      <4> QED BY <4>1, <4>2, StageMoves
    <3>2. CASE config # Null
      <4>1. Continue(p, Scanning(cmd[p]))
        BY <1>6, <3>2 DEF StatConfig
      <4> QED BY <4>1, ScanningMoves
    <3> QED BY <3>1, <3>2
  <2>3. cmd'[p].at # "idle" /\ cmd'[p].at \notin Deciding \cup Writing
    BY <2>2 DEF Deciding, Sealing, Writing
  <2>4. cmd[p].at # "idle" /\ cmd[p].at \notin Deciding \cup Writing
    BY <2>1 DEF Deciding, Sealing, Writing
  <2>5. GoesOn(p)
    BY <2>1, <2>2, <2>3, <2>4, SameToolsSameStates DEF GoesOn
  <2> QED BY <1>2, <2>5, GoesOnKeepsAgreement
<1>7. CASE CreateConfig(p)
  <2>1. /\ cmd[p].at = "create" /\ config' = EmptyConfig /\ UNCHANGED <<store, quiet>>
        /\ Continue(p, [cmd[p] EXCEPT !.at = "fill"])
    BY <1>7 DEF CreateConfig
  <2>2. "fill" \in Stages /\ "fill" \in Writing
    BY DEF Stages, Plain, Writing
  <2>3. cmd'[p].at = "fill" /\ cmd'[p].cfg = cmd[p].cfg
    BY <2>1, <2>2, StageMoves
  <2>4. InFile(p)'
    BY <2>1, <2>2, <2>3 DEF InFile
  <2> QED BY <1>2, <2>1, <2>3, <2>4, SameToolsSameStates, FileKeepsAgreement
<1>8. CASE FillConfig(p)
  <2>1. /\ cmd[p].at = "fill" /\ config' \in Written(cmd[p].cfg) /\ UNCHANGED <<store, quiet>>
        /\ Continue(p, Scanning(cmd[p]))
    BY <1>8 DEF FillConfig
  <2>2. cmd[p].at \in Writing /\ cmd[p].cfg \in Loaded
    BY <1>1, <2>1 DEF Writing, CommandType
  <2>3. cmd'[p].at = "scan" /\ cmd'[p].cfg = cmd[p].cfg
    BY <2>1, ScanningMoves
  <2>4. quiet => InFile(p)'
    <3> SUFFICES ASSUME quiet PROVE InFile(p)'
      OBVIOUS
    <3>1. Load(config') = cmd'[p].cfg
      BY <2>1, <2>2, <2>3, WrittenAlone
    <3> QED BY <2>3, <3>1, StagesDiffer DEF InFile
  <2> QED BY <1>2, <2>1, <2>3, <2>4, SameToolsSameStates, FileKeepsAgreement
<1>9. CASE Scan(p)
  <2>1. UNCHANGED <<store, config, quiet>>
    BY <1>9 DEF Scan
  <2>2. /\ cmd[p].at = "scan" /\ cmd'[p].at = "scan"
        /\ cmd'[p].cfg = cmd[p].cfg /\ cmd'[p].changed = cmd[p].changed
    BY <1>9, ScanMoves
  <2>3. GoesOn(p)
    BY <2>1, <2>2, StagesDiffer, SameToolsSameStates DEF GoesOn
  <2> QED BY <1>2, <2>3, GoesOnKeepsAgreement
<1>10. CASE UpsertTools(p)
  <2>1. /\ cmd[p].at = "scan" /\ UNCHANGED <<config, quiet>>
        /\ cmd' = [cmd EXCEPT ![p] = [cmd[p] EXCEPT !.at = "resources", !.todo = ResourceListing]]
    BY <1>10 DEF UpsertTools, Continue
  <2>2. cmd'[p].at = "resources" /\ cmd'[p].cfg = cmd[p].cfg
    BY <1>1, <2>1 DEF CommandType
  <2> SUFFICES ASSUME quiet
               PROVE  /\ \A q, r \in Operators : q # r => cmd'[q].at = "idle" \/ cmd'[r].at = "idle"
                      /\ (\A q \in Operators : cmd'[q].at = "idle") /\ Load(config') # Null =>
                             Agrees(Load(config))'
                      /\ \A q \in Operators : cmd'[q].at # "idle" =>
                             /\ Agrees(cmd[q].cfg)'
                             /\ InFile(q)'
    BY <2>1 DEF OneAgrees
  <2>3. \A q \in Operators : q # p => cmd[q].at = "idle" /\ cmd'[q].at = "idle"
    BY <1>2, <2>1 DEF OneAgrees
  <2>4. Agrees(cmd[p].cfg) /\ Load(config) = cmd[p].cfg
    BY <2>1, StagesDiffer DEF OneAgrees, InFile
  <2> DEFINE cfg == cmd[p].cfg
  <2>5. \A n \in Names : store'.tools[n] # Null /\ cfg.tools[n] # Null =>
           store'.tools[n].state = cfg.tools[n]
    <3> SUFFICES ASSUME NEW n \in Names, store'.tools[n] # Null, cfg.tools[n] # Null
                 PROVE  store'.tools[n].state = cfg.tools[n]
      OBVIOUS
    <3>1. CASE store.tools[n] = Null
      <4>1. store'.tools[n].state = Discovered(cfg, n)
        BY <1>10, <3>1, UpsertRows
      <4> HIDE DEF cfg
      <4> QED BY <4>1 DEF Discovered
    <3>2. CASE store.tools[n] # Null
      BY <1>10, <2>4, <3>2, UpsertRows DEF Agrees
    <3> QED BY <3>1, <3>2
  <2>6. cmd'[p].cfg = cfg
    BY <2>2
  <2> HIDE DEF cfg
  <2>7. Agrees(cmd[p].cfg)'
    BY <2>5, <2>6 DEF Agrees
  <2>8. InFile(p)'
    BY <2>1, <2>2, <2>4, StagesDiffer DEF InFile, Writing, Deciding, Sealing
  <2> QED BY <2>2, <2>3, <2>7, <2>8
<1>11. CASE UpsertNextResource(p)
  <2>1. cmd[p].at = "resources" /\ UNCHANGED <<config, quiet>>
    BY <1>11 DEF UpsertNextResource
  <2>2. SameStates
    <3>1. Stored(store)
      BY DEF ReviewTypes, TypesHold
    <3>2. UNCHANGED store.tools
      BY <1>11, <3>1 DEF UpsertNextResource, UpsertResource, Stored
    <3> QED BY <3>2, SameToolsSameStates
  <2>3. CASE cmd[p].todo = << >>
    <3>1. End(p)
      BY <1>11, <2>3 DEF UpsertNextResource
    <3>2. quiet => Load(config') = cmd[p].cfg
      BY <2>1, StagesDiffer DEF OneAgrees, InFile, Writing, Deciding, Sealing
    <3> QED BY <2>1, <2>2, <3>1, <3>2, EndAgrees
  <2>4. CASE cmd[p].todo # << >>
    <3> DEFINE rest == Tail(cmd[p].todo)
    <3>1. cmd' = [cmd EXCEPT ![p] = [cmd[p] EXCEPT !.todo = rest]]
      BY <1>11, <2>4 DEF UpsertNextResource, Continue
    <3> HIDE DEF rest
    <3>2. cmd'[p].at = "resources" /\ cmd'[p].cfg = cmd[p].cfg /\ cmd'[p].changed = cmd[p].changed
      BY <1>1, <2>1, <3>1 DEF CommandType
    <3>3. GoesOn(p)
      BY <2>1, <2>2, <3>2 DEF GoesOn, Deciding, Sealing, Writing
    <3> QED BY <1>2, <3>3, GoesOnKeepsAgreement
  <2> QED BY <2>3, <2>4
<1> QED BY <1>4, <1>5, <1>6, <1>7, <1>8, <1>9, <1>10, <1>11 DEF InitStep

LEMMA ReviewKeepsAgreement ==
    ASSUME ReviewTypes, OneAgrees, NEW p \in Operators, ReviewStep(p)
    PROVE  OneAgrees'
<1>1. cmd[p] \in CommandType /\ StageHolds(p) /\ cmd \in [Operators -> CommandType]
  BY DEF ReviewTypes, TypesHold
<1>2. \A q \in Operators : q # p => cmd'[q] = cmd[q]
  BY CommandTypes, MovesKeepTypes DEF CommandStep
<1>3. Stored(store)
  BY DEF ReviewTypes, TypesHold
<1>4. CASE \E r \in Reviews : StartReview(p, r)
  <2>1. PICK r \in Reviews : StartReview(p, r)
    BY <1>4
  <2> DEFINE plan == Plan(r)
             first == [Rest EXCEPT !.at = "next", !.todo = plan, !.changed = r.mode # "production"]
  <2>2. plan \in Seq(Decisions)
    BY <1>3, PlanType
  <2>3. Start(p, first) /\ UNCHANGED <<store, config>>
    BY <2>1 DEF StartReview
  <2> HIDE DEF plan
  <2>4. first \in CommandType /\ first.at \notin Writing
    BY <2>2, RestType, StagesDiffer DEF CommandType, Stages
  <2> HIDE DEF first
  <2> QED BY <2>3, <2>4, StartAgrees
<1>5. ASSUME cmd[p].at \in Deciding, cmd[p].todo # << >>, Continue(p, Next1(cmd[p])),
             UNCHANGED <<store, config, quiet>>
      PROVE  OneAgrees'
  BY <1>2, <1>5, SkipGoesOn, SameToolsSameStates, GoesOnKeepsAgreement
<1>6. CASE Ask(p)
  <2>1. /\ cmd[p].at = "next" /\ cmd[p].todo # << >>
        /\ UNCHANGED <<store, config, quiet>>
    BY <1>6 DEF Ask
  <2>2. CASE Continue(p, Next1(cmd[p]))
    BY <1>5, <2>1, <2>2 DEF Deciding
  <2>3. CASE \E to \in Answers(Item(p)) : Continue(p, [cmd[p] EXCEPT !.todo[1].to = to])
    <3>1. PICK to \in Answers(Item(p)) : Continue(p, [cmd[p] EXCEPT !.todo[1].to = to])
      BY <2>3
    <3> DEFINE answered == [cmd[p].todo EXCEPT ![1].to = to]
    <3>2. cmd' = [cmd EXCEPT ![p] = [cmd[p] EXCEPT !.todo = answered]]
      BY <3>1 DEF Continue
    <3> HIDE DEF answered
    <3>3. cmd'[p].at = "next" /\ cmd'[p].cfg = cmd[p].cfg /\ cmd'[p].changed = cmd[p].changed
      BY <1>1, <2>1, <3>2 DEF CommandType
    <3>4. GoesOn(p)
      BY <2>1, <3>3, SameToolsSameStates, StagesDiffer DEF GoesOn
    <3> QED BY <1>2, <3>4, GoesOnKeepsAgreement
  <2> QED BY <1>6, <2>2, <2>3 DEF Ask
<1>7. CASE DecideResource(p)
  <2>1. /\ cmd[p].at = "next" /\ cmd[p].todo # << >>
        /\ store' = UpdateResourceState(store, Item(p).name, Item(p).to)
        /\ cmd' = [cmd EXCEPT ![p] = [Next1(cmd[p]) EXCEPT !.changed = TRUE]]
        /\ UNCHANGED <<config, quiet>>
    BY <1>7 DEF DecideResource, Decided, Continue
  <2>2. cmd[p].at \in Deciding
    BY <2>1 DEF Deciding
  <2>3. /\ Next1(cmd[p]) \in CommandType /\ Next1(cmd[p]).at = "next"
        /\ Next1(cmd[p]).cfg = cmd[p].cfg
    BY <2>1, <2>2, ItemType
  <2>4. cmd'[p] = [Next1(cmd[p]) EXCEPT !.changed = TRUE]
    BY <1>1, <2>1
  <2>5. cmd'[p].at = "next" /\ cmd'[p].cfg = cmd[p].cfg /\ cmd'[p].changed
    BY <2>3, <2>4 DEF CommandType
  <2>6. UNCHANGED store.tools
    BY <1>3, <2>1 DEF UpdateResourceState, Stored
  <2>7. GoesOn(p)
    BY <2>1, <2>5, <2>6, SameToolsSameStates, StagesDiffer DEF GoesOn
  <2> QED BY <1>2, <2>7, GoesOnKeepsAgreement
<1>8. CASE CheckTransition(p)
  <2>1. /\ cmd[p].at = "next" /\ UNCHANGED <<store, config, quiet>>
        /\ cmd' = [cmd EXCEPT ![p] = [cmd[p] EXCEPT !.at = "update"]]
    BY <1>8 DEF CheckTransition, Decided, Continue
  <2>2. cmd'[p].at = "update" /\ cmd'[p].cfg = cmd[p].cfg /\ cmd'[p].changed = cmd[p].changed
    BY <1>1, <2>1 DEF CommandType
  <2>3. GoesOn(p)
    BY <2>1, <2>2, SameToolsSameStates, StagesDiffer DEF GoesOn
  <2> QED BY <1>2, <2>3, GoesOnKeepsAgreement
<1>9. CASE RefuseTransition(p)
  BY <1>5, <1>9, FailAgrees DEF RefuseTransition, Decided, Deciding
<1>10. CASE UpdateToolState(p)
  <2> DEFINE n == Item(p).name
             to == Item(p).to
             decided == Record(cmd[p], n, to)
  <2>1. /\ cmd[p].at = "update" /\ UNCHANGED <<config, quiet>>
        /\ cmd' = [cmd EXCEPT ![p] =
                      IF NeedsHash(to)
                      THEN [decided EXCEPT !.at = IF Item(p).listed = Null THEN "lookup" ELSE "hash"]
                      ELSE Next1(decided)]
    BY <1>10 DEF UpdateToolState, Continue
  <2>2. /\ n \in Names /\ store'.tools[n].state = to /\ to \in ToolStates /\ store.tools[n] # Null
        /\ \A m \in Names : m # n => store'.tools[m] = store.tools[m]
    BY <1>10, StateRows
  <2> HIDE DEF n, to
  <2> DEFINE cfg == decided.cfg
  <2>3. /\ decided \in CommandType /\ decided.changed
        /\ cfg.tools[n] = to /\ \A m \in Names : m # n => cfg.tools[m] = cmd[p].cfg.tools[m]
    BY <1>1, <2>2 DEF Record, CommandType, Loaded, Config
  <2> HIDE DEF decided
  <2>4. cmd'[p].at \in Deciding /\ cmd'[p].cfg = cfg /\ cmd'[p].changed
    <3>1. CASE NeedsHash(to)
      <4> DEFINE at == IF Item(p).listed = Null THEN "lookup" ELSE "hash"
      <4>1. cmd'[p] = [decided EXCEPT !.at = at] /\ at \in Deciding
        BY <1>1, <2>1, <3>1 DEF Deciding, Sealing
      <4> HIDE DEF at
      <4> QED BY <2>3, <4>1 DEF CommandType
    <3>2. CASE ~NeedsHash(to)
      <4> DEFINE rest == Tail(decided.todo)
      <4>1. cmd'[p] = [decided EXCEPT !.at = "next", !.todo = rest, !.hash = Null]
        BY <1>1, <2>1, <3>2 DEF Next1
      <4> HIDE DEF rest
      <4> QED BY <2>3, <4>1 DEF CommandType, Deciding
    <3> QED BY <3>1, <3>2
  <2> SUFFICES ASSUME quiet
               PROVE  /\ \A q, r \in Operators : q # r => cmd'[q].at = "idle" \/ cmd'[r].at = "idle"
                      /\ (\A q \in Operators : cmd'[q].at = "idle") /\ Load(config') # Null =>
                             Agrees(Load(config))'
                      /\ \A q \in Operators : cmd'[q].at # "idle" =>
                             /\ Agrees(cmd[q].cfg)'
                             /\ InFile(q)'
    BY <2>1 DEF OneAgrees
  <2>5. \A q \in Operators : q # p => cmd[q].at = "idle" /\ cmd'[q].at = "idle"
    BY <1>2, <2>1 DEF OneAgrees
  <2>6. Agrees(cmd[p].cfg)
    BY <2>1 DEF OneAgrees
  <2>7. \A m \in Names : store'.tools[m] # Null /\ cfg.tools[m] # Null =>
           store'.tools[m].state = cfg.tools[m]
    BY <2>2, <2>3, <2>6 DEF Agrees
  <2> HIDE DEF cfg
  <2>8. Agrees(cmd[p].cfg)'
    BY <2>4, <2>7 DEF Agrees
  <2>9. InFile(p)'
    BY <2>4, StagesDiffer DEF InFile
  <2> QED BY <2>4, <2>5, <2>8, <2>9, StagesDiffer DEF Plain
<1>11. CASE ToolNotFound(p)
  <2>1. cmd[p].at \in Deciding /\ cmd[p].todo # << >>
    BY <1>1, <1>11 DEF ToolNotFound, StageHolds, Deciding
  <2> QED BY <1>5, <1>11, <2>1, FailAgrees DEF ToolNotFound
<1>12. CASE WarnOfFailure(p)
  <2>1. /\ cmd[p].at \in Deciding /\ cmd[p].todo # << >> /\ Continue(p, Next1(cmd[p]))
        /\ UNCHANGED <<store, config, quiet>>
    BY <1>1, <1>12, StagesDiffer DEF WarnOfFailure, Decided, StageHolds
  <2> QED BY <1>5, <2>1
<1>13. CASE LookUpTool(p)
  <2> DEFINE known == [cmd[p].todo EXCEPT ![1].listed = store.tools[Item(p).name].source]
  <2>1. /\ cmd[p].at = "lookup" /\ UNCHANGED <<store, config, quiet>>
        /\ cmd' = [cmd EXCEPT ![p] = [cmd[p] EXCEPT !.at = "hash", !.todo = known]]
    BY <1>13 DEF LookUpTool, Continue
  <2> HIDE DEF known
  <2>2. cmd'[p].at = "hash" /\ cmd'[p].cfg = cmd[p].cfg /\ cmd'[p].changed = cmd[p].changed
    BY <1>1, <2>1 DEF CommandType
  <2>3. GoesOn(p)
    BY <2>1, <2>2, SameToolsSameStates, StagesDiffer DEF GoesOn
  <2> QED BY <1>2, <2>3, GoesOnKeepsAgreement
<1>14. CASE HashSource(p)
  <2> DEFINE content == disk[Item(p).listed]
  <2>1. /\ cmd[p].at = "hash" /\ cmd[p].at \in Deciding /\ cmd[p].todo # << >>
        /\ UNCHANGED <<store, config, quiet>>
    BY <1>1, <1>14, StagesDiffer DEF HashSource, StageHolds
  <2>2. CASE content = Null
    <3>1. Continue(p, Next1(cmd[p]))
      BY <1>14, <2>2 DEF HashSource, GoOnUnhashed
    <3> QED BY <1>5, <2>1, <3>1
  <2>3. CASE content # Null
    <3>1. cmd' = [cmd EXCEPT ![p] = [cmd[p] EXCEPT !.at = "seal", !.hash = content]]
      BY <1>14, <2>3 DEF HashSource, Continue
    <3> HIDE DEF content
    <3>2. cmd'[p].at = "seal" /\ cmd'[p].cfg = cmd[p].cfg /\ cmd'[p].changed = cmd[p].changed
      BY <1>1, <3>1 DEF CommandType
    <3>3. GoesOn(p)
      BY <2>1, <3>2, SameToolsSameStates, StagesDiffer DEF GoesOn
    <3> QED BY <1>2, <3>3, GoesOnKeepsAgreement
  <2> QED BY <2>2, <2>3
<1>15. CASE StoreHash(p)
  <2>1. /\ cmd[p].at = "seal" /\ cmd[p].at \in Deciding /\ cmd[p].todo # << >>
        /\ Continue(p, Next1(cmd[p])) /\ UNCHANGED <<config, quiet>>
    BY <1>1, <1>15, StagesDiffer DEF StoreHash, StageHolds
  <2>2. SameStates
    BY <1>15, HashRows DEF SameStates
  <2> QED BY <1>2, <2>1, <2>2, SkipGoesOn, GoesOnKeepsAgreement
<1>16. CASE LoseHash(p)
  <2>1. /\ cmd[p].at \in Deciding /\ cmd[p].todo # << >> /\ Continue(p, Next1(cmd[p]))
        /\ UNCHANGED <<store, config, quiet>>
    BY <1>1, <1>16, StagesDiffer DEF LoseHash, GoOnUnhashed, StageHolds, Sealing
  <2> QED BY <1>5, <2>1
<1>17. CASE TruncateConfig(p)
  <2>1. cmd[p].at = "next" /\ UNCHANGED <<store, quiet>>
    BY <1>17 DEF TruncateConfig
  <2>2. CASE cmd[p].changed
    <3>1. config' = EmptyConfig /\ Continue(p, [cmd[p] EXCEPT !.at = "save"])
      BY <1>17, <2>2 DEF TruncateConfig
    <3>2. "save" \in Stages /\ "save" \in Writing
      BY DEF Stages, Plain, Writing
    <3>3. cmd'[p].at = "save" /\ cmd'[p].cfg = cmd[p].cfg
      BY <3>1, <3>2, StageMoves
    <3>4. InFile(p)'
      BY <3>1, <3>2, <3>3 DEF InFile
    <3> QED BY <1>2, <2>1, <3>3, <3>4, SameToolsSameStates, FileKeepsAgreement
  <2>3. CASE ~cmd[p].changed
    <3>1. End(p) /\ UNCHANGED config
      BY <1>17, <2>3 DEF TruncateConfig
    <3>2. quiet => Load(config') = cmd[p].cfg
      BY <2>1, <2>3, <3>1, StagesDiffer DEF OneAgrees, InFile
    <3> QED BY <2>1, <3>1, <3>2, SameToolsSameStates, EndAgrees
  <2> QED BY <2>2, <2>3
<1>18. CASE SaveConfig(p)
  <2>1. /\ cmd[p].at = "save" /\ End(p) /\ UNCHANGED <<store, quiet>>
        /\ config' \in Written(cmd[p].cfg)
    BY <1>18 DEF SaveConfig
  <2>2. cmd[p].at \in Writing /\ cmd[p].cfg \in Loaded
    BY <1>1, <2>1 DEF Writing, CommandType
  <2>3. quiet => Load(config') = cmd[p].cfg
    BY <2>1, <2>2, WrittenAlone
  <2> QED BY <2>1, <2>3, SameToolsSameStates, EndAgrees
<1> QED BY <1>4, <1>6, <1>7, <1>8, <1>9, <1>10, <1>11, <1>12, <1>13, <1>14, <1>15, <1>16, <1>17, <1>18
        DEF ReviewStep

-----------------------------------------------------------------------------
(* The calls of the server.                                                *)

ServeTypes ==
    /\ server \in [up : BOOLEAN, tools : SUBSET Names]
    /\ t \in [Names -> Row \cup {Null}]
    /\ call \in [Calls -> Call]

\* What is registered, by a server that runs, has a row, and the captured variables are sound.
Captured ==
    /\ server.tools # {} => server.up
    /\ \A n \in server.tools : store.tools[n] # Null
    /\ \A n \in Names : t[n] # Null => t[n].hash = Null \/ t[n].hash \in approved[n]

Reading == {"bind", "rebind"}
Bound == {"rebind", "check", "hash", "compare", "run", "ran"}

CallHolds(c) ==
    /\ call[c].at # "idle" => call[c].name \in server.tools
    /\ call[c].at \in Reading =>
         /\ call[c].row \in Row
         /\ call[c].row.hash = Null \/ call[c].row.hash \in approved[call[c].name]
    /\ call[c].at \in Bound => t[call[c].name] # Null
    /\ call[c].at = "compare" => call[c].hash \in Contents
    /\ call[c].at \in {"run", "ran"} /\ call[c].hash # Null =>
         call[c].hash \in approved[call[c].name]

ServeHolds == ServeTypes /\ Captured /\ \A c \in Calls : CallHolds(c)

\* Steps of the commands leave rows and what is approved.
LEMMA CommandKeepsServe ==
    ASSUME ServeHolds, UNCHANGED <<server, t, call>>, RowsStay,
           \A n \in Names : approved[n] \subseteq approved'[n]
    PROVE  ServeHolds'
<1>1. ServeTypes'
  BY DEF ServeHolds, ServeTypes
<1>2. server.tools \subseteq Names
  BY DEF ServeHolds, ServeTypes
<1>3. Captured'
  BY <1>2 DEF ServeHolds, Captured, RowsStay
<1>4. ASSUME NEW c \in Calls PROVE CallHolds(c)'
  <2>1. CallHolds(c) /\ call'[c] = call[c] /\ t' = t /\ server' = server
    BY DEF ServeHolds
  <2>2. call[c].at # "idle" => call[c].name \in Names
    BY <1>2, <2>1 DEF CallHolds
  <2> QED BY <2>1, <2>2 DEF CallHolds, Reading, Bound
<1> QED BY <1>1, <1>3, <1>4 DEF ServeHolds

\* The state that a step of the server leaves alone.
Untouched == <<disk, store, config, cmd, quiet, approved, excused, synced>>

\* Only call c moves, and of the captured variables only the one of its tool.
CallMoves(c) ==
    /\ \A d \in Calls : d # c => call'[d] = call[d]
    /\ \A n \in Names : n # call[c].name => t'[n] = t[n]
    /\ \A n \in Names : t[n] # Null => t'[n] # Null
    /\ server' = server
    /\ UNCHANGED Untouched

LEMMA OtherCallsHold ==
    ASSUME ServeHolds, NEW c \in Calls, CallMoves(c), ServeTypes', Captured', CallHolds(c)'
    PROVE  ServeHolds'
<1> SUFFICES ASSUME NEW d \in Calls, d # c PROVE CallHolds(d)'
  BY DEF ServeHolds
<1>1. CallHolds(d) /\ call'[d] = call[d] /\ server' = server /\ approved' = approved
  BY DEF ServeHolds, CallMoves, Untouched
<1>2. call[d].at # "idle" => call[d].name \in Names
  BY <1>1 DEF ServeHolds, ServeTypes, CallHolds
<1> QED BY <1>1, <1>2 DEF CallHolds, CallMoves, Reading, Bound

LEMMA FinishHolds ==
    ASSUME ServeHolds, NEW c \in Calls, Finish(c), UNCHANGED <<server, t>>, UNCHANGED Untouched
    PROVE  /\ ServeHolds' /\ CallMoves(c)
           /\ call'[c] = NoCall
<1>1. NoCall \in Call /\ NoCall.at = "idle"
  BY DEF NoCall, Call
<1>2. /\ call' \in [Calls -> Call] /\ call'[c] = NoCall
      /\ \A d \in Calls : d # c => call'[d] = call[d]
  BY <1>1 DEF Finish, ServeHolds, ServeTypes
<1>3. CallMoves(c)
  BY <1>2 DEF CallMoves
<1>4. ServeTypes' /\ Captured'
  BY <1>2 DEF ServeHolds, ServeTypes, Captured, Untouched
<1>5. CallHolds(c)'
  BY <1>1, <1>2 DEF CallHolds, Reading, Bound
<1> QED BY <1>2, <1>3, <1>4, <1>5, OtherCallsHold

\* A call begins, at a tool that is registered.
LEMMA BeginHolds ==
    ASSUME ServeHolds, NEW c \in Calls, NEW n \in Names, BeginCall(c, n)
    PROVE  /\ ServeHolds' /\ CallMoves(c)
           /\ call[c].at = "idle" /\ call'[c].at = "read"
<1>1. /\ call[c].at = "idle" /\ n \in server.tools
      /\ call' = [call EXCEPT ![c].at = "read", ![c].name = n]
      /\ UNCHANGED Untouched /\ UNCHANGED <<server, t>>
  BY DEF BeginCall, Untouched
<1>2. call \in [Calls -> Call]
  BY DEF ServeHolds, ServeTypes
<1>3. call' = [call EXCEPT ![c] = [call[c] EXCEPT !.at = "read", !.name = n]]
  BY <1>1
<1>4. /\ call' \in [Calls -> Call] /\ call'[c].at = "read" /\ call'[c].name = n
      /\ \A d \in Calls : d # c => call'[d] = call[d]
  BY <1>2, <1>3 DEF Call
<1>5. CallMoves(c)
  BY <1>1, <1>4 DEF CallMoves
<1>6. ServeTypes' /\ Captured'
  BY <1>1, <1>4 DEF ServeHolds, ServeTypes, Captured, Untouched
<1>7. CallHolds(c)'
  BY <1>1, <1>4 DEF CallHolds, Reading, Bound
<1> QED BY <1>1, <1>4, <1>5, <1>6, <1>7, OtherCallsHold

\* The row that a call reads.
LEMMA ReadHolds ==
    ASSUME ReviewTypes, SoundRows, ServeHolds, NEW c \in Calls, ReadRow(c)
    PROVE  LET n == call[c].name IN
           /\ ServeHolds' /\ CallMoves(c)
           /\ n \in Names
           /\ call[c].at = "read" /\ call'[c].at = "bind"
           /\ call'[c].name = n /\ call'[c].row = store.tools[n]
<1> DEFINE n == call[c].name
<1>1. /\ call[c].at = "read" /\ Go(c, "bind", GetTool(store, n), Null)
      /\ UNCHANGED Untouched /\ UNCHANGED <<server, t>>
  BY DEF ReadRow, At, Untouched, reviewVars
<1>2. n \in server.tools /\ n \in Names /\ store.tools[n] # Null
  BY <1>1 DEF ServeHolds, ServeTypes, Captured, CallHolds
<1>3. GetTool(store, n) = store.tools[n] /\ store.tools[n] \in Row
  BY <1>2 DEF GetTool, ReviewTypes, TypesHold, Stored
<1>4. /\ \A d \in Calls : d # c => call'[d] = call[d]
      /\ call'[c].at = "bind" /\ call'[c].row = store.tools[n] /\ call'[c].name = n
      /\ call' \in [Calls -> Call]
  <2> DEFINE fresh == store.tools[n]
             new == [call[c] EXCEPT !.at = "bind", !.row = fresh, !.hash = Null]
  <2>1. call \in [Calls -> Call] /\ call[c] \in Call /\ fresh \in Row
    BY <1>3 DEF ServeHolds, ServeTypes
  <2>2. call' = [call EXCEPT ![c] = new]
    BY <1>1, <1>3 DEF Go
  <2> HIDE DEF fresh
  <2>3. new \in Call /\ new.at = "bind" /\ new.row = fresh /\ new.name = n
    BY <2>1 DEF Call
  <2> HIDE DEF new
  <2> QED BY <2>1, <2>2, <2>3 DEF fresh
<1>5. CallMoves(c)
  BY <1>1, <1>4 DEF CallMoves
<1>6. ServeTypes' /\ Captured'
  BY <1>1, <1>4 DEF ServeHolds, ServeTypes, Captured, Untouched
<1>7. store.tools[n].hash = Null \/ store.tools[n].hash \in approved[n]
  BY <1>2 DEF SoundRows
<1>8. CallHolds(c)'
  BY <1>1, <1>2, <1>3, <1>4, <1>7 DEF CallHolds, Reading, Bound, Untouched
<1> QED BY <1>1, <1>2, <1>4, <1>5, <1>6, <1>8, OtherCallsHold

\* A row of which source and metadata were replaced.
LEMMA MixedRow ==
    ASSUME NEW a \in Row, NEW b \in Row
    PROVE  LET mixed == [a EXCEPT !.source = b.source, !.meta = b.meta]
           IN mixed \in Row /\ mixed.state = a.state /\ mixed.hash = a.hash /\ mixed # Null
BY StoreAssumption DEF Row

LEMMA BindSourceHolds ==
    ASSUME ServeHolds, NEW c \in Calls, BindSource(c)
    PROVE  /\ ServeHolds' /\ CallMoves(c)
           /\ call[c].at = "bind" /\ call'[c].at = "rebind"
           /\ call'[c].name = call[c].name /\ call'[c].row = call[c].row
<1> DEFINE n == call[c].name
           row == call[c].row
           new == IF t[n] = Null THEN row ELSE [t[n] EXCEPT !.source = row.source, !.meta = row.meta]
<1>1. /\ call[c].at = "bind" /\ t' = [t EXCEPT ![n] = new] /\ Go(c, "rebind", row, Null)
      /\ UNCHANGED Untouched /\ UNCHANGED server
  BY DEF BindSource, At, Untouched, reviewVars
<1>2. /\ n \in server.tools /\ n \in Names /\ t \in [Names -> Row \cup {Null}] /\ row \in Row
      /\ row.hash = Null \/ row.hash \in approved[n]
      /\ t[n] # Null => t[n].hash = Null \/ t[n].hash \in approved[n]
  BY <1>1 DEF ServeHolds, ServeTypes, Captured, CallHolds, Reading
<1>3. new \in Row /\ new # Null /\ (new.hash = Null \/ new.hash \in approved[n])
  BY <1>2, MixedRow, StoreAssumption
<1>4. /\ \A d \in Calls : d # c => call'[d] = call[d]
      /\ call'[c].at = "rebind" /\ call'[c].row = row /\ call'[c].name = n
      /\ call' \in [Calls -> Call]
  <2> DEFINE moved == [call[c] EXCEPT !.at = "rebind", !.row = row, !.hash = Null]
  <2>1. call \in [Calls -> Call] /\ call[c] \in Call
    BY DEF ServeHolds, ServeTypes
  <2>2. call' = [call EXCEPT ![c] = moved]
    BY <1>1 DEF Go
  <2>3. moved \in Call /\ moved.at = "rebind" /\ moved.row = row /\ moved.name = n
    BY <1>2, <2>1 DEF Call
  <2> HIDE DEF moved
  <2> QED BY <2>1, <2>2, <2>3
<1> HIDE DEF new
<1>5. t' \in [Names -> Row \cup {Null}] /\ t'[n] = new /\ \A m \in Names : m # n => t'[m] = t[m]
  BY <1>1, <1>2, <1>3
<1>6. CallMoves(c)
  BY <1>1, <1>3, <1>4, <1>5 DEF CallMoves
<1>7. ServeTypes' /\ Captured'
  BY <1>1, <1>3, <1>4, <1>5 DEF ServeHolds, ServeTypes, Captured, Untouched
<1>8. CallHolds(c)'
  BY <1>1, <1>2, <1>3, <1>4, <1>5 DEF CallHolds, Reading, Bound, Untouched
<1> QED BY <1>1, <1>4, <1>6, <1>7, <1>8, OtherCallsHold

LEMMA BindStateHolds ==
    ASSUME ServeHolds, NEW c \in Calls, BindState(c)
    PROVE  /\ ServeHolds' /\ CallMoves(c)
           /\ call[c].at = "rebind" /\ call'[c].at = "check"
           /\ call'[c].name = call[c].name
           /\ t'[call[c].name].state = call[c].row.state
           /\ t'[call[c].name].hash = call[c].row.hash
<1> DEFINE n == call[c].name
           row == call[c].row
           new == [row EXCEPT !.source = t[n].source, !.meta = t[n].meta]
<1>1. /\ call[c].at = "rebind" /\ t' = [t EXCEPT ![n] = new] /\ Go(c, "check", Null, Null)
      /\ UNCHANGED Untouched /\ UNCHANGED server
  BY DEF BindState, At, Untouched, reviewVars
<1>2. /\ n \in server.tools /\ n \in Names /\ t \in [Names -> Row \cup {Null}] /\ row \in Row
      /\ row.hash = Null \/ row.hash \in approved[n]
      /\ t[n] \in Row
  BY <1>1 DEF ServeHolds, ServeTypes, Captured, CallHolds, Reading, Bound
<1>3. new \in Row /\ new # Null /\ new.state = row.state /\ new.hash = row.hash
  BY <1>2, MixedRow
<1>4. /\ \A d \in Calls : d # c => call'[d] = call[d]
      /\ call'[c].at = "check" /\ call'[c].name = n
      /\ call' \in [Calls -> Call]
  <2> DEFINE moved == [call[c] EXCEPT !.at = "check", !.row = Null, !.hash = Null]
  <2>1. call \in [Calls -> Call] /\ call[c] \in Call
    BY DEF ServeHolds, ServeTypes
  <2>2. call' = [call EXCEPT ![c] = moved]
    BY <1>1 DEF Go
  <2>3. moved \in Call /\ moved.at = "check" /\ moved.name = n
    BY <2>1 DEF Call
  <2> HIDE DEF moved
  <2> QED BY <2>1, <2>2, <2>3
<1> HIDE DEF new
<1>5. t' \in [Names -> Row \cup {Null}] /\ t'[n] = new /\ \A m \in Names : m # n => t'[m] = t[m]
  BY <1>1, <1>2, <1>3
<1>6. CallMoves(c)
  BY <1>1, <1>3, <1>4, <1>5 DEF CallMoves
<1>7. ServeTypes' /\ Captured'
  BY <1>1, <1>2, <1>3, <1>4, <1>5 DEF ServeHolds, ServeTypes, Captured, Untouched
<1>8. CallHolds(c)'
  BY <1>1, <1>2, <1>3, <1>4, <1>5 DEF CallHolds, Reading, Bound, Untouched
<1> QED BY <1>1, <1>3, <1>4, <1>5, <1>6, <1>7, <1>8, OtherCallsHold

\* The steps after the binding read the captured variable and do not write it.
LEMMA ReadingMoves ==
    ASSUME ServeHolds, NEW c \in Calls, call[c].at \in Bound, NEW stage, NEW hash,
           stage \in {"hash", "compare", "run", "ran"}, hash \in Contents \cup {Null},
           stage = "compare" => hash \in Contents,
           stage \in {"run", "ran"} /\ hash # Null => hash \in approved[call[c].name],
           Go(c, stage, Null, hash), UNCHANGED <<server, t>>, UNCHANGED Untouched
    PROVE  /\ ServeHolds' /\ CallMoves(c)
           /\ call'[c].at = stage /\ call'[c].name = call[c].name /\ call'[c].hash = hash
<1>1. /\ \A d \in Calls : d # c => call'[d] = call[d]
      /\ call'[c].at = stage /\ call'[c].name = call[c].name /\ call'[c].hash = hash
      /\ call' \in [Calls -> Call]
  <2> DEFINE new == [call[c] EXCEPT !.at = stage, !.row = Null, !.hash = hash]
  <2>1. call \in [Calls -> Call] /\ call[c] \in Call
    BY DEF ServeHolds, ServeTypes
  <2>2. call' = [call EXCEPT ![c] = new]
    BY DEF Go
  <2>3. new \in Call /\ new.at = stage /\ new.name = call[c].name /\ new.hash = hash
    BY <2>1 DEF Call
  <2> HIDE DEF new
  <2> QED BY <2>1, <2>2, <2>3
<1>2. CallMoves(c)
  BY <1>1 DEF CallMoves
<1>3. ServeTypes' /\ Captured'
  BY <1>1 DEF ServeHolds, ServeTypes, Captured, Untouched
<1>4. CallHolds(c)'
  BY <1>1 DEF ServeHolds, CallHolds, Reading, Bound, Untouched
<1> QED BY <1>1, <1>2, <1>3, <1>4, OtherCallsHold

LEMMA CheckHolds ==
    ASSUME ServeHolds, NEW c \in Calls, CheckTool(c)
    PROVE  /\ ServeHolds' /\ CallMoves(c) /\ call[c].at = "check" /\ t' = t
           /\ \/ call'[c] = NoCall
              \/ /\ call'[c].name = call[c].name /\ t[call[c].name].state # "disabled"
                 /\ call'[c].at = IF t[call[c].name].hash = Null THEN "run" ELSE "hash"
<1>1. call[c].at = "check" /\ UNCHANGED Untouched /\ UNCHANGED <<server, t>>
  BY DEF CheckTool, At, Untouched, reviewVars
<1>2. CASE Denied(c)
  BY <1>1, <1>2, FinishHolds DEF CheckTool
<1>3. CASE ~Denied(c)
  <2> DEFINE stage == IF t[call[c].name].hash = Null THEN "run" ELSE "hash"
  <2>1. Go(c, stage, Null, Null)
    BY <1>3 DEF CheckTool, Tool
  <2>2. stage \in {"hash", "run"}
    OBVIOUS
  <2> HIDE DEF stage
  <2>3. /\ ServeHolds' /\ CallMoves(c) /\ call'[c].at = stage /\ call'[c].name = call[c].name
    BY <1>1, <2>1, <2>2, ReadingMoves DEF Bound
  <2>4. t[call[c].name].state # "disabled"
    BY <1>3 DEF Denied, Tool
  <2> QED BY <1>1, <2>3, <2>4 DEF stage
<1> QED BY <1>2, <1>3

LEMMA HashToolHolds ==
    ASSUME ReviewTypes, ServeHolds, NEW c \in Calls, HashTool(c)
    PROVE  /\ ServeHolds' /\ CallMoves(c) /\ call[c].at = "hash" /\ t' = t
           /\ \/ call'[c] = NoCall
              \/ /\ call'[c].name = call[c].name /\ call'[c].at = "compare"
                 /\ \E f \in Files : call'[c].hash = disk[f]
<1>1. call[c].at = "hash" /\ UNCHANGED Untouched /\ UNCHANGED <<server, t>>
  BY DEF HashTool, At, Untouched, reviewVars
<1> DEFINE file == t[call[c].name].source
           content == disk[file]
<1>2. file \in Files
  <2>1. call[c].name \in Names /\ t[call[c].name] \in Row
    BY <1>1 DEF ServeHolds, ServeTypes, CallHolds, Bound
  <2> QED BY <2>1 DEF Row
<1>3. content \in Contents \cup {Null}
  BY <1>2 DEF ReviewTypes, TypesHold, Disks
<1> HIDE DEF file
<1>4. CASE content = Null
  BY <1>1, <1>4, FinishHolds DEF HashTool, Tool, file
<1>5. CASE content # Null
  <2>1. Go(c, "compare", Null, content)
    BY <1>5 DEF HashTool, Tool, file
  <2>2. content \in Contents
    BY <1>3, <1>5
  <2> HIDE DEF content
  <2>3. /\ ServeHolds' /\ CallMoves(c)
        /\ call'[c].at = "compare" /\ call'[c].name = call[c].name /\ call'[c].hash = content
    BY <1>1, <2>1, <2>2, ReadingMoves DEF Bound
  <2> QED BY <1>1, <1>2, <2>3 DEF content
<1> QED BY <1>4, <1>5

LEMMA CompareHolds ==
    ASSUME ServeHolds, NEW c \in Calls, CompareHash(c)
    PROVE  /\ ServeHolds' /\ CallMoves(c) /\ call[c].at = "compare" /\ t' = t
           /\ \/ call'[c] = NoCall
              \/ call'[c].name = call[c].name /\ call[c].hash = t[call[c].name].hash
<1>1. call[c].at = "compare" /\ UNCHANGED Untouched /\ UNCHANGED <<server, t>>
  BY DEF CompareHash, At, Untouched, reviewVars
<1>2. CASE call[c].hash # Tool(c).hash
  BY <1>1, <1>2, FinishHolds DEF CompareHash
<1>3. CASE call[c].hash = Tool(c).hash
  <2> DEFINE h == call[c].hash
             n == call[c].name
  <2>1. Go(c, "run", Null, h)
    BY <1>3 DEF CompareHash
  <2>2. h \in Contents /\ t[n] # Null /\ n \in Names /\ h = t[n].hash
    BY <1>1, <1>3 DEF ServeHolds, ServeTypes, CallHolds, Bound, Tool
  <2>3. h \in approved[n]
    BY <2>2, StoreAssumption DEF ServeHolds, Captured
  <2> HIDE DEF h
  <2>4. ServeHolds' /\ CallMoves(c) /\ call'[c].name = call[c].name
    BY <1>1, <2>1, <2>2, <2>3, ReadingMoves DEF Bound
  <2> QED BY <1>1, <2>2, <2>4 DEF h
<1> QED BY <1>2, <1>3

LEMMA ExecuteHolds ==
    ASSUME ServeHolds, NEW c \in Calls, Execute(c)
    PROVE  ServeHolds' /\ CallMoves(c) /\ call[c].at = "run" /\ t' = t
<1>1. call[c].at = "run" /\ UNCHANGED Untouched /\ UNCHANGED <<server, t>>
  BY DEF Execute, At, Untouched, reviewVars
<1>2. CASE Finish(c)
  BY <1>1, <1>2, FinishHolds
<1>3. CASE Go(c, "ran", Null, call[c].hash)
  <2> DEFINE h == call[c].hash
  <2>1. h \in Contents \cup {Null} /\ (h # Null => h \in approved[call[c].name])
    BY <1>1 DEF ServeHolds, ServeTypes, Call, CallHolds
  <2>2. Go(c, "ran", Null, h)
    BY <1>3
  <2> HIDE DEF h
  <2> QED BY <1>1, <2>1, <2>2, ReadingMoves DEF Bound
<1> QED BY <1>2, <1>3 DEF Execute

LEMMA ReplyHolds ==
    ASSUME ServeHolds, NEW c \in Calls, Reply(c)
    PROVE  ServeHolds' /\ CallMoves(c) /\ call[c].at = "ran" /\ t' = t
<1>1. call[c].at = "ran" /\ Finish(c) /\ UNCHANGED Untouched /\ UNCHANGED <<server, t>>
  BY DEF Reply, At, Untouched, reviewVars
<1> QED BY <1>1, FinishHolds
\* A server that starts or stops has no call that is under way.
LEMMA StartHolds ==
    ASSUME ServeHolds, StartServer
    PROVE  ServeHolds' /\ UNCHANGED call /\ UNCHANGED t /\ UNCHANGED Untouched
<1>1. /\ ~server.up /\ server'.up /\ server'.tools \subseteq Names /\ server' \in [up : BOOLEAN, tools : SUBSET Names]
      /\ server'.tools = {n \in Names : store.tools[n] # Null /\ InProfile(n)
                                        /\ store.tools[n].state \in Served}
      /\ UNCHANGED <<t, call>> /\ UNCHANGED Untouched
  BY DEF StartServer, Untouched, reviewVars
<1>2. \A c \in Calls : call[c].at = "idle"
  BY <1>1 DEF ServeHolds, Captured, CallHolds
<1>3. ServeTypes' /\ Captured'
  BY <1>1 DEF ServeHolds, ServeTypes, Captured, Untouched
<1>4. \A c \in Calls : CallHolds(c)'
  BY <1>1, <1>2 DEF CallHolds, Reading, Bound
<1> QED BY <1>1, <1>3, <1>4 DEF ServeHolds

LEMMA StopHolds ==
    ASSUME ServeHolds, StopServer
    PROVE  ServeHolds' /\ (\A c \in Calls : call'[c].at = "idle") /\ UNCHANGED Untouched
<1>1. /\ server' = [up |-> FALSE, tools |-> {}] /\ t' = [n \in Names |-> Null]
      /\ call' = [c \in Calls |-> NoCall] /\ UNCHANGED Untouched
  BY DEF StopServer, Untouched, reviewVars
<1>2. NoCall \in Call /\ NoCall.at = "idle"
  BY DEF NoCall, Call
<1>3. ServeTypes' /\ Captured'
  BY <1>1, <1>2 DEF ServeTypes, Captured
<1>4. \A c \in Calls : call'[c].at = "idle"
  BY <1>1, <1>2
<1>5. \A c \in Calls : CallHolds(c)'
  BY <1>1, <1>4 DEF CallHolds, Reading, Bound
<1> QED BY <1>1, <1>3, <1>4, <1>5 DEF ServeHolds

LEMMA CommandServes ==
    ASSUME ReviewTypes, ServeHolds, NEW p \in Operators, CommandStep(p), UNCHANGED <<server, t, call>>
    PROVE  ServeHolds'
<1>1. RowsStay
  BY CommandTypes DEF Moves
<1>2. \A n \in Names : approved[n] \subseteq approved'[n]
  <2>1. UNCHANGED approved \/ StoreHash(p)
    BY WhoChangesRows, UpsertRows, StateRows
  <2>2. CASE StoreHash(p)
    BY <2>2, HashRows
  <2> QED BY <2>1, <2>2
<1> QED BY <1>1, <1>2, CommandKeepsServe
-----------------------------------------------------------------------------
(* What speaks against a call that met no other call of its tool.          *)

Reasons == {"disabled", "unapproved"}

\* As long as a reason stands, the call keeps to the stages before the check
\* that it fails, and what it has read says why.
DisabledHolds(c) ==
    /\ call[c].at \in {"read", "bind", "rebind", "check"}
    /\ call[c].at \in Reading => call[c].row.state = "disabled"
    /\ call[c].at = "check" => t[call[c].name].state = "disabled"

UnapprovedHolds(c) ==
    /\ call[c].at \in {"read", "bind", "rebind", "check", "hash", "compare"}
    /\ call[c].at \in Reading => call[c].row.hash # Null
    /\ call[c].at \in {"check", "hash", "compare"} => t[call[c].name].hash # Null
    /\ call[c].at = "compare" => call[c].hash # t[call[c].name].hash

BarHolds(c) ==
    /\ barred[c] \subseteq Reasons
    /\ lone[c] =>
         /\ call[c].at # "idle"
         /\ \A d \in Calls : d # c => call[d].name # call[c].name
         /\ "disabled" \in barred[c] => DisabledHolds(c)
         /\ "unapproved" \in barred[c] => UnapprovedHolds(c)

\* What the observers have seen after a step.
LEMMA ObservedReasons ==
    ASSUME Observe, NEW c \in Calls, NEW why \in barred'[c]
    PROVE  /\ why \in Reasons
           /\ call[c].at = "idle" \/ why \in barred[c]
           /\ call'[c].name \in Names
           /\ why = "disabled" => store'.tools[call'[c].name].state = "disabled"
           /\ why = "unapproved" => /\ store'.tools[call'[c].name].hash # Null
                                    /\ \A f \in Files : disk'[f] \notin approved'[call'[c].name]
<1>1. why \in {w \in UNION {Objections(n)' : n \in Names \cap {call'[c].name}} :
                  Began(c) \/ w \in barred[c]}
  BY DEF Observe
<1>2. Began(c) \/ why \in barred[c]
  BY <1>1
<1>3. PICK n \in Names \cap {call'[c].name} : why \in Objections(n)'
  BY <1>1
<1>4. n = call'[c].name /\ n \in Names
  BY <1>3
<1>5. /\ why \in Reasons
      /\ why = "disabled" => store'.tools[n].state = "disabled"
      /\ why = "unapproved" => /\ store'.tools[n].hash # Null
                               /\ \A f \in Files : disk'[f] \notin approved'[n]
  BY <1>3 DEF Objections, Reasons
<1> QED BY <1>2, <1>4, <1>5 DEF Began

LEMMA ObservedLone ==
    ASSUME Observe, NEW c \in Calls, lone'[c]
    PROVE  /\ call'[c].at # "idle"
           /\ call[c].at = "idle" \/ lone[c]
           /\ \A d \in Calls : d # c => call'[d].name # call'[c].name
<1>1. /\ call'[c].at # "idle"
      /\ Began(c) \/ lone[c]
      /\ \A d \in Calls \ {c} : call'[d].name # call'[c].name
  BY DEF Observe
<1> QED BY <1>1 DEF Began
\* A call that does not move keeps what it has read.
LEMMA OthersKeepBars ==
    ASSUME ServeHolds, NEW c \in Calls, BarHolds(c), Observe, call'[c] = call[c],
           lone[c] /\ call[c].at \in Bound => t'[call[c].name] = t[call[c].name]
    PROVE  BarHolds(c)'
<1>1. barred'[c] \subseteq Reasons
  BY ObservedReasons
<1>2. SUFFICES ASSUME lone'[c]
               PROVE  /\ call'[c].at # "idle"
                      /\ \A d \in Calls : d # c => call'[d].name # call'[c].name
                      /\ "disabled" \in barred'[c] => DisabledHolds(c)'
                      /\ "unapproved" \in barred'[c] => UnapprovedHolds(c)'
  BY <1>1 DEF BarHolds
<1>3. /\ call'[c].at # "idle" /\ call[c].at # "idle" /\ lone[c]
      /\ \A d \in Calls : d # c => call'[d].name # call'[c].name
  BY <1>2, ObservedLone
<1>4. \A why \in barred'[c] : why \in barred[c]
  BY <1>3, ObservedReasons
<1>5. "disabled" \in barred'[c] => DisabledHolds(c)'
  BY <1>3, <1>4 DEF BarHolds, DisabledHolds, Bound, Reading
<1>6. "unapproved" \in barred'[c] => UnapprovedHolds(c)'
  BY <1>3, <1>4 DEF BarHolds, UnapprovedHolds, Bound, Reading
<1> QED BY <1>3, <1>5, <1>6

\* A call that moves keeps its bars when its two parts do.
LEMMA MoverKeepsBars ==
    ASSUME Observe, NEW c \in Calls, BarHolds(c), call[c].at # "idle",
           lone'[c] /\ lone[c] /\ "disabled" \in barred[c] /\ "disabled" \in barred'[c] /\ DisabledHolds(c)
               => DisabledHolds(c)',
           lone'[c] /\ lone[c] /\ "unapproved" \in barred[c] /\ "unapproved" \in barred'[c] /\ UnapprovedHolds(c)
               => UnapprovedHolds(c)'
    PROVE  BarHolds(c)'
<1>1. barred'[c] \subseteq Reasons /\ \A why \in barred'[c] : why \in barred[c]
  BY ObservedReasons
<1>2. SUFFICES ASSUME lone'[c]
               PROVE  /\ call'[c].at # "idle"
                      /\ \A d \in Calls : d # c => call'[d].name # call'[c].name
                      /\ "disabled" \in barred'[c] => DisabledHolds(c)'
                      /\ "unapproved" \in barred'[c] => UnapprovedHolds(c)'
  BY <1>1 DEF BarHolds
<1>3. /\ call'[c].at # "idle" /\ lone[c]
      /\ \A d \in Calls : d # c => call'[d].name # call'[c].name
  BY <1>2, ObservedLone
<1>4. /\ "disabled" \in barred[c] => DisabledHolds(c)
      /\ "unapproved" \in barred[c] => UnapprovedHolds(c)
  BY <1>3 DEF BarHolds
<1> QED BY <1>1, <1>2, <1>3, <1>4

LEMMA CallKeepsBars ==
    ASSUME ReviewTypes, SoundRows, ServeHolds, NEW c \in Calls, BarHolds(c), Observe, CallStep(c)
    PROVE  BarHolds(c)'
<1> DEFINE n == call[c].name
<1>1. barred'[c] \subseteq Reasons
  BY ObservedReasons
<1>2. CASE call'[c].at = "idle"
  <2>1. ~lone'[c]
    BY <1>2, ObservedLone
  <2> QED BY <1>1, <2>1 DEF BarHolds
<1>3. CASE \E m \in Names : BeginCall(c, m)
  <2>1. call'[c].at = "read"
    BY <1>3, BeginHolds
  <2>2. DisabledHolds(c)' /\ UnapprovedHolds(c)'
    BY <2>1 DEF DisabledHolds, UnapprovedHolds, Reading
  <2> QED BY <1>1, <2>1, <2>2, ObservedLone DEF BarHolds
<1>4. CASE ReadRow(c)
  <2>1. /\ call[c].at = "read" /\ call'[c].at = "bind" /\ call'[c].name = n
        /\ call'[c].row = store.tools[n] /\ store' = store
    BY <1>4, ReadHolds DEF CallMoves, Untouched
  <2>2. "disabled" \in barred'[c] => DisabledHolds(c)'
    BY <2>1, ObservedReasons DEF DisabledHolds, Reading
  <2>3. "unapproved" \in barred'[c] => UnapprovedHolds(c)'
    BY <2>1, ObservedReasons DEF UnapprovedHolds, Reading
  <2> QED BY <2>1, <2>2, <2>3, MoverKeepsBars
<1>5. CASE BindSource(c)
  <2>1. /\ call[c].at = "bind" /\ call'[c].at = "rebind" /\ call'[c].row = call[c].row
    BY <1>5, BindSourceHolds
  <2>2. DisabledHolds(c) => DisabledHolds(c)'
    BY <2>1 DEF DisabledHolds, Reading
  <2>3. UnapprovedHolds(c) => UnapprovedHolds(c)'
    BY <2>1 DEF UnapprovedHolds, Reading
  <2> QED BY <2>1, <2>2, <2>3, MoverKeepsBars
<1>6. CASE BindState(c)
  <2>1. /\ call[c].at = "rebind" /\ call'[c].at = "check" /\ call'[c].name = n
        /\ t'[n].state = call[c].row.state /\ t'[n].hash = call[c].row.hash
    BY <1>6, BindStateHolds
  <2>2. DisabledHolds(c) => DisabledHolds(c)'
    BY <2>1 DEF DisabledHolds, Reading
  <2>3. UnapprovedHolds(c) => UnapprovedHolds(c)'
    BY <2>1 DEF UnapprovedHolds, Reading
  <2> QED BY <2>1, <2>2, <2>3, MoverKeepsBars
<1>7. CASE CheckTool(c) /\ call'[c].at # "idle"
  <2>1. /\ call[c].at = "check" /\ t' = t /\ call'[c].name = n /\ t[n].state # "disabled"
        /\ call'[c].at = IF t[n].hash = Null THEN "run" ELSE "hash"
    BY <1>7, CheckHolds DEF NoCall
  <2>2. ~DisabledHolds(c)
    BY <2>1 DEF DisabledHolds
  <2>3. UnapprovedHolds(c) => UnapprovedHolds(c)'
    BY <2>1 DEF UnapprovedHolds, Reading
  <2> QED BY <2>1, <2>2, <2>3, MoverKeepsBars
<1>8. CASE HashTool(c) /\ call'[c].at # "idle"
  <2>1. /\ call[c].at = "hash" /\ t' = t /\ call'[c].name = n /\ call'[c].at = "compare"
        /\ UNCHANGED <<disk, approved>>
    BY <1>8, HashToolHolds DEF NoCall, CallMoves, Untouched
  <2>2. PICK f \in Files : call'[c].hash = disk[f]
    BY <1>8, HashToolHolds DEF NoCall
  <2>3. ~DisabledHolds(c)
    BY <2>1 DEF DisabledHolds
  <2>4. n \in Names /\ t[n] # Null /\ (t[n].hash = Null \/ t[n].hash \in approved[n])
    BY <2>1 DEF ServeHolds, ServeTypes, Captured, CallHolds, Bound
  <2>5. "unapproved" \in barred'[c] => disk[f] \notin approved[n]
    BY <2>1, <2>2, ObservedReasons
  <2>6. "unapproved" \in barred'[c] /\ UnapprovedHolds(c) => UnapprovedHolds(c)'
    BY <2>1, <2>2, <2>4, <2>5 DEF UnapprovedHolds, Reading
  <2> QED BY <2>1, <2>3, <2>6, MoverKeepsBars
<1>9. CASE CompareHash(c) /\ call'[c].at # "idle"
  <2>1. call[c].at = "compare" /\ call[c].hash = t[n].hash
    BY <1>9, CompareHolds DEF NoCall
  <2>2. ~DisabledHolds(c) /\ ~UnapprovedHolds(c)
    BY <2>1 DEF DisabledHolds, UnapprovedHolds
  <2> QED BY <2>1, <2>2, MoverKeepsBars
<1>10. CASE Execute(c) \/ Reply(c)
  <2>1. call[c].at \in {"run", "ran"}
    BY <1>10, ExecuteHolds, ReplyHolds
  <2>2. ~DisabledHolds(c) /\ ~UnapprovedHolds(c)
    BY <2>1 DEF DisabledHolds, UnapprovedHolds
  <2> QED BY <2>1, <2>2, MoverKeepsBars
<1> QED BY <1>2, <1>3, <1>4, <1>5, <1>6, <1>7, <1>8, <1>9, <1>10 DEF CallStep
-----------------------------------------------------------------------------
(* The inductive invariant.                                                *)

IInv ==
    /\ ReviewTypes /\ SoundRows /\ ScanStored /\ ApprovedToolsAreSealed /\ OneAgrees
    /\ ServeHolds /\ \A c \in Calls : BarHolds(c)

LEMMA InitHolds ==
    ASSUME Init
    PROVE  IInv
<1>1. ReviewInit /\ ReviewTypes
  BY InitTypes DEF Init
<1>2. PICK w \in Workspaces :
         disk = w.disk /\ store = w.store /\ config = w.config /\ approved = w.sealed
  BY <1>1 DEF ReviewInit
<1>3. Settled(w)
  BY ReviewAssumption
<1>4. SoundRows /\ ApprovedToolsAreSealed
  BY <1>2, <1>3 DEF Settled, SoundRows, ApprovedToolsAreSealed
<1>5. ScanStored
  BY <1>1, StoreAssumption DEF ReviewInit, ScanStored
<1>6. \A p \in Operators : cmd[p].at = "idle"
  BY <1>1 DEF ReviewInit, Rest
<1>7. OneAgrees
  BY <1>2, <1>3, <1>6 DEF Settled, OneAgrees, Agrees
<1>8. NoCall \in Call /\ NoCall.at = "idle"
  BY DEF NoCall, Call
<1>9. /\ server = [up |-> FALSE, tools |-> {}] /\ t = [n \in Names |-> Null]
      /\ call = [c \in Calls |-> NoCall] /\ lone = [c \in Calls |-> FALSE]
      /\ barred = [c \in Calls |-> {}]
  BY DEF Init
<1>10. ServeTypes /\ Captured
  BY <1>8, <1>9 DEF ServeTypes, Captured
<1>11. \A c \in Calls : CallHolds(c)
  BY <1>8, <1>9 DEF CallHolds, Reading, Bound
<1>12. \A c \in Calls : BarHolds(c)
  BY <1>9 DEF BarHolds
<1> QED BY <1>1, <1>4, <1>5, <1>7, <1>10, <1>11, <1>12 DEF IInv, ServeHolds

\* A step that leaves the store and the commands alone.
LEMMA SameReview ==
    ASSUME IInv, UNCHANGED <<store, config, cmd, quiet, approved, excused, synced>>
    PROVE  SoundRows' /\ ScanStored' /\ ApprovedToolsAreSealed' /\ OneAgrees'
<1>1. SoundRows' /\ ScanStored'
  BY DEF IInv, SoundRows, ScanStored
<1>2. ApprovedToolsAreSealed'
  BY DEF IInv, ApprovedToolsAreSealed, Item
<1>3. OneAgrees'
  BY DEF IInv, OneAgrees, InFile, Agrees, Load
<1> QED BY <1>1, <1>2, <1>3

LEMMA SameTypes ==
    ASSUME ReviewTypes, UNCHANGED Untouched
    PROVE  ReviewTypes'
<1>1. TypesHold'
  BY DEF ReviewTypes, TypesHold, Stored, Untouched
<1>2. \A p \in Operators : StageHolds(p)'
  BY DEF ReviewTypes, StageHolds, Item, Untouched
<1> QED BY <1>1, <1>2 DEF ReviewTypes

LEMMA CommandHolds ==
    ASSUME IInv, Command, UNCHANGED <<server, t, call>>, Observe
    PROVE  IInv'
<1>1. PICK p \in Operators : CommandStep(p)
  BY DEF Command, CommandStep
<1>2. ReviewTypes'
  BY <1>1, CommandTypes, MovesKeepTypes DEF IInv
<1>3. SoundRows' /\ ScanStored' /\ ApprovedToolsAreSealed'
  BY <1>1, CommandKeepsSoundRows, CommandKeepsScan, CommandKeepsSeals DEF IInv
<1>4. OneAgrees'
  BY <1>1, InitKeepsAgreement, ReviewKeepsAgreement, FailAgrees DEF IInv, CommandStep, Kill
<1>5. ServeHolds'
  BY <1>1, CommandServes DEF IInv
<1>6. \A c \in Calls : BarHolds(c)'
  BY OthersKeepBars DEF IInv
<1> QED BY <1>2, <1>3, <1>4, <1>5, <1>6 DEF IInv

LEMMA EditHolds ==
    ASSUME IInv, Edit, UNCHANGED <<server, t, call>>, Observe
    PROVE  IInv'
<1>1. ReviewTypes' /\ RowsStay /\ UNCHANGED <<store, config, cmd, quiet, approved, excused, synced>>
  BY EditTypes DEF IInv
<1>2. SoundRows' /\ ScanStored' /\ ApprovedToolsAreSealed' /\ OneAgrees'
  BY <1>1, SameReview
<1>3. ServeHolds'
  BY <1>1, CommandKeepsServe DEF IInv
<1>4. \A c \in Calls : BarHolds(c)'
  BY OthersKeepBars DEF IInv
<1> QED BY <1>1, <1>2, <1>3, <1>4 DEF IInv

\* Only the call moves, whatever its step.
LEMMA CallStepHolds ==
    ASSUME IInv, NEW c \in Calls, CallStep(c)
    PROVE  ServeHolds' /\ CallMoves(c)
<1>1. CASE \E n \in Names : BeginCall(c, n)
  BY <1>1, BeginHolds DEF IInv
<1>2. CASE ReadRow(c)
  BY <1>2, ReadHolds DEF IInv
<1>3. CASE BindSource(c)
  BY <1>3, BindSourceHolds DEF IInv
<1>4. CASE BindState(c)
  BY <1>4, BindStateHolds DEF IInv
<1>5. CASE CheckTool(c)
  BY <1>5, CheckHolds DEF IInv
<1>6. CASE HashTool(c)
  BY <1>6, HashToolHolds DEF IInv
<1>7. CASE CompareHash(c)
  BY <1>7, CompareHolds DEF IInv
<1>8. CASE Execute(c) \/ Reply(c)
  BY <1>8, ExecuteHolds, ReplyHolds DEF IInv
<1> QED BY <1>1, <1>2, <1>3, <1>4, <1>5, <1>6, <1>7, <1>8 DEF CallStep

LEMMA ServeStepHolds ==
    ASSUME IInv, Serve, Observe
    PROVE  IInv'
<1>1. CASE StartServer
  <2>1. ServeHolds' /\ UNCHANGED call /\ UNCHANGED t /\ UNCHANGED Untouched
    BY <1>1, StartHolds DEF IInv
  <2>2. \A c \in Calls : BarHolds(c)'
    BY <2>1, OthersKeepBars DEF IInv
  <2>3. UNCHANGED <<store, config, cmd, quiet, approved, excused, synced>>
    BY <2>1 DEF Untouched
  <2> QED BY <2>1, <2>2, <2>3, SameReview, SameTypes DEF IInv
<1>2. CASE StopServer
  <2>1. ServeHolds' /\ (\A c \in Calls : call'[c].at = "idle") /\ UNCHANGED Untouched
    BY <1>2, StopHolds DEF IInv
  <2>2. \A c \in Calls : BarHolds(c)'
    BY <2>1, ObservedLone, ObservedReasons DEF BarHolds
  <2>3. UNCHANGED <<store, config, cmd, quiet, approved, excused, synced>>
    BY <2>1 DEF Untouched
  <2> QED BY <2>1, <2>2, <2>3, SameReview, SameTypes DEF IInv
<1>3. CASE \E c \in Calls : CallStep(c)
  <2>1. PICK c \in Calls : CallStep(c)
    BY <1>3
  <2>2. ServeHolds' /\ CallMoves(c)
    BY <2>1, CallStepHolds
  <2>3. BarHolds(c)'
    BY <2>1, CallKeepsBars DEF IInv
  <2>4. ASSUME NEW d \in Calls, d # c PROVE BarHolds(d)'
    <3>1. ServeHolds /\ BarHolds(d) /\ call'[d] = call[d]
      BY <2>2, <2>4 DEF IInv, CallMoves
    <3>2. ASSUME lone[d], call[d].at \in Bound PROVE t'[call[d].name] = t[call[d].name]
      <4>1. call[d].name \in Names
        BY <3>1, <3>2 DEF ServeHolds, ServeTypes, CallHolds, Bound
      <4>2. call[c].name # call[d].name
        BY <2>4, <3>1, <3>2 DEF BarHolds
      <4> QED BY <2>2, <4>1, <4>2 DEF CallMoves
    <3> QED BY <3>1, <3>2, OthersKeepBars
  <2>5. UNCHANGED Untouched /\ UNCHANGED <<store, config, cmd, quiet, approved, excused, synced>>
    BY <2>2 DEF CallMoves, Untouched
  <2>6. \A d \in Calls : BarHolds(d)'
    BY <2>3, <2>4
  <2> QED BY <2>2, <2>5, <2>6, SameReview, SameTypes DEF IInv
<1> QED BY <1>1, <1>2, <1>3 DEF Serve

LEMMA NextHolds ==
    ASSUME IInv, [Next]_vars
    PROVE  IInv'
<1>1. CASE Next
  <2>1. CASE Command /\ UNCHANGED <<server, t, call, starts>> /\ Observe
    BY <2>1, CommandHolds
  <2>2. CASE Edit /\ UNCHANGED <<server, t, call, starts>> /\ Observe
    BY <2>2, EditHolds
  <2>3. CASE Serve /\ Observe
    BY <2>3, ServeStepHolds
  <2> QED BY <1>1, <2>1, <2>2, <2>3 DEF Next
<1>2. CASE UNCHANGED vars
  <2>1. UNCHANGED Untouched /\ UNCHANGED <<store, config, cmd, quiet, approved, excused, synced>>
    BY <1>2 DEF vars, reviewVars, Untouched
  <2>2. UNCHANGED <<server, t, call, lone, barred>>
    BY <1>2 DEF vars, serverVars
  <2>3. ServeHolds'
    BY <2>1, <2>2 DEF IInv, ServeHolds, ServeTypes, Captured, CallHolds, Reading, Bound
  <2>4. \A c \in Calls : BarHolds(c)'
    BY <2>2 DEF IInv, BarHolds, DisabledHolds, UnapprovedHolds, Reading
  <2> QED BY <2>1, <2>3, <2>4, SameReview, SameTypes DEF IInv
<1> QED BY <1>1, <1>2

LEMMA Inductive == Spec => []IInv
BY InitHolds, NextHolds, PTL DEF Spec
-----------------------------------------------------------------------------
(* The properties.                                                         *)

\* As long as commands ran one at a time and none failed or was killed,
\* foldermcp.yaml and the store agree on the state of every tool that both know
\* (review.go:154-168, store.go:122), whatever the reviews decide.
THEOREM ConfigAgrees == Spec => []ConfigMirrorsStore
<1>1. IInv => ConfigMirrorsStore
  BY DEF IInv, OneAgrees, Agrees, ConfigMirrorsStore
<1> QED BY <1>1, Inductive, PTL

\* However many reviews overlap, a tool that is served has its hash or is having it
\* looked up, computed and stored -- unless one of these failed, which is a warning at
\* most, or the review was killed there, or the configuration enabled the tool
\* (review.go:203-215, 228, 270).
THEOREM ServedToolsAreSealed == Spec => []ApprovedToolsAreSealed
<1>1. IInv => ApprovedToolsAreSealed
  BY DEF IInv
<1> QED BY <1>1, Inductive, PTL

\* After an init, diff finds nothing new as long as the files are what that init
\* scanned, and calls modified only names that were found twice (diff.go:64).
THEOREM DiffIsSettled == Spec => []DiffSettles
<1>1. ASSUME IInv, synced = disk
      PROVE  LET found == ScanDirectory(disk)
                 twice == {n \in Names : \E p, q \in PlacesOf(found, n) : p # q}
             IN  /\ Diff(store, found).added = {}
                 /\ Diff(store, found).modified \subseteq twice
  <2> DEFINE found == ScanDirectory(disk)
             twice == {n \in Names : \E p, q \in PlacesOf(found, n) : p # q}
  <2>1. disk \in Disks
    BY <1>1 DEF IInv, ReviewTypes, TypesHold
  <2>2. DOMAIN found = Places(disk)
    BY DEF ScanDirectory
  <2>3. \A place \in Places(disk) :
           /\ found[place].name \in Names
           /\ store.tools[found[place].name] # Null
           /\ PlacesOf(found, found[place].name) = {place} =>
                  store.tools[found[place].name].meta = found[place].meta
    BY <1>1, <2>1, ScanType DEF IInv, ScanStored, Found
  <2>4. ASSUME NEW place \in Places(disk),
               store.tools[found[place].name].meta # found[place].meta
        PROVE  found[place].name \in twice
    <3>1. place \in PlacesOf(found, found[place].name)
      BY <2>2 DEF PlacesOf
    <3>2. PICK q \in PlacesOf(found, found[place].name) : q # place
      BY <2>3, <2>4, <3>1
    <3> QED BY <2>3, <3>1, <3>2
  <2> HIDE DEF found, twice
  <2>5. \A u \in Range(found) : \E place \in Places(disk) : u = found[place]
    BY <2>2 DEF Range
  <2>6. Diff(store, found).added = {}
    BY <2>3, <2>5 DEF Diff
  <2>7. Diff(store, found).modified \subseteq twice
    BY <2>3, <2>4, <2>5 DEF Diff
  <2> QED BY <2>6, <2>7 DEF found, twice
<1>2. IInv => DiffSettles
  BY <1>1 DEF DiffSettles
<1> QED BY <1>2, Inductive, PTL

\* A call alone of its tool never runs it when, from its start on, the tool was
\* disabled, or every source file held something else than was approved
\* (mcp.go:202, mcp.go:241): the data race needs a second call.
THEOREM BarredCallsStop == Spec => []BarredCallsNeverRun
<1>1. IInv => BarredCallsNeverRun
  <2> SUFFICES ASSUME IInv, NEW c \in Calls, call[c].at = "ran", lone[c]
               PROVE  barred[c] = {}
    BY DEF BarredCallsNeverRun
  <2>1. BarHolds(c)
    BY DEF IInv
  <2>2. ~DisabledHolds(c) /\ ~UnapprovedHolds(c)
    BY DEF DisabledHolds, UnapprovedHolds
  <2> QED BY <2>1, <2>2 DEF BarHolds, Reasons
<1> QED BY <1>1, Inductive, PTL

\* With any number of calls that share the captured variable, and reviews beside
\* them, no call that compared hashes got past the comparison with content that
\* no review ever hashed for its tool (mcp.go:241).
THEOREM VerifiedWasApproved == Spec => []VerifiedContentWasApproved
<1>1. IInv => VerifiedContentWasApproved
  BY DEF IInv, ServeHolds, CallHolds, VerifiedContentWasApproved
<1> QED BY <1>1, Inductive, PTL

=============================================================================
