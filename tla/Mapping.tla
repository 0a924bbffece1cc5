------------------------------ MODULE Mapping -------------------------------
(***************************************************************************)
(* The Inspector's field mapping (python/src/inspector/mapping/): every    *)
(* column of a parsed table is given a canonical field by the first of     *)
(* three tiers that can decide it, or is left unresolved.                  *)
(*                                                                         *)
(*   tier 1   client overrides, the alias dictionary, the price rules      *)
(*   cache    what a model answered for this layout before                 *)
(*   tier 2   fuzzy and semantic similarity                                *)
(*   tier 3   an adjudicator: the live model or its deterministic stand-in *)
(*                                                                         *)
(* Several Inspectors (Workers) share the cache of layouts.  A header is a *)
(* model value; what its spelling decides (its normal form, the words it   *)
(* contains, its similarity to a field) is a constant function of it.      *)
(* Confidences are in thousandths, similarities in hundredths.             *)
(***************************************************************************)
EXTENDS Naturals, Sequences, FiniteSets

CONSTANTS
  Headers, Fields, NoField,
  Norm,             \* normalize_header
  StripNoise,       \* strip_noise, on normal forms
  AliasIndex,       \* normal form -> field, where the dictionary has one
  Clients, NoClient,
  Overrides,        \* client -> (normal form -> field): configuration
  PriceHint, SettlementWords, TradeWords,           \* headers whose name says so
  SettlementPreference, TradePreference,            \* ranks of such names
  Fuzzy,            \* header -> (field -> similarity to its aliases)
  Semantic,         \* header -> [field, score], the nearest description
  FakeRules,        \* <<[hits, field], ...>>: the stand-in's rules, samples last
  Tables,           \* the tables that arrive
  Replies,          \* what the live model may answer: sequences of items
  NotIterable,      \* an answer whose "fields" is null or no list
  Workers,
  MaxAttempts,      \* calls per adjudication: 2 in the code
  MaxFiles, MaxCrashes                              \* bounds of the instance

ASSUME MappingAssumption ==
  /\ NoField \notin Fields
  /\ NoClient \notin Clients
  /\ {"instrument_id", "trade_price", "settlement_price"} \subseteq Fields
  /\ MaxAttempts \in Nat \ {0} /\ MaxFiles \in Nat /\ MaxCrashes \in Nat
  /\ IsFiniteSet(Workers)
  /\ \A n \in DOMAIN AliasIndex : AliasIndex[n] \in Fields
  /\ DOMAIN FakeRules \subseteq Nat /\ \A k \in DOMAIN FakeRules : FakeRules[k].field \in Fields
  /\ \A t \in Tables : t.client \in Clients \cup {NoClient} /\ t.cols \in Seq(Headers)
  /\ \A r \in Replies \ {NotIterable} : Len(r) \in Nat /\ DOMAIN r = 1 .. Len(r)

VARIABLES
  bound,       \* the adjudicator of this deployment: none, fake, claude, or
               \* claude without a key
  cache,       \* template_mapping: <<fingerprint, client>> -> learned mappings
  job,         \* what each worker is doing
  calls,       \* per layout, calls made to the model
  fruitless,   \* per layout, adjudications that taught the cache nothing
  files, crashes

vars == <<bound, cache, job, calls, fruitless, files, crashes>>

PriceFields == {"trade_price", "settlement_price"}

(* A cell holds nothing, a text, or a number. *)
Blank == 0
Text == 1
IsNumber(v) == v > Text

Round(n, d) == (2 * n + d) \div (2 * d)
Least(a, b) == IF a <= b THEN a ELSE b

Columns(t) == DOMAIN t.cols
ColumnValues(t, i) == [r \in DOMAIN t.rows |-> t.rows[r][i]]

Unresolved == [field |-> NoField, tier |-> "UNRESOLVED", conf |-> 0]
Mapped(f, tier, conf) == [field |-> f, tier |-> tier, conf |-> conf]
UnresolvedIn(m) == {i \in DOMAIN m : m[i].field = NoField}
Claimed(m) == {m[i].field : i \in DOMAIN m} \ {NoField}

----------------------------------------------------------------------------
(* Tier 1 *)

(* What the dictionary calls a normal form. *)
AliasOf(n) ==
  CASE n \in DOMAIN AliasIndex -> AliasIndex[n]
    [] n \notin DOMAIN AliasIndex /\ StripNoise[n] \in DOMAIN AliasIndex -> AliasIndex[StripNoise[n]]
    [] OTHER -> NoField

AliasLookup(h) == AliasOf(Norm[h])

Override(t, i) ==
  LET n == Norm[t.cols[i]]
  IN  IF t.client # NoClient /\ n \in DOMAIN Overrides[t.client] THEN Overrides[t.client][n] ELSE NoField

LooksLikePrice(t, i) ==
  LET filled == {r \in DOMAIN t.rows : t.rows[r][i] # Blank}
      usable == {r \in filled : IsNumber(t.rows[r][i])}
  IN  /\ t.cols[i] \in PriceHint
      /\ usable # {}
      /\ Cardinality(usable) >= (8 * Cardinality(filled)) \div 10

(* Mutant: configuration does not claim its field. *)
TakenBeforeAliasOnly(t, i) ==
  {f \in Fields \ PriceFields : \E j \in 1 .. i - 1 : Override(t, j) = NoField /\ AliasLookup(t.cols[j]) = f}

(* Fields that columns before i have taken.  A column that wants a field either  *)
(* takes it or finds it taken, so the two sets coincide.                         *)
TakenBefore(t, i) ==
  {f \in Fields : \E j \in 1 .. i - 1 :
      \/ Override(t, j) = f
      \/ Override(t, j) = NoField /\ AliasLookup(t.cols[j]) = f /\ f \notin PriceFields}

(* Takes the dictionary's field, if no earlier column has it. *)
ByAlias(t, i) ==
  LET f == AliasLookup(t.cols[i])
  IN  Override(t, i) = NoField /\ f # NoField /\ f \notin PriceFields \cup TakenBefore(t, i)

(* A column that conflicts with an earlier one is not considered as a price. *)
Deferred(t) ==
  {i \in Columns(t) : LET f == AliasLookup(t.cols[i])
                      IN  /\ Override(t, i) = NoField
                          /\ \/ f \in PriceFields
                             \/ f = NoField /\ LooksLikePrice(t, i)}

(* How many of the groups vary, out of how many that could. *)
VariationRatio(values, keys) ==
  LET filled == {r \in DOMAIN values : values[r] # Blank}
      group(k) == {r \in filled : keys[r] = k}
      ofKey(k) == {values[r] : r \in group(k)}
      informative == IF keys = <<>> THEN {}
                     ELSE {k \in {keys[r] : r \in filled} : Cardinality(group(k)) > 1}
  IN  IF informative # {}
      THEN [num |-> Cardinality({k \in informative : Cardinality(ofKey(k)) > 1}),
            den |-> Cardinality(informative)]
      ELSE [num |-> Cardinality({values[r] : r \in filled}),
            den |-> IF filled = {} THEN 1 ELSE Cardinality(filled)]

Varies(q) == 2 * q.num >= q.den
PriceConf(num, den) == Least(550 + Round(350 * num, den), 900)

(* The first of the columns of S that rank highest; 0 when there is none. *)
Strongest(S, rank) ==
  IF S = {} THEN 0
  ELSE CHOOSE i \in S : \A j \in S : rank[i] > rank[j] \/ (rank[i] = rank[j] /\ i <= j)

(* Names decide first; structure decides between the columns they leave open:   *)
(* what varies inside an instrument is an execution price.  The roles given here *)
(* are not compared with the fields that overrides have taken.                  *)
ResolvePrices(t, settled) ==
  LET D == Deferred(t)
      names(i, W, V) == t.cols[i] \in W \ V
      settlement == {i \in D : names(i, SettlementWords, TradeWords)}
      trade == {i \in D : names(i, TradeWords, SettlementWords)}
      undecided == D \ (settlement \cup trade)
      instruments == {i \in DOMAIN settled : settled[i].field = "instrument_id"}
      keys == IF instruments = {} THEN <<>>
              ELSE ColumnValues(t, CHOOSE i \in instruments : \A j \in instruments : i <= j)
      ratio == [i \in undecided |-> VariationRatio(ColumnValues(t, i), keys)]
      percent == [i \in undecided |-> (100 * ratio[i].num) \div ratio[i].den]
      named == [i \in settlement |-> SettlementPreference[t.cols[i]]]
      executed == [i \in trade |-> TradePreference[t.cols[i]]]
      tradeWinner == Strongest(trade, executed)
      settleWinner == Strongest(settlement, named)
      varying == IF trade = {} THEN Strongest({i \in undecided : Varies(ratio[i])}, percent) ELSE 0
      steady == IF settlement = {} THEN Strongest({i \in undecided : ~Varies(ratio[i])}, percent) ELSE 0
  IN  [i \in D |->
         CASE i = settleWinner -> Mapped("settlement_price", "ALIAS", 980)
           [] i = tradeWinner -> Mapped("trade_price", "ALIAS", 980)
           [] i = varying -> Mapped("trade_price", "LOCAL", PriceConf(ratio[i].num, ratio[i].den))
           [] i = steady -> Mapped("settlement_price", "LOCAL",
                                   PriceConf(ratio[i].den - ratio[i].num, ratio[i].den))
           [] OTHER -> Unresolved]

MapTable(t) ==
  LET settled == [i \in Columns(t) \ Deferred(t) |->
                    CASE Override(t, i) # NoField -> Mapped(Override(t, i), "HUMAN", 1000)
                      [] ByAlias(t, i) -> Mapped(AliasLookup(t.cols[i]), "ALIAS", 1000)
                      [] OTHER -> Unresolved]
      prices == ResolvePrices(t, settled)
  IN  [i \in Columns(t) |-> IF i \in Deferred(t) THEN prices[i] ELSE settled[i]]

----------------------------------------------------------------------------
(* The cache of layouts, and tier 2 *)

Fingerprint(t) == <<[i \in Columns(t) |-> Norm[t.cols[i]]], t.client>>
Learnable(t) == t.client # NoClient

(* Mutant: a cached answer replaces what tier 1 decided. *)
ApplyCachedOver(t, m, learned) ==
  [i \in DOMAIN m |-> IF t.cols[i] \in DOMAIN learned
                      THEN Mapped(learned[t.cols[i]], "LLM", 800) ELSE m[i]]

(* A cached answer fills an unresolved column, unless its field is taken. *)
ApplyCached(t, m, learned) ==
  LET fills(i) == /\ i \in UnresolvedIn(m)
                  /\ t.cols[i] \in DOMAIN learned
                  /\ learned[t.cols[i]] \notin Claimed(m)
      first(i) == \A j \in 1 .. i - 1 : fills(j) => learned[t.cols[j]] # learned[t.cols[i]]
  IN  [i \in DOMAIN m |-> IF fills(i) /\ first(i) THEN Mapped(learned[t.cols[i]], "LLM", 800) ELSE m[i]]

(* Best similarity to a field nobody has taken. *)
FuzzyBest(h, taken) ==
  LET open == DOMAIN Fuzzy[h] \ taken
      best == {f \in open : \A g \in open : Fuzzy[h][f] >= Fuzzy[h][g]}
  IN  IF best = {} THEN [field |-> NoField, score |-> 0]
      ELSE LET f == CHOOSE f \in best : TRUE IN [field |-> f, score |-> Fuzzy[h][f]]

MinAccept == 7200
MaxConfidence == 8800

(* Tier2Matcher.match; `up` says whether the embedding model is there to ask.   *)
(* Agreement earns a bonus, a signal on its own is discounted.                  *)
Match(h, taken, up) ==
  LET fz == FuzzyBest(h, taken)
      sem == IF up /\ Semantic[h].field \notin taken THEN Semantic[h]
             ELSE [field |-> NoField, score |-> 0]
      alone(s) == Least(92 * s, MaxConfidence)
      agreed == Least(55 * fz.score + 45 * sem.score + 600, MaxConfidence)
      best == CASE sem.field = NoField -> [field |-> fz.field, conf |-> alone(fz.score)]
                [] sem.field # NoField /\ fz.field = sem.field -> [field |-> sem.field, conf |-> agreed]
                [] sem.field # NoField /\ fz.field # sem.field /\ fz.score >= sem.score ->
                     [field |-> fz.field, conf |-> alone(fz.score)]
                [] OTHER -> [field |-> sem.field, conf |-> alone(sem.score)]
  IN  IF best.field = NoField \/ best.conf < MinAccept THEN Unresolved
      ELSE Mapped(best.field, "LOCAL", Round(best.conf, 10))

----------------------------------------------------------------------------
(* Tier 3 *)

Request(t, m) == [unresolved |-> {t.cols[i] : i \in UnresolvedIn(m)}, resolved |-> Claimed(m)]

Answer(src, f, conf) == [src |-> src, field |-> f, conf |-> conf]

(* DeterministicFake: a column gets the field of the first rule that fits it and  *)
(* whose field neither the resolved columns nor an earlier column has.           *)
FakeField(h, taken) ==
  LET fit == {k \in DOMAIN FakeRules : h \in FakeRules[k].hits /\ FakeRules[k].field \notin taken}
  IN  IF fit = {} THEN NoField ELSE FakeRules[CHOOSE k \in fit : \A l \in fit : k <= l].field

FakeGives(t, m, g) ==
  \A i \in DOMAIN g : g[i] = FakeField(t.cols[i], Claimed(m) \cup {g[j] : j \in {j \in DOMAIN g : j < i}})

(* Answers are numbered in the order in which they are given. *)
FakeAnswers(t, m) ==
  LET given == CHOOSE g \in [UnresolvedIn(m) -> Fields \cup {NoField}] : FakeGives(t, m, g)
  IN  [i \in UnresolvedIn(m) |-> Answer(t.cols[i], given[i], IF given[i] = NoField THEN 0 ELSE 800)]

(* Mutant: a field that is not in the schema is let through. *)
ParseReplyTrusting(reply, req) ==
  [k \in {k \in DOMAIN reply : reply[k].src \in req.unresolved} |-> reply[k]]

(* ClaudeAdjudicator._parse of items that can be iterated: only columns that      *)
(* were asked about, only fields of the schema, each at most once, and no         *)
(* confidence above the model's ceiling.                                         *)
ParseReply(reply, req) ==
  LET asked == {k \in DOMAIN reply : reply[k].src \in req.unresolved}
      usable(k) == /\ reply[k].field \in Fields \ req.resolved
                   /\ \A j \in asked : j < k => reply[j].field # reply[k].field
  IN  [k \in asked |-> IF usable(k) THEN Answer(reply[k].src, reply[k].field, Least(reply[k].conf, 850))
                       ELSE Answer(reply[k].src, NoField, 0)]

(* AdjudicationResult.as_map keeps the last answer for a column. *)
AnswerFor(answers, h) ==
  LET given == {k \in DOMAIN answers : answers[k].src = h}
  IN  IF given = {} THEN Answer(h, NoField, 0)
      ELSE answers[CHOOSE k \in given : \A j \in given : k >= j]

(* An answer fills its column, unless a field is taken by then. *)
TakeAnswers(t, m, answers) ==
  LET answer(i) == AnswerFor(answers, t.cols[i])
      fills(i) == i \in UnresolvedIn(m) /\ answer(i).field \notin Claimed(m) \cup {NoField}
      first(i) == \A j \in 1 .. i - 1 : fills(j) => answer(j).field # answer(i).field
  IN  [i \in DOMAIN m |-> IF fills(i) /\ first(i) THEN Mapped(answer(i).field, "LLM", answer(i).conf) ELSE m[i]]

Learned(t, m) ==
  LET taught == {i \in DOMAIN m : m[i].tier = "LLM"}
  IN  [h \in {t.cols[i] : i \in taught} |-> m[CHOOSE i \in taught : t.cols[i] = h].field]

----------------------------------------------------------------------------
(* The escalation, one step per access to something shared or slow *)

Keys == {Fingerprint(t) : t \in Tables}
Idle == [pc |-> "idle", map |-> <<>>]
Begin(t) == [pc |-> "lookup", table |-> t, map |-> MapTable(t), hit |-> FALSE, up |-> TRUE,
             tried |-> 0, attempt |-> 0]
Busy(w) == job[w].pc # "idle"
Key(w) == Fingerprint(job[w].table)

Init ==
  /\ bound \in {"none", "fake", "claude", "keyless"}
  /\ cache = [k \in {} |-> <<>>]
  /\ job = [w \in Workers |-> Idle]
  /\ calls = [k \in Keys |-> 0]
  /\ fruitless = [k \in Keys |-> 0]
  /\ files = 0
  /\ crashes = 0

Start(w) ==
  /\ job[w].pc \in {"idle", "done"}
  /\ files < MaxFiles
  /\ \E t \in Tables : job' = [job EXCEPT ![w] = Begin(t)]
  /\ files' = files + 1
  /\ UNCHANGED <<bound, cache, calls, fruitless, crashes>>

(* TemplateCache.get: nothing is looked up for a file without a client. *)
Cached(t) == Learnable(t) /\ Fingerprint(t) \in DOMAIN cache

LookUp(w) ==
  LET t == job[w].table
  IN  /\ job[w].pc = "lookup"
      /\ job' = [job EXCEPT ![w].pc = "local", ![w].hit = Cached(t),
                            ![w].map = IF Cached(t) THEN ApplyCached(t, @, cache[Fingerprint(t)]) ELSE @]
      /\ UNCHANGED <<bound, cache, calls, fruitless, files, crashes>>

(* Mutant: every column is matched, the resolved ones too. *)
UntriedAll(w) == {i \in DOMAIN job[w].map : i > job[w].tried}

Untried(w) == {i \in UnresolvedIn(job[w].map) : i > job[w].tried}

(* Mutant: a column that tier 2 declines is tried again. *)
MatchColumnAgain(w) ==
  /\ job[w].pc = "local"
  /\ \E i \in Untried(w) :
       \E found \in {Match(job[w].table.cols[i], Claimed(job[w].map), FALSE)} :
         job' = [job EXCEPT ![w].up = FALSE, ![w].map[i] = found]
  /\ UNCHANGED <<bound, cache, calls, fruitless, files, crashes>>

(* Whether the embedding model answers: it may be missing or fail at any column, *)
(* and is not asked again afterwards.                                            *)
Available(w) == {job[w].up, FALSE}

(* The loop of _run_tier2 at its next column. *)
MatchColumn(w) ==
  /\ job[w].pc = "local"
  /\ \E i \in Untried(w), up \in Available(w) :
       /\ \A j \in Untried(w) : i <= j
       /\ \E found \in {Match(job[w].table.cols[i], Claimed(job[w].map), up)} :
            job' = [job EXCEPT ![w].tried = i, ![w].up = up, ![w].map[i] = found]
  /\ UNCHANGED <<bound, cache, calls, fruitless, files, crashes>>

(* Tier 3 takes what is left, if there is an adjudicator and nothing was cached. *)
Escalate(w) ==
  LET ask == UnresolvedIn(job[w].map) # {} /\ bound # "none" /\ ~job[w].hit
  IN  /\ job[w].pc = "local"
      /\ Untried(w) = {}
      /\ job' = [job EXCEPT ![w].pc = IF ask THEN "ask" ELSE "done"]
      /\ UNCHANGED <<bound, cache, calls, fruitless, files, crashes>>

(* What _run_tier3 does with an adjudication, whoever made it. *)
Conclude(w, answers) ==
  LET t == job[w].table
      m == TakeAnswers(t, job[w].map, answers)
      teaches == Learnable(t) /\ m # job[w].map
  IN  /\ job' = [job EXCEPT ![w].map = m, ![w].pc = IF teaches THEN "store" ELSE "done"]
      /\ fruitless' = IF teaches THEN fruitless ELSE [fruitless EXCEPT ![Key(w)] = @ + 1]

AskFake(w) ==
  /\ job[w].pc = "ask" /\ bound = "fake"
  /\ \E answers \in {FakeAnswers(job[w].table, job[w].map)} : Conclude(w, answers)
  /\ UNCHANGED <<bound, cache, calls, files, crashes>>

(* No usable answer: try again, or decline every column. *)
Retry(w) ==
  IF job[w].attempt + 1 < MaxAttempts
  THEN /\ job' = [job EXCEPT ![w].attempt = @ + 1]
       /\ UNCHANGED fruitless
  ELSE Conclude(w, <<>>)

(* An exception that nothing on the way up to the consumer catches: the process   *)
(* ends, and the file, which is not acknowledged, is delivered to the next one.   *)
Raise(w) ==
  /\ job' = [job EXCEPT ![w].pc = "raised"]
  /\ fruitless' = [fruitless EXCEPT ![Key(w)] = @ + 1]

(* One call to the model: it fails, its reply is validated, or the validation     *)
(* itself raises, outside the try that covers the call.                          *)
AskModel(w) ==
  /\ job[w].pc = "ask" /\ bound = "claude"
  /\ calls' = [calls EXCEPT ![Key(w)] = @ + 1]
  /\ \/ Retry(w)
     \/ NotIterable \in Replies /\ Raise(w)
     \/ \E reply \in Replies \ {NotIterable} :
          \E answers \in {ParseReply(reply, Request(job[w].table, job[w].map))} :
            IF answers = <<>> THEN Retry(w) ELSE Conclude(w, answers)
  /\ UNCHANGED <<bound, cache, files, crashes>>

(* _ensure_client: the live model is configured but has no key. *)
AskWithoutKey(w) ==
  /\ job[w].pc = "ask" /\ bound = "keyless"
  /\ Raise(w)
  /\ UNCHANGED <<bound, cache, calls, files, crashes>>

(* Mutant: the adjudication is not kept. *)
StoreForgets(w) ==
  /\ job[w].pc = "store"
  /\ job' = [job EXCEPT ![w].pc = "done"]
  /\ UNCHANGED <<bound, cache, calls, fruitless, files, crashes>>

(* TemplateCache.put: the whole entry is replaced. *)
Store(w) ==
  /\ job[w].pc = "store"
  /\ cache' = [k \in DOMAIN cache \cup {Key(w)} |-> IF k = Key(w) THEN Learned(job[w].table, job[w].map) ELSE cache[k]]
  /\ job' = [job EXCEPT ![w].pc = "done"]
  /\ UNCHANGED <<bound, calls, fruitless, files, crashes>>

(* The process dies, or has raised, before its message is acknowledged, which is   *)
(* delivered again.  Until tier 3 it has only done work that it repeats.          *)
Crash(w) ==
  /\ job[w].pc \in {"ask", "store", "done", "raised"} /\ crashes < MaxCrashes
  /\ job' = [job EXCEPT ![w] = Begin(job[w].table)]
  /\ fruitless' = IF job[w].pc \in {"ask", "store"} THEN [fruitless EXCEPT ![Key(w)] = @ + 1] ELSE fruitless
  /\ crashes' = crashes + 1
  /\ UNCHANGED <<bound, cache, calls, files>>

Resolve(w) ==
  LookUp(w) \/ MatchColumn(w) \/ Escalate(w) \/ AskFake(w) \/ AskModel(w) \/ AskWithoutKey(w) \/ Store(w)

Next == \E w \in Workers : Start(w) \/ Resolve(w) \/ Crash(w)

(* A worker that has a file keeps working on it: the loop of the escalation     *)
(* contains no wait.                                                           *)
Spec == Init /\ [][Next]_vars
FairSpec == Spec /\ \A w \in Workers : WF_vars(Resolve(w))

----------------------------------------------------------------------------
(* Properties *)

(* No two tiers, and no two columns of one tier, give the same canonical field   *)
(* to two columns: the later of the two would silently replace the earlier in    *)
(* the record (emit.build_records keeps the last).  Only client configuration    *)
(* may name a field that the dictionary also names.                             *)
FieldHasOneSource ==
  \A w \in Workers : \A i, j \in DOMAIN job[w].map :
    LET m == job[w].map
    IN  i < j /\ m[i].field = m[j].field => "HUMAN" \in {m[i].tier, m[j].tier} \/ m[i].field = NoField

(* The column build_records reads for field f: the last that maps to it. *)
SourceOf(m, f) ==
  LET of == {i \in DOMAIN m : m[i].field = f} IN CHOOSE i \in of : \A j \in of : i >= j

Overridden(m, f) == \E i \in DOMAIN m : m[i].field = f /\ m[i].tier = "HUMAN"

(* Tier1Mapper.__init__: "Client-specific overrides beat the global dictionary   *)
(* ... configuration outranks inference".  For every field that is not a price,  *)
(* the record takes a field the client configured from the column it named,      *)
(* wherever the alias column stands.                                            *)
OverrideReachesRecord ==
  \A w \in Workers : \A f \in Fields \ PriceFields :
    Overridden(job[w].map, f) => job[w].map[SourceOf(job[w].map, f)].tier = "HUMAN"

(* The same for every field, the prices included: what the comment says. *)
ConfigurationOutranksInference ==
  \A w \in Workers : \A f \in Fields :
    Overridden(job[w].map, f) => job[w].map[SourceOf(job[w].map, f)].tier = "HUMAN"

(* resolver.py: "escalation is one-way ... A column resolved by the dictionary   *)
(* is never re-litigated by a model".                                           *)
SettledStaysSettled ==
  [][\A w \in Workers : \A i \in DOMAIN job[w].map :
       Busy(w) /\ job'[w].pc \notin {"idle", "lookup"} /\ job[w].map[i].field # NoField
         => job'[w].map[i] = job[w].map[i]]_vars

(* What was learned for a layout can be applied to it: columns of that layout,   *)
(* fields of the schema, no field twice, none that the client's own              *)
(* configuration gives to a column of the layout, and none that the dictionary    *)
(* gives to one that is not configured (the prices aside, which the dictionary    *)
(* only nominates).                                                             *)
Fits(k, learned) ==
  /\ DOMAIN learned # {}
  /\ \A h \in DOMAIN learned :
       /\ \E i \in DOMAIN k[1] : k[1][i] = Norm[h]
       /\ learned[h] \in Fields
       /\ \A g \in DOMAIN learned \ {h} : learned[g] # learned[h]
       /\ \A i \in DOMAIN k[1] :
            IF k[1][i] \in DOMAIN Overrides[k[2]] THEN Overrides[k[2]][k[1][i]] # learned[h]
            ELSE AliasOf(k[1][i]) \notin PriceFields => AliasOf(k[1][i]) # learned[h]

(* Every entry of the cache fits its layout, although two workers may have        *)
(* adjudicated it at once and the model may answer anything.                     *)
LearnedIsSound == \A k \in DOMAIN cache : Fits(k, cache[k])

(* NFR-8, as far as the code goes: a layout costs one adjudication for each      *)
(* worker that met it before it was learned, and one for each adjudication that   *)
(* taught nothing; every other file of the layout is free.                      *)
CallsBounded ==
  \A k \in Keys : calls[k] <= MaxAttempts * (Cardinality(Workers) + fruitless[k])

(* Every table that is taken up is mapped, whatever fails and however often the   *)
(* process dies, unless the adjudicator raises: that ends the process, the file   *)
(* is delivered again, and nothing changes what it meets.                        *)
EveryTableIsMapped ==
  \A w \in Workers : Busy(w) ~> job[w].pc \in {"done", "raised"}

(* ClaudeAdjudicator.adjudicate: "Resolve the unresolved headers, or decline       *)
(* cleanly"; a failure "degrades to an unresolved column rather than crashing      *)
(* the arrival".                                                                *)
DeclinesCleanly ==
  \A w \in Workers : Busy(w) ~> job[w].pc = "done"
=============================================================================
