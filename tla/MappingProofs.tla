---------------------------- MODULE MappingProofs ----------------------------
(***************************************************************************)
(* What holds of the field mapping for every table, client configuration,  *)
(* alias dictionary, similarity, reply of the model and number of workers. *)
(*                                                                         *)
(* The argument has two parts.  Tier 1 starts a mapping in which only      *)
(* configuration can name a field twice (OneSource, ConfiguredLast), and   *)
(* whatever later fills a column (the cache, tier 2, an adjudicator) is a  *)
(* Filled step: it touches open columns only and gives each a field of its *)
(* own.  The rest follows the worker: what it knows at each place of       *)
(* _resolve_ about the entries a model taught it (JobInv).                 *)
(***************************************************************************)
EXTENDS Mapping, FiniteSetTheorems, WellFoundedInduction, NaturalsInduction, TLAPS

(* Sets of naturals have a least element, and bounded ones a greatest. *)
LEMMA LeastOfNats ==
  ASSUME NEW S \in SUBSET Nat, S # {}
  PROVE  \E n \in S : \A k \in S : n <= k
<1> DEFINE R == OpToRel(<, Nat)
<1>1. R = {p \in Nat \X Nat : p[1] < p[2]}
  BY DEF OpToRel
<1>2. IsWellFoundedOn(R, Nat)
  BY NatLessThanWellFounded
<1> HIDE DEF R
<1>3. \E n \in S : \A k \in S : ~ (<<k, n>> \in R)
  BY <1>2, WFMin
<1>4. PICK n \in S : \A k \in S : <<k, n>> \notin R
  BY <1>3
<1>5. ASSUME NEW k \in S PROVE n <= k
  <2>1. <<k, n>> \in Nat \X Nat /\ ~ (k < n)
    BY <1>1, <1>4
  <2>2. QED
    BY <2>1
<1>6. QED
  BY <1>5

LEMMA GreatestOfNats ==
  ASSUME NEW b \in Nat, NEW S \in SUBSET (0 .. b), S # {}
  PROVE  \E n \in S : \A k \in S : n >= k
<1> DEFINE T == {b - k : k \in S}
<1>1. ASSUME NEW k \in S PROVE b - k \in Nat /\ k \in Nat
  OBVIOUS
<1>2. T \in SUBSET Nat /\ T # {}
  BY <1>1
<1>3. PICK n \in T : \A k \in T : n <= k
  BY <1>2, LeastOfNats
<1>4. PICK g \in S : n = b - g
  OBVIOUS
<1>5. ASSUME NEW k \in S PROVE g >= k
  BY <1>1, <1>3, <1>4
<1>6. QED
  BY <1>5

----------------------------------------------------------------------------
(* Tables *)

LEMMA ColumnsAreNats ==
  ASSUME NEW t \in Tables
  PROVE  /\ Columns(t) = 1 .. Len(t.cols) /\ Len(t.cols) \in Nat
         /\ Columns(t) \subseteq Nat \ {0}
         /\ Deferred(t) \subseteq Columns(t)
BY MappingAssumption DEF Columns, Deferred

----------------------------------------------------------------------------
(* The deterministic stand-in *)

LEMMA FakeFieldIsAField ==
  ASSUME NEW h, NEW taken
  PROVE  FakeField(h, taken) \in Fields \cup {NoField}
<1> DEFINE fit == {k \in DOMAIN FakeRules : h \in FakeRules[k].hits /\ FakeRules[k].field \notin taken}
<1>1. CASE fit = {}
  BY <1>1 DEF FakeField
<1>2. CASE fit # {}
  <2>1. \E k \in fit : \A l \in fit : k <= l
    BY <1>2, LeastOfNats, MappingAssumption
  <2>2. (CHOOSE k \in fit : \A l \in fit : k <= l) \in fit
    BY <2>1
  <2>3. QED
    BY <1>2, <2>2, MappingAssumption DEF FakeField
<1>3. QED
  BY <1>1, <1>2

(* The stand-in's rules determine an answer for every open column. *)
LEMMA FakeDecides ==
  ASSUME NEW t \in Tables, NEW m, DOMAIN m = Columns(t)
  PROVE  \E g \in [UnresolvedIn(m) -> Fields \cup {NoField}] : FakeGives(t, m, g)
<1> DEFINE U == UnresolvedIn(m)
           upTo(k) == {i \in U : i <= k}
           decided(k) == \E g \in [upTo(k) -> Fields \cup {NoField}] : FakeGives(t, m, g)
           bad == {k \in Nat : ~ decided(k)}
<1>1. U \subseteq 1 .. Len(t.cols) /\ Len(t.cols) \in Nat
  BY ColumnsAreNats DEF UnresolvedIn
<1>2. decided(0)
  <2>1. upTo(0) = {}
    BY <1>1
  <2>2. [i \in {} |-> NoField] \in [upTo(0) -> Fields \cup {NoField}]
    BY <2>1
  <2>3. FakeGives(t, m, [i \in {} |-> NoField])
    BY DEF FakeGives
  <2>4. QED
    BY <2>2, <2>3
<1>3. ASSUME NEW k \in Nat \ {0}, decided(k - 1) PROVE decided(k)
  <2>1. PICK g \in [upTo(k - 1) -> Fields \cup {NoField}] : FakeGives(t, m, g)
    BY <1>3
  <2> DEFINE before(f, i) == {f[j] : j \in {j \in DOMAIN f : j < i}}
             next == FakeField(t.cols[k], Claimed(m) \cup before(g, k))
             f == [i \in upTo(k) |-> IF i < k THEN g[i] ELSE next]
  <2>2. next \in Fields \cup {NoField}
    BY FakeFieldIsAField
  <2>3. ASSUME NEW i \in upTo(k) PROVE i \in Nat /\ (i < k => i \in upTo(k - 1)) /\ (~ (i < k) => i = k)
    BY <1>1
  <2>4. upTo(k - 1) \subseteq upTo(k) /\ \A i \in upTo(k - 1) : i < k
    BY <1>1
  <2> HIDE DEF next
  <2>5. f \in [upTo(k) -> Fields \cup {NoField}]
    BY <2>2, <2>3
  <2>6. ASSUME NEW i \in upTo(k) PROVE before(f, i) = before(g, i)
    <3>1. ASSUME NEW j \in upTo(k), j < i PROVE j \in upTo(k - 1)
      <4>1. i <= k /\ i \in Nat /\ j \in Nat
        BY <1>1
      <4>2. QED
        BY <4>1, <3>1, <2>3
    <3>4. {j \in upTo(k) : j < i} = {j \in upTo(k - 1) : j < i}
      BY <2>4, <3>1
    <3>5. DOMAIN f = upTo(k) /\ DOMAIN g = upTo(k - 1)
      OBVIOUS
    <3>2. \A j \in {j \in DOMAIN g : j < i} : f[j] = g[j]
      BY <2>4
    <3>3. QED
      BY <3>4, <3>5, <3>2
  <2>7. ASSUME NEW i \in upTo(k) PROVE f[i] = FakeField(t.cols[i], Claimed(m) \cup before(f, i))
    <3>1. CASE i < k
      <4>1. i \in upTo(k - 1)
        BY <3>1, <2>3
      <4>2. g[i] = FakeField(t.cols[i], Claimed(m) \cup before(g, i))
        BY <4>1, <2>1 DEF FakeGives
      <4>3. f[i] = g[i]
        BY <3>1
      <4> HIDE DEF f, before
      <4>4. QED
        BY <4>2, <4>3, <2>6
    <3>2. CASE ~ (i < k)
      <4>1. i = k
        BY <3>2, <2>3
      <4>2. f[i] = next
        BY <3>2
      <4>3. before(f, i) = before(g, k)
        BY <4>1, <2>6
      <4> HIDE DEF f, before
      <4>4. QED
        BY <4>1, <4>2, <4>3 DEF next
    <3>3. QED
      BY <3>1, <3>2
  <2>8. FakeGives(t, m, f)
    BY <2>7 DEF FakeGives
  <2>9. QED
    BY <2>5, <2>8
<1>4. bad = {}
  <2> SUFFICES ASSUME bad # {} PROVE FALSE
    OBVIOUS
  <2>1. PICK k \in bad : \A j \in bad : k <= j
    BY LeastOfNats
  <2>2. k \in Nat \ {0}
    BY <1>2
  <2>3. k - 1 \in Nat /\ ~ (k <= k - 1)
    BY <2>2
  <2>5. k - 1 \notin bad
    BY <2>1, <2>3
  <2>4. QED
    BY <1>3, <2>2, <2>3, <2>5
<1>5. upTo(Len(t.cols)) = U
  BY <1>1
<1>6. QED
  BY <1>1, <1>4, <1>5

(* What an adjudicator hands back: numbered answers, each a field of the schema  *)
(* or none.                                                                     *)
Adjudication(answers) ==
  \E n \in Nat : /\ DOMAIN answers \subseteq 0 .. n
                 /\ \A k \in DOMAIN answers : answers[k].field \in Fields \cup {NoField}

LEMMA FakeAdjudicates ==
  ASSUME NEW t \in Tables, NEW m, DOMAIN m = Columns(t)
  PROVE  Adjudication(FakeAnswers(t, m))
<1> DEFINE given == CHOOSE g \in [UnresolvedIn(m) -> Fields \cup {NoField}] : FakeGives(t, m, g)
<1>1. given \in [UnresolvedIn(m) -> Fields \cup {NoField}]
  BY FakeDecides
<1>2. UnresolvedIn(m) \subseteq 0 .. Len(t.cols) /\ Len(t.cols) \in Nat
  BY ColumnsAreNats DEF UnresolvedIn
<1>3. FakeAnswers(t, m) = [i \in UnresolvedIn(m) |->
                             Answer(t.cols[i], given[i], IF given[i] = NoField THEN 0 ELSE 800)]
  BY DEF FakeAnswers
<1> HIDE DEF given
<1>4. \A i \in UnresolvedIn(m) : FakeAnswers(t, m)[i].field = given[i]
  BY <1>3 DEF Answer
<1>5. QED
  BY <1>1, <1>2, <1>3, <1>4 DEF Adjudication

LEMMA ReplyAdjudicates ==
  ASSUME NEW reply \in Replies \ {NotIterable}, NEW req
  PROVE  Adjudication(ParseReply(reply, req))
<1> DEFINE asked == {k \in DOMAIN reply : reply[k].src \in req.unresolved}
           answers == ParseReply(reply, req)
<1>1. DOMAIN answers = asked
  BY DEF ParseReply
<1>2. asked \subseteq 0 .. Len(reply) /\ Len(reply) \in Nat
  BY MappingAssumption
<1>3. ASSUME NEW k \in asked PROVE answers[k].field \in Fields \cup {NoField}
  BY DEF ParseReply, Answer
<1>4. QED
  BY <1>1, <1>2, <1>3 DEF Adjudication

LEMMA SilenceAdjudicates == Adjudication(<<>>)
<1>1. DOMAIN <<>> = {}
  OBVIOUS
<1>2. QED
  BY <1>1 DEF Adjudication

LEMMA AnswerIsAField ==
  ASSUME NEW answers, Adjudication(answers), NEW h
  PROVE  AnswerFor(answers, h).field \in Fields \cup {NoField}
<1> DEFINE given == {k \in DOMAIN answers : answers[k].src = h}
<1>1. CASE given = {}
  BY <1>1 DEF AnswerFor, Answer
<1>2. CASE given # {}
  <2>1. PICK n \in Nat : DOMAIN answers \subseteq 0 .. n
    BY DEF Adjudication
  <2>2. \E k \in given : \A j \in given : k >= j
    BY <1>2, <2>1, GreatestOfNats
  <2>3. (CHOOSE k \in given : \A j \in given : k >= j) \in given
    BY <2>2
  <2>4. QED
    BY <1>2, <2>3 DEF AnswerFor, Adjudication
<1>3. QED
  BY <1>1, <1>2

----------------------------------------------------------------------------
(* Steps that fill open columns *)

(* n is m with some open columns filled, by fields that neither m nor another     *)
(* column filled in the same step has.                                          *)
Filled(m, n) ==
  /\ n = [i \in DOMAIN m |-> n[i]]
  /\ \A i \in DOMAIN m : n[i] # m[i] =>
       m[i].field = NoField /\ n[i].tier # "HUMAN" /\ n[i].field \notin Claimed(m)
  /\ \A i, j \in DOMAIN m : i < j /\ n[i] # m[i] /\ n[j] # m[j] =>
       n[i].field # n[j].field \/ n[i].field = NoField

(* No field has two sources but by configuration. *)
OneSource(m) ==
  \A i, j \in DOMAIN m :
    i < j /\ m[i].field = m[j].field => "HUMAN" \in {m[i].tier, m[j].tier} \/ m[i].field = NoField

(* Behind a configured column only configuration names its field again. *)
ConfiguredLast(m) ==
  \A i, j \in DOMAIN m :
    i < j /\ m[i].tier = "HUMAN" /\ m[i].field = m[j].field /\ m[i].field \in Fields \ PriceFields
      => m[j].tier = "HUMAN"

LEMMA FilledKeepsSources ==
  ASSUME NEW m, NEW n, Filled(m, n), OneSource(m), ConfiguredLast(m)
  PROVE  OneSource(n) /\ ConfiguredLast(n)
<1>1. DOMAIN n = DOMAIN m
  BY DEF Filled
<1>2. ASSUME NEW i \in DOMAIN m, m[i].field # NoField
      PROVE  n[i] = m[i] /\ m[i].field \in Claimed(m)
  BY <1>2 DEF Filled, Claimed
<1>3. ASSUME NEW i \in DOMAIN m, NEW j \in DOMAIN m, i < j, n[i].field = n[j].field, n[i].field # NoField
      PROVE  n[i] = m[i] /\ n[j] = m[j]
  BY <1>2, <1>3 DEF Filled
<1>4. OneSource(n)
  BY <1>1, <1>3 DEF OneSource
<1>5. ConfiguredLast(n)
  BY <1>1, <1>3, MappingAssumption DEF ConfiguredLast
<1>6. QED
  BY <1>4, <1>5

LEMMA CacheFills ==
  ASSUME NEW t \in Tables, NEW m, NEW learned, DOMAIN m = Columns(t), m = [i \in DOMAIN m |-> m[i]]
  PROVE  Filled(m, ApplyCached(t, m, learned))
<1> DEFINE n == ApplyCached(t, m, learned)
           fills(i) == /\ i \in UnresolvedIn(m)
                       /\ t.cols[i] \in DOMAIN learned
                       /\ learned[t.cols[i]] \notin Claimed(m)
           first(i) == \A j \in 1 .. i - 1 : fills(j) => learned[t.cols[j]] # learned[t.cols[i]]
<1>1. n = [i \in DOMAIN m |-> IF fills(i) /\ first(i) THEN Mapped(learned[t.cols[i]], "LLM", 800) ELSE m[i]]
  BY DEF ApplyCached
<1>2. ASSUME NEW i \in DOMAIN m, n[i] # m[i]
      PROVE  fills(i) /\ first(i) /\ n[i].field = learned[t.cols[i]] /\ n[i].tier = "LLM"
  <2> HIDE DEF fills, first, n
  <2>1. fills(i) /\ first(i)
    BY <1>1, <1>2
  <2>2. n[i] = Mapped(learned[t.cols[i]], "LLM", 800)
    BY <1>1, <2>1
  <2>3. QED
    BY <2>1, <2>2 DEF Mapped
<1>3. n = [i \in DOMAIN m |-> n[i]]
  <2> HIDE DEF fills, first, n
  <2>1. QED
    BY <1>1
<1> HIDE DEF n
<1>4. ASSUME NEW i \in DOMAIN m, n[i] # m[i]
      PROVE  m[i].field = NoField /\ n[i].tier # "HUMAN" /\ n[i].field \notin Claimed(m)
  BY <1>2, <1>4 DEF UnresolvedIn
<1>5. ASSUME NEW i \in DOMAIN m, NEW j \in DOMAIN m, i < j, n[i] # m[i], n[j] # m[j]
      PROVE  n[i].field # n[j].field
  <2>1. i \in 1 .. j - 1
    BY <1>5, ColumnsAreNats
  <2>2. fills(i) /\ first(j)
    BY <1>2, <1>5
  <2>3. QED
    BY <1>2, <1>5, <2>1, <2>2
<1>6. \A i \in DOMAIN m : n[i] # m[i] =>
        m[i].field = NoField /\ n[i].tier # "HUMAN" /\ n[i].field \notin Claimed(m)
  BY <1>4
<1>7. \A i, j \in DOMAIN m : i < j /\ n[i] # m[i] /\ n[j] # m[j] =>
        n[i].field # n[j].field \/ n[i].field = NoField
  BY <1>5
<1>8. Filled(m, n)
  BY <1>3, <1>6, <1>7 DEF Filled
<1>9. QED
  BY <1>8 DEF n

LEMMA AnswersFill ==
  ASSUME NEW t \in Tables, NEW m, NEW answers, Adjudication(answers),
         DOMAIN m = Columns(t), m = [i \in DOMAIN m |-> m[i]]
  PROVE  /\ Filled(m, TakeAnswers(t, m, answers))
         /\ \A i \in DOMAIN m : TakeAnswers(t, m, answers)[i] # m[i] =>
              /\ TakeAnswers(t, m, answers)[i].tier = "LLM"
              /\ TakeAnswers(t, m, answers)[i].field \in Fields
<1> DEFINE n == TakeAnswers(t, m, answers)
           answer(i) == AnswerFor(answers, t.cols[i])
           fills(i) == i \in UnresolvedIn(m) /\ answer(i).field \notin Claimed(m) \cup {NoField}
           first(i) == \A j \in 1 .. i - 1 : fills(j) => answer(j).field # answer(i).field
<1>1. n = [i \in DOMAIN m |-> IF fills(i) /\ first(i) THEN Mapped(answer(i).field, "LLM", answer(i).conf) ELSE m[i]]
  BY DEF TakeAnswers
<1>2. ASSUME NEW i \in DOMAIN m, n[i] # m[i]
      PROVE  fills(i) /\ first(i) /\ n[i].field = answer(i).field /\ n[i].tier = "LLM"
  <2> HIDE DEF fills, first, n, answer
  <2>1. fills(i) /\ first(i)
    BY <1>1, <1>2
  <2>2. n[i] = Mapped(answer(i).field, "LLM", answer(i).conf)
    BY <1>1, <2>1
  <2>3. QED
    BY <2>1, <2>2 DEF Mapped
<1>3. n = [i \in DOMAIN m |-> n[i]]
  <2> HIDE DEF fills, first, n
  <2>1. QED
    BY <1>1
<1>4. \A i : answer(i).field \in Fields \cup {NoField}
  BY AnswerIsAField
<1> HIDE DEF n, answer
<1>5. ASSUME NEW i \in DOMAIN m, n[i] # m[i]
      PROVE  /\ m[i].field = NoField /\ n[i].tier # "HUMAN" /\ n[i].field \notin Claimed(m)
             /\ n[i].tier = "LLM" /\ n[i].field \in Fields
  BY <1>2, <1>4, <1>5 DEF UnresolvedIn
<1>6. ASSUME NEW i \in DOMAIN m, NEW j \in DOMAIN m, i < j, n[i] # m[i], n[j] # m[j]
      PROVE  n[i].field # n[j].field
  <2>1. i \in 1 .. j - 1
    BY <1>6, ColumnsAreNats
  <2>2. fills(i) /\ first(j)
    BY <1>2, <1>6
  <2>3. QED
    BY <1>2, <1>6, <2>1, <2>2
<1>7. \A i \in DOMAIN m : n[i] # m[i] =>
        m[i].field = NoField /\ n[i].tier # "HUMAN" /\ n[i].field \notin Claimed(m)
  BY <1>5
<1>8. \A i, j \in DOMAIN m : i < j /\ n[i] # m[i] /\ n[j] # m[j] =>
        n[i].field # n[j].field \/ n[i].field = NoField
  BY <1>6
<1>9. Filled(m, n)
  BY <1>3, <1>7, <1>8 DEF Filled
<1>10. \A i \in DOMAIN m : n[i] # m[i] => n[i].tier = "LLM" /\ n[i].field \in Fields
  BY <1>5
<1>11. QED
  BY <1>9, <1>10 DEF n

(* Tier 2 offers a field that is free, or none. *)
LEMMA MatchIsFree ==
  ASSUME NEW h, NEW m, NEW up
  PROVE  /\ Match(h, Claimed(m), up).field \notin Claimed(m)
         /\ Match(h, Claimed(m), up).tier \in {"LOCAL", "UNRESOLVED"}
<1> DEFINE taken == Claimed(m)
           fz == FuzzyBest(h, taken)
           sem == IF up /\ Semantic[h].field \notin taken THEN Semantic[h]
                  ELSE [field |-> NoField, score |-> 0]
           alone(s) == Least(92 * s, MaxConfidence)
           agreed == Least(55 * fz.score + 45 * sem.score + 600, MaxConfidence)
           best == CASE sem.field = NoField -> [field |-> fz.field, conf |-> alone(fz.score)]
                     [] sem.field # NoField /\ fz.field = sem.field -> [field |-> sem.field, conf |-> agreed]
                     [] sem.field # NoField /\ fz.field # sem.field /\ fz.score >= sem.score ->
                          [field |-> fz.field, conf |-> alone(fz.score)]
                     [] OTHER -> [field |-> sem.field, conf |-> alone(sem.score)]
           n == Match(h, taken, up)
<1>1. NoField \notin taken
  BY DEF Claimed
<1>2. fz.field \notin taken
  <2> DEFINE open == DOMAIN Fuzzy[h] \ taken
             top == {f \in open : \A g \in open : Fuzzy[h][f] >= Fuzzy[h][g]}
  <2>1. CASE top = {}
    BY <1>1, <2>1 DEF FuzzyBest
  <2>2. CASE top # {}
    <3>1. (CHOOSE f \in top : TRUE) \in top
      BY <2>2
    <3>2. fz.field = CHOOSE f \in top : TRUE
      BY <2>2 DEF FuzzyBest
    <3>3. QED
      BY <3>1, <3>2
  <2>3. QED
    BY <2>1, <2>2
<1>3. sem.field \notin taken
  BY <1>1
<1>4. n = IF best.field = NoField \/ best.conf < MinAccept THEN Unresolved
          ELSE Mapped(best.field, "LOCAL", Round(best.conf, 10))
  BY DEF Match
<1> HIDE DEF fz, sem, alone, agreed, n
<1>5. best.field \in {fz.field, sem.field}
  OBVIOUS
<1> HIDE DEF best, taken
<1>6. n.field \in {NoField, best.field} /\ n.tier \in {"LOCAL", "UNRESOLVED"}
  BY <1>4 DEF Unresolved, Mapped
<1>7. n.field \notin taken /\ n.tier \in {"LOCAL", "UNRESOLVED"}
  BY <1>1, <1>2, <1>3, <1>5, <1>6
<1>8. QED
  BY <1>7 DEF n, taken

LEMMA MatchFills ==
  ASSUME NEW m, NEW i \in UnresolvedIn(m), NEW h, NEW up, m = [k \in DOMAIN m |-> m[k]],
         DOMAIN m \subseteq Nat
  PROVE  Filled(m, [m EXCEPT ![i] = Match(h, Claimed(m), up)])
<1> DEFINE found == Match(h, Claimed(m), up)
           n == [m EXCEPT ![i] = found]
<1>1. i \in DOMAIN m /\ m[i].field = NoField
  BY DEF UnresolvedIn
<1>2. found.field \notin Claimed(m) /\ found.tier # "HUMAN"
  BY MatchIsFree
<1> HIDE DEF found
<1>3. n = [k \in DOMAIN m |-> IF k = i THEN found ELSE m[k]]
  BY <1>1
<1>4. n = [k \in DOMAIN m |-> n[k]]
  BY <1>3
<1>5. \A k \in DOMAIN m : n[k] # m[k] => k = i /\ n[k] = found
  BY <1>3
<1> HIDE DEF n
<1>6. \A k \in DOMAIN m : n[k] # m[k] =>
        m[k].field = NoField /\ n[k].tier # "HUMAN" /\ n[k].field \notin Claimed(m)
  BY <1>1, <1>2, <1>5
<1>7. \A k, l \in DOMAIN m : k < l /\ n[k] # m[k] /\ n[l] # m[l] => FALSE
  <2> SUFFICES ASSUME NEW k \in DOMAIN m, NEW l \in DOMAIN m, k < l, k = i, l = i PROVE FALSE
    BY <1>5
  <2>1. QED
    OBVIOUS
<1>8. Filled(m, n)
  BY <1>4, <1>6, <1>7 DEF Filled
<1>9. QED
  BY <1>8 DEF n, found

----------------------------------------------------------------------------
(* Tier 1 *)

(* However the price rules decide: one column at most gets each price. *)
LEMMA PriceRoles ==
  ASSUME NEW t \in Tables, NEW settled
  PROVE  LET r == ResolvePrices(t, settled)
         IN  /\ DOMAIN r = Deferred(t)
             /\ \A i \in Deferred(t) : /\ r[i].field \in PriceFields \cup {NoField}
                                       /\ r[i].tier \in {"ALIAS", "LOCAL", "UNRESOLVED"}
             /\ \A i, j \in Deferred(t) : i # j /\ r[i].field = r[j].field => r[i].field = NoField
<1> DEFINE D == Deferred(t)
           names(i, W, V) == t.cols[i] \in W \ V
           settlement == {i \in D : names(i, SettlementWords, TradeWords)}
           trade == {i \in D : names(i, TradeWords, SettlementWords)}
           undecided == D \ (settlement \cup trade)
           instruments == {i \in DOMAIN settled : settled[i].field = "instrument_id"}
           keys == IF instruments = {} THEN <<>>
                   ELSE ColumnValues(t, CHOOSE i \in instruments : \A j \in instruments : i <= j)
           ratio == [i \in undecided |-> VariationRatio(ColumnValues(t, i), keys)]
           percent == [i \in undecided |-> (100 * ratio[i].num) \div ratio[i].den]
           named == [i \in settlement |-> SettlementPreference[t.cols[i]]]
           executed == [i \in trade |-> TradePreference[t.cols[i]]]
           tradeWinner == Strongest(trade, executed)
           settleWinner == Strongest(settlement, named)
           varying == IF trade = {} THEN Strongest({i \in undecided : Varies(ratio[i])}, percent) ELSE 0
           steady == IF settlement = {} THEN Strongest({i \in undecided : ~Varies(ratio[i])}, percent) ELSE 0
           r == ResolvePrices(t, settled)
<1>1. r = [i \in D |->
             CASE i = settleWinner -> Mapped("settlement_price", "ALIAS", 980)
               [] i = tradeWinner -> Mapped("trade_price", "ALIAS", 980)
               [] i = varying -> Mapped("trade_price", "LOCAL", PriceConf(ratio[i].num, ratio[i].den))
               [] i = steady -> Mapped("settlement_price", "LOCAL",
                                       PriceConf(ratio[i].den - ratio[i].num, ratio[i].den))
               [] OTHER -> Unresolved]
  BY DEF ResolvePrices
<1>2. settlement = {} => settleWinner = 0
  BY DEF Strongest
<1>3. trade = {} => tradeWinner = 0
  BY DEF Strongest
<1>4. (settlement # {} => steady = 0) /\ (trade # {} => varying = 0)
  OBVIOUS
<1>5. \A i \in D : i # 0
  BY ColumnsAreNats
<1> HIDE DEF settlement, trade, ratio, tradeWinner, settleWinner, varying, steady, r, D
<1>6. ASSUME NEW i \in D
      PROVE  \/ i \in {settleWinner, steady} /\ r[i].field = "settlement_price" /\ r[i].tier \in {"ALIAS", "LOCAL"}
             \/ i \in {tradeWinner, varying} /\ r[i].field = "trade_price" /\ r[i].tier \in {"ALIAS", "LOCAL"}
             \/ r[i].field = NoField /\ r[i].tier = "UNRESOLVED"
  <2> DEFINE c1 == PriceConf(ratio[i].num, ratio[i].den)
             c2 == PriceConf(ratio[i].den - ratio[i].num, ratio[i].den)
  <2>1. r[i] = CASE i = settleWinner -> Mapped("settlement_price", "ALIAS", 980)
                 [] i = tradeWinner -> Mapped("trade_price", "ALIAS", 980)
                 [] i = varying -> Mapped("trade_price", "LOCAL", c1)
                 [] i = steady -> Mapped("settlement_price", "LOCAL", c2)
                 [] OTHER -> Unresolved
    BY <1>1
  <2> HIDE DEF c1, c2
  <2>2. \/ i = settleWinner /\ r[i] = Mapped("settlement_price", "ALIAS", 980)
        \/ i = tradeWinner /\ r[i] = Mapped("trade_price", "ALIAS", 980)
        \/ i = varying /\ r[i] = Mapped("trade_price", "LOCAL", c1)
        \/ i = steady /\ r[i] = Mapped("settlement_price", "LOCAL", c2)
        \/ r[i] = Unresolved
    BY <2>1
  <2>3. QED
    BY <2>2 DEF Mapped, Unresolved
<1>7. DOMAIN r = D
  BY <1>1
<1>8. \A i \in D : r[i].field \in PriceFields \cup {NoField} /\ r[i].tier \in {"ALIAS", "LOCAL", "UNRESOLVED"}
  BY <1>6 DEF PriceFields
<1>9. \A i, j \in D : i # j /\ r[i].field = r[j].field => r[i].field = NoField
  <2> SUFFICES ASSUME NEW i \in D, NEW j \in D, i # j, r[i].field = r[j].field, r[i].field # NoField
               PROVE  FALSE
    OBVIOUS
  <2>1. CASE r[i].field = "settlement_price"
    BY <2>1, <1>2, <1>4, <1>5, <1>6
  <2>2. CASE r[i].field = "trade_price"
    BY <2>2, <1>3, <1>4, <1>5, <1>6
  <2>3. QED
    BY <2>1, <2>2, <1>8 DEF PriceFields
<1>10. QED
  BY <1>7, <1>8, <1>9 DEF r, D

LEMMA AliasIsAField ==
  ASSUME NEW h
  PROVE  AliasLookup(h) \in Fields \cup {NoField}
BY MappingAssumption DEF AliasLookup, AliasOf

(* The dictionary alone decides column i. *)
Named(t, i) == Override(t, i) = NoField /\ AliasLookup(t.cols[i]) \in Fields \ PriceFields

(* What tier 1 leaves behind. *)
LEMMA TableStarts ==
  ASSUME NEW t \in Tables
  PROVE  LET m == MapTable(t)
         IN  /\ DOMAIN m = Columns(t) /\ m = [i \in DOMAIN m |-> m[i]]
             /\ OneSource(m) /\ ConfiguredLast(m)
             /\ \A i \in DOMAIN m : m[i].tier # "LLM"
             /\ \A i \in DOMAIN m : Override(t, i) # NoField => m[i].field = Override(t, i)
             /\ \A i \in DOMAIN m : Named(t, i) => AliasLookup(t.cols[i]) \in Claimed(m)
<1> DEFINE C == Columns(t)
           D == Deferred(t)
           settled == [i \in C \ D |->
                         CASE Override(t, i) # NoField -> Mapped(Override(t, i), "HUMAN", 1000)
                           [] ByAlias(t, i) -> Mapped(AliasLookup(t.cols[i]), "ALIAS", 1000)
                           [] OTHER -> Unresolved]
           prices == ResolvePrices(t, settled)
           m == MapTable(t)
           byPrice(i) == /\ Override(t, i) = NoField /\ m[i].field \in PriceFields \cup {NoField}
                         /\ m[i].tier \in {"ALIAS", "LOCAL", "UNRESOLVED"}
           byHand(i) == Override(t, i) # NoField /\ m[i].field = Override(t, i) /\ m[i].tier = "HUMAN"
           byName(i) == ByAlias(t, i) /\ m[i].field = AliasLookup(t.cols[i]) /\ m[i].tier = "ALIAS"
           open(i) == Override(t, i) = NoField /\ m[i].field = NoField /\ m[i].tier = "UNRESOLVED"
<1>1. m = [i \in C |-> IF i \in D THEN prices[i] ELSE settled[i]]
  BY DEF MapTable
<1>2. C \subseteq Nat \ {0} /\ D \subseteq C
  BY ColumnsAreNats
<1>3. /\ \A i \in D : prices[i].field \in PriceFields \cup {NoField} /\ prices[i].tier \in {"ALIAS", "LOCAL", "UNRESOLVED"}
      /\ \A i, j \in D : i # j /\ prices[i].field = prices[j].field => prices[i].field = NoField
  <2> HIDE DEF settled
  <2>1. QED
    BY PriceRoles
<1>4. ASSUME NEW i \in C \ D
      PROVE  \/ Override(t, i) # NoField /\ settled[i] = Mapped(Override(t, i), "HUMAN", 1000)
             \/ ByAlias(t, i) /\ settled[i] = Mapped(AliasLookup(t.cols[i]), "ALIAS", 1000)
             \/ Override(t, i) = NoField /\ ~ ByAlias(t, i) /\ settled[i] = Unresolved
  OBVIOUS
<1> HIDE DEF prices, settled, m, C, D
<1>5. DOMAIN m = C /\ m = [i \in DOMAIN m |-> m[i]]
  BY <1>1
<1>6. ASSUME NEW i \in C
      PROVE  (i \in D => byPrice(i) /\ m[i] = prices[i]) /\ (i \notin D => byHand(i) \/ byName(i) \/ open(i))
  <2>1. CASE i \in D
    <3>1. Override(t, i) = NoField
      BY <2>1 DEF D, Deferred
    <3>2. m[i] = prices[i]
      BY <1>1, <2>1
    <3>3. QED
      BY <2>1, <3>1, <3>2, <1>3
  <2>2. CASE i \notin D
    <3>1. m[i] = settled[i]
      BY <1>1, <2>2
    <3>2. \/ Override(t, i) # NoField /\ m[i] = Mapped(Override(t, i), "HUMAN", 1000)
          \/ ByAlias(t, i) /\ m[i] = Mapped(AliasLookup(t.cols[i]), "ALIAS", 1000)
          \/ Override(t, i) = NoField /\ m[i] = Unresolved
      BY <2>2, <3>1, <1>4
    <3>3. byHand(i) \/ byName(i) \/ open(i)
      BY <3>2 DEF Mapped, Unresolved
    <3>4. QED
      BY <2>2, <3>3
  <2>3. QED
    BY <2>1, <2>2
<1>7. ASSUME NEW i \in C, byName(i)
      PROVE  Override(t, i) = NoField /\ m[i].field \in Fields \ PriceFields /\ m[i].field \notin TakenBefore(t, i)
  BY <1>7, AliasIsAField DEF ByAlias
<1>8. ASSUME NEW i \in C, NEW j \in C, i < j, byName(j), m[i].field = m[j].field, i \notin D
      PROVE  FALSE
  <2>1. i \in 1 .. j - 1
    BY <1>2, <1>8
  <2>2. m[i].field \in Fields \ PriceFields /\ m[i].field \notin TakenBefore(t, j) /\ m[i].field # NoField
    BY <1>7, <1>8, MappingAssumption
  <2>3. CASE byHand(i)
    BY <2>1, <2>2, <2>3 DEF TakenBefore
  <2>4. CASE byName(i)
    BY <2>1, <2>2, <2>4, <1>7 DEF TakenBefore
  <2>5. QED
    BY <1>6, <1>8, <2>2, <2>3, <2>4
<1>9. ASSUME NEW i \in C, NEW j \in C, i < j, m[i].field = m[j].field, m[i].field # NoField
      PROVE  byHand(i) \/ byHand(j)
  <2>1. ~ (i \in D /\ j \in D)
    BY <1>2, <1>3, <1>6, <1>9
  <2>2. i \in D => ~ byName(j)
    BY <1>6, <1>7, <1>9
  <2>3. j \in D => ~ byName(i)
    BY <1>6, <1>7, <1>9
  <2>4. QED
    BY <1>6, <1>8, <1>9, <2>1, <2>2, <2>3
<1>10. OneSource(m)
  BY <1>5, <1>9 DEF OneSource
<1>11. ConfiguredLast(m)
  <2> SUFFICES ASSUME NEW i \in C, NEW j \in C, i < j, m[i].tier = "HUMAN", m[i].field = m[j].field,
                      m[i].field \in Fields \ PriceFields
               PROVE  m[j].tier = "HUMAN"
    BY <1>5 DEF ConfiguredLast
  <2>1. m[i].field # NoField /\ i \notin D
    BY <1>6, MappingAssumption
  <2>2. ~ byName(j) /\ j \notin D
    BY <1>6, <1>8, <2>1
  <2>3. QED
    BY <1>6, <2>1, <2>2
<1>12. \A i \in C : m[i].tier # "LLM"
  BY <1>6
<1>13. \A i \in C : Override(t, i) # NoField => m[i].field = Override(t, i)
  BY <1>6, <1>7
<1>14. ASSUME NEW i \in C, Named(t, i) PROVE AliasLookup(t.cols[i]) \in Claimed(m)
  <2> DEFINE f == AliasLookup(t.cols[i])
             wants(j) == \/ Override(t, j) = f
                         \/ Override(t, j) = NoField /\ AliasLookup(t.cols[j]) = f
             W == {j \in C : wants(j)}
  <2>1. f \in Fields \ PriceFields /\ f # NoField
    BY <1>14, MappingAssumption DEF Named
  <2>2. i \in W
    BY <1>14 DEF Named
  <2>3. PICK j \in W : \A k \in W : j <= k
    BY <2>2, <1>2, LeastOfNats
  <2> HIDE DEF f
  <2>4. j \notin D
    BY <2>1, <2>3 DEF D, Deferred
  <2>5. CASE Override(t, j) = f
    <3>1. m[j].field = f
      BY <1>6, <1>7, <2>1, <2>3, <2>4, <2>5
    <3>2. QED
      BY <3>1, <1>5, <2>1, <2>3 DEF Claimed, f
  <2>6. CASE Override(t, j) = NoField /\ AliasLookup(t.cols[j]) = f
    <3>1. f \notin TakenBefore(t, j)
      <4> SUFFICES ASSUME NEW k \in 1 .. j - 1, wants(k) PROVE FALSE
        BY <2>1 DEF TakenBefore
      <4>1. k \in C /\ ~ (j <= k)
        BY <1>2, <2>3, ColumnsAreNats DEF C
      <4>2. QED
        BY <4>1, <2>3
    <3>2. ByAlias(t, j)
      BY <2>1, <2>6, <3>1 DEF ByAlias
    <3>3. m[j] = settled[j] /\ settled[j] = Mapped(f, "ALIAS", 1000)
      BY <1>1, <1>4, <2>1, <2>3, <2>4, <2>6, <3>2
    <3>4. m[j].field = f
      BY <3>3 DEF Mapped
    <3>5. QED
      BY <3>4, <1>5, <2>1, <2>3 DEF Claimed, f
  <2>7. QED
    BY <2>3, <2>5, <2>6
<1>15. /\ DOMAIN m = Columns(t) /\ m = [i \in DOMAIN m |-> m[i]]
       /\ OneSource(m) /\ ConfiguredLast(m)
       /\ \A i \in DOMAIN m : m[i].tier # "LLM"
       /\ \A i \in DOMAIN m : Override(t, i) # NoField => m[i].field = Override(t, i)
       /\ \A i \in DOMAIN m : Named(t, i) => AliasLookup(t.cols[i]) \in Claimed(m)
  BY <1>5, <1>10, <1>11, <1>12, <1>13, <1>14 DEF C
<1>16. QED
  BY <1>15 DEF m

----------------------------------------------------------------------------
(* A worker's file *)

JobType(j) ==
  /\ j \in [pc : {"lookup", "local", "ask", "store", "done", "raised"}, table : Tables, map : {j.map},
            hit : BOOLEAN, up : BOOLEAN, tried : Nat, attempt : Nat]
  /\ DOMAIN j.map = Columns(j.table) /\ j.map = [i \in DOMAIN j.map |-> j.map[i]]

(* The mapping of a file in hand. *)
JobMap(j) ==
  /\ OneSource(j.map) /\ ConfiguredLast(j.map)
  /\ \A i \in DOMAIN j.map : Override(j.table, i) # NoField => j.map[i].field = Override(j.table, i)
  /\ \A i \in DOMAIN j.map : Named(j.table, i) => AliasLookup(j.table.cols[i]) \in Claimed(j.map)

TaughtIn(m) == {i \in DOMAIN m : m[i].tier = "LLM"}

(* Only files whose layout was not cached come to an adjudicator, with no column  *)
(* from a model; what is stored then are the adjudicator's answers.              *)
JobTaught(j) ==
  /\ j.pc = "ask" => ~ j.hit
  /\ j.pc = "lookup" \/ (j.pc \in {"local", "ask"} /\ ~ j.hit) => TaughtIn(j.map) = {}
  /\ j.pc = "store" =>
       /\ Learnable(j.table) /\ TaughtIn(j.map) # {}
       /\ \A i \in TaughtIn(j.map) :
            /\ j.map[i].field \in Fields
            /\ \A k \in DOMAIN j.map :
                 /\ Override(j.table, k) # j.map[i].field
                 /\ Named(j.table, k) => AliasLookup(j.table.cols[k]) # j.map[i].field

JobInv(j) == JobType(j) /\ JobMap(j) /\ JobTaught(j)

JobsInv ==
  /\ job = [w \in Workers |-> job[w]]
  /\ \A w \in Workers : job[w] = Idle \/ JobInv(job[w])

MappingInv == JobsInv /\ LearnedIsSound

(* What an action leaves: the other workers, and of its own file all but the map, *)
(* the place and the counters.                                                   *)
OnlyWorker(w) ==
  /\ job' = [v \in Workers |-> job'[v]]
  /\ \A v \in Workers \ {w} : job'[v] = job[v]

LEMMA BusyJob ==
  ASSUME JobsInv, NEW w \in Workers, job[w].pc # "idle"
  PROVE  JobInv(job[w])
BY DEF JobsInv, Idle

LEMMA BeginInv ==
  ASSUME NEW t \in Tables
  PROVE  JobInv(Begin(t))
<1> DEFINE m == MapTable(t)
           j == Begin(t)
<1>1. j = [pc |-> "lookup", table |-> t, map |-> m, hit |-> FALSE, up |-> TRUE, tried |-> 0, attempt |-> 0]
  BY DEF Begin
<1>2. /\ DOMAIN m = Columns(t) /\ m = [i \in DOMAIN m |-> m[i]]
      /\ OneSource(m) /\ ConfiguredLast(m)
      /\ \A i \in DOMAIN m : m[i].tier # "LLM"
      /\ \A i \in DOMAIN m : Override(t, i) # NoField => m[i].field = Override(t, i)
      /\ \A i \in DOMAIN m : Named(t, i) => AliasLookup(t.cols[i]) \in Claimed(m)
  BY TableStarts
<1> HIDE DEF m, j
<1>3. j.pc = "lookup" /\ j.table = t /\ j.map = m
  BY <1>1
<1>4. JobType(j)
  BY <1>1, <1>2 DEF JobType
<1>5. JobMap(j)
  BY <1>2, <1>3 DEF JobMap
<1>6. JobTaught(j)
  BY <1>2, <1>3 DEF JobTaught, TaughtIn
<1>7. QED
  BY <1>4, <1>5, <1>6 DEF JobInv, j

(* A job that goes on, its map filled further. *)
LEMMA FilledJob ==
  ASSUME NEW j, JobInv(j), NEW k, JobType(k), k.table = j.table, Filled(j.map, k.map)
  PROVE  JobMap(k)
<1>1. OneSource(k.map) /\ ConfiguredLast(k.map) /\ DOMAIN k.map = DOMAIN j.map
  BY FilledKeepsSources DEF JobInv, JobMap, Filled
<1>2. ASSUME NEW i \in DOMAIN k.map, Override(k.table, i) # NoField PROVE k.map[i].field = Override(k.table, i)
  <2>1. j.map[i].field = Override(j.table, i) /\ j.map[i].field # NoField
    BY <1>1, <1>2 DEF JobInv, JobMap
  <2>2. k.map[i] = j.map[i]
    BY <1>1, <2>1 DEF Filled
  <2>3. QED
    BY <2>1, <2>2
<1>3. Claimed(j.map) \subseteq Claimed(k.map)
  BY <1>1 DEF Claimed, Filled
<1>4. \A i \in DOMAIN k.map : Named(k.table, i) => AliasLookup(k.table.cols[i]) \in Claimed(k.map)
  BY <1>1, <1>3 DEF JobInv, JobMap
<1>5. QED
  BY <1>1, <1>2, <1>4 DEF JobMap

LEMMA Untouched ==
  ASSUME NEW m, m = [i \in DOMAIN m |-> m[i]]
  PROVE  Filled(m, m)
BY DEF Filled

----------------------------------------------------------------------------
(* The actions *)

LEMMA StartEffect ==
  ASSUME JobsInv, NEW w \in Workers, Start(w) \/ Crash(w)
  PROVE  OnlyWorker(w) /\ JobInv(job'[w]) /\ job'[w].pc = "lookup" /\ cache' = cache
<1>1. PICK t \in Tables : job' = [job EXCEPT ![w] = Begin(t)]
  <2>1. CASE Start(w)
    BY <2>1 DEF Start
  <2>2. CASE Crash(w)
    <3>1. JobInv(job[w])
      BY <2>2, BusyJob DEF Crash
    <3>2. job[w].table \in Tables
      BY <3>1 DEF JobInv, JobType
    <3>3. QED
      BY <2>2, <3>2 DEF Crash
  <2>3. QED
    BY <2>1, <2>2
<1>2. OnlyWorker(w) /\ job'[w] = Begin(t)
  BY <1>1 DEF OnlyWorker, JobsInv
<1>3. Begin(t).pc = "lookup"
  BY DEF Begin
<1>4. cache' = cache
  BY DEF Start, Crash
<1>5. QED
  BY <1>2, <1>3, <1>4, BeginInv

LEMMA LookUpEffect ==
  ASSUME JobsInv, NEW w \in Workers, LookUp(w)
  PROVE  OnlyWorker(w) /\ JobInv(job'[w]) /\ Filled(job[w].map, job'[w].map) /\ cache' = cache
<1> DEFINE j == job[w]
           k == job'[w]
           t == j.table
           n == IF Cached(t) THEN ApplyCached(t, j.map, cache[Fingerprint(t)]) ELSE j.map
<1>1. JobInv(j) /\ j.pc = "lookup"
  BY BusyJob DEF LookUp
<1>2. cache' = cache
  BY DEF LookUp
<1>3. job' = [job EXCEPT ![w].pc = "local", ![w].hit = Cached(t),
                         ![w].map = IF Cached(t) THEN ApplyCached(t, @, cache[Fingerprint(t)]) ELSE @]
  BY DEF LookUp
<1>4. Cached(t) \in BOOLEAN
  BY DEF Cached, Learnable
<1>5. /\ OnlyWorker(w)
      /\ k = [j EXCEPT !.pc = "local", !.hit = Cached(t), !.map = n]
  <2> HIDE DEF j, k
  <2>1. QED
    BY <1>3 DEF OnlyWorker, JobsInv, j, k
<1>6. k.map = n /\ k.table = t /\ k.pc = "local" /\ k.hit = Cached(t)
  BY <1>1, <1>5 DEF JobInv, JobType
<1>7. Filled(j.map, n)
  BY <1>1, CacheFills, Untouched DEF JobInv, JobType
<1>8. JobType(k)
  <2>1. DOMAIN n = Columns(t) /\ n = [i \in DOMAIN n |-> n[i]]
    BY <1>1, <1>7 DEF JobInv, JobType, Filled
  <2> DEFINE c == Cached(t)
  <2>2. c \in {TRUE, FALSE} /\ k = [j EXCEPT !.pc = "local", !.hit = c, !.map = n] /\ k.map = n
    BY <1>4, <1>5, <1>6
  <2> HIDE DEF c, n, k
  <2>3. k \in [pc : {"lookup", "local", "ask", "store", "done", "raised"}, table : Tables, map : {n},
               hit : BOOLEAN, up : BOOLEAN, tried : Nat, attempt : Nat]
    <3>1. CASE c = TRUE
      BY <1>1, <2>2, <3>1 DEF JobInv, JobType
    <3>2. CASE c = FALSE
      BY <1>1, <2>2, <3>2 DEF JobInv, JobType
    <3>3. QED
      BY <2>2, <3>1, <3>2
  <2>4. QED
    BY <1>6, <2>1, <2>2, <2>3 DEF JobType
<1>9. JobMap(k)
  BY <1>1, <1>6, <1>7, <1>8, FilledJob
<1>10. JobTaught(k)
  <2>1. ~ Cached(t) => TaughtIn(k.map) = {}
    BY <1>1, <1>6 DEF JobInv, JobTaught
  <2>2. QED
    BY <1>6, <2>1 DEF JobTaught
<1>11. QED
  BY <1>2, <1>5, <1>6, <1>7, <1>8, <1>9, <1>10 DEF JobInv

LEMMA MatchColumnEffect ==
  ASSUME JobsInv, NEW w \in Workers, MatchColumn(w)
  PROVE  OnlyWorker(w) /\ JobInv(job'[w]) /\ Filled(job[w].map, job'[w].map) /\ cache' = cache
<1> DEFINE j == job[w]
           k == job'[w]
<1>1. JobInv(j) /\ j.pc = "local"
  BY BusyJob DEF MatchColumn
<1>2. cache' = cache
  BY DEF MatchColumn
<1>3. PICK i \in Untried(w), up \in Available(w) :
        job' = [job EXCEPT ![w].tried = i, ![w].up = up,
                           ![w].map[i] = Match(j.table.cols[i], Claimed(j.map), up)]
  BY DEF MatchColumn
<1> DEFINE found == Match(j.table.cols[i], Claimed(j.map), up)
           n == [j.map EXCEPT ![i] = found]
<1>4. i \in UnresolvedIn(j.map) /\ i \in Nat /\ DOMAIN j.map \subseteq Nat /\ up \in BOOLEAN
  BY <1>1, ColumnsAreNats DEF Untried, Available, UnresolvedIn, JobInv, JobType
<1>5. Filled(j.map, n)
  BY <1>1, <1>4, MatchFills DEF JobInv, JobType
<1>6. \A l \in DOMAIN j.map : n[l].tier = "LLM" => j.map[l].tier = "LLM"
  BY <1>1, <1>4, MatchIsFree DEF JobInv, JobType
<1> HIDE DEF found
<1>7. OnlyWorker(w) /\ k = [j EXCEPT !.tried = i, !.up = up, !.map[i] = found]
  <2>1. job' = [job EXCEPT ![w].tried = i, ![w].up = up, ![w].map[i] = found]
    BY <1>3 DEF found
  <2> HIDE DEF j, k
  <2>2. QED
    BY <2>1 DEF OnlyWorker, JobsInv, j, k
<1>8. k = [j EXCEPT !.tried = i, !.up = up, !.map = n]
  BY <1>1, <1>7 DEF JobInv, JobType
<1> HIDE DEF n, k
<1>9. k.map = n /\ k.table = j.table /\ k.pc = "local" /\ k.hit = j.hit
  BY <1>1, <1>8 DEF JobInv, JobType
<1>10. JobType(k)
  <2>1. DOMAIN n = Columns(j.table) /\ n = [l \in DOMAIN n |-> n[l]]
    BY <1>1, <1>5 DEF JobInv, JobType, Filled
  <2>2. k \in [pc : {"lookup", "local", "ask", "store", "done", "raised"}, table : Tables, map : {n},
               hit : BOOLEAN, up : BOOLEAN, tried : Nat, attempt : Nat]
    <3>1. CASE up = TRUE
      BY <1>1, <1>4, <1>8, <3>1 DEF JobInv, JobType
    <3>2. CASE up = FALSE
      BY <1>1, <1>4, <1>8, <3>2 DEF JobInv, JobType
    <3>3. QED
      BY <1>4, <3>1, <3>2
  <2>3. QED
    BY <1>9, <2>1, <2>2 DEF JobType
<1>11. JobMap(k)
  BY <1>1, <1>5, <1>9, <1>10, FilledJob
<1>12. JobTaught(k)
  BY <1>1, <1>5, <1>6, <1>9 DEF JobInv, JobTaught, TaughtIn, Filled
<1>13. QED
  BY <1>2, <1>5, <1>7, <1>9, <1>10, <1>11, <1>12 DEF JobInv, k

LEMMA EscalateEffect ==
  ASSUME JobsInv, NEW w \in Workers, Escalate(w)
  PROVE  OnlyWorker(w) /\ JobInv(job'[w]) /\ Filled(job[w].map, job'[w].map) /\ cache' = cache
<1> DEFINE j == job[w]
           k == job'[w]
<1>1. JobInv(j) /\ j.pc = "local"
  BY BusyJob DEF Escalate
<1>2. cache' = cache
  BY DEF Escalate
<1>3. PICK place \in {"ask", "done"} :
        job' = [job EXCEPT ![w].pc = place] /\ (place = "ask" => ~ j.hit)
  BY DEF Escalate
<1>4. OnlyWorker(w) /\ k = [j EXCEPT !.pc = place]
  BY <1>3 DEF OnlyWorker, JobsInv
<1> HIDE DEF k
<1>5. k.map = j.map /\ k.table = j.table /\ k.pc = place /\ k.hit = j.hit
  BY <1>1, <1>4 DEF JobInv, JobType
<1>6. JobType(k)
  BY <1>1, <1>4, <1>5 DEF JobInv, JobType
<1>7. Filled(j.map, k.map)
  BY <1>1, <1>5, Untouched DEF JobInv, JobType
<1>8. JobMap(k)
  BY <1>1, <1>5, <1>6, <1>7, FilledJob
<1>9. JobTaught(k)
  BY <1>1, <1>3, <1>5 DEF JobInv, JobTaught
<1>10. QED
  BY <1>2, <1>4, <1>6, <1>7, <1>8, <1>9 DEF JobInv, k

LEMMA ConcludeEffect ==
  ASSUME JobsInv, NEW w \in Workers, job[w].pc = "ask", NEW answers, Adjudication(answers), Conclude(w, answers)
  PROVE  OnlyWorker(w) /\ JobInv(job'[w]) /\ Filled(job[w].map, job'[w].map)
<1> DEFINE j == job[w]
           k == job'[w]
           t == j.table
           m == TakeAnswers(t, j.map, answers)
           teaches == Learnable(t) /\ m # j.map
           place == IF teaches THEN "store" ELSE "done"
<1>1. JobInv(j) /\ j.pc = "ask"
  BY BusyJob
<1>2. job' = [job EXCEPT ![w].map = m, ![w].pc = place]
  BY DEF Conclude
<1>3. /\ Filled(j.map, m)
      /\ \A i \in DOMAIN j.map : m[i] # j.map[i] => m[i].tier = "LLM" /\ m[i].field \in Fields
  BY <1>1, AnswersFill DEF JobInv, JobType
<1> HIDE DEF m
<1>4. OnlyWorker(w) /\ k = [j EXCEPT !.map = m, !.pc = place]
  BY <1>2 DEF OnlyWorker, JobsInv
<1>5. place \in {"store", "done"} /\ (place = "store" => Learnable(t) /\ m # j.map)
  OBVIOUS
<1> HIDE DEF k, place
<1>6. k.map = m /\ k.table = t /\ k.pc = place /\ k.hit = j.hit
  BY <1>1, <1>4 DEF JobInv, JobType
<1>7. DOMAIN m = DOMAIN j.map /\ DOMAIN j.map = Columns(t) /\ m = [i \in DOMAIN m |-> m[i]]
      /\ j.map = [i \in DOMAIN j.map |-> j.map[i]]
  BY <1>1, <1>3 DEF Filled, JobInv, JobType
<1>8. JobType(k)
  <2>1. k \in [pc : {"lookup", "local", "ask", "store", "done", "raised"}, table : Tables, map : {m},
               hit : BOOLEAN, up : BOOLEAN, tried : Nat, attempt : Nat]
    BY <1>1, <1>4, <1>5 DEF JobInv, JobType
  <2>2. QED
    BY <1>6, <1>7, <2>1 DEF JobType
<1>9. JobMap(k)
  BY <1>1, <1>3, <1>6, <1>8, FilledJob
<1>10. JobTaught(k)
  <2>1. \A i \in TaughtIn(m) : m[i] # j.map[i]
    BY <1>1, <1>7 DEF JobInv, JobTaught, TaughtIn
  <2>2. m # j.map => TaughtIn(m) # {}
    BY <1>3, <1>7 DEF TaughtIn
  <2>3. ASSUME NEW i \in TaughtIn(m), NEW l \in DOMAIN m, Override(t, l) = m[i].field PROVE FALSE
    <3>1. m[i].field \in Fields /\ m[i].field \notin Claimed(j.map) /\ m[i].field # NoField
      BY <1>3, <1>7, <2>1, MappingAssumption DEF TaughtIn, Filled
    <3>2. j.map[l].field = Override(t, l)
      BY <1>1, <1>7, <2>3, <3>1 DEF JobInv, JobMap
    <3>3. QED
      BY <1>7, <2>3, <3>1, <3>2 DEF Claimed
  <2>4. \A i \in TaughtIn(m) : m[i].field \in Fields
    BY <1>3, <1>7, <2>1 DEF TaughtIn
  <2>5. ASSUME NEW i \in TaughtIn(m), NEW l \in DOMAIN m, Named(t, l) PROVE AliasLookup(t.cols[l]) # m[i].field
    <3>1. m[i].field \notin Claimed(j.map)
      BY <1>3, <1>7, <2>1 DEF TaughtIn, Filled
    <3>2. AliasLookup(t.cols[l]) \in Claimed(j.map)
      BY <1>1, <1>7, <2>5 DEF JobInv, JobMap
    <3>3. QED
      BY <3>1, <3>2
  <2>6. QED
    BY <1>5, <1>6, <2>2, <2>3, <2>4, <2>5 DEF JobTaught
<1>11. QED
  BY <1>3, <1>4, <1>6, <1>8, <1>9, <1>10 DEF JobInv, k

LEMMA RetryEffect ==
  ASSUME JobsInv, NEW w \in Workers, job[w].pc = "ask", Retry(w)
  PROVE  OnlyWorker(w) /\ JobInv(job'[w]) /\ Filled(job[w].map, job'[w].map)
<1> DEFINE j == job[w]
           k == job'[w]
<1>1. JobInv(j)
  BY BusyJob
<1>2. CASE j.attempt + 1 < MaxAttempts
  <2>1. job' = [job EXCEPT ![w].attempt = @ + 1]
    BY <1>2 DEF Retry
  <2>2. OnlyWorker(w) /\ k = [j EXCEPT !.attempt = @ + 1]
    BY <2>1 DEF OnlyWorker, JobsInv
  <2> HIDE DEF k
  <2>3. k.map = j.map /\ k.table = j.table /\ k.pc = j.pc /\ k.hit = j.hit
    BY <1>1, <2>2 DEF JobInv, JobType
  <2>4. JobType(k)
    BY <1>1, <2>2, <2>3 DEF JobInv, JobType
  <2>5. Filled(j.map, k.map)
    BY <1>1, <2>3, Untouched DEF JobInv, JobType
  <2>6. JobMap(k)
    BY <1>1, <2>3, <2>4, <2>5, FilledJob
  <2>7. JobTaught(k)
    BY <1>1, <2>3 DEF JobInv, JobTaught
  <2>8. QED
    BY <2>2, <2>4, <2>5, <2>6, <2>7 DEF JobInv, k
<1>3. CASE ~ (j.attempt + 1 < MaxAttempts)
  <2>1. Conclude(w, <<>>)
    BY <1>3 DEF Retry
  <2>2. QED
    BY <2>1, ConcludeEffect, SilenceAdjudicates
<1>4. QED
  BY <1>2, <1>3

LEMMA RaiseEffect ==
  ASSUME JobsInv, NEW w \in Workers, job[w].pc = "ask", Raise(w)
  PROVE  OnlyWorker(w) /\ JobInv(job'[w]) /\ Filled(job[w].map, job'[w].map)
<1> DEFINE j == job[w]
           k == job'[w]
<1>1. JobInv(j)
  BY BusyJob
<1>2. OnlyWorker(w) /\ k = [j EXCEPT !.pc = "raised"]
  BY DEF Raise, OnlyWorker, JobsInv
<1> HIDE DEF k
<1>3. k.map = j.map /\ k.table = j.table /\ k.pc = "raised" /\ k.hit = j.hit
  BY <1>1, <1>2 DEF JobInv, JobType
<1>4. JobType(k)
  BY <1>1, <1>2, <1>3 DEF JobInv, JobType
<1>5. Filled(j.map, k.map)
  BY <1>1, <1>3, Untouched DEF JobInv, JobType
<1>6. JobMap(k)
  BY <1>1, <1>3, <1>4, <1>5, FilledJob
<1>7. JobTaught(k)
  BY <1>3 DEF JobTaught
<1>8. QED
  BY <1>2, <1>4, <1>5, <1>6, <1>7 DEF JobInv, k

Ask(w) == AskFake(w) \/ AskModel(w) \/ AskWithoutKey(w)

LEMMA AskEffect ==
  ASSUME JobsInv, NEW w \in Workers, Ask(w)
  PROVE  OnlyWorker(w) /\ JobInv(job'[w]) /\ Filled(job[w].map, job'[w].map) /\ cache' = cache
<1> DEFINE j == job[w]
<1>1. j.pc = "ask" /\ cache' = cache
  BY DEF Ask, AskFake, AskModel, AskWithoutKey
<1>2. JobInv(j)
  BY <1>1, BusyJob
<1>3. CASE AskFake(w)
  <2>1. Conclude(w, FakeAnswers(j.table, j.map))
    BY <1>3 DEF AskFake
  <2>2. Adjudication(FakeAnswers(j.table, j.map))
    BY <1>2, FakeAdjudicates DEF JobInv, JobType
  <2>3. QED
    BY <1>1, <2>1, <2>2, ConcludeEffect
<1>4. CASE AskModel(w)
  <2>1. \/ Retry(w) \/ Raise(w)
        \/ \E reply \in Replies \ {NotIterable} : Conclude(w, ParseReply(reply, Request(j.table, j.map)))
    BY <1>4 DEF AskModel
  <2>2. CASE Retry(w)
    BY <1>1, <2>2, RetryEffect
  <2>3. ASSUME NEW reply \in Replies \ {NotIterable}, Conclude(w, ParseReply(reply, Request(j.table, j.map)))
        PROVE  OnlyWorker(w) /\ JobInv(job'[w]) /\ Filled(job[w].map, job'[w].map)
    <3>1. Adjudication(ParseReply(reply, Request(j.table, j.map)))
      BY ReplyAdjudicates
    <3>2. QED
      BY <1>1, <2>3, <3>1, ConcludeEffect
  <2>4. QED
    BY <1>1, <2>1, <2>2, <2>3, RaiseEffect
<1>5. CASE AskWithoutKey(w)
  BY <1>1, <1>5, RaiseEffect DEF AskWithoutKey
<1>6. QED
  BY <1>3, <1>4, <1>5 DEF Ask

(* What is taught for a layout fits it: neither configuration nor the dictionary   *)
(* names a field that was still free when the adjudicator was asked.             *)
LEMMA LessonIsSound ==
  ASSUME NEW j, JobInv(j), j.pc = "store"
  PROVE  Fits(Fingerprint(j.table), Learned(j.table, j.map))
<1> DEFINE t == j.table
           m == j.map
           k == Fingerprint(t)
           learned == Learned(t, m)
           place(h) == CHOOSE i \in TaughtIn(m) : t.cols[i] = h
<1>1. /\ DOMAIN m = Columns(t) /\ t \in Tables /\ OneSource(m) /\ Learnable(t) /\ TaughtIn(m) # {}
      /\ \A i \in TaughtIn(m) : m[i].field \in Fields
  BY DEF JobInv, JobType, JobMap, JobTaught
<1>2. \A i \in TaughtIn(m), l \in DOMAIN m :
        Override(t, l) # m[i].field /\ (Named(t, l) => AliasLookup(t.cols[l]) # m[i].field)
  BY DEF JobInv, JobTaught
<1>3. learned = [h \in {t.cols[i] : i \in TaughtIn(m)} |-> m[place(h)].field]
  BY DEF Learned, TaughtIn
<1>4. \A h \in DOMAIN learned : place(h) \in TaughtIn(m) /\ t.cols[place(h)] = h /\ learned[h] = m[place(h)].field
  BY <1>3
<1>5. DOMAIN learned # {}
  <2>1. DOMAIN learned = {t.cols[i] : i \in TaughtIn(m)}
    BY <1>3
  <2> HIDE DEF learned
  <2>2. QED
    BY <1>1, <2>1
<1>6. k[1] = [i \in Columns(t) |-> Norm[t.cols[i]]] /\ k[2] = t.client
  BY DEF Fingerprint
<1> HIDE DEF t, m, k, learned, place
<1>7. ASSUME NEW h \in DOMAIN learned
      PROVE  /\ \E i \in DOMAIN k[1] : k[1][i] = Norm[h]
             /\ learned[h] \in Fields
             /\ \A g \in DOMAIN learned \ {h} : learned[g] # learned[h]
             /\ \A i \in DOMAIN k[1] :
                  IF k[1][i] \in DOMAIN Overrides[k[2]] THEN Overrides[k[2]][k[1][i]] # learned[h]
                  ELSE AliasOf(k[1][i]) \notin PriceFields => AliasOf(k[1][i]) # learned[h]
  <2>1. place(h) \in DOMAIN m
    BY <1>4 DEF TaughtIn
  <2>2. \E i \in DOMAIN k[1] : k[1][i] = Norm[h]
    BY <1>1, <1>4, <1>6, <2>1
  <2>3. learned[h] \in Fields
    BY <1>1, <1>4
  <2>4. ASSUME NEW l \in DOMAIN m
        PROVE  Override(t, l) # learned[h] /\ (Named(t, l) => AliasLookup(t.cols[l]) # learned[h])
    <3>1. PICK p \in TaughtIn(m) : p = place(h) /\ learned[h] = m[p].field
      BY <1>4
    <3>2. QED
      BY <1>2, <3>1
  <2>5. ASSUME NEW g \in DOMAIN learned \ {h} PROVE learned[g] # learned[h]
    <3>1. place(g) # place(h) /\ place(g) \in DOMAIN m
      BY <1>4 DEF TaughtIn
    <3>2. place(g) \in Nat /\ place(h) \in Nat
      BY <1>1, <2>1, <3>1, ColumnsAreNats
    <3>3. m[place(g)].field # NoField /\ m[place(h)].field # NoField
      BY <1>1, <1>4, MappingAssumption
    <3>4. m[place(g)].tier = "LLM" /\ m[place(h)].tier = "LLM"
      BY <1>4 DEF TaughtIn
    <3>5. place(g) < place(h) \/ place(h) < place(g)
      BY <3>1, <3>2
    <3>6. QED
      BY <1>1, <1>4, <2>1, <3>1, <3>3, <3>4, <3>5 DEF OneSource
  <2>6. ASSUME NEW i \in DOMAIN k[1], k[1][i] \in DOMAIN Overrides[k[2]]
        PROVE  Overrides[k[2]][k[1][i]] # learned[h]
    <3>1. Override(t, i) = Overrides[k[2]][k[1][i]] /\ i \in DOMAIN m
      BY <1>1, <1>6, <2>6 DEF Override, Learnable
    <3>2. QED
      BY <2>4, <3>1
  <2>7. ASSUME NEW i \in DOMAIN k[1], k[1][i] \notin DOMAIN Overrides[k[2]], AliasOf(k[1][i]) \notin PriceFields
        PROVE  AliasOf(k[1][i]) # learned[h]
    <3>1. Override(t, i) = NoField /\ i \in DOMAIN m
      BY <1>1, <1>6, <2>7 DEF Override
    <3>2. AliasLookup(t.cols[i]) = AliasOf(k[1][i])
      BY <1>6 DEF AliasLookup
    <3>3. CASE AliasOf(k[1][i]) \in Fields
      <4>1. Named(t, i)
        BY <2>7, <3>1, <3>2, <3>3 DEF Named
      <4>2. QED
        BY <2>4, <3>1, <3>2, <4>1
    <3>4. QED
      BY <2>3, <3>3
  <2>8. QED
    BY <2>2, <2>3, <2>5, <2>6, <2>7
<1>8. Fits(k, learned)
  BY <1>5, <1>7 DEF Fits
<1>9. QED
  BY <1>8 DEF k, learned, t, m

LEMMA StoreEffect ==
  ASSUME JobsInv, NEW w \in Workers, Store(w)
  PROVE  /\ OnlyWorker(w) /\ JobInv(job'[w]) /\ Filled(job[w].map, job'[w].map)
         /\ job[w].pc = "store"
         /\ cache' = [k \in DOMAIN cache \cup {Key(w)} |->
                        IF k = Key(w) THEN Learned(job[w].table, job[w].map) ELSE cache[k]]
<1> DEFINE j == job[w]
           k == job'[w]
<1>1. JobInv(j) /\ j.pc = "store"
  BY BusyJob DEF Store
<1>2. job' = [job EXCEPT ![w].pc = "done"]
  BY DEF Store
<1>3. OnlyWorker(w) /\ k = [j EXCEPT !.pc = "done"]
  BY <1>2 DEF OnlyWorker, JobsInv
<1>5. cache' = [l \in DOMAIN cache \cup {Key(w)} |-> IF l = Key(w) THEN Learned(j.table, j.map) ELSE cache[l]]
  BY DEF Store
<1> HIDE DEF k
<1>6. k.map = j.map /\ k.table = j.table /\ k.pc = "done" /\ k.hit = j.hit
  BY <1>1, <1>3 DEF JobInv, JobType
<1>7. JobType(k)
  BY <1>1, <1>3, <1>6 DEF JobInv, JobType
<1>8. Filled(j.map, k.map)
  BY <1>1, <1>6, Untouched DEF JobInv, JobType
<1>9. JobMap(k)
  BY <1>1, <1>6, <1>7, <1>8, FilledJob
<1>10. JobTaught(k)
  BY <1>6 DEF JobTaught
<1>11. QED
  BY <1>1, <1>3, <1>5, <1>7, <1>8, <1>9, <1>10 DEF JobInv, k

----------------------------------------------------------------------------
(* The invariant *)

LEMMA StepKinds ==
  ASSUME JobsInv, Next
  PROVE  \E w \in Workers :
           /\ OnlyWorker(w) /\ JobInv(job'[w])
           /\ job'[w].pc = "lookup" \/ Filled(job[w].map, job'[w].map)
           /\ cache' = cache \/ Store(w)
<1>1. PICK w \in Workers : Start(w) \/ Resolve(w) \/ Crash(w)
  BY DEF Next
<1>2. CASE Start(w) \/ Crash(w)
  BY <1>2, StartEffect
<1>3. CASE LookUp(w)
  BY <1>3, LookUpEffect
<1>4. CASE MatchColumn(w)
  BY <1>4, MatchColumnEffect
<1>5. CASE Escalate(w)
  BY <1>5, EscalateEffect
<1>6. CASE Ask(w)
  BY <1>6, AskEffect
<1>7. CASE Store(w)
  BY <1>7, StoreEffect
<1>8. QED
  BY <1>1, <1>2, <1>3, <1>4, <1>5, <1>6, <1>7 DEF Resolve, Ask

LEMMA JobsStep == JobsInv /\ [Next]_vars => JobsInv'
<1> SUFFICES ASSUME JobsInv, [Next]_vars PROVE JobsInv'
  OBVIOUS
<1>1. CASE UNCHANGED vars
  BY <1>1 DEF vars, JobsInv
<1>2. CASE Next
  BY <1>2, StepKinds DEF JobsInv, OnlyWorker
<1>3. QED
  BY <1>1, <1>2

LEMMA LearnedStep == MappingInv /\ [Next]_vars => LearnedIsSound'
<1> SUFFICES ASSUME MappingInv, [Next]_vars PROVE LearnedIsSound'
  OBVIOUS
<1>1. CASE cache' = cache
  BY <1>1 DEF MappingInv, LearnedIsSound
<1>2. ASSUME NEW w \in Workers, Store(w) PROVE LearnedIsSound'
  <2> DEFINE learned == Learned(job[w].table, job[w].map)
  <2>1. cache' = [k \in DOMAIN cache \cup {Key(w)} |-> IF k = Key(w) THEN learned ELSE cache[k]]
    BY <1>2, StoreEffect DEF MappingInv
  <2>2. JobInv(job[w]) /\ job[w].pc = "store"
    BY <1>2, StoreEffect, BusyJob DEF MappingInv, Store
  <2>3. Fits(Key(w), learned)
    BY <2>2, LessonIsSound DEF Key
  <2> HIDE DEF learned
  <2>4. \A k \in DOMAIN cache' : Fits(k, cache'[k])
    BY <2>1, <2>3 DEF MappingInv, LearnedIsSound
  <2>5. QED
    BY <2>4 DEF LearnedIsSound
<1>3. cache' = cache \/ \E w \in Workers : Store(w)
  <2>1. CASE UNCHANGED vars
    BY <2>1 DEF vars
  <2>2. CASE Next
    BY <2>2, StepKinds DEF MappingInv
  <2>3. QED
    BY <2>1, <2>2
<1>4. QED
  BY <1>1, <1>2, <1>3

LEMMA MappingInvariant == Spec => []MappingInv
<1>1. Init => MappingInv
  BY DEF Init, MappingInv, JobsInv, LearnedIsSound
<1>2. MappingInv /\ [Next]_vars => MappingInv'
  BY JobsStep, LearnedStep DEF MappingInv
<1>3. QED
  BY <1>1, <1>2, PTL DEF Spec

(* No field has two sources, in any table and whatever the model and the cache    *)
(* answer, unless configuration names it (Tier1Mapper.map_table, _claimed).      *)
THEOREM FieldsHaveOneSource == Spec => []FieldHasOneSource
<1>1. MappingInv => FieldHasOneSource
  <2> SUFFICES ASSUME MappingInv, NEW w \in Workers PROVE OneSource(job[w].map)
    BY DEF FieldHasOneSource, OneSource
  <2>1. CASE job[w] = Idle
    BY <2>1 DEF Idle, OneSource
  <2>2. CASE JobInv(job[w])
    BY <2>2 DEF JobInv, JobMap
  <2>3. QED
    BY <2>1, <2>2 DEF MappingInv, JobsInv
<1>2. QED
  BY <1>1, MappingInvariant, PTL

(* The last column of a field is one of its columns, and none comes after it. *)
LEMMA SourceIsLast ==
  ASSUME NEW t \in Tables, NEW m, DOMAIN m = Columns(t), NEW f, \E i \in DOMAIN m : m[i].field = f
  PROVE  /\ SourceOf(m, f) \in DOMAIN m /\ m[SourceOf(m, f)].field = f
         /\ \A i \in DOMAIN m : m[i].field = f => SourceOf(m, f) >= i
<1> DEFINE of == {i \in DOMAIN m : m[i].field = f}
<1>1. of \in SUBSET (0 .. Len(t.cols)) /\ of # {} /\ Len(t.cols) \in Nat
  BY ColumnsAreNats
<1>2. \E i \in of : \A j \in of : i >= j
  BY <1>1, GreatestOfNats
<1>3. SourceOf(m, f) = CHOOSE i \in of : \A j \in of : i >= j
  BY DEF SourceOf
<1>4. SourceOf(m, f) \in of /\ \A j \in of : SourceOf(m, f) >= j
  BY <1>2, <1>3
<1>5. QED
  BY <1>4

(* The record takes every field a client configured, prices aside, from a column  *)
(* the client named (Tier1Mapper.__init__; emit.build_records keeps the last).   *)
THEOREM OverridesReachRecords == Spec => []OverrideReachesRecord
<1>1. MappingInv => OverrideReachesRecord
  <2> SUFFICES ASSUME MappingInv, NEW w \in Workers, NEW f \in Fields \ PriceFields, Overridden(job[w].map, f)
               PROVE  job[w].map[SourceOf(job[w].map, f)].tier = "HUMAN"
    BY DEF OverrideReachesRecord
  <2> DEFINE m == job[w].map
             s == SourceOf(m, f)
  <2>1. PICK i \in DOMAIN m : m[i].field = f /\ m[i].tier = "HUMAN"
    BY DEF Overridden
  <2>2. JobInv(job[w])
    BY <2>1 DEF MappingInv, JobsInv, Idle
  <2>3. job[w].table \in Tables /\ DOMAIN m = Columns(job[w].table) /\ ConfiguredLast(m)
    BY <2>2 DEF JobInv, JobType, JobMap
  <2> HIDE DEF m, s
  <2>4. s \in DOMAIN m /\ m[s].field = f /\ s >= i
    BY <2>1, <2>3, SourceIsLast DEF s
  <2>5. i \in Nat /\ s \in Nat
    BY <2>3, <2>4, ColumnsAreNats
  <2>6. CASE s = i
    BY <2>1, <2>6 DEF m, s
  <2>7. CASE i < s
    <3>1. m[s].tier = "HUMAN"
      BY <2>1, <2>3, <2>4, <2>7 DEF ConfiguredLast
    <3>2. QED
      BY <3>1 DEF m, s
  <2>8. QED
    BY <2>4, <2>5, <2>6, <2>7
<1>2. QED
  BY <1>1, MappingInvariant, PTL

(* What the cache holds for a layout fits it, whatever the model answers and      *)
(* however many workers learn one layout at once: no field twice, and none that   *)
(* configuration or the dictionary gives (_parse, TemplateCache.put).            *)
THEOREM LessonsAreSound == Spec => []LearnedIsSound
<1>1. MappingInv => LearnedIsSound
  BY DEF MappingInv
<1>2. QED
  BY <1>1, MappingInvariant, PTL

(* The escalation is one-way: no tier reopens a column that has its field. *)
THEOREM EscalationIsOneWay == Spec => SettledStaysSettled
<1> DEFINE stays == \A w \in Workers : \A i \in DOMAIN job[w].map :
                      Busy(w) /\ job'[w].pc \notin {"idle", "lookup"} /\ job[w].map[i].field # NoField
                        => job'[w].map[i] = job[w].map[i]
<1>1. MappingInv /\ [Next]_vars => [stays]_vars
  <2> SUFFICES ASSUME JobsInv, Next, NEW w \in Workers, NEW i \in DOMAIN job[w].map,
                      job'[w].pc # "lookup", job[w].map[i].field # NoField
               PROVE  job'[w].map[i] = job[w].map[i]
    BY DEF MappingInv
  <2>1. PICK v \in Workers : /\ OnlyWorker(v)
                             /\ job'[v].pc = "lookup" \/ Filled(job[v].map, job'[v].map)
    BY StepKinds
  <2>2. CASE v = w
    BY <2>1, <2>2 DEF Filled
  <2>3. CASE v # w
    BY <2>1, <2>3 DEF OnlyWorker
  <2>4. QED
    BY <2>2, <2>3
<1>2. QED
  BY <1>1, MappingInvariant, PTL DEF Spec, SettledStaysSettled

----------------------------------------------------------------------------
(* What the calls are paid with *)

FreshAt(w, k) == job[w].pc \in {"local", "ask"} /\ ~ job[w].hit /\ Key(w) = k
StoreAt(w, k) == job[w].pc = "store" /\ Key(w) = k

(* Worker w may have adjudicated k once and for all: what it taught is about to   *)
(* be stored, or k is cached and w is not on its way to the model any more.       *)
SpentAt(w, k) == IF k \in DOMAIN cache THEN ~ FreshAt(w, k) ELSE StoreAt(w, k)

(* Each worker may spend MaxAttempts calls on k, and those of its adjudication in *)
(* progress are spent.                                                          *)
PaidAt(w, n, k) == SpentAt(w, k) \/ (FreshAt(w, k) /\ n <= job[w].attempt)
Paid(k) == {p \in Workers \X (1 .. MaxAttempts) : PaidAt(p[1], p[2], k)}

(* The calls are paid by the adjudications that taught nothing and by Paid. *)
CallsInv ==
  /\ calls \in [Keys -> Nat] /\ fruitless \in [Keys -> Nat]
  /\ \A k \in DOMAIN cache : k[2] # NoClient
  /\ \A w \in Workers : /\ job[w].pc = "ask" => job[w].attempt < MaxAttempts
                        /\ job[w].pc \in {"lookup", "local"} => job[w].attempt = 0
  /\ \A k \in Keys : calls[k] <= MaxAttempts * fruitless[k] + Cardinality(Paid(k))

LEMMA PaidIsFinite ==
  ASSUME NEW Q \in SUBSET (Workers \X (1 .. MaxAttempts))
  PROVE  IsFiniteSet(Q) /\ Cardinality(Q) \in Nat /\ Cardinality(Q) <= MaxAttempts * Cardinality(Workers)
<1> DEFINE P == Workers \X (1 .. MaxAttempts)
<1>1. IsFiniteSet(Workers) /\ MaxAttempts \in Nat /\ Cardinality(Workers) \in Nat
  BY MappingAssumption, FS_CardinalityType
<1>2. IsFiniteSet(1 .. MaxAttempts) /\ Cardinality(1 .. MaxAttempts) = MaxAttempts
  BY <1>1, FS_Interval
<1>3. IsFiniteSet(P) /\ Cardinality(P) = Cardinality(Workers) * MaxAttempts
  BY <1>1, <1>2, FS_Product
<1>4. IsFiniteSet(Q) /\ Cardinality(Q) <= Cardinality(P)
  BY <1>3, FS_Subset
<1>5. Cardinality(Q) \in Nat
  BY <1>4, FS_CardinalityType
<1>6. QED
  BY <1>1, <1>3, <1>4, <1>5

LEMMA PaidGrows ==
  ASSUME NEW R \in SUBSET (Workers \X (1 .. MaxAttempts)), NEW Q \in SUBSET R
  PROVE  Cardinality(Q) <= Cardinality(R)
BY PaidIsFinite, FS_Subset

LEMMA PaidGrowsByOne ==
  ASSUME NEW R \in SUBSET (Workers \X (1 .. MaxAttempts)), NEW Q \in SUBSET R, NEW p \in R \ Q
  PROVE  Cardinality(Q) + 1 <= Cardinality(R)
<1>1. IsFiniteSet(Q) /\ IsFiniteSet(R)
  BY PaidIsFinite, FS_Subset
<1>2. Cardinality(Q \cup {p}) = Cardinality(Q) + 1
  BY <1>1, FS_AddElement
<1>3. Cardinality(Q \cup {p}) <= Cardinality(R)
  BY <1>1, FS_Subset
<1>4. QED
  BY <1>2, <1>3

LEMMA PaidWithout ==
  ASSUME NEW R \in SUBSET (Workers \X (1 .. MaxAttempts)), NEW Q \in SUBSET (Workers \X (1 .. MaxAttempts)),
         NEW w, NEW b \in Nat, \A p \in Q \ R : p[1] = w /\ p[2] \in 1 .. b
  PROVE  Cardinality(Q) <= Cardinality(R) + b
<1> DEFINE L == {w} \X (1 .. b)
<1>1. IsFiniteSet({w}) /\ Cardinality({w}) = 1
  BY FS_Singleton
<1>2. 1 \in Int /\ b \in Int
  OBVIOUS
<1>3. IsFiniteSet(1 .. b) /\ Cardinality(1 .. b) = b
  <2>1. IsFiniteSet(1 .. b) /\ Cardinality(1 .. b) = IF 1 > b THEN 0 ELSE b - 1 + 1
    BY <1>2, FS_Interval
  <2>2. QED
    BY <2>1
<1>4. IsFiniteSet(L) /\ Cardinality(L) = b
  <2> DEFINE A == {w}
             B == 1 .. b
  <2>1. IsFiniteSet(A) /\ IsFiniteSet(B)
    BY <1>1, <1>3
  <2>2. Cardinality(A) = 1 /\ Cardinality(B) = b
    BY <1>1, <1>3
  <2> HIDE DEF A, B
  <2>3. IsFiniteSet(A \X B) /\ Cardinality(A \X B) = Cardinality(A) * Cardinality(B)
    BY <2>1, FS_Product
  <2>4. IsFiniteSet(L) /\ Cardinality(L) = 1 * b
    BY <2>2, <2>3 DEF A, B
  <2>5. QED
    BY <2>4
<1>5. IsFiniteSet(R) /\ Cardinality(R) \in Nat
  BY PaidIsFinite
<1>6. IsFiniteSet(R \cup L) /\ Cardinality(R \cup L) <= Cardinality(R) + b
  <2>1. /\ IsFiniteSet(R \cup L) /\ IsFiniteSet(R \cap L)
        /\ Cardinality(R \cup L) = Cardinality(R) + Cardinality(L) - Cardinality(R \cap L)
    BY <1>4, <1>5, FS_Union, FS_Intersection
  <2>2. Cardinality(R \cap L) \in Nat
    BY <2>1, FS_CardinalityType
  <2>3. QED
    BY <1>4, <1>5, <2>1, <2>2
<1>7. Q \subseteq R \cup L
  <2>1. \A p \in Q \ R : p \in L
    OBVIOUS
  <2>2. QED
    BY <2>1
<1>8. Cardinality(Q) <= Cardinality(R \cup L) /\ Cardinality(Q) \in Nat /\ Cardinality(R \cup L) \in Nat
  BY <1>6, <1>7, PaidIsFinite, FS_Subset, FS_CardinalityType
<1>9. QED
  BY <1>5, <1>6, <1>8

(* What a step of w does for key k: nothing it has paid is lost and a call is     *)
(* paid anew, or an adjudication that taught nothing pays for all of them.       *)
Accounted(w, k) ==
  \/ /\ \A n \in 1 .. MaxAttempts : PaidAt(w, n, k) => PaidAt(w, n, k)'
     /\ \/ calls'[k] = calls[k]
        \/ calls'[k] = calls[k] + 1 /\ \E n \in 1 .. MaxAttempts : ~ PaidAt(w, n, k) /\ PaidAt(w, n, k)'
     /\ fruitless'[k] = fruitless[k]
  \/ /\ fruitless'[k] = fruitless[k] + 1
     /\ \/ calls'[k] = calls[k]
        \/ calls'[k] = calls[k] + 1 /\ ~ PaidAt(w, MaxAttempts, k)

LEMMA OthersStayPaid ==
  ASSUME NEW w \in Workers, OnlyWorker(w), DOMAIN cache \subseteq DOMAIN cache',
         NEW v \in Workers \ {w}, NEW n, NEW k, PaidAt(v, n, k)
  PROVE  PaidAt(v, n, k)'
<1>1. job'[v] = job[v]
  BY DEF OnlyWorker
<1>2. FreshAt(v, k)' = FreshAt(v, k) /\ StoreAt(v, k)' = StoreAt(v, k)
  BY <1>1 DEF FreshAt, StoreAt, Key
<1>3. StoreAt(v, k) => ~ FreshAt(v, k)
  BY DEF StoreAt, FreshAt
<1>4. QED
  BY <1>1, <1>2, <1>3 DEF PaidAt, SpentAt

LEMMA AccountKeeps ==
  ASSUME NEW w \in Workers, OnlyWorker(w), DOMAIN cache \subseteq DOMAIN cache', NEW k \in Keys, Accounted(w, k),
         calls[k] \in Nat, fruitless[k] \in Nat,
         calls[k] <= MaxAttempts * fruitless[k] + Cardinality(Paid(k))
  PROVE  calls'[k] <= MaxAttempts * fruitless'[k] + Cardinality(Paid(k)')
<1> DEFINE W == Workers \X (1 .. MaxAttempts)
           Q == Paid(k)
           R == Paid(k)'
<1>1. Q \in SUBSET W /\ R \in SUBSET W
  BY DEF Paid
<1>2. MaxAttempts \in Nat \ {0} /\ Cardinality(Q) \in Nat /\ Cardinality(R) \in Nat
  BY <1>1, PaidIsFinite, MappingAssumption
<1>3. ASSUME NEW p \in Q \ R PROVE p[1] = w /\ p[2] \in 1 .. MaxAttempts /\ PaidAt(w, p[2], k)
  <2>1. p \in W /\ PaidAt(p[1], p[2], k) /\ ~ PaidAt(p[1], p[2], k)'
    BY <1>3 DEF Paid
  <2>2. p[1] \in Workers /\ p[2] \in 1 .. MaxAttempts
    BY <2>1
  <2>3. p[1] = w
    BY <2>1, <2>2, OthersStayPaid
  <2>4. QED
    BY <2>1, <2>2, <2>3
<1>4. ASSUME \A n \in 1 .. MaxAttempts : PaidAt(w, n, k) => PaidAt(w, n, k)' PROVE Q \subseteq R
  <2> SUFFICES ASSUME NEW p \in Q \ R PROVE FALSE
    OBVIOUS
  <2>1. p[1] = w /\ p[2] \in 1 .. MaxAttempts /\ PaidAt(w, p[2], k)
    BY <1>3
  <2>2. PaidAt(w, p[2], k)'
    BY <1>4, <2>1
  <2>3. p \in R
    BY <1>1, <2>1, <2>2 DEF Paid
  <2>4. QED
    BY <2>3
<1>5. CASE /\ \A n \in 1 .. MaxAttempts : PaidAt(w, n, k) => PaidAt(w, n, k)'
           /\ calls'[k] = calls[k] /\ fruitless'[k] = fruitless[k]
  <2>1. Cardinality(Q) <= Cardinality(R)
    BY <1>1, <1>4, <1>5, PaidGrows
  <2> HIDE DEF Q, R
  <2>2. QED
    BY <1>2, <1>5, <2>1 DEF Q, R
<1>6. CASE /\ \A n \in 1 .. MaxAttempts : PaidAt(w, n, k) => PaidAt(w, n, k)'
           /\ calls'[k] = calls[k] + 1 /\ fruitless'[k] = fruitless[k]
           /\ \E n \in 1 .. MaxAttempts : ~ PaidAt(w, n, k) /\ PaidAt(w, n, k)'
  <2>1. PICK n \in 1 .. MaxAttempts : ~ PaidAt(w, n, k) /\ PaidAt(w, n, k)'
    BY <1>6
  <2>2. <<w, n>> \in R \ Q
    BY <2>1 DEF Paid
  <2>3. Cardinality(Q) + 1 <= Cardinality(R)
    BY <1>1, <1>4, <1>6, <2>2, PaidGrowsByOne
  <2>4. QED
    BY <1>2, <1>6, <2>3
<1>7. CASE fruitless'[k] = fruitless[k] + 1 /\ calls'[k] = calls[k]
  <2>1. Cardinality(Q) <= Cardinality(R) + MaxAttempts
    BY <1>1, <1>2, <1>3, PaidWithout
  <2>2. MaxAttempts * (fruitless[k] + 1) = MaxAttempts * fruitless[k] + MaxAttempts
    BY <1>2
  <2>3. QED
    BY <1>2, <1>7, <2>1, <2>2
<1>8. CASE fruitless'[k] = fruitless[k] + 1 /\ calls'[k] = calls[k] + 1 /\ ~ PaidAt(w, MaxAttempts, k)
  <2>1. \A p \in Q \ R : p[1] = w /\ p[2] \in 1 .. MaxAttempts - 1
    <3> SUFFICES ASSUME NEW p \in Q \ R PROVE p[1] = w /\ p[2] \in 1 .. MaxAttempts - 1
      OBVIOUS
    <3>1. p[1] = w /\ p[2] \in 1 .. MaxAttempts /\ PaidAt(w, p[2], k)
      BY <1>3
    <3>2. ~ PaidAt(w, MaxAttempts, k)
      BY <1>8
    <3>3. MaxAttempts \in Nat \ {0}
      BY <1>2
    <3> HIDE DEF Q, R
    <3>4. p[2] # MaxAttempts /\ p[2] \in 1 .. MaxAttempts /\ p[1] = w
      BY <3>1, <3>2
    <3>5. QED
      BY <3>3, <3>4
  <2>2. MaxAttempts - 1 \in Nat
    BY <1>2
  <2>3. Cardinality(Q) <= Cardinality(R) + (MaxAttempts - 1)
    BY <1>1, <2>1, <2>2, PaidWithout
  <2>4. MaxAttempts * (fruitless[k] + 1) = MaxAttempts * fruitless[k] + MaxAttempts
    BY <1>2
  <2>5. QED
    BY <1>2, <1>8, <2>3, <2>4
<1>9. QED
  BY <1>5, <1>6, <1>7, <1>8 DEF Accounted

(* A worker that is not at k has nothing to do with it. *)
LEMMA Elsewhere ==
  ASSUME NEW w \in Workers, NEW k, Key(w) # k, Key(w)' # k, k \in DOMAIN cache <=> k \in DOMAIN cache'
  PROVE  \A n : PaidAt(w, n, k) => PaidAt(w, n, k)'
BY DEF PaidAt, SpentAt, FreshAt, StoreAt

LEMMA StartAccount ==
  ASSUME JobsInv, CallsInv, NEW w \in Workers, Start(w) \/ Crash(w), NEW k \in Keys
  PROVE  Accounted(w, k) /\ job'[w].attempt = 0 /\ calls' = calls
         /\ fruitless' \in [Keys -> Nat]
<1>1. PICK t \in Tables : job'[w] = Begin(t)
  <2>1. CASE Start(w)
    BY <2>1 DEF Start, JobsInv
  <2>2. CASE Crash(w)
    <3>1. JobInv(job[w])
      BY <2>2, BusyJob DEF Crash
    <3>2. job[w].table \in Tables
      BY <3>1 DEF JobInv, JobType
    <3>3. QED
      BY <2>2, <3>2 DEF Crash, JobsInv
  <2>3. QED
    BY <2>1, <2>2
<1>2. job'[w].pc = "lookup" /\ job'[w].attempt = 0 /\ calls' = calls /\ cache' = cache
  BY <1>1 DEF Begin, Start, Crash
<1>3. \A n : PaidAt(w, n, k)' <=> k \in DOMAIN cache
  BY <1>2 DEF PaidAt, SpentAt, FreshAt, StoreAt
<1>4. \/ job[w].pc \in {"idle", "done", "raised"} /\ fruitless' = fruitless
      \/ /\ job[w].pc \in {"ask", "store"} /\ fruitless' = [fruitless EXCEPT ![Key(w)] = @ + 1]
         /\ Key(w) \in Keys
  <2>1. CASE Start(w)
    BY <2>1 DEF Start
  <2>2. CASE Crash(w)
    <3>1. JobInv(job[w])
      BY <2>2, BusyJob DEF Crash
    <3>2. Key(w) \in Keys
      BY <3>1 DEF JobInv, JobType, Key, Keys
    <3>3. QED
      BY <2>2, <3>2 DEF Crash
  <2>3. QED
    BY <2>1, <2>2
<1>5. CASE job[w].pc \in {"idle", "done", "raised"} /\ fruitless' = fruitless
  <2>1. \A n : PaidAt(w, n, k) <=> k \in DOMAIN cache
    BY <1>5 DEF PaidAt, SpentAt, FreshAt, StoreAt
  <2>2. QED
    BY <1>2, <1>3, <1>5, <2>1 DEF Accounted, CallsInv
<1>6. CASE /\ job[w].pc \in {"ask", "store"} /\ fruitless' = [fruitless EXCEPT ![Key(w)] = @ + 1]
           /\ Key(w) \in Keys
  <2>1. fruitless' \in [Keys -> Nat] /\ (k = Key(w) => fruitless'[k] = fruitless[k] + 1)
        /\ (k # Key(w) => fruitless'[k] = fruitless[k])
    BY <1>6 DEF CallsInv
  <2>2. k # Key(w) => \A n : PaidAt(w, n, k) <=> k \in DOMAIN cache
    BY DEF PaidAt, SpentAt, FreshAt, StoreAt
  <2>3. QED
    BY <1>2, <1>3, <2>1, <2>2 DEF Accounted
<1>7. QED
  BY <1>4, <1>5, <1>6

LEMMA LookUpAccount ==
  ASSUME JobsInv, CallsInv, NEW w \in Workers, LookUp(w), NEW k \in Keys
  PROVE  Accounted(w, k) /\ job'[w].attempt = 0 /\ calls' = calls /\ fruitless' = fruitless
<1> DEFINE j == job[w]
           t == j.table
<1>1. JobInv(j) /\ j.pc = "lookup" /\ j.attempt = 0
  BY BusyJob DEF LookUp, CallsInv
<1>2. /\ job'[w].pc = "local" /\ job'[w].hit = Cached(t) /\ job'[w].table = t /\ job'[w].attempt = j.attempt
      /\ calls' = calls /\ fruitless' = fruitless /\ cache' = cache
  BY <1>1 DEF LookUp, JobsInv, JobInv, JobType
<1>3. k \in DOMAIN cache => ~ FreshAt(w, k)'
  <2> SUFFICES ASSUME k \in DOMAIN cache, Fingerprint(t) = k PROVE Cached(t)
    BY <1>2 DEF FreshAt, Key
  <2>1. k[2] # NoClient /\ k[2] = t.client
    BY DEF CallsInv, Fingerprint
  <2>2. QED
    BY <2>1 DEF Cached, Learnable
<1>4. \A n : PaidAt(w, n, k) => k \in DOMAIN cache
  BY <1>1 DEF PaidAt, SpentAt, FreshAt, StoreAt
<1>5. \A n : PaidAt(w, n, k) => PaidAt(w, n, k)'
  BY <1>2, <1>3, <1>4 DEF PaidAt, SpentAt
<1>6. QED
  BY <1>1, <1>2, <1>5 DEF Accounted

LEMMA LocalAccount ==
  ASSUME JobsInv, CallsInv, NEW w \in Workers, MatchColumn(w) \/ Escalate(w), NEW k \in Keys
  PROVE  /\ Accounted(w, k) /\ job'[w].attempt = 0 /\ calls' = calls /\ fruitless' = fruitless
<1> DEFINE j == job[w]
<1>1. JobInv(j) /\ j.pc = "local" /\ j.attempt = 0
  BY BusyJob DEF MatchColumn, Escalate, CallsInv
<1>2. /\ job'[w].pc \in {"local", "ask", "done"} /\ job'[w].hit = j.hit /\ job'[w].table = j.table
      /\ job'[w].attempt = j.attempt
  <2>1. CASE MatchColumn(w)
    <3>1. PICK i \in Untried(w), up \in Available(w) : \E found :
            job' = [job EXCEPT ![w].tried = i, ![w].up = up, ![w].map[i] = found]
      BY <2>1 DEF MatchColumn
    <3>2. QED
      BY <1>1, <3>1 DEF JobsInv, JobInv, JobType
  <2>2. CASE Escalate(w)
    BY <1>1, <2>2 DEF Escalate, JobsInv, JobInv, JobType
  <2>3. QED
    BY <2>1, <2>2
<1>3. calls' = calls /\ fruitless' = fruitless /\ cache' = cache
  BY DEF MatchColumn, Escalate
<1>4. FreshAt(w, k)' => FreshAt(w, k)
  BY <1>1, <1>2 DEF FreshAt, Key
<1>5. ~ StoreAt(w, k)
  BY <1>1 DEF StoreAt
<1>6. \A n \in 1 .. MaxAttempts : ~ (n <= j.attempt)
  BY <1>1
<1>7. \A n \in 1 .. MaxAttempts : PaidAt(w, n, k) => PaidAt(w, n, k)'
  BY <1>3, <1>4, <1>5, <1>6 DEF PaidAt, SpentAt
<1>8. QED
  BY <1>1, <1>2, <1>3, <1>7 DEF Accounted

LEMMA StoreAccount ==
  ASSUME JobsInv, CallsInv, NEW w \in Workers, Store(w), NEW k \in Keys
  PROVE  Accounted(w, k) /\ calls' = calls /\ fruitless' = fruitless /\ job'[w].pc = "done"
<1> DEFINE j == job[w]
<1>1. JobInv(j) /\ j.pc = "store"
  BY BusyJob DEF Store
<1>2. /\ job'[w].pc = "done" /\ job'[w].table = j.table
      /\ calls' = calls /\ fruitless' = fruitless
      /\ DOMAIN cache' = DOMAIN cache \cup {Key(w)}
  BY <1>1 DEF Store, JobsInv, JobInv, JobType
<1>3. ~ FreshAt(w, k) /\ ~ FreshAt(w, k)'
  BY <1>1, <1>2 DEF FreshAt
<1>4. StoreAt(w, k) => k = Key(w)
  BY DEF StoreAt
<1>5. \A n : PaidAt(w, n, k) => PaidAt(w, n, k)'
  BY <1>2, <1>3, <1>4 DEF PaidAt, SpentAt
<1>6. QED
  BY <1>2, <1>5 DEF Accounted

(* The end of an adjudication, whether its last step was a call or not. *)
LEMMA ConcludeAccount ==
  ASSUME JobsInv, CallsInv, NEW w \in Workers, job[w].pc = "ask", NEW answers, Conclude(w, answers), cache' = cache,
         NEW k \in Keys, calls'[k] = calls[k] \/ (k = Key(w) /\ calls'[k] = calls[k] + 1)
  PROVE  /\ Accounted(w, k) /\ job'[w].pc \in {"store", "done"} /\ fruitless' \in [Keys -> Nat]
<1> DEFINE j == job[w]
           t == j.table
           m == TakeAnswers(t, j.map, answers)
           teaches == Learnable(t) /\ m # j.map
<1>1. JobInv(j) /\ j.pc = "ask" /\ ~ j.hit /\ j.attempt \in Nat /\ j.attempt < MaxAttempts /\ Key(w) \in Keys
  BY BusyJob DEF JobInv, JobType, JobTaught, CallsInv, Key, Keys
<1>2. /\ job' = [job EXCEPT ![w].map = m, ![w].pc = IF teaches THEN "store" ELSE "done"]
      /\ fruitless' = IF teaches THEN fruitless ELSE [fruitless EXCEPT ![Key(w)] = @ + 1]
  BY DEF Conclude
<1> HIDE DEF m
<1>3. job'[w].pc = (IF teaches THEN "store" ELSE "done") /\ job'[w].table = t
  BY <1>1, <1>2 DEF JobsInv, JobInv, JobType
<1> HIDE DEF teaches
<1>4. FreshAt(w, k) <=> k = Key(w)
  BY <1>1 DEF FreshAt
<1>5. ~ StoreAt(w, k) /\ ~ FreshAt(w, k)'
  BY <1>1, <1>3 DEF StoreAt, FreshAt
<1>6. MaxAttempts \in Nat \ {0}
  BY MappingAssumption
<1>7. CASE k # Key(w)
  <2>1. \A n : PaidAt(w, n, k) => PaidAt(w, n, k)'
    BY <1>4, <1>5, <1>7 DEF PaidAt, SpentAt
  <2>2. fruitless'[k] = fruitless[k] /\ fruitless' \in [Keys -> Nat]
    BY <1>1, <1>2, <1>7 DEF CallsInv
  <2>3. QED
    BY <1>3, <1>7, <2>1, <2>2 DEF Accounted
<1>8. CASE k = Key(w)
  <2>1. \A n : PaidAt(w, n, k) <=> n <= j.attempt
    BY <1>4, <1>5, <1>8 DEF PaidAt, SpentAt
  <2>2. ~ PaidAt(w, MaxAttempts, k)
    BY <1>1, <1>6, <2>1
  <2>3. CASE teaches
    <3>1. StoreAt(w, k)'
      BY <1>3, <1>8, <2>3 DEF StoreAt, Key
    <3>2. \A n : PaidAt(w, n, k)'
      BY <1>5, <3>1 DEF PaidAt, SpentAt
    <3>3. fruitless' = fruitless
      BY <1>2, <2>3
    <3>4. MaxAttempts \in 1 .. MaxAttempts
      BY <1>6
    <3>5. QED
      BY <1>3, <2>2, <2>3, <3>2, <3>3, <3>4 DEF Accounted, CallsInv
  <2>4. CASE ~ teaches
    <3>1. fruitless'[k] = fruitless[k] + 1 /\ fruitless' \in [Keys -> Nat]
      BY <1>1, <1>2, <1>8, <2>4 DEF CallsInv
    <3>2. QED
      BY <1>3, <2>2, <2>4, <3>1 DEF Accounted
  <2>5. QED
    BY <2>3, <2>4
<1>9. QED
  BY <1>7, <1>8

(* A call to the model that leads to another one. *)
LEMMA RetryAccount ==
  ASSUME JobsInv, CallsInv, NEW w \in Workers, job[w].pc = "ask", job[w].attempt + 1 < MaxAttempts, Retry(w),
         cache' = cache, NEW k \in Keys, calls'[k] = IF k = Key(w) THEN calls[k] + 1 ELSE calls[k]
  PROVE  /\ Accounted(w, k) /\ job'[w].pc = "ask" /\ job'[w].attempt < MaxAttempts /\ fruitless' = fruitless
<1> DEFINE j == job[w]
<1>1. JobInv(j) /\ ~ j.hit /\ j.attempt \in Nat
  BY BusyJob DEF JobInv, JobType, JobTaught
<1>2. job' = [job EXCEPT ![w].attempt = @ + 1] /\ fruitless' = fruitless
  BY DEF Retry
<1>3. job'[w].pc = "ask" /\ job'[w].table = j.table /\ job'[w].hit = j.hit /\ job'[w].attempt = j.attempt + 1
  BY <1>1, <1>2 DEF JobsInv, JobInv, JobType
<1>4. /\ FreshAt(w, k) <=> k = Key(w)
      /\ FreshAt(w, k)' <=> k = Key(w)
      /\ ~ StoreAt(w, k) /\ ~ StoreAt(w, k)'
  BY <1>1, <1>3 DEF FreshAt, StoreAt, Key
<1>5. CASE k # Key(w)
  <2>1. \A n : PaidAt(w, n, k) => PaidAt(w, n, k)'
    BY <1>4, <1>5 DEF PaidAt, SpentAt
  <2>2. QED
    BY <1>2, <1>3, <1>5, <2>1 DEF Accounted
<1>6. CASE k = Key(w)
  <2>1. \A n : PaidAt(w, n, k) <=> n <= j.attempt
    BY <1>4, <1>6 DEF PaidAt, SpentAt
  <2>2. \A n : PaidAt(w, n, k)' <=> n <= j.attempt + 1
    BY <1>3, <1>4, <1>6 DEF PaidAt, SpentAt
  <2>3. \A n \in 1 .. MaxAttempts : PaidAt(w, n, k) => PaidAt(w, n, k)'
    BY <1>1, <2>1, <2>2
  <2>4. PICK n \in Nat : n = j.attempt + 1 /\ n < MaxAttempts /\ 1 <= n /\ ~ (n <= j.attempt)
    BY <1>1
  <2>5. MaxAttempts \in Nat
    BY MappingAssumption
  <2>6. n \in 1 .. MaxAttempts
    BY <2>4, <2>5
  <2>7. ~ PaidAt(w, n, k) /\ PaidAt(w, n, k)'
    BY <2>1, <2>2, <2>4
  <2>8. QED
    BY <1>2, <1>3, <1>6, <2>3, <2>4, <2>6, <2>7 DEF Accounted
<1>7. QED
  BY <1>5, <1>6

(* An adjudication that raises has taught nothing. *)
LEMMA RaiseAccount ==
  ASSUME JobsInv, CallsInv, NEW w \in Workers, job[w].pc = "ask", Raise(w), cache' = cache,
         NEW k \in Keys, calls'[k] = calls[k] \/ (k = Key(w) /\ calls'[k] = calls[k] + 1)
  PROVE  /\ Accounted(w, k) /\ job'[w].pc = "raised" /\ fruitless' \in [Keys -> Nat]
<1> DEFINE j == job[w]
<1>1. JobInv(j) /\ j.pc = "ask" /\ ~ j.hit /\ j.attempt \in Nat /\ j.attempt < MaxAttempts /\ Key(w) \in Keys
  BY BusyJob DEF JobInv, JobType, JobTaught, CallsInv, Key, Keys
<1>2. job' = [job EXCEPT ![w].pc = "raised"] /\ fruitless' = [fruitless EXCEPT ![Key(w)] = @ + 1]
  BY DEF Raise
<1>3. job'[w].pc = "raised" /\ job'[w].table = j.table
  BY <1>1, <1>2 DEF JobsInv, JobInv, JobType
<1>4. FreshAt(w, k) <=> k = Key(w)
  BY <1>1 DEF FreshAt
<1>5. ~ StoreAt(w, k) /\ ~ FreshAt(w, k)'
  BY <1>1, <1>3 DEF StoreAt, FreshAt
<1>6. fruitless' \in [Keys -> Nat]
  BY <1>1, <1>2 DEF CallsInv
<1>7. CASE k # Key(w)
  <2>1. \A n : PaidAt(w, n, k) => PaidAt(w, n, k)'
    BY <1>4, <1>5, <1>7 DEF PaidAt, SpentAt
  <2>2. fruitless'[k] = fruitless[k]
    BY <1>1, <1>2, <1>7 DEF CallsInv
  <2>3. QED
    BY <1>3, <1>6, <1>7, <2>1, <2>2 DEF Accounted
<1>8. CASE k = Key(w)
  <2>1. \A n : PaidAt(w, n, k) <=> n <= j.attempt
    BY <1>4, <1>5, <1>8 DEF PaidAt, SpentAt
  <2>2. MaxAttempts \in Nat \ {0}
    BY MappingAssumption
  <2>3. ~ PaidAt(w, MaxAttempts, k)
    BY <1>1, <2>1, <2>2
  <2>4. fruitless'[k] = fruitless[k] + 1
    BY <1>1, <1>2, <1>8 DEF CallsInv
  <2>5. QED
    BY <1>3, <1>6, <2>3, <2>4 DEF Accounted
<1>9. QED
  BY <1>7, <1>8

LEMMA AskAccount ==
  ASSUME JobsInv, CallsInv, NEW w \in Workers, Ask(w), NEW k \in Keys
  PROVE  /\ Accounted(w, k) /\ calls' \in [Keys -> Nat] /\ fruitless' \in [Keys -> Nat]
         /\ \/ job'[w].pc \in {"store", "done", "raised"}
            \/ job'[w].pc = "ask" /\ job'[w].attempt < MaxAttempts
<1>1. job[w].pc = "ask" /\ cache' = cache
  BY DEF Ask, AskFake, AskModel, AskWithoutKey
<1>2. Key(w) \in Keys
  BY <1>1, BusyJob DEF JobInv, JobType, Key, Keys
<1>3. CASE AskFake(w)
  <2>1. PICK answers : Conclude(w, answers)
    BY <1>3 DEF AskFake
  <2>2. calls' = calls
    BY <1>3 DEF AskFake
  <2>3. QED
    BY <1>1, <2>1, <2>2, ConcludeAccount DEF CallsInv
<1>4. CASE AskModel(w)
  <2>1. calls' = [calls EXCEPT ![Key(w)] = @ + 1]
    BY <1>4 DEF AskModel
  <2>2. calls' \in [Keys -> Nat] /\ calls'[k] = IF k = Key(w) THEN calls[k] + 1 ELSE calls[k]
    BY <1>2, <2>1 DEF CallsInv
  <2>3. Retry(w) \/ Raise(w) \/ \E answers : Conclude(w, answers)
    BY <1>4 DEF AskModel
  <2>4. (Retry(w) /\ job[w].attempt + 1 < MaxAttempts) \/ Raise(w) \/ \E answers : Conclude(w, answers)
    BY <2>3 DEF Retry
  <2>5. CASE Retry(w) /\ job[w].attempt + 1 < MaxAttempts
    BY <1>1, <2>2, <2>5, RetryAccount DEF CallsInv
  <2>6. ASSUME NEW answers, Conclude(w, answers)
        PROVE  Accounted(w, k) /\ job'[w].pc \in {"store", "done"} /\ fruitless' \in [Keys -> Nat]
    <3>1. calls'[k] = calls[k] \/ (k = Key(w) /\ calls'[k] = calls[k] + 1)
      BY <2>2
    <3>2. QED
      BY <1>1, <2>6, <3>1, ConcludeAccount
  <2>7. CASE Raise(w)
    BY <1>1, <2>2, <2>7, RaiseAccount
  <2>8. QED
    BY <2>2, <2>4, <2>5, <2>6, <2>7
<1>5. CASE AskWithoutKey(w)
  <2>1. Raise(w) /\ calls' = calls
    BY <1>5 DEF AskWithoutKey
  <2>2. QED
    BY <1>1, <2>1, RaiseAccount DEF CallsInv
<1>6. QED
  BY <1>3, <1>4, <1>5 DEF Ask

LEMMA StepAccount ==
  ASSUME JobsInv, CallsInv, NEW w \in Workers, Start(w) \/ Resolve(w) \/ Crash(w), Keys # {}
  PROVE  /\ OnlyWorker(w) /\ DOMAIN cache \subseteq DOMAIN cache'
         /\ \A k \in Keys : Accounted(w, k)
         /\ calls' \in [Keys -> Nat] /\ fruitless' \in [Keys -> Nat]
         /\ job'[w].pc = "ask" => job'[w].attempt < MaxAttempts
         /\ job'[w].pc \in {"lookup", "local"} => job'[w].attempt = 0
<1>1. PICK any \in Keys : TRUE
  OBVIOUS
<1>2. CASE Start(w) \/ Crash(w)
  <2>1. OnlyWorker(w) /\ cache' = cache /\ job'[w].pc = "lookup"
    BY <1>2, StartEffect
  <2>2. job'[w].attempt = 0 /\ calls' = calls /\ fruitless' \in [Keys -> Nat]
    BY <1>1, <1>2, StartAccount
  <2>3. \A k \in Keys : Accounted(w, k)
    BY <1>2, StartAccount
  <2>4. QED
    BY <2>1, <2>2, <2>3 DEF CallsInv
<1>3. CASE LookUp(w)
  <2>1. OnlyWorker(w) /\ cache' = cache /\ MaxAttempts \in Nat \ {0}
    BY <1>3, LookUpEffect, MappingAssumption
  <2>2. \A k \in Keys : Accounted(w, k) /\ job'[w].attempt = 0 /\ calls' = calls /\ fruitless' = fruitless
    BY <1>3, LookUpAccount
  <2>3. QED
    BY <1>1, <2>1, <2>2 DEF CallsInv
<1>4. CASE MatchColumn(w) \/ Escalate(w)
  <2>1. OnlyWorker(w) /\ cache' = cache /\ MaxAttempts \in Nat \ {0}
    BY <1>4, MatchColumnEffect, EscalateEffect, MappingAssumption
  <2>2. \A k \in Keys : Accounted(w, k) /\ job'[w].attempt = 0 /\ calls' = calls /\ fruitless' = fruitless
    BY <1>4, LocalAccount
  <2>3. QED
    BY <1>1, <2>1, <2>2 DEF CallsInv
<1>5. CASE Ask(w)
  <2>1. OnlyWorker(w) /\ cache' = cache
    BY <1>5, AskEffect
  <2>2. \A k \in Keys : Accounted(w, k)
    BY <1>5, AskAccount
  <2>3. /\ calls' \in [Keys -> Nat] /\ fruitless' \in [Keys -> Nat]
        /\ \/ job'[w].pc \in {"store", "done", "raised"}
           \/ job'[w].pc = "ask" /\ job'[w].attempt < MaxAttempts
    BY <1>1, <1>5, AskAccount
  <2>4. QED
    BY <2>1, <2>2, <2>3
<1>6. CASE Store(w)
  <2>1. OnlyWorker(w) /\ DOMAIN cache \subseteq DOMAIN cache'
    BY <1>6, StoreEffect
  <2>2. \A k \in Keys : Accounted(w, k) /\ calls' = calls /\ fruitless' = fruitless /\ job'[w].pc = "done"
    BY <1>6, StoreAccount
  <2>3. QED
    BY <1>1, <2>1, <2>2 DEF CallsInv
<1>7. QED
  BY <1>2, <1>3, <1>4, <1>5, <1>6 DEF Resolve, Ask

(* Only files of a known client are learned from. *)
LEMMA CachedHaveClients ==
  ASSUME JobsInv, CallsInv, Next, NEW k \in DOMAIN cache'
  PROVE  k[2] # NoClient
<1>1. PICK w \in Workers : cache' = cache \/ Store(w)
  BY StepKinds
<1>2. CASE cache' = cache
  BY <1>2 DEF CallsInv
<1>3. CASE Store(w)
  <2>1. k \in DOMAIN cache \/ k = Key(w)
    <3> DEFINE learned == Learned(job[w].table, job[w].map)
    <3>1. cache' = [l \in DOMAIN cache \cup {Key(w)} |-> IF l = Key(w) THEN learned ELSE cache[l]]
      BY <1>3, StoreEffect
    <3> HIDE DEF learned
    <3>2. DOMAIN cache' = DOMAIN cache \cup {Key(w)}
      BY <3>1
    <3>3. QED
      BY <3>2
  <2>2. Learnable(job[w].table)
    BY <1>3, BusyJob DEF Store, JobInv, JobTaught
  <2>3. Key(w)[2] = job[w].table.client
    BY DEF Key, Fingerprint
  <2>4. QED
    BY <2>1, <2>2, <2>3 DEF CallsInv, Learnable
<1>4. QED
  BY <1>1, <1>2, <1>3

LEMMA CallsStep == JobsInv /\ CallsInv /\ [Next]_vars => CallsInv'
<1> SUFFICES ASSUME JobsInv, CallsInv, [Next]_vars PROVE CallsInv'
  OBVIOUS
<1>1. CASE UNCHANGED vars
  BY <1>1 DEF vars, CallsInv, Paid, PaidAt, SpentAt, FreshAt, StoreAt, Key
<1>2. CASE Next
  <2>1. PICK w \in Workers : Start(w) \/ Resolve(w) \/ Crash(w)
    BY <1>2 DEF Next
  <2>2. Keys # {}
    <3>1. Tables # {}
      <4>1. CASE job[w].pc = "idle"
        BY <2>1, <4>1 DEF Start, Resolve, LookUp, MatchColumn, Escalate, AskFake, AskModel, AskWithoutKey, Store, Crash
      <4>2. CASE job[w].pc # "idle"
        BY <4>2, BusyJob DEF JobInv, JobType
      <4>3. QED
        BY <4>1, <4>2
    <3>2. QED
      BY <3>1 DEF Keys
  <2>3. /\ OnlyWorker(w) /\ DOMAIN cache \subseteq DOMAIN cache'
        /\ \A k \in Keys : Accounted(w, k)
        /\ calls' \in [Keys -> Nat] /\ fruitless' \in [Keys -> Nat]
        /\ job'[w].pc = "ask" => job'[w].attempt < MaxAttempts
        /\ job'[w].pc \in {"lookup", "local"} => job'[w].attempt = 0
    BY <2>1, <2>2, StepAccount
  <2>4. \A k \in Keys : calls'[k] <= MaxAttempts * fruitless'[k] + Cardinality(Paid(k)')
    BY <2>3, AccountKeeps DEF CallsInv
  <2>5. \A v \in Workers : /\ job'[v].pc = "ask" => job'[v].attempt < MaxAttempts
                           /\ job'[v].pc \in {"lookup", "local"} => job'[v].attempt = 0
    BY <2>3 DEF CallsInv, OnlyWorker
  <2>6. \A k \in DOMAIN cache' : k[2] # NoClient
    BY <1>2, CachedHaveClients
  <2>7. QED
    BY <2>3, <2>4, <2>5, <2>6 DEF CallsInv
<1>3. QED
  BY <1>1, <1>2

(* A layout costs at most one adjudication per worker, and one more for each that *)
(* taught nothing, however often the layout comes, workers race for it or die    *)
(* (NFR-8; ClaudeAdjudicator.adjudicate, TemplateCache).                         *)
THEOREM CallsAreBounded == Spec => []CallsBounded
<1>1. Init => CallsInv
  <2> SUFFICES ASSUME Init, NEW k \in Keys PROVE 0 <= MaxAttempts * 0 + Cardinality(Paid(k))
    BY DEF Init, CallsInv, Idle
  <2>1. Cardinality(Paid(k)) \in Nat
    BY PaidIsFinite DEF Paid
  <2>2. QED
    BY <2>1, MappingAssumption
<1>2. MappingInv => JobsInv
  BY DEF MappingInv
<1>3. CallsInv => CallsBounded
  <2> SUFFICES ASSUME CallsInv, NEW k \in Keys
               PROVE  calls[k] <= MaxAttempts * (Cardinality(Workers) + fruitless[k])
    BY DEF CallsBounded
  <2> DEFINE n == Cardinality(Paid(k))
             c == Cardinality(Workers)
  <2>1. n \in Nat /\ n <= MaxAttempts * c
    BY PaidIsFinite DEF Paid
  <2>2. calls[k] \in Nat /\ fruitless[k] \in Nat /\ calls[k] <= MaxAttempts * fruitless[k] + n
    BY DEF CallsInv
  <2>3. c \in Nat /\ MaxAttempts \in Nat
    BY FS_CardinalityType, MappingAssumption
  <2> HIDE DEF n, c
  <2>4. MaxAttempts * (c + fruitless[k]) = MaxAttempts * c + MaxAttempts * fruitless[k]
    BY <2>2, <2>3
  <2>5. calls[k] <= MaxAttempts * (c + fruitless[k])
    BY <2>1, <2>2, <2>3, <2>4
  <2>6. QED
    BY <2>5 DEF c
<1>4. QED
  BY <1>1, <1>2, <1>3, CallsStep, MappingInvariant, PTL DEF Spec

==============================================================================
