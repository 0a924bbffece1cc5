--------------------------- MODULE InspectorProofs ---------------------------
(***************************************************************************)
(* What the Inspector dispatches, for every registry, file, outcome of the *)
(* mapping, calendar and number of crashes and midnights.                  *)
(*                                                                         *)
(* Arithmetic first: the coverage of the required fields is at most 1, so  *)
(* what the other two judgements may lack and still reach the dispatch     *)
(* threshold is known.  Then what a sub-batch owes to its file alone and   *)
(* what to the clock.  Last the consumer: everything published is a        *)
(* sub-batch of its arrival, as some day saw it.                           *)
(***************************************************************************)
EXTENDS Inspector, FiniteSetTheorems, WellFoundedInduction, NaturalsInduction, TLAPS

----------------------------------------------------------------------------
(* Naturals and ranks *)

(* A set of naturals that is not empty has a least element. *)
LEMMA LeastOfNats ==
  ASSUME NEW S \in SUBSET Nat, S # {}
  PROVE  \E n \in S : \A k \in S : n <= k
<1> DEFINE R == OpToRel(<, Nat)
<1>1. R = {p \in Nat \X Nat : p[1] < p[2]}
  BY DEF OpToRel
<1>2. IsWellFoundedOn(R, Nat)
  BY NatLessThanWellFounded
<1> HIDE DEF R
<1>3. PICK n \in S : \A k \in S : ~ (<<k, n>> \in R)
  BY <1>2, WFMin
<1>4. ASSUME NEW k \in S PROVE n <= k
  <2>1. <<k, n>> \in Nat \X Nat /\ ~ (k < n)
    BY <1>1, <1>3
  <2> QED BY <2>1
<1> QED BY <1>4

(* A set of naturals without a first member has none. *)
LEMMA NoFirst ==
  ASSUME NEW S \in SUBSET Nat, 0 \notin S, \A k \in Nat \ S : k + 1 \notin S
  PROVE  S = {}
<1> SUFFICES ASSUME S # {} PROVE FALSE
  OBVIOUS
<1>1. PICK n \in S : \A k \in S : n <= k
  BY LeastOfNats
<1>2. n \in Nat /\ n # 0
  BY <1>1
<1>3. n - 1 \in Nat /\ n - 1 \notin S /\ (n - 1) + 1 = n
  BY <1>1, <1>2
<1> QED BY <1>1, <1>3

(* How many have a key up to that of g. *)
RankIn(S, key, g) == Cardinality({h \in S : key[h] <= key[g]})

(* Of n things with different keys, one has the k-th key. *)
LEMMA RankExists ==
  ASSUME NEW S, IsFiniteSet(S), NEW key \in [S -> Int],
         \A g, h \in S : key[g] = key[h] => g = h,
         NEW k \in 1 .. Cardinality(S)
  PROVE  \E g \in S : RankIn(S, key, g) = k
<1> DEFINE upTo(g) == {h \in S : key[h] <= key[g]}
           n == Cardinality(S)
           rank == [g \in S |-> Cardinality(upTo(g))]
<1>1. n \in Nat
  BY FS_CardinalityType
<1>2. ASSUME NEW g \in S PROVE IsFiniteSet(upTo(g)) /\ Cardinality(upTo(g)) \in 1 .. n
  <2>1. IsFiniteSet(upTo(g)) /\ Cardinality(upTo(g)) <= n
    BY FS_Subset
  <2>2. Cardinality(upTo(g)) \in Nat /\ upTo(g) # {}
    BY <2>1, FS_CardinalityType
  <2>3. Cardinality(upTo(g)) # 0
    BY <2>1, <2>2, FS_EmptySet
  <2> QED BY <1>1, <2>1, <2>2, <2>3
<1>3. ASSUME NEW g \in S, NEW h \in S, rank[g] = rank[h] PROVE g = h
  <2>1. ASSUME NEW x \in S, NEW y \in S, rank[x] = rank[y], key[x] <= key[y] PROVE x = y
    <3>1. upTo(x) \subseteq upTo(y)
      BY <2>1
    <3>2. IsFiniteSet(upTo(y)) /\ Cardinality(upTo(x)) = Cardinality(upTo(y))
      BY <1>2, <2>1
    <3>3. upTo(x) = upTo(y)
      BY <3>1, <3>2, FS_Subset
    <3>4. y \in upTo(x)
      BY <3>3
    <3> QED BY <2>1, <3>4
  <2> QED BY <1>3, <2>1
<1>4. rank \in Injection(S, 1 .. n)
  <2>1. rank \in [S -> 1 .. n]
    BY <1>2
  <2> HIDE DEF rank
  <2> QED BY <1>3, <2>1 DEF Injection, IsInjective
<1>5. IsFiniteSet(1 .. n) /\ Cardinality(1 .. n) = n
  BY <1>1, FS_Interval
<1> HIDE DEF rank
<1>6. rank \in Surjection(S, 1 .. n)
  BY <1>4, <1>5, FS_Injection
<1>7. PICK g \in S : rank[g] = k
  BY <1>6 DEF Surjection
<1> QED BY <1>7 DEF rank, RankIn

(* A finite set of naturals that is not empty has a greatest element. *)
LEMMA GreatestOfNats ==
  ASSUME NEW S \in SUBSET Nat, IsFiniteSet(S), S # {}
  PROVE  \E g \in S : \A h \in S : g >= h
<1> DEFINE key == [g \in S |-> g]
<1>1. Cardinality(S) \in Nat /\ Cardinality(S) # 0
  BY FS_CardinalityType, FS_EmptySet
<1>2. key \in [S -> Int] /\ \A g, h \in S : key[g] = key[h] => g = h
  OBVIOUS
<1>3. Cardinality(S) \in 1 .. Cardinality(S)
  BY <1>1
<1> HIDE DEF key
<1>4. PICK g \in S : RankIn(S, key, g) = Cardinality(S)
  BY <1>2, <1>3, RankExists
<1>5. {h \in S : key[h] <= key[g]} = S
  BY <1>4, FS_Subset DEF RankIn
<1> QED BY <1>5 DEF key

----------------------------------------------------------------------------
(* Coverage *)

(* The partial sums of a sequence exist. *)
LEMMA PartialSums ==
  ASSUME NEW n \in Nat, NEW s \in [1 .. n -> Int]
  PROVE  \E f \in [0 .. n -> Int] : f[0] = 0 /\ \A k \in 1 .. n : f[k] = f[k - 1] + s[k]
<1> DEFINE Sums(m, f) == f \in [0 .. m -> Int] /\ f[0] = 0 /\ \A k \in 1 .. m : f[k] = f[k - 1] + s[k]
           Short == {m \in Nat : m <= n /\ ~ \E f : Sums(m, f)}
<1>1. 0 \notin Short
  <2>1. Sums(0, [k \in 0 .. 0 |-> 0])
    OBVIOUS
  <2> QED BY <2>1
<1>2. ASSUME NEW m \in Nat \ Short PROVE m + 1 \notin Short
  <2> SUFFICES ASSUME m + 1 <= n PROVE \E f : Sums(m + 1, f)
    OBVIOUS
  <2>1. PICK f : Sums(m, f)
    BY <1>2
  <2> DEFINE g == [k \in 0 .. m + 1 |-> IF k = m + 1 THEN f[m] + s[m + 1] ELSE f[k]]
  <2>2. f[m] \in Int /\ s[m + 1] \in Int
    BY <2>1
  <2>3. g \in [0 .. m + 1 -> Int] /\ g[0] = 0
    <3>1. ASSUME NEW k \in 0 .. m + 1, k # m + 1 PROVE f[k] \in Int
      <4>1. k \in 0 .. m
        BY <3>1
      <4> QED BY <2>1, <4>1
    <3>2. 0 \in 0 .. m + 1 /\ 0 # m + 1 /\ f[0] = 0
      BY <2>1
    <3> QED BY <2>2, <3>1, <3>2
  <2>4. ASSUME NEW k \in 1 .. m + 1 PROVE g[k] = g[k - 1] + s[k]
    <3>1. k - 1 \in 0 .. m + 1 /\ k - 1 # m + 1 /\ k \in 0 .. m + 1
      OBVIOUS
    <3>2. g[k - 1] = f[k - 1] /\ g[k] = IF k = m + 1 THEN f[m] + s[m + 1] ELSE f[k]
      BY <3>1
    <3>3. CASE k = m + 1
      <4>1. k - 1 = m
        BY <3>3
      <4> QED BY <3>2, <3>3, <4>1
    <3>4. CASE k # m + 1
      <4>1. k \in 1 .. m
        BY <3>4
      <4> QED BY <2>1, <3>2, <3>4, <4>1
    <3> QED BY <3>3, <3>4
  <2>5. Sums(m + 1, g)
    BY <2>3, <2>4
  <2> HIDE DEF g
  <2> QED BY <2>5
<1>3. Short \in SUBSET Nat
  OBVIOUS
<1> HIDE DEF Short
<1>4. Short = {}
  BY <1>1, <1>2, <1>3, NoFirst
<1>5. \E f : Sums(n, f)
  <2> HIDE DEF Sums
  <2> SUFFICES ASSUME ~ \E f : Sums(n, f) PROVE n \in Short
    BY <1>4
  <2> QED BY DEF Short
<1>6. PICK f : Sums(n, f)
  BY <1>5
<1> QED BY <1>6

(* SumOf is the last of them. *)
LEMMA SumIs ==
  ASSUME NEW n \in Nat, NEW s \in [1 .. n -> Int], Len(s) = n
  PROVE  \E f \in [0 .. n -> Int] :
           f[0] = 0 /\ (\A k \in 1 .. n : f[k] = f[k - 1] + s[k]) /\ SumOf(s) = f[n]
<1> DEFINE Sums(f) == f = [k \in 0 .. Len(s) |-> IF k = 0 THEN 0 ELSE f[k - 1] + s[k]]
<1>1. PICK f \in [0 .. n -> Int] : f[0] = 0 /\ \A k \in 1 .. n : f[k] = f[k - 1] + s[k]
  BY PartialSums
<1>2. f = [k \in 0 .. n |-> IF k = 0 THEN 0 ELSE f[k - 1] + s[k]]
  <2>1. ASSUME NEW k \in 0 .. n PROVE f[k] = IF k = 0 THEN 0 ELSE f[k - 1] + s[k]
    <3>1. k = 0 \/ k \in 1 .. n
      OBVIOUS
    <3> QED BY <1>1, <3>1
  <2> QED BY <2>1
<1>3. Sums(f)
  BY <1>2
<1> DEFINE c == CHOOSE g : Sums(g)
<1>4. SumOf(s) = c[Len(s)]
  BY DEF SumOf
<1> HIDE DEF Sums
<1>5. Sums(c)
  BY <1>3, Zenon
<1> HIDE DEF c
<1>6. c = [k \in 0 .. n |-> IF k = 0 THEN 0 ELSE c[k - 1] + s[k]]
  BY <1>5 DEF Sums
<1>7. \A k \in 0 .. n : c[k] = IF k = 0 THEN 0 ELSE c[k - 1] + s[k]
  BY <1>6
<1>8. c[0] = 0 /\ \A k \in 1 .. n : c[k] = c[k - 1] + s[k]
  BY <1>7
<1>9. ASSUME NEW k \in 0 .. n PROVE c[k] = f[k]
  <2> DEFINE Differ == {j \in Nat : j <= n /\ c[j] # f[j]}
  <2>1. 0 \notin Differ /\ Differ \in SUBSET Nat
    BY <1>1, <1>8
  <2>2. ASSUME NEW j \in Nat \ Differ PROVE j + 1 \notin Differ
    <3> SUFFICES ASSUME j + 1 <= n PROVE c[j + 1] = f[j + 1]
      OBVIOUS
    <3>1. j + 1 \in 1 .. n /\ (j + 1) - 1 = j /\ c[j] = f[j]
      BY <2>2
    <3> QED BY <1>1, <1>8, <3>1
  <2> HIDE DEF Differ
  <2>3. Differ = {}
    BY <2>1, <2>2, NoFirst
  <2> QED BY <2>3 DEF Differ
<1>10. Len(s) = n /\ n \in 0 .. n /\ c[n] = f[n]
  BY <1>9
<1>11. SumOf(s) = f[n]
  BY <1>4, <1>10
<1> QED BY <1>1, <1>11


(* The n terms of s are at most 1000 times the positive ones of t. *)
Dominated(n, s, t) ==
  /\ s \in [1 .. n -> Int] /\ Len(s) = n
  /\ t \in [1 .. n -> Int] /\ Len(t) = n
  /\ \A i \in 1 .. n : 0 <= s[i] /\ s[i] <= 1000 * t[i] /\ 1 <= t[i]

(* Sums compare as their terms do. *)
LEMMA SumsCompare ==
  ASSUME NEW n \in Nat, NEW s, NEW t, Dominated(n, s, t)
  PROVE  /\ SumOf(s) \in Nat /\ SumOf(t) \in Nat
         /\ SumOf(s) <= 1000 * SumOf(t) /\ n <= SumOf(t)
<1> USE DEF Dominated
<1>1. PICK f \in [0 .. n -> Int] :
        f[0] = 0 /\ (\A k \in 1 .. n : f[k] = f[k - 1] + s[k]) /\ SumOf(s) = f[n]
  BY SumIs
<1>2. PICK g \in [0 .. n -> Int] :
        g[0] = 0 /\ (\A k \in 1 .. n : g[k] = g[k - 1] + t[k]) /\ SumOf(t) = g[n]
  BY SumIs
<1> DEFINE Fine(k) == 0 <= f[k] /\ f[k] <= 1000 * g[k] /\ k <= g[k]
           Off == {k \in Nat : k <= n /\ ~Fine(k)}
<1>3. 0 \notin Off /\ Off \in SUBSET Nat
  BY <1>1, <1>2
<1>4. ASSUME NEW k \in Nat \ Off PROVE k + 1 \notin Off
  <2> SUFFICES ASSUME k + 1 <= n PROVE Fine(k + 1)
    OBVIOUS
  <2>1. k + 1 \in 1 .. n /\ (k + 1) - 1 = k /\ k \in 0 .. n /\ Fine(k)
    BY <1>4
  <2>2. f[k + 1] = f[k] + s[k + 1] /\ g[k + 1] = g[k] + t[k + 1]
    BY <1>1, <1>2, <2>1
  <2>3. /\ f[k] \in Int /\ g[k] \in Int /\ s[k + 1] \in Int /\ t[k + 1] \in Int
        /\ 0 <= s[k + 1] /\ s[k + 1] <= 1000 * t[k + 1] /\ 1 <= t[k + 1]
    BY <2>1
  <2>5. 0 <= f[k] /\ f[k] <= 1000 * g[k] /\ k <= g[k]
    BY <2>1
  <2>6. /\ 0 <= f[k] + s[k + 1] /\ f[k] + s[k + 1] <= 1000 * (g[k] + t[k + 1])
        /\ k + 1 <= g[k] + t[k + 1]
    <3> DEFINE a == f[k]
               b == g[k]
               c == s[k + 1]
               d == t[k + 1]
    <3>1. /\ a \in Int /\ b \in Int /\ c \in Int /\ d \in Int
          /\ 0 <= a /\ a <= 1000 * b /\ k <= b /\ 0 <= c /\ c <= 1000 * d /\ 1 <= d
      BY <2>3, <2>5
    <3> HIDE DEF a, b, c, d
    <3>2. 0 <= a + c /\ a + c <= 1000 * (b + d) /\ k + 1 <= b + d
      BY <3>1
    <3> QED BY <3>2 DEF a, b, c, d
  <2> QED BY <2>2, <2>6
<1> HIDE DEF Off
<1>5. Off = {}
  BY <1>3, <1>4, NoFirst
<1>6. n \in 0 .. n /\ Fine(n)
  <2> HIDE DEF Fine
  <2> SUFFICES ASSUME ~Fine(n) PROVE n \in Off
    BY <1>5
  <2> QED BY DEF Off
<1> QED BY <1>1, <1>2, <1>6

(* Half up: the quotient is within half of the fraction. *)
LEMMA RoundDivBounds ==
  ASSUME NEW a \in Int, NEW b \in Nat, b > 0
  PROVE  /\ RoundDiv(a, b) \in Int
         /\ (2 * b) * RoundDiv(a, b) <= 2 * a + b
<1> DEFINE q == (2 * a + b) \div (2 * b)
<1>1. 2 * a + b \in Int /\ 2 * b \in Nat /\ 2 * b > 0
  OBVIOUS
<1>2. \A x \in Int : \A y \in Nat : y > 0 => x \div y \in Int /\ y * (x \div y) <= x
  OBVIOUS
<1>3. q \in Int /\ (2 * b) * q <= 2 * a + b
  BY <1>1, <1>2
<1> QED BY <1>3 DEF RoundDiv

(* What was earned is no more than all there is. *)
LEMMA CoverageBound ==
  ASSUME NEW outcome \in Outcomes, NEW domain \in Domains
  PROVE  MappingCoverage(outcome, domain) \in Int /\ MappingCoverage(outcome, domain) <= 10000
<1> DEFINE required == Required[domain]
           n == Len(required)
           weights == [i \in DOMAIN required |-> FieldWeight[required[i]]]
           earned == [i \in DOMAIN required |-> FieldWeight[required[i]] * outcome[required[i]]]
<1>1. required \in Seq(Fields) /\ n \in Nat /\ DOMAIN required = 1 .. n
  BY ConfigurationAssumption
<1>2. ASSUME NEW i \in 1 .. n
      PROVE  /\ weights[i] \in Int /\ earned[i] \in Int
             /\ 0 <= earned[i] /\ earned[i] <= 1000 * weights[i] /\ 1 <= weights[i]
  <2>1. required[i] \in Fields
    BY <1>1
  <2>2. FieldWeight[required[i]] \in Nat \ {0} /\ outcome[required[i]] \in 0 .. 1000
    BY <2>1, ConfigurationAssumption
  <2>4. weights[i] = FieldWeight[required[i]] /\ earned[i] = FieldWeight[required[i]] * outcome[required[i]]
    BY <1>1
  <2>5. /\ FieldWeight[required[i]] * outcome[required[i]] \in Int
        /\ 0 <= FieldWeight[required[i]] * outcome[required[i]]
        /\ FieldWeight[required[i]] * outcome[required[i]] <= 1000 * FieldWeight[required[i]]
    <3> DEFINE u == FieldWeight[required[i]]
               o == outcome[required[i]]
    <3>1. u \in Nat \ {0} /\ o \in 0 .. 1000
      BY <2>2
    <3> HIDE DEF u, o
    <3>2. u * o \in Int /\ 0 <= u * o /\ u * o <= 1000 * u
      BY <3>1
    <3> QED BY <3>2 DEF u, o
  <2> HIDE DEF weights, earned
  <2> QED BY <2>2, <2>4, <2>5
<1> DEFINE e == SumOf(earned)
           w == SumOf(weights)
<1>3. MappingCoverage(outcome, domain) = IF required = <<>> THEN 10000 ELSE RoundDiv(10 * e, w)
  BY DEF MappingCoverage
<1>4. /\ DOMAIN weights = 1 .. n /\ weights = [i \in 1 .. n |-> weights[i]]
      /\ DOMAIN earned = 1 .. n /\ earned = [i \in 1 .. n |-> earned[i]]
  BY <1>1
<1> HIDE DEF weights, earned, n
<1>5. Dominated(n, earned, weights)
  <2>1. weights \in [1 .. n -> Int] /\ earned \in [1 .. n -> Int]
    BY <1>2, <1>4
  <2>2. weights \in Seq(Int) /\ earned \in Seq(Int)
    BY <1>1, <2>1
  <2> QED BY <1>1, <1>2, <1>4, <2>1, <2>2 DEF Dominated
<1>6. e \in Nat /\ w \in Nat /\ e <= 1000 * w /\ n <= w
  BY <1>1, <1>5, SumsCompare
<1>7. CASE required = <<>>
  BY <1>3, <1>7
<1>8. CASE required # <<>>
  <2>1. n > 0
    BY <1>1, <1>8 DEF n
  <2> HIDE DEF e, w, n
  <2>2. w > 0 /\ 10 * e \in Int
    BY <1>1, <1>6, <2>1
  <2> DEFINE c == RoundDiv(10 * e, w)
  <2>3. c \in Int /\ (2 * w) * c <= 2 * (10 * e) + w
    BY <1>6, <2>2, RoundDivBounds
  <2> HIDE DEF c
  <2>4. ASSUME c > 10000 PROVE FALSE
    <3>1. (2 * w) * 10001 <= (2 * w) * c
      BY <1>6, <2>2, <2>3, <2>4
    <3>2. (2 * w) * 10001 = 20002 * w /\ 2 * (10 * e) <= 20000 * w
      BY <1>6
    <3>3. (2 * w) * 10001 <= 2 * (10 * e) + w
      BY <1>6, <2>3, <3>1
    <3> QED BY <1>6, <2>2, <3>2, <3>3
  <2>5. c \in Int /\ c <= 10000
    BY <2>3, <2>4
  <2> QED BY <1>3, <1>8, <2>5 DEF c
<1> QED BY <1>7, <1>8


----------------------------------------------------------------------------
(* Dispatch *)

(* The threshold is above what a file without a day of its own, or with evidence  *)
(* that contradicts itself, can score; the code's default is 8500.                *)
Strict == DispatchAt \in Int /\ DispatchAt > 8390

(* A dispatched sub-batch has a client, and confidence in client and day.  *)
LEMMA DispatchNeeds ==
  ASSUME Strict, NEW a, NEW d, NEW outcome \in Outcomes,
         a.conf \in Int, d.conf \in Int, a.domain \in Domains,
         Route(a, d, outcome) = "DISPATCHED"
  PROVE  a.client # Nobody /\ a.conf + d.conf >= 1541
<1> DEFINE c == MappingCoverage(outcome, a.domain)
           n == 35 * a.conf + 35 * d.conf + 3 * c
           overall == Overall(a, d, outcome)
<1>1. c \in Int /\ c <= 10000
  BY CoverageBound
<1>2. overall = RoundDiv(n, 10)
  BY DEF Overall
<1>3. a.client # Nobody /\ overall >= DispatchAt
  BY DEF Route
<1> HIDE DEF overall, c
<1>4. overall \in Int /\ (2 * 10) * overall <= 2 * n + 10
  <2>1. n \in Int /\ 10 \in Nat /\ 10 > 0
    BY <1>1
  <2> HIDE DEF n
  <2> QED BY <1>2, <2>1, RoundDivBounds
<1>5. overall >= 8391
  BY <1>3, <1>4 DEF Strict
<1>6. a.conf + d.conf >= 1541
  BY <1>1, <1>4, <1>5
<1> QED BY <1>3, <1>6

----------------------------------------------------------------------------
(* Attribution *)

(* The registry is a list. *)
LEMMA ClientsAreFinite ==
  /\ IsFiniteSet(Clients)
  /\ DOMAIN ClientOrder \subseteq Nat /\ IsFiniteSet(DOMAIN ClientOrder)
<1>1. Len(ClientOrder) \in Nat /\ DOMAIN ClientOrder = 1 .. Len(ClientOrder)
  BY ConfigurationAssumption
<1>2. IsFiniteSet(DOMAIN ClientOrder)
  BY <1>1, FS_Interval
<1>3. ClientOrder \in Surjection(DOMAIN ClientOrder, Clients)
  <2>1. ClientOrder \in [DOMAIN ClientOrder -> Clients]
    BY ConfigurationAssumption
  <2>2. \A c \in Clients : \E k \in DOMAIN ClientOrder : ClientOrder[k] = c
    BY DEF Clients
  <2> QED BY <2>1, <2>2 DEF Surjection
<1> QED BY <1>1, <1>2, <1>3, FS_Surjection

(* An account's owner is a client. *)
LEMMA OwnersAreClients ==
  ASSUME NEW table
  PROVE  \A x \in FindAccountIds(table) : Owner[x] \in Clients
<1> SUFFICES ASSUME NEW x \in FindAccountIds(table) PROVE Owner[x] \in Clients
  OBVIOUS
<1> DEFINE holders == {k \in DOMAIN ClientOrder : x \in Accounts[ClientOrder[k]]}
           last == CHOOSE k \in holders : \A j \in holders : k >= j
<1>1. x \in DOMAIN Owner
  BY DEF FindAccountIds
<1>2. x \in UNION {Accounts[c] : c \in Clients} /\ Owner[x] = ClientOrder[last]
  BY <1>1 DEF Owner
<1>3. holders # {} /\ holders \in SUBSET Nat /\ IsFiniteSet(holders)
  BY <1>2, ClientsAreFinite, FS_Subset DEF Clients
<1> HIDE DEF holders
<1>4. last \in holders
  BY <1>3, GreatestOfNats
<1> QED BY <1>2, <1>4 DEF holders, Clients

(* What a name says is of a client, or of nobody. *)
LEMMA HintIs ==
  ASSUME NEW name
  PROVE  LET hint == MatchFilename(name)
         IN  hint.client \in Clients \cup {Nobody} /\ hint.domain \in Domains
<1> DEFINE hits == {k \in DOMAIN ClientOrder : ClientOrder[k] \in name.matches}
           client == ClientOrder[Least(hits)]
<1>1. CASE hits = {}
  BY <1>1, ConfigurationAssumption DEF MatchFilename
<1>2. CASE hits # {}
  <2>1. hits \in SUBSET Nat
    BY ClientsAreFinite
  <2> HIDE DEF hits
  <2>2. Least(hits) \in hits
    BY <1>2, <2>1, LeastOfNats DEF Least
  <2>3. client \in Clients
    BY <2>2 DEF hits, Clients
  <2>4. HintedDomain(client, name) \in Domains
    BY <2>3, ConfigurationAssumption DEF HintedDomain
  <2>5. MatchFilename(name) = [client |-> client, domain |-> HintedDomain(client, name)]
    BY <1>2 DEF MatchFilename, hits
  <2> QED BY <2>3, <2>4, <2>5
<1> QED BY <1>1, <1>2

(* Confidence above that of a conflict means evidence without one. *)
LEMMA AttributionIs ==
  ASSUME NEW name, NEW table
  PROVE  LET a == Attribute(name, table)
             found == FindAccountIds(table)
         IN  /\ a.conf \in {0, 450, 800, 950, 990} /\ a.domain \in Domains
             /\ a.client # Nobody /\ a.conf > 450 =>
                  /\ \A x \in found : Owner[x] = a.client
                  /\ MatchFilename(name).client \in {Nobody, a.client}
                  /\ found = {} => a.conf = 800
<1> DEFINE hint == MatchFilename(name)
           found == FindAccountIds(table)
           owners == {Owner[x] : x \in found}
           client == IF owners = {} THEN hint.client ELSE CHOOSE c \in owners : TRUE
           conf == CASE client = Nobody -> 0
                     [] client # Nobody /\ owners = {} -> 800
                     [] owners # {} /\ hint.client = Nobody -> 950
                     [] owners # {} /\ hint.client = client -> 990
                     [] OTHER -> 450
           domain == IF client = Nobody THEN Unknown ELSE DomainFor(client, hint.domain)
           a == Attribute(name, table)
<1>1. a = IF Cardinality(owners) > 1 THEN [client |-> Nobody, conf |-> 450, domain |-> hint.domain]
          ELSE [client |-> client, conf |-> conf, domain |-> domain]
  BY DEF Attribute
<1>2. hint.client \in Clients \cup {Nobody} /\ hint.domain \in Domains
  BY HintIs
<1>3. owners \subseteq Clients /\ (owners = {} <=> found = {}) /\ \A x \in found : Owner[x] \in owners
  BY OwnersAreClients
<1> HIDE DEF hint, found, owners, a
<1>4. client \in Clients \cup {Nobody}
  BY <1>2, <1>3
<1>5. domain \in Domains
  BY <1>2, <1>4, ConfigurationAssumption DEF DomainFor
<1>6. CASE Cardinality(owners) > 1
  <2>1. a.client = Nobody /\ a.conf = 450 /\ a.domain = hint.domain
    BY <1>1, <1>6
  <2> QED BY <1>2, <2>1 DEF a
<1>7. CASE ~(Cardinality(owners) > 1)
  <2>1. ASSUME NEW c \in owners, NEW e \in owners PROVE c = e
    <3>1. IsFiniteSet(owners) /\ Cardinality(owners) \in Nat
      BY <1>3, ClientsAreFinite, FS_Subset, FS_CardinalityType
    <3>2. IsFiniteSet(owners \ {c}) /\ Cardinality(owners \ {c}) = Cardinality(owners) - 1
      BY <3>1, FS_RemoveElement
    <3>3. Cardinality(owners \ {c}) \in Nat
      BY <3>2, FS_CardinalityType
    <3>4. Cardinality(owners \ {c}) = 0
      BY <1>7, <3>1, <3>2, <3>3
    <3>5. owners \ {c} = {}
      BY <3>2, <3>4, FS_EmptySet
    <3> QED BY <3>5
  <2>2. a.client = client /\ a.conf = conf /\ a.domain = domain
    BY <1>1, <1>7
  <2>3. owners # {} => client \in owners
    OBVIOUS
  <2>4. conf \in {0, 450, 800, 950, 990}
    OBVIOUS
  <2>5. client # Nobody /\ conf > 450 =>
          /\ \A x \in found : Owner[x] = client
          /\ hint.client \in {Nobody, client}
          /\ found = {} => conf = 800
    <3> SUFFICES ASSUME client # Nobody, conf > 450
                 PROVE  /\ \A x \in found : Owner[x] = client
                        /\ hint.client \in {Nobody, client}
                        /\ found = {} => conf = 800
      OBVIOUS
    <3>1. \A x \in found : Owner[x] = client
      BY <1>3, <2>1, <2>3
    <3>2. hint.client \in {Nobody, client}
      OBVIOUS
    <3>3. found = {} => conf = 800
      BY <1>3
    <3> QED BY <3>1, <3>2, <3>3
  <2> HIDE DEF client, conf, domain
  <2> QED BY <1>5, <2>2, <2>4, <2>5 DEF a, hint, found
<1> QED BY <1>6, <1>7

----------------------------------------------------------------------------
(* Dates and columns *)

(* Several dates and a roll only lower the confidence. *)
LEMMA FinishIs ==
  ASSUME NEW candidates, NEW method, NEW base \in Nat, NEW nameDay, NEW closed
  PROVE  LET d == Finish(candidates, method, base, nameDay, closed)
         IN  /\ d.conf \in Int /\ d.conf <= base
             /\ d.day = Cal(closed)!Roll(MostCommon(candidates))
<1> DEFINE winner == MostCommon(candidates)
           rolled == Cal(closed)!Roll(winner)
           several == \E i, j \in DOMAIN candidates : candidates[i] # candidates[j]
           conf == (IF several THEN (base * 9) \div 10 ELSE base) - (IF rolled # winner THEN 100 ELSE 0)
           d == Finish(candidates, method, base, nameDay, closed)
<1>1. d.conf = conf /\ d.day = rolled
  BY DEF Finish
<1> HIDE DEF several, rolled, winner, d
<1>2. conf \in Int /\ conf <= base
  <2>1. (base * 9) \div 10 \in Int /\ (base * 9) \div 10 <= base
    OBVIOUS
  <2> QED BY <2>1
<1> QED BY <1>1, <1>2 DEF d, rolled, winner

(* The numbers of columns or of rows. *)
ListOf(dom) == dom \subseteq Nat /\ IsFiniteSet(dom)

(* A column with a number is one of the table's. *)
LEMMA ColumnIsThere ==
  ASSUME NEW table, ListOf(DOMAIN table.cols), NEW name
  PROVE  Column(table, name) \in DOMAIN table.cols \cup {NoColumn}
<1> DEFINE at == {i \in DOMAIN table.cols : table.cols[i] = name}
<1>1. at \in SUBSET Nat /\ IsFiniteSet(at)
  BY FS_Subset DEF ListOf
<1>2. Column(table, name) = IF at = {} THEN NoColumn ELSE CHOOSE i \in at : \A j \in at : i >= j
  BY DEF Column
<1>3. at \subseteq DOMAIN table.cols
  OBVIOUS
<1> HIDE DEF at
<1>4. at # {} => (CHOOSE i \in at : \A j \in at : i >= j) \in at
  BY <1>1, GreatestOfNats
<1> QED BY <1>2, <1>3, <1>4

(* So is the one found for a date. *)
LEMMA FoundColumnIsThere ==
  ASSUME NEW table, ListOf(DOMAIN table.cols), NEW hints
  PROVE  /\ FindValueDateColumn(table, hints) \in DOMAIN table.cols \cup {NoColumn}
         /\ FindTradeDateColumn(table) \in DOMAIN table.cols \cup {NoColumn}
<1>1. ASSUME NEW names PROVE FirstNamed(table, names) \in DOMAIN table.cols \cup {NoColumn}
  BY ColumnIsThere DEF FirstNamed
<1> QED BY <1>1, ColumnIsThere DEF FindValueDateColumn, FindTradeDateColumn

(* A part of a table has the table's columns and its rows. *)
LEMMA SubsetIs ==
  ASSUME NEW table, NEW rows, NEW hints
  PROVE  LET part == Subset(table, rows)
         IN  /\ FindValueDateColumn(part, hints) = FindValueDateColumn(table, hints)
             /\ FindTradeDateColumn(part) = FindTradeDateColumn(table)
             /\ DOMAIN part.rows = rows
             /\ \A r \in rows : part.rows[r] = table.rows[r]
<1>1. Subset(table, rows).cols = table.cols
  BY DEF Subset
<1>2. \A n : Column(Subset(table, rows), n) = Column(table, n)
  BY <1>1 DEF Column
<1>3. \A n : FirstNamed(Subset(table, rows), n) = FirstNamed(table, n)
  <2> SUFFICES ASSUME NEW n PROVE FirstNamed(Subset(table, rows), n) = FirstNamed(table, n)
    OBVIOUS
  <2> DEFINE hits(t) == {k \in DOMAIN n : Column(t, n[k]) # NoColumn}
             first(t) == CHOOSE k \in hits(t) : \A j \in hits(t) : k <= j
  <2>1. hits(Subset(table, rows)) = hits(table)
    BY <1>2
  <2>2. \A t : FirstNamed(t, n) = IF hits(t) = {} THEN NoColumn ELSE Column(t, n[first(t)])
    BY DEF FirstNamed
  <2>3. first(Subset(table, rows)) = first(table)
    BY <2>1, Zenon
  <2> HIDE DEF hits, first
  <2> QED BY <1>2, <2>1, <2>2, <2>3
<1>4. FindTradeDateColumn(Subset(table, rows)) = FindTradeDateColumn(table)
  BY <1>3 DEF FindTradeDateColumn
<1>5. FindValueDateColumn(Subset(table, rows), hints) = FindValueDateColumn(table, hints)
  BY <1>1, <1>2, <1>3 DEF FindValueDateColumn
<1> QED BY <1>4, <1>5 DEF Subset

(* Of one date, however often, the most common is that one. *)
LEMMA MostCommonOfOne ==
  ASSUME NEW s, ListOf(DOMAIN s), DOMAIN s # {}, NEW d, \A i \in DOMAIN s : s[i] = d
  PROVE  MostCommon(s) = d
<1> DEFINE count(e) == Cardinality({i \in DOMAIN s : s[i] = e})
           top == {i \in DOMAIN s : \A j \in DOMAIN s : count(s[i]) >= count(s[j])}
<1>1. MostCommon(s) = s[CHOOSE i \in top : \A j \in top : i <= j]
  BY DEF MostCommon
<1>2. count(d) \in Nat
  <2>1. {i \in DOMAIN s : s[i] = d} = DOMAIN s
    OBVIOUS
  <2> QED BY <2>1, FS_CardinalityType DEF ListOf
<1>3. top = DOMAIN s
  <2>1. \A i \in DOMAIN s : count(s[i]) = count(d)
    OBVIOUS
  <2> HIDE DEF count
  <2> QED BY <1>2, <2>1
<1> HIDE DEF top
<1>4. \E i \in top : \A j \in top : i <= j
  BY <1>3, LeastOfNats DEF ListOf
<1>5. (CHOOSE i \in top : \A j \in top : i <= j) \in DOMAIN s
  BY <1>3, <1>4
<1> QED BY <1>1, <1>5

----------------------------------------------------------------------------
(* The day of a sub-batch *)

(* A row of these carries a date. *)
Dated(table, rows) ==
  \E r \in rows : \E i \in DOMAIN table.cols : ParseDate(table.rows[r][i]) # NoDay

(* A day that no row gives is worth 700 at most, and one above 550 does not depend  *)
(* on when the file arrived.                                                       *)
LEMMA DayNeedsEvidence ==
  ASSUME NEW table, ListOf(DOMAIN table.cols), NEW rows,
         NEW nameDay, NEW arrivalDay, NEW closed, NEW hints
  PROVE  LET d == Resolve(Subset(table, rows), nameDay, arrivalDay, closed, hints)
         IN  /\ d.conf \in Int /\ d.conf <= 970
             /\ ~Dated(table, rows) => d.conf <= 700
             /\ d.conf > 550 =>
                  \A day : Resolve(Subset(table, rows), nameDay, day, closed, hints) = d
<1> DEFINE part == Subset(table, rows)
           explicit == ColumnDates(part, FindValueDateColumn(part, hints))
           traded == ColumnDates(part, FindTradeDateColumn(part))
           inferred == [i \in DOMAIN traded |-> Cal(closed)!AddBusinessDays(traded[i], SettlementOffset)]
           written == DOMAIN explicit # {} \/ DOMAIN traded # {}
           valued == Finish(explicit, "CONTENT_EXPLICIT", 970, nameDay, closed)
           settled == Finish(inferred, "CONTENT_INFERRED", 850, nameDay, closed)
           inside == IF DOMAIN explicit # {} THEN valued ELSE settled
           named == Finish(<<nameDay>>, "FILENAME", 700, nameDay, closed)
           clock(day) == Finish(<<Cal(closed)!PreviousBusinessDay(day)>>, "ARRIVAL", 550, NoDay, closed)
           d(day) == Resolve(part, nameDay, day, closed, hints)
<1>1. ASSUME NEW day
      PROVE  d(day) = IF written THEN inside ELSE IF nameDay # NoDay THEN named ELSE clock(day)
  <2>1. d(day) = CASE ~(DOMAIN explicit = {}) -> valued
                   [] DOMAIN explicit = {} /\ ~(DOMAIN traded = {}) -> settled
                   [] DOMAIN explicit = {} /\ DOMAIN traded = {} /\ nameDay # NoDay -> named
                   [] OTHER -> clock(day)
    BY DEF Resolve
  <2> HIDE DEF explicit, traded, valued, settled, named, clock, d
  <2> QED BY <2>1
<1>2. inside.conf \in Int /\ inside.conf <= 970
  <2> HIDE DEF explicit, inferred
  <2>1. valued.conf \in Int /\ valued.conf <= 970
    BY FinishIs
  <2>2. settled.conf \in Int /\ settled.conf <= 850
    BY FinishIs
  <2> HIDE DEF valued, settled
  <2> QED BY <2>1, <2>2
<1>3. named.conf \in Int /\ named.conf <= 700
  BY FinishIs
<1>4. ASSUME NEW day PROVE clock(day).conf \in Int /\ clock(day).conf <= 550
  BY FinishIs
<1>5. ASSUME written PROVE Dated(table, rows)
  <2>1. ASSUME NEW col \in DOMAIN table.cols \cup {NoColumn}, DOMAIN ColumnDates(part, col) # {}
        PROVE  Dated(table, rows)
    <3>1. PICK r \in DOMAIN part.rows : col # NoColumn /\ ParseDate(part.rows[r][col]) # NoDay
      BY <2>1 DEF ColumnDates
    <3>2. r \in rows /\ part.rows[r] = table.rows[r] /\ col \in DOMAIN table.cols
      BY <2>1, <3>1, SubsetIs
    <3> QED BY <3>1, <3>2 DEF Dated
  <2>2. /\ FindValueDateColumn(part, hints) \in DOMAIN table.cols \cup {NoColumn}
        /\ FindTradeDateColumn(part) \in DOMAIN table.cols \cup {NoColumn}
    <3>1. /\ FindValueDateColumn(table, hints) \in DOMAIN table.cols \cup {NoColumn}
          /\ FindTradeDateColumn(table) \in DOMAIN table.cols \cup {NoColumn}
      BY FoundColumnIsThere
    <3>2. /\ FindValueDateColumn(part, hints) = FindValueDateColumn(table, hints)
          /\ FindTradeDateColumn(part) = FindTradeDateColumn(table)
      BY SubsetIs
    <3> QED BY <3>1, <3>2
  <2> HIDE DEF part
  <2> QED BY <1>5, <2>1, <2>2
<1> HIDE DEF written, inside, named, clock, d
<1>6. d(arrivalDay).conf \in Int /\ d(arrivalDay).conf <= 970
  BY <1>1, <1>2, <1>3, <1>4
<1>7. ~Dated(table, rows) => d(arrivalDay).conf <= 700
  BY <1>1, <1>3, <1>4, <1>5
<1>8. d(arrivalDay).conf > 550 => \A day : d(day) = d(arrivalDay)
  BY <1>1, <1>4
<1> QED BY <1>6, <1>7, <1>8 DEF d

(* When all the rows with a value date carry one day, it is the day resolved. *)
LEMMA DayOfOneDate ==
  ASSUME NEW table, NEW rows, ListOf(rows), NEW nameDay, NEW arrivalDay, NEW closed, NEW hints,
         NEW day, \A r \in rows : RowDay(table, r, hints) \in {NoDay, day},
         NEW row \in rows, RowDay(table, row, hints) # NoDay
  PROVE  Resolve(Subset(table, rows), nameDay, arrivalDay, closed, hints).day = Cal(closed)!Roll(day)
<1> DEFINE part == Subset(table, rows)
           col == FindValueDateColumn(table, hints)
           explicit == ColumnDates(part, col)
<1>1. col = FindValueDateColumn(part, hints) /\ DOMAIN part.rows = rows /\ \A r \in rows : part.rows[r] = table.rows[r]
  BY SubsetIs
<1> HIDE DEF part, col
<1>2. col # NoColumn /\ \A r \in rows : RowDay(table, r, hints) = ParseDate(part.rows[r][col])
  BY <1>1 DEF RowDay, col
<1>3. DOMAIN explicit = {r \in rows : RowDay(table, r, hints) # NoDay}
  BY <1>1, <1>2 DEF ColumnDates
<1>4. \A r \in DOMAIN explicit : explicit[r] = day
  BY <1>1, <1>2, <1>3 DEF ColumnDates
<1>5. DOMAIN explicit # {} /\ ListOf(DOMAIN explicit)
  BY <1>3, FS_Subset DEF ListOf
<1> HIDE DEF explicit
<1>6. MostCommon(explicit) = day
  BY <1>4, <1>5, MostCommonOfOne
<1> DEFINE e == Finish(explicit, "CONTENT_EXPLICIT", 970, nameDay, closed)
<1>7. Resolve(part, nameDay, arrivalDay, closed, hints) = e
  <2>1. explicit = ColumnDates(part, FindValueDateColumn(part, hints))
    BY <1>1 DEF explicit
  <2> HIDE DEF e
  <2> QED BY <1>5, <2>1 DEF Resolve, e
<1>8. e.day = Cal(closed)!Roll(MostCommon(explicit))
  BY FinishIs
<1> QED BY <1>6, <1>7, <1>8 DEF part

(* A date that was read is a number. *)
LEMMA DaysAreIntegers ==
  ASSUME NEW table, NEW r, NEW hints
  PROVE  RowDay(table, r, hints) \in Int
<1>1. ASSUME NEW month, NEW day PROVE DayOf(month, day) \in Int
  <2>1. ASSUME month \in 1 .. Months, day \in 1 .. MonthLength
        PROVE  (month - 1) * MonthLength + day \in Int
    BY <2>1, YearAssumption
  <2> QED BY <2>1 DEF DayOf, NoDay
<1>2. ASSUME NEW cell PROVE ParseDate(cell) \in Int
  <2> DEFINE a == cell[3] \div 100
             b == cell[3] % 100
  <2>1. ParseDate(cell) =
          CASE cell[1] = "date" /\ cell[2] = "ymd" -> DayOf(a, b)
            [] cell[1] = "date" /\ cell[2] = "slash" -> IF DayOf(b, a) # NoDay THEN DayOf(b, a) ELSE DayOf(a, b)
            [] cell[1] = "date" /\ cell[2] = "caps" -> IF b \in MonthsWithT THEN NoDay ELSE DayOf(b, a)
            [] OTHER -> NoDay
    BY DEF ParseDate
  <2> HIDE DEF a, b
  <2> QED BY <1>1, <2>1 DEF NoDay
<1> QED BY <1>2 DEF RowDay, NoDay

(* The rows of a group carry one day, and there is at least one group. *)
OneDay(table, rows, hints) ==
  /\ rows \subseteq DOMAIN table.rows
  /\ \E day : \A r \in rows : RowDay(table, r, hints) \in {NoDay, day}

(* A table that is not split has one day or none, and the k-th group exists. *)
LEMMA GroupsHaveOneDay ==
  ASSUME NEW table, ListOf(DOMAIN table.rows), NEW hints
  PROVE  LET groups == Groups(table, hints)
         IN  /\ Len(groups) \in Nat /\ Len(groups) >= 1 /\ DOMAIN groups = 1 .. Len(groups)
             /\ \A k \in DOMAIN groups : OneDay(table, groups[k], hints)
<1> DEFINE all == DOMAIN table.rows
           days == {RowDay(table, r, hints) : r \in all} \ {NoDay}
           group(d) == [day |-> d, rows |-> {r \in all : RowDay(table, r, hints) = d}]
           split == SplitByValueDate(table, hints)
           groups == Groups(table, hints)
           key == [g \in split |-> g.day]
           nth(k) == CHOOSE g \in split : RankIn(split, key, g) = k
<1>1. IsFiniteSet(days) /\ days \subseteq Int
  <2> DEFINE values == {RowDay(table, r, hints) : r \in all}
             f == [r \in all |-> RowDay(table, r, hints)]
  <2>1. f \in Surjection(all, values)
    BY DEF Surjection
  <2>2. IsFiniteSet(values)
    BY <2>1, FS_Surjection DEF ListOf
  <2>3. days \in SUBSET values
    OBVIOUS
  <2>4. IsFiniteSet(days)
    BY <2>2, <2>3, FS_Subset
  <2> QED BY <2>4, DaysAreIntegers
<1>2. split = IF Cardinality(days) < 2 THEN {} ELSE {group(d) : d \in days}
  BY DEF SplitByValueDate
<1>3. Cardinality(days) \in Nat
  BY <1>1, FS_CardinalityType
<1>4. CASE split = {}
  <2>1. groups = <<all>>
    BY <1>4 DEF Groups
  <2>2. Cardinality(days) < 2
    <3>1. {group(d) : d \in days} = {} => days = {}
      OBVIOUS
    <3>2. days = {} => Cardinality(days) = 0
      BY FS_EmptySet
    <3> HIDE DEF days, split, group
    <3> QED BY <1>2, <1>4, <3>1, <3>2
  <2>3. \E day : days \subseteq {day}
    <3> HIDE DEF days
    <3>1. Cardinality(days) = 0 \/ Cardinality(days) = 1
      BY <1>3, <2>2
    <3>2. days = {} \/ \E day : days = {day}
      BY <1>1, <3>1, FS_EmptySet, FS_Singleton
    <3> QED BY <3>2
  <2>4. PICK day : days \subseteq {day}
    BY <2>3
  <2>5. \A r \in all : RowDay(table, r, hints) \in {NoDay, day}
    BY <2>4
  <2>6. OneDay(table, all, hints)
    BY <2>5 DEF OneDay
  <2> HIDE DEF groups, all, split, days
  <2>7. Len(groups) = 1 /\ DOMAIN groups = 1 .. 1 /\ groups[1] = all
    BY <2>1
  <2>8. \A k \in DOMAIN groups : OneDay(table, groups[k], hints)
    BY <2>6, <2>7
  <2> QED BY <2>7, <2>8 DEF groups
<1>5. CASE split # {}
  <2>1. split = {group(d) : d \in days}
    <3> HIDE DEF split, days, group
    <3> QED BY <1>2, <1>5
  <2>2. IsFiniteSet(split)
    <3> DEFINE f == [d \in days |-> group(d)]
    <3>1. f \in Surjection(days, split)
      BY <2>1 DEF Surjection
    <3> HIDE DEF f
    <3> QED BY <1>1, <3>1, FS_Surjection
  <2>3. \A g \in split : g.day \in days /\ g = group(g.day)
    BY <2>1
  <2> DEFINE n == Cardinality(split)
  <2>4. n \in Nat /\ n # 0
    BY <1>5, <2>2, FS_CardinalityType, FS_EmptySet
  <2>5. key \in [split -> Int] /\ \A g, h \in split : key[g] = key[h] => g = h
    <3> HIDE DEF split, group, days
    <3> QED BY <1>1, <2>3
  <2>6. groups = [k \in 1 .. n |-> nth(k).rows]
    <3>1. \A g \in split : \A h \in split : (key[h] <= key[g]) = (h.day <= g.day)
      OBVIOUS
    <3> DEFINE plain(k) == CHOOSE g \in split : Cardinality({h \in split : h.day <= g.day}) = k
    <3>2. groups = [k \in 1 .. n |-> plain(k).rows]
      BY <1>5 DEF Groups
    <3>3. ASSUME NEW k PROVE plain(k) = nth(k)
      <4>1. \A g \in split : {h \in split : h.day <= g.day} = {h \in split : key[h] <= key[g]}
        BY <3>1
      <4>2. \A g \in split : (Cardinality({h \in split : h.day <= g.day}) = k) <=> (RankIn(split, key, g) = k)
        BY <4>1 DEF RankIn
      <4> HIDE DEF split, key
      <4> QED BY <4>2
    <3> HIDE DEF plain, nth, groups, n
    <3> QED BY <3>2, <3>3
  <2>7. ASSUME NEW k \in 1 .. n PROVE nth(k) \in split
    <3> HIDE DEF key, split
    <3>1. \E g \in split : RankIn(split, key, g) = k
      BY <2>2, <2>5, RankExists
    <3> QED BY <3>1
  <2>8. ASSUME NEW k \in 1 .. n PROVE OneDay(table, nth(k).rows, hints)
    <3> DEFINE g == nth(k)
    <3> HIDE DEF nth
    <3>1. g = group(g.day)
      BY <2>3, <2>7
    <3> HIDE DEF g
    <3>2. g.rows = {r \in all : RowDay(table, r, hints) = g.day}
      BY <3>1
    <3>3. OneDay(table, g.rows, hints)
      BY <3>2 DEF OneDay
    <3> QED BY <3>3 DEF g
  <2>9. groups \in Seq(SUBSET all)
    <3> HIDE DEF groups, nth, n, all, split, days
    <3>1. \A k \in 1 .. n : nth(k).rows \in SUBSET all
      BY <2>8 DEF OneDay, all
    <3> QED BY <2>4, <2>6, <3>1
  <2> HIDE DEF groups, nth, n
  <2>10. Len(groups) = n /\ DOMAIN groups = 1 .. n /\ \A k \in 1 .. n : groups[k] = nth(k).rows
    BY <2>4, <2>6, <2>9
  <2> QED BY <2>4, <2>8, <2>10 DEF groups
<1> QED BY <1>4, <1>5

----------------------------------------------------------------------------
(* Sub-batches *)

Whose(file) == Attribute(file.name, Tables[file])
HintsFor(file) == ValueDateHints(Whose(file).client)
Parts(file) == Groups(Tables[file], HintsFor(file))
DayAsSeen(file, k, day) ==
  Resolve(Subset(Tables[file], Parts(file)[k]), ParseDate(file.name.date), day,
          CalendarFor(Whose(file).client), HintsFor(file))

(* What a sub-batch takes from its file, and what from the day it was seen. *)
LEMMA BatchIs ==
  ASSUME NEW file, NEW outcome, NEW day, NEW k \in DOMAIN Parts(file)
  PROVE  LET b == Classifications(file, outcome, day)[k]
             d == DayAsSeen(file, k, day)
         IN  /\ b.index = k - 1 /\ b.total = Len(Parts(file)) /\ b.rows = Parts(file)[k]
             /\ b.client = Whose(file).client /\ b.domain = Whose(file).domain /\ b.day = d.day
             /\ b.disposition = Route(Whose(file), d, outcome)
<1> DEFINE a == Attribute(file.name, Tables[file])
           groups == Groups(Tables[file], ValueDateHints(a.client))
           date == Resolve(Subset(Tables[file], groups[k]), ParseDate(file.name.date), day,
                           CalendarFor(a.client), ValueDateHints(a.client))
<1>1. groups = Parts(file) /\ a = Whose(file)
  BY DEF Parts, Whose, HintsFor
<1>2. Classifications(file, outcome, day) = [j \in DOMAIN groups |-> Batch(file, a, outcome, day, groups, j)]
  BY DEF Classifications
<1>3. Batch(file, a, outcome, day, groups, k) =
        [index |-> k - 1, total |-> Len(groups), rows |-> groups[k], client |-> a.client,
         domain |-> a.domain, day |-> date.day, disposition |-> Route(a, date, outcome)]
  BY DEF Batch
<1>4. date = DayAsSeen(file, k, day)
  BY DEF DayAsSeen, Parts, Whose, HintsFor
<1> HIDE DEF a, groups, date
<1>5. Classifications(file, outcome, day)[k] = Batch(file, a, outcome, day, groups, k)
  BY <1>1, <1>2
<1> QED BY <1>1, <1>3, <1>4, <1>5

(* The sub-batches of a file are as many whoever looks, and at least one. *)
LEMMA ClassificationsAre ==
  ASSUME NEW file \in Files, NEW outcome, NEW day
  PROVE  LET c == Classifications(file, outcome, day)
         IN  /\ Len(c) = Len(Parts(file)) /\ DOMAIN c = DOMAIN Parts(file)
             /\ DOMAIN c = 1 .. Len(c) /\ Len(c) \in Nat /\ Len(c) >= 1
             /\ \A k \in DOMAIN c : OneDay(Tables[file], Parts(file)[k], HintsFor(file))
<1> DEFINE c == Classifications(file, outcome, day)
           parts == Parts(file)
           n == Len(parts)
<1>1. ListOf(DOMAIN Tables[file].rows)
  BY TablesAssumption DEF ListOf
<1>2. /\ n \in Nat /\ n >= 1 /\ DOMAIN parts = 1 .. n
      /\ \A k \in DOMAIN parts : OneDay(Tables[file], parts[k], HintsFor(file))
  BY <1>1, GroupsHaveOneDay DEF Parts
<1>3. c = [k \in DOMAIN parts |-> Batch(file, Whose(file), outcome, day, parts, k)]
  BY DEF Classifications, Parts, Whose, HintsFor
<1>4. c \in Seq({Batch(file, Whose(file), outcome, day, parts, k) : k \in 1 .. n})
  <2> HIDE DEF n, c, parts
  <2> QED BY <1>2, <1>3
<1> HIDE DEF n, c, parts
<1>5. DOMAIN c = 1 .. n /\ Len(c) = n
  BY <1>2, <1>3, <1>4
<1> QED BY <1>2, <1>5 DEF n, c, parts

(* b is a sub-batch of the file, on one of the days and for one of the outcomes. *)
SubBatch(file, k, b) ==
  \E outcome \in Outcomes, day \in FirstDay .. LastDay :
    k \in DOMAIN Classifications(file, outcome, day) /\ b = Classifications(file, outcome, day)[k]

(* Only the date of a sub-batch and its route depend on the day and the outcome. *)
LEMMA SubBatchIs ==
  ASSUME NEW file \in Files, NEW k, NEW b, SubBatch(file, k, b)
  PROVE  /\ k \in DOMAIN Parts(file) /\ b.index = k - 1 /\ b.total = Len(Parts(file))
         /\ b.rows = Parts(file)[k] /\ b.client = Whose(file).client /\ b.domain = Whose(file).domain
         /\ \E outcome \in Outcomes, day \in FirstDay .. LastDay :
              /\ b.day = DayAsSeen(file, k, day).day
              /\ b.disposition = Route(Whose(file), DayAsSeen(file, k, day), outcome)
<1>1. PICK outcome \in Outcomes, day \in FirstDay .. LastDay :
        k \in DOMAIN Classifications(file, outcome, day) /\ b = Classifications(file, outcome, day)[k]
  BY DEF SubBatch
<1>2. k \in DOMAIN Parts(file)
  BY <1>1, ClassificationsAre
<1> QED BY <1>1, <1>2, BatchIs

(* Confidence that suffices for dispatch. *)
LEMMA DispatchedSurely ==
  ASSUME Strict, NEW file \in Files, NEW k, NEW b, SubBatch(file, k, b), b.disposition = "DISPATCHED"
  PROVE  /\ Whose(file).client # Nobody
         /\ Whose(file).conf + DayAsSeen(file, k, FirstDay).conf >= 1541
         /\ \A day : DayAsSeen(file, k, day) = DayAsSeen(file, k, FirstDay)
         /\ b.day = DayAsSeen(file, k, FirstDay).day
<1> DEFINE a == Whose(file)
           d(day) == DayAsSeen(file, k, day)
<1>1. PICK outcome \in Outcomes, day \in FirstDay .. LastDay :
        b.day = d(day).day /\ b.disposition = Route(a, d(day), outcome)
  BY SubBatchIs
<1>2. a.conf \in {0, 450, 800, 950, 990} /\ a.domain \in Domains
  BY AttributionIs DEF Whose
<1>3. ListOf(DOMAIN Tables[file].cols)
  BY TablesAssumption DEF ListOf
<1>4. d(day).conf \in Int /\ (d(day).conf > 550 => \A other : d(other) = d(day))
  BY <1>3, DayNeedsEvidence DEF DayAsSeen
<1> HIDE DEF a, d
<1>5. a.client # Nobody /\ a.conf + d(day).conf >= 1541
  <2>1. a.conf \in Int /\ Route(a, d(day), outcome) = "DISPATCHED"
    BY <1>1, <1>2
  <2> QED BY <1>2, <1>4, <2>1, DispatchNeeds
<1>6. d(day).conf > 550
  BY <1>2, <1>4, <1>5
<1>7. d(FirstDay) = d(day) /\ \A other : d(other) = d(FirstDay)
  BY <1>4, <1>6
<1> QED BY <1>1, <1>5, <1>7 DEF a, d

(* Two sub-batches under one name hold the same, when one of them was dispatched. *)
LEMMA SameNameSameObject ==
  ASSUME Strict, NEW arrival, NEW file \in Files, NEW j, NEW k, NEW b, NEW c,
         SubBatch(file, j, b), SubBatch(file, k, c),
         ObjectName(arrival, b) = ObjectName(arrival, c), b.disposition = "DISPATCHED"
  PROVE  Stamped(b) = Stamped(c)
<1>1. /\ j \in DOMAIN Parts(file) /\ b.index = j - 1 /\ b.total = Len(Parts(file))
      /\ b.rows = Parts(file)[j] /\ b.client = Whose(file).client /\ b.domain = Whose(file).domain
  BY SubBatchIs
<1>2. /\ k \in DOMAIN Parts(file) /\ c.index = k - 1 /\ c.total = Len(Parts(file))
      /\ c.rows = Parts(file)[k] /\ c.client = Whose(file).client /\ c.domain = Whose(file).domain
      /\ \E day \in FirstDay .. LastDay : c.day = DayAsSeen(file, k, day).day
  BY SubBatchIs
<1>3. PICK outcome \in Outcomes, day \in FirstDay .. LastDay : j \in DOMAIN Classifications(file, outcome, day)
  BY DEF SubBatch
<1>4. DOMAIN Parts(file) = 1 .. Len(Parts(file)) /\ Len(Parts(file)) \in Nat
  BY ClassificationsAre
<1>5. j = k
  <2>1. (IF b.total > 1 THEN b.index + 1 ELSE 0) = (IF c.total > 1 THEN c.index + 1 ELSE 0)
    BY DEF ObjectName
  <2> DEFINE n == Len(Parts(file))
  <2>2. (IF n > 1 THEN (j - 1) + 1 ELSE 0) = (IF n > 1 THEN (k - 1) + 1 ELSE 0)
    BY <1>1, <1>2, <2>1
  <2>3. n \in Nat /\ j \in 1 .. n /\ k \in 1 .. n
    BY <1>1, <1>2, <1>4
  <2> HIDE DEF n
  <2> QED BY <2>2, <2>3
<1>6. b.day = c.day
  BY <1>2, <1>5, DispatchedSurely
<1> QED BY <1>1, <1>2, <1>5, <1>6 DEF Stamped

(* The evidence DispatchedOnEvidence asks for. *)
Evidence(file, b) ==
  LET table == Tables[file]
      found == FindAccountIds(table)
  IN  /\ b.client # Nobody
      /\ \A a \in found : Owner[a] = b.client
      /\ MatchFilename(file.name).client \in {Nobody, b.client}
      /\ found # {} \/ Dated(table, b.rows)

(* What was dispatched has it. *)
LEMMA DispatchedHasEvidence ==
  ASSUME Strict, NEW file \in Files, NEW k, NEW b, SubBatch(file, k, b), b.disposition = "DISPATCHED"
  PROVE  Evidence(file, b)
<1> DEFINE a == Whose(file)
           d == DayAsSeen(file, k, FirstDay)
           table == Tables[file]
           found == FindAccountIds(table)
<1>1. b.client = a.client /\ b.rows = Parts(file)[k]
  BY SubBatchIs
<1>2. a.client # Nobody /\ a.conf + d.conf >= 1541
  BY DispatchedSurely
<1>3. /\ a.conf \in {0, 450, 800, 950, 990}
      /\ a.client # Nobody /\ a.conf > 450 =>
           /\ \A x \in found : Owner[x] = a.client
           /\ MatchFilename(file.name).client \in {Nobody, a.client}
           /\ found = {} => a.conf = 800
  BY AttributionIs DEF Whose
<1>4. ListOf(DOMAIN table.cols)
  BY TablesAssumption DEF ListOf
<1>5. d.conf \in Int /\ d.conf <= 970 /\ (~Dated(table, Parts(file)[k]) => d.conf <= 700)
  BY <1>4, DayNeedsEvidence DEF DayAsSeen
<1> HIDE DEF a, d, found
<1>6. a.conf > 450
  BY <1>2, <1>3, <1>5
<1>7. found # {} \/ Dated(table, b.rows)
  BY <1>1, <1>2, <1>3, <1>5, <1>6
<1> QED BY <1>1, <1>2, <1>3, <1>6, <1>7 DEF Evidence, found

(* Each row with a date of its own rolls to the day of its sub-batch. *)
LEMMA RowsRoll ==
  ASSUME NEW file \in Files, NEW k, NEW b, SubBatch(file, k, b), NEW r \in b.rows,
         RowDay(Tables[file], r, ValueDateHints(b.client)) # NoDay
  PROVE  Cal(CalendarFor(b.client))!Roll(RowDay(Tables[file], r, ValueDateHints(b.client))) = b.day
<1> DEFINE table == Tables[file]
           hints == HintsFor(file)
           rows == Parts(file)[k]
<1>1. b.rows = rows /\ b.client = Whose(file).client /\ ValueDateHints(b.client) = hints
  BY SubBatchIs DEF HintsFor
<1>2. PICK outcome \in Outcomes, day \in FirstDay .. LastDay :
        k \in DOMAIN Classifications(file, outcome, day) /\ b = Classifications(file, outcome, day)[k]
  BY DEF SubBatch
<1>3. OneDay(table, rows, hints)
  BY <1>2, ClassificationsAre
<1>4. ListOf(rows)
  <2>1. ListOf(DOMAIN table.rows)
    BY TablesAssumption DEF ListOf
  <2> HIDE DEF rows, table
  <2> QED BY <1>3, <2>1, FS_Subset DEF OneDay, ListOf
<1>5. PICK own : \A x \in rows : RowDay(table, x, hints) \in {NoDay, own}
  BY <1>3 DEF OneDay
<1>6. r \in rows /\ RowDay(table, r, hints) = own
  BY <1>1, <1>5
<1>7. PICK other \in FirstDay .. LastDay : b.day = DayAsSeen(file, k, other).day
  BY SubBatchIs
<1> DEFINE closed == CalendarFor(Whose(file).client)
           nameDay == ParseDate(file.name.date)
<1>8. DayAsSeen(file, k, other) = Resolve(Subset(table, rows), nameDay, other, closed, hints)
  BY DEF DayAsSeen
<1>9. RowDay(table, r, hints) # NoDay
  BY <1>1
<1> HIDE DEF table, rows, hints, closed, nameDay
<1>10. Resolve(Subset(table, rows), nameDay, other, closed, hints).day = Cal(closed)!Roll(own)
  BY <1>4, <1>5, <1>6, <1>9, DayOfOneDate
<1>11. Cal(closed)!Roll(RowDay(table, r, hints)) = b.day
  BY <1>6, <1>7, <1>8, <1>10
<1> QED BY <1>1, <1>11 DEF closed, table

----------------------------------------------------------------------------
(* The consumer *)

QueueInv == raw \in Seq(Files) /\ position \in 0 .. Len(raw) /\ today \in FirstDay .. LastDay

(* The sub-batches in hand are those of the next arrival, as some day saw it. *)
Working ==
  /\ position < Len(raw)
  /\ job \in [pc : {"write", "publish", "done"}, batches : {job.batches}, at : DOMAIN job.batches]
  /\ \E outcome \in Outcomes, day \in FirstDay .. LastDay :
       job.batches = Classifications(raw[position + 1], outcome, day)

JobInv == job \in {Idle, Down} \/ Working

(* So are those published. *)
IsMessage(m) ==
  /\ m.arrival \in DOMAIN raw /\ m = ToProto(m.arrival, m.batch)
  /\ \E k : SubBatch(raw[m.arrival], k, m.batch)

MessagesInv == \A m \in published : IsMessage(m)

ConsumerInv == QueueInv /\ JobInv /\ MessagesInv

(* The sub-batch being written or published. *)
Current == job.batches[job.at]

(* It is one of its arrival's. *)
LEMMA CurrentIs ==
  ASSUME QueueInv, Working
  PROVE  /\ raw[position + 1] \in Files /\ position + 1 \in DOMAIN raw
         /\ SubBatch(raw[position + 1], job.at, Current)
         /\ DOMAIN job.batches = 1 .. Len(job.batches) /\ Len(job.batches) \in Nat
<1>1. raw[position + 1] \in Files /\ position + 1 \in DOMAIN raw
  BY DEF QueueInv, Working
<1>2. PICK outcome \in Outcomes, day \in FirstDay .. LastDay :
        job.batches = Classifications(raw[position + 1], outcome, day)
  BY DEF Working
<1>3. job.at \in DOMAIN job.batches
  BY DEF Working
<1>4. SubBatch(raw[position + 1], job.at, Current)
  BY <1>2, <1>3 DEF SubBatch, Current
<1> QED BY <1>1, <1>2, <1>4, ClassificationsAre

(* Nothing is in hand at first. *)
LEMMA ConsumerInit == Init => ConsumerInv
<1> SUFFICES ASSUME Init PROVE ConsumerInv
  OBVIOUS
<1>1. QueueInv
  BY ConfigurationAssumption DEF Init, QueueInv
<1> QED BY <1>1 DEF Init, ConsumerInv, JobInv, MessagesInv

(* No step leaves the invariant of the consumer. *)
LEMMA ConsumerNext == ConsumerInv /\ [Next]_vars => ConsumerInv'
<1> SUFFICES ASSUME ConsumerInv, [Next]_vars PROVE ConsumerInv'
  OBVIOUS
<1> USE DEF ConsumerInv
<1>1. ASSUME NEW file \in Files, Land(file) PROVE ConsumerInv'
  <2>1. raw' = Append(raw, file) /\ UNCHANGED <<position, job, today, published>>
    BY <1>1 DEF Land
  <2>2. /\ raw' \in Seq(Files) /\ Len(raw') = Len(raw) + 1 /\ DOMAIN raw \subseteq DOMAIN raw'
        /\ \A i \in DOMAIN raw : raw'[i] = raw[i]
    BY <2>1 DEF QueueInv
  <2>3. QueueInv'
    BY <2>1, <2>2 DEF QueueInv
  <2>4. JobInv'
    <3>1. CASE job \in {Idle, Down}
      BY <2>1, <3>1 DEF JobInv
    <3>2. CASE Working
      <4>1. position + 1 \in DOMAIN raw /\ position' < Len(raw')
        BY <2>1, <2>2, <3>2 DEF QueueInv, Working
      <4> QED BY <2>1, <2>2, <3>2, <4>1 DEF JobInv, Working
    <3> QED BY <3>1, <3>2 DEF JobInv
  <2>5. MessagesInv'
    <3> SUFFICES ASSUME NEW m \in published PROVE IsMessage(m)'
      BY <2>1 DEF MessagesInv
    <3>1. IsMessage(m)
      BY DEF MessagesInv
    <3> QED BY <2>2, <3>1 DEF IsMessage
  <2> QED BY <2>3, <2>4, <2>5
<1>2. ASSUME Midnight PROVE ConsumerInv'
  <2>1. today' = today + 1 /\ today < LastDay /\ UNCHANGED <<raw, position, job, published>>
    BY <1>2 DEF Midnight
  <2>2. QueueInv'
    BY <2>1, ConfigurationAssumption DEF QueueInv
  <2> QED BY <2>1, <2>2 DEF JobInv, Working, MessagesInv, IsMessage
<1>3. ASSUME Reject PROVE ConsumerInv'
  <2>1. job = Idle /\ position < Len(raw) /\ position' = position + 1 /\ UNCHANGED <<raw, job, today, published>>
    BY <1>3 DEF Reject
  <2>2. QueueInv'
    BY <2>1 DEF QueueInv
  <2>3. JobInv'
    BY <2>1 DEF JobInv, Idle, Down
  <2>4. MessagesInv'
    BY <2>1 DEF MessagesInv, IsMessage
  <2> QED BY <2>2, <2>3, <2>4
<1>4. ASSUME NEW outcome \in Outcomes, Classify(outcome) PROVE ConsumerInv'
  <2> DEFINE file == raw[position + 1]
             c == Classifications(file, outcome, today)
  <2>1. /\ position < Len(raw) /\ file \in Readable /\ UNCHANGED <<raw, position, today, published>>
        /\ job' = [pc |-> "write", at |-> 1, batches |-> Classified[file][outcome][today]]
    BY <1>4 DEF Classify
  <2>2. file \in Files /\ today \in FirstDay .. LastDay
    BY <2>1 DEF QueueInv, Readable
  <2>3. Classified[file][outcome][today] = c
    <3> HIDE DEF file
    <3> QED BY <2>1, <2>2 DEF Classified
  <2>4. DOMAIN c = 1 .. Len(c) /\ Len(c) \in Nat /\ Len(c) >= 1
    BY <2>2, ClassificationsAre
  <2>5. Working'
    <3> HIDE DEF c
    <3>1. 1 \in DOMAIN c
      BY <2>4
    <3>2. job' \in [pc : {"write", "publish", "done"}, batches : {job'.batches}, at : DOMAIN job'.batches]
      BY <2>1, <2>3, <3>1
    <3>3. job'.batches = c
      BY <2>1, <2>3
    <3>4. \E o \in Outcomes, day \in FirstDay .. LastDay : c = Classifications(raw[position + 1], o, day)
      BY <2>2 DEF c
    <3> QED BY <2>1, <3>2, <3>3, <3>4 DEF Working
  <2>6. QueueInv' /\ MessagesInv'
    BY <2>1 DEF QueueInv, MessagesInv, IsMessage
  <2> QED BY <2>5, <2>6 DEF JobInv
<1>5. ASSUME WriteCanonical PROVE ConsumerInv'
  <2>1. job.pc = "write" /\ job' = [job EXCEPT !.pc = "publish"] /\ UNCHANGED <<raw, position, today, published>>
    BY <1>5 DEF WriteCanonical
  <2>2. Working
    BY <2>1 DEF JobInv, Idle, Down
  <2>3. Working'
    <3>1. job' \in [pc : {"write", "publish", "done"}, batches : {job'.batches}, at : DOMAIN job'.batches]
            /\ job'.batches = job.batches
      BY <2>1, <2>2 DEF Working
    <3> QED BY <2>1, <2>2, <3>1 DEF Working
  <2>4. QueueInv' /\ MessagesInv'
    BY <2>1 DEF QueueInv, MessagesInv, IsMessage
  <2> QED BY <2>3, <2>4 DEF JobInv
<1>6. ASSUME Publish PROVE ConsumerInv'
  <2>1. /\ job.pc = "publish" /\ UNCHANGED <<raw, position, today>>
        /\ published' = published \cup {ToProto(position + 1, Current)}
        /\ job' = IF job.at < Len(job.batches) THEN [job EXCEPT !.pc = "write", !.at = job.at + 1]
                  ELSE [job EXCEPT !.pc = "done"]
    BY <1>6 DEF Publish, Current
  <2>2. Working
    BY <2>1 DEF JobInv, Idle, Down
  <2>3. /\ position + 1 \in DOMAIN raw /\ SubBatch(raw[position + 1], job.at, Current)
        /\ DOMAIN job.batches = 1 .. Len(job.batches) /\ Len(job.batches) \in Nat
    BY <2>2, CurrentIs
  <2>4. Working'
    <3>1. job \in [pc : {"write", "publish", "done"}, batches : {job.batches}, at : DOMAIN job.batches]
      BY <2>2 DEF Working
    <3>2. job.at < Len(job.batches) => job.at + 1 \in DOMAIN job.batches
      BY <2>3, <3>1
    <3>3. job' \in [pc : {"write", "publish", "done"}, batches : {job'.batches}, at : DOMAIN job'.batches]
            /\ job'.batches = job.batches
      BY <2>1, <3>1, <3>2
    <3> QED BY <2>1, <2>2, <3>3 DEF Working
  <2>5. MessagesInv'
    <3> SUFFICES ASSUME NEW m \in published' PROVE IsMessage(m)'
      BY DEF MessagesInv
    <3>1. CASE m \in published
      BY <2>1, <3>1 DEF MessagesInv, IsMessage
    <3>2. CASE m = ToProto(position + 1, Current)
      <4>1. m.arrival = position + 1 /\ m.batch = Current
        BY <3>2 DEF ToProto
      <4> HIDE DEF Current
      <4> QED BY <2>1, <2>3, <3>2, <4>1 DEF IsMessage
    <3> QED BY <2>1, <3>1, <3>2
  <2>6. QueueInv'
    BY <2>1 DEF QueueInv
  <2> QED BY <2>4, <2>5, <2>6 DEF JobInv
<1>7. ASSUME Commit PROVE ConsumerInv'
  <2>1. job.pc = "done" /\ job' = Idle /\ position' = position + 1 /\ UNCHANGED <<raw, today, published>>
    BY <1>7 DEF Commit
  <2>2. Working
    BY <2>1 DEF JobInv, Idle, Down
  <2>3. QueueInv'
    BY <2>1, <2>2 DEF QueueInv, Working
  <2> QED BY <2>1, <2>3 DEF JobInv, Idle, Down, MessagesInv, IsMessage
<1>8. ASSUME Crash PROVE ConsumerInv'
  <2>1. job' = Idle /\ UNCHANGED <<raw, position, today, published>>
    BY <1>8 DEF Crash
  <2> QED BY <2>1 DEF QueueInv, JobInv, Idle, Down, MessagesInv, IsMessage
<1>9. ASSUME Raise \/ Restart PROVE ConsumerInv'
  <2>1. job' \in {Idle, Down} /\ UNCHANGED <<raw, position, today, published>>
    BY <1>9 DEF Raise, Restart
  <2> QED BY <2>1 DEF QueueInv, JobInv, Idle, Down, MessagesInv, IsMessage
<1>10. ASSUME UNCHANGED vars PROVE ConsumerInv'
  BY <1>10 DEF vars, QueueInv, JobInv, Idle, Down, Working, MessagesInv, IsMessage
<1> QED BY <1>1, <1>2, <1>3, <1>4, <1>5, <1>6, <1>7, <1>8, <1>9, <1>10 DEF Next

(* Every row published under a day is a row of that day, whatever the threshold:   *)
(* a sub-batch is a group of one date, or a table that was not split, and the day  *)
(* resolved for it is that date or the open day before it (valuedate.py,           *)
(* split_by_value_date, resolve and _finish).                                      *)
THEOREM RowsInTheirOwnSlot == Spec => []RowInItsOwnSlot
<1>1. Spec => []ConsumerInv
  BY ConsumerInit, ConsumerNext, PTL DEF Spec
<1>2. ConsumerInv => RowInItsOwnSlot
  <2> SUFFICES ASSUME ConsumerInv, NEW m \in published, NEW r \in m.batch.rows,
                      RowDay(Tables[raw[m.arrival]], r, ValueDateHints(m.batch.client)) # NoDay
               PROVE  Cal(CalendarFor(m.batch.client))!Roll(
                        RowDay(Tables[raw[m.arrival]], r, ValueDateHints(m.batch.client))) = m.batch.day
    BY DEF RowInItsOwnSlot
  <2>1. IsMessage(m)
    BY DEF ConsumerInv, MessagesInv
  <2>2. raw[m.arrival] \in Files
    BY <2>1 DEF IsMessage, ConsumerInv, QueueInv
  <2>3. PICK k : SubBatch(raw[m.arrival], k, m.batch)
    BY <2>1 DEF IsMessage
  <2> QED BY <2>2, <2>3, RowsRoll
<1> QED BY <1>1, <1>2, PTL

(* A message on the classified topic is a dispatched sub-batch of its arrival. *)
LEMMA DispatchedIs ==
  ASSUME ConsumerInv, NEW m \in Dispatched
  PROVE  /\ m \in published /\ raw[m.arrival] \in Files /\ m.batch.disposition = "DISPATCHED"
         /\ \E k : SubBatch(raw[m.arrival], k, m.batch)
<1>1. m \in published /\ m.topic = "classified"
  BY DEF Dispatched
<1>2. IsMessage(m)
  BY <1>1 DEF ConsumerInv, MessagesInv
<1>3. m.topic = TopicFor(m.batch.disposition)
  <2>1. ToProto(m.arrival, m.batch).topic = TopicFor(m.batch.disposition)
    BY DEF ToProto
  <2> QED BY <1>2, <2>1 DEF IsMessage
<1> QED BY <1>1, <1>2, <1>3 DEF IsMessage, TopicFor, ConsumerInv, QueueInv

(* The classified topic carries nothing that the file itself does not support, and *)
(* nothing that it contradicts, when the threshold is above what such a file can   *)
(* score (attribution.py, attribute; confidence.py, compose and _route).           *)
THEOREM DispatchesOnEvidence ==
  ASSUME Strict
  PROVE  Spec => []DispatchedOnEvidence
<1>1. Spec => []ConsumerInv
  BY ConsumerInit, ConsumerNext, PTL DEF Spec
<1>2. ConsumerInv => DispatchedOnEvidence
  <2> SUFFICES ASSUME ConsumerInv PROVE DispatchedOnEvidence
    OBVIOUS
  <2>1. ASSUME NEW m \in Dispatched PROVE Evidence(raw[m.arrival], m.batch)
    <3>1. PICK k : SubBatch(raw[m.arrival], k, m.batch)
      BY DispatchedIs
    <3> QED BY <3>1, DispatchedIs, DispatchedHasEvidence
  <2> QED BY <2>1 DEF DispatchedOnEvidence, Evidence, Dated
<1> QED BY <1>1, <1>2, PTL

----------------------------------------------------------------------------
(* Objects *)

(* What is published has an object, and what is dispatched has its own, also while *)
(* the next sub-batch is between its object and its message.                       *)
ObjectsInv ==
  /\ \A m \in published :
       /\ ObjectName(m.arrival, m.batch) \in DOMAIN objects
       /\ m.batch.disposition = "DISPATCHED" =>
            objects[ObjectName(m.arrival, m.batch)] = Stamped(m.batch)
  /\ job.pc = "publish" =>
       /\ ObjectName(position + 1, Current) \in DOMAIN objects
       /\ objects[ObjectName(position + 1, Current)] = Stamped(Current)

(* A sub-batch that is written over was the same, if it was dispatched. *)
LEMMA ObjectsNext ==
  ASSUME Strict
  PROVE  ConsumerInv /\ ObjectsInv /\ [Next]_vars => ObjectsInv'
<1> SUFFICES ASSUME ConsumerInv, ObjectsInv, [Next]_vars PROVE ObjectsInv'
  OBVIOUS
<1>1. ASSUME UNCHANGED <<objects, published>>, (job' = job /\ position' = position) \/ job'.pc # "publish"
      PROVE  ObjectsInv'
  BY <1>1 DEF ObjectsInv, Current
<1>2. ASSUME WriteCanonical PROVE ObjectsInv'
  <2> DEFINE name == ObjectName(position + 1, Current)
  <2>1. /\ job.pc = "write" /\ job' = [job EXCEPT !.pc = "publish"] /\ UNCHANGED <<raw, position, published>>
        /\ objects' = [n \in DOMAIN objects \cup {name} |-> IF n = name THEN Stamped(Current) ELSE objects[n]]
    BY <1>2 DEF WriteCanonical, WriteParquet, Current
  <2>2. Working
    BY <2>1 DEF ConsumerInv, JobInv, Idle, Down
  <2>3. raw[position + 1] \in Files /\ SubBatch(raw[position + 1], job.at, Current)
    BY <2>2, CurrentIs DEF ConsumerInv
  <2>4. Current' = Current /\ position' = position
    BY <2>1, <2>2 DEF Working, Current
  <2>5. ASSUME NEW m \in published
        PROVE  /\ ObjectName(m.arrival, m.batch) \in DOMAIN objects'
               /\ m.batch.disposition = "DISPATCHED" =>
                    objects'[ObjectName(m.arrival, m.batch)] = Stamped(m.batch)
    <3> DEFINE own == ObjectName(m.arrival, m.batch)
    <3>1. own \in DOMAIN objects /\ (m.batch.disposition = "DISPATCHED" => objects[own] = Stamped(m.batch))
      BY DEF ObjectsInv
    <3>2. ASSUME own = name, m.batch.disposition = "DISPATCHED" PROVE Stamped(m.batch) = Stamped(Current)
      <4>1. IsMessage(m)
        BY DEF ConsumerInv, MessagesInv
      <4>2. m.arrival = position + 1
        BY <3>2 DEF ObjectName
      <4>3. PICK k : SubBatch(raw[position + 1], k, m.batch)
        BY <4>1, <4>2 DEF IsMessage
      <4>4. ObjectName(position + 1, m.batch) = ObjectName(position + 1, Current)
        BY <3>2, <4>2
      <4> QED BY <2>3, <3>2, <4>3, <4>4, SameNameSameObject
    <3> HIDE DEF own, name, Current
    <3> QED BY <2>1, <3>1, <3>2 DEF own
  <2>6. name \in DOMAIN objects' /\ objects'[name] = Stamped(Current)
    BY <2>1
  <2> HIDE DEF Current
  <2> QED BY <2>1, <2>4, <2>5, <2>6 DEF ObjectsInv
<1>3. ASSUME Publish PROVE ObjectsInv'
  <2>1. /\ job.pc = "publish" /\ UNCHANGED objects
        /\ published' = published \cup {ToProto(position + 1, Current)}
        /\ job' = IF job.at < Len(job.batches) THEN [job EXCEPT !.pc = "write", !.at = job.at + 1]
                  ELSE [job EXCEPT !.pc = "done"]
    BY <1>3 DEF Publish, Current
  <2>2. Working
    BY <2>1 DEF ConsumerInv, JobInv, Idle, Down
  <2>3. job'.pc # "publish"
    BY <2>1, <2>2 DEF Working
  <2>4. ASSUME NEW m \in published'
        PROVE  /\ ObjectName(m.arrival, m.batch) \in DOMAIN objects
               /\ m.batch.disposition = "DISPATCHED" =>
                    objects[ObjectName(m.arrival, m.batch)] = Stamped(m.batch)
    <3>1. CASE m \in published
      BY <3>1 DEF ObjectsInv
    <3>2. CASE m = ToProto(position + 1, Current)
      <4>1. m.arrival = position + 1 /\ m.batch = Current
        BY <3>2 DEF ToProto
      <4> HIDE DEF Current
      <4> QED BY <2>1, <4>1 DEF ObjectsInv
    <3> QED BY <2>1, <3>1, <3>2
  <2> QED BY <2>1, <2>3, <2>4 DEF ObjectsInv
<1>4. ASSUME NEW file \in Files, Land(file) PROVE ObjectsInv'
  BY <1>1, <1>4 DEF Land
<1>5. ASSUME NEW outcome \in Outcomes, Classify(outcome) PROVE ObjectsInv'
  <2>1. job'.pc # "publish" /\ UNCHANGED <<objects, published>>
    BY <1>5 DEF Classify
  <2> QED BY <1>1, <2>1
<1>6. ASSUME Midnight \/ Reject \/ Raise \/ Restart \/ Commit \/ Crash \/ UNCHANGED vars PROVE ObjectsInv'
  <2>1. UNCHANGED <<objects, published>>
    BY <1>6 DEF Midnight, Reject, Raise, Restart, Commit, Crash, vars
  <2>2. (job' = job /\ position' = position) \/ job'.pc # "publish"
    BY <1>6 DEF Midnight, Reject, Raise, Restart, Commit, Crash, vars, Idle, Down
  <2> QED BY <1>1, <2>1, <2>2
<1> QED BY <1>2, <1>3, <1>4, <1>5, <1>6 DEF Next

(* A dispatched message and the object it names agree, after any crash, replay and  *)
(* midnight, when the threshold is above what a file dated by its arrival can score *)
(* (main.py, _write_canonical; confidence.py, compose and _route).                  *)
THEOREM DispatchesMatchObjects ==
  ASSUME Strict
  PROVE  Spec => []DispatchedMatchesObject
<1>1. Init => ConsumerInv /\ ObjectsInv
  BY ConsumerInit DEF Init, ObjectsInv, Idle
<1>2. ConsumerInv /\ ObjectsInv /\ [Next]_vars => (ConsumerInv /\ ObjectsInv)'
  BY ConsumerNext, ObjectsNext
<1>3. ConsumerInv /\ ObjectsInv => DispatchedMatchesObject
  BY DispatchedIs DEF DispatchedMatchesObject, ObjectsInv
<1> QED BY <1>1, <1>2, <1>3, PTL DEF Spec

----------------------------------------------------------------------------
(* What is behind the consumer: the inductive form of HandledIsAnswered. *)

(* The k-th sub-batch of arrival i was published, on some day. *)
Sent(i, k) == \E m \in published : m.arrival = i /\ m.batch.index = k - 1

(* Arrivals it could not read, and only those, are in the log. *)
LogInv ==
  /\ \A m \in published : raw[m.arrival] \in Readable
  /\ unread \subseteq 1 .. position
  /\ \A i \in 1 .. position : i \in unread <=> raw[i] \notin Readable

SentInv == \A i \in 1 .. position : raw[i] \in Readable => \A k \in DOMAIN Parts(raw[i]) : Sent(i, k)

(* The sub-batches before the one in hand are published. *)
ProgressInv ==
  job \notin {Idle, Down} =>
    /\ raw[position + 1] \in Readable
    /\ \A k \in DOMAIN job.batches : k < job.at \/ job.pc = "done" => Sent(position + 1, k)

AnswersInv == LogInv /\ SentInv /\ ProgressInv

(* What was sent stays sent. *)
LEMMA SentStays ==
  ASSUME NEW i, NEW k, published \subseteq published', Sent(i, k)
  PROVE  Sent(i, k)'
BY DEF Sent

(* A step that neither moves the consumer nor publishes. *)
LEMMA AnswersStay ==
  ASSUME ConsumerInv, AnswersInv, UNCHANGED <<position, published, unread>>,
         \A i \in DOMAIN raw : raw'[i] = raw[i],
         ProgressInv'
  PROVE  AnswersInv'
<1>1. \A i \in 1 .. position : i \in DOMAIN raw
  BY DEF ConsumerInv, QueueInv
<1>2. \A m \in published : m.arrival \in DOMAIN raw
  BY DEF ConsumerInv, MessagesInv, IsMessage
<1>3. LogInv'
  BY <1>1, <1>2 DEF AnswersInv, LogInv
<1>4. SentInv'
  <2> SUFFICES ASSUME NEW i \in 1 .. position, raw[i] \in Readable, NEW k \in DOMAIN Parts(raw[i])
               PROVE  Sent(i, k)'
    BY <1>1 DEF SentInv
  <2>1. Sent(i, k)
    BY DEF AnswersInv, SentInv
  <2> QED BY <2>1, SentStays
<1> QED BY <1>3, <1>4 DEF AnswersInv

(* No step leaves an arrival behind unanswered. *)
LEMMA AnswersNext == ConsumerInv /\ AnswersInv /\ [Next]_vars => AnswersInv'
<1> SUFFICES ASSUME ConsumerInv, AnswersInv, [Next]_vars PROVE AnswersInv'
  OBVIOUS
<1>1. ASSUME NEW file \in Files, Land(file) PROVE AnswersInv'
  <2>1. raw' = Append(raw, file) /\ UNCHANGED <<position, job, published, unread>> /\ raw \in Seq(Files)
    BY <1>1 DEF Land, ConsumerInv, QueueInv
  <2>2. \A i \in DOMAIN raw : raw'[i] = raw[i]
    BY <2>1
  <2>3. ProgressInv'
    <3>1. CASE job \in {Idle, Down}
      BY <2>1, <3>1 DEF ProgressInv
    <3>2. CASE job \notin {Idle, Down}
      <4>1. Working
        BY <3>2 DEF ConsumerInv, JobInv
      <4>2. position + 1 \in DOMAIN raw
        BY <4>1, CurrentIs DEF ConsumerInv
      <4>3. raw'[position + 1] \in Readable
        BY <2>2, <3>2, <4>2 DEF AnswersInv, ProgressInv
      <4> QED BY <2>1, <3>2, <4>3 DEF AnswersInv, ProgressInv, Sent
    <3> QED BY <3>1, <3>2
  <2> QED BY <2>1, <2>2, <2>3, AnswersStay
<1>2. ASSUME Midnight \/ UNCHANGED vars PROVE AnswersInv'
  <2>1. UNCHANGED <<raw, position, job, published, unread>>
    BY <1>2 DEF Midnight, vars
  <2> QED BY <2>1 DEF AnswersInv, LogInv, SentInv, ProgressInv, Sent, Idle, Down
<1>3. ASSUME Reject PROVE AnswersInv'
  <2>1. /\ job = Idle /\ raw[position + 1] \notin Readable /\ unread' = unread \cup {position + 1}
        /\ position' = position + 1 /\ UNCHANGED <<raw, job, published>> /\ position \in Nat
    BY <1>3 DEF Reject, ConsumerInv, QueueInv
  <2>2. \A i \in 1 .. position' : i \in 1 .. position \/ i = position + 1
    BY <2>1
  <2>3. position + 1 \in 1 .. position' /\ 1 .. position \subseteq 1 .. position' /\ position + 1 \notin 1 .. position
    BY <2>1
  <2>4. LogInv'
    BY <2>1, <2>2, <2>3 DEF AnswersInv, LogInv
  <2>5. SentInv'
    BY <2>1, <2>2 DEF AnswersInv, SentInv, Sent
  <2> QED BY <2>1, <2>4, <2>5 DEF AnswersInv, ProgressInv, Idle, Down
<1>4. ASSUME NEW outcome \in Outcomes, Classify(outcome) PROVE AnswersInv'
  <2>1. /\ raw[position + 1] \in Readable /\ UNCHANGED <<raw, position, published, unread>>
        /\ job'.at = 1 /\ job'.pc = "write"
    BY <1>4 DEF Classify
  <2>2. ConsumerInv'
    BY ConsumerNext
  <2>3. job' \notin {Idle, Down}
    BY <2>1 DEF Idle, Down
  <2>4. \A k \in DOMAIN job'.batches : ~ (k < 1)
    <3>1. JobInv' /\ QueueInv'
      BY <2>2 DEF ConsumerInv
    <3>2. Working'
      BY <2>3, <3>1 DEF JobInv, Idle, Down
    <3>3. (DOMAIN job.batches = 1 .. Len(job.batches) /\ Len(job.batches) \in Nat)'
      <4>1. raw[position + 1] \in Files
        BY <2>1 DEF Readable
      <4>2. PICK o \in Outcomes, day \in FirstDay .. LastDay :
              job'.batches = Classifications(raw[position + 1], o, day)
        BY <2>1, <3>2 DEF Working
      <4> QED BY <4>1, <4>2, ClassificationsAre
    <3> QED BY <3>3
  <2>5. ProgressInv'
    BY <2>1, <2>4 DEF ProgressInv
  <2> QED BY <2>1, <2>5, AnswersStay
<1>5. ASSUME WriteCanonical PROVE AnswersInv'
  <2>1. job.pc = "write" /\ job' = [job EXCEPT !.pc = "publish"] /\ UNCHANGED <<raw, position, published, unread>>
    BY <1>5 DEF WriteCanonical
  <2>2. Working /\ job \notin {Idle, Down}
    BY <2>1 DEF ConsumerInv, JobInv, Idle, Down
  <2>3. job'.batches = job.batches /\ job'.at = job.at /\ job'.pc = "publish"
    BY <2>1, <2>2 DEF Working
  <2>4. ProgressInv'
    BY <2>1, <2>2, <2>3 DEF AnswersInv, ProgressInv, Sent
  <2> QED BY <2>1, <2>4, AnswersStay
<1>6. ASSUME Publish PROVE AnswersInv'
  <2>1. /\ job.pc = "publish" /\ UNCHANGED <<raw, position, unread>>
        /\ published' = published \cup {ToProto(position + 1, Current)}
        /\ job' = IF job.at < Len(job.batches) THEN [job EXCEPT !.pc = "write", !.at = job.at + 1]
                  ELSE [job EXCEPT !.pc = "done"]
    BY <1>6 DEF Publish, Current
  <2>2. Working /\ job \notin {Idle, Down}
    BY <2>1 DEF ConsumerInv, JobInv, Idle, Down
  <2>3. /\ raw[position + 1] \in Files /\ SubBatch(raw[position + 1], job.at, Current)
        /\ DOMAIN job.batches = 1 .. Len(job.batches) /\ Len(job.batches) \in Nat
    BY <2>2, CurrentIs DEF ConsumerInv
  <2>4. Current.index = job.at - 1
    <3> HIDE DEF Current
    <3> QED BY <2>3, SubBatchIs
  <2> DEFINE message == ToProto(position + 1, Current)
  <2>5. message.arrival = position + 1 /\ message.batch.index = job.at - 1
    BY <2>4 DEF ToProto
  <2> HIDE DEF message
  <2>6. published' = published \cup {message}
    BY <2>1 DEF message
  <2>7. \A i, k : Sent(i, k) => Sent(i, k)'
    BY <2>6 DEF Sent
  <2>8. \E m \in published' : m.arrival = position + 1 /\ m.batch.index = job.at - 1
    BY <2>5, <2>6
  <2>9. job.at \in Nat /\ job.at \in DOMAIN job.batches
    BY <2>2, <2>3 DEF Working
  <2>10. /\ job'.batches = job.batches
         /\ \/ job'.pc = "write" /\ job'.at = job.at + 1
            \/ job'.pc = "done" /\ ~ (job.at < Len(job.batches))
    BY <2>1, <2>2 DEF Working
  <2>11. \A k \in DOMAIN job.batches : k < job'.at \/ job'.pc = "done" => k < job.at \/ k = job.at
    BY <2>3, <2>9, <2>10
  <2>12. \A k \in DOMAIN job.batches : k < job.at => Sent(position + 1, k)
    BY <2>2 DEF AnswersInv, ProgressInv
  <2>13. ProgressInv'
    <3>1. \A k \in DOMAIN job.batches : k < job'.at \/ job'.pc = "done" =>
            \E m \in published' : m.arrival = position + 1 /\ m.batch.index = k - 1
      BY <2>6, <2>8, <2>11, <2>12 DEF Sent
    <3>2. raw[position + 1] \in Readable
      BY <2>2 DEF AnswersInv, ProgressInv
    <3> QED BY <2>1, <2>10, <3>1, <3>2 DEF ProgressInv, Sent
  <2>14. LogInv'
    <3>1. raw[position + 1] \in Readable
      BY <2>2 DEF AnswersInv, ProgressInv
    <3> QED BY <2>1, <2>5, <2>6, <3>1 DEF AnswersInv, LogInv
  <2>15. SentInv'
    BY <2>1, <2>7 DEF AnswersInv, SentInv
  <2> QED BY <2>13, <2>14, <2>15 DEF AnswersInv
<1>7. ASSUME Commit PROVE AnswersInv'
  <2>1. job.pc = "done" /\ job' = Idle /\ position' = position + 1 /\ UNCHANGED <<raw, published, unread>>
        /\ position \in Nat
    BY <1>7 DEF Commit, ConsumerInv, QueueInv
  <2>2. Working /\ job \notin {Idle, Down}
    BY <2>1 DEF ConsumerInv, JobInv, Idle, Down
  <2>3. raw[position + 1] \in Files
    BY <2>2, CurrentIs DEF ConsumerInv
  <2>4. DOMAIN job.batches = DOMAIN Parts(raw[position + 1])
    BY <2>2, <2>3, ClassificationsAre DEF Working
  <2>5. raw[position + 1] \in Readable /\ \A k \in DOMAIN Parts(raw[position + 1]) : Sent(position + 1, k)
    BY <2>1, <2>2, <2>4 DEF AnswersInv, ProgressInv
  <2>6. \A i \in 1 .. position' : i \in 1 .. position \/ i = position + 1
    BY <2>1
  <2>7. position + 1 \notin 1 .. position /\ 1 .. position \subseteq 1 .. position'
    BY <2>1
  <2>8. LogInv'
    BY <2>1, <2>5, <2>6, <2>7 DEF AnswersInv, LogInv
  <2>9. SentInv'
    BY <2>1, <2>5, <2>6 DEF AnswersInv, SentInv, Sent
  <2> QED BY <2>1, <2>8, <2>9 DEF AnswersInv, ProgressInv, Idle, Down
<1>8. ASSUME Crash PROVE AnswersInv'
  <2>1. job' = Idle /\ UNCHANGED <<raw, position, published, unread>>
    BY <1>8 DEF Crash
  <2> QED BY <2>1 DEF AnswersInv, LogInv, SentInv, ProgressInv, Sent, Idle, Down
<1>9. ASSUME Raise \/ Restart PROVE AnswersInv'
  <2>1. job' \in {Idle, Down} /\ UNCHANGED <<raw, position, published, unread>>
    BY <1>9 DEF Raise, Restart
  <2>2. ProgressInv'
    BY <2>1 DEF ProgressInv
  <2> QED BY <2>1, <2>2, AnswersStay
<1> QED BY <1>1, <1>2, <1>3, <1>4, <1>5, <1>6, <1>7, <1>8, <1>9 DEF Next

(* Every arrival the consumer has moved past was logged as unreadable, or every    *)
(* sub-batch its messages count was published, whatever was published of it before *)
(* a death, for another outcome or on another day (main.py, handle).               *)
THEOREM HandledArrivalsAreAnswered == Spec => []HandledIsAnswered
<1>1. Init => ConsumerInv /\ AnswersInv
  BY ConsumerInit DEF Init, AnswersInv, LogInv, SentInv, ProgressInv, Idle, Down
<1>2. ConsumerInv /\ AnswersInv /\ [Next]_vars => (ConsumerInv /\ AnswersInv)'
  BY ConsumerNext, AnswersNext
<1>3. ConsumerInv /\ AnswersInv => HandledIsAnswered
  <2> SUFFICES ASSUME ConsumerInv, AnswersInv, NEW i \in 1 .. position
               PROVE  /\ i \in unread <=> MessagesOf(i) = {}
                      /\ \A m \in MessagesOf(i) : \A k \in 0 .. m.batch.total - 1 :
                           \E n \in MessagesOf(i) : n.batch.index = k /\ n.batch.total = m.batch.total
    BY DEF HandledIsAnswered
  <2>1. i \in DOMAIN raw /\ raw[i] \in Files
    BY DEF ConsumerInv, QueueInv
  <2>2. i \in unread => MessagesOf(i) = {}
    BY DEF AnswersInv, LogInv, MessagesOf
  <2>3. Len(Parts(raw[i])) \in Nat /\ Len(Parts(raw[i])) >= 1 /\ DOMAIN Parts(raw[i]) = 1 .. Len(Parts(raw[i]))
    BY <2>1, ClassificationsAre
  <2>4. i \notin unread => \A k \in DOMAIN Parts(raw[i]) : Sent(i, k)
    BY DEF AnswersInv, LogInv, SentInv
  <2>5. i \notin unread => MessagesOf(i) # {}
    <3>1. 1 \in DOMAIN Parts(raw[i])
      BY <2>3
    <3> QED BY <2>4, <3>1 DEF Sent, MessagesOf
  <2>6. \A m \in MessagesOf(i) : m.batch.total = Len(Parts(raw[i]))
    <3> TAKE m \in MessagesOf(i)
    <3>1. m.arrival = i /\ IsMessage(m)
      BY DEF MessagesOf, ConsumerInv, MessagesInv
    <3>2. PICK k : SubBatch(raw[i], k, m.batch)
      BY <3>1 DEF IsMessage
    <3> QED BY <2>1, <3>2, SubBatchIs
  <2>7. ASSUME NEW m \in MessagesOf(i), NEW k \in 0 .. m.batch.total - 1
        PROVE  \E n \in MessagesOf(i) : n.batch.index = k /\ n.batch.total = m.batch.total
    <3>1. k + 1 \in DOMAIN Parts(raw[i]) /\ (k + 1) - 1 = k
      BY <2>3, <2>6
    <3>2. i \notin unread
      BY <2>2
    <3>3. PICK n \in published : n.arrival = i /\ n.batch.index = (k + 1) - 1
      BY <2>4, <3>1, <3>2 DEF Sent
    <3>4. n \in MessagesOf(i)
      BY <3>3 DEF MessagesOf
    <3> QED BY <2>6, <3>1, <3>3, <3>4
  <2> QED BY <2>2, <2>5, <2>7
<1> QED BY <1>1, <1>2, <1>3, PTL DEF Spec

=============================================================================
