--------------------------- MODULE CalendarProofs ---------------------------
(***************************************************************************)
(* The business-day calendar, for every set of closed days whose runs end  *)
(* within the search, every late window and every day.                     *)
(*                                                                         *)
(* The walks are recursive functions, so what they come to is shown by the *)
(* least number of steps at which it could first be wrong.                 *)
(***************************************************************************)
EXTENDS Calendar, FiniteSetTheorems, WellFoundedInduction, NaturalsInduction, TLAPS

----------------------------------------------------------------------------
(* Least elements *)

(* A set of naturals that is not empty has a least element. *)
LEMMA LeastOfNats ==
  ASSUME NEW S \in SUBSET Nat, S # {}
  PROVE  /\ Min(S) \in S
         /\ \A k \in S : Min(S) <= k
<1> DEFINE R == OpToRel(<, Nat)
<1>1. R = {p \in Nat \X Nat : p[1] < p[2]}
  BY DEF OpToRel
<1>2. IsWellFoundedOn(R, Nat)
  BY NatLessThanWellFounded
<1> HIDE DEF R
<1>3. PICK n \in S : \A k \in S : ~ (<<k, n>> \in R)
  BY <1>2, WFMin
<1>4. ASSUME NEW k \in S PROVE n <= k
  <2>1. <<k, n>> \in Nat \X Nat /\ ~ (k < n)
    BY <1>1, <1>3
  <2> QED BY <2>1
<1> QED BY <1>4 DEF Min

(* A set of numbers of steps that holds neither 0 nor the successor of a number    *)
(* outside it is empty.                                                          *)
LEMMA NoFirst ==
  ASSUME NEW S \in SUBSET Nat, 0 \notin S, \A k \in Nat \ S : k + 1 \notin S
  PROVE  S = {}
<1> SUFFICES ASSUME S # {} PROVE FALSE
  OBVIOUS
<1>1. Min(S) \in S /\ \A k \in S : Min(S) <= k
  BY LeastOfNats
<1>2. PICK m \in Nat : m + 1 = Min(S)
  <2>1. Min(S) \in Nat /\ Min(S) # 0
    BY <1>1
  <2>2. Min(S) - 1 \in Nat /\ (Min(S) - 1) + 1 = Min(S)
    BY <2>1
  <2> QED BY <2>2
<1>3. m \notin S
  BY <1>1, <1>2
<1> QED BY <1>1, <1>2, <1>3

(* A finite set of days that is not empty has a first day. *)
LEMMA FirstDay ==
  ASSUME NEW D \in SUBSET Int, IsFiniteSet(D), D # {}
  PROVE  Min(D) \in D
<1> DEFINE Least(T) == \E x \in T : \A y \in T : x <= y
           Bad == {n \in Nat : \E T \in SUBSET Int : /\ IsFiniteSet(T) /\ Cardinality(T) = n
                                                     /\ T # {} /\ ~Least(T)}
<1>1. 0 \notin Bad
  BY FS_EmptySet
<1>2. ASSUME NEW n \in Nat \ Bad PROVE n + 1 \notin Bad
  <2> SUFFICES ASSUME NEW T \in SUBSET Int, IsFiniteSet(T), Cardinality(T) = n + 1, T # {}
               PROVE  Least(T)
    OBVIOUS
  <2>1. PICK x \in T : TRUE
    OBVIOUS
  <2>2. IsFiniteSet(T \ {x}) /\ Cardinality(T \ {x}) = Cardinality(T) - 1
    BY <2>1, FS_RemoveElement
  <2>3. Cardinality(T \ {x}) = n
    BY <2>2
  <2>4. CASE T \ {x} = {}
    BY <2>1, <2>4
  <2>5. CASE T \ {x} # {}
    <3>1. PICK y \in T \ {x} : \A z \in T \ {x} : y <= z
      BY <1>2, <2>2, <2>3, <2>5
    <3> QED BY <2>1, <3>1
  <2> QED BY <2>4, <2>5
<1> HIDE DEF Bad
<1>3. Bad = {}
  <2>1. Bad \in SUBSET Nat
    BY DEF Bad
  <2> QED BY <1>1, <1>2, <2>1, NoFirst
<1>4. Cardinality(D) \in Nat
  BY FS_CardinalityType
<1>5. Least(D)
  BY <1>3, <1>4 DEF Bad
<1> QED BY <1>5 DEF Min

----------------------------------------------------------------------------
(* One step *)

(* The search of NextBusinessDay ends, and ends on the next open day. *)
LEMMA NextIs ==
  ASSUME closed \in Calendars, NEW d \in Int
  PROVE  /\ NextBusinessDay(d) \in Int /\ d < NextBusinessDay(d)
         /\ IsBusinessDay(NextBusinessDay(d))
         /\ \A e \in Int : d < e /\ e < NextBusinessDay(d) => ~IsBusinessDay(e)
<1> DEFINE steps == {i \in 1 .. MaxSteps : IsBusinessDay(d + i)}
<1>1. steps # {}
  <2>1. CASE d + 1 \in Days
    <3>1. PICK i \in 0 .. MaxSteps - 1 : (d + 1) + i \notin closed
      BY <2>1 DEF Calendars
    <3>2. i + 1 \in 1 .. MaxSteps /\ d + (i + 1) = (d + 1) + i
      BY CalendarAssumption
    <3>3. i + 1 \in steps
      BY <3>1, <3>2 DEF IsBusinessDay
    <3> QED BY <3>3
  <2>2. CASE d + 1 \notin Days
    BY <2>2, CalendarAssumption DEF Calendars, IsBusinessDay
  <2> QED BY <2>1, <2>2
<1>2. NextBusinessDay(d) = d + Min(steps)
  BY <1>1 DEF NextBusinessDay
<1>3. Min(steps) \in steps /\ \A k \in steps : Min(steps) <= k
  <2>1. steps \in SUBSET Nat
    BY CalendarAssumption
  <2> QED BY <1>1, <2>1, LeastOfNats
<1>4. ASSUME NEW e \in Int, d < e, e < NextBusinessDay(d) PROVE ~IsBusinessDay(e)
  <2>1. e - d \in 1 .. MaxSteps /\ d + (e - d) = e /\ ~ (Min(steps) <= e - d)
    BY <1>2, <1>3, <1>4, CalendarAssumption
  <2> QED BY <1>3, <2>1
<1> QED BY <1>2, <1>3, <1>4, CalendarAssumption

(* The search of PreviousBusinessDay ends, and ends on the open day before. *)
LEMMA PreviousIs ==
  ASSUME closed \in Calendars, NEW d \in Int
  PROVE  /\ PreviousBusinessDay(d) \in Int /\ PreviousBusinessDay(d) < d
         /\ IsBusinessDay(PreviousBusinessDay(d))
         /\ \A e \in Int : PreviousBusinessDay(d) < e /\ e < d => ~IsBusinessDay(e)
<1> DEFINE steps == {i \in 1 .. MaxSteps : IsBusinessDay(d - i)}
<1>1. steps # {}
  <2>1. CASE d - MaxSteps \in Days
    <3>1. PICK i \in 0 .. MaxSteps - 1 : (d - MaxSteps) + i \notin closed
      BY <2>1 DEF Calendars
    <3>2. MaxSteps - i \in 1 .. MaxSteps /\ d - (MaxSteps - i) = (d - MaxSteps) + i
      BY CalendarAssumption
    <3>3. MaxSteps - i \in steps
      BY <3>1, <3>2 DEF IsBusinessDay
    <3> QED BY <3>3
  <2>2. CASE d - MaxSteps \notin Days
    BY <2>2, CalendarAssumption DEF Calendars, IsBusinessDay
  <2> QED BY <2>1, <2>2
<1>2. PreviousBusinessDay(d) = d - Min(steps)
  BY <1>1 DEF PreviousBusinessDay
<1>3. Min(steps) \in steps /\ \A k \in steps : Min(steps) <= k
  <2>1. steps \in SUBSET Nat
    BY CalendarAssumption
  <2> QED BY <1>1, <2>1, LeastOfNats
<1>4. ASSUME NEW e \in Int, PreviousBusinessDay(d) < e, e < d PROVE ~IsBusinessDay(e)
  <2>1. d - e \in 1 .. MaxSteps /\ d - (d - e) = e /\ ~ (Min(steps) <= d - e)
    BY <1>2, <1>3, <1>4, CalendarAssumption
  <2> QED BY <1>3, <2>1
<1> QED BY <1>2, <1>3, <1>4, CalendarAssumption

(* A step back from a stays at or before b exactly if a step forward from b does   *)
(* not stop before a.                                                            *)
LEMMA StepsAgree ==
  ASSUME closed \in Calendars, NEW a \in Int, NEW b \in Int
  PROVE  PreviousBusinessDay(a) <= b <=> a <= NextBusinessDay(b)
<1> DEFINE n == NextBusinessDay(b)
           p == PreviousBusinessDay(a)
<1>1. n \in Int /\ b < n /\ IsBusinessDay(n) /\ \A e \in Int : b < e /\ e < n => ~IsBusinessDay(e)
  BY NextIs
<1>2. p \in Int /\ p < a /\ IsBusinessDay(p) /\ \A e \in Int : p < e /\ e < a => ~IsBusinessDay(e)
  BY PreviousIs
<1> HIDE DEF n, p
<1> QED BY <1>1, <1>2 DEF n, p

----------------------------------------------------------------------------
(* The walks *)

(* A walk by any step has its days after every number of steps. *)
LEMMA WalkExists ==
  ASSUME NEW s \in [Int -> Int], NEW d \in Int
  PROVE  \E f \in [Nat -> Int] : f[0] = d /\ \A k \in Nat : f[k + 1] = s[f[k]]
<1> DEFINE A(n, f) == f \in [0 .. n -> Int] /\ f[0] = d /\ \A k \in Nat : k < n => f[k + 1] = s[f[k]]
           Short == {n \in Nat : ~ \E f : A(n, f)}
<1>1. Short = {}
  <2>1. 0 \notin Short
    <3>1. A(0, [k \in 0 .. 0 |-> d])
      OBVIOUS
    <3> QED BY <3>1
  <2>2. ASSUME NEW n \in Nat \ Short PROVE n + 1 \notin Short
    <3>1. PICK f : A(n, f)
      BY <2>2
    <3> DEFINE g == [k \in 0 .. n + 1 |-> IF k = n + 1 THEN s[f[n]] ELSE f[k]]
    <3>2. f[n] \in Int /\ s[f[n]] \in Int
      BY <3>1
    <3>3. g \in [0 .. n + 1 -> Int] /\ g[0] = d
      BY <3>1, <3>2
    <3>4. ASSUME NEW k \in Nat, k < n + 1 PROVE g[k + 1] = s[g[k]]
      <4>1. k \in 0 .. n + 1 /\ k + 1 \in 0 .. n + 1 /\ k # n + 1
        BY <3>4
      <4>2. g[k] = f[k] /\ g[k + 1] = IF k = n THEN s[f[n]] ELSE f[k + 1]
        BY <4>1
      <4>3. CASE k = n
        BY <4>2, <4>3
      <4>4. CASE k # n
        <5>1. k < n
          BY <3>4, <4>4
        <5> QED BY <3>1, <4>2, <4>4, <5>1
      <4> QED BY <4>3, <4>4
    <3>5. A(n + 1, g)
      BY <3>3, <3>4
    <3> HIDE DEF g
    <3> QED BY <3>5
  <2>3. Short \in SUBSET Nat
    OBVIOUS
  <2> HIDE DEF Short
  <2> QED BY <2>1, <2>2, <2>3, NoFirst
<1>2. ASSUME NEW m \in Nat, NEW n \in Nat, NEW f, NEW g, A(m, f), A(n, g)
      PROVE  \A k \in Nat : k <= m /\ k <= n => f[k] = g[k]
  <2> DEFINE Differ == {k \in Nat : k <= m /\ k <= n /\ f[k] # g[k]}
  <2>1. 0 \notin Differ
    BY <1>2
  <2>2. ASSUME NEW k \in Nat \ Differ PROVE k + 1 \notin Differ
    BY <1>2, <2>2
  <2>3. Differ \in SUBSET Nat
    OBVIOUS
  <2> HIDE DEF Differ
  <2>4. Differ = {}
    BY <2>1, <2>2, <2>3, NoFirst
  <2> QED BY <2>4 DEF Differ
<1> DEFINE Upto(n) == CHOOSE f : A(n, f)
           F == [n \in Nat |-> Upto(n)[n]]
<1>3. ASSUME NEW n \in Nat PROVE A(n, Upto(n))
  <2>1. \E f : A(n, f)
    BY <1>1
  <2> HIDE DEF A
  <2> QED BY <2>1, Zenon
<1> HIDE DEF Upto
<1>4. F \in [Nat -> Int] /\ F[0] = d
  BY <1>3
<1>5. ASSUME NEW k \in Nat PROVE F[k + 1] = s[F[k]]
  <2> HIDE DEF A
  <2>1. k + 1 \in Nat /\ k <= k /\ k <= k + 1 /\ k < k + 1
    OBVIOUS
  <2>2. A(k, Upto(k)) /\ A(k + 1, Upto(k + 1))
    BY <1>3, <2>1
  <2>3. \A j \in Nat : j <= k + 1 /\ j <= k => Upto(k + 1)[j] = Upto(k)[j]
    BY <1>2, <2>1, <2>2
  <2>4. Upto(k + 1)[k + 1] = s[Upto(k + 1)[k]]
    BY <2>1, <2>2 DEF A
  <2> QED BY <2>1, <2>3, <2>4
<1> HIDE DEF F
<1> QED BY <1>4, <1>5

(* The walk forward from a day: it starts there and goes on by NextBusinessDay. *)
LEMMA ForwardIs ==
  ASSUME closed \in Calendars, NEW d \in Int
  PROVE  /\ Forward(d) \in [Nat -> Int] /\ Forward(d)[0] = d
         /\ \A k \in Nat : Forward(d)[k + 1] = NextBusinessDay(Forward(d)[k])
<1> DEFINE Walks(f) == f = [k \in Nat |-> IF k = 0 THEN d ELSE NextBusinessDay(f[k - 1])]
           s == [e \in Int |-> NextBusinessDay(e)]
<1>1. s \in [Int -> Int]
  BY NextIs
<1> HIDE DEF s
<1>2. PICK f \in [Nat -> Int] : f[0] = d /\ \A k \in Nat : f[k + 1] = s[f[k]]
  BY <1>1, WalkExists
<1>3. ASSUME NEW k \in Nat PROVE f[k] = IF k = 0 THEN d ELSE NextBusinessDay(f[k - 1])
  <2>1. CASE k = 0
    BY <1>2, <2>1
  <2>2. CASE k # 0
    <3>1. k - 1 \in Nat /\ (k - 1) + 1 = k
      BY <2>2
    <3>2. f[k] = s[f[k - 1]] /\ f[k - 1] \in Int
      BY <1>2, <3>1
    <3> QED BY <2>2, <3>2 DEF s
  <2> QED BY <2>1, <2>2
<1>4. Walks(f)
  BY <1>3
<1>5. Forward(d) = CHOOSE g : Walks(g)
  BY DEF Forward
<1> HIDE DEF Walks
<1>6. Walks(Forward(d))
  BY <1>4, <1>5, Zenon
<1> DEFINE w == Forward(d)
<1>7. Walks(w)
  BY <1>6
<1> HIDE DEF w
<1>8. w[0] = d /\ \A k \in Nat : w[k + 1] = NextBusinessDay(w[k])
  BY <1>7 DEF Walks
<1>9. \A k \in Nat : w[k] \in Int
  <2> DEFINE Off == {k \in Nat : w[k] \notin Int}
  <2>1. 0 \notin Off /\ Off \in SUBSET Nat
    BY <1>8
  <2>2. \A k \in Nat \ Off : k + 1 \notin Off
    BY <1>8, NextIs
  <2> HIDE DEF Off
  <2>3. Off = {}
    BY <2>1, <2>2, NoFirst
  <2> QED BY <2>3 DEF Off
<1>10. w \in [Nat -> Int]
  <2>1. w = [k \in Nat |-> IF k = 0 THEN d ELSE NextBusinessDay(w[k - 1])]
    BY <1>7 DEF Walks
  <2>2. w = [k \in Nat |-> w[k]]
    BY <2>1
  <2> QED BY <1>9, <2>2
<1> QED BY <1>8, <1>10 DEF w

(* The walk back from a day: it starts there and goes on by PreviousBusinessDay. *)
LEMMA BackIs ==
  ASSUME closed \in Calendars, NEW d \in Int
  PROVE  /\ Back(d) \in [Nat -> Int] /\ Back(d)[0] = d
         /\ \A k \in Nat : Back(d)[k + 1] = PreviousBusinessDay(Back(d)[k])
<1> DEFINE Walks(f) == f = [k \in Nat |-> IF k = 0 THEN d ELSE PreviousBusinessDay(f[k - 1])]
           s == [e \in Int |-> PreviousBusinessDay(e)]
<1>1. s \in [Int -> Int]
  BY PreviousIs
<1> HIDE DEF s
<1>2. PICK f \in [Nat -> Int] : f[0] = d /\ \A k \in Nat : f[k + 1] = s[f[k]]
  BY <1>1, WalkExists
<1>3. ASSUME NEW k \in Nat PROVE f[k] = IF k = 0 THEN d ELSE PreviousBusinessDay(f[k - 1])
  <2>1. CASE k = 0
    BY <1>2, <2>1
  <2>2. CASE k # 0
    <3>1. k - 1 \in Nat /\ (k - 1) + 1 = k
      BY <2>2
    <3>2. f[k] = s[f[k - 1]] /\ f[k - 1] \in Int
      BY <1>2, <3>1
    <3> QED BY <2>2, <3>2 DEF s
  <2> QED BY <2>1, <2>2
<1>4. Walks(f)
  BY <1>3
<1>5. Back(d) = CHOOSE g : Walks(g)
  BY DEF Back
<1> HIDE DEF Walks
<1>6. Walks(Back(d))
  BY <1>4, <1>5, Zenon
<1> DEFINE w == Back(d)
<1>7. Walks(w)
  BY <1>6
<1> HIDE DEF w
<1>8. w[0] = d /\ \A k \in Nat : w[k + 1] = PreviousBusinessDay(w[k])
  BY <1>7 DEF Walks
<1>9. \A k \in Nat : w[k] \in Int
  <2> DEFINE Off == {k \in Nat : w[k] \notin Int}
  <2>1. 0 \notin Off /\ Off \in SUBSET Nat
    BY <1>8
  <2>2. \A k \in Nat \ Off : k + 1 \notin Off
    BY <1>8, PreviousIs
  <2> HIDE DEF Off
  <2>3. Off = {}
    BY <2>1, <2>2, NoFirst
  <2> QED BY <2>3 DEF Off
<1>10. w \in [Nat -> Int]
  <2>1. w = [k \in Nat |-> IF k = 0 THEN d ELSE PreviousBusinessDay(w[k - 1])]
    BY <1>7 DEF Walks
  <2>2. w = [k \in Nat |-> w[k]]
    BY <2>1
  <2> QED BY <1>9, <2>2
<1> QED BY <1>8, <1>10 DEF w

(* The first step of a walk can be taken before it. *)
LEMMA ForwardFromNext ==
  ASSUME closed \in Calendars, NEW d \in Int, NEW n \in Nat
  PROVE  Forward(NextBusinessDay(d))[n] = Forward(d)[n + 1]
<1> DEFINE f == Forward(d)
           g == Forward(NextBusinessDay(d))
           Off == {k \in Nat : g[k] # f[k + 1]}
<1>1. /\ f[0] = d /\ \A k \in Nat : f[k + 1] = NextBusinessDay(f[k])
      /\ g[0] = NextBusinessDay(d) /\ \A k \in Nat : g[k + 1] = NextBusinessDay(g[k])
  BY NextIs, ForwardIs
<1> HIDE DEF f, g
<1>2. 0 \notin Off /\ Off \in SUBSET Nat
  <2>1. f[0 + 1] = NextBusinessDay(f[0])
    BY <1>1
  <2> QED BY <1>1, <2>1
<1>3. \A k \in Nat \ Off : k + 1 \notin Off
  BY <1>1
<1> HIDE DEF Off
<1>4. Off = {}
  BY <1>2, <1>3, NoFirst
<1> QED BY <1>4 DEF Off, f, g

(* n steps back from a end at or before b exactly if n steps forward from b do not *)
(* stop before a: the step that StepsAgree is about is moved from the end of one   *)
(* walk to the start of the other.                                               *)
LEMMA WalksAgree ==
  ASSUME closed \in Calendars, NEW n \in Nat, NEW a \in Int, NEW b \in Int
  PROVE  Back(a)[n] <= b <=> a <= Forward(b)[n]
<1> DEFINE Off == {k \in Nat : \E c, d \in Int : ~ (Back(c)[k] <= d <=> c <= Forward(d)[k])}
<1>1. 0 \notin Off /\ Off \in SUBSET Nat
  BY ForwardIs, BackIs
<1>2. ASSUME NEW k \in Nat \ Off PROVE k + 1 \notin Off
  <2> SUFFICES ASSUME NEW c \in Int, NEW d \in Int
               PROVE  Back(c)[k + 1] <= d <=> c <= Forward(d)[k + 1]
    OBVIOUS
  <2>1. Back(c)[k + 1] = PreviousBusinessDay(Back(c)[k]) /\ Back(c)[k] \in Int
    BY BackIs
  <2>2. PreviousBusinessDay(Back(c)[k]) <= d <=> Back(c)[k] <= NextBusinessDay(d)
    BY <2>1, StepsAgree
  <2>3. Back(c)[k] <= NextBusinessDay(d) <=> c <= Forward(NextBusinessDay(d))[k]
    BY <1>2, NextIs
  <2>4. Forward(NextBusinessDay(d))[k] = Forward(d)[k + 1]
    BY ForwardFromNext
  <2> QED BY <2>1, <2>2, <2>3, <2>4
<1> HIDE DEF Off
<1>3. Off = {}
  BY <1>1, <1>2, NoFirst
<1> QED BY <1>3 DEF Off

(* n steps forward pass n open days. *)
LEMMA ForwardCounts ==
  ASSUME closed \in Calendars, NEW d \in Int, NEW n \in Nat
  PROVE  /\ IsFiniteSet({x \in d + 1 .. Forward(d)[n] : IsBusinessDay(x)})
         /\ BusinessDaysAfter(d, Forward(d)[n]) = n /\ d <= Forward(d)[n]
<1> DEFINE f == Forward(d)
           open(k) == {x \in d + 1 .. f[k] : IsBusinessDay(x)}
           Counts(k) == IsFiniteSet(open(k)) /\ Cardinality(open(k)) = k /\ d <= f[k]
           Off == {k \in Nat : ~Counts(k)}
<1>1. f[0] = d /\ \A k \in Nat : f[k] \in Int /\ f[k + 1] = NextBusinessDay(f[k])
  BY ForwardIs
<1> HIDE DEF f
<1>2. 0 \notin Off /\ Off \in SUBSET Nat
  <2>1. open(0) = {}
    BY <1>1
  <2> HIDE DEF open
  <2> QED BY <1>1, <2>1, FS_EmptySet
<1>3. ASSUME NEW k \in Nat \ Off PROVE k + 1 \notin Off
  <2>1. Counts(k) /\ f[k] \in Int /\ f[k + 1] \in Int /\ f[k] < f[k + 1]
        /\ IsBusinessDay(f[k + 1])
        /\ \A e \in Int : f[k] < e /\ e < f[k + 1] => ~IsBusinessDay(e)
    BY <1>1, NextIs
  <2>2. open(k + 1) = open(k) \cup {f[k + 1]} /\ f[k + 1] \notin open(k)
    BY <2>1
  <2>3. d <= f[k + 1]
    BY <2>1
  <2> HIDE DEF open
  <2>4. IsFiniteSet(open(k + 1)) /\ Cardinality(open(k + 1)) = Cardinality(open(k)) + 1
    BY <2>1, <2>2, FS_AddElement
  <2>5. Cardinality(open(k + 1)) = k + 1
    BY <2>1, <2>4
  <2> QED BY <2>3, <2>4, <2>5
<1> HIDE DEF Off
<1>4. Off = {}
  BY <1>2, <1>3, NoFirst
<1>5. Counts(n)
  BY <1>4 DEF Off
<1> QED BY <1>5 DEF BusinessDaysAfter, f

(* n steps back pass n open days. *)
LEMMA BackCounts ==
  ASSUME closed \in Calendars, NEW d \in Int, NEW n \in Nat
  PROVE  /\ IsFiniteSet({x \in Back(d)[n] .. d - 1 : IsBusinessDay(x)})
         /\ BusinessDaysBefore(Back(d)[n], d) = n /\ Back(d)[n] <= d
<1> DEFINE f == Back(d)
           open(k) == {x \in f[k] .. d - 1 : IsBusinessDay(x)}
           Counts(k) == IsFiniteSet(open(k)) /\ Cardinality(open(k)) = k /\ f[k] <= d
           Off == {k \in Nat : ~Counts(k)}
<1>1. f[0] = d /\ \A k \in Nat : f[k] \in Int /\ f[k + 1] = PreviousBusinessDay(f[k])
  BY BackIs
<1> HIDE DEF f
<1>2. 0 \notin Off /\ Off \in SUBSET Nat
  <2>1. open(0) = {}
    BY <1>1
  <2> HIDE DEF open
  <2> QED BY <1>1, <2>1, FS_EmptySet
<1>3. ASSUME NEW k \in Nat \ Off PROVE k + 1 \notin Off
  <2>1. Counts(k) /\ f[k] \in Int /\ f[k + 1] \in Int /\ f[k + 1] < f[k]
        /\ IsBusinessDay(f[k + 1])
        /\ \A e \in Int : f[k + 1] < e /\ e < f[k] => ~IsBusinessDay(e)
    BY <1>1, PreviousIs
  <2>2. open(k + 1) = open(k) \cup {f[k + 1]} /\ f[k + 1] \notin open(k)
    BY <2>1
  <2>3. f[k + 1] <= d
    BY <2>1
  <2> HIDE DEF open
  <2>4. IsFiniteSet(open(k + 1)) /\ Cardinality(open(k + 1)) = Cardinality(open(k)) + 1
    BY <2>1, <2>2, FS_AddElement
  <2>5. Cardinality(open(k + 1)) = k + 1
    BY <2>1, <2>4
  <2> QED BY <2>3, <2>4, <2>5
<1> HIDE DEF Off
<1>4. Off = {}
  BY <1>2, <1>3, NoFirst
<1>5. Counts(n)
  BY <1>4 DEF Off
<1> QED BY <1>5 DEF BusinessDaysBefore, f

----------------------------------------------------------------------------
(* What the slot machine and the Inspector do with it *)

(* A late window, moved either way. *)
LEMMA MoveIs ==
  ASSUME NEW d \in Int, NEW w \in Windows
  PROVE  /\ w \in Nat /\ w # 0
         /\ AddBusinessDays(d, w) = Forward(d)[w] /\ AddBusinessDays(d, -w) = Back(d)[w]
<1>1. w \in Nat /\ w # 0 /\ w >= 0 /\ ~ (-w >= 0) /\ -(-w) = w
  BY CalendarAssumption
<1> QED BY <1>1 DEF AddBusinessDays

(* A walk of at least one step ends on an open day, off the day it started from. *)
LEMMA MoveEnds ==
  ASSUME closed \in Calendars, NEW d \in Int, NEW w \in Nat, w # 0
  PROVE  /\ Forward(d)[w] \in Int /\ IsBusinessDay(Forward(d)[w]) /\ d < Forward(d)[w]
         /\ Back(d)[w] \in Int /\ IsBusinessDay(Back(d)[w]) /\ Back(d)[w] < d
<1>1. w - 1 \in Nat /\ (w - 1) + 1 = w
  OBVIOUS
<1>2. /\ Forward(d)[w] = NextBusinessDay(Forward(d)[w - 1]) /\ Forward(d)[w - 1] \in Int
      /\ d <= Forward(d)[w - 1]
  BY <1>1, ForwardIs, ForwardCounts
<1>3. /\ Back(d)[w] = PreviousBusinessDay(Back(d)[w - 1]) /\ Back(d)[w - 1] \in Int
      /\ Back(d)[w - 1] <= d
  BY <1>1, BackIs, BackCounts
<1>4. /\ NextBusinessDay(Forward(d)[w - 1]) \in Int /\ Forward(d)[w - 1] < NextBusinessDay(Forward(d)[w - 1])
      /\ IsBusinessDay(NextBusinessDay(Forward(d)[w - 1]))
  BY <1>2, NextIs
<1>5. /\ PreviousBusinessDay(Back(d)[w - 1]) \in Int /\ PreviousBusinessDay(Back(d)[w - 1]) < Back(d)[w - 1]
      /\ IsBusinessDay(PreviousBusinessDay(Back(d)[w - 1]))
  BY <1>3, PreviousIs
<1>6. /\ Forward(d)[w] \in Int /\ IsBusinessDay(Forward(d)[w]) /\ d < Forward(d)[w]
  BY <1>2, <1>4
<1>7. /\ Back(d)[w] \in Int /\ IsBusinessDay(Back(d)[w]) /\ Back(d)[w] < d
  BY <1>3, <1>5
<1> QED BY <1>6, <1>7

(* The registry does not change, and the clock shows a day. *)
CalendarInv == closed \in Calendars /\ today \in Int

(* Nothing a running program does changes its calendar. *)
LEMMA CalendarStays == Spec => []CalendarInv
<1>1. Init => CalendarInv
  BY FirstDay, CalendarAssumption DEF Init, CalendarInv
<1>2. CalendarInv /\ [Next]_vars => CalendarInv'
  BY DEF CalendarInv, Next, Tick, vars, Calendars
<1> QED BY <1>1, <1>2, PTL DEF Spec

(* AddBusinessDays lands on an open day with exactly as many open days on the way  *)
(* as it was asked for, for every calendar without a gap as long as the search     *)
(* (registry.py, Calendar.add_business_days).                                     *)
THEOREM MovesCountOpenDays == Spec => []MovesCountBusinessDays
<1>1. CalendarInv => MovesCountBusinessDays
  <2> SUFFICES ASSUME CalendarInv, NEW n \in Windows
               PROVE  LET e == AddBusinessDays(today, n)
                          b == AddBusinessDays(today, -n)
                      IN  /\ IsBusinessDay(e) /\ e > today /\ BusinessDaysAfter(today, e) = n
                          /\ IsBusinessDay(b) /\ b < today /\ BusinessDaysBefore(b, today) = n
    BY DEF MovesCountBusinessDays
  <2>1. /\ n \in Nat /\ n # 0 /\ closed \in Calendars /\ today \in Int
        /\ AddBusinessDays(today, n) = Forward(today)[n] /\ AddBusinessDays(today, -n) = Back(today)[n]
    BY MoveIs DEF CalendarInv
  <2>2. /\ Forward(today)[n] \in Int /\ IsBusinessDay(Forward(today)[n]) /\ today < Forward(today)[n]
        /\ Back(today)[n] \in Int /\ IsBusinessDay(Back(today)[n]) /\ Back(today)[n] < today
    BY <2>1, MoveEnds
  <2>3. BusinessDaysAfter(today, Forward(today)[n]) = n /\ BusinessDaysBefore(Back(today)[n], today) = n
    BY <2>1, ForwardCounts, BackCounts
  <2>4. Forward(today)[n] > today
    BY <2>1, <2>2
  <2> QED BY <2>1, <2>2, <2>3, <2>4
<1> QED BY CalendarStays, <1>1, PTL

(* Machine.Accepts, which counts from the clock, and deadlineFor, which counts from *)
(* the value date, agree for every calendar, window, value date and day (slot.go). *)
THEOREM WindowsAreIntervals == Spec => []WindowIsAnInterval
<1>1. CalendarInv => WindowIsAnInterval
  <2> SUFFICES ASSUME CalendarInv, NEW w \in Windows, NEW vd \in Days
               PROVE  Accepts(vd, today, w)
                        <=> AddBusinessDays(vd, -w) <= today /\ today <= DeadlineDay(vd, w)
    BY DEF WindowIsAnInterval
  <2>1. w \in Nat /\ vd \in Int /\ closed \in Calendars /\ today \in Int
    BY MoveIs, CalendarAssumption DEF CalendarInv
  <2>2. Back(today)[w] <= vd <=> today <= Forward(vd)[w]
    BY <2>1, WalksAgree
  <2>3. Back(vd)[w] <= today <=> vd <= Forward(today)[w]
    BY <2>1, WalksAgree
  <2>4. /\ AddBusinessDays(vd, w) = Forward(vd)[w] /\ AddBusinessDays(vd, -w) = Back(vd)[w]
        /\ AddBusinessDays(today, w) = Forward(today)[w] /\ AddBusinessDays(today, -w) = Back(today)[w]
    BY <2>1, MoveIs
  <2> QED BY <2>2, <2>3, <2>4 DEF Accepts, DeadlineDay
<1> QED BY CalendarStays, <1>1, PTL

(* A date rolled back to the last open day is accepted whenever the date itself is, *)
(* for every calendar, window and day (registry.py, Calendar.roll; slot.go,        *)
(* Machine.Accepts).                                                              *)
THEOREM RollingStaysInWindow == Spec => []RollStaysInWindow
<1>1. CalendarInv => RollStaysInWindow
  <2> SUFFICES ASSUME CalendarInv, NEW w \in Windows, NEW vd \in Days, Accepts(vd, today, w)
               PROVE  Accepts(Roll(vd), today, w)
    BY DEF RollStaysInWindow
  <2>1. w \in Nat /\ w # 0 /\ vd \in Int /\ closed \in Calendars /\ today \in Int
    BY MoveIs, CalendarAssumption DEF CalendarInv
  <2>2. AddBusinessDays(today, w) = Forward(today)[w] /\ AddBusinessDays(today, -w) = Back(today)[w]
    BY <2>1, MoveIs
  <2> DEFINE first == Back(today)[w]
             last == Forward(today)[w]
             p == PreviousBusinessDay(vd)
  <2>3. first <= vd /\ vd <= last
    BY <2>2 DEF Accepts
  <2>4. first \in Int /\ last \in Int /\ IsBusinessDay(first)
    BY <2>1, MoveEnds
  <2>5. p \in Int /\ p < vd /\ \A e \in Int : p < e /\ e < vd => ~IsBusinessDay(e)
    BY <2>1, PreviousIs
  <2> HIDE DEF first, last, p
  <2>6. CASE IsBusinessDay(vd)
    BY <2>6 DEF Roll
  <2>7. CASE ~IsBusinessDay(vd)
    <3>1. first < vd
      BY <2>1, <2>3, <2>4, <2>7
    <3>2. first <= p /\ p <= last
      BY <2>1, <2>3, <2>4, <2>5, <3>1
    <3>3. Roll(vd) = p
      BY <2>7 DEF Roll, p
    <3> QED BY <2>2, <3>2, <3>3 DEF Accepts, first, last
  <2> QED BY <2>6, <2>7
<1> QED BY CalendarStays, <1>1, PTL

=============================================================================
