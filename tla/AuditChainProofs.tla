-------------------------- MODULE AuditChainProofs --------------------------
(***************************************************************************)
(* The decision log, for any number of writers, records and damaged rows,  *)
(* as long as the writers read the same clock: the chain they leave        *)
(* verifies, and the verifier names the first damaged record.              *)
(***************************************************************************)
EXTENDS AuditChain, WellFoundedInduction, NaturalsInduction, TLAPS

(* The writers read one clock: they run on one host. *)
OneClockOnly == \A v, w \in Writers : Skew[v] = Skew[w]
Clock == CHOOSE k \in Int : \A w \in Writers : Skew[w] = k

Types ==
  /\ now \in Nat /\ appends \in Nat /\ damage \in Nat
  /\ tx = [w \in Writers |-> tx[w]]
  /\ \A w \in Writers : tx[w].since \in Nat /\ tx[w].since <= appends

(* A transaction that could still commit has read the end of the chain, and its   *)
(* record would be younger than all of it.                                       *)
TxCurrent ==
  \A w \in Writers : tx[w].open /\ tx[w].since = appends =>
    /\ tx[w].prev = LastHash(log)
    /\ \A r \in log : r.at < now + Clock

(* The ids given out, and the record that a hash was computed from. *)
Ids == (-appends) .. appends
Owner(h) == IF 5 \in DOMAIN h THEN h[1] ELSE h[2]

(* What a record says of itself: its hash is its own, and is the hash of its      *)
(* contents unless one of the two was changed.                                   *)
Row(r) ==
  /\ r = [id |-> r.id, at |-> r.at, by |-> r.by, decision |-> r.decision,
          prev |-> r.prev, hash |-> r.hash]
  /\ r.id \in Ids /\ r.at \in Int /\ Clock <= r.at /\ r.at <= now + Clock
  /\ r.hash # NoHash /\ Owner(r.hash) = r.id
  /\ IF r.id \in changed THEN r.hash # ComputeHash(r)
     ELSE r.hash = ComputeHash(r) /\ r.decision \in Decisions /\ r.by \in Writers

Distinct == \A r, s \in log : r.id = s.id \/ r.at = s.at => r = s

(* p is the record before r. *)
Follows(r, p) == p \in log /\ p.at < r.at /\ \A q \in log : q.at < r.at => q.at <= p.at

(* What prev_hash says of an unchanged record that still has the predecessor it   *)
(* was written after, and of one that lost it.                                   *)
LinkedTo(r, p) ==
  /\ Follows(r, p) /\ Owner(r.prev) = p.id
  /\ p.id \notin changed => r.prev = p.hash
Kept(r) ==
  \/ r.prev = NoHash /\ \A q \in log : r.at <= q.at
  \/ r.prev # NoHash /\ \E p \in log : LinkedTo(r, p)
Cut(r) == r.prev # NoHash /\ Owner(r.prev) \in Ids /\ \A q \in log : q.id # Owner(r.prev)

Marks ==
  /\ changed \subseteq Ids /\ orphans \subseteq Ids
  /\ damage = 0 => changed = {} /\ orphans = {}
Rows == \A r \in log : Row(r)
Linked(r) == IF r.id \in orphans THEN Cut(r) ELSE Kept(r)
Chained == \A r \in log : r.id \notin changed => Linked(r)

Sorted == Types /\ Distinct /\ Rows
IInv == Sorted /\ TxCurrent /\ Marks /\ Chained

(* The empty log satisfies the invariant. *)
LEMMA InitIInv == Init => IInv
  BY DEF Init, IInv, Sorted, Types, Distinct, Rows, TxCurrent, Marks, Chained, NoTx, NoHash

----------------------------------------------------------------------------
(* The order of the records *)

(* One clock has one error. *)
LEMMA ClockIs ==
  ASSUME OneClockOnly
  PROVE  Clock \in Int /\ \A w \in Writers : Skew[w] = Clock
<1>1. \E k \in Int : \A w \in Writers : Skew[w] = k
  <2>1. CASE Writers = {}
    BY <2>1
  <2>2. CASE Writers # {}
    <3> PICK v \in Writers : TRUE
      BY <2>2
    <3>1. Skew[v] \in Int /\ \A w \in Writers : Skew[w] = Skew[v]
      BY AuditAssumption DEF OneClockOnly
    <3> QED BY <3>1
  <2> QED BY <2>1, <2>2
<1> QED BY <1>1 DEF Clock

(* A set of naturals that is not empty has a least element. *)
LEMMA LeastOfNats ==
  ASSUME NEW S \in SUBSET Nat, S # {}
  PROVE  \E n \in S : \A k \in S : n <= k
<1> DEFINE R == OpToRel(<, Nat)
<1>1. R = {p \in Nat \X Nat : p[1] < p[2]}
  BY DEF OpToRel
<1>2. IsWellFoundedOn(R, Nat)
  BY NatLessThanWellFounded
<1> HIDE DEF R
<1>3. PICK n \in S : \A k \in S : ~ (<<k, n>> \in R)
  BY <1>2, WFMin
<1>4. ASSUME NEW k \in S PROVE n <= k
  <2>1. <<k, n>> \in Nat \X Nat /\ ~ (k < n)
    BY <1>1, <1>3
  <2> QED BY <2>1
<1> QED BY <1>4

(* Two records of a log are never of one instant, so Read's order is that of time. *)
LEMMA OrderIsTime ==
  ASSUME Distinct, Rows, NEW r \in log, NEW s \in log
  PROVE  Before(r, s) <=> r.at < s.at
<1>1. r.id \in Int /\ s.id \in Int /\ r.at \in Int /\ s.at \in Int
  BY DEF Rows, Row, Ids
<1> QED BY <1>1 DEF Before, Distinct

(* A part of the log that is not empty has a first record, which FirstOf returns. *)
LEMMA FirstIs ==
  ASSUME Sorted, Clock \in Int, NEW S \in SUBSET log, S # {}
  PROVE  /\ FirstOf(S) \in S
         /\ \A s \in S : FirstOf(S).at <= s.at
<1>1. \A s \in S : s.at \in Int /\ s.at - Clock \in Nat
  BY DEF Sorted, Rows, Row
<1>2. \E f \in S : \A s \in S : f.at <= s.at
  <2> DEFINE T == {s.at - Clock : s \in S}
  <2>1. T \in SUBSET Nat /\ T # {}
    BY <1>1
  <2>2. PICK n \in T : \A k \in T : n <= k
    BY <2>1, LeastOfNats
  <2>3. PICK f \in S : n = f.at - Clock
    OBVIOUS
  <2>4. \A s \in S : f.at - Clock <= s.at - Clock
    BY <2>2, <2>3
  <2> QED BY <1>1, <2>4
<1>3. PICK f \in S : \A s \in S : f.at <= s.at
  BY <1>2
<1>4. \A s \in S \ {f} : Before(f, s)
  BY <1>1, <1>3, OrderIsTime DEF Sorted, Distinct
<1>5. \A s \in S \ {FirstOf(S)} : Before(FirstOf(S), s)
  BY <1>4 DEF FirstOf
<1>6. FirstOf(S) \in S
  BY <1>4 DEF FirstOf
<1>7. ASSUME NEW s \in S PROVE FirstOf(S).at <= s.at
  <2>1. FirstOf(S).at \in Int /\ s.at \in Int
    BY <1>1, <1>6
  <2>2. CASE s = FirstOf(S)
    BY <2>1, <2>2
  <2>3. CASE s # FirstOf(S)
    BY <1>5, <1>6, <2>1, <2>3, OrderIsTime DEF Sorted
  <2> QED BY <2>2, <2>3
<1> QED BY <1>6, <1>7

(* The same of its last record, which LatestOf returns. *)
LEMMA LatestIs ==
  ASSUME Sorted, Clock \in Int, NEW S \in SUBSET log, S # {}
  PROVE  /\ LatestOf(S) \in S
         /\ \A s \in S : s.at <= LatestOf(S).at
<1>1. \A s \in S : s.at \in Int /\ (now + Clock) - s.at \in Nat
  BY DEF Sorted, Rows, Row, Types
<1>2. \E f \in S : \A s \in S : s.at <= f.at
  <2> DEFINE T == {(now + Clock) - s.at : s \in S}
  <2>1. T \in SUBSET Nat /\ T # {}
    BY <1>1
  <2>2. PICK n \in T : \A k \in T : n <= k
    BY <2>1, LeastOfNats
  <2>3. PICK f \in S : n = (now + Clock) - f.at
    OBVIOUS
  <2>4. \A s \in S : (now + Clock) - f.at <= (now + Clock) - s.at
    BY <2>2, <2>3
  <2> QED BY <1>1, <2>4 DEF Sorted, Types
<1>3. PICK f \in S : \A s \in S : s.at <= f.at
  BY <1>2
<1>4. \A s \in S \ {f} : Before(s, f)
  BY <1>1, <1>3, OrderIsTime DEF Sorted, Distinct
<1>5. \A s \in S \ {LatestOf(S)} : Before(s, LatestOf(S))
  BY <1>4 DEF LatestOf
<1>6. LatestOf(S) \in S
  BY <1>4 DEF LatestOf
<1>7. ASSUME NEW s \in S PROVE s.at <= LatestOf(S).at
  <2>1. LatestOf(S).at \in Int /\ s.at \in Int
    BY <1>1, <1>6
  <2>2. CASE s = LatestOf(S)
    BY <2>1, <2>2
  <2>3. CASE s # LatestOf(S)
    BY <1>5, <1>6, <2>1, <2>3, OrderIsTime DEF Sorted
  <2> QED BY <2>2, <2>3
<1> QED BY <1>6, <1>7

(* What the walk compares prev_hash with: nothing at the first record, the hash   *)
(* of the record before it at any other.                                         *)
LEMMA PreviousHash ==
  ASSUME Sorted, Clock \in Int, NEW r \in log
  PROVE  LET h == LastHash({s \in log : Before(s, r)})
         IN  \/ h = NoHash /\ \A q \in log : r.at <= q.at
             \/ \E p \in log : Follows(r, p) /\ h = p.hash
<1> DEFINE S == {s \in log : Before(s, r)}
<1>1. S = {s \in log : s.at < r.at}
  BY OrderIsTime DEF Sorted
<1>2. \A q \in log : q.at \in Int
  BY DEF Sorted, Rows, Row
<1>3. CASE S = {}
  BY <1>1, <1>2, <1>3 DEF LastHash
<1>4. CASE S # {}
  <2>1. S \in SUBSET log
    OBVIOUS
  <2> HIDE DEF S
  <2>2. LatestOf(S) \in S /\ \A s \in S : s.at <= LatestOf(S).at
    BY <1>4, <2>1, LatestIs
  <2>3. Follows(r, LatestOf(S)) /\ LatestOf(S) \in log
    BY <1>1, <2>2 DEF Follows
  <2>4. LastHash(S) = LatestOf(S).hash
    BY <1>4 DEF LastHash
  <2> QED BY <2>3, <2>4 DEF S
<1> QED BY <1>3, <1>4

----------------------------------------------------------------------------
(* What the walk finds *)

Hit == {r \in log : r.id \in changed \cup orphans}

(* A record that was changed or lost its predecessor breaks the chain. *)
LEMMA HitBreaks ==
  ASSUME IInv, Clock \in Int, NEW r \in Hit
  PROVE  Breaks(r)
<1>1. r \in log /\ Row(r)
  BY DEF Hit, IInv, Sorted, Rows
<1>2. CASE r.id \in changed
  BY <1>1, <1>2 DEF Row, Breaks
<1>3. CASE r.id \in orphans /\ r.id \notin changed
  <2>1. Cut(r)
    BY <1>1, <1>3 DEF IInv, Chained, Linked
  <2>2. \A p \in log : Owner(p.hash) = p.id
    BY DEF IInv, Sorted, Rows, Row
  <2>3. r.prev # LastHash({s \in log : Before(s, r)})
    BY <1>1, <2>1, <2>2, PreviousHash DEF Cut, IInv
  <2> QED BY <2>3 DEF Breaks
<1> QED BY <1>2, <1>3 DEF Hit

(* Any other record breaks it only after a changed one. *)
LEMMA BreakFollowsHit ==
  ASSUME IInv, Clock \in Int, NEW r \in log, Breaks(r), r \notin Hit
  PROVE  \E p \in Hit : p.at < r.at
<1>1. Row(r) /\ r.id \notin changed /\ r.id \notin orphans
  BY DEF Hit, IInv, Sorted, Rows
<1>2. r.prev # LastHash({s \in log : Before(s, r)}) /\ Kept(r)
  BY <1>1 DEF Breaks, Row, IInv, Chained, Linked
<1>3. \A q \in log : q.at \in Int
  BY DEF IInv, Sorted, Rows, Row
<1>4. PICK h \in {LastHash({s \in log : Before(s, r)})} :
        /\ r.prev # h
        /\ \/ h = NoHash /\ \A q \in log : r.at <= q.at
           \/ \E p \in log : Follows(r, p) /\ h = p.hash
  BY <1>2, PreviousHash DEF IInv
<1>5. CASE h = NoHash /\ \A q \in log : r.at <= q.at
  BY <1>2, <1>3, <1>4, <1>5 DEF Kept, LinkedTo, Follows
<1>6. ASSUME NEW p \in log, Follows(r, p), h = p.hash
      PROVE  p \in Hit /\ p.at < r.at
  <2>1. PICK q \in log : LinkedTo(r, q)
    BY <1>2, <1>3, <1>6 DEF Kept, Follows
  <2>2. q = p
    BY <1>3, <1>6, <2>1 DEF LinkedTo, Follows, IInv, Sorted, Distinct
  <2>3. p.id \in changed
    BY <1>4, <1>6, <2>1, <2>2 DEF LinkedTo
  <2> QED BY <1>6, <2>3 DEF Hit, Follows
<1> QED BY <1>4, <1>5, <1>6

(* So the first record that breaks the chain is the first that was hit. *)
LEMMA FirstBreakIsHit ==
  ASSUME IInv, Clock \in Int
  PROVE  BreakIsFirstDamage
<1> DEFINE bad == {r \in log : Breaks(r)}
<1>1. Hit \subseteq bad
  BY HitBreaks DEF Hit
<1>2. \A q \in log : q.at \in Int
  BY DEF IInv, Sorted, Rows, Row
<1>3. ASSUME bad # {}
      PROVE  Hit # {} /\ FirstOf(bad) = FirstOf(Hit)
  <2>1. bad \in SUBSET log /\ Hit \in SUBSET log
    BY DEF Hit
  <2>2. \A r \in bad \ Hit : \E p \in Hit : p.at < r.at
    BY BreakFollowsHit
  <2> HIDE DEF bad
  <2>3. FirstOf(bad) \in bad /\ \A s \in bad : FirstOf(bad).at <= s.at
    BY <1>3, <2>1, FirstIs DEF IInv
  <2>4. FirstOf(bad) \in Hit
    BY <1>1, <1>2, <2>1, <2>2, <2>3
  <2>5. FirstOf(Hit) \in Hit /\ \A s \in Hit : FirstOf(Hit).at <= s.at
    BY <2>1, <2>4, FirstIs DEF IInv
  <2>6. FirstOf(bad).at = FirstOf(Hit).at
    BY <1>1, <1>2, <2>1, <2>3, <2>4, <2>5
  <2> QED BY <2>1, <2>3, <2>4, <2>5, <2>6 DEF IInv, Sorted, Distinct
<1>4. bad = {} => Hit = {}
  BY <1>1
<1> QED BY <1>3, <1>4 DEF BreakIsFirstDamage, Verify, Hit

----------------------------------------------------------------------------
(* Append *)

(* A later instant leaves what is said of the records alone. *)
LEMMA ReadKeeps ==
  ASSUME IInv, OneClockOnly, NEW w \in Writers, ReadPrevious(w)
  PROVE  Distinct' /\ Rows' /\ TxCurrent' /\ Marks' /\ Chained'
<1>1. /\ now \in Nat /\ now' = now + 1 /\ log' = log /\ appends' = appends
      /\ changed' = changed /\ orphans' = orphans /\ damage' = damage
  BY DEF IInv, Sorted, Types, ReadPrevious, damageVars
<1>2. Clock \in Int
  BY ClockIs
<1>3. \A r \in log : r.at \in Int /\ r.at < now' + Clock
  BY <1>1, <1>2 DEF IInv, Sorted, Rows, Row
<1>4. Rows'
  BY <1>1, <1>2, <1>3 DEF IInv, Sorted, Rows, Row, Ids, ComputeHash, Owner
<1>5. TxCurrent'
  <2> SUFFICES ASSUME NEW v \in Writers, tx'[v].open, tx'[v].since = appends
               PROVE  tx'[v].prev = LastHash(log)
    BY <1>1, <1>3 DEF TxCurrent
  <2>1. CASE v = w
    BY <2>1 DEF ReadPrevious, IInv, Sorted, Types
  <2>2. CASE v # w
    <3>1. tx'[v] = tx[v]
      BY <2>2 DEF ReadPrevious, IInv, Sorted, Types
    <3> QED BY <3>1 DEF IInv, TxCurrent
  <2> QED BY <2>1, <2>2
<1>6. Marks' /\ Distinct'
  BY <1>1 DEF IInv, Sorted, Marks, Ids, Distinct
<1>7. Chained'
  BY <1>1 DEF IInv, Chained, Linked, Cut, Kept, LinkedTo, Follows, Ids, Owner
<1> QED BY <1>4, <1>5, <1>6, <1>7

(* The new record is the youngest, it follows the record it was linked to, and    *)
(* every other open transaction has become stale.                                *)
LEMMA CommitKeeps ==
  ASSUME IInv, OneClockOnly, NEW w \in Writers, Commit(w)
  PROVE  Distinct' /\ Rows' /\ TxCurrent' /\ Marks' /\ Chained'
<1> PICK i \in FreshIds, d \in Decisions : log' = log \cup {NewRecord(w, i, d)}
  BY DEF Commit
<1> PICK n \in {NewRecord(w, i, d)} : TRUE
  OBVIOUS
<1>1. /\ now \in Nat /\ now' = now /\ appends \in Nat /\ appends' = appends + 1
      /\ changed' = changed /\ orphans' = orphans /\ damage' = damage
      /\ tx[w].prev = LastHash(log) /\ i \in Int
      /\ Clock \in Int /\ Skew[w] = Clock
      /\ \A r \in log : r.at \in Int /\ r.id \in Ids /\ r.at < now + Clock
  BY ClockIs DEF IInv, Sorted, Types, Rows, Row, TxCurrent, Commit, damageVars, FreshIds
<1>2. /\ n = [id |-> n.id, at |-> n.at, by |-> n.by, decision |-> n.decision,
              prev |-> n.prev, hash |-> n.hash]
      /\ n.id = i /\ n.at = now + Clock /\ n.prev = LastHash(log) /\ n.decision \in Decisions
      /\ n.by \in Writers
      /\ n.hash = ComputeHash(n) /\ log' = log \cup {n}
  BY <1>1 DEF NewRecord, ComputeHash
<1>3. i \in Ids' /\ i \notin Ids /\ Ids \subseteq Ids'
  BY <1>1 DEF FreshIds, Ids
<1>4. n.hash # NoHash /\ Owner(n.hash) = n.id
  BY <1>2 DEF ComputeHash, NoHash, Owner
<1>5. \A r \in log : r.id # n.id /\ r.at < n.at /\ r # n
  BY <1>1, <1>2, <1>3
<1>6. Distinct'
  BY <1>1, <1>2, <1>5 DEF IInv, Sorted, Distinct
<1>7. Rows'
  <2>1. Row(n)'
    BY <1>1, <1>2, <1>3, <1>4 DEF Row, Owner, ComputeHash, IInv, Marks
  <2>2. \A r \in log : Row(r)'
    BY <1>1, <1>3 DEF IInv, Sorted, Rows, Row, Owner, ComputeHash
  <2> QED BY <1>2, <2>1, <2>2 DEF Rows
<1>8. TxCurrent'
  <2> SUFFICES ASSUME NEW v \in Writers, tx'[v].open, tx'[v].since = appends + 1
               PROVE  FALSE
    BY <1>1 DEF TxCurrent
  <2>1. CASE v = w
    BY <2>1 DEF Commit, NoTx, IInv, Sorted, Types
  <2>2. CASE v # w
    <3>1. tx'[v] = tx[v] /\ tx[v].since \in Nat /\ tx[v].since <= appends
      BY <2>2 DEF Commit, IInv, Sorted, Types
    <3> QED BY <1>1, <3>1
  <2> QED BY <2>1, <2>2
<1>9. Marks'
  BY <1>1, <1>3 DEF IInv, Marks
<1>10. Kept(n)'
  <2>1. CASE log = {}
    BY <1>1, <1>2, <2>1 DEF LastHash, Kept
  <2>2. CASE log # {}
    <3> PICK p \in {LatestOf(log)} : TRUE
      OBVIOUS
    <3>1. p \in log /\ \A s \in log : s.at <= p.at
      BY <1>1, <2>2, LatestIs DEF IInv
    <3>2. n.prev = p.hash
      BY <1>2, <2>2 DEF LastHash
    <3>3. n.prev # NoHash /\ Owner(n.prev) = p.id
      BY <3>1, <3>2 DEF IInv, Sorted, Rows, Row
    <3>4. Follows(n, p)'
      BY <1>1, <1>2, <1>5, <3>1 DEF Follows
    <3> QED BY <1>2, <3>1, <3>2, <3>3, <3>4 DEF Kept, LinkedTo, Owner
  <2> QED BY <2>1, <2>2
<1>11. ASSUME NEW r \in log, r.id \notin changed PROVE Linked(r)'
  <2>1. CASE r.id \in orphans
    BY <1>1, <1>2, <1>3, <1>11, <2>1 DEF IInv, Chained, Linked, Cut, Owner
  <2>2. CASE r.id \notin orphans
    <3>1. n.at \in Int /\ \A q \in log' : q.at < r.at => q \in log
      BY <1>1, <1>2, <1>5
    <3>2. \A p \in log : Follows(r, p) => Follows(r, p)'
      BY <1>2, <3>1 DEF Follows
    <3>3. (\A q \in log : r.at <= q.at) => \A q \in log' : r.at <= q.at
      BY <1>1, <1>2, <1>5, <3>1
    <3>4. Kept(r)
      BY <1>11, <2>2 DEF IInv, Chained, Linked
    <3>5. CASE r.prev = NoHash /\ \A q \in log : r.at <= q.at
      BY <1>1, <2>2, <3>3, <3>5 DEF Kept, Linked
    <3>6. ASSUME r.prev # NoHash, NEW p \in log, LinkedTo(r, p)
          PROVE  Kept(r)'
      <4>1. Follows(r, p)' /\ p \in log'
        BY <1>2, <3>2, <3>6 DEF LinkedTo
      <4> QED BY <1>1, <3>6, <4>1 DEF Kept, LinkedTo, Owner
    <3> QED BY <1>1, <2>2, <3>4, <3>5, <3>6 DEF Kept, Linked
  <2> QED BY <2>1, <2>2
<1>12. Chained'
  <2>1. n.id \notin orphans'
    BY <1>1, <1>2, <1>3 DEF IInv, Marks
  <2> QED BY <1>1, <1>2, <1>10, <1>11, <2>1 DEF Chained, Linked
<1> QED BY <1>6, <1>7, <1>8, <1>9, <1>12

(* An append that is given up leaves one transaction fewer that could commit. *)
LEMMA AbortKeeps ==
  ASSUME IInv, NEW w \in Writers, Abort(w)
  PROVE  Distinct' /\ Rows' /\ TxCurrent' /\ Marks' /\ Chained'
<1>1. /\ log' = log /\ now' = now /\ appends' = appends
      /\ changed' = changed /\ orphans' = orphans /\ damage' = damage
  BY DEF Abort, damageVars
<1>2. \A v \in Writers : tx'[v] = tx[v] \/ ~tx'[v].open
  BY DEF Abort, NoTx, IInv, Sorted, Types
<1>3. TxCurrent'
  BY <1>1, <1>2 DEF IInv, TxCurrent
<1> QED
  BY <1>1, <1>3 DEF IInv, Sorted, Distinct, Rows, Row, Ids, Owner, ComputeHash, Marks, Chained, Linked,
                    Cut, Kept, LinkedTo, Follows

----------------------------------------------------------------------------
(* Damage *)

(* A changed row no longer hashes to its hash, whichever column it was. *)
LEMMA AlteredIs ==
  ASSUME IInv, Clock \in Int, OneClockOnly, NEW r \in log, r.id \notin changed, NEW a \in Alterations(r)
  PROVE  /\ a = [id |-> a.id, at |-> a.at, by |-> a.by, decision |-> a.decision,
                 prev |-> a.prev, hash |-> a.hash]
         /\ a.id = r.id /\ a.hash # NoHash /\ Owner(a.hash) = a.id /\ a.hash # ComputeHash(a)
         /\ a.at \in Int /\ Clock <= a.at /\ a.at <= now + Clock
         /\ \A s \in log \ {r} : s.at # a.at /\ (s.at < r.at <=> s.at < a.at)
<1>1. Row(r) /\ now \in Nat
  BY DEF IInv, Sorted, Rows, Types
<1>2. \A s \in log \ {r} : s.at # r.at
  BY DEF IInv, Sorted, Distinct
<1>3. /\ r.decision # "altered" /\ r.by # "altered" /\ r.hash = ComputeHash(r)
  BY <1>1, AuditAssumption DEF Row
<1>4. r.prev # Altered(r)
  <2>1. Altered(r) # NoHash /\ Owner(Altered(r)) = r.id
    BY DEF Altered, NoHash, Owner
  <2>2. Linked(r)
    BY DEF IInv, Chained
  <2>3. CASE r.prev = NoHash
    BY <2>1, <2>3
  <2>4. CASE r.prev # NoHash
    <3>1. Owner(r.prev) # r.id
      <4>1. CASE Cut(r)
        BY <4>1 DEF Cut
      <4>2. ASSUME NEW p \in log, LinkedTo(r, p) PROVE Owner(r.prev) # r.id
        <5>1. p.at < r.at /\ p.at \in Int /\ Owner(r.prev) = p.id
          BY <4>2 DEF LinkedTo, Follows, IInv, Sorted, Rows, Row
        <5> QED BY <1>1, <5>1 DEF Row, IInv, Sorted, Distinct
      <4> QED BY <2>2, <2>4, <4>1, <4>2 DEF Linked, Kept
    <3> QED BY <2>1, <3>1
  <2> QED BY <2>3, <2>4
<1>5. CASE a \in {[r EXCEPT !.decision = "altered"], [r EXCEPT !.by = "altered"], [r EXCEPT !.prev = Altered(r)]}
  <2>1. /\ a = [id |-> a.id, at |-> a.at, by |-> a.by, decision |-> a.decision,
                prev |-> a.prev, hash |-> a.hash]
        /\ a.id = r.id /\ a.at = r.at /\ a.hash = r.hash
        /\ a.decision # r.decision \/ a.by # r.by \/ a.prev # r.prev
    BY <1>1, <1>3, <1>4, <1>5 DEF Row
  <2>2. a.hash # ComputeHash(a)
    BY <1>3, <2>1 DEF ComputeHash
  <2> QED BY <1>1, <1>2, <2>1, <2>2 DEF Row
<1>6. CASE a = [r EXCEPT !.hash = Altered(r)]
  <2>1. /\ a = [id |-> a.id, at |-> a.at, by |-> a.by, decision |-> a.decision,
                prev |-> a.prev, hash |-> a.hash]
        /\ a.id = r.id /\ a.at = r.at /\ a.hash = Altered(r)
    BY <1>1, <1>6 DEF Row
  <2>2. a.hash # ComputeHash(a) /\ a.hash # NoHash /\ Owner(a.hash) = a.id
    BY <2>1 DEF Altered, ComputeHash, NoHash, Owner
  <2> QED BY <1>1, <1>2, <2>1, <2>2 DEF Row
<1>7. ASSUME NEW t \in Redatings(r), a = [r EXCEPT !.at = t]
      PROVE  /\ a = [id |-> a.id, at |-> a.at, by |-> a.by, decision |-> a.decision,
                     prev |-> a.prev, hash |-> a.hash]
             /\ a.id = r.id /\ a.hash # NoHash /\ Owner(a.hash) = a.id /\ a.hash # ComputeHash(a)
             /\ a.at \in Int /\ Clock <= a.at /\ a.at <= now + Clock
             /\ \A s \in log \ {r} : s.at # a.at /\ (s.at < r.at <=> s.at < a.at)
  <2>1. /\ a = [id |-> a.id, at |-> a.at, by |-> a.by, decision |-> a.decision,
                prev |-> a.prev, hash |-> a.hash]
        /\ a.id = r.id /\ a.at = t /\ a.hash = r.hash
    BY <1>1, <1>7 DEF Row
  <2>2. t # r.at /\ \A s \in log \ {r} : s.at # t /\ (s.at < r.at <=> s.at < t)
    BY <1>7 DEF Redatings
  <2>3. a.hash # ComputeHash(a)
    BY <1>3, <2>1, <2>2 DEF ComputeHash
  <2>4. t \in Int /\ Clock <= t /\ t <= now + Clock
    <3>1. PICK k \in 1 .. now, w \in Writers : t = k + Skew[w]
      BY <1>7 DEF Redatings
    <3>2. Skew[w] = Clock
      BY ClockIs
    <3> QED BY <1>1, <3>1, <3>2
  <2> QED BY <1>1, <2>1, <2>2, <2>3, <2>4 DEF Row
<1> QED BY <1>5, <1>6, <1>7 DEF Alterations

(* The rest of the chain is as it was, in the same order, and no row is now expected *)
(* to carry the old hash of the one that was changed.                               *)
LEMMA ChangeKeeps ==
  ASSUME IInv, OneClockOnly, Change
  PROVE  Distinct' /\ Rows' /\ TxCurrent' /\ Marks' /\ Chained'
<1>1. PICK r \in log : \E a \in Alterations(r) :
        r.id \notin changed /\ log' = (log \ {r}) \cup {a} /\ changed' = changed \cup {r.id}
  BY DEF Change
<1>2. PICK a \in Alterations(r) :
        r.id \notin changed /\ log' = (log \ {r}) \cup {a} /\ changed' = changed \cup {r.id}
  BY <1>1
<1>3. /\ a = [id |-> a.id, at |-> a.at, by |-> a.by, decision |-> a.decision,
              prev |-> a.prev, hash |-> a.hash]
      /\ a.id = r.id /\ a.hash # NoHash /\ Owner(a.hash) = a.id /\ a.hash # ComputeHash(a)
      /\ a.at \in Int /\ Clock <= a.at /\ a.at <= now + Clock
      /\ \A s \in log \ {r} : s.at # a.at /\ (s.at < r.at <=> s.at < a.at)
  BY <1>2, AlteredIs, ClockIs
<1>4. /\ now' = now /\ appends' = appends /\ orphans' = orphans
      /\ damage' # 0 /\ Ids' = Ids
      /\ \A w \in Writers : ~tx'[w].open
  BY DEF Change, AtRest, IInv, Sorted, Types, Ids
<1>5. \A s \in log \ {r} : s.id # r.id /\ s.at # r.at
  BY DEF IInv, Sorted, Distinct
<1>6. \A s \in log : s.at \in Int /\ s.id \in Ids
  BY DEF IInv, Sorted, Rows, Row
<1>7. Distinct'
  BY <1>2, <1>3, <1>5 DEF IInv, Sorted, Distinct
<1>8. Rows'
  <2>1. Row(a)'
    BY <1>2, <1>3, <1>4, <1>6 DEF Row, Owner, ComputeHash
  <2>2. \A s \in log \ {r} : Row(s)'
    BY <1>2, <1>4, <1>5 DEF IInv, Sorted, Rows, Row, Owner, ComputeHash
  <2> QED BY <1>2, <2>1, <2>2 DEF Rows
<1>9. TxCurrent' /\ Marks'
  BY <1>2, <1>4, <1>6 DEF TxCurrent, Marks, IInv
<1>10. Chained'
  <2> SUFFICES ASSUME NEW s \in log', s.id \notin changed' PROVE (IF s.id \in orphans' THEN Cut(s)' ELSE Kept(s)')
    BY DEF Chained, Linked
  <2>1. s \in log \ {r} /\ s.id \notin changed
    BY <1>2, <1>3
  <2>2. Linked(s)
    BY <2>1 DEF IInv, Chained
  <2>3. CASE Cut(s) /\ s.id \in orphans
    <3>1. s.prev # NoHash /\ Owner(s.prev) \in Ids' /\ \A q \in log : q.id # Owner(s.prev)
      BY <1>4, <2>3 DEF Cut
    <3>2. \A q \in log' : q.id # Owner(s.prev)
      BY <1>2, <1>3, <3>1
    <3>3. Cut(s)'
      BY <3>1, <3>2 DEF Cut, Owner
    <3> QED BY <1>4, <2>3, <3>3
  <2>4. CASE s.id \notin orphans /\ s.prev = NoHash /\ \A q \in log : s.at <= q.at
    <3>1. s.at <= a.at
      BY <1>3, <1>5, <1>6, <2>1, <2>4
    <3> QED BY <1>2, <1>4, <2>4, <3>1 DEF Kept
  <2>5. ASSUME s.id \notin orphans, s.prev # NoHash, NEW p \in log, LinkedTo(s, p)
        PROVE  Kept(s)'
    <3>1. /\ p.at < s.at /\ Owner(s.prev) = p.id /\ (p.id \notin changed => s.prev = p.hash)
          /\ \A q \in log : q.at < s.at => q.at <= p.at
      BY <2>5 DEF LinkedTo, Follows
    <3>2. CASE p = r
      <4>1. a.at < s.at
        BY <1>3, <1>5, <1>6, <2>1, <3>1, <3>2
      <4>2. \A q \in log \ {r} : q.at < s.at => q.at <= a.at
        BY <1>3, <1>5, <1>6, <2>1, <3>1, <3>2
      <4>3. Follows(s, a)'
        BY <1>2, <1>3, <4>1, <4>2 DEF Follows
      <4> QED BY <1>2, <1>3, <2>5, <3>1, <3>2, <4>3 DEF Kept, LinkedTo, Owner
    <3>3. CASE p # r
      <4>1. a.at < s.at => a.at <= p.at
        BY <1>3, <1>5, <1>6, <2>1, <3>1, <3>3
      <4>2. Follows(s, p)' /\ p \in log'
        BY <1>2, <3>1, <3>3, <4>1 DEF Follows
      <4>3. p.id \notin changed' => s.prev = p.hash
        BY <1>2, <3>1
      <4> QED BY <2>5, <3>1, <4>2, <4>3 DEF Kept, LinkedTo, Owner
    <3> QED BY <3>2, <3>3
  <2> QED BY <1>4, <2>2, <2>3, <2>4, <2>5 DEF Linked, Kept
<1> QED BY <1>7, <1>8, <1>9, <1>10

(* The row after a lost one names a row that is gone for good; every other row    *)
(* keeps its predecessor.                                                        *)
LEMMA LoseKeeps ==
  ASSUME IInv, Clock \in Int, Lose
  PROVE  Distinct' /\ Rows' /\ TxCurrent' /\ Marks' /\ Chained'
<1>1. PICK r \in log :
        LET later == {s \in log : Before(r, s)}
        IN  /\ log' = log \ {r}
            /\ changed' = changed \ {r.id}
            /\ orphans' = (orphans \ {r.id})
                            \cup (IF later = {} THEN {} ELSE {FirstOf(later).id})
  BY DEF Lose
<1> DEFINE later == {s \in log : Before(r, s)}
<1>2. later \in SUBSET log /\ later = {s \in log : r.at < s.at}
  BY OrderIsTime DEF IInv, Sorted
<1>3. /\ log' = log \ {r} /\ changed' = changed \ {r.id}
      /\ orphans' = (orphans \ {r.id}) \cup (IF later = {} THEN {} ELSE {FirstOf(later).id})
  BY <1>1
<1>4. /\ now' = now /\ appends' = appends
      /\ damage' # 0 /\ Ids' = Ids
      /\ \A w \in Writers : ~tx'[w].open
  BY DEF Lose, AtRest, IInv, Sorted, Types, Ids
<1> HIDE DEF later
<1>5. later # {} => /\ FirstOf(later) \in later
                    /\ \A s \in later : FirstOf(later).at <= s.at
  BY <1>2, FirstIs DEF IInv
<1>6. \A q \in log : q.at \in Int /\ q.id \in Ids
  BY DEF IInv, Sorted, Rows, Row
<1>7. \A s \in log' : s \in log /\ s.id # r.id /\ s.at # r.at
  BY <1>3 DEF IInv, Sorted, Distinct
<1>8. Distinct'
  BY <1>7 DEF IInv, Sorted, Distinct
<1>9. Rows'
  BY <1>3, <1>4, <1>7 DEF IInv, Sorted, Rows, Row, Owner, ComputeHash
<1>10. TxCurrent' /\ Marks'
  BY <1>2, <1>3, <1>4, <1>5, <1>6 DEF TxCurrent, Marks, IInv
<1>11. Chained'
  <2> SUFFICES ASSUME NEW s \in log', s.id \notin changed' PROVE (IF s.id \in orphans' THEN Cut(s)' ELSE Kept(s)')
    BY DEF Chained, Linked
  <2>1. s \in log /\ s.id # r.id /\ s.id \notin changed
    BY <1>3, <1>7
  <2>2. CASE s.id \in orphans
    <3>1. Cut(s) /\ s.id \in orphans'
      BY <1>3, <2>1, <2>2 DEF IInv, Chained, Linked
    <3> QED BY <1>4, <1>7, <3>1 DEF Cut, Owner
  <2>3. CASE s.id \notin orphans /\ later # {} /\ s = FirstOf(later)
    <3>1. Kept(s) /\ r.at < s.at /\ \A q \in log : r.at < q.at => s.at <= q.at
      BY <1>2, <1>5, <2>1, <2>3 DEF IInv, Chained, Linked
    <3>2. ~ (s.at <= r.at)
      BY <1>6, <2>1, <3>1
    <3>3. PICK p \in log : LinkedTo(s, p) /\ s.prev # NoHash
      BY <3>1, <3>2 DEF Kept
    <3>4. p.at < s.at /\ r.at <= p.at
      BY <3>1, <3>3 DEF LinkedTo, Follows
    <3>5. p.at = r.at
      BY <1>6, <2>1, <3>1, <3>4
    <3>6. p = r
      BY <3>5 DEF IInv, Sorted, Distinct
    <3>7. Cut(s)'
      BY <1>4, <1>6, <1>7, <3>3, <3>6 DEF LinkedTo, Cut, Owner
    <3> QED BY <1>3, <2>3, <3>7
  <2>4. CASE s.id \notin orphans /\ ~ (later # {} /\ s = FirstOf(later))
    <3>1. Kept(s) /\ s.id \notin orphans'
      BY <1>2, <1>3, <1>5, <2>1, <2>4 DEF IInv, Sorted, Distinct, Chained, Linked
    <3>2. CASE s.prev = NoHash /\ \A q \in log : s.at <= q.at
      BY <1>7, <3>1, <3>2 DEF Kept
    <3>3. ASSUME s.prev # NoHash, NEW p \in log, LinkedTo(s, p)
          PROVE  Kept(s)'
      <4>1. p # r
        <5> SUFFICES ASSUME p = r PROVE FALSE
          OBVIOUS
        <5>1. r.at < s.at /\ \A q \in log : q.at < s.at => q.at <= r.at
          BY <3>3 DEF LinkedTo, Follows
        <5>2. s \in later
          BY <1>2, <2>1, <5>1
        <5>3. FirstOf(later) \in log /\ r.at < FirstOf(later).at /\ FirstOf(later).at <= s.at
              /\ FirstOf(later) # s
          BY <1>2, <1>5, <2>4, <5>2
        <5>4. FirstOf(later).at # s.at
          BY <2>1, <5>3 DEF IInv, Sorted, Distinct
        <5> QED BY <1>6, <2>1, <5>1, <5>3, <5>4
      <4>2. p \in log' /\ p.id # r.id
        BY <1>3, <1>7, <4>1
      <4>3. Follows(s, p)'
        BY <1>7, <3>3, <4>2 DEF LinkedTo, Follows
      <4> QED BY <1>3, <3>3, <4>2, <4>3 DEF Kept, LinkedTo, Owner
    <3> QED BY <3>1, <3>2, <3>3 DEF Kept
  <2> QED BY <2>2, <2>3, <2>4
<1> QED BY <1>8, <1>9, <1>10, <1>11

----------------------------------------------------------------------------
(* The theorems *)

(* Every step preserves the types. *)
LEMMA NextTypes == Types /\ [Next]_vars => Types'
<1> SUFFICES ASSUME Types, [Next]_vars PROVE Types'
  OBVIOUS
<1>1. ASSUME NEW w \in Writers, NEW x, x.since \in Nat, x.since <= appends,
             tx' = [tx EXCEPT ![w] = x]
      PROVE  /\ tx' = [v \in Writers |-> tx'[v]]
             /\ \A v \in Writers : tx'[v].since \in Nat /\ tx'[v].since <= appends
  <2>1. tx' = [v \in Writers |-> IF v = w THEN x ELSE tx[v]]
    BY <1>1, Zenon DEF Types
  <2>2. tx' = [v \in Writers |-> tx'[v]]
    BY <2>1, Zenon
  <2>3. \A v \in Writers : tx'[v].since \in Nat /\ tx'[v].since <= appends
    BY <1>1, <2>1 DEF Types
  <2> QED BY <2>2, <2>3
<1>2. ASSUME NEW w \in Writers, ReadPrevious(w) PROVE Types'
  <2>1. /\ tx' = [v \in Writers |-> tx'[v]]
        /\ \A v \in Writers : tx'[v].since \in Nat /\ tx'[v].since <= appends
    BY <1>1, <1>2 DEF Types, ReadPrevious
  <2> QED BY <1>2, <2>1 DEF Types, ReadPrevious, damageVars
<1>3. ASSUME NEW w \in Writers, Commit(w) \/ Abort(w) PROVE Types'
  <2>1. /\ tx' = [v \in Writers |-> tx'[v]]
        /\ \A v \in Writers : tx'[v].since \in Nat /\ tx'[v].since <= appends
    <3>1. NoTx.since \in Nat /\ NoTx.since <= appends
      BY DEF NoTx, Types
    <3> QED BY <1>1, <1>3, <3>1 DEF Commit, Abort
  <2> QED BY <1>3, <2>1 DEF Types, Commit, Abort, damageVars
<1>4. CASE Change \/ Lose
  BY <1>4 DEF Types, Change, Lose
<1>5. CASE UNCHANGED vars
  BY <1>5 DEF Types, vars, damageVars
<1> QED BY <1>2, <1>3, <1>4, <1>5 DEF Next

(* Every step preserves the invariant when the writers share a clock. *)
LEMMA NextIInv ==
  ASSUME OneClockOnly
  PROVE  IInv /\ [Next]_vars => IInv'
<1> SUFFICES ASSUME IInv, [Next]_vars
             PROVE  Distinct' /\ Rows' /\ TxCurrent' /\ Marks' /\ Chained'
  BY NextTypes DEF IInv, Sorted
<1>1. ASSUME NEW w \in Writers, ReadPrevious(w) \/ Commit(w) \/ Abort(w)
      PROVE  Distinct' /\ Rows' /\ TxCurrent' /\ Marks' /\ Chained'
  BY <1>1, ReadKeeps, CommitKeeps, AbortKeeps
<1>2. CASE Change
  BY <1>2, ChangeKeeps
<1>3. CASE Lose
  BY <1>3, LoseKeeps, ClockIs
<1>4. CASE UNCHANGED vars
  BY <1>4 DEF vars, damageVars, IInv, Sorted, Distinct, Rows, Row, Ids, Owner, ComputeHash, Marks,
              Chained, Linked, Cut, Kept, LinkedTo, Follows, TxCurrent
<1> QED BY <1>1, <1>2, <1>3, <1>4 DEF Next

(* VerifyRecords returns the first record that was changed or lost the one before  *)
(* it, and nothing else, for every number of writers, records, changes and losses, *)
(* when the writers share a clock (audit.go, FR-37).                             *)
THEOREM FirstDamageIsNamed ==
  ASSUME OneClockOnly
  PROVE  Spec => []BreakIsFirstDamage
<1>1. IInv => BreakIsFirstDamage
  BY ClockIs, FirstBreakIsHit
<1> QED BY InitIInv, NextIInv, <1>1, PTL DEF Spec

(* Append, Read and VerifyRecords agree for every number of writers, records and  *)
(* decisions: when the writers share a clock, a log that only Append has written  *)
(* verifies in every state, whatever transactions are open (audit.go).            *)
THEOREM AppendedChainsVerify ==
  ASSUME OneClockOnly
  PROVE  Spec => []ChainVerifies
<1>1. IInv => ChainVerifies
  <2> SUFFICES ASSUME IInv, damage = 0 PROVE Verify = {}
    BY DEF ChainVerifies
  <2>1. Hit = {}
    BY DEF Hit, IInv, Marks
  <2>2. \A r \in log : ~Breaks(r)
    BY <2>1, ClockIs, BreakFollowsHit
  <2> QED BY <2>2 DEF Verify
<1> QED BY InitIInv, NextIInv, <1>1, PTL DEF Spec

=============================================================================
