----------------------------- MODULE AuditChain -----------------------------
(***************************************************************************)
(* The hash-chained decision log (go/internal/audit/audit.go): the records *)
(* of one arrival, written by several processes (Portwatch, Berthmaster),  *)
(* each with its own clock, and walked by the verifier.  Every query       *)
(* filters on arrival_id, so the chains of two arrivals never meet.        *)
(*                                                                         *)
(* A hash is the tuple it is computed from: equal hashes are equal         *)
(* contents.  Damage is a row changed or lost behind the program's back,   *)
(* which the verifier exists to report.                                    *)
(***************************************************************************)
EXTENDS Integers, FiniteSets

CONSTANTS
  Writers,      \* the processes that append
  Skew,         \* each writer's clock error
  Decisions     \* what an entry may say; a changed row says something else

CONSTANTS       \* bounds of a model
  MaxRecords,   \* records appended
  MaxNow,       \* database round trips
  MaxDamage     \* rows changed or lost

ASSUME AuditAssumption ==
  /\ Skew \in [Writers -> Int]
  /\ "altered" \notin Decisions \cup Writers
  /\ MaxRecords \in Nat /\ MaxNow \in Nat /\ MaxDamage \in Nat

VARIABLES
  log,        \* the chain's rows of audit_record
  now,        \* true time
  appends,    \* appends committed
  tx,         \* each writer's open transaction
  changed,    \* ids of rows changed since they were written
  orphans,    \* ids of rows whose predecessor was lost
  damage      \* rows changed or lost so far

damageVars == <<changed, orphans, damage>>
vars == <<log, now, appends, tx, damageVars>>

----------------------------------------------------------------------------
(* Records *)

NoHash == <<>>
Altered(r) == <<"altered", r.id>>

ComputeHash(r) == <<r.id, r.at, r.by, r.decision, r.prev>>

(* ORDER BY at, record_id. *)
Before(r, s) == r.at < s.at \/ (r.at = s.at /\ r.id < s.id)

LatestOf(rs) == CHOOSE r \in rs : \A s \in rs \ {r} : Before(s, r)
FirstOf(rs) == CHOOSE r \in rs : \A s \in rs \ {r} : Before(r, s)

(* record_hash of the last of these rows, empty when there is none. *)
LastHash(rs) == IF rs = {} THEN NoHash ELSE LatestOf(rs).hash

(* Mutant: the walk trusts record_hash. *)
BreaksUnhashed(r) == r.prev # LastHash({s \in log : Before(s, r)})

(* VerifyRecords at one record of its walk in Read's order. *)
Breaks(r) ==
  \/ r.prev # LastHash({s \in log : Before(s, r)})
  \/ r.hash # ComputeHash(r)

(* The record of the Break that Verify returns, in a set; empty for nil. *)
Verify ==
  LET bad == {r \in log : Breaks(r)}
  IN  IF bad = {} THEN {} ELSE {FirstOf(bad).id}

----------------------------------------------------------------------------
(* Append, a serializable transaction *)

NoTx == [open |-> FALSE, prev |-> NoHash, since |-> 0]

Init ==
  /\ log = {} /\ now = 0 /\ appends = 0
  /\ tx = [w \in Writers |-> NoTx]
  /\ changed = {} /\ orphans = {} /\ damage = 0

(* BeginTx and the read of the previous hash.  A round trip to the database      *)
(* outlasts the clock's microsecond.                                            *)
ReadPrevious(w) ==
  /\ ~tx[w].open /\ appends < MaxRecords /\ now < MaxNow
  /\ now' = now + 1
  /\ tx' = [tx EXCEPT ![w] = [open |-> TRUE, prev |-> LastHash(log), since |-> appends]]
  /\ UNCHANGED <<log, appends, damageVars>>

(* ulid.Make: unique, and against another process's id of the same instant in    *)
(* either order.                                                                *)
FreshIds == {appends + 1, -(appends + 1)}

(* The record Append builds, with its hash. *)
NewRecord(w, i, d) ==
  LET r == [id |-> i, at |-> now + Skew[w], by |-> w, decision |-> d, prev |-> tx[w].prev]
  IN  [id |-> i, at |-> r.at, by |-> w, decision |-> d, prev |-> r.prev, hash |-> ComputeHash(r)]

(* Mutant: a weaker isolation level lets two appends share a predecessor. *)
CommitUnserialized(w) ==
  /\ tx[w].open /\ appends < MaxRecords
  /\ \E i \in FreshIds, d \in Decisions : log' = log \cup {NewRecord(w, i, d)}
  /\ appends' = appends + 1
  /\ tx' = [tx EXCEPT ![w] = NoTx]
  /\ UNCHANGED <<now, damageVars>>

(* INSERT and COMMIT: only if no append committed since the snapshot was taken. *)
Commit(w) ==
  /\ tx[w].open /\ tx[w].since = appends
  /\ \E i \in FreshIds, d \in Decisions : log' = log \cup {NewRecord(w, i, d)}
  /\ appends' = appends + 1
  /\ tx' = [tx EXCEPT ![w] = NoTx]
  /\ UNCHANGED <<now, damageVars>>

(* A serialization failure, or any other error: Append does not try again. *)
Abort(w) ==
  /\ tx[w].open
  /\ tx' = [tx EXCEPT ![w] = NoTx]
  /\ UNCHANGED <<log, now, appends, damageVars>>

----------------------------------------------------------------------------
(* Damage to a chain at rest *)

AtRest == damage < MaxDamage /\ \A w \in Writers : ~tx[w].open

(* Other instants of the past at which the row would stand where it stands in      *)
(* Read's order.                                                                  *)
Redatings(r) ==
  {t \in {k + Skew[w] : k \in 1 .. now, w \in Writers} :
     t # r.at /\ \A s \in log \ {r} : s.at # t /\ (s.at < r.at <=> s.at < t)}

(* The row with one column changed, any but its id. *)
Alterations(r) ==
  {[r EXCEPT !.decision = "altered"], [r EXCEPT !.by = "altered"],
   [r EXCEPT !.prev = Altered(r)], [r EXCEPT !.hash = Altered(r)]}
  \cup {[r EXCEPT !.at = t] : t \in Redatings(r)}

Change ==
  /\ AtRest
  /\ \E r \in log : \E a \in Alterations(r) :
       /\ r.id \notin changed
       /\ log' = (log \ {r}) \cup {a}
       /\ changed' = changed \cup {r.id}
  /\ damage' = damage + 1
  /\ UNCHANGED <<now, appends, tx, orphans>>

Lose ==
  /\ AtRest
  /\ \E r \in log :
       LET later == {s \in log : Before(r, s)}
       IN  /\ log' = log \ {r}
           /\ changed' = changed \ {r.id}
           /\ orphans' = (orphans \ {r.id})
                           \cup (IF later = {} THEN {} ELSE {FirstOf(later).id})
  /\ damage' = damage + 1
  /\ UNCHANGED <<now, appends, tx>>

Next ==
  \/ \E w \in Writers : ReadPrevious(w) \/ Commit(w) \/ Abort(w)
  \/ Change \/ Lose

Spec == Init /\ [][Next]_vars

----------------------------------------------------------------------------
(* Properties *)

(* A chain that only Append has touched verifies, however its writers            *)
(* interleave: no append forks it or lands out of order (Append's transaction,   *)
(* Read's order, VerifyRecords).                                                *)
ChainVerifies == damage = 0 => Verify = {}

(* The verifier names the first record that was changed or lost its predecessor, *)
(* and reports nothing else, through any mix of damage and further appends; only *)
(* the loss of the newest records leaves no trace (Verify, FR-37).               *)
BreakIsFirstDamage ==
  LET hit == {r \in log : r.id \in changed \cup orphans}
  IN  Verify = (IF hit = {} THEN {} ELSE {FirstOf(hit).id})
=============================================================================
