-------------------------- MODULE PortwatchProofs ---------------------------
(***************************************************************************)
(* Proofs about Portwatch for every directory, any number of instances     *)
(* that share it, and any number of writes, crashes and handler errors.    *)
(***************************************************************************)
EXTENDS Portwatch, FiniteSetTheorems, SequenceTheorems, TLAPS

(* What Record inserts and Publish appends. *)
Made(p) == [id |-> h[p].id, sha |-> h[p].sha, name |-> h[p].name]

----------------------------------------------------------------------------
(* Type correctness *)

(* The empty values are well typed. *)
LEMMA EmptyTypes ==
  /\ NoFile \in File /\ NotSeen \in Observation
  /\ Idle \in HandlerLocals /\ Idle.step = "idle"
BY DEF NoFile, NotSeen, Idle, NoSha, File, Observation, HandlerLocals, Steps

(* The initial state is well typed. *)
LEMMA TypeInit == Init => TypeOK
<1> SUFFICES ASSUME Init PROVE TypeOK
  OBVIOUS
<1>1. /\ landing \in [Names -> File] /\ seen \in [Instances -> [Names -> Observation]]
      /\ h \in [Instances -> HandlerLocals] /\ \A p \in Instances : h[p].step = "idle"
  BY EmptyTypes DEF Init
<1>2. QED
  BY <1>1 DEF Init, TypeOK

(* What the scanner makes of an observation is an observation. *)
LEMMA ObserveType ==
  ASSUME NEW o \in Observation, NEW f \in File, NEW sentinel \in BOOLEAN
  PROVE  Observe(o, f, sentinel) \in Observation
<1>1. /\ o.known \in BOOLEAN /\ o.emitted \in BOOLEAN /\ o.stamp \in Nat /\ o.stable \in Nat
      /\ f.stamp \in Nat
  BY DEF Observation, File
<1>2. [NotSeen EXCEPT !.known = TRUE, !.stamp = f.stamp] \in Observation
  BY <1>1 DEF NotSeen, Observation
<1>3. [o EXCEPT !.stamp = f.stamp, !.stable = 0] \in Observation
  BY <1>1 DEF Observation
<1>4. /\ [o EXCEPT !.stable = @ + 1, !.emitted = TRUE] \in Observation
      /\ [o EXCEPT !.stable = @ + 1, !.emitted = FALSE] \in Observation
  <2>1. PICK k \in Nat : k = o.stable + 1
    BY <1>1
  <2>2. [o EXCEPT !.stable = k] \in Observation
    BY <1>1 DEF Observation
  <2>3. ASSUME NEW v \in Observation
        PROVE  [v EXCEPT !.emitted = TRUE] \in Observation /\ [v EXCEPT !.emitted = FALSE] \in Observation
    BY DEF Observation
  <2>4. QED
    BY <2>1, <2>2, <2>3
<1>5. [o EXCEPT !.stable = @ + 1, !.emitted = sentinel \/ o.stable + 1 >= QuietScans] \in Observation
  <2>1. CASE sentinel \/ o.stable + 1 >= QuietScans
    BY <1>4, <2>1
  <2>2. CASE ~(sentinel \/ o.stable + 1 >= QuietScans)
    BY <1>4, <2>2
  <2>3. QED
    BY <2>1, <2>2
<1>6. QED
  BY <1>2, <1>3, <1>5, EmptyTypes DEF Observe

(* A write by a client keeps the types. *)
LEMMA WriteType ==
  ASSUME TypeOK, NEW n \in Names, NEW c \in Contents, NEW whole \in BOOLEAN, Write(n, c, whole)
  PROVE  TypeOK'
<1>1. [content |-> c, whole |-> whole, stamp |-> writes + 1] \in File
  BY DEF TypeOK, File
<1>2. landing' \in [Names -> File] /\ writes' \in Nat /\ stall' \in [Instances -> [Names -> Nat]]
  BY <1>1 DEF TypeOK, Write
<1>3. QED
  BY <1>2 DEF TypeOK, Write, storeVars

(* Every step of a client keeps the types. *)
LEMMA ClientType == ASSUME TypeOK, NEW n \in Names, Client(n) PROVE TypeOK'
<1>1. CASE BeginWrite(n)
  BY <1>1, WriteType DEF BeginWrite
<1>2. CASE KeepWriting(n) \/ EndWrite(n)
  <2>1. landing[n].content \in Contents
    BY <1>2 DEF TypeOK, KeepWriting, EndWrite, Present, File
  <2>2. QED
    BY <1>2, <2>1, WriteType DEF KeepWriting, EndWrite
<1>3. CASE DropSentinel(n)
  BY <1>3 DEF DropSentinel, TypeOK, storeVars
<1>4. CASE Remove(n)
  <2>1. landing' \in [Names -> File]
    BY <1>4, EmptyTypes DEF Remove, TypeOK
  <2>2. QED
    BY <1>4, <2>1 DEF Remove, TypeOK, storeVars
<1>5. QED
  BY <1>1, <1>2, <1>3, <1>4 DEF Client

(* A pass of the scanner keeps the types. *)
LEMMA ScanType == ASSUME TypeOK, NEW p \in Instances, Scan(p) PROVE TypeOK'
<1> DEFINE new == [n \in Names |-> Observe(seen[p][n], landing[n], n \in done)]
           ready == {n \in Names : new[n].emitted /\ ~seen[p][n].emitted}
<1>1. new \in [Names -> Observation]
  <2> SUFFICES ASSUME NEW n \in Names
               PROVE  Observe(seen[p][n], landing[n], n \in done) \in Observation
    BY Zenon
  <2>1. seen[p][n] \in Observation /\ landing[n] \in File
    BY DEF TypeOK
  <2>2. CASE n \in done
    <3>1. (n \in done) = TRUE
      BY <2>2
    <3>2. QED
      BY <2>1, <3>1, ObserveType
  <2>3. CASE n \notin done
    <3>1. (n \in done) = FALSE
      BY <2>3
    <3>2. QED
      BY <2>1, <3>1, ObserveType
  <2>4. QED
    BY <2>2, <2>3
<1>2. seen' \in [Instances -> [Names -> Observation]]
  BY <1>1 DEF Scan, TypeOK
<1>3. PICK order \in [1 .. Cardinality(ready) -> ready] : queue' = [queue EXCEPT ![p] = @ \o order]
  BY DEF Scan
<1>4. ready \subseteq Names /\ Cardinality(ready) \in Nat
  <2>1. ready \in SUBSET Names
    OBVIOUS
  <2>2. IsFiniteSet(ready)
    BY <2>1, ConstantsAssumption, FS_Subset
  <2>3. QED
    BY <2>1, <2>2, FS_CardinalityType
<1> HIDE DEF new, ready
<1>5. order \in Seq(Names)
  <2>1. order \in [1 .. Cardinality(ready) -> Names]
    BY <1>3, <1>4
  <2>2. QED
    BY <1>4, <2>1, SeqDef
<1>6. queue' \in [Instances -> Seq(Names)]
  BY <1>3, <1>5 DEF TypeOK
<1>7. stall' \in [Instances -> [Names -> Nat]]
  BY DEF Scan, TypeOK
<1>8. QED
  BY <1>2, <1>6, <1>7 DEF Scan, TypeOK, storeVars

(* Taking the head of its queue leaves an instance a queue. *)
LEMMA TailType ==
  ASSUME TypeOK, NEW p \in Instances, queue[p] # <<>>
  PROVE  /\ Head(queue[p]) \in Names
         /\ [queue EXCEPT ![p] = Tail(@)] \in [Instances -> Seq(Names)]
BY DEF TypeOK

(* Returning clears the handler's locals. *)
LEMMA ReturnType ==
  ASSUME TypeOK, NEW p \in Instances, Return(p)
  PROVE  /\ h' \in [Instances -> HandlerLocals]
         /\ h'[p] = Idle /\ \A q \in Instances \ {p} : h'[q] = h[q]
         /\ \A q \in Instances : h'[q].step # "idle" => h'[q].name \in Names /\ h'[q].sha \in FileSha
<1>1. h' \in [Instances -> HandlerLocals] /\ h'[p] = Idle /\ \A q \in Instances \ {p} : h'[q] = h[q]
  BY EmptyTypes DEF Return, TypeOK
<1>2. QED
  BY <1>1, EmptyTypes DEF TypeOK

(* Moving on to another step keeps them. *)
LEMMA GotoType ==
  ASSUME TypeOK, NEW p \in Instances, NEW step \in Steps, Goto(p, step)
  PROVE  /\ h' \in [Instances -> HandlerLocals]
         /\ h'[p].step = step /\ h'[p].name = h[p].name /\ h'[p].sha = h[p].sha
         /\ h'[p].id = h[p].id /\ h'[p].prior = h[p].prior
         /\ \A q \in Instances \ {p} : h'[q] = h[q]
<1>1. h[p] \in HandlerLocals
  BY DEF TypeOK
<1>2. [h[p] EXCEPT !.step = step] \in HandlerLocals
  BY <1>1 DEF HandlerLocals
<1>3. h' = [h EXCEPT ![p] = [h[p] EXCEPT !.step = step]]
  BY DEF Goto
<1>4. QED
  BY <1>1, <1>2, <1>3 DEF TypeOK, HandlerLocals

(* What a working handler makes is a row of the arrival table. *)
LEMMA MadeType ==
  ASSUME TypeOK, NEW p \in Instances, h[p].step # "idle"
  PROVE  Made(p) \in ArrivalRow
BY DEF TypeOK, Made, ArrivalRow, HandlerLocals

(* Every step of a handler keeps the types. *)
LEMMA HandleType == ASSUME TypeOK, NEW p \in Instances, Handle(p) PROVE TypeOK'
<1> USE DEF dirVars, storeVars
<1>0. h[p] \in HandlerLocals
  BY DEF TypeOK
<1>1. CASE Store(p)
  <2> DEFINE n == Head(queue[p])
             l == [step |-> "check", name |-> n, sha |-> Sha(landing[n]), id |-> ids + 1, prior |-> 0]
  <2>1. n \in Names /\ queue' \in [Instances -> Seq(Names)]
    BY <1>1, TailType DEF Store
  <2>2. Sha(landing[n]) \in FileSha
    BY <1>1, <2>1 DEF Store, Present, Sha, FileSha, TypeOK, File
  <2>3. /\ l \in HandlerLocals /\ l.name = n /\ l.sha = Sha(landing[n])
        /\ [id |-> ids + 1, sha |-> Sha(landing[n])] \in [id : Nat, sha : FileSha]
    BY <2>1, <2>2 DEF HandlerLocals, Steps, FileSha, TypeOK
  <2>4. h' = [h EXCEPT ![p] = l]
    BY <1>1 DEF Store
  <2>5. objects' \subseteq [id : Nat, sha : FileSha] /\ ids' \in Nat
    BY <1>1, <2>3 DEF Store, TypeOK
  <2> HIDE DEF l, n
  <2>6. /\ h' \in [Instances -> HandlerLocals]
        /\ \A q \in Instances : h'[q].step # "idle" => h'[q].name \in Names /\ h'[q].sha \in FileSha
    BY <2>1, <2>2, <2>3, <2>4 DEF TypeOK
  <2>7. QED
    BY <1>1, <2>1, <2>5, <2>6 DEF Store, TypeOK
<1>2. CASE OpenFails(p)
  BY <1>2, TailType DEF OpenFails, TypeOK
<1>3. CASE Check(p)
  <2>1. CASE Goto(p, "record")
    BY <1>3, <2>1, GotoType DEF Check, TypeOK, Steps
  <2>2. ASSUME NEW a \in arrivals, h' = [h EXCEPT ![p].step = "suppress", ![p].prior = a.id]
        PROVE  TypeOK'
    <3>1. a.id \in Nat
      BY DEF TypeOK, ArrivalRow
    <3>2. h' = [h EXCEPT ![p] = [h[p] EXCEPT !.step = "suppress", !.prior = a.id]]
      BY <2>2
    <3>3. [h[p] EXCEPT !.step = "suppress", !.prior = a.id] \in HandlerLocals
      BY <1>0, <3>1 DEF HandlerLocals, Steps
    <3>4. /\ h' \in [Instances -> HandlerLocals]
          /\ \A q \in Instances : h'[q].step # "idle" => h'[q].name \in Names /\ h'[q].sha \in FileSha
      BY <1>0, <1>3, <3>2, <3>3 DEF Check, TypeOK, HandlerLocals
    <3>5. QED
      BY <1>3, <3>4 DEF Check, TypeOK
  <2>3. QED
    BY <1>3, <2>1, <2>2 DEF Check, Priors
<1>4. CASE AuditSuppressed(p)
  <2>1. [type |-> "ARRIVAL_SUPPRESSED", arrival |-> h[p].prior] \in AuditEntry
    BY <1>0 DEF AuditEntry, HandlerLocals
  <2>2. QED
    BY <1>4, <2>1, ReturnType, EmptyTypes DEF AuditSuppressed, TypeOK
<1>5. CASE Record(p)
  <2>1. Made(p) \in ArrivalRow
    BY <1>5, MadeType DEF Record
  <2>2. CASE Goto(p, "publish") /\ arrivals' = arrivals \cup {Made(p)}
    BY <1>5, <2>1, <2>2, GotoType DEF Record, TypeOK, Steps
  <2>3. CASE Return(p) /\ arrivals' = arrivals
    BY <1>5, <2>3, ReturnType, EmptyTypes DEF Record, TypeOK
  <2>4. QED
    BY <1>5, <2>2, <2>3 DEF Record, Made
<1>6. CASE Publish(p)
  <2>1. Made(p) \in ArrivalRow
    BY <1>6, MadeType DEF Publish
  <2>2. raw' \in Seq(ArrivalRow)
    BY <1>6, <2>1 DEF Publish, TypeOK, Made
  <2>3. QED
    BY <1>6, <2>2, GotoType DEF Publish, TypeOK, Steps
<1>7. CASE AuditDetected(p)
  <2>1. [type |-> "ARRIVAL_DETECTED", arrival |-> h[p].id] \in AuditEntry
    BY <1>0 DEF AuditEntry, HandlerLocals
  <2>2. QED
    BY <1>7, <2>1, GotoType DEF AuditDetected, TypeOK, Steps
<1>8. CASE Forget(p)
  <2>1. seen' \in [Instances -> [Names -> Observation]]
    BY <1>8, EmptyTypes DEF Forget, TypeOK
  <2>2. QED
    BY <1>8, <2>1, ReturnType, EmptyTypes DEF Forget, TypeOK
<1>9. QED
  BY <1>1, <1>2, <1>3, <1>4, <1>5, <1>6, <1>7, <1>8 DEF Handle

(* A handler error and a restart keep the types. *)
LEMMA FaultType == ASSUME TypeOK, NEW p \in Instances, HandleError(p) \/ Crash(p) PROVE TypeOK'
<1> USE DEF dirVars, storeVars
<1>1. CASE HandleError(p)
  <2>1. queue' \in [Instances -> Seq(Names)]
    BY <1>1, TailType DEF HandleError, TypeOK
  <2>2. /\ h' \in [Instances -> HandlerLocals]
        /\ \A q \in Instances : h'[q].step # "idle" => h'[q].name \in Names /\ h'[q].sha \in FileSha
    BY <1>1, ReturnType DEF HandleError
  <2>3. QED
    BY <1>1, <2>1, <2>2 DEF HandleError, TypeOK
<1>2. CASE Crash(p)
  <2>1. seen' \in [Instances -> [Names -> Observation]] /\ queue' \in [Instances -> Seq(Names)]
    BY <1>2, EmptyTypes, EmptySeq DEF Crash, TypeOK
  <2>2. /\ h' \in [Instances -> HandlerLocals]
        /\ \A q \in Instances : h'[q].step # "idle" => h'[q].name \in Names /\ h'[q].sha \in FileSha
    BY <1>2, ReturnType DEF Crash
  <2>3. QED
    BY <1>2, <2>1, <2>2 DEF Crash, TypeOK
<1>3. QED
  BY <1>1, <1>2

(* Every step keeps the types. *)
LEMMA TypeStep == TypeOK /\ [Next]_vars => TypeOK'
<1> SUFFICES ASSUME TypeOK, [Next]_vars PROVE TypeOK'
  OBVIOUS
<1>1. CASE UNCHANGED vars
  BY <1>1 DEF vars, dirVars, storeVars, TypeOK
<1>2. QED
  BY <1>1, ClientType, ScanType, HandleType, FaultType DEF Next

(* Every reachable state is well typed, and a handler at work has a file it opened *)
(* (Processor.handle).                                                            *)
THEOREM TypeCorrect == Spec => []TypeOK
BY TypeInit, TypeStep, PTL DEF Spec

----------------------------------------------------------------------------
(* The inductive invariant for the durable order of the processor's steps. *)

(* Ids are handed out once: a row carries one of those in use, and two handlers  *)
(* at work hold different ones.                                                  *)
IdsAreFresh ==
  /\ \A a \in arrivals : a.id <= ids
  /\ \A p \in Instances : h[p].step # "idle" => h[p].id <= ids
  /\ \A p, q \in Instances :
       h[p].step # "idle" /\ h[q].step # "idle" /\ h[p].id = h[q].id => p = q

(* A file is stored before anything else is done with it. *)
StoredFirst ==
  /\ \A p \in Instances : h[p].step # "idle" => [id |-> h[p].id, sha |-> h[p].sha] \in objects
  /\ \A a \in arrivals : [id |-> a.id, sha |-> a.sha] \in objects

(* It is recorded by Record and by no step before, and published by Publish and  *)
(* by no step before.                                                            *)
RecordedSecond ==
  /\ \A p \in Instances : h[p].step \in {"check", "suppress", "record"} =>
       \A a \in arrivals : a.id # h[p].id
  /\ \A p \in Instances : h[p].step = "publish" => Made(p) \in arrivals

PublishedThird ==
  /\ \A p \in Instances : h[p].step = "publish" => \A i \in DOMAIN raw : raw[i].id # h[p].id
  /\ \A i \in DOMAIN raw : raw[i] \in arrivals
  /\ \A i, j \in DOMAIN raw : raw[i].id = raw[j].id => i = j

(* The unique constraint of the arrival table. *)
RowsAreUnique == \A a, b \in arrivals : a.sha = b.sha /\ a.name = b.name => a = b

PInv == TypeOK /\ IdsAreFresh /\ StoredFirst /\ RecordedSecond /\ PublishedThird /\ RowsAreUnique

(* One instance: content of which there is a row never comes to a second one. *)
OneRowPerContent ==
  /\ \A a, b \in arrivals : a.sha = b.sha => a = b
  /\ \A p \in Instances : h[p].step = "record" => \A a \in arrivals : a.sha # h[p].sha

(* No faults: a row is published, or its handler is about to. *)
RowsReachRaw ==
  /\ \A a \in arrivals : \/ \E i \in DOMAIN raw : raw[i].id = a.id
                         \/ \E p \in Instances : h[p].step = "publish" /\ h[p].id = a.id
  /\ \A p \in Instances : h[p].step = "suppress" => \E a \in arrivals : a.id = h[p].prior
  /\ \A e \in trail : e.type = "ARRIVAL_SUPPRESSED" => \E a \in arrivals : a.id = e.arrival

(* No name is reused: a file that was ever ready to be handled is complete, and  *)
(* the quiet time a scanner has counted on an unfinished one is less than the    *)
(* time its writer has paused.                                                   *)
Complete(n) == Present(n) /\ landing[n].whole
ReadyIsComplete ==
  /\ \A n \in done : Complete(n)
  /\ \A p \in Instances, n \in Names : seen[p][n].emitted => Complete(n)
  /\ \A p \in Instances : \A i \in DOMAIN queue[p] : Complete(queue[p][i])
  /\ \A p \in Instances : h[p].step # "idle" => h[p].sha.whole
  /\ \A i \in DOMAIN raw : raw[i].sha.whole
QuietIsPause ==
  /\ \A n \in Names : landing[n].stamp <= writes
  /\ \A p \in Instances, n \in Names :
       /\ seen[p][n].known => seen[p][n].stamp <= writes
       /\ seen[p][n].known /\ seen[p][n].stamp = landing[n].stamp /\ Present(n) /\ ~landing[n].whole
            => seen[p][n].stable < stall[p][n]

----------------------------------------------------------------------------
(* What each step does to handlers and stores.  Three steps add to a store; every *)
(* other one leaves the stores alone and, of a handler, only chooses its branch,  *)
(* passes from audit to forget, or ends its work.                                *)

Recorded(p) ==
  /\ h[p].step = "record" /\ ~Conflict(h[p].sha, h[p].name)
  /\ arrivals' = arrivals \cup {Made(p)}
  /\ Goto(p, "publish")
  /\ UNCHANGED <<objects, raw, trail, ids>>

Chooses(p) ==
  /\ h[p].step = "check" /\ h'[p].id = h[p].id /\ h'[p].sha = h[p].sha /\ h'[p].name = h[p].name
  /\ \/ h'[p].step = "record" /\ \A a \in arrivals : a.sha # h[p].sha
     \/ h'[p].step = "suppress" /\ \E a \in arrivals : a.id = h'[p].prior

Passes(p) ==
  h[p].step = "audit" /\ h'[p].step = "forget" /\ h'[p].id = h[p].id /\ h'[p].sha = h[p].sha

Ends(p) == h'[p].step = "idle" /\ (h[p].step # "publish" \/ FaultKinds # {})

Quiet ==
  /\ UNCHANGED <<objects, arrivals, raw, ids>>
  /\ \A q \in Instances : h'[q] = h[q] \/ Chooses(q) \/ Passes(q) \/ Ends(q)
  /\ \A e \in trail' : \/ e \in trail \/ e.type = "ARRIVAL_DETECTED"
                      \/ \E q \in Instances : h[q].step = "suppress" /\ e.arrival = h[q].prior

(* A handler that moves on leaves the others alone. *)
LEMMA GotoEffect ==
  ASSUME TypeOK, NEW p \in Instances, NEW step, Goto(p, step)
  PROVE  /\ h'[p].step = step /\ h'[p].name = h[p].name /\ h'[p].sha = h[p].sha
         /\ h'[p].id = h[p].id /\ h'[p].prior = h[p].prior
         /\ \A q \in Instances \ {p} : h'[q] = h[q]
<1>1. h' = [h EXCEPT ![p] = [h[p] EXCEPT !.step = step]] /\ h[p] \in HandlerLocals
  BY DEF Goto, TypeOK
<1>2. QED
  BY <1>1 DEF TypeOK, HandlerLocals

(* So does one that returns. *)
LEMMA ReturnEffect ==
  ASSUME TypeOK, NEW p \in Instances, Return(p), h[p].step # "publish" \/ FaultKinds # {}
  PROVE  \A q \in Instances : h'[q] = h[q] \/ Ends(q)
BY ReturnType, EmptyTypes DEF Ends

(* Every step is of one of these kinds. *)
LEMMA StepKinds ==
  ASSUME TypeOK, [Next]_vars
  PROVE  Quiet \/ \E p \in Instances : Store(p) \/ Recorded(p) \/ Publish(p)
<1> USE DEF storeVars
<1>1. CASE UNCHANGED vars
  BY <1>1 DEF vars, Quiet
<1>2. ASSUME NEW n \in Names, Client(n) PROVE Quiet
  BY <1>2 DEF Client, BeginWrite, KeepWriting, EndWrite, DropSentinel, Remove, Write, Quiet
<1>3. ASSUME NEW p \in Instances, Scan(p) PROVE Quiet
  BY <1>3 DEF Scan, Quiet
<1>4. ASSUME NEW p \in Instances, HandleError(p) \/ Crash(p) PROVE Quiet
  <2>1. FaultKinds # {} /\ Return(p) /\ UNCHANGED <<objects, arrivals, raw, trail, ids>>
    BY <1>4 DEF HandleError, Crash
  <2>2. QED
    BY <2>1, ReturnEffect DEF Quiet
<1>5. ASSUME NEW p \in Instances, Handle(p)
      PROVE  Quiet \/ Store(p) \/ Recorded(p) \/ Publish(p)
  <2>1. CASE Store(p) \/ Publish(p)
    BY <2>1
  <2>2. CASE OpenFails(p)
    BY <2>2 DEF OpenFails, Quiet
  <2>3. CASE Check(p)
    <3>1. ASSUME Priors(h[p].sha, h[p].name) = {}, Goto(p, "record")
          PROVE  Chooses(p) /\ \A q \in Instances \ {p} : h'[q] = h[q]
      BY <2>3, <3>1, GotoEffect DEF Check, Priors, Chooses
    <3>2. ASSUME NEW a \in Priors(h[p].sha, h[p].name),
                 h' = [h EXCEPT ![p].step = "suppress", ![p].prior = a.id]
          PROVE  Chooses(p) /\ \A q \in Instances \ {p} : h'[q] = h[q]
      <4>1. h' = [h EXCEPT ![p] = [h[p] EXCEPT !.step = "suppress", !.prior = a.id]]
        BY <3>2
      <4>2. h[p] \in HandlerLocals /\ h \in [Instances -> HandlerLocals]
        BY DEF TypeOK
      <4>3. /\ h'[p].step = "suppress" /\ h'[p].prior = a.id /\ h'[p].id = h[p].id
            /\ h'[p].sha = h[p].sha /\ h'[p].name = h[p].name
            /\ \A q \in Instances \ {p} : h'[q] = h[q]
        BY <4>1, <4>2 DEF HandlerLocals
      <4>4. QED
        BY <2>3, <4>3 DEF Check, Priors, Chooses
    <3>3. QED
      BY <2>3, <3>1, <3>2 DEF Check, Quiet
  <2>4. CASE AuditSuppressed(p)
    <3>1. \A q \in Instances : h'[q] = h[q] \/ Ends(q)
      BY <2>4, ReturnEffect DEF AuditSuppressed
    <3>2. QED
      BY <2>4, <3>1 DEF AuditSuppressed, Quiet
  <2>5. CASE Record(p)
    <3>1. ASSUME Return(p) PROVE \A q \in Instances : h'[q] = h[q] \/ Ends(q)
      BY <2>5, <3>1, ReturnEffect DEF Record
    <3>2. QED
      BY <2>5, <3>1 DEF Record, Recorded, Made, Quiet
  <2>6. CASE AuditDetected(p)
    <3>1. Passes(p) /\ \A q \in Instances \ {p} : h'[q] = h[q]
      BY <2>6, GotoEffect DEF AuditDetected, Passes
    <3>2. QED
      BY <2>6, <3>1 DEF AuditDetected, Quiet
  <2>7. CASE Forget(p)
    <3>1. \A q \in Instances : h'[q] = h[q] \/ Ends(q)
      BY <2>7, ReturnEffect DEF Forget
    <3>2. QED
      BY <2>7, <3>1 DEF Forget, Quiet
  <2>8. QED
    BY <1>5, <2>1, <2>2, <2>3, <2>4, <2>5, <2>6, <2>7 DEF Handle
<1>6. QED
  BY <1>1, <1>2, <1>3, <1>4, <1>5 DEF Next

(* Storing puts the handler at "check" with a new id. *)
LEMMA StoreEffect ==
  ASSUME TypeOK, NEW p \in Instances, Store(p)
  PROVE  /\ h[p].step = "idle" /\ h'[p].step = "check" /\ h'[p].id = ids + 1 /\ ids' = ids + 1
         /\ \A q \in Instances \ {p} : h'[q] = h[q]
         /\ objects' = objects \cup {[id |-> h'[p].id, sha |-> h'[p].sha]}
         /\ UNCHANGED <<arrivals, raw, trail>>
         /\ Present(h'[p].name) /\ h'[p].name = Head(queue[p]) /\ h'[p].sha = Sha(landing[h'[p].name])
<1> DEFINE n == Head(queue[p])
           l == [step |-> "check", name |-> n, sha |-> Sha(landing[n]), id |-> ids + 1, prior |-> 0]
<1>1. h' = [h EXCEPT ![p] = l] /\ h \in [Instances -> HandlerLocals]
  BY DEF Store, TypeOK
<1>2. l.step = "check" /\ l.name = n /\ l.sha = Sha(landing[n]) /\ l.id = ids + 1
  OBVIOUS
<1> HIDE DEF l
<1>3. h'[p] = l /\ \A q \in Instances \ {p} : h'[q] = h[q]
  BY <1>1
<1>4. QED
  BY <1>2, <1>3 DEF Store

(* Recording takes the handler from "record" to "publish". *)
LEMMA RecordEffect ==
  ASSUME TypeOK, NEW p \in Instances, Recorded(p)
  PROVE  /\ h[p].step = "record" /\ h'[p].step = "publish" /\ h'[p].id = h[p].id
         /\ h'[p].sha = h[p].sha /\ h'[p].name = h[p].name
         /\ \A q \in Instances \ {p} : h'[q] = h[q]
         /\ arrivals' = arrivals \cup {Made(p)} /\ UNCHANGED <<objects, raw, trail, ids>>
         /\ Made(p).id = h[p].id /\ Made(p).sha = h[p].sha /\ Made(p).name = h[p].name
         /\ \A a \in arrivals : ~(a.sha = h[p].sha /\ a.name = h[p].name)
BY GotoEffect DEF Recorded, Conflict, Made

(* Publishing takes it from "publish" to "audit" and adds the entry it made. *)
LEMMA PublishEffect ==
  ASSUME TypeOK, NEW p \in Instances, Publish(p)
  PROVE  /\ h[p].step = "publish" /\ h'[p].step = "audit" /\ h'[p].id = h[p].id
         /\ h'[p].sha = h[p].sha
         /\ \A q \in Instances \ {p} : h'[q] = h[q]
         /\ UNCHANGED <<objects, arrivals, trail, ids>>
         /\ Made(p).id = h[p].id /\ Made(p).sha = h[p].sha /\ Made(p).name = h[p].name
         /\ DOMAIN raw' = 1 .. Len(raw) + 1 /\ DOMAIN raw = 1 .. Len(raw) /\ Len(raw) \in Nat
         /\ raw'[Len(raw) + 1] = Made(p) /\ \A i \in DOMAIN raw : raw'[i] = raw[i]
<1>1. h[p].step = "publish" /\ Goto(p, "audit") /\ UNCHANGED <<objects, arrivals, trail, ids>>
  BY DEF Publish
<1>2. /\ DOMAIN raw' = 1 .. Len(raw) + 1 /\ DOMAIN raw = 1 .. Len(raw) /\ Len(raw) \in Nat
      /\ raw'[Len(raw) + 1] = Made(p) /\ \A i \in DOMAIN raw : raw'[i] = raw[i]
  <2>1. raw \in Seq(ArrivalRow) /\ Made(p) \in ArrivalRow
    BY <1>1, MadeType DEF TypeOK
  <2>2. raw' = Append(raw, Made(p))
    BY DEF Publish, Made
  <2>3. QED
    BY <2>1, <2>2, AppendProperties, LenProperties
<1>3. QED
  BY <1>1, <1>2, GotoEffect DEF Made

(* In a quiet step a handler at work was at work, on the same file under the same *)
(* id, and one that has a row to make or to publish had it before.               *)
LEMMA QuietEffect ==
  ASSUME TypeOK, Quiet, NEW q \in Instances, h'[q].step # "idle"
  PROVE  /\ h[q].step # "idle" /\ h'[q].id = h[q].id /\ h'[q].sha = h[q].sha
         /\ h'[q].step = "publish" => h'[q] = h[q]
         /\ h'[q].step \in {"check", "suppress", "record"} => h[q].step \in {"check", "suppress", "record"}
BY DEF Quiet, Chooses, Passes, Ends

(* Ids stay fresh. *)
LEMMA IdsStep == ASSUME PInv, [Next]_vars PROVE IdsAreFresh'
<1> USE DEF PInv
<1>0. /\ ids \in Nat /\ \A a \in arrivals : a.id \in Nat
      /\ \A p \in Instances : h[p].id \in Nat
  BY DEF TypeOK, ArrivalRow, HandlerLocals
<1>1. CASE Quiet
  BY <1>0, <1>1, QuietEffect DEF Quiet, IdsAreFresh
<1>2. ASSUME NEW p \in Instances, Store(p) PROVE IdsAreFresh'
  BY <1>0, <1>2, StoreEffect DEF IdsAreFresh
<1>3. ASSUME NEW p \in Instances, Recorded(p) PROVE IdsAreFresh'
  BY <1>0, <1>3, RecordEffect DEF IdsAreFresh
<1>4. ASSUME NEW p \in Instances, Publish(p) PROVE IdsAreFresh'
  BY <1>0, <1>4, PublishEffect DEF IdsAreFresh
<1>5. QED
  BY <1>1, <1>2, <1>3, <1>4, StepKinds

(* Storing comes first. *)
LEMMA StoredStep == ASSUME PInv, [Next]_vars PROVE StoredFirst'
<1> USE DEF PInv
<1>1. CASE Quiet
  BY <1>1, QuietEffect DEF Quiet, StoredFirst
<1>2. ASSUME NEW p \in Instances, Store(p) PROVE StoredFirst'
  BY <1>2, StoreEffect DEF StoredFirst
<1>3. ASSUME NEW p \in Instances, Recorded(p) PROVE StoredFirst'
  BY <1>3, RecordEffect DEF StoredFirst
<1>4. ASSUME NEW p \in Instances, Publish(p) PROVE StoredFirst'
  BY <1>4, PublishEffect DEF StoredFirst
<1>5. QED
  BY <1>1, <1>2, <1>3, <1>4, StepKinds

(* Recording comes second. *)
LEMMA RecordedStep == ASSUME PInv, [Next]_vars PROVE RecordedSecond'
<1> USE DEF PInv
<1>0. ids \in Nat /\ \A a \in arrivals : a.id \in Nat
  BY DEF TypeOK, ArrivalRow
<1>1. CASE Quiet
  BY <1>1, QuietEffect DEF Quiet, RecordedSecond, Made
<1>2. ASSUME NEW p \in Instances, Store(p) PROVE RecordedSecond'
  <2>1. ASSUME NEW q \in Instances, h'[q].step \in {"check", "suppress", "record"}, NEW a \in arrivals
        PROVE  a.id # h'[q].id
    BY <1>0, <1>2, <2>1, StoreEffect DEF RecordedSecond, IdsAreFresh
  <2>2. ASSUME NEW q \in Instances, h'[q].step = "publish" PROVE Made(q)' \in arrivals
    BY <1>2, <2>2, StoreEffect DEF RecordedSecond, Made
  <2>3. QED
    BY <1>2, <2>1, <2>2, StoreEffect DEF RecordedSecond
<1>3. ASSUME NEW p \in Instances, Recorded(p) PROVE RecordedSecond'
  <2>1. ASSUME NEW q \in Instances, h'[q].step \in {"check", "suppress", "record"}, NEW a \in arrivals'
        PROVE  a.id # h'[q].id
    <3>1. q # p /\ h'[q] = h[q] /\ h[q].id # h[p].id
      BY <1>3, <2>1, RecordEffect DEF IdsAreFresh
    <3>2. QED
      BY <1>3, <2>1, <3>1, RecordEffect DEF RecordedSecond
  <2>2. ASSUME NEW q \in Instances, h'[q].step = "publish" PROVE Made(q)' \in arrivals'
    <3>1. CASE q = p
      <4>1. Made(p) \in arrivals' /\ h'[p].id = h[p].id /\ h'[p].sha = h[p].sha /\ h'[p].name = h[p].name
        BY <1>3, RecordEffect
      <4>2. [id |-> h'[p].id, sha |-> h'[p].sha, name |-> h'[p].name] \in arrivals'
        BY <4>1 DEF Made
      <4>3. QED
        BY <3>1, <4>2 DEF Made
    <3>2. CASE q # p
      BY <1>3, <2>2, <3>2, RecordEffect DEF RecordedSecond, Made
    <3>3. QED
      BY <3>1, <3>2
  <2>3. QED
    BY <2>1, <2>2 DEF RecordedSecond, Made
<1>4. ASSUME NEW p \in Instances, Publish(p) PROVE RecordedSecond'
  <2>1. ASSUME NEW q \in Instances, h'[q].step = "publish" PROVE Made(q)' \in arrivals
    BY <1>4, <2>1, PublishEffect DEF RecordedSecond, Made
  <2>2. QED
    BY <1>4, <2>1, PublishEffect DEF RecordedSecond
<1>5. QED
  BY <1>1, <1>2, <1>3, <1>4, StepKinds

(* Publishing comes third, and once for an id. *)
LEMMA PublishedStep == ASSUME PInv, [Next]_vars PROVE PublishedThird'
<1> USE DEF PInv
<1>1. CASE Quiet
  BY <1>1, QuietEffect DEF Quiet, PublishedThird
<1>2. ASSUME NEW p \in Instances, Store(p) PROVE PublishedThird'
  BY <1>2, StoreEffect DEF PublishedThird
<1>3. ASSUME NEW p \in Instances, Recorded(p) PROVE PublishedThird'
  BY <1>3, RecordEffect DEF PublishedThird, RecordedSecond
<1>4. ASSUME NEW p \in Instances, Publish(p) PROVE PublishedThird'
  <2>1. \A i \in DOMAIN raw' : i = Len(raw) + 1 \/ i \in DOMAIN raw
    BY <1>4, PublishEffect
  <2>2. QED
    BY <1>4, <2>1, PublishEffect DEF PublishedThird, RecordedSecond, IdsAreFresh
<1>5. QED
  BY <1>1, <1>2, <1>3, <1>4, StepKinds

(* The constraint keeps rows unique. *)
LEMMA RowsStep == ASSUME PInv, [Next]_vars PROVE RowsAreUnique'
<1> USE DEF PInv
<1>1. CASE Quiet
  BY <1>1 DEF Quiet, RowsAreUnique
<1>2. ASSUME NEW p \in Instances, Store(p) PROVE RowsAreUnique'
  BY <1>2, StoreEffect DEF RowsAreUnique
<1>3. ASSUME NEW p \in Instances, Recorded(p) PROVE RowsAreUnique'
  BY <1>3, RecordEffect DEF RowsAreUnique
<1>4. ASSUME NEW p \in Instances, Publish(p) PROVE RowsAreUnique'
  BY <1>4, PublishEffect DEF RowsAreUnique
<1>5. QED
  BY <1>1, <1>2, <1>3, <1>4, StepKinds

(* PInv is an invariant. *)
LEMMA PInvInvariant == Spec => []PInv
<1>1. Init => PInv
  <2> SUFFICES ASSUME Init PROVE PInv
    OBVIOUS
  <2>1. TypeOK /\ (\A p \in Instances : h[p].step = "idle") /\ arrivals = {} /\ DOMAIN raw = {}
    BY TypeInit, EmptyTypes DEF Init
  <2>2. QED
    BY <2>1 DEF PInv, IdsAreFresh, StoredFirst, RecordedSecond, PublishedThird, RowsAreUnique
<1>2. PInv /\ [Next]_vars => PInv'
  BY TypeStep, IdsStep, StoredStep, RecordedStep, PublishedStep, RowsStep DEF PInv
<1>3. QED
  BY <1>1, <1>2, PTL DEF Spec

(* No file, by content and name, is published twice, however many instances,     *)
(* restarts and rescans meet it.                                                *)
THEOREM FilesPublishedOnce == Spec => []FilePublishedOnce
<1>1. PInv => FilePublishedOnce
  BY DEF PInv, FilePublishedOnce, PublishedThird, RowsAreUnique
<1>2. QED
  BY <1>1, PInvInvariant, PTL

(* Whatever is on the bus has its object and its row. *)
THEOREM PublishedFilesAreDurable == Spec => []PublishedIsDurable
<1>1. PInv => PublishedIsDurable
  BY DEF PInv, PublishedIsDurable, PublishedThird, StoredFirst
<1>2. QED
  BY <1>1, PInvInvariant, PTL

----------------------------------------------------------------------------
(* One instance *)

(* The hypothesis: the database's constraint is on hash and name, so two          *)
(* instances that meet the same bytes under two names both pass Check.           *)
OneInstance == \A p, q \in Instances : p = q

(* With one instance, no second row for the same content. *)
LEMMA OneRowStep ==
  ASSUME OneInstance, PInv, OneRowPerContent, [Next]_vars
  PROVE  OneRowPerContent'
<1> USE DEF PInv, OneInstance
<1>1. CASE Quiet
  <2>1. ASSUME NEW p \in Instances, h'[p].step = "record", NEW a \in arrivals
        PROVE  a.sha # h'[p].sha
    BY <1>1, <2>1 DEF Quiet, Chooses, Passes, Ends, OneRowPerContent
  <2>2. QED
    BY <1>1, <2>1 DEF Quiet, OneRowPerContent
<1>2. ASSUME NEW p \in Instances, Store(p) PROVE OneRowPerContent'
  BY <1>2, StoreEffect DEF OneRowPerContent
<1>3. ASSUME NEW p \in Instances, Recorded(p) PROVE OneRowPerContent'
  BY <1>3, RecordEffect DEF OneRowPerContent
<1>4. ASSUME NEW p \in Instances, Publish(p) PROVE OneRowPerContent'
  BY <1>4, PublishEffect DEF OneRowPerContent
<1>5. QED
  BY <1>1, <1>2, <1>3, <1>4, StepKinds

(* One instance publishes the same content once, under whatever names it comes   *)
(* (Check before Record), across restarts and handler errors.                    *)
THEOREM ContentsPublishedOnce ==
  ASSUME OneInstance
  PROVE  Spec => []ContentPublishedOnce
<1>1. Init => OneRowPerContent
  BY EmptyTypes DEF Init, OneRowPerContent
<1>2. PInv /\ OneRowPerContent /\ [Next]_vars => OneRowPerContent'
  BY OneRowStep
<1>3. PInv /\ OneRowPerContent => ContentPublishedOnce
  BY DEF PInv, PublishedThird, OneRowPerContent, ContentPublishedOnce
<1>4. QED
  BY <1>1, <1>2, <1>3, PInvInvariant, PTL DEF Spec

----------------------------------------------------------------------------
(* No faults *)

(* Without crashes and errors every row reaches the bus. *)
LEMMA RowsReachStep ==
  ASSUME FaultKinds = {}, PInv, RowsReachRaw, [Next]_vars
  PROVE  RowsReachRaw'
<1> USE DEF PInv
<1>1. CASE Quiet
  <2>1. ASSUME NEW p \in Instances, h[p].step = "publish" PROVE h'[p] = h[p]
    BY <1>1, <2>1 DEF Quiet, Chooses, Passes, Ends
  <2>2. ASSUME NEW p \in Instances, h'[p].step = "suppress" PROVE \E a \in arrivals : a.id = h'[p].prior
    BY <1>1, <2>2 DEF Quiet, Chooses, Passes, Ends, RowsReachRaw
  <2>3. ASSUME NEW e \in trail', e.type = "ARRIVAL_SUPPRESSED" PROVE \E a \in arrivals : a.id = e.arrival
    BY <1>1, <2>3 DEF Quiet, RowsReachRaw
  <2>4. QED
    BY <1>1, <2>1, <2>2, <2>3 DEF Quiet, RowsReachRaw
<1>2. ASSUME NEW p \in Instances, Store(p) PROVE RowsReachRaw'
  BY <1>2, StoreEffect DEF RowsReachRaw
<1>3. ASSUME NEW p \in Instances, Recorded(p) PROVE RowsReachRaw'
  BY <1>3, RecordEffect DEF RowsReachRaw
<1>4. ASSUME NEW p \in Instances, Publish(p) PROVE RowsReachRaw'
  <2>1. /\ Len(raw) + 1 \in DOMAIN raw' /\ raw'[Len(raw) + 1].id = h[p].id
        /\ \A i \in DOMAIN raw : i \in DOMAIN raw' /\ raw'[i] = raw[i]
    BY <1>4, PublishEffect
  <2>2. \A q \in Instances : h[q].step = "publish" => q = p \/ h'[q] = h[q]
    BY <1>4, PublishEffect
  <2>3. \A a \in arrivals : \/ \E i \in DOMAIN raw' : raw'[i].id = a.id
                           \/ \E q \in Instances : h'[q].step = "publish" /\ h'[q].id = a.id
    BY <2>1, <2>2 DEF RowsReachRaw
  <2>4. QED
    BY <1>4, <2>3, PublishEffect DEF RowsReachRaw
<1>5. QED
  BY <1>1, <1>2, <1>3, <1>4, StepKinds

(* A suppression names an arrival that was published or is about to be, however  *)
(* many instances race (Check reads only rows that some handler still publishes). *)
THEOREM SuppressedFilesWerePublished ==
  ASSUME FaultKinds = {}
  PROVE  Spec => []SuppressedWasPublished
<1>1. Init => RowsReachRaw
  BY EmptyTypes DEF Init, RowsReachRaw
<1>2. PInv /\ RowsReachRaw /\ [Next]_vars => RowsReachRaw'
  BY RowsReachStep
<1>3. RowsReachRaw => SuppressedWasPublished
  BY DEF RowsReachRaw, SuppressedWasPublished
<1>4. QED
  BY <1>1, <1>2, <1>3, PInvInvariant, PTL DEF Spec

----------------------------------------------------------------------------
(* Names are not reused *)

(* With no reuse of names a complete file stays as it is. *)
LEMMA CompleteStays ==
  ASSUME Habits = {}, TypeOK, [Next]_vars, NEW n \in Names
  PROVE  /\ Complete(n) => Complete(n)' /\ landing'[n] = landing[n]
         /\ Present(n) => Present(n)'
<1> USE DEF Complete, Present
<1>0. landing \in [Names -> File] /\ NoContent \notin Contents
  BY ConstantsAssumption DEF TypeOK
<1>1. CASE landing' = landing
  BY <1>1
<1>2. ASSUME NEW k \in Names, Client(k), landing' # landing
      PROVE  /\ ~Complete(k) /\ \A j \in Names \ {k} : landing'[j] = landing[j]
             /\ landing'[k].content # NoContent
  <2>1. CASE BeginWrite(k)
    <3>1. PICK c \in Contents : Write(k, c, FALSE)
      BY <2>1 DEF BeginWrite
    <3>2. QED
      BY <1>0, <2>1, <3>1 DEF BeginWrite, Write
  <2>2. CASE KeepWriting(k) \/ EndWrite(k)
    BY <1>0, <2>2 DEF KeepWriting, EndWrite, Write
  <2>3. CASE DropSentinel(k) \/ Remove(k)
    BY <1>2, <2>3 DEF DropSentinel, Remove
  <2>4. QED
    BY <1>2, <2>1, <2>2, <2>3 DEF Client
<1>3. ASSUME NEW p \in Instances, Scan(p) \/ Handle(p) \/ HandleError(p) \/ Crash(p)
      PROVE  landing' = landing
  BY <1>3 DEF Scan, Handle, Store, OpenFails, Check, AuditSuppressed, Record, Publish, AuditDetected,
              Forget, HandleError, Crash, dirVars
<1>4. QED
  BY <1>1, <1>2, <1>3 DEF Next, vars, dirVars

(* A scan emits complete files only. *)
LEMMA EmitsComplete ==
  ASSUME TypeOK, ReadyIsComplete, QuietIsPause, NEW p \in Instances, Scan(p), NEW n \in Names,
         Observe(seen[p][n], landing[n], n \in done).emitted
  PROVE  Complete(n)
<1> DEFINE o == seen[p][n]
           f == landing[n]
<1>1. /\ o \in Observation /\ f \in File /\ stall[p][n] \in Nat /\ QuietScans \in Nat
      /\ stall[p][n] < QuietScans
  BY ConstantsAssumption DEF TypeOK, Scan, WritersKeepMoving
<1>2. o.stable \in Nat /\ o.known \in BOOLEAN /\ o.emitted \in BOOLEAN
  BY <1>1 DEF Observation
<1>3. CASE o.emitted
  BY <1>3 DEF ReadyIsComplete
<1>4. CASE ~o.emitted
  <2>1. Present(n) /\ o.known /\ o.stamp = f.stamp
    BY <1>1, <1>4 DEF Observe, NotSeen, Observation, Present
  <2>2. (n \in done) \/ o.stable + 1 >= QuietScans
    BY <1>1, <1>4, <2>1 DEF Observe, Observation, Present
  <2>3. ASSUME ~landing[n].whole PROVE FALSE
    <3>1. o.stable < stall[p][n] /\ n \notin done
      BY <2>1, <2>3 DEF QuietIsPause, ReadyIsComplete, Complete
    <3>2. QED
      BY <1>1, <1>2, <2>2, <3>1
  <2>4. QED
    BY <2>1, <2>3 DEF Complete
<1>5. QED
  BY <1>3, <1>4

(* The handlers work on complete files and publish no other. *)
LEMMA WholeStep ==
  ASSUME TypeOK, ReadyIsComplete, [Next]_vars
  PROVE  /\ \A p \in Instances : h'[p].step # "idle" => h'[p].sha.whole
         /\ \A i \in DOMAIN raw' : raw'[i].sha.whole
<1>1. /\ \A p \in Instances : h[p].step # "idle" => h[p].sha.whole
      /\ \A i \in DOMAIN raw : raw[i].sha.whole
  BY DEF ReadyIsComplete
<1>2. CASE Quiet
  BY <1>1, <1>2, QuietEffect DEF Quiet
<1>3. ASSUME NEW p \in Instances, Store(p)
      PROVE  UNCHANGED raw /\ \A q \in Instances : h'[q].step # "idle" => h'[q].sha.whole
  <2>1. queue[p] \in Seq(Names) /\ queue[p] # <<>>
    BY <1>3 DEF Store, TypeOK
  <2>2. Head(queue[p]) = queue[p][1] /\ 1 \in DOMAIN queue[p]
    BY <2>1
  <2>3. landing[Head(queue[p])].whole = TRUE
    <3>1. landing[Head(queue[p])].whole \in BOOLEAN
      BY <2>1, <2>2 DEF TypeOK, File
    <3>2. QED
      BY <2>2, <3>1 DEF ReadyIsComplete, Complete
  <2>4. h'[p].sha.whole
    <3>1. Sha(landing[Head(queue[p])]).whole = TRUE
      BY <2>3 DEF Sha
    <3>2. QED
      BY <1>3, <3>1, StoreEffect
  <2>5. QED
    BY <1>1, <1>3, <2>4, StoreEffect
<1>4. ASSUME NEW p \in Instances, Recorded(p)
      PROVE  UNCHANGED raw /\ \A q \in Instances : h'[q].step # "idle" => h'[q].sha.whole
  BY <1>1, <1>4, RecordEffect
<1>5. ASSUME NEW p \in Instances, Publish(p)
      PROVE  /\ \A q \in Instances : h'[q].step # "idle" => h'[q].sha.whole
             /\ \A i \in DOMAIN raw' : raw'[i].sha.whole
  <2>1. \A i \in DOMAIN raw' : i = Len(raw) + 1 \/ i \in DOMAIN raw
    BY <1>5, PublishEffect
  <2>2. QED
    BY <1>1, <1>5, <2>1, PublishEffect
<1>6. QED
  BY <1>1, <1>2, <1>3, <1>4, <1>5, StepKinds

(* What is ready to be handled stays complete. *)
LEMMA ReadyStep ==
  ASSUME Habits = {}, TypeOK, ReadyIsComplete, QuietIsPause, [Next]_vars
  PROVE  ReadyIsComplete'
<1> DEFINE C == {n \in Names : landing'[n].content # NoContent /\ landing'[n].whole}
           Ready(d, s, q) == /\ d \subseteq C
                             /\ \A p \in Instances, n \in Names : s[p][n].emitted => n \in C
                             /\ \A p \in Instances : \A i \in DOMAIN q[p] : q[p][i] \in C
<1>0. \A n \in Names : Complete(n) => n \in C
  BY CompleteStays DEF Complete, Present
<1>1. SUFFICES Ready(done', seen', queue')
  BY WholeStep DEF ReadyIsComplete, Complete, Present
<1> HIDE DEF C
<1>2. \A p \in Instances : /\ queue[p] \in Seq(Names)
                          /\ \A i \in DOMAIN queue[p] : queue[p][i] \in Names
  BY DEF TypeOK
<1>3. Ready(done, seen, queue)
  BY <1>0, <1>2 DEF ReadyIsComplete, TypeOK
<1>4. CASE UNCHANGED <<done, seen, queue>>
  BY <1>3, <1>4
<1>5. ASSUME NEW n \in Names, Client(n), ~UNCHANGED <<done, seen, queue>>
      PROVE  Ready(done', seen', queue')
  <2>1. DropSentinel(n)
    BY <1>5 DEF Client, BeginWrite, KeepWriting, EndWrite, Remove, Write
  <2>2. Complete(n) /\ done' = done \cup {n} /\ UNCHANGED <<seen, queue>>
    BY <2>1 DEF DropSentinel, Complete
  <2>3. QED
    BY <1>0, <1>3, <2>2
<1>6. ASSUME NEW p \in Instances, Scan(p) PROVE Ready(done', seen', queue')
  <2> DEFINE new == [n \in Names |-> Observe(seen[p][n], landing[n], n \in done)]
             ready == {n \in Names : new[n].emitted /\ ~seen[p][n].emitted}
  <2>1. \A n \in Names : new[n].emitted => n \in C
    BY <1>0, <1>6, EmitsComplete
  <2>2. PICK order \in [1 .. Cardinality(ready) -> ready] : queue' = [queue EXCEPT ![p] = @ \o order]
    BY <1>6 DEF Scan
  <2>3. seen' = [seen EXCEPT ![p] = new] /\ done' = done
    BY <1>6 DEF Scan
  <2>4. Cardinality(ready) \in Nat
    BY ConstantsAssumption, FS_Subset, FS_CardinalityType
  <2>5. ready \subseteq Names /\ ready \subseteq C
    BY <2>1
  <2> HIDE DEF new, ready
  <2>6. order \in Seq(Names) /\ \A i \in DOMAIN order : order[i] \in C
    <3>1. order \in [1 .. Cardinality(ready) -> Names]
      BY <2>2, <2>5
    <3>2. order \in Seq(Names)
      BY <2>4, <3>1, SeqDef
    <3>3. QED
      BY <2>2, <2>5, <3>2
  <2>7. \A i \in DOMAIN (queue[p] \o order) : (queue[p] \o order)[i] \in C
    <3>1. queue[p] \in Seq(Names) /\ \A i \in DOMAIN queue[p] : queue[p][i] \in C
      BY <1>2, <1>3
    <3>2. /\ Len(queue[p]) \in Nat /\ DOMAIN queue[p] = 1 .. Len(queue[p])
          /\ Len(order) \in Nat /\ DOMAIN order = 1 .. Len(order)
          /\ DOMAIN (queue[p] \o order) = 1 .. Len(queue[p]) + Len(order)
      BY <2>6, <3>1
    <3>3. ASSUME NEW i \in 1 .. Len(queue[p]) + Len(order)
          PROVE  (queue[p] \o order)[i] = IF i <= Len(queue[p]) THEN queue[p][i]
                                           ELSE order[i - Len(queue[p])]
      BY <2>6, <3>1, ConcatProperties
    <3>4. ASSUME NEW i \in 1 .. Len(queue[p]) + Len(order), ~(i <= Len(queue[p]))
          PROVE  i - Len(queue[p]) \in DOMAIN order
      BY <3>2, <3>4
    <3>5. QED
      BY <2>6, <3>1, <3>2, <3>3, <3>4
  <2>8. QED
    BY <1>3, <2>1, <2>2, <2>3, <2>7 DEF TypeOK
<1>7. ASSUME NEW p \in Instances, Handle(p) \/ HandleError(p) \/ Crash(p)
      PROVE  Ready(done', seen', queue')
  <2>1. CASE UNCHANGED <<done, seen>> /\ queue[p] # <<>> /\ queue' = [queue EXCEPT ![p] = Tail(@)]
    <3>1. queue[p] \in Seq(Names) /\ queue \in [Instances -> Seq(Names)]
      BY DEF TypeOK
    <3>2. \A i \in DOMAIN Tail(queue[p]) : i + 1 \in DOMAIN queue[p] /\ Tail(queue[p])[i] = queue[p][i + 1]
      BY <2>1, <3>1
    <3>3. \A i \in DOMAIN queue'[p] : queue'[p][i] \in C
      BY <1>3, <2>1, <3>1, <3>2
    <3>4. QED
      BY <1>3, <2>1, <3>1, <3>3
  <2>2. CASE Forget(p)
    BY <1>3, <2>2 DEF Forget, NotSeen, TypeOK, dirVars
  <2>3. CASE Crash(p)
    BY <1>3, <2>3 DEF Crash, NotSeen, TypeOK, dirVars
  <2>4. QED
    BY <1>3, <1>4, <1>7, <2>1, <2>2, <2>3 DEF Handle, Store, OpenFails, Check, AuditSuppressed, Record,
       Publish, AuditDetected, HandleError, dirVars
<1>8. QED
  BY <1>4, <1>5, <1>6, <1>7 DEF Next, vars, dirVars

(* What an observation of a present file becomes: unchanged once emitted, else a *)
(* new count, or one more on an unchanged file.                                  *)
LEMMA ObserveValue ==
  ASSUME NEW o \in Observation, NEW f, NEW sentinel, f.content # NoContent
  PROVE  LET v == Observe(o, f, sentinel)
         IN  \/ v = o /\ o.known
             \/ v.stamp = f.stamp /\ v.stable = 0
             \/ v.stamp = f.stamp /\ v.stable = o.stable + 1 /\ o.known /\ o.stamp = f.stamp /\ ~o.emitted
<1>1. ASSUME NEW k, NEW b
      PROVE  LET v == [o EXCEPT !.stable = k, !.emitted = b] IN v.stable = k /\ v.stamp = o.stamp
  BY DEF Observation
<1>2. [o EXCEPT !.stamp = f.stamp, !.stable = 0].stamp = f.stamp
  BY DEF Observation
<1>3. [o EXCEPT !.stamp = f.stamp, !.stable = 0].stable = 0
  BY DEF Observation
<1>4. LET v == [NotSeen EXCEPT !.known = TRUE, !.stamp = f.stamp] IN v.stamp = f.stamp /\ v.stable = 0
  BY DEF NotSeen
<1>5. CASE o.known /\ ~o.emitted /\ o.stamp = f.stamp
  <2>1. Observe(o, f, sentinel) = [o EXCEPT !.stable = o.stable + 1,
                                           !.emitted = sentinel \/ o.stable + 1 >= QuietScans]
    BY <1>5 DEF Observe
  <2>2. QED
    BY <1>1, <1>5, <2>1
<1>6. CASE ~o.known \/ o.emitted \/ o.stamp # f.stamp
  BY <1>2, <1>3, <1>4, <1>6 DEF Observe
<1>7. QED
  BY <1>5, <1>6

(* The quiet time counted stays below the writer's pause. *)
LEMMA QuietStep ==
  ASSUME Habits = {}, TypeOK, QuietIsPause, [Next]_vars
  PROVE  QuietIsPause'
<1> DEFINE Below(o, f, s) == o.known /\ o.stamp = f.stamp /\ f.content # NoContent /\ ~f.whole
                               => o.stable < s
<1>0. /\ writes \in Nat
      /\ \A n \in Names : landing[n] \in File /\ landing[n].stamp \in Nat /\ landing[n].stamp <= writes
      /\ \A p \in Instances, n \in Names :
           /\ seen[p][n] \in Observation /\ seen[p][n].stamp \in Nat /\ seen[p][n].stable \in Nat
           /\ stall[p][n] \in Nat
           /\ seen[p][n].known => seen[p][n].stamp <= writes
           /\ Below(seen[p][n], landing[n], stall[p][n])
  BY DEF TypeOK, QuietIsPause, File, Observation, Present
<1>1. SUFFICES /\ \A n \in Names : landing'[n].stamp <= writes'
               /\ \A p \in Instances, n \in Names :
                    /\ seen'[p][n].known => seen'[p][n].stamp <= writes'
                    /\ Below(seen'[p][n], landing'[n], stall'[p][n])
  BY DEF QuietIsPause, Present
<1>2. CASE UNCHANGED <<landing, writes, stall, seen>>
  BY <1>0, <1>2
<1>3. ASSUME NEW n \in Names, NEW c \in Contents, NEW whole \in BOOLEAN, Write(n, c, whole)
      PROVE  QuietIsPause'
  <2>1. /\ landing' = [landing EXCEPT ![n] = [content |-> c, whole |-> whole, stamp |-> writes + 1]]
        /\ writes' = writes + 1 /\ seen' = seen
        /\ stall' = [p \in Instances |-> [stall[p] EXCEPT ![n] = 0]]
    BY <1>3 DEF Write
  <2>2. /\ landing'[n].stamp = writes + 1 /\ \A k \in Names \ {n} : landing'[k] = landing[k]
        /\ \A p \in Instances : \A k \in Names \ {n} : stall'[p][k] = stall[p][k]
    BY <2>1 DEF TypeOK
  <2>3. \A p \in Instances : seen'[p][n].known => seen'[p][n].stamp # landing'[n].stamp
    BY <1>0, <2>1, <2>2
  <2>4. QED
    BY <1>0, <2>1, <2>2, <2>3 DEF QuietIsPause, Present
<1>4. ASSUME NEW n \in Names, Client(n) PROVE QuietIsPause'
  <2>1. CASE BeginWrite(n)
    BY <1>3, <2>1 DEF BeginWrite
  <2>2. CASE KeepWriting(n) \/ EndWrite(n)
    <3>1. landing[n].content \in Contents
      BY <2>2 DEF TypeOK, KeepWriting, EndWrite, Present, File
    <3>2. QED
      BY <1>3, <2>2, <3>1 DEF KeepWriting, EndWrite
  <2>3. CASE DropSentinel(n) \/ Remove(n)
    BY <1>2, <2>3 DEF DropSentinel, Remove, QuietIsPause, Present
  <2>4. QED
    BY <1>4, <2>1, <2>2, <2>3 DEF Client
<1>5. ASSUME NEW p \in Instances, Scan(p) PROVE QuietIsPause'
  <2>1. UNCHANGED <<landing, writes>>
    BY <1>5 DEF Scan
  <2>2. /\ \A q \in Instances \ {p} : UNCHANGED <<seen[q], stall[q]>>
        /\ \A n \in Names : seen'[p][n] = Observe(seen[p][n], landing[n], n \in done)
        /\ \A n \in Names : Present(n) /\ ~landing[n].whole => stall'[p][n] = stall[p][n] + 1
    BY <1>5 DEF Scan, TypeOK
  <2>3. ASSUME NEW n \in Names
        PROVE  /\ seen'[p][n].known => seen'[p][n].stamp <= writes
               /\ seen'[p][n].known /\ seen'[p][n].stamp = landing[n].stamp /\ Present(n)
                    /\ ~landing[n].whole => seen'[p][n].stable < stall'[p][n]
    <3>1. Present(n) /\ ~landing[n].whole => stall'[p][n] = stall[p][n] + 1
      BY <2>2
    <3>2. seen'[p][n] = Observe(seen[p][n], landing[n], n \in done)
      BY <2>2
    <3>3. /\ seen[p][n] \in Observation /\ landing[n].stamp \in Nat /\ landing[n].stamp <= writes
          /\ stall[p][n] \in Nat /\ seen[p][n].stable \in Nat
          /\ Below(seen[p][n], landing[n], stall[p][n])
      BY <1>0
    <3>4. CASE ~Present(n)
      BY <3>2, <3>4 DEF Observe, NotSeen, Present
    <3>5. CASE Present(n)
      <4>1. LET o == seen[p][n]  f == landing[n]  v == seen'[p][n]
            IN  \/ v = o /\ o.known
                \/ v.stamp = f.stamp /\ v.stable = 0
                \/ v.stamp = f.stamp /\ v.stable = o.stable + 1 /\ o.known /\ o.stamp = f.stamp /\ ~o.emitted
        BY <3>2, <3>3, <3>5, ObserveValue DEF Present
      <4>2. CASE seen'[p][n] = seen[p][n] /\ seen[p][n].known
        BY <1>0, <3>1, <3>3, <4>2 DEF Present
      <4>3. CASE seen'[p][n].stamp = landing[n].stamp /\ seen'[p][n].stable = 0
        BY <3>1, <3>3, <4>3
      <4>4. CASE /\ seen'[p][n].stamp = landing[n].stamp /\ seen'[p][n].stable = seen[p][n].stable + 1
                 /\ seen[p][n].known /\ seen[p][n].stamp = landing[n].stamp
        BY <3>1, <3>3, <3>5, <4>4 DEF Present
      <4>5. QED
        BY <4>1, <4>2, <4>3, <4>4
    <3>6. QED
      BY <3>4, <3>5
  <2>4. QED
    BY <1>0, <2>1, <2>2, <2>3 DEF QuietIsPause, Present
<1>6. ASSUME NEW p \in Instances, Handle(p) \/ HandleError(p) \/ Crash(p)
      PROVE  QuietIsPause'
  <2>1. CASE Forget(p) \/ Crash(p)
    <3>1. /\ UNCHANGED <<landing, writes, stall>>
          /\ \A q \in Instances, n \in Names : seen'[q][n] = seen[q][n] \/ ~seen'[q][n].known
      <4>1. /\ seen \in [Instances -> [Names -> Observation]] /\ ~NotSeen.known
            /\ UNCHANGED <<landing, writes, stall>>
        BY <2>1 DEF TypeOK, NotSeen, Forget, Crash, dirVars
      <4>2. CASE Forget(p)
        BY <4>1, <4>2 DEF Forget
      <4>3. CASE Crash(p)
        BY <4>1, <4>3 DEF Crash
      <4>4. QED
        BY <2>1, <4>1, <4>2, <4>3
    <3>2. QED
      BY <1>0, <3>1 DEF QuietIsPause, Present
  <2>2. QED
    BY <1>2, <1>6, <2>1 DEF Handle, Store, OpenFails, Check, AuditSuppressed, Record,
       Publish, AuditDetected, HandleError, dirVars, QuietIsPause, Present
<1>7. QED
  BY <1>2, <1>4, <1>5, <1>6 DEF Next, vars, dirVars, QuietIsPause, Present

(* Only complete files are published, by any number of instances and across       *)
(* restarts, as long as no name is used twice.  A name that is overwritten or     *)
(* freed for another file can be queued complete and opened half written.         *)
THEOREM PublishedFilesAreWhole ==
  ASSUME Habits = {}
  PROVE  Spec => []PublishedIsWhole
<1>1. Init => ReadyIsComplete /\ QuietIsPause
  <2> SUFFICES ASSUME Init PROVE ReadyIsComplete /\ QuietIsPause
    OBVIOUS
  <2>1. /\ \A p \in Instances : h[p].step = "idle" /\ queue[p] = <<>>
        /\ \A p \in Instances, n \in Names : ~seen[p][n].known /\ ~seen[p][n].emitted
        /\ \A n \in Names : landing[n].stamp = 0
    BY EmptyTypes DEF Init, NotSeen, NoFile
  <2>2. QED
    BY <2>1 DEF Init, ReadyIsComplete, QuietIsPause
<1>2. TypeOK /\ ReadyIsComplete /\ QuietIsPause /\ [Next]_vars => (ReadyIsComplete /\ QuietIsPause)'
  BY ReadyStep, QuietStep
<1>3. ReadyIsComplete => PublishedIsWhole
  BY DEF ReadyIsComplete, PublishedIsWhole
<1>4. QED
  BY <1>1, <1>2, <1>3, TypeCorrect, PTL DEF Spec

----------------------------------------------------------------------------
(* Nothing emitted is lost: the inductive form of EmittedIsKept.                 *)

InQueue(p, n) == \E i \in DOMAIN queue[p] : queue[p][i] = n
HasRow(sha) == \E a \in arrivals : a.sha = sha

(* A handler works on the file as it still is, and once it has compared hashes   *)
(* and not gone on to record, there is a row with its hash.                      *)
HandsInv ==
  \A p \in Instances : h[p].step # "idle" =>
    /\ h[p].sha = Sha(landing[h[p].name])
    /\ h[p].step \in {"suppress", "publish", "audit", "forget"} => HasRow(h[p].sha)

Kept(p, n) == InQueue(p, n) \/ (h[p].step # "idle" /\ h[p].name = n) \/ HasRow(Sha(landing[n]))

ChannelInv == \A p \in Instances, n \in Names : seen[p][n].emitted => Kept(p, n)

(* The content of every row is on the bus or about to be. *)
ReachInv ==
  \A a \in arrivals : \/ \E i \in DOMAIN raw : raw[i].sha = a.sha
                      \/ \E q \in Instances : h[q].step = "publish" /\ h[q].sha = a.sha

(* Names that are not reused and no faults: what the argument rests on. *)
Undisturbed == Habits = {} /\ FaultKinds = {} /\ PInv /\ ReadyIsComplete /\ QuietIsPause

(* A name the scanner emitted, or that is queued or in hand, keeps its file. *)
LEMMA FilesStay ==
  ASSUME Undisturbed, HandsInv, [Next]_vars
  PROVE  /\ \A p \in Instances, n \in Names : seen[p][n].emitted => landing'[n] = landing[n]
         /\ \A p \in Instances : h[p].step # "idle" => landing'[h[p].name] = landing[h[p].name]
         /\ \A p \in Instances, n \in Names : InQueue(p, n) => Present(n)
<1>1. \A n \in Names : Complete(n) => landing'[n] = landing[n]
  BY CompleteStays DEF Undisturbed, PInv
<1>2. \A p \in Instances, n \in Names : seen[p][n].emitted => landing'[n] = landing[n]
  BY <1>1 DEF Undisturbed, ReadyIsComplete
<1>3. ASSUME NEW p \in Instances, h[p].step # "idle" PROVE landing'[h[p].name] = landing[h[p].name]
  <2>1. /\ h[p].name \in Names /\ h[p].sha = Sha(landing[h[p].name]) /\ h[p].sha.whole
        /\ h[p].sha \in FileSha
    BY <1>3 DEF Undisturbed, PInv, TypeOK, HandsInv, ReadyIsComplete
  <2>2. Complete(h[p].name)
    BY <2>1, ConstantsAssumption DEF Sha, FileSha, Complete, Present
  <2>3. QED
    BY <1>1, <2>1, <2>2
<1>4. \A p \in Instances, n \in Names : InQueue(p, n) => Present(n)
  BY DEF Undisturbed, ReadyIsComplete, InQueue, Complete
<1>5. QED
  BY <1>2, <1>3, <1>4

(* The rows of a content stay. *)
LEMMA RowsStay ==
  ASSUME Undisturbed, [Next]_vars
  PROVE  /\ arrivals \subseteq arrivals'
         /\ \A sha : HasRow(sha) => \E a \in arrivals' : a.sha = sha
<1>1. arrivals \subseteq arrivals'
  <2>1. CASE Quiet
    BY <2>1 DEF Quiet
  <2>2. ASSUME NEW p \in Instances, Store(p) \/ Recorded(p) \/ Publish(p) PROVE arrivals \subseteq arrivals'
    BY <2>2, StoreEffect, RecordEffect, PublishEffect DEF Undisturbed, PInv
  <2>3. QED
    BY <2>1, <2>2, StepKinds DEF Undisturbed, PInv
<1>2. QED
  BY <1>1 DEF HasRow

(* What a step does to one instance's handler, scanner and channel. *)
HandlerStays(p) == h'[p] = h[p] /\ seen'[p] = seen[p] /\ queue'[p] = queue[p]

(* Of the handler's steps: it takes the first of its channel; *)
Takes(p) ==
  /\ queue[p] # <<>> /\ queue'[p] = Tail(queue[p]) /\ seen'[p] = seen[p]
  /\ h[p].step = "idle" /\ h'[p].step = "check" /\ h'[p].name = Head(queue[p])
  /\ h'[p].sha = Sha(landing[Head(queue[p])])

(* it goes on with its file, at the end with a row of its content; *)
GoesOn(p) ==
  /\ queue'[p] = queue[p] /\ seen'[p] = seen[p] /\ h[p].step # "idle"
  /\ h'[p].step # "idle" /\ h'[p].name = h[p].name /\ h'[p].sha = h[p].sha
  /\ \/ h'[p].step = "record"
     \/ \E a \in arrivals' : a.sha = h[p].sha

(* it returns, when there is such a row; *)
Returns(p) ==
  /\ queue'[p] = queue[p] /\ h[p].step # "idle" /\ h'[p].step = "idle"
  /\ HasRow(h[p].sha)
  /\ \A n \in Names : n # h[p].name => seen'[p][n] = seen[p][n]

(* and of the scanner: what it newly emits is in the channel after what was there. *)
Emits(p) ==
  /\ h'[p] = h[p]
  /\ \A n \in Names : InQueue(p, n) => \E i \in DOMAIN queue'[p] : queue'[p][i] = n
  /\ \A n \in Names : seen'[p][n].emitted => seen[p][n].emitted \/ \E i \in DOMAIN queue'[p] : queue'[p][i] = n

(* A scan puts everything it newly emits into the channel, behind the rest. *)
LEMMA ScanEmits ==
  ASSUME Undisturbed, NEW p \in Instances, Scan(p)
  PROVE  Emits(p) /\ \A q \in Instances \ {p} : HandlerStays(q)
<1> DEFINE new == [n \in Names |-> Observe(seen[p][n], landing[n], n \in done)]
           ready == {n \in Names : new[n].emitted /\ ~seen[p][n].emitted}
<1>1. PICK order \in [1 .. Cardinality(ready) -> ready] :
        /\ \A i, j \in DOMAIN order : order[i] = order[j] => i = j
        /\ queue' = [queue EXCEPT ![p] = @ \o order]
  BY DEF Scan
<1>2. seen' = [seen EXCEPT ![p] = new] /\ h' = h
  BY DEF Scan
<1>3. ready \subseteq Names /\ IsFiniteSet(ready) /\ Cardinality(ready) \in Nat
  BY ConstantsAssumption, FS_Subset, FS_CardinalityType
<1>4. \A n \in Names : new[n].emitted => seen[p][n].emitted \/ n \in ready
  OBVIOUS
<1>5. seen'[p] = new /\ \A q \in Instances \ {p} : HandlerStays(q)
  BY <1>1, <1>2 DEF Undisturbed, PInv, TypeOK, HandlerStays
<1> HIDE DEF new, ready
<1>6. order \in Injection(1 .. Cardinality(ready), ready)
  BY <1>1 DEF Injection, IsInjective
<1>7. Cardinality(1 .. Cardinality(ready)) = Cardinality(ready)
  BY <1>3, FS_Interval
<1>8. order \in Surjection(1 .. Cardinality(ready), ready)
  BY <1>3, <1>6, <1>7, FS_Injection
<1>9. \A n \in ready : \E j \in 1 .. Cardinality(ready) : order[j] = n
  BY <1>8 DEF Surjection
<1>10. /\ queue[p] \in Seq(Names) /\ order \in Seq(Names) /\ Len(order) = Cardinality(ready)
       /\ queue'[p] = queue[p] \o order
  <2>1. order \in [1 .. Cardinality(ready) -> Names]
    BY <1>1, <1>3
  <2>2. order \in Seq(Names)
    BY <1>3, <2>1, SeqDef
  <2>3. Len(order) \in Nat /\ DOMAIN order = 1 .. Len(order) /\ DOMAIN order = 1 .. Cardinality(ready)
    BY <1>1, <2>2
  <2>4. Len(order) = Cardinality(ready)
    BY <1>3, <2>2, <2>3, LenProperties
  <2>5. QED
    BY <1>1, <2>2, <2>4 DEF Undisturbed, PInv, TypeOK
<1>11. /\ Len(queue[p]) \in Nat /\ DOMAIN queue[p] = 1 .. Len(queue[p]) /\ Len(order) \in Nat
       /\ DOMAIN queue'[p] = 1 .. Len(queue[p]) + Len(order)
       /\ \A i \in 1 .. Len(queue[p]) + Len(order) :
            queue'[p][i] = IF i <= Len(queue[p]) THEN queue[p][i] ELSE order[i - Len(queue[p])]
  BY <1>10, ConcatProperties, LenProperties
<1>12. ASSUME NEW n \in ready PROVE \E i \in DOMAIN queue'[p] : queue'[p][i] = n
  <2>1. PICK j \in 1 .. Cardinality(ready) : order[j] = n
    BY <1>9
  <2> DEFINE l == Len(queue[p])
             c == Len(order)
  <2>2. l \in Nat /\ c \in Nat /\ j \in 1 .. c
    BY <1>10, <1>11
  <2>3. l + j \in 1 .. l + c /\ ~ (l + j <= l) /\ (l + j) - l = j
    <3> HIDE DEF l, c
    <3>1. QED
      BY <2>2
  <2>4. queue'[p][l + j] = n
    BY <1>11, <2>1, <2>3
  <2>5. QED
    BY <1>11, <2>3, <2>4
<1>13. ASSUME NEW n \in Names, InQueue(p, n) PROVE \E i \in DOMAIN queue'[p] : queue'[p][i] = n
  <2>1. PICK i \in DOMAIN queue[p] : queue[p][i] = n
    BY <1>13 DEF InQueue
  <2>2. i \in 1 .. Len(queue[p]) + Len(order) /\ i <= Len(queue[p])
    BY <1>11, <2>1
  <2>3. QED
    BY <1>11, <2>1, <2>2
<1>14. QED
  BY <1>2, <1>4, <1>5, <1>12, <1>13 DEF Emits

(* The kinds of steps, for instance p. *)
LEMMA InstanceMoves ==
  ASSUME Undisturbed, HandsInv, [Next]_vars, NEW p \in Instances
  PROVE  HandlerStays(p) \/ Takes(p) \/ GoesOn(p) \/ Returns(p) \/ Emits(p)
<1> USE DEF storeVars, dirVars
<1>1. CASE UNCHANGED vars
  BY <1>1 DEF vars, HandlerStays
<1>2. ASSUME NEW n \in Names, Client(n) PROVE HandlerStays(p)
  BY <1>2 DEF Client, BeginWrite, KeepWriting, EndWrite, DropSentinel, Remove, Write, HandlerStays
<1>3. ASSUME NEW q \in Instances, Scan(q) PROVE HandlerStays(p) \/ Emits(p)
  BY <1>3, ScanEmits
<1>4. ASSUME NEW q \in Instances PROVE ~HandleError(q) /\ ~Crash(q)
  BY DEF HandleError, Crash, Undisturbed
<1>5. ASSUME NEW q \in Instances, Handle(q)
      PROVE  HandlerStays(p) \/ Takes(p) \/ GoesOn(p) \/ Returns(p)
  <2> USE <1>5 DEF Undisturbed, PInv
  <2>0. /\ seen \in [Instances -> [Names -> Observation]] /\ queue \in [Instances -> Seq(Names)]
        /\ h \in [Instances -> HandlerLocals]
    BY DEF TypeOK
  <2>1. CASE p # q
    <3>1. CASE Store(q) \/ OpenFails(q)
      BY <2>0, <2>1, <3>1, StoreEffect DEF Store, OpenFails, HandlerStays
    <3>2. CASE Forget(q)
      BY <2>0, <2>1, <3>2 DEF Forget, Return, HandlerStays
    <3>3. CASE Check(q) \/ AuditSuppressed(q) \/ Record(q) \/ Publish(q) \/ AuditDetected(q)
      <4>1. seen' = seen /\ queue' = queue
        BY <3>3 DEF Check, AuditSuppressed, Record, Publish, AuditDetected
      <4>2. h'[p] = h[p]
        BY <2>0, <2>1, <3>3 DEF Check, AuditSuppressed, Record, Publish, AuditDetected, Goto, Return
      <4>3. QED
        BY <4>1, <4>2 DEF HandlerStays
    <3>4. QED
      BY <3>1, <3>2, <3>3 DEF Handle
  <2>2. CASE p = q
    <3>1. CASE Store(p)
      BY <2>0, <3>1, StoreEffect DEF Store, Takes
    <3>2. ~OpenFails(p)
      <4>1. queue[p] # <<>> => InQueue(p, Head(queue[p])) /\ Head(queue[p]) \in Names
        <5>1. queue[p] \in Seq(Names)
          BY <2>0
        <5>2. queue[p] # <<>> => 1 \in DOMAIN queue[p] /\ Head(queue[p]) = queue[p][1] /\ queue[p][1] \in Names
          BY <5>1
        <5>3. QED
          BY <5>2 DEF InQueue
      <4>2. QED
        BY <4>1, FilesStay DEF OpenFails
    <3>3. CASE Check(p)
      <4>1. ASSUME Goto(p, "record") PROVE GoesOn(p)
        BY <3>3, <4>1, GotoEffect DEF Check, GoesOn
      <4>2. ASSUME NEW a \in Priors(h[p].sha, h[p].name),
                   h' = [h EXCEPT ![p].step = "suppress", ![p].prior = a.id]
            PROVE  GoesOn(p)
        <5>1. h' = [h EXCEPT ![p] = [h[p] EXCEPT !.step = "suppress", !.prior = a.id]]
          BY <4>2
        <5>2. h[p] \in HandlerLocals
          BY <2>0
        <5>3. h'[p].step = "suppress" /\ h'[p].sha = h[p].sha /\ h'[p].name = h[p].name
          BY <2>0, <5>1, <5>2 DEF HandlerLocals
        <5>4. a \in arrivals /\ a.sha = h[p].sha
          BY DEF Priors
        <5>5. QED
          BY <3>3, <5>3, <5>4 DEF Check, GoesOn
      <4>3. QED
        BY <3>3, <4>1, <4>2 DEF Check
    <3>4. CASE AuditSuppressed(p)
      <4>1. h'[p].step = "idle"
        BY <3>4, <2>0, EmptyTypes DEF AuditSuppressed, Return
      <4>2. QED
        BY <3>4, <4>1 DEF AuditSuppressed, Returns, HandsInv
    <3>5. CASE Record(p)
      <4>1. ASSUME Recorded(p), UNCHANGED <<seen, queue>> PROVE GoesOn(p)
        <5>1. Made(p) \in arrivals' /\ Made(p).sha = h[p].sha
          BY <4>1, RecordEffect
        <5>2. QED
          BY <4>1, <5>1, RecordEffect DEF GoesOn
      <4>2. ASSUME Conflict(h[p].sha, h[p].name), Return(p), UNCHANGED <<seen, queue>> PROVE Returns(p)
        <5>1. h'[p].step = "idle"
          BY <4>2, <2>0, EmptyTypes DEF Return
        <5>2. HasRow(h[p].sha)
          BY <4>2 DEF Conflict, HasRow
        <5>3. QED
          BY <3>5, <4>2, <5>1, <5>2 DEF Record, Returns
      <4>3. QED
        BY <3>5, <4>1, <4>2 DEF Record, Recorded, Made
    <3>6. CASE Publish(p) \/ AuditDetected(p)
      <4>1. h[p].step \in {"publish", "audit"} /\ UNCHANGED <<seen, queue, arrivals>>
        BY <3>6 DEF Publish, AuditDetected
      <4>2. h'[p].step \in {"audit", "forget"} /\ h'[p].sha = h[p].sha /\ h'[p].name = h[p].name
        BY <3>6, GotoEffect DEF Publish, AuditDetected
      <4>3. HasRow(h[p].sha)
        BY <4>1 DEF HandsInv
      <4>4. QED
        BY <4>1, <4>2, <4>3 DEF GoesOn, HasRow
    <3>7. CASE Forget(p)
      <4>1. h'[p].step = "idle"
        BY <3>7, <2>0, EmptyTypes DEF Forget, Return
      <4>2. HasRow(h[p].sha) /\ h[p].step # "idle" /\ queue' = queue
        BY <3>7 DEF Forget, HandsInv
      <4>3. \A n \in Names : n # h[p].name => seen'[p][n] = seen[p][n]
        BY <3>7, <2>0 DEF Forget
      <4>4. QED
        BY <4>1, <4>2, <4>3 DEF Returns
    <3>8. QED
      BY <2>2, <3>1, <3>2, <3>3, <3>4, <3>5, <3>6, <3>7 DEF Handle
  <2>3. QED
    BY <2>1, <2>2
<1>6. QED
  BY <1>1, <1>2, <1>3, <1>4, <1>5 DEF Next

(* The files in hand are as the directory has them, and rows follow. *)
LEMMA HandsStep ==
  ASSUME Undisturbed, HandsInv, [Next]_vars
  PROVE  HandsInv'
<1> SUFFICES ASSUME NEW p \in Instances, h'[p].step # "idle"
             PROVE  /\ h'[p].sha = Sha(landing'[h'[p].name])
                    /\ h'[p].step \in {"suppress", "publish", "audit", "forget"} =>
                         \E a \in arrivals' : a.sha = h'[p].sha
  BY DEF HandsInv, HasRow
<1>1. CASE h'[p] = h[p]
  BY <1>1, FilesStay, RowsStay DEF HandsInv
<1>2. CASE Takes(p)
  <2>1. queue[p] \in Seq(Names)
    BY DEF Undisturbed, PInv, TypeOK
  <2>2. InQueue(p, Head(queue[p])) /\ Head(queue[p]) \in Names
    BY <1>2, <2>1 DEF Takes, InQueue
  <2>3. landing'[Head(queue[p])] = landing[Head(queue[p])]
    <3>1. Complete(Head(queue[p]))
      BY <2>2 DEF Undisturbed, ReadyIsComplete, InQueue
    <3>2. QED
      BY <2>2, <3>1, CompleteStays DEF Undisturbed, PInv
  <2>4. QED
    BY <1>2, <2>3 DEF Takes
<1>3. CASE GoesOn(p)
  <2>1. h[p].sha = Sha(landing[h[p].name]) /\ landing'[h[p].name] = landing[h[p].name]
    BY <1>3, FilesStay DEF GoesOn, HandsInv
  <2>2. QED
    BY <1>3, <2>1 DEF GoesOn
<1>4. QED
  BY <1>1, <1>2, <1>3, InstanceMoves DEF HandlerStays, Returns, Emits

(* Between the scanner's mark and a row, the file is in the channel or in hand. *)
LEMMA ChannelStep ==
  ASSUME Undisturbed, HandsInv, ChannelInv, [Next]_vars
  PROVE  ChannelInv'
<1> SUFFICES ASSUME NEW p \in Instances, NEW n \in Names, seen'[p][n].emitted
             PROVE  \/ \E i \in DOMAIN queue'[p] : queue'[p][i] = n
                    \/ h'[p].step # "idle" /\ h'[p].name = n
                    \/ \E a \in arrivals' : a.sha = Sha(landing'[n])
  BY DEF ChannelInv, Kept, InQueue, HasRow
<1>1. ASSUME seen[p][n].emitted
      PROVE  /\ InQueue(p, n) \/ (h[p].step # "idle" /\ h[p].name = n) \/ HasRow(Sha(landing[n]))
             /\ HasRow(Sha(landing[n])) => \E a \in arrivals' : a.sha = Sha(landing'[n])
  BY <1>1, FilesStay, RowsStay DEF ChannelInv, Kept
<1>2. CASE HandlerStays(p)
  BY <1>1, <1>2 DEF HandlerStays, InQueue
<1>3. CASE Takes(p)
  <2>1. queue[p] \in Seq(Names) /\ queue[p] # <<>> /\ queue'[p] = Tail(queue[p])
    BY <1>3 DEF Takes, Undisturbed, PInv, TypeOK
  <2>2. \A i \in DOMAIN queue[p] : i = 1 \/ (i - 1 \in DOMAIN queue'[p] /\ queue'[p][i - 1] = queue[p][i])
    BY <2>1
  <2>3. queue[p][1] = Head(queue[p])
    BY <2>1
  <2>4. InQueue(p, n) => n = Head(queue[p]) \/ \E i \in DOMAIN queue'[p] : queue'[p][i] = n
    BY <2>2, <2>3 DEF InQueue
  <2>5. QED
    BY <1>1, <1>3, <2>4 DEF Takes
<1>4. CASE GoesOn(p)
  BY <1>1, <1>4 DEF GoesOn, InQueue
<1>5. CASE Returns(p)
  <2>1. CASE n = h[p].name
    <3>1. h[p].sha = Sha(landing[n]) /\ landing'[n] = landing[n] /\ HasRow(h[p].sha)
      BY <1>5, <2>1, FilesStay DEF Returns, HandsInv
    <3>2. QED
      BY <3>1, RowsStay
  <2>2. CASE n # h[p].name
    BY <1>1, <1>5, <2>2 DEF Returns, InQueue
  <2>3. QED
    BY <2>1, <2>2
<1>6. CASE Emits(p)
  <2>1. CASE seen[p][n].emitted
    BY <1>1, <1>6, <2>1 DEF Emits
  <2>2. CASE ~seen[p][n].emitted
    BY <1>6, <2>2 DEF Emits
  <2>3. QED
    BY <2>1, <2>2
<1>7. QED
  BY <1>2, <1>3, <1>4, <1>5, <1>6, InstanceMoves

(* Without faults the content of every row goes out. *)
LEMMA ReachStep ==
  ASSUME FaultKinds = {}, PInv, ReachInv, [Next]_vars
  PROVE  ReachInv'
<1> USE DEF PInv
<1>1. CASE Quiet
  <2>1. \A q \in Instances : h[q].step = "publish" => h'[q] = h[q]
    BY <1>1 DEF Quiet, Chooses, Passes, Ends
  <2>2. QED
    BY <1>1, <2>1 DEF Quiet, ReachInv
<1>2. ASSUME NEW p \in Instances, Store(p) PROVE ReachInv'
  BY <1>2, StoreEffect DEF ReachInv
<1>3. ASSUME NEW p \in Instances, Recorded(p) PROVE ReachInv'
  BY <1>3, RecordEffect DEF ReachInv
<1>4. ASSUME NEW p \in Instances, Publish(p) PROVE ReachInv'
  <2>1. /\ Len(raw) + 1 \in DOMAIN raw' /\ raw'[Len(raw) + 1].sha = h[p].sha
        /\ \A i \in DOMAIN raw : i \in DOMAIN raw' /\ raw'[i] = raw[i]
        /\ arrivals' = arrivals
    BY <1>4, PublishEffect
  <2>2. \A q \in Instances : h[q].step = "publish" => q = p \/ h'[q] = h[q]
    BY <1>4, PublishEffect
  <2>3. QED
    BY <2>1, <2>2 DEF ReachInv
<1>5. QED
  BY <1>1, <1>2, <1>3, <1>4, StepKinds

(* Without faults and with names used once, no file is lost between the scan that *)
(* emits it, which is the only one that will, and the bus, however many instances *)
(* race for it (Scan, Run, Processor.handle).  With a fault it may be: that is    *)
(* what a later rescan by a restarted instance is for.                            *)
THEOREM EmittedFilesAreKept ==
  ASSUME Habits = {}, FaultKinds = {}
  PROVE  Spec => []EmittedIsKept
<1>1. Init => ReadyIsComplete /\ QuietIsPause /\ HandsInv /\ ChannelInv /\ ReachInv
  <2> SUFFICES ASSUME Init PROVE ReadyIsComplete /\ QuietIsPause /\ HandsInv /\ ChannelInv /\ ReachInv
    OBVIOUS
  <2>1. /\ \A p \in Instances : h[p].step = "idle" /\ queue[p] = <<>>
        /\ \A p \in Instances, n \in Names : ~seen[p][n].known /\ ~seen[p][n].emitted
        /\ \A n \in Names : landing[n].stamp = 0
    BY EmptyTypes DEF Init, NotSeen, NoFile
  <2>2. QED
    BY <2>1 DEF Init, ReadyIsComplete, QuietIsPause, HandsInv, ChannelInv, ReachInv
<1>2. PInv /\ ReadyIsComplete /\ QuietIsPause /\ [Next]_vars => (ReadyIsComplete /\ QuietIsPause)'
  BY ReadyStep, QuietStep DEF PInv
<1>3. PInv /\ ReadyIsComplete /\ QuietIsPause /\ HandsInv /\ ChannelInv /\ ReachInv /\ [Next]_vars
        => (HandsInv /\ ChannelInv /\ ReachInv)'
  BY HandsStep, ChannelStep, ReachStep DEF Undisturbed
<1>4. ChannelInv /\ ReachInv => EmittedIsKept
  <2> SUFFICES ASSUME ChannelInv, ReachInv, NEW p \in Instances, NEW n \in Names, seen[p][n].emitted,
                      ~InQueue(p, n), ~(h[p].step # "idle" /\ h[p].name = n)
               PROVE  \/ \E i \in DOMAIN raw : raw[i].sha = Sha(landing[n])
                      \/ \E q \in Instances : h[q].step = "publish" /\ h[q].sha = Sha(landing[n])
    BY DEF EmittedIsKept, InQueue
  <2>1. HasRow(Sha(landing[n]))
    BY DEF ChannelInv, Kept
  <2>2. QED
    BY <2>1 DEF HasRow, ReachInv
<1>5. QED
  BY <1>1, <1>2, <1>3, <1>4, PInvInvariant, PTL DEF Spec


----------------------------------------------------------------------------
(* Refinement: Portwatch implements the ledger its readers rely on. *)

(* No stored object has an id that was not handed out yet. *)
ObjectsAreDated == \A o \in objects : o.id <= ids

LEMMA ObjectsStep == ASSUME PInv, ObjectsAreDated, [Next]_vars PROVE ObjectsAreDated'
<1>0. ids \in Nat /\ \A o \in objects : o.id \in Nat
  BY DEF PInv, TypeOK
<1>1. CASE Quiet
  BY <1>1 DEF Quiet, ObjectsAreDated
<1>2. ASSUME NEW p \in Instances, Store(p) PROVE ObjectsAreDated'
  BY <1>0, <1>2, StoreEffect DEF PInv, ObjectsAreDated
<1>3. ASSUME NEW p \in Instances, Recorded(p) PROVE ObjectsAreDated'
  BY <1>3, RecordEffect DEF PInv, ObjectsAreDated
<1>4. ASSUME NEW p \in Instances, Publish(p) PROVE ObjectsAreDated'
  BY <1>4, PublishEffect DEF PInv, ObjectsAreDated
<1>5. QED
  BY <1>1, <1>2, <1>3, <1>4, StepKinds DEF PInv

(* What Store puts away has a new id. *)
LEMMA StoreIsStoreBytes ==
  ASSUME PInv, ObjectsAreDated, NEW p \in Instances, Store(p)
  PROVE  Intake!IntakeNext
<1> DEFINE object == [id |-> h'[p].id, sha |-> h'[p].sha]
<1>1. /\ objects' = objects \cup {object} /\ object.id = ids + 1
      /\ UNCHANGED <<arrivals, raw>>
  BY StoreEffect DEF PInv
<1>2. \A o \in objects : o.id # ids + 1
  BY DEF PInv, TypeOK, ObjectsAreDated
<1> HIDE DEF object
<1>3. Intake!StoreBytes
  BY <1>1, <1>2 DEF Intake!StoreBytes
<1>4. QED
  BY <1>3 DEF Intake!IntakeNext

(* A row that Record inserts carries an id no other has, for a file none has. *)
LEMMA RecordIsRecordRow ==
  ASSUME PInv, NEW p \in Instances, Recorded(p)
  PROVE  Intake!IntakeNext
<1>1. h[p].step = "record" /\ arrivals' = arrivals \cup {Made(p)} /\ UNCHANGED <<objects, raw>>
  BY DEF Recorded
<1>2. /\ Made(p).id = h[p].id /\ Made(p).sha = h[p].sha /\ Made(p).name = h[p].name
  BY DEF Made
<1>3. ASSUME NEW r \in arrivals
      PROVE  r.id # Made(p).id /\ (r.sha # Made(p).sha \/ r.name # Made(p).name)
  BY <1>1, <1>2 DEF PInv, RecordedSecond, Recorded, Conflict
<1>4. [id |-> Made(p).id, sha |-> Made(p).sha] \in objects
  BY <1>1, <1>2 DEF PInv, StoredFirst
<1>5. Intake!RecordRow
  BY <1>1, <1>3, <1>4 DEF Intake!RecordRow
<1>6. QED
  BY <1>5 DEF Intake!IntakeNext

(* A row that Publish announces is in the table and was not announced before. *)
LEMMA PublishIsAnnounce ==
  ASSUME PInv, NEW p \in Instances, Publish(p)
  PROVE  Intake!IntakeNext
<1>1. /\ h[p].step = "publish" /\ raw' = Append(raw, Made(p))
      /\ UNCHANGED <<objects, arrivals>>
  BY DEF Publish, Made
<1>2. Made(p) \in arrivals /\ Made(p).id = h[p].id /\ \A i \in DOMAIN raw : raw[i].id # h[p].id
  BY <1>1 DEF PInv, RecordedSecond, PublishedThird, Made
<1>3. Intake!Announce
  BY <1>1, <1>2 DEF Intake!Announce
<1>4. QED
  BY <1>3 DEF Intake!IntakeNext

(* Whatever instances, rescans, crashes and failing calls do, the object store,    *)
(* the arrival table and hm.arrivals.raw are an arrival ledger: every step changes *)
(* none of them, or stores bytes under a new id, or writes a row for stored bytes  *)
(* whose file had none, or announces a row for the first time (Processor.handle).  *)
THEOREM IntakeIsImplemented == Spec => ImplementsIntake
<1>1. Init => Intake!IntakeInit /\ ObjectsAreDated
  BY DEF Init, Intake!IntakeInit, ObjectsAreDated
<1>2. PInv /\ ObjectsAreDated /\ [Next]_vars => [Intake!IntakeNext]_Intake!intakeVars
  <2> SUFFICES ASSUME PInv, ObjectsAreDated, [Next]_vars
               PROVE  Intake!IntakeNext \/ UNCHANGED <<objects, arrivals, raw>>
    BY DEF Intake!intakeVars
  <2>1. Quiet => UNCHANGED <<objects, arrivals, raw>>
    BY DEF Quiet
  <2>2. QED
    BY <2>1, StepKinds, StoreIsStoreBytes, RecordIsRecordRow, PublishIsAnnounce DEF PInv
<1>3. PInv /\ ObjectsAreDated /\ [Next]_vars => ObjectsAreDated'
  BY ObjectsStep
<1>4. QED
  BY <1>1, <1>2, <1>3, PInvInvariant, PTL DEF Spec, ImplementsIntake, Intake!IntakeSpec

=============================================================================
