----------------------------- MODULE Portwatch -----------------------------
(***************************************************************************)
(* Portwatch: the landing-directory scanner (go/internal/arrival/          *)
(* scanner.go), content dedupe (dedupe.go), the processor that turns a     *)
(* stable file into an ArrivalRaw message (processor.go) and the loop that *)
(* joins them (go/cmd/portwatch/main.go).                                  *)
(*                                                                         *)
(* Several instances may watch one directory and share the database and    *)
(* the bus.  In an instance the scanner goroutine fills a channel that the *)
(* main goroutine drains; the main goroutine also deletes from the         *)
(* scanner's map (Forget).                                                 *)
(***************************************************************************)
EXTENDS Integers, Sequences, FiniteSets

CONSTANTS
  Instances,     \* Portwatch processes
  Names,         \* file names of the landing directory that are not ignored
  Contents,      \* what clients write
  NoContent,     \* no file under that name
  QuietScans,    \* unchanged scans that make up the quiet window
  ChanCap,       \* capacity of the candidates channel
  Habits,        \* what clients do with a name that is taken: "overwrite", "remove"
  FaultKinds     \* which of "crash" and "error" can happen

CONSTANTS        \* bounds of a model
  MaxWrites,     \* writes to the landing directory
  MaxIds,        \* arrival ids, one for each file handled
  MaxFaults      \* crashes and handler errors

ASSUME ConstantsAssumption ==
  /\ NoContent \notin Contents /\ IsFiniteSet(Names)
  /\ QuietScans \in Nat \ {0} /\ ChanCap \in Nat \ {0}
  /\ Habits \subseteq {"overwrite", "remove"} /\ FaultKinds \subseteq {"crash", "error"}
  /\ MaxWrites \in Nat /\ MaxIds \in Nat /\ MaxFaults \in Nat

VARIABLES
  landing,    \* the landing directory: content, whether its writer is done, size and mtime
  done,       \* names whose sentinel file is present
  stall,      \* per instance, scans since an unfinished file was last written
  writes,     \* writes so far; the newest size-and-mtime stamp
  seen,       \* per instance, the scanner's observations
  queue,      \* per instance, candidates scanned and not yet handled
  h,          \* per instance, the handler's locals
  objects,    \* the object store
  arrivals,   \* the arrival table
  raw,        \* hm.arrivals.raw
  trail,      \* Portwatch's audit entries
  ids,        \* arrival ids handed out
  faults      \* crashes and errors so far

dirVars == <<landing, done, stall, writes>>
storeVars == <<objects, arrivals, raw, trail, ids>>
vars == <<dirVars, seen, queue, h, storeVars, faults>>

NoFile == [content |-> NoContent, whole |-> FALSE, stamp |-> 0]
NotSeen == [known |-> FALSE, stamp |-> 0, stable |-> 0, emitted |-> FALSE]
NoSha == [content |-> NoContent, whole |-> FALSE]
Idle == [step |-> "idle", name |-> NoContent, sha |-> NoSha, id |-> 0, prior |-> 0]

Present(n) == landing[n].content # NoContent

(* Equal hashes are equal bytes: a file cut short hashes unlike the whole one. *)
Sha(f) == [content |-> f.content, whole |-> f.whole]

Init ==
  /\ landing = [n \in Names |-> NoFile] /\ done = {} /\ writes = 0
  /\ stall = [p \in Instances |-> [n \in Names |-> 0]]
  /\ seen = [p \in Instances |-> [n \in Names |-> NotSeen]]
  /\ queue = [p \in Instances |-> <<>>]
  /\ h = [p \in Instances |-> Idle]
  /\ objects = {} /\ arrivals = {} /\ raw = <<>> /\ trail = {} /\ ids = 0
  /\ faults = 0

----------------------------------------------------------------------------
(* The clients.  Every write changes the file's size or mtime. *)

Write(n, c, whole) ==
  /\ writes < MaxWrites
  /\ writes' = writes + 1
  /\ landing' = [landing EXCEPT ![n] = [content |-> c, whole |-> whole, stamp |-> writes + 1]]
  /\ stall' = [p \in Instances |-> [stall[p] EXCEPT ![n] = 0]]
  /\ UNCHANGED <<done, seen, queue, h, storeVars, faults>>

(* The bound leaves room for the last write of every unfinished file. *)
LeavesRoom(n) ==
  writes + 1 + Cardinality({k \in Names : Present(k) /\ ~landing[k].whole} \cup {n}) <= MaxWrites

BeginWrite(n) ==
  /\ ~Present(n) \/ ("overwrite" \in Habits /\ landing[n].whole)
  /\ LeavesRoom(n)
  /\ \E c \in Contents : Write(n, c, FALSE)

KeepWriting(n) ==
  /\ Present(n) /\ ~landing[n].whole
  /\ LeavesRoom(n)
  /\ Write(n, landing[n].content, FALSE)

EndWrite(n) ==
  /\ Present(n) /\ ~landing[n].whole
  /\ Write(n, landing[n].content, TRUE)

(* The client declares the file complete; nothing ever deletes the sentinel. *)
DropSentinel(n) ==
  /\ Present(n) /\ landing[n].whole /\ n \notin done
  /\ done' = done \cup {n}
  /\ UNCHANGED <<landing, stall, writes, seen, queue, h, storeVars, faults>>

(* A name is freed for another file. *)
Remove(n) ==
  /\ "remove" \in Habits /\ Present(n) /\ landing[n].whole
  /\ landing' = [landing EXCEPT ![n] = NoFile]
  /\ UNCHANGED <<done, stall, writes, seen, queue, h, storeVars, faults>>

----------------------------------------------------------------------------
(* Scanner.Scan, one pass *)

(* Mutant: a changed file keeps the quiet time it had gathered. *)
ObserveAccumulates(o, f, sentinel) ==
  IF f.content = NoContent THEN NotSeen
  ELSE IF ~o.known THEN [NotSeen EXCEPT !.known = TRUE, !.stamp = f.stamp]
  ELSE IF o.emitted THEN o
  ELSE [o EXCEPT !.stamp = f.stamp, !.stable = @ + 1,
                 !.emitted = sentinel \/ o.stable + 1 >= QuietScans]

(* Mutant: the quiet window is never reached. *)
ObserveWaits(o, f, sentinel) ==
  IF f.content = NoContent THEN NotSeen
  ELSE IF ~o.known THEN [NotSeen EXCEPT !.known = TRUE, !.stamp = f.stamp]
  ELSE IF o.emitted THEN o
  ELSE [o EXCEPT !.stamp = f.stamp, !.stable = 0, !.emitted = sentinel]

Observe(o, f, sentinel) ==
  IF f.content = NoContent THEN NotSeen
  ELSE IF ~o.known THEN [NotSeen EXCEPT !.known = TRUE, !.stamp = f.stamp]
  ELSE IF o.emitted THEN o
  ELSE IF o.stamp # f.stamp THEN [o EXCEPT !.stamp = f.stamp, !.stable = 0]
  ELSE [o EXCEPT !.stable = @ + 1, !.emitted = sentinel \/ o.stable + 1 >= QuietScans]

(* A client that is not done writes again before the quiet window can pass. *)
WritersKeepMoving(p) == \A n \in Names : stall[p][n] < QuietScans

(* Mutant: a send that does not wait drops what the channel has no room for. *)
ScanDrops(p) ==
  LET new == [n \in Names |-> Observe(seen[p][n], landing[n], n \in done)]
      ready == {n \in Names : new[n].emitted /\ ~seen[p][n].emitted}
  IN  /\ WritersKeepMoving(p)
      /\ seen' = [seen EXCEPT ![p] = new]
      /\ \E order \in [1 .. Cardinality(ready) -> ready] :
           /\ \A i, j \in DOMAIN order : order[i] = order[j] => i = j
           /\ queue' = [queue EXCEPT ![p] = IF Len(@) + Len(order) > ChanCap THEN @ ELSE @ \o order]
      /\ stall' = [stall EXCEPT ![p] =
           [n \in Names |-> IF Present(n) /\ ~landing[n].whole THEN @[n] + 1 ELSE 0]]
      /\ UNCHANGED <<landing, done, writes, h, storeVars, faults>>

(* Run's pass: it blocks while candidates it found do not fit the channel. *)
Scan(p) ==
  LET new == [n \in Names |-> Observe(seen[p][n], landing[n], n \in done)]
      ready == {n \in Names : new[n].emitted /\ ~seen[p][n].emitted}
  IN  /\ Len(queue[p]) <= ChanCap
      /\ WritersKeepMoving(p)
      /\ seen' = [seen EXCEPT ![p] = new]
      /\ \E order \in [1 .. Cardinality(ready) -> ready] :
           /\ \A i, j \in DOMAIN order : order[i] = order[j] => i = j
           /\ queue' = [queue EXCEPT ![p] = @ \o order]
      /\ stall' = [stall EXCEPT ![p] =
           [n \in Names |-> IF Present(n) /\ ~landing[n].whole THEN @[n] + 1 ELSE 0]]
      /\ UNCHANGED <<landing, done, writes, h, storeVars, faults>>

----------------------------------------------------------------------------
(* Processor.handle *)

Return(p) == h' = [h EXCEPT ![p] = Idle]
Goto(p, step) == h' = [h EXCEPT ![p].step = step]

(* Mutant: the error of os.Open goes unnoticed. *)
StoreUnopened(p) ==
  /\ h[p].step = "idle" /\ queue[p] # <<>> /\ ids < MaxIds
  /\ LET n == Head(queue[p]) IN
       /\ ids' = ids + 1
       /\ objects' = objects \cup {[id |-> ids + 1, sha |-> Sha(landing[n])]}
       /\ h' = [h EXCEPT ![p] = [step |-> "check", name |-> n, sha |-> Sha(landing[n]),
                                 id |-> ids + 1, prior |-> 0]]
  /\ queue' = [queue EXCEPT ![p] = Tail(@)]
  /\ UNCHANGED <<dirVars, seen, arrivals, raw, trail, faults>>

(* Take a candidate, open it and store its bytes as they are now. *)
Store(p) ==
  /\ h[p].step = "idle" /\ queue[p] # <<>>
  /\ LET n == Head(queue[p]) IN
       /\ Present(n) /\ ids < MaxIds
       /\ ids' = ids + 1
       /\ objects' = objects \cup {[id |-> ids + 1, sha |-> Sha(landing[n])]}
       /\ h' = [h EXCEPT ![p] = [step |-> "check", name |-> n, sha |-> Sha(landing[n]),
                                 id |-> ids + 1, prior |-> 0]]
  /\ queue' = [queue EXCEPT ![p] = Tail(@)]
  /\ UNCHANGED <<dirVars, seen, arrivals, raw, trail, faults>>

OpenFails(p) ==
  /\ h[p].step = "idle" /\ queue[p] # <<>> /\ ~Present(Head(queue[p]))
  /\ queue' = [queue EXCEPT ![p] = Tail(@)]
  /\ UNCHANGED <<dirVars, seen, h, storeVars, faults>>

(* Mutant: only an identical name counts as seen before. *)
PriorsByName(sha, n) == {a \in arrivals : a.sha = sha /\ a.name = n}

(* Check: any row with this hash suppresses, whatever its name.  The prior it     *)
(* names is the oldest by the instances' own clocks: any of them.               *)
Priors(sha, n) == {a \in arrivals : a.sha = sha}

Check(p) ==
  /\ h[p].step = "check"
  /\ \/ /\ Priors(h[p].sha, h[p].name) = {}
        /\ Goto(p, "record")
     \/ \E a \in Priors(h[p].sha, h[p].name) :
          h' = [h EXCEPT ![p].step = "suppress", ![p].prior = a.id]
  /\ UNCHANGED <<dirVars, seen, queue, storeVars, faults>>

(* Mutant: the suppression names the candidate itself, not the original. *)
AuditSuppressedOwn(p) ==
  /\ h[p].step = "suppress"
  /\ trail' = trail \cup {[type |-> "ARRIVAL_SUPPRESSED", arrival |-> h[p].id]}
  /\ Return(p)
  /\ UNCHANGED <<dirVars, seen, queue, objects, arrivals, raw, ids, faults>>

AuditSuppressed(p) ==
  /\ h[p].step = "suppress"
  /\ trail' = trail \cup {[type |-> "ARRIVAL_SUPPRESSED", arrival |-> h[p].prior]}
  /\ Return(p)
  /\ UNCHANGED <<dirVars, seen, queue, objects, arrivals, raw, ids, faults>>

(* The unique constraint on (content_sha256, original_name). *)
Conflict(sha, n) == \E a \in arrivals : a.sha = sha /\ a.name = n

(* Mutant: the constraint's conflict updates the row. *)
RecordUpserts(p) ==
  /\ h[p].step = "record"
  /\ arrivals' = {a \in arrivals : a.sha # h[p].sha \/ a.name # h[p].name}
                  \cup {[id |-> h[p].id, sha |-> h[p].sha, name |-> h[p].name]}
  /\ Goto(p, "publish")
  /\ UNCHANGED <<dirVars, seen, queue, objects, raw, trail, ids, faults>>

Record(p) ==
  /\ h[p].step = "record"
  /\ \/ /\ ~Conflict(h[p].sha, h[p].name)
        /\ arrivals' = arrivals \cup {[id |-> h[p].id, sha |-> h[p].sha, name |-> h[p].name]}
        /\ Goto(p, "publish")
     \/ /\ Conflict(h[p].sha, h[p].name)    \* another instance won
        /\ Return(p)
        /\ UNCHANGED arrivals
  /\ UNCHANGED <<dirVars, seen, queue, objects, raw, trail, ids, faults>>

Publish(p) ==
  /\ h[p].step = "publish"
  /\ raw' = Append(raw, [id |-> h[p].id, sha |-> h[p].sha, name |-> h[p].name])
  /\ Goto(p, "audit")
  /\ UNCHANGED <<dirVars, seen, queue, objects, arrivals, trail, ids, faults>>

AuditDetected(p) ==
  /\ h[p].step = "audit"
  /\ trail' = trail \cup {[type |-> "ARRIVAL_DETECTED", arrival |-> h[p].id]}
  /\ Goto(p, "forget")
  /\ UNCHANGED <<dirVars, seen, queue, objects, arrivals, raw, ids, faults>>

Forget(p) ==
  /\ h[p].step = "forget"
  /\ seen' = [seen EXCEPT ![p][h[p].name] = NotSeen]
  /\ Return(p)
  /\ UNCHANGED <<dirVars, queue, storeVars, faults>>

(* A call of the handler fails: the error is logged and the loop goes on. *)
HandleError(p) ==
  /\ "error" \in FaultKinds /\ faults < MaxFaults
  /\ \/ /\ h[p].step \in {"check", "record", "suppress", "publish", "audit"}
        /\ UNCHANGED queue
     \/ /\ h[p].step = "idle" /\ queue[p] # <<>>    \* the open or the Put
        /\ queue' = [queue EXCEPT ![p] = Tail(@)]
  /\ faults' = faults + 1
  /\ Return(p)
  /\ UNCHANGED <<dirVars, seen, storeVars>>

(* The process ends and is started again with an empty map and channel.  It also    *)
(* ends by itself when the Go runtime notices that Forget deletes from the map      *)
(* while Scan uses it; unnoticed, the deletion falls before or after Scan's look at *)
(* that one name, which are the two orders of Forget and Scan.                      *)
Crash(p) ==
  /\ "crash" \in FaultKinds /\ faults < MaxFaults
  /\ faults' = faults + 1
  /\ seen' = [seen EXCEPT ![p] = [n \in Names |-> NotSeen]]
  /\ queue' = [queue EXCEPT ![p] = <<>>]
  /\ Return(p)
  /\ UNCHANGED <<dirVars, storeVars>>

----------------------------------------------------------------------------
Client(n) == BeginWrite(n) \/ KeepWriting(n) \/ EndWrite(n) \/ DropSentinel(n) \/ Remove(n)
Handle(p) == \/ Store(p) \/ OpenFails(p) \/ Check(p) \/ AuditSuppressed(p) \/ Record(p)
             \/ Publish(p) \/ AuditDetected(p) \/ Forget(p)
Next == \/ \E n \in Names : Client(n)
        \/ \E p \in Instances : Scan(p) \/ Handle(p) \/ HandleError(p) \/ Crash(p)

Spec == Init /\ [][Next]_vars

(* The scan timer and the handler loop of every instance keep running, and a     *)
(* client that has started a file finishes it.                                  *)
FairSpec ==
  /\ Spec
  /\ \A p \in Instances : WF_vars(Scan(p)) /\ WF_vars(Handle(p))
  /\ \A n \in Names : WF_vars(EndWrite(n))

----------------------------------------------------------------------------
(* Properties *)

Steps == {"idle", "check", "suppress", "record", "publish", "audit", "forget"}
File == [content : Contents \cup {NoContent}, whole : BOOLEAN, stamp : Nat]
FileSha == [content : Contents, whole : BOOLEAN]
Observation == [known : BOOLEAN, stamp : Nat, stable : Nat, emitted : BOOLEAN]
HandlerLocals == [step : Steps, name : Names \cup {NoContent},
                  sha : [content : Contents \cup {NoContent}, whole : BOOLEAN],
                  id : Nat, prior : Nat]
ArrivalRow == [id : Nat, sha : FileSha, name : Names]
AuditEntry == [type : {"ARRIVAL_SUPPRESSED", "ARRIVAL_DETECTED"}, arrival : Nat]

(* Types of every variable; a handler that works on a candidate has opened it. *)
TypeOK ==
  /\ landing \in [Names -> File] /\ done \subseteq Names /\ writes \in Nat
  /\ stall \in [Instances -> [Names -> Nat]]
  /\ seen \in [Instances -> [Names -> Observation]]
  /\ queue \in [Instances -> Seq(Names)]
  /\ h \in [Instances -> HandlerLocals]
  /\ \A p \in Instances : h[p].step # "idle" => h[p].name \in Names /\ h[p].sha \in FileSha
  /\ objects \subseteq [id : Nat, sha : FileSha]
  /\ arrivals \subseteq ArrivalRow /\ raw \in Seq(ArrivalRow) /\ trail \subseteq AuditEntry
  /\ ids \in Nat /\ faults \in Nat

(* A file, by content and name, is published at most once, however many          *)
(* instances, restarts and rescans meet it (Record's constraint, NFR-9).         *)
FilePublishedOnce ==
  \A i, j \in DOMAIN raw :
    raw[i].sha = raw[j].sha /\ raw[i].name = raw[j].name => i = j

(* What is published is already stored and recorded under the same arrival id,   *)
(* so no consumer meets an arrival the database does not know (the processor's   *)
(* stated order; ProjectClassified relies on it).                               *)
PublishedIsDurable ==
  \A i \in DOMAIN raw : /\ raw[i] \in arrivals
                        /\ [id |-> raw[i].id, sha |-> raw[i].sha] \in objects

(* The same content is published at most once, under whatever names it comes     *)
(* (FR-6, FR-7).                                                                *)
ContentPublishedOnce == \A i, j \in DOMAIN raw : raw[i].sha = raw[j].sha => i = j

(* Content is suppressed only on account of an arrival that has been published   *)
(* or is about to be: suppression never hides a file nobody has seen (FR-6).     *)
SuppressedWasPublished ==
  \A e \in trail : e.type = "ARRIVAL_SUPPRESSED" =>
    \/ \E i \in DOMAIN raw : raw[i].id = e.arrival
    \/ \E p \in Instances : h[p].step = "publish" /\ h[p].id = e.arrival

(* A file the scanner has emitted it will not emit again, so it must not be lost   *)
(* on the way: it waits in the channel or is in its handler's hands, or its bytes   *)
(* are on the bus or about to be (Scan's emitted flag, Run's send, Processor.handle; *)
(* NFR-3).                                                                         *)
EmittedIsKept ==
  \A p \in Instances : \A n \in Names : seen[p][n].emitted =>
    \/ \E i \in DOMAIN queue[p] : queue[p][i] = n
    \/ h[p].step # "idle" /\ h[p].name = n
    \/ \E i \in DOMAIN raw : raw[i].sha = Sha(landing[n])
    \/ \E q \in Instances : h[q].step = "publish" /\ h[q].sha = Sha(landing[n])

(* However many instances meet a file, crash over it and see it again, the store, *)
(* the table and the topic are what ArrivalLedger promises their readers: bytes    *)
(* before rows, rows before messages, one of each for a file (handle, NFR-9).      *)
Intake == INSTANCE ArrivalLedger WITH stored <- objects, recorded <- arrivals, announced <- raw
ImplementsIntake == Intake!IntakeSpec

(* Only files whose writer was done are published (FR-2). *)
PublishedIsWhole == \A i \in DOMAIN raw : raw[i].sha.whole

(* A finished file that stays in the landing directory is published (NFR-3). *)
LandedIsPublished ==
  \A n \in Names : \A c \in Contents :
    <>[](landing[n].content = c /\ landing[n].whole)
      => <>(\E i \in DOMAIN raw : raw[i].sha = [content |-> c, whole |-> TRUE])
=============================================================================
