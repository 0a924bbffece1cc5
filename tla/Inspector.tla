----------------------------- MODULE Inspector ------------------------------
(***************************************************************************)
(* The Inspector (python/src/inspector/main.py): it consumes raw arrivals, *)
(* reads each file into a table, decides whose it is, what business day    *)
(* and domain it belongs to and how sure that is, writes the canonical     *)
(* object of each sub-batch and publishes the sub-batch to the classified  *)
(* or the quarantine topic.  A crash loses the work in hand; the arrival   *)
(* is delivered again, maybe on a later day.                               *)
(*                                                                         *)
(* A file is [name, doc, truth]; truth, which no action reads, is the      *)
(* table a person would see in it.  A name is [matches, token, date, ext]. *)
(* How the columns are mapped is Mapping.tla; here an outcome gives each   *)
(* canonical field a confidence, 0 for a field nothing was mapped to.      *)
(***************************************************************************)
EXTENDS ValueDate, Parsers

CONSTANTS
  Extensions,        \* of file names
  Files,             \* what may arrive
  Queues,            \* bound: the files that arrive one after the other
  MaxArrivals, MaxCrashes, FirstDay, LastDay,
  ClientOrder,       \* the clients, in the order of their ids
  DomainMap, HintDomain,  \* what a client's file names say of the domain
  Expectations,      \* per client, a sequence of [domain, hints]
  Accounts,          \* per client, the accounts it has
  CalendarOf,        \* per client, the name of its calendar
  Markets,           \* per name, the days the market is closed
  DefaultCalendar,   \* of a file nobody owns: US_EQUITY
  AccountColumns,    \* headers that name an account
  ScanLimit,         \* rows searched for accounts: 500 in the code
  Required, FieldWeight,   \* per domain the fields it needs, sorted; per field its weight
  Outcomes,          \* what mapping may come to
  DispatchAt, QuarantineAt \* thresholds, in 1/10000

Nobody == "nobody"
Unknown == "UNKNOWN"

VARIABLES
  raw,        \* the raw topic
  position,   \* arrivals handled
  job,        \* the sub-batches in hand: [pc, batches, at]
  today,
  objects,    \* canonical objects by name
  published,  \* classified and quarantined messages
  unread,     \* arrivals whose ParseError was logged
  crashes     \* so far

vars == <<raw, position, job, today, objects, published, unread, crashes>>

----------------------------------------------------------------------------
(* The registry *)

Clients == {ClientOrder[k] : k \in DOMAIN ClientOrder}

(* registry.load: there is a client, and every client's calendar exists. *)
Registered == Clients # {} /\ \A c \in Clients : CalendarOf[c] \in DOMAIN Markets

ASSUME RegistryAssumption ==
  /\ Registered
  /\ DefaultCalendar \in DOMAIN Markets
  /\ Nobody \notin Clients

Domains == DOMAIN Required
Fields == DOMAIN FieldWeight

(* Clients and expectations are lists, every domain named is one of the            *)
(* enumeration, weights are positive and confidences at most 1.                   *)
ASSUME ConfigurationAssumption ==
  /\ ClientOrder \in Seq(Clients)
  /\ \A c \in Clients :
       /\ HintDomain[c] \in Domains /\ \A t \in DOMAIN DomainMap[c] : DomainMap[c][t] \in Domains
       /\ DOMAIN Expectations[c] = 1 .. Len(Expectations[c])
       /\ \A k \in DOMAIN Expectations[c] : Expectations[c][k].domain \in Domains
  /\ Unknown \in Domains
  /\ Required \in [Domains -> Seq(Fields)] /\ FieldWeight \in [Fields -> Nat \ {0}]
  /\ Outcomes \subseteq [Fields -> 0 .. 1000]
  /\ FirstDay \in Int /\ LastDay \in Int /\ FirstDay <= LastDay

(* all_account_ids: an account of two clients belongs to the later of them. *)
Owner ==
  LET holders(a) == {k \in DOMAIN ClientOrder : a \in Accounts[ClientOrder[k]]}
      last(a) == CHOOSE k \in holders(a) : \A j \in holders(a) : k >= j
  IN  [a \in UNION {Accounts[c] : c \in Clients} |-> ClientOrder[last(a)]]

CalendarFor(client) == Markets[IF client = Nobody THEN DefaultCalendar ELSE CalendarOf[client]]

(* Every name the client uses for a value-date column. *)
ValueDateHints(client) ==
  LET e == IF client = Nobody THEN <<>> ELSE Expectations[client]
      upTo[k \in 0 .. Len(e)] == IF k = 0 THEN <<>> ELSE upTo[k - 1] \o e[k].hints
  IN  upTo[Len(e)]

(* FilenameHint.match: the domain of the token in the name, or the hint's own. *)
HintedDomain(client, name) ==
  IF name.token \in DOMAIN DomainMap[client] THEN DomainMap[client][name.token] ELSE HintDomain[client]

----------------------------------------------------------------------------
(* Attribution *)

(* The first client with a pattern the name matches. *)
MatchFilename(name) ==
  LET hits == {k \in DOMAIN ClientOrder : ClientOrder[k] \in name.matches}
      client == ClientOrder[Least(hits)]
  IN  IF hits = {} THEN [client |-> Nobody, domain |-> Unknown]
      ELSE [client |-> client, domain |-> HintedDomain(client, name)]

(* Known accounts in the account columns of the first rows; without such a column, *)
(* anywhere, also inside a longer text.                                           *)
FindAccountIds(table) ==
  LET columns == {i \in DOMAIN table.cols : table.cols[i] \in AccountColumns}
      scanned == IF columns = {} THEN DOMAIN table.cols ELSE columns
      kinds == IF columns = {} THEN {"id", "mention"} ELSE {"id"}
      cells == {table.rows[r][i] : r \in DOMAIN Prefix(table.rows, ScanLimit), i \in scanned}
  IN  {c[2] : c \in {c \in cells : c[1] \in kinds /\ c[2] \in DOMAIN Owner}}

(* A client with one expectation has its domain. *)
DomainFor(client, domain) ==
  IF domain = Unknown /\ Len(Expectations[client]) = 1 THEN Expectations[client][1].domain ELSE domain

(* Mutant: the contents win over the name, with confidence. *)
AttributeContents(name, table) ==
  LET hint == MatchFilename(name)
      owners == {Owner[a] : a \in FindAccountIds(table)}
      client == IF owners = {} THEN hint.client ELSE CHOOSE c \in owners : TRUE
  IN  IF Cardinality(owners) > 1 THEN [client |-> Nobody, conf |-> 450, domain |-> hint.domain]
      ELSE [client |-> client,
            conf |-> CASE client = Nobody -> 0 [] owners = {} -> 800 [] OTHER -> 950,
            domain |-> IF client = Nobody THEN Unknown ELSE DomainFor(client, hint.domain)]

Attribute(name, table) ==
  LET hint == MatchFilename(name)
      owners == {Owner[a] : a \in FindAccountIds(table)}
      client == IF owners = {} THEN hint.client ELSE CHOOSE c \in owners : TRUE
      conf == CASE client = Nobody -> 0
                [] client # Nobody /\ owners = {} -> 800
                [] owners # {} /\ hint.client = Nobody -> 950
                [] owners # {} /\ hint.client = client -> 990
                [] OTHER -> 450
  IN  IF Cardinality(owners) > 1 THEN [client |-> Nobody, conf |-> 450, domain |-> hint.domain]
      ELSE [client |-> client, conf |-> conf,
            domain |-> IF client = Nobody THEN Unknown ELSE DomainFor(client, hint.domain)]

----------------------------------------------------------------------------
(* Confidence, in 1/10000 *)

RoundDiv(n, d) == (2 * n + d) \div (2 * d)

Missing(outcome, domain) ==
  {f \in {Required[domain][i] : i \in DOMAIN Required[domain]} : outcome[f] = 0}

SumOf(s) ==
  LET upTo[k \in 0 .. Len(s)] == IF k = 0 THEN 0 ELSE upTo[k - 1] + s[k]
  IN  upTo[Len(s)]

(* The share of the weight of the required fields that was earned. *)
MappingCoverage(outcome, domain) ==
  LET required == Required[domain]
      weights == [i \in DOMAIN required |-> FieldWeight[required[i]]]
      earned == [i \in DOMAIN required |-> FieldWeight[required[i]] * outcome[required[i]]]
  IN  IF required = <<>> THEN 10000 ELSE RoundDiv(10 * SumOf(earned), SumOf(weights))

Overall(attribution, date, outcome) ==
  RoundDiv(35 * attribution.conf + 35 * date.conf + 3 * MappingCoverage(outcome, attribution.domain), 10)

(* Mutant: a day the file says nothing of is enough. *)
RouteLeniently(attribution, date, outcome) ==
  IF attribution.client # Nobody /\ Missing(outcome, attribution.domain) = {}
     /\ Overall(attribution, date, outcome) >= DispatchAt - 200
  THEN "DISPATCHED" ELSE "QUARANTINED"

Route(attribution, date, outcome) ==
  LET overall == Overall(attribution, date, outcome)
  IN  CASE attribution.client = Nobody -> IF 2 * overall >= QuarantineAt THEN "QUARANTINED" ELSE "REJECTED"
        [] attribution.client # Nobody /\ Missing(outcome, attribution.domain) # {} -> "QUARANTINED"
        [] OTHER -> CASE overall >= DispatchAt -> "DISPATCHED"
                      [] overall < DispatchAt /\ overall >= QuarantineAt -> "QUARANTINED"
                      [] OTHER -> "REJECTED"

----------------------------------------------------------------------------
(* Classification *)

Tables == [file \in Files |-> Parse(file.doc, Sniff(file.doc, file.name.ext))]

(* Parsers return lists of columns and rows. *)
ASSUME TablesAssumption ==
  \A file \in Files : \A list \in {Tables[file].cols, Tables[file].rows} :
    DOMAIN list \subseteq Nat /\ IsFiniteSet(DOMAIN list)

(* The groups of the split by date, or the whole table. *)
Groups(table, hints) ==
  LET split == SplitByValueDate(table, hints)
      nth(k) == CHOOSE g \in split : Cardinality({h \in split : h.day <= g.day}) = k
  IN  IF split = {} THEN <<DOMAIN table.rows>> ELSE [k \in 1 .. Cardinality(split) |-> nth(k).rows]

(* The rows of a group, under the numbers they have in the table. *)
Subset(table, rows) ==
  [ok |-> table.ok, cols |-> table.cols, rows |-> [r \in rows |-> table.rows[r]]]

Batch(file, attribution, outcome, day, groups, k) ==
  LET date == Resolve(Subset(Tables[file], groups[k]), ParseDate(file.name.date), day,
                      CalendarFor(attribution.client), ValueDateHints(attribution.client))
  IN  [index |-> k - 1, total |-> Len(groups), rows |-> groups[k],
       client |-> attribution.client, domain |-> attribution.domain, day |-> date.day,
       disposition |-> Route(attribution, date, outcome)]

(* One classification for each value date of the table. *)
Classifications(file, outcome, day) ==
  LET attribution == Attribute(file.name, Tables[file])
      groups == Groups(Tables[file], ValueDateHints(attribution.client))
  IN  [k \in DOMAIN groups |-> Batch(file, attribution, outcome, day, groups, k)]

Readable == {file \in Files : Tables[file].ok}
Classified == [file \in Readable |-> [outcome \in Outcomes |-> [day \in FirstDay .. LastDay |->
                 Classifications(file, outcome, day)]]]

(* A file that was not split has no suffix. *)
ObjectName(arrival, b) == <<arrival, IF b.total > 1 THEN b.index + 1 ELSE 0>>

(* Files whose parser raises something that is no ParseError. *)
Raising == {file \in Files : ParseRaises(file.doc, Sniff(file.doc, file.name.ext))}

TopicFor(disposition) == IF disposition = "DISPATCHED" THEN "classified" ELSE "quarantine"

----------------------------------------------------------------------------
(* The consumer *)

Idle == [pc |-> "idle", batches |-> <<>>, at |-> 0]
Down == [Idle EXCEPT !.pc = "down"]

Init ==
  /\ raw = <<>> /\ position = 0 /\ job = Idle
  /\ today = FirstDay
  /\ objects = <<>> /\ published = {} /\ unread = {} /\ crashes = 0

(* Portwatch publishes an arrival. *)
Land(file) ==
  /\ Len(raw) < MaxArrivals
  /\ raw # <<>> => Append(raw, file) \in Queues
  /\ raw' = Append(raw, file)
  /\ UNCHANGED <<position, job, today, objects, published, unread, crashes>>

Midnight ==
  /\ today < LastDay
  /\ today' = today + 1
  /\ UNCHANGED <<raw, position, job, objects, published, unread, crashes>>

(* Mutant: an unreadable arrival stays at the head of the topic. *)
RejectStuck ==
  /\ job = Idle /\ position < Len(raw)
  /\ raw[position + 1] \notin Readable \cup Raising
  /\ UNCHANGED vars

(* ParseError: logged, and the arrival is done with. *)
Reject ==
  /\ job = Idle /\ position < Len(raw)
  /\ raw[position + 1] \notin Readable \cup Raising
  /\ unread' = unread \cup {position + 1}
  /\ position' = position + 1
  /\ UNCHANGED <<raw, job, today, objects, published, crashes>>

(* Any other exception leaves the handler, the bus and the process; the arrival is *)
(* still the next one when the process is started again.                           *)
Raise ==
  /\ job = Idle /\ position < Len(raw)
  /\ raw[position + 1] \in Raising
  /\ job' = Down
  /\ UNCHANGED <<raw, position, today, objects, published, unread, crashes>>

Restart ==
  /\ job = Down
  /\ job' = Idle
  /\ UNCHANGED <<raw, position, today, objects, published, unread, crashes>>

Classify(outcome) ==
  /\ job = Idle /\ position < Len(raw)
  /\ raw[position + 1] \in Readable
  /\ job' = [pc |-> "write", at |-> 1, batches |-> Classified[raw[position + 1]][outcome][today]]
  /\ UNCHANGED <<raw, position, today, objects, published, unread, crashes>>

(* The rows of a sub-batch under what the Inspector decided of them; an object of  *)
(* the same name is replaced.                                                     *)
Stamped(b) == [rows |-> b.rows, client |-> b.client, domain |-> b.domain, day |-> b.day]

WriteParquet(name, records) ==
  objects' = [n \in DOMAIN objects \cup {name} |-> IF n = name THEN records ELSE objects[n]]

WriteCanonical ==
  /\ job.pc = "write"
  /\ \E b \in {job.batches[job.at]} : WriteParquet(ObjectName(position + 1, b), Stamped(b))
  /\ job' = [job EXCEPT !.pc = "publish"]
  /\ UNCHANGED <<raw, position, today, published, unread, crashes>>

(* The message, whose side is the same for every arrival. *)
ToProto(arrival, b) ==
  [topic |-> TopicFor(b.disposition), arrival |-> arrival, batch |-> b, side |-> "EXTERNAL_CLIENT"]

Publish ==
  /\ job.pc = "publish"
  /\ \E b \in {job.batches[job.at]} : published' = published \cup {ToProto(position + 1, b)}
  /\ job' = IF job.at < Len(job.batches) THEN [job EXCEPT !.pc = "write", !.at = job.at + 1]
            ELSE [job EXCEPT !.pc = "done"]
  /\ UNCHANGED <<raw, position, today, objects, unread, crashes>>

(* The handler returned, and the bus moves past the arrival. *)
Commit ==
  /\ job.pc = "done"
  /\ job' = Idle
  /\ position' = position + 1
  /\ UNCHANGED <<raw, today, objects, published, unread, crashes>>

(* Mutant: the bus moves past what it delivered, whether or not the handler returned. *)
CrashMovesOn ==
  /\ job \notin {Idle, Down} /\ crashes < MaxCrashes
  /\ job' = Idle
  /\ position' = position + 1
  /\ crashes' = crashes + 1
  /\ UNCHANGED <<raw, today, objects, published, unread>>

(* The process dies; what it wrote and published stays. *)
Crash ==
  /\ job \notin {Idle, Down} /\ crashes < MaxCrashes
  /\ job' = Idle
  /\ crashes' = crashes + 1
  /\ UNCHANGED <<raw, position, today, objects, published, unread>>

Next ==
  \/ \E file \in Files : Land(file)
  \/ Midnight
  \/ Reject
  \/ Raise
  \/ Restart
  \/ \E outcome \in Outcomes : Classify(outcome)
  \/ WriteCanonical
  \/ Publish
  \/ Commit
  \/ Crash

Spec == Init /\ [][Next]_vars

(* The consumer loop takes every step it can; crashes are finitely many, and a    *)
(* process that ended is started again.                                          *)
FairSpec ==
  /\ Spec
  /\ WF_vars(Reject) /\ WF_vars(Raise) /\ WF_vars(Restart)
  /\ WF_vars(\E outcome \in Outcomes : Classify(outcome))
  /\ WF_vars(WriteCanonical) /\ WF_vars(Publish) /\ WF_vars(Commit)

----------------------------------------------------------------------------
(* Properties *)

Dispatched == {m \in published : m.topic = "classified"}

(* What was dispatched to a slot is still what the object it names holds: the same  *)
(* rows, client, domain and day, after any crash, replay and midnight.  A file     *)
(* whose day rests on the clock alone scores too low to be dispatched              *)
(* (confidence.py, _route), and each sub-batch has its own object.                 *)
DispatchedMatchesObject ==
  \A m \in Dispatched :
    LET name == ObjectName(m.arrival, m.batch)
    IN  name \in DOMAIN objects /\ objects[name] = Stamped(m.batch)

(* A file is dispatched only on evidence that does not contradict itself: no       *)
(* account of another client among the rows searched, no file name of another      *)
(* client, and an account or a date inside the file, not its name alone            *)
(* (attribution.py, attribute; confidence.py, compose).                            *)
DispatchedOnEvidence ==
  \A m \in Dispatched :
    LET b == m.batch
        file == raw[m.arrival]
        table == Tables[file]
        found == FindAccountIds(table)
        dated == \E r \in b.rows : \E i \in DOMAIN table.cols : ParseDate(table.rows[r][i]) # NoDay
    IN  /\ b.client # Nobody
        /\ \A a \in found : Owner[a] = b.client
        /\ MatchFilename(file.name).client \in {Nobody, b.client}
        /\ found # {} \/ dated

(* Whatever a sub-batch is published under, each row of it that carries a readable *)
(* value date carries that day, or a closed day that rolls back to it              *)
(* (valuedate.py, split_by_value_date and _finish).                                *)
RowInItsOwnSlot ==
  \A m \in published : \A r \in m.batch.rows :
    LET b == m.batch
        day == RowDay(Tables[raw[m.arrival]], r, ValueDateHints(b.client))
    IN  day # NoDay => Cal(CalendarFor(b.client))!Roll(day) = b.day

(* The table the Inspector works on is the one a person sees in the file: banners  *)
(* and totals are not records, no record is lost, and each cell is under its own   *)
(* header (delimited.py, excel.py, json_parser.py, xml_parser.py, email_text.py).  *)
ReadsTheRecords ==
  \A i \in DOMAIN raw :
    raw[i].truth.ok => Tables[raw[i]].cols = raw[i].truth.cols /\ Tables[raw[i]].rows = raw[i].truth.rows

(* What the consumer has moved past is answered in full: an arrival was logged as  *)
(* unreadable and nothing else, or every sub-batch its messages count was          *)
(* published, also when a death cut the publishing short and the file was          *)
(* classified again with another outcome or on another day (main.py, classify and  *)
(* handle: a message tells how many sub-batches its file has).                     *)
MessagesOf(i) == {m \in published : m.arrival = i}
HandledIsAnswered ==
  \A i \in 1 .. position :
    /\ i \in unread <=> MessagesOf(i) = {}
    /\ \A m \in MessagesOf(i) : \A k \in 0 .. m.batch.total - 1 :
         \E n \in MessagesOf(i) : n.batch.index = k /\ n.batch.total = m.batch.total

(* Every arrival is answered: all its sub-batches are published, or it is logged   *)
(* as unreadable (main.py, handle).  A file whose parser raises another error is   *)
(* delivered for ever, and what arrived after it waits.                            *)
Answered(i) ==
  \/ i \in unread
  \/ \E m \in published : m.arrival = i /\
       \A k \in 0 .. m.batch.total - 1 : \E n \in published : n.arrival = i /\ n.batch.index = k
StuckBehind(i) == \E k \in 1 .. i : k \in DOMAIN raw /\ raw[k] \in Raising
EveryArrivalAnswered ==
  \A i \in 1 .. MaxArrivals : (Len(raw) >= i) ~> Answered(i) \/ StuckBehind(i)

(* main.py, handle: "the arrival is recorded as rejected rather than being          *)
(* redelivered forever"; no file is left for ever without an answer.                *)
NothingRedeliveredForever ==
  \A i \in 1 .. MaxArrivals : (Len(raw) >= i) ~> Answered(i)

(* T-036: "Row counts across sub-batches sum to the source row count". *)
RowsSumToSource ==
  \A i \in 1 .. position :
    UNION {m.batch.rows : m \in {m \in published : m.arrival = i}} = DOMAIN Tables[raw[i]].rows

(* valuedate.py, _DATE_FORMATS: "Date formats seen in real extracts", "%d%b%Y" among *)
(* them: a date in a listed format that names a day of the calendar is read.        *)
ListedDatesAreRead ==
  \A i \in DOMAIN raw : \A r \in DOMAIN Tables[raw[i]].rows : \A c \in DOMAIN Tables[raw[i]].cols :
    LET cell == Tables[raw[i]].rows[r][c]
    IN  cell[1] = "date" /\ DayOf(cell[3] % 100, cell[3] \div 100) # NoDay => ParseDate(cell) # NoDay

(* FR-17, and Inspector.sniff: "Choose a parser by content, never by extension". *)
ParserIgnoresExtension ==
  \A i \in DOMAIN raw : \A ext \in Extensions :
    Sniff(raw[i].doc, ext) = Sniff(raw[i].doc, raw[i].name.ext)
=============================================================================
