------------------------------ MODULE Parsers -------------------------------
(***************************************************************************)
(* From a file to a table (python/src/inspector/parsers/ and               *)
(* Inspector.sniff): every parser bids for the content, the highest bid    *)
(* reads it.  Bids are in thousandths.                                     *)
(*                                                                         *)
(* A cell is <<kind, text, number>> and a header <<text, suffix>>, where   *)
(* suffix k > 0 is the "__k" of a repeated header.  A table is             *)
(* [ok, cols, rows]; ok is false where the code raises.  What a document   *)
(* looks like to its parser depends on its shape:                          *)
(*   text    lines [cells, own, decoy, marker, money]: the cells under the *)
(*           file's own delimiter, how often that delimiter and a rival    *)
(*           occur, the e-mail header that starts the line, and whether    *)
(*           the line names a currency; head says whether the first 64 KiB *)
(*           decode as UTF-8, bare whether a carriage return stands inside *)
(*           a line, advice the movements the lines spell out              *)
(*   zip     sheets [grid, aside, merged]                                  *)
(*   json    members [key, kind, cell, records] of an object, or a list    *)
(*   markup  groups [size, content, records] by tag, the root's children,  *)
(*           and the FIX reports.                                          *)
(* A record is a sequence of <<header, cell>>, in the order they are set.  *)
(***************************************************************************)
EXTENDS Integers, Sequences, FiniteSets

CONSTANTS
  SampleLines,     \* lines looked at for the delimiter: 20
  HeaderRows,      \* rows looked at for the header: 25
  RecordKeys,      \* names of record arrays, in the order they are tried
  MinRecords,      \* instances that make an element a record: 2
  EmailHeaders     \* the columns the e-mail parser writes

Blank == <<"blank", "", 0>>
Text == <<"text", "", 0>>
IsBlank(cell) == cell = Blank
IsNumeric(cell) == cell[1] = "num"
Filled(row) == {i \in DOMAIN row : ~IsBlank(row[i])}

NoTable == [ok |-> FALSE, cols |-> <<>>, rows |-> <<>>]

(* The columns must be distinct. *)
ParsedTable(cols, rows) ==
  IF \E i, j \in DOMAIN cols : i # j /\ cols[i] = cols[j] THEN NoTable
  ELSE [ok |-> TRUE, cols |-> cols, rows |-> rows]

Times(s, x) == Cardinality({i \in DOMAIN s : s[i] = x})
Least(S) == CHOOSE x \in S : \A y \in S : x <= y
Prefix(s, n) == SubSeq(s, 1, IF Len(s) < n THEN Len(s) ELSE n)

----------------------------------------------------------------------------
(* Delimiters *)

NonBlank(lines) == LET some(l) == l.cells # <<>> IN SelectSeq(lines, some)

Counts(lines, delim) ==
  LET present(n) == n > 0
  IN  SelectSeq([i \in DOMAIN lines |-> lines[i][delim]], present)

(* The count most lines agree on, the smallest of those that tie. *)
Modal(s) == Least({x \in {s[i] : i \in DOMAIN s} : \A j \in DOMAIN s : Times(s, x) >= Times(s, s[j])})

(* Agreement between the lines, weighted by the columns it makes, out of 6 * |counts|. *)
Weight(s) == Times(s, Modal(s)) * (IF Modal(s) < 6 THEN Modal(s) ELSE 6)

Qualifies(s, lines) == Len(s) >= 2 /\ Len(s) >= Len(lines) \div 3

(* The rival is tried first, and keeps its place unless the other is strictly better. *)
BestDelimiter(lines) ==
  LET better(own, decoy) == Weight(own) * Len(decoy) > Weight(decoy) * Len(own)
      best(own, decoy) ==
        CASE Qualifies(decoy, lines) /\ (Qualifies(own, lines) => ~better(own, decoy)) -> "decoy"
          [] Qualifies(own, lines) /\ (Qualifies(decoy, lines) => better(own, decoy)) -> "own"
          [] OTHER -> "none"
  IN  best(Counts(lines, "own"), Counts(lines, "decoy"))

Agreement(lines, delim) == LET s == Counts(lines, delim) IN (500 * Times(s, Modal(s))) \div Len(s)

----------------------------------------------------------------------------
(* Bids *)

DelimitedSniff(doc, ext) ==
  LET lines == Prefix(NonBlank(doc.lines), SampleLines)
      delim == BestDelimiter(lines)
      score == 350 + Agreement(lines, delim) + (IF ext \in {"csv", "txt"} THEN 100 ELSE 0)
  IN  IF doc.shape # "text" THEN 0
      ELSE IF doc.head # "utf8" \/ Len(lines) < 2 \/ delim = "none" THEN 0
      ELSE IF score > 970 THEN 970 ELSE score

ExcelSniff(doc, ext) == IF doc.shape # "zip" THEN 0 ELSE IF ext = "xlsx" THEN 970 ELSE 900

(* Only the envelope and one of the report elements make the generic parser defer. *)
XMLSniff(doc, ext) ==
  CASE doc.shape # "markup" -> 0
    [] doc.shape = "markup" /\ doc.fix \in {"envelope", "execution"} -> 300
    [] OTHER -> IF ext = "xml" THEN 920 ELSE 850

FIXMLSniff(doc, ext) ==
  CASE doc.shape # "markup" -> 0
    [] doc.shape = "markup" /\ doc.fix = "envelope" -> 980
    [] doc.shape = "markup" /\ doc.fix \in {"execution", "report"} -> 900
    [] OTHER -> 0

JSONSniff(doc, ext) == IF doc.shape # "json" THEN 0 ELSE IF ext = "json" THEN 950 ELSE 850

EmailSniff(doc, ext) ==
  LET lines == Prefix(NonBlank(doc.lines), SampleLines)
      markers == {doc.lines[i].marker : i \in DOMAIN doc.lines} \ {""}
      tabular == {i \in DOMAIN lines : lines[i].own >= 3 \/ lines[i].decoy >= 3}
      money == {i \in DOMAIN lines : lines[i].money}
  IN  IF doc.shape # "text" THEN 0
      ELSE IF Cardinality(markers) >= 2 THEN 930
      ELSE IF /\ Len(lines) >= 2 /\ 2 * Cardinality(tabular) <= Len(lines)
              /\ Cardinality(money) >= 2 /\ ext \in {"txt", "eml"}
           THEN 600 ELSE 0

(* In the order of DEFAULT_PARSERS, which decides between equal bids. *)
Bids(doc, ext) == <<DelimitedSniff(doc, ext), ExcelSniff(doc, ext), XMLSniff(doc, ext),
                    FIXMLSniff(doc, ext), JSONSniff(doc, ext), EmailSniff(doc, ext)>>
Formats == <<"CSV", "EXCEL", "XML", "FIXML", "JSON", "EMAIL_TEXT">>

Sniff(doc, ext) ==
  LET highest(bids) == Least({i \in DOMAIN bids : \A j \in DOMAIN bids : bids[i] >= bids[j]})
      winner(bids) == IF bids[highest(bids)] = 0 THEN "none" ELSE Formats[highest(bids)]
  IN  winner(Bids(doc, ext))

----------------------------------------------------------------------------
(* Grids: delimited text and workbooks *)

(* Labels, as wide as most rows, with few gaps, near the top; in 1200ths.  The    *)
(* delimited parser compares widths, the workbook parser the cells filled.       *)
FindHeaderRow(grid, widths) ==
  LET common == {r \in DOMAIN grid : \A q \in DOMAIN grid : Times(widths, widths[r]) >= Times(widths, widths[q])}
      modal == CHOOSE w \in {widths[r] : r \in common} : \A q \in common : w >= widths[q]
      candidates == {r \in DOMAIN grid : r <= HeaderRows /\ Filled(grid[r]) # {}}
      labels(row) == {i \in Filled(row) : ~IsNumeric(row[i])}
      score(r) == (2400 * Cardinality(labels(grid[r]))) \div Cardinality(Filled(grid[r]))
                  + (IF widths[r] = modal THEN 1800 ELSE 0)
                  + (1200 * Cardinality(Filled(grid[r]))) \div Len(grid[r])
                  - 180 * (r - 1)
      scores == [r \in candidates |-> score(r)]
  IN  IF candidates = {} THEN 1
      ELSE Least({r \in candidates : \A q \in candidates : scores[r] >= scores[q]})

(* Mutant: the summary line is a record. *)
IsTotalRowNever(row) == FALSE

IsTotalRow(row) == Filled(row) # {} /\ row[Least(Filled(row))][1] = "total"

(* The k-th repetition of a header is suffixed, unless the file wrote that itself. *)
Dedupe(row) ==
  LET name(i) == IF IsBlank(row[i]) THEN <<"column", i>> ELSE <<row[i][2], row[i][3]>>
      before(i) == Cardinality({j \in 1 .. i - 1 : name(j) = name(i)})
  IN  [i \in DOMAIN row |-> IF before(i) = 0 THEN name(i) ELSE <<name(i)[1], 10 * name(i)[2] + before(i)>>]

(* The rows under the header, cut or filled to its width. *)
Body(grid, header, cols) ==
  LET record(row) == ~IsTotalRow(row) /\ Filled(row) # {}
      fit(row) == [i \in DOMAIN cols |-> IF i \in DOMAIN row THEN row[i] ELSE Blank]
      body == SelectSeq(SubSeq(grid, header + 1, Len(grid)), record)
  IN  [r \in DOMAIN body |-> fit(body[r])]

DelimitedParse(doc) ==
  LET lines == NonBlank(doc.lines)
      delim == BestDelimiter(Prefix(lines, SampleLines))
      cells(l) == IF delim = "own" THEN l.cells ELSE [i \in 1 .. l.decoy + 1 |-> Text]
      some(row) == Filled(row) # {}
      header(grid) == FindHeaderRow(grid, [r \in DOMAIN grid |-> Len(grid[r])])
      under(grid, h, cols) == ParsedTable(cols, Body(grid, h, cols))
      table(grid) == IF grid = <<>> THEN NoTable ELSE under(grid, header(grid), Dedupe(grid[header(grid)]))
  IN  IF lines = <<>> \/ delim = "none" \/ doc.bare THEN NoTable
      ELSE table(SelectSeq([i \in DOMAIN lines |-> cells(lines[i])], some))

(* The largest sheet that is not named like a cover and is more than a line. *)
ChooseSheet(sheets) ==
  LET rows(s) == Len(s.grid)
      cols(s) == IF s.grid = <<>> THEN 0 ELSE Len(s.grid[1])
      score(s) == rows(s) + 5 * cols(s) - (IF s.aside THEN 5000 ELSE 0)
                  - (IF rows(s) <= 1 \/ cols(s) <= 1 THEN 1000 ELSE 0)
  IN  sheets[Least({i \in DOMAIN sheets : \A j \in DOMAIN sheets : score(sheets[i]) >= score(sheets[j])})]

(* Every cell of a merged range takes the value of its first; empty rows at the   *)
(* end are trimmed.                                                              *)
Grid(sheet) ==
  LET within(m, r, i) == r \in m.top .. m.bottom /\ i \in m.left .. m.right
      value(r, i) == IF \E m \in sheet.merged : within(m, r, i)
                     THEN LET m == CHOOSE m \in sheet.merged : within(m, r, i)
                          IN  sheet.grid[m.top][m.left]
                     ELSE sheet.grid[r][i]
      full == [r \in DOMAIN sheet.grid |-> [i \in DOMAIN sheet.grid[r] |-> value(r, i)]]
      used == {r \in DOMAIN full : Filled(full[r]) # {}}
  IN  SubSeq(full, 1, IF used = {} THEN 0 ELSE CHOOSE r \in used : \A q \in used : r >= q)

ExcelHeaderRow(grid) == FindHeaderRow(grid, [r \in DOMAIN grid |-> Cardinality(Filled(grid[r]))])

(* Columns without a name are dropped from the end of the header. *)
ExcelDedupe(row) == SubSeq(Dedupe(row), 1, CHOOSE i \in Filled(row) : \A j \in Filled(row) : i >= j)

ExcelParse(doc) ==
  LET under(grid, h, cols) == ParsedTable(cols, Body(grid, h, cols))
      table(grid) == IF grid = <<>> THEN NoTable
                     ELSE under(grid, ExcelHeaderRow(grid), ExcelDedupe(grid[ExcelHeaderRow(grid)]))
  IN  IF ~doc.readable THEN NoTable ELSE table(Grid(ChooseSheet(doc.sheets)))

----------------------------------------------------------------------------
(* Records: JSON, XML and FIXML *)

Keys(record) == {record[i][1] : i \in DOMAIN record}

(* A header set twice keeps the later cell. *)
CellOf(record, key) ==
  LET at == {i \in DOMAIN record : record[i][1] = key}
  IN  IF at = {} THEN Blank ELSE record[CHOOSE i \in at : \A j \in at : i >= j][2]

(* Columns in the order they are first seen; a record without one has it blank. *)
FromRecords(records) ==
  LET seen[n \in 0 .. Len(records)] ==
        IF n = 0 THEN <<>>
        ELSE LET fresh(p) == \A i \in DOMAIN seen[n - 1] : seen[n - 1][i] # p[1]
                 new == SelectSeq(records[n], fresh)
                 first(i) == \A j \in 1 .. i - 1 : new[j][1] # new[i][1]
                 at == {i \in DOMAIN new : first(i)}
                 nth(k) == CHOOSE i \in at : Cardinality({j \in at : j <= i}) = k
             IN  seen[n - 1] \o [k \in 1 .. Cardinality(at) |-> new[nth(k)][1]]
      cols == seen[Len(records)]
  IN  IF records = <<>> THEN NoTable
      ELSE ParsedTable(cols, [r \in DOMAIN records |-> [i \in DOMAIN cols |-> CellOf(records[r], cols[i])]])

(* Scalars beside the records are added where a record does not set them. *)
WithEnvelope(records, envelope) ==
  LET absent(r) == SelectSeq(envelope, LAMBDA p : p[1] \notin Keys(records[r]))
  IN  [r \in DOMAIN records |-> records[r] \o absent(r)]

(* A named array, else the longest, else the document itself. *)
FindJSONRecords(doc) ==
  LET arrays == {i \in DOMAIN doc.members : doc.members[i].kind = "records"}
      named == {k \in DOMAIN RecordKeys : \E i \in arrays : doc.members[i].key = RecordKeys[k]}
      byName == CHOOSE i \in arrays : doc.members[i].key = RecordKeys[Least(named)]
      longest == Least({i \in arrays : \A j \in arrays : Len(doc.members[i].records) >= Len(doc.members[j].records)})
      pairs(members) == [i \in DOMAIN members |-> <<<<members[i].key, 0>>, members[i].cell>>]
      scalars == pairs(SelectSeq(doc.members, LAMBDA m : m.kind = "scalar" /\ ~IsBlank(m.cell)))
      alone == \E i \in DOMAIN doc.members : doc.members[i].kind = "object" \/ scalars # <<>>
  IN  CASE doc.top = "list" -> doc.items
        [] doc.top = "object" /\ named # {} -> WithEnvelope(doc.members[byName].records, scalars)
        [] doc.top = "object" /\ named = {} /\ arrays # {} -> WithEnvelope(doc.members[longest].records, scalars)
        [] doc.top = "object" /\ arrays = {} /\ alone -> <<pairs(doc.members)>>
        [] OTHER -> <<>>

(* The element that repeats and carries most; content is children and attributes  *)
(* over all its instances.  Failing that, the richest child of the root.          *)
FindXMLRecords(doc) ==
  LET groups == {i \in DOMAIN doc.groups : doc.groups[i].size >= MinRecords /\ doc.groups[i].content >= doc.groups[i].size}
      size(g) == IF g.size < 100 THEN g.size ELSE 100
      beats(g, h) == 10 * g.content * h.size + size(g) * g.size * h.size
                     >= 10 * h.content * g.size + size(h) * g.size * h.size
      best == Least({i \in groups : \A j \in groups : beats(doc.groups[i], doc.groups[j])})
      rich == {i \in DOMAIN doc.children : doc.children[i] # <<>>}
  IN  CASE groups # {} -> doc.groups[best].records
        [] groups = {} /\ rich # {} ->
             <<doc.children[Least({i \in rich : \A j \in rich : Len(doc.children[i]) >= Len(doc.children[j])})]>>
        [] OTHER -> <<>>

JSONParse(doc) == FromRecords(FindJSONRecords(doc))
XMLParse(doc) == FromRecords(FindXMLRecords(doc))
FIXMLParse(doc) == FromRecords(doc.reports)

----------------------------------------------------------------------------
(* E-mail: one row for each line with an amount and a currency *)

(* For lines without a date: the subject's, or failing that the first of the text. *)
DefaultDate(doc) ==
  LET dated == {i \in DOMAIN doc.lines : doc.lines[i].advice.date # Blank}
      subject == {i \in dated : doc.lines[i].marker = "subject:"}
  IN  CASE subject # {} -> doc.lines[Least(subject)].advice.date
        [] subject = {} /\ dated # {} -> doc.lines[Least(dated)].advice.date
        [] OTHER -> Blank

IsMovement(line) == line.marker = "" /\ line.money /\ line.advice.amount # Blank

Extract(advice, default) ==
  <<advice.account, advice.amount, IF advice.date = Blank THEN default ELSE advice.date>>

EmailParse(doc) ==
  LET moves == SelectSeq(doc.lines, IsMovement)
  IN  IF moves = <<>> THEN NoTable
      ELSE ParsedTable(EmailHeaders, [r \in DOMAIN moves |-> Extract(moves[r].advice, DefaultDate(doc))])

----------------------------------------------------------------------------
Parse(doc, format) ==
  CASE format = "CSV" -> DelimitedParse(doc)
    [] format = "EXCEL" -> ExcelParse(doc)
    [] format = "XML" -> XMLParse(doc)
    [] format = "FIXML" -> FIXMLParse(doc)
    [] format = "JSON" -> JSONParse(doc)
    [] format = "EMAIL_TEXT" -> EmailParse(doc)
    [] OTHER -> NoTable

(* An error that is no ParseError: csv.reader splits at line feeds only, and raises *)
(* csv.Error at a carriage return within what it takes for a line.                  *)
ParseRaises(doc, format) == format = "CSV" /\ doc.bare
=============================================================================
