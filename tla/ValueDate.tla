----------------------------- MODULE ValueDate ------------------------------
(***************************************************************************)
(* What business day a table belongs to                                    *)
(* (python/src/inspector/valuedate.py): an explicit value-date column, else *)
(* a trade date moved by the settlement offset, else the file's name, else  *)
(* the day before it arrived; and the split of a table that carries several *)
(* value dates.                                                            *)
(*                                                                         *)
(* A table is [cols, rows]: normalised headers, and rows of cells.  A cell  *)
(* is <<kind, text, number>>.  Days are integers; a calendar is the set of  *)
(* days it closes.  Confidences are in thousandths.                        *)
(***************************************************************************)
EXTENDS Integers, Sequences, FiniteSets

CONSTANTS
  ValueDateNames,   \* headers that name a value date, in the order they are tried
  ValueDatePhrases, \* headers that contain "settlementdate" or "valuedate"
  TradeDateNames,   \* headers that name a trade date, in the order they are tried
  MonthLength, Months,   \* the year of the instance
  MonthsWithT,      \* months whose abbreviation, in capitals, has a T: October
  CalendarSteps,    \* how far the calendar looks for an open day: 30 in the code
  SettlementOffset  \* business days from trade to settlement: 1

ASSUME YearAssumption == MonthLength \in Nat /\ Months \in Nat

NoDay == 0
NoColumn == 0

Cal(closed) == INSTANCE Calendar WITH
  closed <- closed, today <- 0, Days <- 1 .. Months * MonthLength, Windows <- {},
  MaxSteps <- CalendarSteps

----------------------------------------------------------------------------
(* Dates *)

DayOf(month, day) == IF month \in 1 .. Months /\ day \in 1 .. MonthLength
                     THEN (month - 1) * MonthLength + day ELSE NoDay

(* A date as written: <<"date", order, 100 * first + second>>.  Two numbers with a *)
(* slash between them are read day first, and month first if that is impossible.  *)
(* A month in capitals ("31OCT2026") loses what follows a T, as if it were a time. *)
Written(order, a, b) == <<"date", order, 100 * a + b>>

ParseDate(cell) ==
  LET a == cell[3] \div 100
      b == cell[3] % 100
  IN  CASE cell[1] = "date" /\ cell[2] = "ymd" -> DayOf(a, b)
        [] cell[1] = "date" /\ cell[2] = "slash" -> IF DayOf(b, a) # NoDay THEN DayOf(b, a) ELSE DayOf(a, b)
        [] cell[1] = "date" /\ cell[2] = "caps" -> IF b \in MonthsWithT THEN NoDay ELSE DayOf(b, a)
        [] OTHER -> NoDay

----------------------------------------------------------------------------
(* Columns *)

(* Of several columns with one normal form the last is kept. *)
Column(table, name) ==
  LET at == {i \in DOMAIN table.cols : table.cols[i] = name}
  IN  IF at = {} THEN NoColumn ELSE CHOOSE i \in at : \A j \in at : i >= j

FirstNamed(table, names) ==
  LET hits == {k \in DOMAIN names : Column(table, names[k]) # NoColumn}
  IN  IF hits = {} THEN NoColumn ELSE Column(table, names[CHOOSE k \in hits : \A j \in hits : k <= j])

(* What the client calls the column, then the usual names, then a phrase. *)
FindValueDateColumn(table, hints) ==
  LET named == FirstNamed(table, hints \o ValueDateNames)
      phrased == {i \in DOMAIN table.cols : table.cols[i] \in ValueDatePhrases}
      first == CHOOSE i \in phrased : \A j \in phrased : i <= j
  IN  CASE named # NoColumn -> named
        [] named = NoColumn /\ phrased # {} -> Column(table, table.cols[first])
        [] OTHER -> NoColumn

FindTradeDateColumn(table) == FirstNamed(table, TradeDateNames)

(* The readable dates of a column, by row. *)
ColumnDates(table, col) ==
  LET day(r) == ParseDate(table.rows[r][col])
  IN  [r \in {r \in DOMAIN table.rows : col # NoColumn /\ day(r) # NoDay} |-> day(r)]

----------------------------------------------------------------------------
(* Resolution *)

(* The most frequent candidate, the first seen of those that tie. *)
MostCommon(s) ==
  LET count(d) == Cardinality({i \in DOMAIN s : s[i] = d})
      top == {i \in DOMAIN s : \A j \in DOMAIN s : count(s[i]) >= count(s[j])}
  IN  s[CHOOSE i \in top : \A j \in top : i <= j]

(* Several dates cost a tenth of the confidence, a roll to an open day another. *)
Finish(candidates, method, base, nameDay, closed) ==
  LET winner == MostCommon(candidates)
      rolled == Cal(closed)!Roll(winner)
      several == \E i, j \in DOMAIN candidates : candidates[i] # candidates[j]
  IN  [day |-> rolled,
       method |-> method,
       conf |-> (IF several THEN (base * 9) \div 10 ELSE base) - (IF rolled # winner THEN 100 ELSE 0),
       mismatch |-> nameDay # NoDay /\ nameDay # rolled]

Resolve(table, nameDay, arrivalDay, closed, hints) ==
  LET explicit == ColumnDates(table, FindValueDateColumn(table, hints))
      traded == ColumnDates(table, FindTradeDateColumn(table))
      inferred == [i \in DOMAIN traded |-> Cal(closed)!AddBusinessDays(traded[i], SettlementOffset)]
      none(dates) == DOMAIN dates = {}
  IN  CASE ~none(explicit) -> Finish(explicit, "CONTENT_EXPLICIT", 970, nameDay, closed)
        [] none(explicit) /\ ~none(traded) -> Finish(inferred, "CONTENT_INFERRED", 850, nameDay, closed)
        [] none(explicit) /\ none(traded) /\ nameDay # NoDay ->
             Finish(<<nameDay>>, "FILENAME", 700, nameDay, closed)
        [] OTHER -> Finish(<<Cal(closed)!PreviousBusinessDay(arrivalDay)>>, "ARRIVAL", 550, NoDay, closed)

----------------------------------------------------------------------------
(* The split: groups of row numbers by the date each row carries, by date.  Rows  *)
(* without one are in no group; a table with fewer than two groups is not split.  *)

RowDay(table, r, hints) ==
  LET col == FindValueDateColumn(table, hints)
  IN  IF col = NoColumn THEN NoDay ELSE ParseDate(table.rows[r][col])

(* Mutant: rows without a date go with the first group. *)
SplitByValueDateAll(table, hints) ==
  LET days == {RowDay(table, r, hints) : r \in DOMAIN table.rows} \ {NoDay}
      first == IF days = {} THEN NoDay ELSE CHOOSE d \in days : \A e \in days : d <= e
  IN  IF Cardinality(days) < 2 THEN {}
      ELSE {[day |-> d, rows |-> {r \in DOMAIN table.rows : RowDay(table, r, hints) # NoDay \/ d = first}] : d \in days}

SplitByValueDate(table, hints) ==
  LET days == {RowDay(table, r, hints) : r \in DOMAIN table.rows} \ {NoDay}
  IN  IF Cardinality(days) < 2 THEN {}
      ELSE {[day |-> d, rows |-> {r \in DOMAIN table.rows : RowDay(table, r, hints) = d}] : d \in days}
=============================================================================
