---------------------------- MODULE MCInspector -----------------------------
(* An instance of Inspector for TLC: two clients, and files in every format.  A   *)
(* year has two months of three days; c1's market is closed on day 2, c2's on 3.  *)
EXTENDS Inspector

MCClientOrder == <<"c1", "c2">>
MCAccounts == [c \in {"c1", "c2"} |-> IF c = "c1" THEN {"a1"} ELSE {"a2"}]
MCCalendarOf == [c \in {"c1", "c2"} |-> IF c = "c1" THEN "UK" ELSE "FX"]
MCCalendars == [n \in {"UK", "FX", "US_EQUITY"} |-> CASE n = "UK" -> {2} [] n = "FX" -> {3} [] OTHER -> {1}]
MCDomainMap == [c \in {"c1", "c2"} |-> IF c = "c1" THEN <<>> ELSE [t \in {"C"} |-> "CASH"]]
MCHintDomain == [c \in {"c1", "c2"} |-> Unknown]
AsOf == <<"asof", 0>>
MCExpectations == [c \in {"c1", "c2"} |->
  IF c = "c1" THEN <<[domain |-> "TRADE", hints |-> <<>>]>>
  ELSE <<[domain |-> "TRADE", hints |-> <<AsOf>>], [domain |-> "CASH", hints |-> <<>>]>>]
MCRequired == [d \in {"TRADE", "CASH", Unknown} |->
  CASE d = "TRADE" -> <<"account_id", "quantity">> [] d = "CASH" -> <<"account_id">> [] OTHER -> <<>>]
MCFieldWeight == [f \in {"account_id", "quantity"} |-> IF f = "quantity" THEN 3 ELSE 2]
MCOutcomes == {[f \in {"account_id", "quantity"} |-> IF f = "quantity" THEN q ELSE 1000] : q \in {0, 600, 1000}}

Account == <<"account", 0>>
ValueDateCol == <<"valuedate", 0>>
TradeDateCol == <<"tradedate", 0>>
Amount == <<"amount", 0>>
MCValueDateNames == <<ValueDateCol>>
MCTradeDateNames == <<TradeDateCol>>
MCAccountColumns == {Account}
MCEmailHeaders == <<Account, Amount, ValueDateCol>>
MCRecordKeys == <<"trades", "rows">>

----------------------------------------------------------------------------
(* Cells, lines and documents *)

Id(a) == <<"id", a, 0>>
Num == <<"num", "", 7>>
Label(c) == <<"label", c[1], c[2]>>
Labels(cols) == [i \in DOMAIN cols |-> Label(cols[i])]
Total == <<"total", "", 0>>
D1 == Written("ymd", 1, 1)
D2 == Written("slash", 2, 1)
D3 == Written("slash", 1, 3)
Bad == <<"date", "ymd", 309>>

NoAdvice == [account |-> Blank, amount |-> Blank, date |-> Blank]
Line(cells) == [cells |-> cells, own |-> Len(cells) - 1, decoy |-> 0, marker |-> "", money |-> FALSE, advice |-> NoAdvice]
Lines(grid) == [i \in DOMAIN grid |-> Line(grid[i])]
TextDoc(lines) == [shape |-> "text", head |-> "utf8", bare |-> FALSE, lines |-> lines]
BareDoc(lines) == [TextDoc(lines) EXCEPT !.bare = TRUE]
TableLines(cols, rows) == Lines(<<Labels(cols)>> \o rows)
Sheet(grid) == [grid |-> grid, aside |-> FALSE, merged |-> {}]
Book(sheets) == [shape |-> "zip", readable |-> TRUE, sheets |-> sheets]
Object(members) == [shape |-> "json", top |-> "object", members |-> members, items |-> <<>>]
Scalar(key, cell) == [key |-> key, kind |-> "scalar", cell |-> cell, records |-> <<>>]
Array(key, records) == [key |-> key, kind |-> "records", cell |-> Blank, records |-> records]
Markup(fix, groups, reports) ==
  [shape |-> "markup", fix |-> fix, groups |-> groups, children |-> <<>>, reports |-> reports]

Truth(cols, rows) == [ok |-> TRUE, cols |-> cols, rows |-> rows]
Name(matches, token, date, ext) == [matches |-> matches, token |-> token, date |-> date, ext |-> ext]
File(name, doc, truth) == [name |-> name, doc |-> doc, truth |-> truth]
ByC1 == Name({"c1"}, "", Blank, "csv")
ByC2 == Name({"c2"}, "C", D1, "csv")
ByBoth == Name({"c1", "c2"}, "C", Blank, "txt")
Anonymous == Name({}, "", D3, "dat")
Plain(name, cols, rows) == File(name, TextDoc(TableLines(cols, rows)), Truth(cols, rows))

----------------------------------------------------------------------------
(* Whose and when: accounts and value dates in every combination of two rows, and  *)
(* a third row, beyond those searched for accounts.                               *)
Cols == <<Account, ValueDateCol, Amount>>
TwoRows == {<<<<a, d, Num>>, <<b, e, Num>>>> : a, b \in {Id("a1"), Id("a2"), Blank}, d, e \in {D1, D2, Bad}}
Third == {<<>>, <<<<Id("a2"), D3, Num>>>>}
OwnedAndDated == {Plain(name, Cols, rows \o third) :
                    name \in {ByC1, ByC2, ByBoth, Anonymous}, rows \in TwoRows, third \in Third}

(* Three rows: a date that prevails, one that only a group has, none at all. *)
ThreeDates == {Plain(ByC1, Cols, <<<<Id("a1"), d, Num>>, <<Id("a1"), e, Num>>, <<Id("a1"), D3, Num>>>>) :
                 d, e \in {D1, D3, Bad, Written("caps", 1, 2)}}

(* Trade dates, a column only the client knows, and no date at all. *)
OtherDates == {Plain(name, <<Account, c, Amount>>, <<<<Id("a2"), D1, Num>>, <<Id("a2"), D2, Num>>>>) :
                 name \in {ByC2, ByBoth, Anonymous}, c \in {TradeDateCol, AsOf, <<"memo", 0>>}}
             \cup {Plain(ByC2, <<AsOf, ValueDateCol, Amount>>, <<<<D1, D2, Num>>, <<D1, D3, Num>>>>)}
             \cup {Plain(name, <<<<"memo", 0>>, Amount>>, <<<<<<"mention", "a1", 0>>, Num>>, <<Text, Num>>>>) :
                     name \in {ByC1, ByC2, Anonymous}}
             \cup {Plain(Name({"c1"}, "", D1, "csv"), <<<<"memo", 0>>, Amount>>, <<<<Text, Num>>>>)}

----------------------------------------------------------------------------
(* Formats: one table in many dresses. *)
Rows == <<<<Id("a1"), D1, Num>>, <<Id("a1"), D1, Num>>>>
Spread(n) == [i \in 1 .. n |-> Line(<<Text>>)]
Footed == TableLines(Cols, Rows \o <<<<Total, Blank, Num>>>>)
Descriptions == [i \in 1 .. 3 |-> [Footed[i] EXCEPT !.decoy = 2 * i]]
Repeated == <<Account, ValueDateCol, Amount, <<"amount", 1>>>>
RepeatedRows == <<<<Id("a1"), D1, Num, Num>>>>
Delimited ==
  {File(Name({"c1"}, "", Blank, ext), TextDoc(Spread(n) \o Footed), Truth(Cols, Rows)) : n \in {0, 2, 4}, ext \in {"csv", "dat"}}
  \cup {File(ByC1, TextDoc(Lines(<<<<Text>>>>) \o Descriptions), Truth(Cols, Rows)),
        File(ByC1, TextDoc(Lines(<<Labels(<<Account, ValueDateCol, Amount, Amount>>)>> \o RepeatedRows)), Truth(Repeated, RepeatedRows)),
        File(ByC1, TextDoc(TableLines(<<Amount, Amount, <<"amount", 1>>>>, <<<<Num, Num, Num>>>>)), NoTable),
        File(ByC1, [TextDoc(TableLines(Cols, Rows)) EXCEPT !.head = "broken"], NoTable),
        File(ByC1, TextDoc(<<>>), NoTable), File(ByC1, TextDoc(Spread(3)), NoTable)}

Titled == <<<<Text, Blank, Blank, Blank>>, [i \in 1 .. 4 |-> Blank], Labels(Cols) \o <<Blank>>>>
          \o [r \in 1 .. 2 |-> Rows[r] \o <<Blank>>] \o <<<<Total, Blank, Num, Blank>>, [i \in 1 .. 4 |-> Blank]>>
Cover == [Sheet(<<<<Text, Blank, Blank, Blank, Blank, Blank>>, [i \in 1 .. 6 |-> Text]>>) EXCEPT !.aside = TRUE]
Merged == [Sheet(<<<<Label(Account), Blank>>, <<Id("a1"), Num>>, <<Id("a1"), Num>>>>) EXCEPT
             !.merged = {[top |-> 1, bottom |-> 1, left |-> 1, right |-> 2]}]
Workbooks ==
  {File(Name({"c1"}, "", Blank, ext), Book(<<Cover, Sheet(Titled)>>), Truth(Cols, Rows)) : ext \in {"xlsx", "csv"}}
  \cup {File(ByC1, Book(<<Merged>>), Truth(<<Account, <<"account", 1>>>>, <<<<Id("a1"), Num>>, <<Id("a1"), Num>>>>)),
        File(ByC1, [Book(<<>>) EXCEPT !.readable = FALSE], NoTable),
        File(ByC1, Book(<<Sheet(<<<<Blank>>>>)>>), NoTable)}

Rec(row) == [i \in DOMAIN Cols |-> <<Cols[i], row[i]>>]
Partial == <<<<Account, Id("a1")>>, <<Amount, Num>>>>
Sides == <<Rec(Rows[1]), Partial>>
SidesTruth == Truth(Cols, <<Rows[1], <<Id("a1"), Blank, Num>>>>)
Documents ==
  {File(Name({"c1"}, "", Blank, ext), doc, SidesTruth) : ext \in {"json", "txt"}, doc \in
     {Object(<<Array("other", <<Partial, Partial, Partial>>), Array("rows", Sides)>>),
      Object(<<Array("y", <<Partial>>), Array("x", Sides)>>),
      [Object(<<>>) EXCEPT !.top = "list", !.items = Sides]}}
  \cup {File(ByC1, Object(<<Scalar("amount", D3), Scalar("valuedate", D1), Array("trades", Sides)>>), Truth(Cols, Rows)),
        File(ByC1, Object(<<Scalar("account", Id("a1"))>>), Truth(<<Account>>, <<<<Id("a1")>>>>)),
        File(ByC1, Object(<<>>), NoTable), File(ByC1, [Object(<<>>) EXCEPT !.top = "broken"], NoTable)}

Group(records, content) == [size |-> Len(records), content |-> content, records |-> records]
Leaf == Group([i \in 1 .. 3 |-> <<<<Amount, Num>>>>], 0)
Generic == <<<<<<"@acct", 0>>, Id("a1")>>, <<<<"trddt", 0>>, D1>>>>
FixFiles == {File(Name({"c1"}, "", Blank, ext), Markup(fix, <<Leaf, Group(<<Generic, Generic>>, 4)>>, Sides), SidesTruth) :
               ext \in {"xml", "dat"}, fix \in {"envelope", "execution", "report"}}
(* A trade capture fragment named .xml goes to the generic parser (see ParserIgnoresExtension). *)
Reports == {f \in FixFiles : f.name.ext # "xml" \/ f.doc.fix # "report"}
           \cup {[f EXCEPT !.truth = NoTable] : f \in FixFiles}
           \cup {File(Name({"c1"}, "", Blank, ext), Markup("none", <<Leaf, Group(Sides, 5)>>, <<>>), SidesTruth) : ext \in {"xml", "txt"}}
           \cup {File(ByC1, [Markup("none", <<>>, <<>>) EXCEPT !.children = <<<<>>, Partial>>],
                      Truth(<<Account, Amount>>, <<<<Id("a1"), Num>>>>)),
                 File(ByC1, Markup("none", <<Leaf>>, <<>>), NoTable), File(ByC1, Markup("envelope", <<>>, <<>>), NoTable)}

Header(marker, date) == [Line(<<Text>>) EXCEPT !.marker = marker, !.advice.date = date]
Movement(account, date, commas) ==
  [Line(<<Text>>) EXCEPT !.money = TRUE, !.decoy = commas, !.advice = [account |-> account, amount |-> Num, date |-> date]]
Advice(commas) == <<Header("from:", Blank), Header("subject:", D1), Movement(Id("a1"), Blank, commas), Movement(Id("a1"), D3, commas)>>
AdviceTruth == Truth(MCEmailHeaders, <<<<Id("a1"), Num, D1>>, <<Id("a1"), Num, D3>>>>)
Emails == {File(Name({"c1"}, "", Blank, ext), TextDoc(Advice(0)), AdviceTruth) : ext \in {"eml", "txt"}}
          \cup {File(Name({"c1"}, "", Blank, "eml"), TextDoc(Advice(1)), AdviceTruth),
                File(Name({"c1"}, "", Blank, "eml"), BareDoc(Advice(0)), AdviceTruth),
                File(Name({}, "", Blank, "eml"), TextDoc(SubSeq(Advice(0), 3, 4)), Truth(MCEmailHeaders,
                     <<<<Id("a1"), Num, D3>>, <<Id("a1"), Num, D3>>>>)),
                File(Name({"c1"}, "", Blank, "txt"), TextDoc(Advice(1)), NoTable),
                File(Name({}, "", Blank, "eml"), TextDoc(SubSeq(Advice(0), 1, 2)), NoTable)}

(* A file of two dates, one that cannot be read, one that raises and one dated by   *)
(* its arrival follow each other.                                                   *)
MCCrowd == {Plain(ByC1, Cols, <<<<Id("a1"), D1, Num>>, <<Id("a1"), D3, Num>>>>),
            File(ByC1, TextDoc(<<>>), NoTable),
            File(ByC1, BareDoc(TableLines(Cols, Rows)), NoTable),
            Plain(ByC1, <<Account, <<"memo", 0>>, Amount>>, <<<<Id("a1"), Text, Num>>>>)}
MCQueues == MCCrowd \X MCCrowd
MCFiles == MCCrowd \cup OwnedAndDated \cup ThreeDates \cup OtherDates \cup Delimited \cup Workbooks
           \cup Documents \cup Reports \cup Emails
=============================================================================
