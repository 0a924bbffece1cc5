----------------------------- MODULE MCMapping ------------------------------
(* An instance of Mapping for TLC: the columns of four layouts, chosen so that  *)
(* tiers compete for a field.                                                  *)
EXTENDS Mapping

MCFields == {"instrument_id", "trade_price", "settlement_price", "net_amount", "quantity"}

MCHeaders == {"ISIN", "Price", "Px", "Settl Px", "Mark", "Net", "Net USD", "Cons", "Cx", "Cy",
              "Avg Px", "Exec Px"}
MCNorm == [h \in MCHeaders |-> IF h = "Net USD" THEN "NetUSD" ELSE h]
MCStripNoise == [n \in {MCNorm[h] : h \in MCHeaders} |-> IF n = "NetUSD" THEN "Net" ELSE n]
MCAliasIndex == [n \in {"ISIN", "Price", "Settl Px", "Net"} |->
  CASE n = "ISIN" -> "instrument_id" [] n = "Price" -> "trade_price"
    [] n = "Settl Px" -> "settlement_price" [] OTHER -> "net_amount"]

MCOverrides == [c \in {"c1"} |-> [n \in {"Mark", "Cons"} |->
  IF n = "Mark" THEN "settlement_price" ELSE "net_amount"]]

MCPriceHint == {"Price", "Px", "Settl Px", "Avg Px", "Exec Px"}
MCSettlementWords == {"Settl Px", "Mark"}
MCTradeWords == {"Avg Px", "Exec Px"}
MCTradePreference == [h \in MCHeaders |-> CASE h = "Avg Px" -> 8 [] h = "Exec Px" -> 15 [] OTHER -> 10]
MCPreference == [h \in MCHeaders |-> IF h = "Mark" THEN 10 ELSE 13]

MCFuzzy == [h \in MCHeaders |-> [f \in MCFields |->
  CASE h = "Cx" /\ f = "quantity" -> 80 [] h = "Cx" /\ f = "net_amount" -> 79
    [] h = "Cy" /\ f = "quantity" -> 70 [] OTHER -> 20]]
MCSemantic == [h \in MCHeaders |->
  IF h = "Cy" THEN [field |-> "quantity", score |-> 60] ELSE [field |-> "net_amount", score |-> 60]]

MCFakeRules == <<[hits |-> {"Cx", "Cy"}, field |-> "quantity"],
                 [hits |-> {"Px"}, field |-> "trade_price"]>>

Table(client, cols, rows) == [client |-> client, cols |-> cols, rows |-> rows]

(* Two prices and a column nobody knows, with prices that repeat, vary or are text; *)
(* and two names of one price beside a price that only its values tell.             *)
Priced == {Table("c1", <<"ISIN", "Price", "Px", "Cy">>, <<<<5, 2, v[1], 1>>, <<5, v[2], v[3], 1>>>>) :
             v \in {<<1, 2, 1>>, <<2, 3, 3>>}}
          \cup {Table("c1", <<"ISIN", "Avg Px", "Exec Px", "Px">>, <<<<5, 2, 3, 2>>, <<5, 2, 4, 2>>>>)}
Opaque == {Table("c1", <<"Cx", "Cy">>, <<<<1, 1>>>>), Table(NoClient, <<"Cy">>, <<<<1>>>>)}
(* Configuration against the dictionary, before and behind it, and for a price. *)
Configured == {Table("c1", <<"Net USD", "Cons">>, <<<<7, 8>>>>),
               Table("c1", <<"Cons", "Net", "Mark", "Settl Px">>, <<<<7, 8, 2, 3>>>>)}
MCTables == Priced \cup Opaque \cup Configured

(* A reply nobody can read, one whose items are no list, and replies with fields   *)
(* that are free, given twice, invented, or taken back in the next item.          *)
Reply(f, g) == <<Answer("Px", f, 990), Answer("Cy", g, 500)>>
MCReplies == {<<>>, NotIterable, Reply("trade_price", "quantity"), Reply("quantity", "quantity"),
              Reply("trade_price", "bogus"), <<Answer("Cy", "quantity", 500), Answer("Cy", NoField, 0)>>}
=============================================================================
