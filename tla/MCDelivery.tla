----------------------------- MODULE MCDelivery -----------------------------
EXTENDS Delivery, TLC

CONSTANTS s1, a1, a2, a3, a4, k1, k2, r1, r2, usd, blank

Pair(x, y) == [d \in {"INTERNAL_GL", "EXTERNAL_CLIENT"} |-> IF d = "INTERNAL_GL" THEN x ELSE y]
Row(k, amount, note) == [key |-> k, value |-> [f \in {"net_amount", "currency"} |-> IF f = "net_amount" THEN amount ELSE note]]

\* a2 differs from a1 within the tolerance, a3 by a missing amount; a4 is not named.
MCContent ==
  a1 :> <<Row(k1, 0, usd), Row(k2, 5, Null)>>
  @@ a2 :> <<Row(k2, 3, blank), Row(k1, 1, usd)>>
  @@ a3 :> <<Row(k1, Null, usd), Row(k2, 5, Null)>>
  @@ a4 :> <<>>

MCPairings == {Pair(a1, a2), Pair(a1, a3), Pair(a4, a2)}
MCSides == {"INTERNAL_GL", "EXTERNAL_CLIENT"}

\* Assignments and voids to either reader; arrivals under review; alerts; both readers.
Quota(i, v, n, l, r) ==
  [issued |-> i, voids |-> v, notices |-> n, alerts |-> l, readers |-> r, underReview |-> IF n = 0 THEN {} ELSE {a1, a2}]
MCQuotas ==
  {Quota(3, 1, 0, 0, {"stub"}), Quota(2, 2, 0, 0, {"board"}), Quota(0, 0, 2, 0, {"board"}),
   Quota(0, 0, 0, 2, {"board"}), Quota(1, 1, 0, 0, {"stub", "board"})}
StubQuotas == {Quota(2, 1, 0, 0, {"stub"})}
=============================================================================
