----------------------------- MODULE MCTradeBook ------------------------------
(***************************************************************************)
(* An instance of TradeBook for TLC: three orders, of which the first and  *)
(* the last have ids that begin alike; a seed that holds one symbol        *)
(* outside the default list at a price it did not pay; and a legacy book   *)
(* that holds one share of it.                                             *)
(***************************************************************************)
EXTENDS TradeBook, TLC

CONSTANTS r1, r2, s1, s2, d1, w1, o1, o2, o3, k1, k2

MCFillKey == (o1 :> k1) @@ (o2 :> k2) @@ (o3 :> k1)

Alike == Permutations({r1, r2}) \cup Permutations({o1, o3})

MCSizes == {-1, 1}

MCSeedShares == (s1 :> 0) @@ (s2 :> 2)

MCSeedPaid == (s1 :> 100) @@ (s2 :> 90)

MCSeedShown == (s1 :> 100) @@ (s2 :> 110)

MCImportShares == (s1 :> 0) @@ (s2 :> 1)

MCSeedLedger == 1000 - MCSeedShares[s2] * MCSeedPaid[s2]
=============================================================================
