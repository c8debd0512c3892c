--------------------------- MODULE MCBlockChain ---------------------------
EXTENDS BlockChain

\* Two branches from the genesis, a long light one and a short heavy one that
\* ends in e2 or goes on to the invalid block b3.
MCBlocks == {"g", "a1", "a2", "a3", "a4", "b1", "b2", "b3", "e2"}
MCParent == [b \in MCBlocks |->
  CASE b = "g" -> "none" [] b \in {"a1", "b1"} -> "g"
    [] b = "a2" -> "a1" [] b = "a3" -> "a2" [] b = "a4" -> "a3"
    [] b \in {"b2", "e2"} -> "b1" [] b = "b3" -> "b2"]
MCDifficulty == [b \in MCBlocks |->
  CASE b \in {"b2", "e2"} -> 3 [] b = "b3" -> 2 [] OTHER -> 1]
MCTime == [b \in MCBlocks |-> CASE b = "a4" -> 1 [] b = "e2" -> 2 [] OTHER -> 0]

\* A state has an account x and an account y; the root names their values.
\* The state after a1 is also the one after a3 and b3, and b1 and b2 share an account.
MCNodes == {"x0", "x1", "x2", "y0", "y1", "r00", "r10", "r01", "r11", "r21", "r20"}
MCChildren == [n \in MCNodes |->
  CASE n = "r00" -> {"x0", "y0"} [] n = "r10" -> {"x1", "y0"}
    [] n = "r01" -> {"x0", "y1"} [] n = "r11" -> {"x1", "y1"}
    [] n = "r20" -> {"x2", "y0"} [] n = "r21" -> {"x2", "y1"}
    [] OTHER -> {}]
MCTopDown ==
  <<"r00", "r10", "r01", "r11", "r21", "r20", "x0", "x1", "x2", "y0", "y1">>
MCRoot == [b \in MCBlocks |->
  CASE b = "g" -> "r00" [] b \in {"a1", "a3", "b3"} -> "r10" [] b \in {"a2", "a4"} -> "r11"
    [] b = "b1" -> "r01" [] b = "b2" -> "r21" [] b = "e2" -> "r20"]

MCTxs == {"t", "u"}
MCContent == [b \in MCBlocks |->
  CASE b = "a1" -> {"t"} [] b \in {"a2", "b1"} -> {"u"} [] OTHER -> {}]
=============================================================================
