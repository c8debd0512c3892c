--------------------------- MODULE MCDownloader ---------------------------
EXTENDS Downloader

\* A long light branch and a short heavy one.
MCBlocks == {"g", "a1", "a2", "a3", "a4", "b1", "b2"}
MCParent == [b \in MCBlocks |->
  CASE b = "g" -> "none" [] b \in {"a1", "b1"} -> "g"
    [] b = "a2" -> "a1" [] b = "a3" -> "a2" [] b = "a4" -> "a3"
    [] b = "b2" -> "b1"]
MCDifficulty == [b \in MCBlocks |-> IF b = "b2" THEN 2 ELSE 1]
MCTime == [b \in MCBlocks |-> 0]
MCNodes == {"r"}
MCChildren == [n \in MCNodes |-> {}]
MCTopDown == <<"r">>
MCRoot == [b \in MCBlocks |-> "r"]
MCContent == [b \in MCBlocks |-> {}]
=============================================================================
