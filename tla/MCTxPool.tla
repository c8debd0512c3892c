------------------------------ MODULE MCTxPool ------------------------------
EXTENDS TxPool

\* Account a sends a0, a1, a2 and a dearer version of a1; the local account b
\* sends b0 and b1, account c sends c0 and c1.
MCTxs == {"a0", "a1", "a1x", "a2", "b0", "b1", "c0", "c1"}
MCFrom == [t \in MCTxs |-> CASE t \in {"b0", "b1"} -> "b" [] t \in {"c0", "c1"} -> "c"
                             [] OTHER -> "a"]
MCNonce == [t \in MCTxs |-> CASE t \in {"a0", "b0", "c0"} -> 0 [] t = "a2" -> 2
                              [] OTHER -> 1]
MCPrice == [t \in MCTxs |-> CASE t \in {"a0", "c1"} -> 1 [] t \in {"a1", "b0"} -> 2
                              [] t = "a2" -> 3 [] t = "a1x" -> 4 [] OTHER -> 5]
MCCost == [t \in MCTxs |-> CASE t = "b0" -> 3 [] t = "a1" -> 2 [] t = "a1x" -> 4
                             [] OTHER -> 1]

\* Single transactions, and pairs in and out of the order of their nonces.
MCMessages == {<<t>> : t \in MCTxs}
  \cup {<<"a1", "a2">>, <<"a2", "a1x">>, <<"c0", "c1">>, <<"b1", "b0">>, <<"a0", "c1">>}

\* A branch p and a branch q of heavier blocks, so that the head goes to a lower,
\* an equal and a higher number.  b0 is on both and pays account a, which can
\* afford a1 only then.
MCBlocks == {"g", "p1", "p2", "q1", "q2", "q3"}
MCParent == [b \in MCBlocks |->
  CASE b = "g" -> "none" [] b \in {"p1", "q1"} -> "g" [] b = "p2" -> "p1"
    [] b = "q2" -> "q1" [] b = "q3" -> "q2"]
MCNumber == [b \in MCBlocks |->
  CASE b = "g" -> 0 [] b \in {"p1", "q1"} -> 1 [] b = "q3" -> 3 [] OTHER -> 2]
MCWeight == [b \in MCBlocks |->
  CASE b = "g" -> 1 [] b = "p1" -> 2 [] b = "p2" -> 3 [] b = "q1" -> 4 [] b = "q2" -> 5
    [] b = "q3" -> 6]
MCContent == [b \in MCBlocks |->
  CASE b = "p1" -> <<"b0">> [] b = "p2" -> <<"a0", "a1">> [] b = "q2" -> <<"c0">>
    [] b = "q3" -> <<"b0">> [] OTHER -> << >>]
MCStateNonce == [b \in MCBlocks |-> [x \in {"a", "b", "c"} |->
  CASE x = "a" -> IF b = "p2" THEN 2 ELSE 0
    [] x = "b" -> IF b \in {"p1", "p2", "q3"} THEN 1 ELSE 0
    [] x = "c" -> IF b \in {"q2", "q3"} THEN 1 ELSE 0]]
MCBalance == [b \in MCBlocks |-> [x \in {"a", "b", "c"} |->
  CASE x = "a" -> IF b \in {"p1", "q3"} THEN 4 ELSE 1
    [] x = "b" -> IF b \in {"p1", "p2", "q3"} THEN 1 ELSE 4
    [] x = "c" -> 2]]
=============================================================================
