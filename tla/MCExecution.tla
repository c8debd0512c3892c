----------------------------- MODULE MCExecution -----------------------------
EXTENDS Execution

MCAddrs == {"a", "b", "e", "m"}

\* The account e has nothing in the genesis, and m is not in it.
MCKey == [a \in MCAddrs |-> CASE a = "a" -> <<0, 0, 0>> [] a = "e" -> <<0, 0, 1>>
                              [] a = "b" -> <<1, 0, 0>> [] a = "m" -> <<1, 1, 0>>]
MCAlloc == [a \in {"a", "b", "e"} |->
  [nonce |-> 0, balance |-> CASE a = "a" -> 9 [] a = "b" -> 4 [] a = "e" -> 0]]

\* a0 pays b, which can only then afford b0; a1 touches e, which is deleted; a1x
\* instead of it is too dear; b0x instead of b0 has too little gas.
MCTxs == {"a0", "a1", "a1x", "b0", "b0x"}
MCFrom == [t \in MCTxs |-> IF t \in {"b0", "b0x"} THEN "b" ELSE "a"]
MCTo == [t \in MCTxs |-> CASE t = "a0" -> "b" [] t = "a1" -> "e" [] OTHER -> "m"]
MCNonce == [t \in MCTxs |-> IF t \in {"a1", "a1x"} THEN 1 ELSE 0]
MCPrice == [t \in MCTxs |-> IF t = "b0" THEN 2 ELSE 1]
MCGas == [t \in MCTxs |-> CASE t = "a1" -> 3 [] t = "b0x" -> 1 [] OTHER -> 2]
MCValue == [t \in MCTxs |-> CASE t = "a1" -> 0 [] t = "a1x" -> 9 [] OTHER -> 1]
MCIntrinsic == [t \in MCTxs |-> 2]

MCPendings == {{}, {"a0", "a1"}, {"a0", "a1x", "b0"}, {"a1", "b0x"}}
=============================================================================
