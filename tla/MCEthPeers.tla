----------------------------- MODULE MCEthPeers -----------------------------
EXTENDS EthPeers, TLC

NodeSymmetry == Permutations(Nodes)
=============================================================================
