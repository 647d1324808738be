---------------------------- MODULE MCTwampServer ----------------------------
EXTENDS TwampServer, TLC

Symmetry == Permutations(Conns) \cup Permutations(Sessions)
                \cup Permutations(SIDs) \cup Permutations(Ports)
====
