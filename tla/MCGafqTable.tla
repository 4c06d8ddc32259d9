----------------------------- MODULE MCGafqTable -----------------------------
EXTENDS GafqTable, TLC
CONSTANTS ka, kb, ko

\* The first word pairs of the doubles 1, 2, ... added up, as hashnum does, and
\* hashes that make 1, 3 and ko collide in a vector of four nodes, and ka and kb: their
\* main position is the one that getfreepos hands out first.
MCHash == [k \in Key |->
  CASE k = 0 -> 0
    [] k = 1 -> 1072693248 [] k = 2 -> 1073741824 [] k = 3 -> 1074266112
    [] k = 4 -> 1074790400 [] k = 5 -> 1075052544
    [] k = ka -> 3 [] k = kb -> 7 [] k = ko -> 0]
==============================================================================
