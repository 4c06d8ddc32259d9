---------------------------- MODULE MCGafqString ----------------------------
EXTENDS GafqString, TLC
CONSTANTS xa, xb, xc

\* Two objects for the contents xa and xc, which share a bucket in every table but the
\* largest.

MCString == {<<xa, 1>>, <<xa, 2>>, <<xb, 1>>, <<xc, 1>>, <<xc, 2>>}
MCstr == [o \in MCString |-> o[1]]
MCHash == [x \in Content |-> CASE x = xa -> 0 [] x = xb -> 1 [] x = xc -> 2]
=============================================================================
