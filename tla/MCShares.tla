------------------------------ MODULE MCShares ------------------------------
EXTENDS Shares, TLC

CONSTANTS u1, u2, t1, t2, c1, r1

MCSymmetry == Permutations({t1, t2}) \union Permutations({u1, u2})

=============================================================================
