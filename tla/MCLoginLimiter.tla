--------------------------- MODULE MCLoginLimiter ---------------------------
EXTENDS LoginLimiter, TLC

CONSTANTS l1, l2

MCLogins == {l1, l2}
MCSymmetry == Permutations(MCLogins)

=============================================================================
