------------------------------ MODULE MCServer ------------------------------
(* One session and a proxy that vouches for another user; two requests,    *)
(* on two threads or one after the other on the same.                      *)
EXTENDS Server, TLC

CONSTANTS k1, r1, r2, t1, t2, alice, bob

MCTokens == {k1}
MCRequests == {r1, r2}
MCThreads == {t1, t2}
MCUsers == {alice, bob}

(* Without sign-ins there are only fewer behaviours.                       *)
MCConfigurations == {{"login"}, {"login", "proxyAuth"}}

MCSymmetry == Permutations(MCRequests) \union Permutations(MCThreads)
                \union Permutations(MCUsers)

=============================================================================
