-------------------------- MODULE MCImpersonation --------------------------
(* Three goroutines on two threads: one more than can run at a time, so    *)
(* threads are reused while another goroutine is parked inside As.         *)
EXTENDS Impersonation, TLC

CONSTANTS g1, g2, g3, t1, t2, alice, bob

MCGoroutines == {g1, g2, g3}
MCThreads == {t1, t2}
MCUsers == {alice, bob}

MCSymmetry == Permutations(MCGoroutines) \union Permutations(MCThreads)
                \union Permutations(MCUsers)

=============================================================================
