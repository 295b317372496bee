---------------------------- MODULE MCThumbnails ----------------------------
EXTENDS Thumbnails, TLC

CONSTANTS u1, u2, r1, r2

(* Two times in one second and one in the next, and another size.          *)
MCStats == [mtime : 0 .. 2, size : {1}] \union {[mtime |-> 0, size |-> 2]}

MCSymmetry == Permutations({u1, u2}) \union Permutations({r1, r2})

=============================================================================
