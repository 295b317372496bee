--------------------------- MODULE MCSearchIndex ---------------------------
(* One user, and two kinds of files: those she may read as a member of a   *)
(* further group, and her own, which she may not.                          *)
EXTENDS SearchIndex

CONSTANTS f1, f2, i1, i2, i3, ticker, request, s1

MCFiles == {f1, f2}
MCSlots == {i1, i2, i3}
MCRebuilders == {ticker, request}

Alice == [uid |-> "alice", gid |-> "alice", groups |-> {"staff"}]
MCIdentities == {Alice}

Shared == [uid |-> "bob", gid |-> "staff", mode |-> {"group"}]
Hers == [uid |-> "alice", gid |-> "staff", mode |-> {"group"}]
MCStats == [f \in MCFiles |-> IF f = f1 THEN {Shared, Hers} ELSE {Shared}]

MCQueries == {{f1, f2}}

=============================================================================
