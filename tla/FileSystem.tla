----------------------------- MODULE FileSystem -----------------------------
(***************************************************************************)
(* What internal/fsops relies on the operating system for: a tree of       *)
(* directories, files and symbolic links, and the calls on it.  A call     *)
(* gives the tree after it, or Nil if it must fail.                        *)
(*                                                                         *)
(* Paths are absolute and clean, below the root of the sandbox; no link    *)
(* leads out of it.  A node keeps its identity when it is renamed, and its *)
(* data for those who have it open when it is removed.                     *)
(***************************************************************************)
EXTENDS FiniteSets, Naturals, Sequences, SequencesExt

CONSTANTS
    MaxNode,        \* nodes are numbered; a disk full of them is full
    MaxLinks,       \* links that are followed before a path is refused
    Empty,          \* the data of an empty file
    Nil

Node == 0 .. MaxNode

ASSUME FileSystemAssumption ==
    /\ MaxNode \in Nat /\ MaxLinks \in Nat
    /\ Nil \notin Node

Top == 0                        \* the root of the sandbox

Unused == [kind |-> "unused", in |-> Nil, name |-> Nil, data |-> Nil, target |-> <<>>]
Live(t) == {n \in Node : t[n].in # Nil}
Entries(t, d) == {n \in Node \ {Top} : t[n].in = d}
Spare(t) == {n \in Node : t[n] = Unused}

Entry(t, d, name) ==
    LET found == {n \in Entries(t, d) : t[n].name = name} IN
    IF found = {} THEN Nil ELSE CHOOSE n \in found : TRUE

(* The node a path names, following all links on the way and, if so asked, *)
(* at its end.  A walk there is at a node, with the rest of the path and   *)
(* of the links still to go.                                               *)
Walks == [links : 0 .. MaxLinks, at : Node, rest : Seq(STRING)]

Walk(t, path, follow) ==
    LET walk[w \in Walks] ==
            LET next == Entry(t, w.at, Head(w.rest)) IN
            IF w.rest = <<>> THEN w.at
            ELSE IF next = Nil THEN Nil
            ELSE IF t[next].kind # "link" \/ (~follow /\ Len(w.rest) = 1)
                 THEN walk[[links |-> w.links, at |-> next, rest |-> Tail(w.rest)]]
            ELSE IF w.links = 0 THEN Nil
            ELSE walk[[links |-> w.links - 1, at |-> Top,
                       rest |-> t[next].target \o Tail(w.rest)]]
    IN  walk[[links |-> MaxLinks, at |-> Top, rest |-> path]]

Stat(t, path) == Walk(t, path, TRUE)
Lstat(t, path) == Walk(t, path, FALSE)
IsDir(t, path) == LET n == Stat(t, path) IN n # Nil /\ t[n].kind = "dir"

PathOf(t, n) ==
    LET path[m \in Live(t)] == IF m = Top THEN <<>> ELSE Append(path[t[m].in], t[m].name)
    IN  path[n]

AtOrBelow(t, d, n) == IsPrefix(PathOf(t, d), PathOf(t, n))

(* A new node, where there is none of the name.                            *)
Add(t, path, kind, data) ==
    IF \/ path = <<>>
       \/ ~IsDir(t, Front(path))
       \/ Lstat(t, path) # Nil
       \/ Spare(t) = {}
    THEN Nil
    ELSE [t EXCEPT ![Min(Spare(t))] =
            [kind |-> kind, in |-> Stat(t, Front(path)), name |-> Last(path),
             data |-> data, target |-> <<>>]]

Mkdir(t, path) == Add(t, path, "dir", Nil)

(* os.OpenFile with O_CREATE|O_EXCL, and with O_CREATE|O_TRUNC.            *)
OpenNew(t, path) == Add(t, path, "file", Empty)
OpenTruncated(t, path) ==
    LET n == Stat(t, path) IN
    IF n = Nil THEN OpenNew(t, path)
    ELSE IF t[n].kind = "file" THEN [t EXCEPT ![n].data = Empty]
    ELSE Nil

(* Files, links and empty directories only.                                *)
Unlink(t, n) == [t EXCEPT ![n].in = Nil]

(* os.Rename: replaces a file or link by one, a directory never.           *)
RenameNode(t, from, to) ==
    LET n == Lstat(t, from)
        d == Stat(t, Front(to))
        old == Lstat(t, to)
    IN  IF n = Nil \/ ~IsDir(t, Front(to)) THEN Nil
        ELSE IF old = n THEN t
        ELSE IF \/ AtOrBelow(t, n, d)
                \/ old # Nil /\ "dir" \in {t[n].kind, t[old].kind}
             THEN Nil
        ELSE [m \in Node |-> IF m = n THEN [t[n] EXCEPT !.in = d, !.name = Last(to)]
                             ELSE IF m = old THEN Unlink(t, old)[old]
                             ELSE t[m]]
=============================================================================
