--------------------------- MODULE FileTreeProofs ---------------------------
(***************************************************************************)
(* Proofs about the operations on files, for any finite disk and any tree  *)
(* on it, any number of links that are followed, and any number of         *)
(* requests with any paths.                                                *)
(*                                                                         *)
(* The file system is defined by recursion over walks and over the nodes   *)
(* of a tree.  The first parts show by induction that these definitions    *)
(* mean what they say, and what the system calls do to a tree; the others  *)
(* that every step of a request leaves a tree, and what requests can rely  *)
(* on between their steps.                                                 *)
(***************************************************************************)
EXTENDS FileTree, Integers, WellFoundedInduction, SequenceTheorems, FiniteSetTheorems, TLAPS

-----------------------------------------------------------------------------
(* Recursion and induction over sets: a set closed under the steps is all of *)
(* them, so that no operator has to be passed to a theorem.                *)

(* What a recursive definition must have to define a function: where it    *)
(* halts, with which value, and a step that gets there from everywhere.    *)
Recursive(S, V, halt, value, step, then) ==
    /\ halt \in SUBSET S /\ value \in [halt -> V]
    /\ step \in [S \ halt -> S] /\ then \in [S \ halt -> [V -> V]]
    /\ \A T \in SUBSET S : T # {} => \E s \in T : s \in halt \/ step[s] \notin T

(* Then there is a function that satisfies the definition: the solutions on *)
(* parts of S agree, and no part is the last that has one.                 *)
LEMMA Recursion ==
    ASSUME NEW S, NEW V, NEW halt, NEW value, NEW step, NEW then,
           Recursive(S, V, halt, value, step, then)
    PROVE  \E f \in [S -> V] : \A s \in S :
                f[s] = IF s \in halt THEN value[s] ELSE then[s][f[step[s]]]
<1>. USE DEF Recursive
<1>. DEFINE Solves(D, g) ==
                /\ D \subseteq S /\ g \in [D -> V]
                /\ \A s \in D : IF s \in halt THEN g[s] = value[s]
                                ELSE step[s] \in D /\ g[s] = then[s][g[step[s]]]
            Solved == {s \in S : \E D \in SUBSET S : \E g \in [D -> V] : s \in D /\ Solves(D, g)}
<1>1. ASSUME NEW C, NEW D, NEW g, NEW h, Solves(C, g), Solves(D, h)
      PROVE  \A s \in C \cap D : g[s] = h[s]
  <2>. DEFINE T == {s \in C \cap D : g[s] # h[s]}
  <2>1. SUFFICES ASSUME T # {} PROVE FALSE OBVIOUS
  <2>2. PICK s \in T : s \in halt \/ step[s] \notin T BY <2>1, <1>1
  <2>. QED BY <2>2, <1>1
<1>2. Solved = S
  <2>1. SUFFICES ASSUME S \ Solved # {} PROVE FALSE OBVIOUS
  <2>2. PICK s \in S \ Solved : s \in halt \/ step[s] \in Solved
    <3>. DEFINE T == S \ Solved
    <3>1. T \in SUBSET S /\ T # {} BY <2>1
    <3>2. PICK s \in T : s \in halt \/ step[s] \notin T
      <4>. HIDE DEF T
      <4>. QED BY <3>1
    <3>3. s \notin halt => step[s] \in S OBVIOUS
    <3>. HIDE DEF Solved
    <3>. QED BY <3>2, <3>3
  <2>3. CASE s \in halt
    <3>. DEFINE g == [x \in {s} |-> value[s]]
    <3>1. Solves({s}, g) BY <2>3
    <3>. QED BY <3>1, <2>2
  <2>4. CASE s \notin halt
    <3>1. PICK D \in SUBSET S : \E g \in [D -> V] : step[s] \in D /\ Solves(D, g)
      BY <2>2, <2>4
    <3>2. PICK g \in [D -> V] : step[s] \in D /\ Solves(D, g) BY <3>1
    <3>. DEFINE h == [x \in D \union {s} |-> IF x \in D THEN g[x] ELSE then[s][g[step[s]]]]
    <3>3. h \in [D \union {s} -> V] BY <3>2, <2>4
    <3>4. Solves(D \union {s}, h) BY <3>2, <3>3, <2>4
    <3>. HIDE DEF Solves, h
    <3>5. D \union {s} \in SUBSET S OBVIOUS
    <3>6. s \in Solved BY <3>3, <3>4, <3>5
    <3>. QED BY <3>6, <2>2
  <2>. QED BY <2>3, <2>4
<1>. DEFINE G(s) == CHOOSE p \in UNION {[D -> V] : D \in SUBSET S} : 
                        \E D \in SUBSET S : p \in [D -> V] /\ s \in D /\ Solves(D, p)
            f == [s \in S |-> G(s)[s]]
<1>3. ASSUME NEW s \in S
      PROVE  \E D \in SUBSET S : G(s) \in [D -> V] /\ s \in D /\ Solves(D, G(s))
  <2>1. PICK D \in SUBSET S : \E g \in [D -> V] : s \in D /\ Solves(D, g)
    <3>1. s \in Solved
      <4>. HIDE DEF Solved
      <4>. QED BY <1>2
    <3>. HIDE DEF Solves
    <3>. QED BY <3>1
  <2>2. PICK g \in [D -> V] : s \in D /\ Solves(D, g) BY <2>1
  <2>. HIDE DEF Solves
  <2>3. g \in UNION {[C -> V] : C \in SUBSET S} OBVIOUS
  <2>. QED BY <2>2, <2>3
<1>4. f \in [S -> V]
  <2>1. ASSUME NEW s \in S PROVE G(s)[s] \in V
    <3>. HIDE DEF Solves, G
    <3>. QED BY <1>3
  <2>. HIDE DEF G
  <2>. QED BY <2>1
<1>5. ASSUME NEW s \in S
      PROVE  f[s] = IF s \in halt THEN value[s] ELSE then[s][f[step[s]]]
  <2>1. PICK D \in SUBSET S : G(s) \in [D -> V] /\ s \in D /\ Solves(D, G(s))
    BY <1>3
  <2>2. CASE s \in halt BY <2>1, <2>2
  <2>3. CASE s \notin halt
    <3>. DEFINE u == step[s]
    <3>1. u \in S /\ u \in D /\ G(s)[s] = then[s][G(s)[u]]
      BY <2>1, <2>3
    <3>2. PICK C \in SUBSET S : G(u) \in [C -> V] /\ u \in C /\ Solves(C, G(u))
      BY <1>3, <3>1
    <3>3. G(u)[u] = G(s)[u]
      <4>. HIDE DEF G, u, Solves, f
      <4>. QED BY <1>1, <2>1, <3>1, <3>2
    <3>4. f[s] = G(s)[s] /\ f[u] = G(u)[u]
      <4>. HIDE DEF G, u
      <4>. QED BY <3>1
    <3>. HIDE DEF G, f
    <3>. QED BY <3>1, <3>3, <3>4, <2>3
  <2>. QED BY <2>2, <2>3
<1>. HIDE DEF f
<1>. QED BY <1>4, <1>5

(* A set of numbers that is not empty has a least one.                     *)
LEMMA LeastNatural ==
    ASSUME NEW S, S \subseteq Nat, S # {}
    PROVE  \E m \in S : \A n \in S : m <= n
<1>1. PICK m \in S : \A n \in S : ~(<<n, m>> \in OpToRel(<, Nat))
    BY NatLessThanWellFounded, WFMin
<1>2. \A n \in S : ~(n < m) BY <1>1 DEF OpToRel
<1>. QED BY <1>2


(* What a walk does next: it passes an entry, or is led on by a link.      *)
Found(t, w) == Entry(t, w.at, Head(w.rest))

Passes(t, follow, w) ==
    /\ w.rest # <<>> /\ Found(t, w) # Nil
    /\ t[Found(t, w)].kind # "link" \/ (~follow /\ Len(w.rest) = 1)

Leads(t, follow, w) ==
    /\ w.rest # <<>> /\ Found(t, w) # Nil /\ w.links # 0
    /\ ~(t[Found(t, w)].kind # "link" \/ (~follow /\ Len(w.rest) = 1))

Passed(t, w) == [links |-> w.links, at |-> Found(t, w), rest |-> Tail(w.rest)]
Led(t, w) ==
    [links |-> w.links - 1, at |-> Top, rest |-> t[Found(t, w)].target \o Tail(w.rest)]

Start(path) == [links |-> MaxLinks, at |-> Top, rest |-> path]

Walking(t, follow, W) ==
    /\ W \in [Walks -> Node \union {Nil}]
    /\ \A path \in Places : Walk(t, path, follow) = W[Start(path)]
    /\ \A w \in Walks :
        W[w] = IF w.rest = <<>> THEN w.at
               ELSE IF Passes(t, follow, w) THEN W[Passed(t, w)]
               ELSE IF Leads(t, follow, w) THEN W[Led(t, w)]
               ELSE Nil

(* The entry of a name is a node in that directory and under that name, and *)
(* is there if there is such a node.                                       *)
LEMMA EntryType ==
    ASSUME NEW t, NEW d, NEW name
    PROVE  /\ Entry(t, d, name) # Nil =>
                /\ Entry(t, d, name) \in Node \ {Top}
                /\ t[Entry(t, d, name)].in = d
                /\ t[Entry(t, d, name)].name = name
           /\ \A n \in Node \ {Top} : t[n].in = d /\ t[n].name = name => Entry(t, d, name) # Nil
<1>. DEFINE found == {n \in Entries(t, d) : t[n].name = name}
<1>1. Entry(t, d, name) = IF found = {} THEN Nil ELSE CHOOSE n \in found : TRUE
  BY DEF Entry
<1>2. found # {} => (CHOOSE n \in found : TRUE) \in found OBVIOUS
<1>3. found = {n \in Node \ {Top} : t[n].in = d /\ t[n].name = name}
  BY DEF Entries
<1>. HIDE DEF found
<1>4. found # {} => Entry(t, d, name) \in found BY <1>1, <1>2
<1>5. Entry(t, d, name) # Nil <=> found # {}
  BY <1>1, <1>3, <1>4, FileSystemAssumption
<1>. QED BY <1>3, <1>4, <1>5

(* A step of a walk is a walk again.                                       *)
LEMMA WalksType ==
    ASSUME NEW t, Structured(t), NEW follow, NEW w \in Walks
    PROVE  /\ Passes(t, follow, w) => Passed(t, w) \in Walks
           /\ Leads(t, follow, w) => Led(t, w) \in Walks
<1>1. w.links \in 0 .. MaxLinks /\ w.at \in Node /\ w.rest \in Seq(STRING)
  BY DEF Walks
<1>2. w.rest # <<>> => Tail(w.rest) \in Seq(STRING)
  BY <1>1, HeadTailProperties
<1>3. Found(t, w) # Nil => Found(t, w) \in Node BY EntryType DEF Found
<1>4. Found(t, w) # Nil => t[Found(t, w)].target \in Seq(STRING)
  BY <1>3 DEF Structured, Nodes, Places
<1>5. Top \in Node BY FileSystemAssumption DEF Top, Node
<1>6. Passes(t, follow, w) => Passed(t, w) \in Walks
  BY <1>1, <1>2, <1>3 DEF Passes, Passed, Walks
<1>7. ASSUME Leads(t, follow, w) PROVE Led(t, w) \in Walks
  <2>1. t[Found(t, w)].target \o Tail(w.rest) \in Seq(STRING)
    BY <1>2, <1>4, <1>7, ConcatProperties DEF Leads
  <2>2. w.links - 1 \in 0 .. MaxLinks
    BY <1>1, <1>7, FileSystemAssumption DEF Leads
  <2>. QED BY <2>1, <2>2, <1>5 DEF Led, Walks
<1>. QED BY <1>6, <1>7

(* The order of walks: by the links that are left, then by the rest.       *)
LEMMA LeastWalk ==
    ASSUME NEW T \in SUBSET Walks, T # {}
    PROVE  \E w \in T : \A v \in T :
                w.links < v.links \/ (w.links = v.links /\ Len(w.rest) <= Len(v.rest))
<1>. DEFINE L == {w.links : w \in T}
<1>1. L \subseteq Nat /\ L # {} BY FileSystemAssumption DEF Walks
<1>2. PICK l \in L : \A k \in L : l <= k
  <2>. HIDE DEF L
  <2>. QED BY <1>1, LeastNatural
<1>. DEFINE R == {Len(w.rest) : w \in {v \in T : v.links = l}}
<1>3. R \subseteq Nat /\ R # {}
  <2>1. \A v \in T : Len(v.rest) \in Nat BY LenProperties DEF Walks
  <2>2. \E v \in T : v.links = l BY <1>2
  <2>. QED BY <2>1, <2>2
<1>4. PICK n \in R : \A k \in R : n <= k
  <2>. HIDE DEF R
  <2>. QED BY <1>3, LeastNatural
<1>5. PICK w \in T : w.links = l /\ Len(w.rest) = n BY <1>4
<1>6. ASSUME NEW v \in T PROVE w.links < v.links \/ (w.links = v.links /\ Len(w.rest) <= Len(v.rest))
  <2>1. v.links \in L /\ v.links \in Nat BY <1>1
  <2>2. l <= v.links /\ l \in Nat BY <1>1, <1>2, <2>1
  <2>3. v.links = l => n <= Len(v.rest) BY <1>4
  <2>. HIDE DEF L, R
  <2>. QED BY <2>1, <2>2, <2>3, <1>5
<1>. QED BY <1>6

(* Every step goes down in it,                                             *)
LEMMA WalkOrder ==
    ASSUME NEW t, Structured(t), NEW follow, NEW w \in Walks
    PROVE  /\ Passes(t, follow, w) =>
                Passed(t, w).links = w.links /\ Len(Passed(t, w).rest) < Len(w.rest)
           /\ Leads(t, follow, w) => Led(t, w).links < w.links
<1>1. w.links \in 0 .. MaxLinks /\ w.rest \in Seq(STRING) BY DEF Walks
<1>2. w.rest # <<>> => Len(Tail(w.rest)) = Len(w.rest) - 1
  BY <1>1, HeadTailProperties
<1>. QED BY <1>1, <1>2, FileSystemAssumption, LenProperties DEF Passes, Passed, Leads, Led

(* and so what is passed on from step to step holds of every walk.         *)
LEMMA WalkInduction ==
    ASSUME NEW t, Structured(t), NEW follow, NEW P \in SUBSET Walks,
           \A w \in Walks :
                /\ Passes(t, follow, w) => Passed(t, w) \in P
                /\ Leads(t, follow, w) => Led(t, w) \in P
                => w \in P
    PROVE  P = Walks
<1>. DEFINE T == Walks \ P
<1>1. SUFFICES ASSUME T # {} PROVE FALSE OBVIOUS
<1>2. PICK w \in T : \A v \in T :
            w.links < v.links \/ (w.links = v.links /\ Len(w.rest) <= Len(v.rest))
  <2>1. T \in SUBSET Walks OBVIOUS
  <2>. HIDE DEF T
  <2>. QED BY <1>1, <2>1, LeastWalk
<1>3. Passes(t, follow, w) => Passed(t, w) \in P
  <2>1. SUFFICES ASSUME Passes(t, follow, w), Passed(t, w) \notin P PROVE FALSE
    OBVIOUS
  <2>2. Passed(t, w) \in T BY <2>1, WalksType
  <2>3. Passed(t, w).links = w.links /\ Len(Passed(t, w).rest) < Len(w.rest)
    BY <2>1, WalkOrder
  <2>4. Len(w.rest) \in Nat /\ w.links \in Nat
    BY FileSystemAssumption DEF Walks
  <2>5. Len(Passed(t, w).rest) \in Nat BY <2>2 DEF Walks
  <2>. HIDE DEF T
  <2>. QED BY <1>2, <2>2, <2>3, <2>4, <2>5
<1>4. Leads(t, follow, w) => Led(t, w) \in P
  <2>1. SUFFICES ASSUME Leads(t, follow, w), Led(t, w) \notin P PROVE FALSE
    OBVIOUS
  <2>2. Led(t, w) \in T BY <2>1, WalksType
  <2>3. Led(t, w).links < w.links BY <2>1, WalkOrder
  <2>4. Led(t, w).links \in Nat /\ w.links \in Nat
    BY <2>2, FileSystemAssumption DEF Walks
  <2>. HIDE DEF T
  <2>. QED BY <1>2, <2>2, <2>3, <2>4
<1>. QED BY <1>3, <1>4

(* The function of Walk satisfies the equation that defines it.            *)
Body(t, follow, W, w) ==
    LET next == Entry(t, w.at, Head(w.rest)) IN
    IF w.rest = <<>> THEN w.at
    ELSE IF next = Nil THEN Nil
    ELSE IF t[next].kind # "link" \/ (~follow /\ Len(w.rest) = 1)
         THEN W[[links |-> w.links, at |-> next, rest |-> Tail(w.rest)]]
    ELSE IF w.links = 0 THEN Nil
    ELSE W[[links |-> w.links - 1, at |-> Top,
            rest |-> t[next].target \o Tail(w.rest)]]

(* One step of a walk, by the four things that can come of it.             *)
LEMMA BodyCases ==
    ASSUME NEW t, NEW follow, NEW W, NEW w
    PROVE  Body(t, follow, W, w) =
                IF w.rest = <<>> THEN w.at
                ELSE IF Passes(t, follow, w) THEN W[Passed(t, w)]
                ELSE IF Leads(t, follow, w) THEN W[Led(t, w)]
                ELSE Nil
BY DEF Body, Passes, Passed, Leads, Led, Found

(* Walk is the value of any function that goes the steps.                  *)
LEMMA WalkDef ==
    ASSUME NEW t, Structured(t), NEW follow
    PROVE  \E W : Walking(t, follow, W)
<1>. DEFINE V == Node \union {Nil}
            goesOn(w) == Passes(t, follow, w) \/ Leads(t, follow, w)
            halt == {w \in Walks : ~goesOn(w)}
            value == [w \in halt |-> IF w.rest = <<>> THEN w.at ELSE Nil]
            step == [w \in Walks \ halt |->
                        IF Passes(t, follow, w) THEN Passed(t, w) ELSE Led(t, w)]
            then == [w \in Walks \ halt |-> [v \in V |-> v]]
            W == CHOOSE W : W = [w \in Walks |-> Body(t, follow, W, w)]
<1>1. \E f \in [Walks -> V] : \A w \in Walks :
            f[w] = IF w \in halt THEN value[w] ELSE then[w][f[step[w]]]
  <2>1. halt \in SUBSET Walks OBVIOUS
  <2>2. value \in [halt -> V] BY DEF Walks
  <2>3. step \in [Walks \ halt -> Walks] BY WalksType
  <2>4. then \in [Walks \ halt -> [V -> V]] OBVIOUS
  <2>5. ASSUME NEW T \in SUBSET Walks, T # {}
        PROVE  \E w \in T : w \in halt \/ step[w] \notin T
    <3>1. SUFFICES ASSUME \A w \in T : w \notin halt /\ step[w] \in T PROVE FALSE
      OBVIOUS
    <3>. DEFINE P == Walks \ T
    <3>2. ASSUME NEW w \in Walks,
                 Passes(t, follow, w) => Passed(t, w) \in P,
                 Leads(t, follow, w) => Led(t, w) \in P
          PROVE  w \in P
      <4>1. CASE w \in halt BY <3>1, <4>1
      <4>2. CASE w \notin halt
        <5>1. step[w] \notin T BY <3>2, <4>2
        <5>. HIDE DEF step
        <5>. QED BY <5>1, <3>1
      <4>. QED BY <4>1, <4>2
    <3>3. P = Walks
      <4>1. P \in SUBSET Walks OBVIOUS
      <4>. HIDE DEF P
      <4>. QED BY <3>2, <4>1, WalkInduction
    <3>. QED BY <3>3, <2>5
  <2>6. \A T \in SUBSET Walks : T # {} => \E w \in T : w \in halt \/ step[w] \notin T
    <3>. HIDE DEF halt, step
    <3>. QED BY <2>5
  <2>. HIDE DEF halt, value, step, then, V
  <2>7. Recursive(Walks, V, halt, value, step, then)
    BY <2>1, <2>2, <2>3, <2>4, <2>6 DEF Recursive
  <2>. QED BY <2>7, Recursion
<1>2. PICK f \in [Walks -> V] : \A w \in Walks :
            f[w] = IF w \in halt THEN value[w] ELSE then[w][f[step[w]]]
  BY <1>1
<1>3. f = [w \in Walks |-> Body(t, follow, f, w)]
  <2>1. ASSUME NEW w \in Walks PROVE f[w] = Body(t, follow, f, w)
    <3>1. CASE w \in halt
      <4>1. f[w] = IF w.rest = <<>> THEN w.at ELSE Nil BY <1>2, <3>1
      <4>2. ~Passes(t, follow, w) /\ ~Leads(t, follow, w) BY <3>1
      <4>. QED BY <4>1, <4>2, BodyCases
    <3>2. CASE w \notin halt
      <4>1. step[w] \in Walks /\ step[w] = IF Passes(t, follow, w) THEN Passed(t, w) ELSE Led(t, w)
        BY <3>2, WalksType
      <4>2. f[w] = then[w][f[step[w]]] BY <1>2, <3>2
      <4>3. then[w] = [v \in V |-> v] BY <3>2
      <4>4. f[step[w]] \in V BY <4>1
      <4>5. f[w] = f[step[w]]
        <5>. HIDE DEF step, V, halt, then
        <5>. QED BY <4>2, <4>3, <4>4
      <4>6. w.rest # <<>> /\ (Passes(t, follow, w) \/ Leads(t, follow, w))
        BY <3>2 DEF Passes, Leads
      <4>. HIDE DEF step
      <4>. QED BY <4>1, <4>5, <4>6, BodyCases
    <3>. QED BY <3>1, <3>2
  <2>. QED BY <2>1, <1>2
<1>4. W = [w \in Walks |-> Body(t, follow, W, w)] BY <1>3
<1>5. \A path : Walk(t, path, follow) = W[Start(path)]
  BY DEF Walk, Body, Start
<1>. HIDE DEF W
<1>6. \A w \in Walks : W[w] = Body(t, follow, W, w) BY <1>4
<1>7. W \in [Walks -> V]
  <2>. DEFINE P == {w \in Walks : W[w] \in V}
  <2>1. ASSUME NEW w \in Walks,
               Passes(t, follow, w) => Passed(t, w) \in P,
               Leads(t, follow, w) => Led(t, w) \in P
        PROVE  w \in P
    <3>1. w.rest = <<>> => W[w] \in V BY <1>6, BodyCases DEF Walks
    <3>2. W[w] \in V BY <2>1, <1>6, BodyCases, <3>1
    <3>. QED BY <3>2
  <2>2. P = Walks
    <3>1. P \in SUBSET Walks OBVIOUS
    <3>. HIDE DEF P
    <3>. QED BY <2>1, <3>1, WalkInduction
  <2>. QED BY <2>2, <1>4
<1>. QED BY <1>5, <1>6, <1>7, BodyCases DEF Walking

-----------------------------------------------------------------------------
(* Trees: every node is reached from the root by its names.                *)

(* The invariant of the tree: what Structured and Acyclic say together.    *)
Tree(t) == Structured(t) /\ Acyclic(t)

(* The root is there.                                                      *)
LEMMA TopLive ==
    ASSUME NEW t, Structured(t)
    PROVE  Top \in Live(t) /\ Top \in Node /\ Top # Nil
<1>1. Top \in Node BY FileSystemAssumption DEF Top, Node
<1>. QED BY <1>1, FileSystemAssumption DEF Structured, Live

(* A node is the entry of its name in its directory.                       *)
LEMMA EntryOf ==
    ASSUME NEW t, Structured(t), NEW n \in Live(t) \ {Top}
    PROVE  Entry(t, t[n].in, t[n].name) = n
<1>. DEFINE m == Entry(t, t[n].in, t[n].name)
<1>1. n \in Node \ {Top} BY DEF Live
<1>2. m # Nil BY <1>1, EntryType
<1>3. m \in Node \ {Top} /\ t[m].in = t[n].in /\ t[m].name = t[n].name
  BY <1>2, EntryType
<1>4. m \in Entries(t, t[n].in) BY <1>3 DEF Entries
<1>. QED BY <1>3, <1>4 DEF Structured

(* An entry is a node that is there, and not the root.                     *)
LEMMA EntryLive ==
    ASSUME NEW t, NEW d \in Node, NEW name, Entry(t, d, name) # Nil
    PROVE  Entry(t, d, name) \in Live(t) \ {Top}
BY EntryType, FileSystemAssumption DEF Live

(* What goes from every directory to its entries holds of every node.      *)
LEMMA TreeInduction ==
    ASSUME NEW t, Tree(t), NEW P \in SUBSET Live(t), Top \in P,
           \A n \in Live(t) \ {Top} : t[n].in \in P => n \in P
    PROVE  P = Live(t)
<1>. DEFINE S == Live(t) \ P
<1>1. SUFFICES ASSUME S # {} PROVE FALSE OBVIOUS
<1>2. S \in SUBSET (Live(t) \ {Top}) OBVIOUS
<1>3. PICK n \in S : t[n].in \notin S
  <2>. HIDE DEF S
  <2>. QED BY <1>1, <1>2 DEF Tree, Acyclic
<1>4. n \in Live(t) \ {Top} /\ t[n].in \in Live(t)
  BY <1>2 DEF Tree, Structured
<1>. QED BY <1>3, <1>4

(* PathOf satisfies the equation that defines it, and gives a path.        *)
LEMMA PathDef ==
    ASSUME NEW t, Tree(t)
    PROVE  /\ PathOf(t, Top) = <<>>
           /\ \A n \in Live(t) \ {Top} :
                PathOf(t, n) = Append(PathOf(t, t[n].in), t[n].name)
           /\ \A n \in Live(t) : PathOf(t, n) \in Places
<1>. DEFINE S == Live(t)
            V == Places
            halt == {Top}
            value == [n \in halt |-> <<>>]
            step == [n \in S \ halt |-> t[n].in]
            then == [n \in S \ halt |-> [p \in V |-> Append(p, t[n].name)]]
            path == CHOOSE path :
                path = [m \in Live(t) |-> IF m = Top THEN <<>> ELSE Append(path[t[m].in], t[m].name)]
<1>0. Structured(t) BY DEF Tree
<1>1. Recursive(S, V, halt, value, step, then)
  <2>1. halt \in SUBSET S BY <1>0, TopLive
  <2>2. value \in [halt -> V] BY DEF Places
  <2>3. step \in [S \ halt -> S] BY <1>0 DEF Structured
  <2>4. ASSUME NEW n \in S \ halt, NEW p \in V PROVE Append(p, t[n].name) \in V
    BY <1>0, AppendProperties DEF Structured, Places
  <2>5. then \in [S \ halt -> [V -> V]] BY <2>4
  <2>6. ASSUME NEW T \in SUBSET S, T # {}, \A n \in T : n \notin halt /\ step[n] \in T
        PROVE  FALSE
    <3>1. T \in SUBSET (Live(t) \ {Top}) BY <2>6
    <3>2. \A n \in T : step[n] = t[n].in BY <3>1
    <3>. HIDE DEF step
    <3>. QED BY <2>6, <3>1, <3>2 DEF Tree, Acyclic
  <2>7. \A T \in SUBSET S : T # {} => \E n \in T : n \in halt \/ step[n] \notin T
    <3>. HIDE DEF S, halt, step
    <3>. QED BY <2>6
  <2>. HIDE DEF S, V, halt, value, step, then
  <2>. QED BY <2>1, <2>2, <2>3, <2>5, <2>7 DEF Recursive
<1>2. PICK f \in [S -> V] : \A n \in S :
            f[n] = IF n \in halt THEN value[n] ELSE then[n][f[step[n]]]
  <2>. HIDE DEF S, V, halt, value, step, then
  <2>. QED BY <1>1, Recursion
<1>3. f = [m \in Live(t) |-> IF m = Top THEN <<>> ELSE Append(f[t[m].in], t[m].name)]
  <2>1. ASSUME NEW n \in S PROVE f[n] = IF n = Top THEN <<>> ELSE Append(f[t[n].in], t[n].name)
    <3>1. CASE n = Top BY <1>2, <3>1
    <3>2. CASE n # Top
      <4>1. f[n] = then[n][f[step[n]]] /\ step[n] = t[n].in
        BY <1>2, <3>2
      <4>2. t[n].in \in S BY <1>0, <3>2 DEF Structured
      <4>3. f[t[n].in] \in V BY <4>2
      <4>4. then[n] = [p \in V |-> Append(p, t[n].name)] BY <3>2
      <4>. HIDE DEF then, step, V
      <4>. QED BY <4>1, <4>3, <4>4, <3>2
    <3>. QED BY <3>1, <3>2
  <2>. QED BY <2>1, <1>2
<1>4. path = [m \in Live(t) |-> IF m = Top THEN <<>> ELSE Append(path[t[m].in], t[m].name)]
  BY <1>3
<1>5. \A n : PathOf(t, n) = path[n] BY DEF PathOf
<1>. HIDE DEF path
<1>6. \A n \in Live(t) :
        PathOf(t, n) = IF n = Top THEN <<>> ELSE Append(PathOf(t, t[n].in), t[n].name)
  BY <1>4, <1>5
<1>7. \A n \in Live(t) : PathOf(t, n) \in Places
  <2>. DEFINE P == {n \in Live(t) : PathOf(t, n) \in Places}
  <2>1. Top \in P
    <3>1. PathOf(t, Top) = <<>> /\ Top \in Live(t)
      BY <1>0, <1>6, TopLive
    <3>2. <<>> \in Places BY DEF Places
    <3>. QED BY <3>1, <3>2
  <2>2. ASSUME NEW n \in Live(t) \ {Top}, t[n].in \in P PROVE n \in P
    <3>1. PathOf(t, n) = Append(PathOf(t, t[n].in), t[n].name) BY <1>6
    <3>2. PathOf(t, t[n].in) \in Places BY <2>2
    <3>3. t[n].name \in STRING BY <1>0 DEF Structured
    <3>4. PathOf(t, n) \in Places
      BY <3>1, <3>2, <3>3, AppendProperties DEF Places
    <3>. QED BY <3>4
  <2>3. P = Live(t)
    <3>1. P \in SUBSET Live(t) OBVIOUS
    <3>. HIDE DEF P
    <3>. QED BY <2>1, <2>2, <3>1, TreeInduction
  <2>. QED BY <2>3
<1>. QED BY <1>0, <1>6, <1>7, TopLive

(* A sequence with an element put before it.                               *)
LEMMA ConsProperties ==
    ASSUME NEW S, NEW x \in S, NEW s \in Seq(S)
    PROVE  /\ <<x>> \o s \in Seq(S) /\ <<x>> \o s # <<>>
           /\ Head(<<x>> \o s) = x /\ Tail(<<x>> \o s) = s
<1>1. <<x>> \in Seq(S) /\ Len(<<x>>) = 1 OBVIOUS
<1>2. <<x>> \o s \in Seq(S) /\ Len(<<x>> \o s) = Len(s) + 1
      /\ \A i \in 1 .. Len(s) + 1 : (<<x>> \o s)[i] = IF i <= 1 THEN x ELSE s[i - 1]
  BY <1>1, ConcatProperties
<1>3. <<x>> \o s # <<>> /\ Head(<<x>> \o s) = x BY <1>2, LenProperties
<1>4. Tail(<<x>> \o s) = s
  <2>1. Tail(<<x>> \o s) \in Seq(S) /\ Len(Tail(<<x>> \o s)) = Len(s)
        /\ \A i \in 1 .. Len(s) : Tail(<<x>> \o s)[i] = (<<x>> \o s)[i + 1]
    BY <1>2, <1>3, HeadTailProperties, LenProperties
  <2>2. \A i \in 1 .. Len(s) : Tail(<<x>> \o s)[i] = s[i]
    BY <1>2, <2>1, LenProperties
  <2>. QED BY <2>1, <2>2, SeqEqual
<1>. QED BY <1>2, <1>3, <1>4

(* A path that begins with that of a node goes on from this node.          *)
At(n, rest) == [links |-> MaxLinks, at |-> n, rest |-> rest]

(* A walk along the path of a node comes to that node with what is left.   *)
LEMMA WalkOn ==
    ASSUME NEW t, Tree(t), NEW follow, NEW W, Walking(t, follow, W),
           NEW n \in Live(t), t[n].kind # "link", NEW rest \in Places
    PROVE  W[Start(PathOf(t, n) \o rest)] = W[At(n, rest)]
<1>. DEFINE P == {m \in Live(t) : t[m].kind # "link" =>
                    \A r \in Places : W[Start(PathOf(t, m) \o r)] = W[At(m, r)]}
<1>0. Structured(t) BY DEF Tree
<1>1. Top \in P
  BY <1>0, TopLive, PathDef, ConcatEmptySeq DEF Start, At, Places
<1>2. ASSUME NEW m \in Live(t) \ {Top}, t[m].in \in P PROVE m \in P
  <2>1. SUFFICES ASSUME t[m].kind # "link", NEW r \in Places
                 PROVE  W[Start(PathOf(t, m) \o r)] = W[At(m, r)]
    OBVIOUS
  <2>. DEFINE d == t[m].in
              x == t[m].name
              w == At(d, <<x>> \o r)
  <2>2. d \in Live(t) /\ t[d].kind = "dir" /\ x \in STRING
    BY <1>0 DEF Structured
  <2>3. PathOf(t, m) = Append(PathOf(t, d), x) /\ PathOf(t, d) \in Places
    BY PathDef, <2>2
  <2>4. <<x>> \o r \in Places /\ <<x>> \o r # <<>> /\ Head(<<x>> \o r) = x /\ Tail(<<x>> \o r) = r
    BY <2>2, ConsProperties DEF Places
  <2>5. PathOf(t, m) \o r = PathOf(t, d) \o (<<x>> \o r)
    <3>1. Append(PathOf(t, d), x) = PathOf(t, d) \o <<x>>
      BY <2>2, <2>3, AppendIsConcat DEF Places
    <3>2. <<x>> \in Seq(STRING) BY <2>2
    <3>. QED BY <2>3, <3>1, <3>2, ConcatAssociative DEF Places
  <2>6. W[Start(PathOf(t, m) \o r)] = W[w] BY <1>2, <2>2, <2>4, <2>5
  <2>7. w \in Walks /\ w.rest = <<x>> \o r /\ w.at = d /\ w.links = MaxLinks
    BY <2>2, <2>4, FileSystemAssumption DEF Walks, At, Live, Places
  <2>8. Found(t, w) = m BY <1>0, <2>4, <2>7, EntryOf DEF Found
  <2>9. m # Nil BY FileSystemAssumption DEF Live
  <2>10. Passes(t, follow, w)
    BY <2>1, <2>4, <2>7, <2>8, <2>9 DEF Passes
  <2>11. Passed(t, w) = At(m, r) BY <2>4, <2>7, <2>8 DEF Passed, At
  <2>12. W[w] = W[Passed(t, w)] BY <2>4, <2>7, <2>10 DEF Walking
  <2>. QED BY <2>6, <2>11, <2>12
<1>3. P = Live(t)
  <2>1. P \in SUBSET Live(t) OBVIOUS
  <2>. HIDE DEF P
  <2>. QED BY <1>1, <1>2, <2>1, TreeInduction
<1>. QED BY <1>3

(* The path of the root has no names.                                      *)
LEMMA Nowhere == <<>> \in Places
BY DEF Places

(* Both ways to walk, as values the provers need not look into.            *)
Through == TRUE
UpTo == FALSE

(* Stat and Lstat, by the functions that go their steps.                   *)
LEMMA BothWalks ==
    ASSUME NEW t, Structured(t)
    PROVE  /\ \E S : Walking(t, Through, S)
           /\ \E L : Walking(t, UpTo, L)
           /\ \A S : Walking(t, Through, S) => \A path \in Places : Stat(t, path) = S[Start(path)]
           /\ \A L : Walking(t, UpTo, L) => \A path \in Places : Lstat(t, path) = L[Start(path)]
           /\ \A w : Passes(t, Through, w) <=>
                /\ w.rest # <<>> /\ Found(t, w) # Nil
                /\ t[Found(t, w)].kind # "link"
           /\ \A w : Passes(t, UpTo, w) <=>
                /\ w.rest # <<>> /\ Found(t, w) # Nil
                /\ t[Found(t, w)].kind # "link" \/ Len(w.rest) = 1
           /\ \A w : Leads(t, Through, w) <=>
                /\ w.rest # <<>> /\ Found(t, w) # Nil /\ w.links # 0
                /\ t[Found(t, w)].kind = "link"
           /\ \A w : Leads(t, UpTo, w) <=>
                /\ w.rest # <<>> /\ Found(t, w) # Nil /\ w.links # 0
                /\ t[Found(t, w)].kind = "link" /\ Len(w.rest) # 1
<1>1. \E S : Walking(t, Through, S) BY WalkDef
<1>2. \E L : Walking(t, UpTo, L) BY WalkDef
<1>3. \A path : Stat(t, path) = Walk(t, path, Through) /\ Lstat(t, path) = Walk(t, path, UpTo)
  BY DEF Stat, Lstat, Through, UpTo
<1>4. \A w : Passes(t, Through, w) <=>
                /\ w.rest # <<>> /\ Found(t, w) # Nil
                /\ t[Found(t, w)].kind # "link"
  BY DEF Passes, Through
<1>5. \A w : Passes(t, UpTo, w) <=>
                /\ w.rest # <<>> /\ Found(t, w) # Nil
                /\ t[Found(t, w)].kind # "link" \/ Len(w.rest) = 1
  BY DEF Passes, UpTo
<1>6. \A w : Leads(t, Through, w) <=>
                /\ w.rest # <<>> /\ Found(t, w) # Nil /\ w.links # 0
                /\ t[Found(t, w)].kind = "link"
  BY DEF Leads, Through
<1>7. \A w : Leads(t, UpTo, w) <=>
                /\ w.rest # <<>> /\ Found(t, w) # Nil /\ w.links # 0
                /\ t[Found(t, w)].kind = "link" /\ Len(w.rest) # 1
  BY DEF Leads, UpTo
<1>. QED BY <1>1, <1>2, <1>3, <1>4, <1>5, <1>6, <1>7 DEF Walking

(* A walk begins as a walk.                                                *)
LEMMA StartType ==
    ASSUME NEW path \in Places
    PROVE  Start(path) \in Walks
BY FileSystemAssumption DEF Start, Walks, Places, Top, Node

(* A walk from a node is one.                                              *)
LEMMA AtType ==
    ASSUME NEW n \in Node, NEW rest \in Places
    PROVE  At(n, rest) \in Walks
BY FileSystemAssumption DEF At, Walks, Places

(* A node is found by its path, and this is what makes a tree wellformed.  *)
LEMMA NodeFound ==
    ASSUME NEW t, Tree(t), NEW n \in Live(t)
    PROVE  /\ Lstat(t, PathOf(t, n)) = n
           /\ t[n].kind # "link" => Stat(t, PathOf(t, n)) = n
<1>0. Structured(t) /\ n \in Node /\ PathOf(t, n) \in Places
  BY PathDef DEF Tree, Live
<1>1. ASSUME NEW follow, NEW W, Walking(t, follow, W), NEW m \in Live(t), t[m].kind # "link"
      PROVE  W[Start(PathOf(t, m))] = m
  <2>1. PathOf(t, m) \in Places /\ m \in Node BY PathDef DEF Live
  <2>2. PathOf(t, m) \o <<>> = PathOf(t, m)
    BY <2>1, ConcatEmptySeq DEF Places
  <2>6. \A rest \in Places : W[Start(PathOf(t, m) \o rest)] = W[At(m, rest)]
    BY <1>1, WalkOn
  <2>5. W[Start(PathOf(t, m) \o <<>>)] = W[At(m, <<>>)]
    BY <2>6, Nowhere
  <2>3. W[Start(PathOf(t, m))] = W[At(m, <<>>)] BY <2>2, <2>5
  <2>4. At(m, <<>>) \in Walks /\ At(m, <<>>).rest = <<>> /\ At(m, <<>>).at = m
    BY <2>1, AtType, Nowhere DEF At
  <2>. QED BY <1>1, <2>3, <2>4 DEF Walking
<1>2. PICK S : Walking(t, Through, S) BY <1>0, BothWalks
<1>3. PICK L : Walking(t, UpTo, L) BY <1>0, BothWalks
<1>4. t[n].kind # "link" => Stat(t, PathOf(t, n)) = n /\ Lstat(t, PathOf(t, n)) = n
  BY <1>0, <1>1, <1>2, <1>3, BothWalks
<1>5. CASE t[n].kind = "link"
  <2>. DEFINE d == t[n].in
              x == t[n].name
              w == At(d, <<x>>)
  <2>1. n # Top /\ d \in Live(t) /\ t[d].kind = "dir" /\ x \in STRING /\ d \in Node
    BY <1>0, <1>5 DEF Structured, Live
  <2>2. PathOf(t, n) = Append(PathOf(t, d), x) /\ PathOf(t, d) \in Places
    BY <2>1, PathDef
  <2>3. <<x>> \in Places /\ Head(<<x>>) = x /\ Tail(<<x>>) = <<>> /\ Len(<<x>>) = 1 /\ <<x>> # <<>>
    BY <2>1 DEF Places
  <2>4. PathOf(t, n) = PathOf(t, d) \o <<x>>
    BY <2>1, <2>2, AppendIsConcat DEF Places
  <2>5. L[Start(PathOf(t, n))] = L[w]
    <3>1. L[Start(PathOf(t, d) \o <<x>>)] = L[At(d, <<x>>)]
      BY <1>3, <2>1, <2>3, WalkOn
    <3>. QED BY <3>1, <2>4
  <2>6. w \in Walks /\ w.rest = <<x>> /\ w.at = d /\ w.links = MaxLinks
    BY <2>1, <2>3, AtType DEF At
  <2>7. Found(t, w) = n /\ n # Nil
    BY <1>0, <2>1, <2>3, <2>6, EntryOf, FileSystemAssumption DEF Found
  <2>8. Passes(t, UpTo, w) BY <1>0, <2>3, <2>6, <2>7, BothWalks
  <2>9. Passed(t, w) = At(n, <<>>) BY <2>3, <2>6, <2>7 DEF Passed, At
  <2>10. L[w] = L[At(n, <<>>)]
    BY <1>3, <2>3, <2>6, <2>8, <2>9 DEF Walking
  <2>11. At(n, <<>>) \in Walks /\ At(n, <<>>).rest = <<>> /\ At(n, <<>>).at = n
    BY <1>0, AtType, Nowhere DEF At
  <2>12. L[At(n, <<>>)] = n BY <1>3, <2>11 DEF Walking
  <2>. QED BY <1>0, <1>3, <1>5, <2>5, <2>10, <2>12, BothWalks
<1>. QED BY <1>4, <1>5

(* A tree is well formed, that is every node is found by its path.         *)
LEMMA TreeWellformed ==
    ASSUME NEW t, Tree(t)
    PROVE  Wellformed(t)
BY NodeFound DEF Wellformed, Tree

(* What is found is there, and if links are followed it is none.           *)
NoLinks(t, follow) == \A w \in Walks : Passes(t, follow, w) => t[Found(t, w)].kind # "link"

(* What a walk finds is there, and is no link if links are followed.       *)
LEMMA WalkLive ==
    ASSUME NEW t, Structured(t), NEW follow, NEW W, Walking(t, follow, W), NEW w \in Walks,
           w.at \in Live(t), W[w] # Nil
    PROVE  /\ W[w] \in Live(t)
           /\ NoLinks(t, follow) /\ t[w.at].kind # "link" => t[W[w]].kind # "link"
<1>. DEFINE P == {v \in Walks : v.at \in Live(t) /\ W[v] # Nil =>
                    /\ W[v] \in Live(t)
                    /\ NoLinks(t, follow) /\ t[v.at].kind # "link" => t[W[v]].kind # "link"}
<1>1. ASSUME NEW v \in Walks,
             Passes(t, follow, v) => Passed(t, v) \in P,
             Leads(t, follow, v) => Led(t, v) \in P
      PROVE  v \in P
  <2>1. SUFFICES ASSUME v.at \in Live(t), W[v] # Nil
                 PROVE  /\ W[v] \in Live(t)
                        /\ NoLinks(t, follow) /\ t[v.at].kind # "link" => t[W[v]].kind # "link"
    OBVIOUS
  <2>2. CASE v.rest = <<>> BY <2>1, <2>2 DEF Walking
  <2>3. CASE v.rest # <<>> /\ Passes(t, follow, v)
    <3>1. W[v] = W[Passed(t, v)] BY <2>3 DEF Walking
    <3>2. Found(t, v) \in Live(t) /\ Passed(t, v).at = Found(t, v)
      BY <2>1, <2>3, EntryLive DEF Passes, Passed, Found, Live
    <3>3. NoLinks(t, follow) => t[Passed(t, v).at].kind # "link"
      BY <2>3, <3>2 DEF NoLinks
    <3>. QED BY <1>1, <2>1, <2>3, <3>1, <3>2, <3>3
  <2>4. CASE v.rest # <<>> /\ ~Passes(t, follow, v)
    <3>1. Leads(t, follow, v) /\ W[v] = W[Led(t, v)]
      BY <2>1, <2>4 DEF Walking
    <3>2. Led(t, v).at \in Live(t) /\ t[Led(t, v).at].kind # "link"
      BY TopLive DEF Led, Structured
    <3>. QED BY <1>1, <2>1, <3>1, <3>2
  <2>. QED BY <2>2, <2>3, <2>4
<1>2. P = Walks
  <2>1. P \in SUBSET Walks OBVIOUS
  <2>. HIDE DEF P
  <2>. QED BY <1>1, <2>1, WalkInduction
<1>. QED BY <1>2

(* So it is with what Stat and Lstat find.                                 *)
LEMMA StatLive ==
    ASSUME NEW t, Structured(t), NEW path \in Places
    PROVE  /\ Stat(t, path) # Nil => Stat(t, path) \in Live(t) /\ t[Stat(t, path)].kind # "link"
           /\ Lstat(t, path) # Nil => Lstat(t, path) \in Live(t)
<1>1. PICK S : Walking(t, Through, S) BY BothWalks
<1>2. PICK L : Walking(t, UpTo, L) BY BothWalks
<1>3. Start(path) \in Walks /\ Start(path).at = Top
  BY StartType DEF Start
<1>4. Top \in Live(t) /\ t[Top].kind # "link"
  BY TopLive DEF Structured
<1>5. Stat(t, path) = S[Start(path)] /\ Lstat(t, path) = L[Start(path)]
  BY <1>1, <1>2, BothWalks
<1>6. NoLinks(t, Through) BY BothWalks DEF NoLinks
<1>7. S[Start(path)] # Nil => S[Start(path)] \in Live(t) /\ t[S[Start(path)]].kind # "link"
  BY <1>1, <1>3, <1>4, <1>6, WalkLive
<1>8. L[Start(path)] # Nil => L[Start(path)] \in Live(t)
  BY <1>2, <1>3, <1>4, WalkLive
<1>. QED BY <1>5, <1>7, <1>8

-----------------------------------------------------------------------------
(* Paths, and what is before their last name.                              *)

(* A sequence of one element.                                              *)
LEMMA Singleton ==
    ASSUME NEW S, NEW x \in S
    PROVE  <<x>> \in Seq(S)
OBVIOUS

(* Append and concatenation associate.                                     *)
LEMMA ConcatAppend ==
    ASSUME NEW s \in Places, NEW u \in Places, NEW x, x \in STRING
    PROVE  s \o Append(u, x) = Append(s \o u, x)
<1>1. Append(u, x) = u \o <<x>> BY AppendIsConcat DEF Places
<1>2. s \o u \in Places BY ConcatProperties DEF Places
<1>3. Append(s \o u, x) = (s \o u) \o <<x>>
  BY <1>2, AppendIsConcat DEF Places
<1>4. <<x>> \in Places BY Singleton DEF Places
<1>. QED BY <1>1, <1>3, <1>4, ConcatAssociative DEF Places

(* What a path names, its last link not followed, is the entry of this     *)
(* name in the directory that the path before it leads to.                 *)
More(w, x) == [links |-> w.links, at |-> w.at, rest |-> Append(w.rest, x)]

(* The last name of a path is looked up in what the path before it leads to. *)
LEMMA LstatAppend ==
    ASSUME NEW t, Structured(t), NEW path \in Places, NEW x, x \in STRING
    PROVE  Lstat(t, Append(path, x)) =
                IF Stat(t, path) = Nil THEN Nil ELSE Entry(t, Stat(t, path), x)
<1>1. PICK S : Walking(t, Through, S) BY BothWalks
<1>2. PICK L : Walking(t, UpTo, L) BY BothWalks
<1>. DEFINE Agrees(w) == L[More(w, x)] = IF S[w] = Nil THEN Nil ELSE Entry(t, S[w], x)
            P == {w \in Walks : Agrees(w)}
<1>3. ASSUME NEW w \in Walks,
             Passes(t, Through, w) => Passed(t, w) \in P,
             Leads(t, Through, w) => Led(t, w) \in P
      PROVE  w \in P
  <2>. DEFINE v == More(w, x)
  <2>1. w.rest \in Places /\ w.links \in 0 .. MaxLinks /\ w.at \in Node
    BY DEF Walks, Places
  <2>2. /\ v.rest = Append(w.rest, x) /\ v.links = w.links /\ v.at = w.at
        /\ v.rest \in Places /\ v.rest # <<>> /\ Len(v.rest) = Len(w.rest) + 1
        /\ v \in Walks
    BY <2>1, AppendProperties DEF More, Walks, Places
  <2>3. /\ Head(v.rest) = IF w.rest = <<>> THEN x ELSE Head(w.rest)
        /\ Tail(v.rest) = IF w.rest = <<>> THEN <<>> ELSE Append(Tail(w.rest), x)
    BY <2>1, <2>2, HeadTailAppend DEF Places
  <2>. HIDE DEF v
  <2>4. CASE w.rest = <<>>
    <3>1. Found(t, v) = Entry(t, w.at, x)
      BY <2>2, <2>3, <2>4 DEF Found
    <3>2. S[w] = w.at /\ w.at # Nil
      BY <1>1, <2>1, <2>4, FileSystemAssumption DEF Walking
    <3>3. Len(v.rest) = 1 BY <2>2, <2>4
    <3>4. Passes(t, UpTo, v) <=> Found(t, v) # Nil
      BY <2>2, <3>3, BothWalks
    <3>5. ~Leads(t, UpTo, v) BY <3>3, BothWalks
    <3>6. CASE Found(t, v) = Nil
      BY <1>2, <2>2, <3>1, <3>2, <3>4, <3>5, <3>6 DEF Walking, v
    <3>7. CASE Found(t, v) # Nil
      <4>1. Passed(t, v) \in Walks BY <2>2, <3>4, <3>7, WalksType
      <4>2. Passed(t, v).rest = <<>> /\ Passed(t, v).at = Found(t, v)
        BY <2>3, <2>4 DEF Passed
      <4>3. L[v] = Found(t, v)
        BY <1>2, <2>2, <3>4, <3>7, <4>1, <4>2 DEF Walking
      <4>. QED BY <3>1, <3>2, <4>3 DEF v
    <3>. QED BY <3>6, <3>7
  <2>5. CASE w.rest # <<>>
    <3>1. Found(t, v) = Found(t, w) BY <2>2, <2>3, <2>5 DEF Found
    <3>2. Len(w.rest) > 0 /\ Len(v.rest) # 1
      BY <2>1, <2>2, <2>5, LenProperties DEF Places
    <3>3. Passes(t, UpTo, v) <=> Passes(t, Through, w)
      BY <2>2, <2>5, <3>1, <3>2, BothWalks
    <3>4. Leads(t, UpTo, v) <=> Leads(t, Through, w)
      BY <2>2, <2>5, <3>1, <3>2, BothWalks
    <3>5. CASE Passes(t, Through, w)
      <4>1. Passed(t, v) = More(Passed(t, w), x)
        BY <2>2, <2>3, <2>5, <3>1 DEF Passed, More
      <4>2. L[v] = L[Passed(t, v)] /\ S[w] = S[Passed(t, w)]
        BY <1>1, <1>2, <2>2, <2>5, <3>3, <3>5 DEF Walking
      <4>. QED BY <1>3, <3>5, <4>1, <4>2 DEF v
    <3>6. CASE ~Passes(t, Through, w) /\ Leads(t, Through, w)
      <4>1. Led(t, v) = More(Led(t, w), x)
        <5>1. t[Found(t, w)].target \in Places /\ Tail(w.rest) \in Places
          <6>1. Found(t, w) \in Node
            BY <3>6, EntryType DEF Leads, Found
          <6>2. t[Found(t, w)].target \in Places
            BY <6>1 DEF Structured, Nodes
          <6>. QED BY <2>1, <2>5, <6>2, HeadTailProperties DEF Places
        <5>2. t[Found(t, w)].target \o Append(Tail(w.rest), x)
                = Append(t[Found(t, w)].target \o Tail(w.rest), x)
          <6>. DEFINE u == t[Found(t, w)].target
                      r == Tail(w.rest)
          <6>. HIDE DEF u, r, P, Agrees
          <6>1. u \in Places /\ r \in Places BY <5>1 DEF u, r
          <6>2. u \o Append(r, x) = Append(u \o r, x)
            BY <6>1, ConcatAppend, ZenonT(60)
          <6>. QED BY <6>2 DEF u, r
        <5>. QED BY <2>2, <2>3, <2>5, <3>1, <5>2 DEF Led, More
      <4>2. L[v] = L[Led(t, v)] /\ S[w] = S[Led(t, w)]
        BY <1>1, <1>2, <2>2, <2>5, <3>3, <3>4, <3>6 DEF Walking
      <4>. QED BY <1>3, <3>6, <4>1, <4>2 DEF v
    <3>7. CASE ~Passes(t, Through, w) /\ ~Leads(t, Through, w)
      BY <1>1, <1>2, <2>2, <2>5, <3>3, <3>4, <3>7 DEF Walking, v
    <3>. QED BY <3>5, <3>6, <3>7
  <2>. QED BY <2>4, <2>5
<1>4. P = Walks
  <2>1. P \in SUBSET Walks OBVIOUS
  <2>. HIDE DEF P
  <2>. QED BY <1>3, <2>1, WalkInduction
<1>5. Start(path) \in P BY <1>4, StartType
<1>6. More(Start(path), x) = Start(Append(path, x)) BY DEF More, Start
<1>7. Append(path, x) \in Places BY AppendProperties DEF Places
<1>. QED BY <1>1, <1>2, <1>5, <1>6, <1>7, BothWalks

(* A sequence is its front with its last element appended.                 *)
LEMMA FrontLastOfSeq ==
    ASSUME NEW S, NEW path \in Seq(S), path # <<>>
    PROVE  /\ Front(path) \in Seq(S) /\ Last(path) \in S
           /\ path = Append(Front(path), Last(path))
<1>1. PICK s \in Seq(S), x \in S : path = Append(s, x)
  BY SequenceEmptyOrAppend
<1>2. /\ Len(path) = Len(s) + 1
      /\ \A i \in 1 .. Len(s) : path[i] = s[i]
      /\ path[Len(s) + 1] = x
  BY <1>1, AppendProperties
<1>3. Len(s) \in Nat /\ \A i \in 1 .. Len(s) : s[i] \in S
  BY LenProperties
<1>4. Last(path) = x BY <1>2, <1>3 DEF Last
<1>5. Front(path) = s
  <2>1. Front(path) = SubSeq(path, 1, Len(s)) BY <1>2, <1>3 DEF Front
  <2>2. SubSeq(path, 1, Len(s)) \in Seq(S) /\ Len(SubSeq(path, 1, Len(s))) = Len(s)
        /\ \A i \in 1 .. Len(s) : SubSeq(path, 1, Len(s))[i] = path[i]
    BY <1>2, <1>3, SubSeqProperties
  <2>. QED BY <1>2, <2>1, <2>2, SeqEqual
<1>. QED BY <1>1, <1>4, <1>5

(* A path is its directory and its last name.                              *)
LEMMA FrontLast ==
    ASSUME NEW path \in Places, path # <<>>
    PROVE  /\ Front(path) \in Places /\ Last(path) \in STRING
           /\ path = Append(Front(path), Last(path))
BY FrontLastOfSeq DEF Places

(* LstatAppend, from the whole path.                                       *)
LEMMA LstatLast ==
    ASSUME NEW t, Structured(t), NEW path \in Places, path # <<>>
    PROVE  Lstat(t, path) =
                IF Stat(t, Front(path)) = Nil THEN Nil
                ELSE Entry(t, Stat(t, Front(path)), Last(path))
<1>1. Front(path) \in Places /\ Last(path) \in STRING /\ path = Append(Front(path), Last(path))
  BY FrontLast
<1>. DEFINE p == Front(path)
            x == Last(path)
<1>. HIDE DEF p, x
<1>2. Lstat(t, Append(p, x)) = IF Stat(t, p) = Nil THEN Nil ELSE Entry(t, Stat(t, p), x)
  BY <1>1, LstatAppend DEF p, x
<1>. QED BY <1>1, <1>2 DEF p, x

(* Prefixes by their elements.                                             *)
LEMMA PrefixElements ==
    ASSUME NEW S, NEW s \in Seq(S), NEW u \in Seq(S)
    PROVE  IsPrefix(s, u) <=> Len(s) <= Len(u) /\ \A i \in 1 .. Len(s) : s[i] = u[i]
<1>1. SubSeq(s, 1, Len(s)) = s BY SubSeqFull
<1>2. ASSUME Len(s) <= Len(u)
      PROVE  SubSeq(s, 1, Len(s)) = SubSeq(u, 1, Len(s)) <=> \A i \in 1 .. Len(s) : s[i] = u[i]
  <2>1. Len(s) \in Nat /\ Len(u) \in Nat /\ \A i \in 1 .. Len(s) : u[i] \in S
    BY <1>2, LenProperties
  <2>2. /\ SubSeq(u, 1, Len(s)) \in Seq(S) /\ Len(SubSeq(u, 1, Len(s))) = Len(s)
        /\ \A i \in 1 .. Len(s) : SubSeq(u, 1, Len(s))[i] = u[i]
    BY <2>1, SubSeqProperties
  <2>3. (\A i \in 1 .. Len(s) : s[i] = u[i]) => s = SubSeq(u, 1, Len(s))
    BY <2>2, SeqEqual
  <2>. QED BY <1>1, <2>2, <2>3
<1>. QED BY <1>2 DEF IsPrefix

(* The prefixes of a sequence with one more element.                       *)
LEMMA PrefixAppend ==
    ASSUME NEW S, NEW s \in Seq(S), NEW u \in Seq(S), NEW x \in S
    PROVE  IsPrefix(s, Append(u, x)) <=> s = Append(u, x) \/ IsPrefix(s, u)
<1>. DEFINE v == Append(u, x)
<1>1. /\ v \in Seq(S) /\ Len(v) = Len(u) + 1
      /\ \A i \in 1 .. Len(u) : v[i] = u[i]
  BY AppendProperties
<1>2. Len(s) \in Nat /\ Len(u) \in Nat BY LenProperties
<1>. HIDE DEF v
<1>3. IsPrefix(s, v) <=> Len(s) <= Len(v) /\ \A i \in 1 .. Len(s) : s[i] = v[i]
  BY <1>1, PrefixElements
<1>4. IsPrefix(s, u) <=> Len(s) <= Len(u) /\ \A i \in 1 .. Len(s) : s[i] = u[i]
  BY PrefixElements
<1>5. CASE Len(s) <= Len(u)
  <2>1. \A i \in 1 .. Len(s) : v[i] = u[i] BY <1>1, <1>2, <1>5
  <2>2. s # v BY <1>1, <1>2, <1>5
  <2>. QED BY <1>1, <1>2, <1>3, <1>4, <1>5, <2>1, <2>2 DEF v
<1>6. CASE Len(s) = Len(v)
  <2>1. (\A i \in 1 .. Len(s) : s[i] = v[i]) <=> s = v
    BY <1>1, <1>6, SeqEqual
  <2>. QED BY <1>1, <1>2, <1>3, <1>4, <1>6, <2>1 DEF v
<1>7. CASE Len(s) > Len(v) BY <1>1, <1>2, <1>3, <1>4, <1>7 DEF v
<1>. QED BY <1>1, <1>2, <1>5, <1>6, <1>7

(* The empty sequence has no prefix but itself.                            *)
LEMMA PrefixOfEmpty ==
    ASSUME NEW S, NEW s \in Seq(S)
    PROVE  IsPrefix(s, <<>>) <=> s = <<>>
<1>. DEFINE u == <<>>
<1>1. u \in Seq(S) /\ Len(u) = 0 OBVIOUS
<1>. HIDE DEF u
<1>2. IsPrefix(s, u) <=> Len(s) <= Len(u) /\ \A i \in 1 .. Len(s) : s[i] = u[i]
  <2>1. u \in Seq(S) BY <1>1
  <2>. QED BY <2>1, PrefixElements
<1>3. Len(s) \in Nat /\ (Len(s) = 0 <=> s = <<>>) BY LenProperties
<1>. QED BY <1>1, <1>2, <1>3 DEF u

(* What a path of a node begins with is the path of a node.                *)
LEMMA PrefixIsNode ==
    ASSUME NEW t, Tree(t), NEW n \in Live(t), NEW p \in Places, IsPrefix(p, PathOf(t, n))
    PROVE  \E m \in Live(t) : PathOf(t, m) = p
<1>. DEFINE P == {m \in Live(t) : \A q \in Places :
                    IsPrefix(q, PathOf(t, m)) => \E k \in Live(t) : PathOf(t, k) = q}
<1>0. Structured(t) BY DEF Tree
<1>1. Top \in P BY <1>0, TopLive, PathDef, PrefixOfEmpty DEF Places
<1>2. ASSUME NEW m \in Live(t) \ {Top}, t[m].in \in P PROVE m \in P
  <2>1. SUFFICES ASSUME NEW q \in Places, IsPrefix(q, PathOf(t, m))
                 PROVE  \E k \in Live(t) : PathOf(t, k) = q
    OBVIOUS
  <2>. DEFINE d == t[m].in
              x == t[m].name
  <2>2. d \in Live(t) /\ x \in STRING BY <1>0 DEF Structured
  <2>3. PathOf(t, m) = Append(PathOf(t, d), x) /\ PathOf(t, d) \in Places
    BY <2>2, PathDef
  <2>4. q = PathOf(t, m) \/ IsPrefix(q, PathOf(t, d))
    <3>. HIDE DEF d, x
    <3>. QED BY <2>1, <2>2, <2>3, PrefixAppend DEF Places
  <2>. QED BY <1>2, <2>4
<1>3. P = Live(t)
  <2>1. P \in SUBSET Live(t) OBVIOUS
  <2>. HIDE DEF P
  <2>. QED BY <1>1, <1>2, <2>1, TreeInduction
<1>. QED BY <1>3

(* A node is below a directory if it is the directory or its own one is.   *)
LEMMA BelowDef ==
    ASSUME NEW t, Tree(t), NEW n \in Live(t), NEW m \in Live(t) \ {Top}
    PROVE  AtOrBelow(t, n, m) <=> n = m \/ AtOrBelow(t, n, t[m].in)
<1>. DEFINE d == t[m].in
            x == t[m].name
<1>1. d \in Live(t) /\ x \in STRING BY DEF Structured, Tree
<1>2. /\ PathOf(t, m) = Append(PathOf(t, d), x)
      /\ PathOf(t, d) \in Places /\ PathOf(t, n) \in Places
  BY <1>1, PathDef
<1>3. PathOf(t, n) = PathOf(t, m) <=> n = m BY NodeFound
<1>. HIDE DEF d, x
<1>4. IsPrefix(PathOf(t, n), PathOf(t, m)) <=>
            PathOf(t, n) = PathOf(t, m) \/ IsPrefix(PathOf(t, n), PathOf(t, d))
  <2>. DEFINE p == PathOf(t, n)
              q == PathOf(t, d)
  <2>1. p \in Seq(STRING) /\ q \in Seq(STRING) /\ x \in STRING
    BY <1>1, <1>2 DEF Places
  <2>. HIDE DEF p, q
  <2>2. IsPrefix(p, Append(q, x)) <=> p = Append(q, x) \/ IsPrefix(p, q)
    BY <2>1, PrefixAppend
  <2>. QED BY <1>2, <2>2 DEF p, q
<1>. QED BY <1>3, <1>4 DEF AtOrBelow, d

(* Nothing but the root is at or above it.                                 *)
LEMMA BelowTop ==
    ASSUME NEW t, Tree(t), NEW n \in Live(t)
    PROVE  AtOrBelow(t, n, Top) <=> n = Top
<1>1. PathOf(t, Top) = <<>> /\ PathOf(t, n) \in Places /\ Top \in Live(t)
  BY PathDef, TopLive DEF Tree
<1>2. IsPrefix(PathOf(t, n), <<>>) <=> PathOf(t, n) = <<>>
  BY <1>1, PrefixOfEmpty DEF Places
<1>3. PathOf(t, n) = PathOf(t, Top) <=> n = Top BY <1>1, NodeFound
<1>. QED BY <1>1, <1>2, <1>3 DEF AtOrBelow

-----------------------------------------------------------------------------
(* What the calls on the tree do to it.                                    *)

Contents == Requests \union STRING \union {Empty, Nil}

(* What the fields of a node may be.                                       *)
LEMMA NodeFields ==
    ASSUME NEW t, t \in [Node -> Nodes], NEW n \in Node
    PROVE  /\ t[n] \in Nodes
           /\ t[n].kind \in {"unused", "dir", "file", "link"} /\ t[n].in \in Node \union {Nil}
           /\ t[n].name \in STRING \union {Nil} /\ t[n].data \in Contents
           /\ t[n].target \in Places
BY DEF Nodes, Contents

(* A tree in which everything is still where it was.                       *)
Grows(t, u) ==
    \A n \in Live(t) :
        /\ u[n].in = t[n].in /\ u[n].name = t[n].name
        /\ u[n].kind = t[n].kind /\ u[n].target = t[n].target

(* A walk finds in it what it found before.                                *)
LEMMA WalkGrows ==
    ASSUME NEW t, NEW u, Structured(t), Structured(u), Grows(t, u), NEW follow,
           NEW W, Walking(t, follow, W), NEW V, Walking(u, follow, V),
           NEW w \in Walks, w.at \in Live(t), W[w] # Nil
    PROVE  V[w] = W[w]
<1>. DEFINE P == {v \in Walks : v.at \in Live(t) /\ W[v] # Nil => V[v] = W[v]}
<1>1. ASSUME NEW v \in Walks,
             Passes(t, follow, v) => Passed(t, v) \in P,
             Leads(t, follow, v) => Led(t, v) \in P
      PROVE  v \in P
  <2>1. SUFFICES ASSUME v.at \in Live(t), W[v] # Nil PROVE V[v] = W[v]
    OBVIOUS
  <2>2. CASE v.rest = <<>> BY <2>2 DEF Walking
  <2>3. CASE v.rest # <<>>
    <3>. DEFINE m == Found(t, v)
    <3>1. Passes(t, follow, v) \/ Leads(t, follow, v)
      BY <2>1, <2>3 DEF Walking
    <3>2. m \in Live(t) \ {Top} /\ t[m].in = v.at /\ t[m].name = Head(v.rest) /\ m # Nil
      BY <2>1, <3>1, EntryLive, EntryType DEF Passes, Leads, Found, Live
    <3>3. /\ u[m].in = v.at /\ u[m].name = Head(v.rest)
          /\ u[m].kind = t[m].kind /\ u[m].target = t[m].target
      BY <3>2 DEF Grows
    <3>4. m \in Live(u) \ {Top} BY <2>1, <3>2, <3>3 DEF Live
    <3>5. Found(u, v) = m BY <3>3, <3>4, EntryOf DEF Found
    <3>. HIDE DEF m
    <3>6. /\ Passes(u, follow, v) <=> Passes(t, follow, v)
          /\ Leads(u, follow, v) <=> Leads(t, follow, v)
      BY <3>3, <3>5 DEF Passes, Leads, m
    <3>7. Passed(u, v) = Passed(t, v) /\ Led(u, v) = Led(t, v)
      BY <3>3, <3>5 DEF Passed, Led, m
    <3>8. Passed(t, v).at \in Live(t) BY <3>2 DEF Passed, m
    <3>9. Led(t, v).at \in Live(t) BY TopLive DEF Led
    <3>10. CASE Passes(t, follow, v)
      <4>1. W[v] = W[Passed(t, v)] /\ V[v] = V[Passed(t, v)]
        BY <2>3, <3>6, <3>7, <3>10 DEF Walking
      <4>. QED BY <1>1, <2>1, <3>8, <3>10, <4>1
    <3>11. CASE ~Passes(t, follow, v) /\ Leads(t, follow, v)
      <4>1. W[v] = W[Led(t, v)] /\ V[v] = V[Led(t, v)]
        BY <2>3, <3>6, <3>7, <3>11 DEF Walking
      <4>. QED BY <1>1, <2>1, <3>9, <3>11, <4>1
    <3>. QED BY <3>1, <3>10, <3>11
  <2>. QED BY <2>2, <2>3
<1>2. P = Walks
  <2>1. P \in SUBSET Walks OBVIOUS
  <2>. HIDE DEF P
  <2>. QED BY <1>1, <2>1, WalkInduction
<1>. QED BY <1>2

(* So does what asks for a path, through links too.                        *)
LEMMA FoundStaysFound ==
    ASSUME NEW t, NEW u, Structured(t), Structured(u), Grows(t, u), NEW path \in Places
    PROVE  /\ Stat(t, path) # Nil => Stat(u, path) = Stat(t, path)
           /\ Lstat(t, path) # Nil => Lstat(u, path) = Lstat(t, path)
<1>1. Start(path) \in Walks /\ Start(path).at \in Live(t)
  BY StartType, TopLive DEF Start
<1>2. PICK S : Walking(t, Through, S) BY BothWalks
<1>3. PICK L : Walking(t, UpTo, L) BY BothWalks
<1>4. PICK S2 : Walking(u, Through, S2) BY BothWalks
<1>5. PICK L2 : Walking(u, UpTo, L2) BY BothWalks
<1>6. S[Start(path)] # Nil => S2[Start(path)] = S[Start(path)]
  BY <1>1, <1>2, <1>4, WalkGrows
<1>7. L[Start(path)] # Nil => L2[Start(path)] = L[Start(path)]
  BY <1>1, <1>3, <1>5, WalkGrows
<1>. QED BY <1>2, <1>3, <1>4, <1>5, <1>6, <1>7, BothWalks

(* Data do not matter.                                                     *)
Holding(t, n, x) == [t EXCEPT ![n].data = x]

(* Writing to a file leaves a tree that has grown.                         *)
LEMMA DataTree ==
    ASSUME NEW t, Tree(t), NEW n, NEW x \in Contents
    PROVE  Tree(Holding(t, n, x)) /\ Grows(t, Holding(t, n, x))
<1>. DEFINE u == Holding(t, n, x)
<1>0. Structured(t) /\ t \in [Node -> Nodes] BY DEF Tree, Structured
<1>. USE DEF Holding
<1>1. ASSUME NEW m \in Node
      PROVE  /\ u[m] \in Nodes
             /\ u[m].kind = t[m].kind /\ u[m].in = t[m].in /\ u[m].name = t[m].name
             /\ u[m].target = t[m].target
  <2>1. t[m] \in Nodes BY <1>0
  <2>2. u[m] = IF m = n THEN [t[m] EXCEPT !.data = x] ELSE t[m]
    BY <1>0
  <2>. HIDE DEF u
  <2>3. [t[m] EXCEPT !.data = x] \in Nodes BY <2>1 DEF Nodes, Contents
  <2>. QED BY <2>1, <2>2, <2>3 DEF Nodes
<1>2. u \in [Node -> Nodes] BY <1>0, <1>1
<1>. HIDE DEF u
<1>3. Live(u) = Live(t) /\ \A d : Entries(u, d) = Entries(t, d)
  BY <1>1 DEF Live, Entries
<1>4. Top \in Node /\ \A d : Entries(t, d) \subseteq Node
  BY <1>0, TopLive DEF Entries
<1>5. Structured(u)
  <2>1. u[Top].kind = "dir" /\ u[Top].in = Top
    BY <1>0, <1>1, <1>4 DEF Structured
  <2>2. ASSUME NEW m \in Live(u) \ {Top}
        PROVE  /\ u[m].kind \in {"dir", "file", "link"} /\ u[m].name \in STRING
               /\ u[m].in \in Live(u) /\ u[u[m].in].kind = "dir"
               /\ \A k \in Entries(u, u[m].in) : u[k].name = u[m].name => k = m
    <3>1. m \in Live(t) \ {Top} /\ m \in Node BY <1>3 DEF Live
    <3>2. t[m].in \in Live(t) /\ t[m].in \in Node
      BY <1>0, <3>1 DEF Structured, Live
    <3>. QED BY <1>0, <1>1, <1>3, <1>4, <3>1, <3>2 DEF Structured
  <2>. QED BY <1>2, <2>1, <2>2 DEF Structured
<1>6. Acyclic(u)
  <2>1. \A m \in Live(t) : u[m].in = t[m].in BY <1>1 DEF Live
  <2>. QED BY <1>3, <2>1 DEF Tree, Acyclic
<1>7. Grows(t, u) BY <1>1 DEF Grows, Live
<1>. QED BY <1>5, <1>6, <1>7 DEF Tree, u

(* A new node, in a directory and under a name that is free.               *)
Having(t, k, kind, d, x, data) ==
    [t EXCEPT ![k] = [kind |-> kind, in |-> d, name |-> x, data |-> data, target |-> <<>>]]

(* So does putting a new node into a directory under a name that is free.  *)
LEMMA NewTree ==
    ASSUME NEW t, Tree(t), NEW k \in Spare(t), NEW d \in Live(t), t[d].kind = "dir",
           NEW x, x \in STRING, Entry(t, d, x) = Nil,
           NEW kind \in {"dir", "file"}, NEW data \in Contents
    PROVE  LET u == Having(t, k, kind, d, x, data) IN
           Tree(u) /\ Grows(t, u) /\ Entry(u, d, x) = k /\ k # Nil
<1>. DEFINE u == Having(t, k, kind, d, x, data)
<1>0. Structured(t) /\ t \in [Node -> Nodes] BY DEF Tree, Structured
<1>1. k \in Node /\ t[k].in = Nil /\ k \notin Live(t) /\ t[k] = Unused
  BY DEF Spare, Unused, Live
<1>2. d \in Node /\ d # Nil /\ k # Top /\ k # d /\ k # Nil
  BY <1>0, <1>1, TopLive, FileSystemAssumption DEF Live
<1>. DEFINE new == [kind |-> kind, in |-> d, name |-> x, data |-> data, target |-> <<>>]
<1>3. new \in Nodes BY <1>2, Nowhere DEF Nodes, Contents
<1>4. u[k] = new /\ \A m \in Node \ {k} : u[m] = t[m]
  BY <1>0, <1>1 DEF Having
<1>5. u \in [Node -> Nodes] BY <1>0, <1>1, <1>3 DEF Having
<1>6. new.kind = kind /\ new.in = d /\ new.name = x OBVIOUS
<1>. HIDE DEF new, u
<1>7. Live(u) = Live(t) \union {k} BY <1>1, <1>2, <1>4, <1>6 DEF Live
<1>8. \A e : Entries(u, e) = IF e = d THEN Entries(t, d) \union {k} ELSE Entries(t, e) \ {k}
  BY <1>1, <1>2, <1>4, <1>6 DEF Entries
<1>9. \A m \in Live(t) : m \in Node /\ m # k /\ u[m] = t[m]
  BY <1>1, <1>4 DEF Live
<1>10. \A m \in Entries(t, d) : t[m].name # x /\ m # k /\ u[m] = t[m]
  <2>1. \A m \in Entries(t, d) : m \in Node \ {Top} /\ t[m].in = d
    BY DEF Entries
  <2>. QED BY <1>1, <1>2, <1>4, <2>1, EntryType
<1>11. Structured(u)
  <2>1. u[Top].kind = "dir" /\ u[Top].in = Top
    BY <1>0, <1>9, TopLive DEF Structured
  <2>2. ASSUME NEW m \in Live(t) \ {Top}
        PROVE  /\ u[m].kind \in {"dir", "file", "link"} /\ u[m].name \in STRING
               /\ u[m].in \in Live(u) /\ u[u[m].in].kind = "dir"
               /\ \A i \in Entries(u, u[m].in) : u[i].name = u[m].name => i = m
    <3>1. /\ t[m].kind \in {"dir", "file", "link"} /\ t[m].name \in STRING
          /\ t[m].in \in Live(t) /\ t[t[m].in].kind = "dir"
          /\ \A i \in Entries(t, t[m].in) : t[i].name = t[m].name => i = m
      BY <1>0 DEF Structured
    <3>2. u[m] = t[m] /\ u[t[m].in] = t[t[m].in] BY <1>9, <3>1
    <3>3. ASSUME NEW i \in Entries(u, t[m].in), u[i].name = t[m].name PROVE i = m
      <4>1. CASE i = k
        <5>1. t[m].in = d BY <1>4, <1>6, <4>1 DEF Entries
        <5>2. m \in Entries(t, d) BY <5>1 DEF Entries, Live
        <5>. QED BY <1>4, <1>6, <1>10, <3>3, <4>1, <5>2
      <4>2. CASE i # k
        <5>1. i \in Entries(t, t[m].in) BY <1>8, <4>2
        <5>2. u[i] = t[i] BY <1>4, <4>2, <5>1 DEF Entries
        <5>. QED BY <3>1, <3>3, <5>1, <5>2
      <4>. QED BY <4>1, <4>2
    <3>. QED BY <1>7, <3>1, <3>2, <3>3
  <2>3. /\ u[k].kind \in {"dir", "file", "link"} /\ u[k].name \in STRING
        /\ u[k].in \in Live(u) /\ u[u[k].in].kind = "dir"
        /\ \A i \in Entries(u, u[k].in) : u[i].name = u[k].name => i = k
    <3>1. u[k].kind = kind /\ u[k].name = x /\ u[k].in = d
      BY <1>4, <1>6
    <3>2. d \in Live(u) /\ u[d].kind = "dir" BY <1>7, <1>9
    <3>3. \A i \in Entries(u, d) : u[i].name = x => i = k
      BY <1>8, <1>10
    <3>. QED BY <3>1, <3>2, <3>3
  <2>4. ASSUME NEW m \in Live(u) \ {Top}
        PROVE  /\ u[m].kind \in {"dir", "file", "link"} /\ u[m].name \in STRING
               /\ u[m].in \in Live(u) /\ u[u[m].in].kind = "dir"
               /\ \A i \in Entries(u, u[m].in) : u[i].name = u[m].name => i = m
    <3>1. CASE m = k BY <2>3, <3>1
    <3>2. CASE m # k BY <1>7, <2>2, <3>2
    <3>. QED BY <3>1, <3>2
  <2>. QED BY <1>5, <2>1, <2>4 DEF Structured
<1>12. Acyclic(u)
  <2>1. SUFFICES ASSUME NEW S \in SUBSET (Live(u) \ {Top}), S # {},
                        \A n \in S : u[n].in \in S
                 PROVE  FALSE
    BY DEF Acyclic
  <2>. DEFINE R == S \ {k}
  <2>2. R \in SUBSET (Live(t) \ {Top}) BY <1>7
  <2>3. R # {} BY <1>2, <1>4, <1>6, <2>1
  <2>4. \A n \in R : t[n].in \in R
    BY <1>0, <1>1, <1>9, <2>1, <2>2 DEF Structured
  <2>. HIDE DEF R
  <2>. QED BY <2>2, <2>3, <2>4 DEF Tree, Acyclic
<1>13. Grows(t, u) BY <1>9 DEF Grows
<1>14. Entry(u, d, x) = k
  <2>1. k \in Live(u) \ {Top} BY <1>2, <1>7
  <2>. QED BY <1>4, <1>6, <1>11, <2>1, EntryOf
<1>. QED BY <1>2, <1>11, <1>12, <1>13, <1>14 DEF Tree, u

(* The least of a set of numbers is one of them.                           *)
LEMMA MinType ==
    ASSUME NEW S, S \subseteq Nat, S # {}
    PROVE  Min(S) \in S
<1>1. PICK m \in S : \A n \in S : m <= n BY LeastNatural
<1>. QED BY <1>1 DEF Min

(* The node taken for what is made is a spare one.                         *)
LEMMA SpareMin ==
    ASSUME NEW t, Spare(t) # {}
    PROVE  Min(Spare(t)) \in Spare(t)
<1>1. Spare(t) \subseteq Nat BY FileSystemAssumption DEF Spare, Node
<1>. QED BY <1>1, MinType

(* A call that makes something found nothing there, and leaves a tree that *)
(* has grown.                                                              *)
LEMMA AddTree ==
    ASSUME NEW t, Tree(t), NEW path \in Places, NEW kind \in {"dir", "file"},
           NEW data \in Contents, NEW u, u = Add(t, path, kind, data), u # Nil
    PROVE  /\ Tree(u) /\ Grows(t, u)
           /\ Lstat(t, path) = Nil /\ Lstat(u, path) # Nil
<1>. DEFINE p == Front(path)
            x == Last(path)
            d == Stat(t, p)
            k == Min(Spare(t))
<1>0. Structured(t) BY DEF Tree
<1>1. /\ path # <<>> /\ IsDir(t, p) /\ Lstat(t, path) = Nil /\ Spare(t) # {}
      /\ u = Having(t, k, kind, d, x, data)
  BY DEF Add, Having
<1>2. p \in Places /\ x \in STRING /\ path = Append(p, x)
  BY <1>1, FrontLast
<1>3. d # Nil /\ t[d].kind = "dir" /\ d \in Live(t)
  BY <1>0, <1>1, <1>2, StatLive DEF IsDir
<1>4. k \in Spare(t) BY <1>1, SpareMin
<1>5. Entry(t, d, x) = Nil BY <1>0, <1>1, <1>3, LstatLast
<1>. HIDE DEF p, x, d, k
<1>6. Tree(u) /\ Grows(t, u) /\ Entry(u, d, x) = k /\ k # Nil
  BY <1>1, <1>2, <1>3, <1>4, <1>5, NewTree
<1>7. Stat(u, p) = d
  BY <1>0, <1>2, <1>3, <1>6, FoundStaysFound DEF Tree, d
<1>8. Lstat(u, path) = k
  BY <1>1, <1>3, <1>6, <1>7, LstatLast DEF Tree, p, x
<1>. QED BY <1>1, <1>6, <1>8

(* os.Mkdir makes what was not there.                                      *)
LEMMA MkdirTree ==
    ASSUME NEW t, Tree(t), NEW path \in Places, Mkdir(t, path) # Nil
    PROVE  /\ Tree(Mkdir(t, path)) /\ Grows(t, Mkdir(t, path))
           /\ Lstat(t, path) = Nil /\ Lstat(Mkdir(t, path), path) # Nil
BY AddTree DEF Mkdir, Contents

(* So does os.OpenFile with O_EXCL.                                        *)
LEMMA OpenNewTree ==
    ASSUME NEW t, Tree(t), NEW path \in Places, OpenNew(t, path) # Nil
    PROVE  /\ Tree(OpenNew(t, path)) /\ Grows(t, OpenNew(t, path))
           /\ Lstat(t, path) = Nil /\ Lstat(OpenNew(t, path), path) # Nil
BY AddTree DEF OpenNew, Contents

(* os.Create makes a file or empties the one there.                        *)
LEMMA OpenTruncatedTree ==
    ASSUME NEW t, Tree(t), NEW path \in Places, OpenTruncated(t, path) # Nil
    PROVE  Tree(OpenTruncated(t, path)) /\ Grows(t, OpenTruncated(t, path))
<1>. DEFINE n == Stat(t, path)
<1>1. CASE n = Nil BY <1>1, OpenNewTree DEF OpenTruncated
<1>2. CASE n # Nil
  <2>1. OpenTruncated(t, path) = Holding(t, n, Empty)
    BY <1>2 DEF OpenTruncated, Holding
  <2>2. Empty \in Contents BY DEF Contents
  <2>. QED BY <2>1, <2>2, DataTree
<1>. QED BY <1>1, <1>2

(* What is empty can be removed,                                           *)
LEMMA UnlinkTree ==
    ASSUME NEW t, Tree(t), NEW n \in Live(t) \ {Top}, Entries(t, n) = {}
    PROVE  Tree(Unlink(t, n))
<1>. DEFINE u == Unlink(t, n)
<1>0. Structured(t) /\ t \in [Node -> Nodes] /\ n \in Node
  BY DEF Tree, Structured, Live
<1>1. u = [t EXCEPT ![n].in = Nil] BY DEF Unlink
<1>2. u[n] = [t[n] EXCEPT !.in = Nil] /\ \A m \in Node \ {n} : u[m] = t[m]
  BY <1>0, <1>1
<1>3. u[n].in = Nil /\ u[n] \in Nodes
  <2>1. t[n] \in Nodes BY <1>0
  <2>. QED BY <1>2, <2>1 DEF Nodes
<1>4. u \in [Node -> Nodes] BY <1>0, <1>1, <1>2, <1>3
<1>. HIDE DEF u
<1>5. Live(u) = Live(t) \ {n} BY <1>2, <1>3 DEF Live
<1>6. \A d \in Node : Entries(u, d) = Entries(t, d) \ {n}
  <2>1. ASSUME NEW d \in Node, NEW m \in Node PROVE u[m].in = d <=> t[m].in = d /\ m # n
    BY <1>2, <1>3, FileSystemAssumption
  <2>. QED BY <2>1 DEF Entries
<1>7. \A m \in Live(t) \ {Top} : m \in Node /\ t[m].in # n
  BY DEF Entries, Live
<1>8. Structured(u)
  <2>1. u[Top].kind = "dir" /\ u[Top].in = Top
    BY <1>0, <1>2, TopLive DEF Structured
  <2>2. ASSUME NEW m \in Live(u) \ {Top}
        PROVE  /\ u[m].kind \in {"dir", "file", "link"} /\ u[m].name \in STRING
               /\ u[m].in \in Live(u) /\ u[u[m].in].kind = "dir"
               /\ \A i \in Entries(u, u[m].in) : u[i].name = u[m].name => i = m
    <3>1. m \in Live(t) \ {Top} /\ m # n BY <1>5
    <3>2. /\ t[m].kind \in {"dir", "file", "link"} /\ t[m].name \in STRING
          /\ t[m].in \in Live(t) /\ t[t[m].in].kind = "dir"
          /\ \A i \in Entries(t, t[m].in) : t[i].name = t[m].name => i = m
      BY <1>0, <3>1 DEF Structured
    <3>3. t[m].in \in Node /\ t[m].in # n /\ u[m] = t[m] /\ u[t[m].in] = t[t[m].in]
      BY <1>2, <1>7, <3>1, <3>2 DEF Live
    <3>4. ASSUME NEW i \in Entries(u, t[m].in) PROVE i \in Entries(t, t[m].in) /\ u[i] = t[i]
      BY <1>2, <1>6, <3>3 DEF Entries
    <3>. QED BY <1>5, <3>2, <3>3, <3>4
  <2>. QED BY <1>4, <2>1, <2>2 DEF Structured
<1>9. Acyclic(u)
  <2>1. ASSUME NEW S \in SUBSET (Live(u) \ {Top}), S # {}
        PROVE  \E m \in S : u[m].in \notin S
    <3>1. S \in SUBSET (Live(t) \ {Top}) BY <1>5
    <3>2. PICK m \in S : t[m].in \notin S
      BY <2>1, <3>1 DEF Tree, Acyclic
    <3>3. u[m] = t[m] BY <1>2, <1>5, <1>7, <3>1
    <3>. QED BY <3>2, <3>3
  <2>. QED BY <2>1 DEF Acyclic
<1>. QED BY <1>8, <1>9 DEF Tree, u

(* The tree in which the node n has become the entry x of the directory d, *)
(* in place of the old one.                                                *)
Renamed(t, u, n, d, x, old) ==
    /\ n \in Live(t) \ {Top} /\ d \in Live(t) /\ t[d].kind = "dir" /\ x \in STRING
    /\ old = Entry(t, d, x) /\ old # n /\ ~AtOrBelow(t, n, d) /\ n # d
    /\ old # Nil => old \in Live(t) \ {Top} /\ t[old].kind # "dir"
    /\ u \in [Node -> Nodes] /\ Live(u) = Live(t) \ {old}
    /\ d \in Live(u) /\ u[d] = t[d]
    /\ u[n].in = d /\ u[n].name = x
    /\ u[n].kind = t[n].kind /\ u[n].data = t[n].data /\ u[n].target = t[n].target
    /\ old \in Node => u[old].in = Nil
    /\ \A m \in Node : m # n /\ m # old => u[m] = t[m]

(* os.Rename, when it succeeds: nothing, because both are one, or the node put *)
(* in the place of the old one.                                            *)
LEMMA RenameDef ==
    ASSUME NEW t, Tree(t), NEW from \in Places, NEW to \in Places, from # <<>>, to # <<>>,
           NEW u, u = RenameNode(t, from, to), u # Nil
    PROVE  LET n == Lstat(t, from)  d == Stat(t, Front(to))  old == Lstat(t, to) IN
           /\ n # Nil /\ d \in Live(t)
           /\ (old = n /\ u = t) \/ Renamed(t, u, n, d, Last(to), old)
<1>. DEFINE n == Lstat(t, from)
            d == Stat(t, Front(to))
            x == Last(to)
            old == Lstat(t, to)
<1>0. Structured(t) /\ t \in [Node -> Nodes] BY DEF Tree, Structured
<1>1. n # Nil /\ IsDir(t, Front(to)) BY DEF RenameNode
<1>2. d \in Live(t)
  <2>1. Front(to) \in Places BY FrontLast
  <2>. QED BY <1>0, <1>1, <2>1, StatLive DEF IsDir
<1>4. CASE old = n BY <1>1, <1>2, <1>4 DEF RenameNode
<1>3. CASE old # n
  <2>1. ~AtOrBelow(t, n, d) /\ (old # Nil => t[old].kind # "dir")
    BY <1>1, <1>3 DEF RenameNode
  <2>2. u = [m \in Node |-> IF m = n THEN [t[n] EXCEPT !.in = d, !.name = x]
                            ELSE IF m = old THEN Unlink(t, old)[old]
                            ELSE t[m]]
    BY <1>1, <1>3 DEF RenameNode
  <2>3. Front(to) \in Places /\ x \in STRING BY FrontLast
  <2>4. d # Nil /\ d \in Live(t) /\ t[d].kind = "dir"
    BY <1>0, <1>1, <2>3, StatLive DEF IsDir
  <2>5. n \in Live(t) \ {Top}
    <3>1. Stat(t, Front(from)) # Nil /\ n = Entry(t, Stat(t, Front(from)), Last(from))
      BY <1>0, <1>1, LstatLast
    <3>2. Stat(t, Front(from)) \in Node
      BY <1>0, <3>1, FrontLast, StatLive DEF Live
    <3>. QED BY <1>1, <3>1, <3>2, EntryLive
  <2>6. old = Entry(t, d, x) BY <1>0, <2>4, LstatLast
  <2>7. old # Nil => old \in Live(t) \ {Top}
    BY <2>4, <2>6, EntryLive DEF Live
  <2>8. n # d BY <2>1, <2>4, <2>5, <1>0, BelowDef
  <2>. HIDE DEF n, d, x, old
  <2>9. n \in Node /\ d \in Node BY <2>4, <2>5 DEF Live
  <2>10. /\ u[n].in = d /\ u[n].name = x /\ u[n].kind = t[n].kind /\ u[n] \in Nodes
        /\ u[n].data = t[n].data /\ u[n].target = t[n].target
    <3>1. u[n] = [t[n] EXCEPT !.in = d, !.name = x] BY <2>2, <2>9
    <3>2. t[n] \in Nodes BY <1>0, <2>9
    <3>. QED BY <2>3, <2>9, <3>1, <3>2 DEF Nodes
  <2>11. old \in Node => u[old].in = Nil /\ u[old] \in Nodes
    <3>1. SUFFICES ASSUME old \in Node PROVE u[old].in = Nil /\ u[old] \in Nodes
      OBVIOUS
    <3>2. u[old] = Unlink(t, old)[old] BY <1>3, <2>2, <3>1 DEF n, old
    <3>3. Unlink(t, old)[old] = [t[old] EXCEPT !.in = Nil]
      BY <1>0, <3>1 DEF Unlink
    <3>4. t[old] \in Nodes BY <1>0, <3>1
    <3>. QED BY <3>2, <3>3, <3>4 DEF Nodes
  <2>12. \A m \in Node : m # n /\ m # old => u[m] = t[m] BY <2>2
  <2>13. u \in [Node -> Nodes]
    <3>1. \A m \in Node : u[m] \in Nodes BY <1>0, <2>10, <2>11, <2>12
    <3>. QED BY <2>2, <3>1
  <2>14. Live(u) = Live(t) \ {old}
    <3>1. n # old BY <1>3 DEF n, old
    <3>2. ASSUME NEW m \in Node PROVE u[m].in # Nil <=> t[m].in # Nil /\ m # old
      <4>1. CASE m = n
        BY <2>4, <2>5, <2>9, <2>10, <3>1, <4>1, FileSystemAssumption DEF Live
      <4>2. CASE m = old BY <2>11, <3>1, <4>2
      <4>3. CASE m # n /\ m # old BY <2>12, <4>3
      <4>. QED BY <4>1, <4>2, <4>3
    <3>. QED BY <3>2 DEF Live
  <2>17. d \in Live(u) /\ u[d] = t[d]
    <3>1. d # old BY <2>1, <2>4, <2>9, FileSystemAssumption DEF old
    <3>. QED BY <2>4, <2>8, <2>9, <2>12, <2>14, <3>1 DEF n, d
  <2>18. old # n BY <1>3 DEF old, n
  <2>19. Renamed(t, u, n, d, x, old)
    BY <2>1, <2>3, <2>4, <2>5, <2>6, <2>7, <2>8, <2>10, <2>11, <2>12, <2>13, <2>14, <2>17, <2>18
    DEF Renamed
  <2>. QED BY <1>1, <1>2, <2>19 DEF n, d, x, old
<1>. QED BY <1>1, <1>2, <1>3, <1>4

(* and renamed or moved anywhere but below itself: no cycle comes of it.   *)
LEMMA RenameTree ==
    ASSUME NEW t, Tree(t), NEW from \in Places, NEW to \in Places, from # <<>>, to # <<>>,
           RenameNode(t, from, to) # Nil
    PROVE  Tree(RenameNode(t, from, to))
<1>. DEFINE n == Lstat(t, from)
            d == Stat(t, Front(to))
            x == Last(to)
            old == Lstat(t, to)
            u == RenameNode(t, from, to)
<1>0. Structured(t) /\ t \in [Node -> Nodes] BY DEF Tree, Structured
<1>. HIDE DEF n, d, x, old, u
<1>1. u = t \/ Renamed(t, u, n, d, x, old)
  BY RenameDef DEF n, d, x, old, u
<1>2. CASE u = t BY <1>2 DEF u
<1>3. CASE Renamed(t, u, n, d, x, old)
  <2>1. ~AtOrBelow(t, n, d) /\ (old # Nil => t[old].kind # "dir")
    BY <1>3 DEF Renamed
  <2>3. x \in STRING BY <1>3 DEF Renamed
  <2>4. d # Nil /\ d \in Live(t) /\ t[d].kind = "dir"
    BY <1>3, FileSystemAssumption DEF Renamed, Live
  <2>5. n \in Live(t) \ {Top} BY <1>3 DEF Renamed
  <2>6. old = Entry(t, d, x) /\ n # old BY <1>3 DEF Renamed
  <2>7. old # Nil => old \in Live(t) \ {Top} BY <1>3 DEF Renamed
  <2>8. n # d BY <1>3 DEF Renamed
  <2>9. n \in Node /\ d \in Node BY <2>4, <2>5 DEF Live
  <2>10. u[n].in = d /\ u[n].name = x /\ u[n].kind = t[n].kind
    BY <1>3 DEF Renamed
  <2>11. old \in Node => u[old].in = Nil BY <1>3 DEF Renamed
  <2>12. \A m \in Node : m # n /\ m # old => u[m] = t[m]
    BY <1>3 DEF Renamed
  <2>13. u \in [Node -> Nodes] BY <1>3 DEF Renamed
  <2>14. Live(u) = Live(t) \ {old} BY <1>3 DEF Renamed
  <2>15. ASSUME NEW e \in Node, NEW i \in Entries(u, e)
         PROVE  (i = n /\ e = d) \/ (i # n /\ i # old /\ i \in Entries(t, e) /\ u[i] = t[i])
    <3>1. i \in Node \ {Top} /\ u[i].in = e BY DEF Entries
    <3>2. e # Nil BY FileSystemAssumption
    <3>3. i # old BY <2>11, <3>1, <3>2
    <3>4. i # n => u[i] = t[i] /\ i \in Entries(t, e)
      BY <2>12, <3>1, <3>3 DEF Entries
    <3>5. i = n => e = d BY <2>10, <3>1
    <3>. QED BY <3>3, <3>4, <3>5
  <2>16. ASSUME NEW m \in Live(u) \ {Top}, m # n
         PROVE  /\ m \in Live(t) \ {Top} /\ u[m] = t[m]
                /\ t[m].in \in Live(u) /\ t[m].in \in Node
                /\ u[t[m].in].kind = "dir"
    <3>1. m \in Live(t) \ {Top} /\ m \in Node /\ m # old
      BY <2>14 DEF Live
    <3>2. t[m].in \in Live(t) /\ t[t[m].in].kind = "dir" /\ t[m].in \in Node
      BY <1>0, <3>1 DEF Structured, Live
    <3>3. t[m].in # old BY <2>1, <3>2, FileSystemAssumption
    <3>4. u[t[m].in].kind = "dir" BY <2>10, <2>12, <3>2, <3>3
    <3>. QED BY <2>12, <2>14, <2>16, <3>1, <3>2, <3>3, <3>4
  <2>17. d \in Live(u) /\ u[d] = t[d] BY <1>3 DEF Renamed
  <2>18. \A i \in Entries(t, d) : t[i].name = x => i = old
    <3>1. SUFFICES ASSUME NEW i \in Entries(t, d), t[i].name = x PROVE i = old
      OBVIOUS
    <3>2. i \in Live(t) \ {Top} /\ t[i].in = d
      BY <2>9, FileSystemAssumption DEF Entries, Live
    <3>3. Entry(t, t[i].in, t[i].name) = i BY <1>0, <3>2, EntryOf
    <3>. QED BY <2>6, <3>1, <3>2, <3>3
  <2>19. Structured(u)
    <3>1. u[Top].kind = "dir" /\ u[Top].in = Top
      <4>1. Top # n /\ Top # old /\ Top \in Node
        BY <1>0, <2>5, <2>7, TopLive
      <4>. QED BY <1>0, <2>12, <4>1 DEF Structured
    <3>2. /\ u[n].kind \in {"dir", "file", "link"} /\ u[n].name \in STRING
          /\ u[n].in \in Live(u) /\ u[u[n].in].kind = "dir"
          /\ \A i \in Entries(u, u[n].in) : u[i].name = u[n].name => i = n
      <4>1. t[n].kind \in {"dir", "file", "link"}
        BY <1>0, <2>5 DEF Structured
      <4>2. \A i \in Entries(u, d) : u[i].name = x => i = n
        BY <2>9, <2>15, <2>18
      <4>. QED BY <2>3, <2>4, <2>10, <2>17, <4>1, <4>2
    <3>3. ASSUME NEW m \in Live(u) \ {Top}, m # n
          PROVE  /\ u[m].kind \in {"dir", "file", "link"} /\ u[m].name \in STRING
                 /\ u[m].in \in Live(u) /\ u[u[m].in].kind = "dir"
                 /\ \A i \in Entries(u, u[m].in) : u[i].name = u[m].name => i = m
      <4>1. /\ m \in Live(t) \ {Top} /\ u[m] = t[m] /\ t[m].in \in Live(u)
            /\ t[m].in \in Node /\ u[t[m].in].kind = "dir" /\ m # old /\ m \in Node
        BY <2>14, <2>16, <3>3 DEF Live
      <4>2. /\ t[m].kind \in {"dir", "file", "link"} /\ t[m].name \in STRING
            /\ \A i \in Entries(t, t[m].in) : t[i].name = t[m].name => i = m
        BY <1>0, <4>1 DEF Structured
      <4>3. ASSUME NEW i \in Entries(u, t[m].in), u[i].name = t[m].name PROVE i = m
        <5>1. CASE i = n /\ t[m].in = d
          <6>1. t[m].name = x /\ m \in Entries(t, d)
            BY <2>10, <4>1, <4>3, <5>1 DEF Entries
          <6>. QED BY <2>18, <4>1, <6>1
        <5>2. CASE i \in Entries(t, t[m].in) /\ u[i] = t[i]
          BY <4>2, <4>3, <5>2
        <5>. QED BY <2>15, <4>1, <5>1, <5>2
      <4>. QED BY <4>1, <4>2, <4>3
    <3>4. ASSUME NEW m \in Live(u) \ {Top}
          PROVE  /\ u[m].kind \in {"dir", "file", "link"} /\ u[m].name \in STRING
                 /\ u[m].in \in Live(u) /\ u[u[m].in].kind = "dir"
                 /\ \A i \in Entries(u, u[m].in) : u[i].name = u[m].name => i = m
      <4>1. CASE m = n BY <3>2, <4>1
      <4>2. CASE m # n BY <3>3, <4>2
      <4>. QED BY <4>1, <4>2
    <3>. QED BY <2>13, <3>1, <3>4 DEF Structured
  <2>20. Acyclic(u)
    <3>1. SUFFICES ASSUME NEW S \in SUBSET (Live(u) \ {Top}), S # {},
                          \A m \in S : u[m].in \in S
                   PROVE  FALSE
      BY DEF Acyclic
    <3>. DEFINE R == {m \in S : ~AtOrBelow(t, n, m)}
    <3>2. R \in SUBSET (Live(t) \ {Top}) BY <2>14
    <3>3. \A m \in R : t[m].in \in R
      <4>1. ASSUME NEW m \in R PROVE t[m].in \in R
        <5>1. m \in Live(t) \ {Top} /\ ~AtOrBelow(t, n, m) BY <3>2
        <5>2. m # n /\ ~AtOrBelow(t, n, t[m].in)
          BY <2>5, <5>1, BelowDef
        <5>3. u[m] = t[m] BY <2>16, <5>2
        <5>. QED BY <3>1, <5>2, <5>3
      <4>. QED BY <4>1
    <3>4. R = {}
      <4>. HIDE DEF R
      <4>. QED BY <3>2, <3>3 DEF Tree, Acyclic
    <3>5. n \in S
      <4>1. SUFFICES ASSUME n \notin S PROVE FALSE OBVIOUS
      <4>2. S \in SUBSET (Live(t) \ {Top}) BY <2>14
      <4>3. \A m \in S : t[m].in \in S BY <2>16, <3>1, <4>1
      <4>. QED BY <3>1, <4>2, <4>3 DEF Tree, Acyclic
    <3>6. d \in R BY <2>1, <2>10, <3>1, <3>5
    <3>. QED BY <3>4, <3>6
  <2>. QED BY <2>19, <2>20 DEF Tree, u
<1>. QED BY <1>1, <1>2, <1>3 DEF u

-----------------------------------------------------------------------------
(* Sandbox.Resolve.                                                        *)

(* A set of numbers with a bound has a greatest one.                       *)
LEMMA GreatestBelow ==
    ASSUME NEW n \in Nat, NEW S, S \subseteq 0 .. n, S # {}
    PROVE  Max(S) \in S /\ \A i \in S : i <= Max(S)
<1>. DEFINE T == {n - i : i \in S}
<1>1. T \subseteq Nat /\ T # {}
  <2>1. \A i \in S : i \in 0 .. n /\ n - i \in Nat OBVIOUS
  <2>. QED BY <2>1
<1>2. PICK k \in T : \A j \in T : k <= j
  <2>. HIDE DEF T
  <2>. QED BY <1>1, LeastNatural
<1>3. PICK m \in S : k = n - m BY <1>2
<1>4. \A i \in S : m >= i
  <2>1. ASSUME NEW i \in S PROVE m >= i
    <3>1. n - i \in T OBVIOUS
    <3>2. n - m <= n - i BY <1>2, <1>3, <3>1
    <3>3. i \in Int /\ m \in Int OBVIOUS
    <3>. HIDE DEF T
    <3>. QED BY <3>2, <3>3
  <2>. QED BY <2>1
<1>5. \E x \in S : \A y \in S : x >= y BY <1>4
<1>6. Max(S) \in S /\ \A y \in S : Max(S) >= y BY <1>5 DEF Max
<1>. QED BY <1>6

(* The beginning of a path and the rest of it are paths.                   *)
LEMMA PrefixType ==
    ASSUME NEW path \in Places, NEW i \in 0 .. Len(path)
    PROVE  /\ SubSeq(path, 1, i) \in Places /\ Len(SubSeq(path, 1, i)) = i
           /\ SubSeq(path, i + 1, Len(path)) \in Places
<1>1. Len(path) \in Nat /\ \A j \in 1 .. Len(path) : path[j] \in STRING
  BY LenProperties DEF Places
<1>2. \A j \in 1 .. i : path[j] \in STRING BY <1>1
<1>3. \A j \in i + 1 .. Len(path) : path[j] \in STRING BY <1>1
<1>4. SubSeq(path, 1, i) \in Seq(STRING) /\ Len(SubSeq(path, 1, i)) = IF 1 <= i THEN i - 1 + 1 ELSE 0
  BY <1>1, <1>2, SubSeqProperties
<1>5. SubSeq(path, i + 1, Len(path)) \in Seq(STRING)
  BY <1>1, <1>3, SubSeqProperties
<1>. QED BY <1>1, <1>4, <1>5 DEF Places

(* The longest part that is there is followed by a name that is not.       *)
LEMMA DeepestExisting ==
    ASSUME NEW t, Tree(t), NEW path \in Places
    PROVE  LET i == deepestExisting(t, path) IN
           /\ i \in 0 .. Len(path)
           /\ Lstat(t, SubSeq(path, 1, i)) # Nil
           /\ i < Len(path) => Lstat(t, SubSeq(path, 1, i + 1)) = Nil
<1>. DEFINE there == {i \in 0 .. Len(path) : Lstat(t, SubSeq(path, 1, i)) # Nil}
<1>1. Len(path) \in Nat BY LenProperties DEF Places
<1>2. 0 \in there
  <2>1. SubSeq(path, 1, 0) = <<>> BY SubSeqEmpty
  <2>2. PathOf(t, Top) = <<>> /\ Top \in Live(t) /\ Top # Nil
    BY PathDef, TopLive DEF Tree
  <2>3. Lstat(t, PathOf(t, Top)) = Top BY <2>2, NodeFound
  <2>4. Lstat(t, SubSeq(path, 1, 0)) # Nil BY <2>1, <2>2, <2>3
  <2>5. 0 \in 0 .. Len(path) BY <1>1
  <2>. QED BY <2>4, <2>5
<1>3. there \subseteq 0 .. Len(path) /\ there # {} BY <1>2
<1>4. deepestExisting(t, path) = Max(there) BY DEF deepestExisting
<1>5. Max(there) \in there /\ \A i \in there : i <= Max(there)
  <2>. HIDE DEF there
  <2>. QED BY <1>1, <1>3, GreatestBelow
<1>. DEFINE i == Max(there)
<1>6. i \in 0 .. Len(path) /\ Lstat(t, SubSeq(path, 1, i)) # Nil
  BY <1>5
<1>7. i < Len(path) => Lstat(t, SubSeq(path, 1, i + 1)) = Nil
  <2>1. SUFFICES ASSUME i < Len(path), Lstat(t, SubSeq(path, 1, i + 1)) # Nil PROVE FALSE
    OBVIOUS
  <2>2. i + 1 \in 0 .. Len(path) BY <1>1, <1>6, <2>1
  <2>3. i + 1 \in there BY <2>1, <2>2
  <2>4. i \in Nat BY <1>6
  <2>5. i + 1 <= i BY <1>5, <2>3
  <2>. HIDE DEF i
  <2>. QED BY <2>4, <2>5
<1>. QED BY <1>4, <1>6, <1>7

(* A resolved path is that of what the path names, or of what is not there *)
LEMMA ResolveDef ==
    ASSUME NEW t, Tree(t), NEW path \in Places, Resolve(t, path) # Nil
    PROVE  /\ Resolve(t, path) \in Places
           /\ \/ /\ Stat(t, path) # Nil
                 /\ Resolve(t, path) = PathOf(t, Stat(t, path))
              \/ /\ Stat(t, Resolve(t, path)) = Nil
                 /\ Lstat(t, Resolve(t, path)) = Nil
<1>. DEFINE i == deepestExisting(t, path)
            q == SubSeq(path, 1, i)
            e == Stat(t, q)
            rest == SubSeq(path, i + 1, Len(path))
<1>0. Structured(t) /\ Len(path) \in Nat /\ path \in Seq(STRING)
  BY LenProperties DEF Tree, Places
<1>1. i \in 0 .. Len(path) /\ (i < Len(path) => Lstat(t, SubSeq(path, 1, i + 1)) = Nil)
  BY DeepestExisting
<1>2. e # Nil /\ Resolve(t, path) = PathOf(t, e) \o rest
  BY DEF Resolve
<1>. HIDE DEF i
<1>3. q \in Places /\ rest \in Places BY <1>1, PrefixType
<1>4. e \in Live(t) /\ t[e].kind # "link" /\ PathOf(t, e) \in Places /\ e \in Node
  BY <1>0, <1>2, <1>3, StatLive, PathDef DEF Live
<1>5. Resolve(t, path) \in Places
  <2>. HIDE DEF e, rest
  <2>. QED BY <1>2, <1>3, <1>4, ConcatProperties DEF Places
<1>6. CASE i = Len(path)
  <2>1. q = path BY <1>0, <1>6, SubSeqFull
  <2>2. rest = <<>> BY <1>0, <1>6, SubSeqEmpty
  <2>3. PathOf(t, e) \o <<>> = PathOf(t, e)
    BY <1>4, ConcatEmptySeq DEF Places
  <2>. QED BY <1>2, <1>5, <2>1, <2>2, <2>3
<1>7. CASE i < Len(path)
  <2>. DEFINE x == path[i + 1]
  <2>1. i + 1 \in 1 .. Len(path) /\ x \in STRING /\ i \in Nat
    BY <1>0, <1>1, <1>7, LenProperties
  <2>2. SubSeq(path, 1, i + 1) = Append(q, x)
    <3>1. SubSeq(path, 1, i + 1) = SubSeq(path, 1, i + 1 - 1) \o <<path[i + 1]>>
      BY <1>0, <2>1, SubSeqRecursiveSecond
    <3>2. i + 1 - 1 = i BY <2>1
    <3>3. Append(q, x) = q \o <<x>>
      <4>. HIDE DEF q, x
      <4>. QED BY <1>3, <2>1, AppendIsConcat DEF Places
    <3>. QED BY <3>1, <3>2, <3>3
  <2>3. Entry(t, e, x) = Nil
    <3>1. Lstat(t, Append(q, x)) = IF e = Nil THEN Nil ELSE Entry(t, e, x)
      <4>. HIDE DEF q, x
      <4>. QED BY <1>0, <1>3, <2>1, LstatAppend
    <3>. HIDE DEF e, x, q
    <3>. QED BY <1>1, <1>2, <1>7, <2>2, <3>1
  <2>4. rest # <<>> /\ Head(rest) = x
    <3>1. rest = <<x>> \o SubSeq(path, i + 1 + 1, Len(path))
      BY <1>0, <2>1, SubSeqRecursiveFirst
    <3>2. SubSeq(path, i + 1 + 1, Len(path)) \in Places
      BY <1>0, <2>1, PrefixType
    <3>. HIDE DEF rest, x
    <3>. QED BY <2>1, <3>1, <3>2, ConsProperties DEF Places
  <2>5. ASSUME NEW follow, NEW W, Walking(t, follow, W) PROVE W[Start(Resolve(t, path))] = Nil
    <3>. HIDE DEF e, rest, x
    <3>1. W[Start(Resolve(t, path))] = W[At(e, rest)]
      BY <1>2, <1>3, <1>4, <2>5, WalkOn
    <3>2. At(e, rest) \in Walks /\ At(e, rest).rest = rest /\ At(e, rest).at = e
      BY <1>3, <1>4, AtType DEF At
    <3>3. Found(t, At(e, rest)) = Nil BY <2>3, <2>4, <3>2 DEF Found
    <3>4. ~Passes(t, follow, At(e, rest)) /\ ~Leads(t, follow, At(e, rest))
      BY <3>3 DEF Passes, Leads
    <3>. QED BY <2>4, <2>5, <3>1, <3>2, <3>4 DEF Walking
  <2>6. PICK S : Walking(t, Through, S) BY <1>0, BothWalks
  <2>7. PICK L : Walking(t, UpTo, L) BY <1>0, BothWalks
  <2>. QED BY <1>0, <1>5, <2>5, <2>6, <2>7, BothWalks
<1>. QED BY <1>0, <1>1, <1>6, <1>7

(* What is opened below a scope is what the path names, at or below what   *)
(* the scope names.                                                        *)
LEMMA WithinScope ==
    ASSUME NEW t, Tree(t), NEW p \in Places, NEW q \in Places,
           Resolve(t, p) # Nil, Resolve(t, q) # Nil, IsPrefix(Resolve(t, p), Resolve(t, q)),
           Stat(t, Resolve(t, q)) # Nil
    PROVE  /\ Stat(t, Resolve(t, q)) = Stat(t, q)
           /\ AtOrBelow(t, Stat(t, p), Stat(t, q))
<1>. DEFINE n == Stat(t, q)
            from == Resolve(t, p)
<1>1. n # Nil /\ Resolve(t, q) = PathOf(t, n) BY ResolveDef
<1>2. n \in Live(t) /\ t[n].kind # "link" BY <1>1, StatLive DEF Tree
<1>3. Stat(t, PathOf(t, n)) = n BY <1>2, NodeFound
<1>4. from \in Places /\ IsPrefix(from, PathOf(t, n))
  BY <1>1, ResolveDef
<1>. HIDE DEF n, from
<1>5. PICK m \in Live(t) : PathOf(t, m) = from
  BY <1>2, <1>4, PrefixIsNode
<1>6. Lstat(t, from) = m /\ m # Nil
  BY <1>5, NodeFound, FileSystemAssumption DEF Live
<1>7. from = PathOf(t, Stat(t, p)) BY <1>6, ResolveDef DEF from
<1>. QED BY <1>1, <1>3, <1>4, <1>7 DEF AtOrBelow, n

-----------------------------------------------------------------------------
(* The life of a request.                                                  *)

(* How far a request is, and what it holds there.                          *)
Tasks == [from : Places, to : Places, dir : BOOLEAN]
Frames == [dir : Node, name : STRING, read : BOOLEAN]

Stages ==
    {"idle", "resolve", "resolveOther", "done", "mkdir", "create", "parents", "create file",
     "write", "remove", "open parent", "removing", "rename", "stat", "copy", "read directory",
     "open destination", "copy data", "open"}
PlacesOrNil == Places \union {Nil}
Todo == Seq(Places) \union Seq(Tasks) \union Seq(Frames)

Request ==
    [at : Stages, ask : Inputs \union {Nil}, from : PlacesOrNil, to : PlacesOrNil, todo : Todo,
     in : Node \union {Nil}, out : Node \union {Nil}, ok : BOOLEAN]

(* The steps of an operation.                                              *)
Within(op, at) ==
    \/ op \in {"mkdir", "create", "rename"} /\ at = op
    \/ op = "upload" /\ at \in {"parents", "create file", "write"}
    \/ op = "delete" /\ at \in {"remove", "open parent", "removing"}
    \/ op = "move" /\ at \in {"resolveOther", "parents", "rename"}
    \/ op = "copy" /\ at \in {"resolveOther", "stat", "copy", "read directory",
                                "open destination", "copy data"}
    \/ op = "open" /\ at \in {"resolveOther", "open"}

(* What a request holds when it is at a step.                              *)
Holds(q) ==
    /\ q.at # "idle" => q.ask \in Inputs
    /\ q.ok => q.at = "done" /\ (q.ask.op \in {"mkdir", "create"} => q.from \in Places)
    /\ q.at \notin {"idle", "resolve", "done"} =>
        /\ Within(q.ask.op, q.at) /\ q.from \in Places
        /\ q.ask.op \in {"delete", "rename", "move"} => q.from # <<>>
    /\ q.at \notin {"idle", "done"} /\ q.ask.op = "upload" =>
        q.todo \in Seq(Places) /\ q.todo # <<>>
    /\ q.at \in {"copy", "read directory", "open destination", "copy data"} =>
        q.todo \in Seq(Tasks) /\ q.todo # <<>>
    /\ q.at \in {"parents", "rename", "stat"} /\ q.ask.op \in {"move", "copy"} => q.to \in Places
    /\ q.at = "rename" /\ q.ask.op = "move" => q.to # <<>>
    /\ q.at = "removing" => q.todo \in Seq(Frames) /\ q.todo # <<>>
    /\ q.at \in {"open destination", "copy data"} => q.in \in Node
    /\ q.at = "open" => q.to \in Places

(* The invariant of trees and requests.                                    *)
Typed ==
    /\ Tree(tree)
    /\ req \in [Requests -> Request] /\ \A r \in Requests : Holds(req[r])
    /\ DOMAIN before = Requests /\ \A r \in Requests : before[r] # Nil => Tree(before[r])

(* What a request may ask for.                                             *)
LEMMA InputsType ==
    ASSUME NEW ask \in Inputs
    PROVE  /\ ask.op \in {"mkdir", "create", "delete", "rename", "move", "copy", "open", "upload"}
           /\ ask.path \in Places /\ ask.other \in Places
           /\ ask.op = "rename" => \E name \in STRING : ask.other = <<name>>
           /\ ask.op = "upload" => ask.files \in Uploads
           /\ ask.op # "upload" => ask.files = <<>>
BY FileTreeAssumption, Nowhere, Singleton DEF Inputs, Places

(* Resolve gives a path.                                                   *)
LEMMA ResolveType ==
    ASSUME NEW t, Tree(t), NEW path \in Places, Resolve(t, path) # Nil
    PROVE  Resolve(t, path) \in Places
BY ResolveDef

(* From it follows the type invariant.                                     *)
LEMMA TypedType ==
    ASSUME Typed
    PROVE  TypeOK
BY TreeWellformed DEF Typed, TypeOK, Request, PlacesOrNil

(* A request that has not come yet is one.                                 *)
LEMMA IdleType == Idle \in Request
<1>1. <<>> \in Todo
  <2>1. <<>> \in Seq(Places) OBVIOUS
  <2>. QED BY <2>1 DEF Todo
<1>2. Nil \in PlacesOrNil BY DEF PlacesOrNil
<1>. QED BY <1>1, <1>2 DEF Idle, Request, Stages

(* It holds in the beginning.                                              *)
LEMMA InitTyped == Init => Typed
<1>. SUFFICES ASSUME Init PROVE Typed OBVIOUS
<1>1. Tree(tree) BY FileTreeAssumption DEF Init, Tree
<1>2. Holds(Idle) BY DEF Idle, Holds
<1>. QED BY <1>1, <1>2, IdleType DEF Init, Typed

(* What a step of a request that has come in does.                         *)
Able(r, new) ==
    /\ new \in Request /\ Holds(new)
    /\ req[r].at \notin {"idle", "done"}
    /\ new.at # "idle" /\ new.ask = req[r].ask

Stays == tree' = tree /\ before' = before

Changes(r) ==
    /\ Tree(tree')
    /\ before' = [q \in Requests |-> IF q = r THEN before[r] ELSE Nil]
    /\ Op(r) # "open"
    /\ Op(r) \in {"delete", "rename", "move"} \/ Grows(tree, tree')

(* Who has made something new has found nothing there.                     *)
MadeNew(q) == q.ok /\ q.ask.op \in {"mkdir", "create"}
Created(new) == MadeNew(new) => Lstat(tree, new.from) = Nil /\ Lstat(tree', new.from) # Nil

Steps(r, new) ==
    /\ req' = [req EXCEPT ![r] = new] /\ Able(r, new)
    /\ Stays \/ Changes(r)
    /\ Created(new)

Advances(r) == \E new : Steps(r, new)

(* A request that advances keeps it,                                       *)
LEMMA AdvanceTyped ==
    ASSUME Typed, NEW r \in Requests, Advances(r)
    PROVE  Typed'
<1>1. PICK new : Steps(r, new) BY DEF Advances
<1>2. Tree(tree') /\ DOMAIN before' = Requests
      /\ \A q \in Requests : before'[q] # Nil => Tree(before'[q])
  BY <1>1 DEF Typed, Steps, Stays, Changes
<1>3. req' \in [Requests -> Request] /\ \A q \in Requests : Holds(req'[q])
  BY <1>1 DEF Typed, Steps, Able
<1>. QED BY <1>2, <1>3 DEF Typed

(* Steps that leave the tree alone, and steps that change it.              *)
LEMMA Going ==
    ASSUME NEW r \in Requests, NEW new, Able(r, new), GoesOn(r, new), ~MadeNew(new)
    PROVE  Advances(r)
BY DEF Advances, Steps, GoesOn, Stays, Created

(* A step that makes something is one that advances, if the tree has grown by *)
(* what is said to be new.                                                 *)
LEMMA Making ==
    ASSUME NEW r \in Requests, NEW new, NEW t, Able(r, new), Makes(r, t, new), Tree(t),
           Op(r) # "open", Op(r) \in {"delete", "rename", "move"} \/ Grows(tree, t),
           MadeNew(new) => Lstat(tree, new.from) = Nil /\ Lstat(t, new.from) # Nil
    PROVE  Advances(r)
BY DEF Advances, Steps, Makes, Changes, Created

(* and so does one that arrives.                                           *)
LEMMA ArriveTyped ==
    ASSUME Typed, NEW r \in Requests, NEW ask \in Inputs, Arrive(r, ask)
    PROVE  Typed'
<1>. DEFINE todo == [i \in DOMAIN ask.files |-> ask.path \o Filename(ask.files[i])]
            new == [Idle EXCEPT !.at = "resolve", !.ask = ask, !.todo = todo]
<1>1. todo \in Seq(Places) /\ (ask.op = "upload" => todo # <<>>)
  <2>1. CASE ask.op = "upload"
    <3>1. /\ ask.files \in Seq(Places) /\ ask.files # <<>>
          /\ \A i \in DOMAIN ask.files : ask.files[i] # <<>>
      BY <2>1, InputsType, FileTreeAssumption
    <3>2. Len(ask.files) \in Nat /\ DOMAIN ask.files = 1 .. Len(ask.files) /\ Len(ask.files) # 0
      BY <3>1, LenProperties
    <3>3. ASSUME NEW i \in DOMAIN ask.files PROVE ask.path \o Filename(ask.files[i]) \in Places
      <4>1. ask.files[i] \in Places /\ ask.files[i] # <<>>
        BY <3>1, <3>2, LenProperties
      <4>2. Last(ask.files[i]) \in STRING BY <4>1, FrontLast
      <4>3. Filename(ask.files[i]) \in Places
        BY <4>2, Singleton DEF Filename, Places
      <4>. QED BY <4>3, InputsType, ConcatProperties DEF Places
    <3>4. todo \in [1 .. Len(ask.files) -> Places] BY <3>2, <3>3
    <3>5. todo \in Seq(Places) /\ Len(todo) = Len(ask.files)
      <4>. HIDE DEF todo
      <4>. QED BY <3>2, <3>4
    <3>. QED BY <3>2, <3>5
  <2>2. CASE ask.op # "upload"
    <3>1. ask.files = <<>> BY <2>2, InputsType
    <3>2. todo = <<>> BY <3>1
    <3>3. <<>> \in Seq(Places) OBVIOUS
    <3>. QED BY <2>2, <3>2, <3>3
  <2>. QED BY <2>1, <2>2
<1>. HIDE DEF todo
<1>2. new \in Request /\ new.at = "resolve" /\ new.ask = ask /\ new.todo = todo /\ new.ok = FALSE
  <2>1. todo \in Todo BY <1>1 DEF Todo
  <2>2. Idle.ok = FALSE BY DEF Idle
  <2>. QED BY <2>1, <2>2, IdleType DEF Request, Stages
<1>3. Holds(new)
  <2>. HIDE DEF new
  <2>. QED BY <1>1, <1>2 DEF Holds
<1>4. req' = [req EXCEPT ![r] = new] /\ tree' = tree /\ before' = [before EXCEPT ![r] = tree]
  BY DEF Arrive, todo
<1>. HIDE DEF new
<1>. QED BY <1>2, <1>3, <1>4 DEF Typed

(* What Typed says of one request.                                         *)
LEMMA Current ==
    ASSUME Typed, NEW r \in Requests
    PROVE  /\ req[r] \in Request /\ Holds(req[r]) /\ Tree(tree)
           /\ req[r].at # "idle" => req[r].ask \in Inputs
BY DEF Typed, Holds

(* One lemma for each action: it is a step as above.                       *)
LEMMA FailsAdvances ==
    ASSUME Typed, NEW r \in Requests, Fails(r)
    PROVE  Advances(r)
<1>. DEFINE new == [req[r] EXCEPT !.at = "done"]
<1>1. GoesOn(r, new) /\ req[r].at \notin {"idle", "done"} BY DEF Fails
<1>2. new \in Request /\ new.at = "done" /\ new.ask = req[r].ask /\ new.ok = FALSE
  BY <1>1, Current DEF Request, Stages, Holds
<1>. HIDE DEF new
<1>3. Able(r, new) BY <1>1, <1>2, Current DEF Able, Holds
<1>4. ~MadeNew(new) BY <1>2 DEF MadeNew
<1>. QED BY <1>1, <1>3, <1>4, Going

LEMMA ResolvePathAdvances ==
    ASSUME Typed, NEW r \in Requests, ResolvePath(r)
    PROVE  Advances(r)
<1>. DEFINE from == Resolve(tree, req[r].ask.path)
            at == FirstStep[Op(r)]
            new == [req[r] EXCEPT !.at = at, !.from = from]
<1>1. /\ GoesOn(r, new) /\ req[r].at = "resolve" /\ Op(r) # "upload"
      /\ from # Nil /\ (Op(r) \in {"delete", "rename", "move"} => from # <<>>)
  BY DEF ResolvePath
<1>2. /\ Op(r) \in {"mkdir", "create", "delete", "rename", "move", "copy", "open"}
      /\ from \in Places
  BY <1>1, Current, InputsType, ResolveType DEF Op
<1>. HIDE DEF from
<1>3. /\ Op(r) \in {"mkdir", "create", "rename"} => at = Op(r)
      /\ Op(r) \in {"move", "copy", "open"} => at = "resolveOther"
      /\ Op(r) = "delete" => at = "remove"
  BY <1>2 DEF FirstStep
<1>. HIDE DEF at
<1>4. /\ new \in Request /\ new.at = at /\ new.ask = req[r].ask /\ new.ok = FALSE
      /\ new.from = from
  BY <1>1, <1>2, <1>3, Current DEF Request, Stages, Holds, PlacesOrNil
<1>. HIDE DEF new
<1>5. Holds(new)
  BY <1>1, <1>2, <1>3, <1>4, Current DEF Holds, Within, Op
<1>6. Able(r, new) /\ ~MadeNew(new)
  BY <1>1, <1>2, <1>3, <1>4, <1>5 DEF Able, MadeNew
<1>. QED BY <1>1, <1>6, Going

LEMMA ResolveUploadAdvances ==
    ASSUME Typed, NEW r \in Requests, ResolveUpload(r)
    PROVE  Advances(r)
<1>. DEFINE from == Resolve(tree, Head(req[r].todo))
            new == [req[r] EXCEPT !.at = "parents", !.from = from]
<1>1. /\ GoesOn(r, new) /\ req[r].at = "resolve" /\ Op(r) = "upload"
      /\ from # Nil
  BY DEF ResolveUpload
<1>2. from \in Places
  <2>1. req[r].todo \in Seq(Places) /\ req[r].todo # <<>>
    BY <1>1, Current DEF Holds, Op
  <2>2. Head(req[r].todo) \in Places BY <2>1, HeadTailProperties
  <2>. QED BY <1>1, <2>2, Current, ResolveType
<1>. HIDE DEF from
<1>3. /\ new \in Request /\ new.at = "parents" /\ new.ask = req[r].ask /\ new.ok = FALSE
      /\ new.from = from /\ new.todo = req[r].todo
  BY <1>1, <1>2, Current DEF Request, Stages, Holds, PlacesOrNil
<1>. HIDE DEF new
<1>4. Holds(new) BY <1>1, <1>2, <1>3, Current DEF Holds, Within, Op
<1>5. Able(r, new) /\ ~MadeNew(new)
  BY <1>1, <1>3, <1>4 DEF Able, MadeNew
<1>. QED BY <1>1, <1>5, Going

LEMMA ResolveOtherAdvances ==
    ASSUME Typed, NEW r \in Requests, ResolveDest(r) \/ ResolveWithin(r)
    PROVE  Advances(r)
<1>. DEFINE to == Resolve(tree, req[r].ask.other)
            at == IF Op(r) = "move" THEN "parents" ELSE IF Op(r) = "copy" THEN "stat" ELSE "open"
            new == [req[r] EXCEPT !.at = at, !.to = to]
<1>1. /\ GoesOn(r, new) /\ req[r].at = "resolveOther" /\ Op(r) \in {"move", "copy", "open"}
      /\ to # Nil
  BY DEF ResolveDest, ResolveWithin
<1>2. to \in Places BY <1>1, Current, InputsType, ResolveType DEF Op
<1>. HIDE DEF to
<1>3. /\ at \in {"parents", "stat", "open"} /\ (Op(r) = "move" => at = "parents")
      /\ (Op(r) = "copy" => at = "stat") /\ (Op(r) = "open" => at = "open")
  BY <1>1
<1>. HIDE DEF at
<1>4. /\ new \in Request /\ new.at = at /\ new.ask = req[r].ask /\ new.ok = FALSE
      /\ new.from = req[r].from /\ new.to = to
  BY <1>1, <1>2, <1>3, Current DEF Request, Stages, Holds, PlacesOrNil
<1>. HIDE DEF new
<1>5. Holds(new)
  BY <1>1, <1>2, <1>4, <1>3, Current DEF Holds, Within, Op
<1>6. Able(r, new) /\ ~MadeNew(new)
  BY <1>1, <1>4, <1>5, <1>3 DEF Able, MadeNew
<1>. QED BY <1>1, <1>6, Going

LEMMA MakeAdvances ==
    ASSUME Typed, NEW r \in Requests, MakeDirectory(r) \/ CreateFile(r)
    PROVE  Advances(r)
<1>. DEFINE from == req[r].from
            t == IF req[r].at = "mkdir" THEN Mkdir(tree, from) ELSE OpenNew(tree, from)
            new == Done(r)
<1>1. Makes(r, t, new) /\ t # Nil /\ req[r].at \in {"mkdir", "create"}
  BY DEF MakeDirectory, CreateFile, Makes
<1>2. from \in Places /\ Op(r) = req[r].at
  BY <1>1, Current DEF Holds, Within, Op
<1>. HIDE DEF from
<1>3. Tree(t) /\ Grows(tree, t) /\ Lstat(tree, from) = Nil /\ Lstat(t, from) # Nil
  BY <1>1, <1>2, Current, MkdirTree, OpenNewTree
<1>4. /\ new \in Request /\ new.at = "done" /\ new.ask = req[r].ask /\ new.ok = TRUE
      /\ new.from = from
  BY <1>1, Current DEF Done, Request, Stages, from
<1>. HIDE DEF new, t
<1>5. Able(r, new) BY <1>1, <1>2, <1>4, Current DEF Able, Holds, Op
<1>. QED BY <1>1, <1>2, <1>3, <1>4, <1>5, Making

LEMMA MkdirAllAdvances ==
    ASSUME Typed, NEW r \in Requests, NEW path \in Places, NEW step, MkdirAll(r, path, step),
           Op(r) # "open", req[r].at \notin {"idle", "done"},
           LET new == [req[r] EXCEPT !.at = step] IN Able(r, new) /\ ~MadeNew(new)
    PROVE  Advances(r)
<1>. DEFINE missing == {i \in 1 .. Len(path) : Lstat(tree, SubSeq(path, 1, i)) = Nil}
            p == SubSeq(path, 1, Min(missing))
            new == [req[r] EXCEPT !.at = step]
<1>1. CASE GoesOn(r, new)
  <2>. HIDE DEF new
  <2>1. Able(r, new) /\ ~MadeNew(new) BY DEF new
  <2>. QED BY <1>1, <2>1, Going
<1>2. CASE missing # {} /\ Makes(r, Mkdir(tree, p), req[r])
  <2>1. p \in Places
    <3>1. Len(path) \in Nat BY LenProperties DEF Places
    <3>2. missing \subseteq Nat OBVIOUS
    <3>3. Min(missing) \in missing
      <4>. HIDE DEF missing
      <4>. QED BY <1>2, <3>2, MinType
    <3>. QED BY <3>1, <3>3, PrefixType
  <2>2. Mkdir(tree, p) # Nil BY <1>2 DEF Makes
  <2>3. Tree(Mkdir(tree, p)) /\ Grows(tree, Mkdir(tree, p))
    BY <2>1, <2>2, Current, MkdirTree
  <2>4. Able(r, req[r]) /\ ~MadeNew(req[r])
    BY Current DEF Able, MadeNew, Holds
  <2>. QED BY <1>2, <2>3, <2>4, Making
<1>. QED BY <1>1, <1>2 DEF MkdirAll

LEMMA UploadMakesParentsAdvances ==
    ASSUME Typed, NEW r \in Requests, UploadMakesParents(r)
    PROVE  Advances(r)
<1>. DEFINE path == Front(req[r].from)
            new == [req[r] EXCEPT !.at = "create file"]
<1>1. /\ MkdirAll(r, path, "create file") /\ req[r].at = "parents" /\ Op(r) = "upload"
      /\ path \in Places
  BY Current, FrontLast DEF UploadMakesParents, Holds
<1>2. /\ new \in Request /\ new.at = "create file" /\ new.ask = req[r].ask /\ new.ok = FALSE
      /\ new.from = req[r].from /\ new.todo = req[r].todo
  BY <1>1, Current DEF Request, Stages, Holds
<1>3. Able(r, new) /\ ~MadeNew(new)
  <2>. HIDE DEF new
  <2>1. Holds(new) BY <1>1, <1>2, Current DEF Holds, Within, Op
  <2>. QED BY <1>1, <1>2, <2>1 DEF Able, MadeNew
<1>. HIDE DEF path
<1>. QED BY <1>1, <1>3, MkdirAllAdvances

LEMMA UploadOpensAdvances ==
    ASSUME Typed, NEW r \in Requests, UploadOpens(r)
    PROVE  Advances(r)
<1>. DEFINE from == req[r].from
            t == OpenTruncated(tree, from)
            out == Stat(t, from)
            new == [req[r] EXCEPT !.at = "write", !.out = out]
<1>1. Makes(r, t, new) /\ t # Nil /\ req[r].at = "create file"
  BY DEF UploadOpens
<1>2. from \in Places /\ Op(r) = "upload" /\ req[r].todo \in Seq(Places) /\ req[r].todo # <<>>
  BY <1>1, Current DEF Holds, Within, Op
<1>3. Tree(t) /\ Grows(tree, t)
  BY <1>1, <1>2, Current, OpenTruncatedTree
<1>4. out \in Node \union {Nil} BY <1>2, <1>3, StatLive DEF Tree, Live
<1>. HIDE DEF from, t, out
<1>5. /\ new \in Request /\ new.at = "write" /\ new.ask = req[r].ask /\ new.ok = FALSE
      /\ new.from = from /\ new.todo = req[r].todo
  BY <1>1, <1>4, Current DEF Request, Stages, Holds, from
<1>. HIDE DEF new
<1>6. Holds(new) BY <1>1, <1>2, <1>5, Current DEF Holds, Within, Op
<1>7. Able(r, new) /\ ~MadeNew(new)
  BY <1>1, <1>5, <1>6 DEF Able, MadeNew
<1>. QED BY <1>1, <1>2, <1>3, <1>7, Making

LEMMA UploadWritesAdvances ==
    ASSUME Typed, NEW r \in Requests, UploadWrites(r)
    PROVE  Advances(r)
<1>. DEFINE rest == Tail(req[r].todo)
            t == Holding(tree, req[r].out, r)
            new == IF rest = <<>> THEN Done(r)
                   ELSE [req[r] EXCEPT !.at = "resolve", !.todo = rest]
<1>1. Makes(r, t, new) /\ req[r].at = "write"
  BY DEF UploadWrites, Holding
<1>2. Op(r) = "upload" /\ req[r].todo \in Seq(Places) /\ req[r].todo # <<>>
  BY <1>1, Current DEF Holds, Within, Op
<1>3. rest \in Seq(Places) /\ rest \in Todo
  BY <1>2, HeadTailProperties DEF Todo
<1>4. r \in Contents BY DEF Contents
<1>. HIDE DEF t, rest
<1>5. Tree(t) /\ Grows(tree, t) BY <1>4, Current, DataTree DEF t
<1>6. /\ new \in Request /\ new.ask = req[r].ask /\ new.at \in {"done", "resolve"}
      /\ new.ok = (new.at = "done")
      /\ new.at = "resolve" => new.todo \in Seq(Places) /\ new.todo # <<>>
  <2>1. req[r] \in Request /\ req[r].ok = FALSE
    BY <1>1, Current DEF Request, Holds
  <2>2. CASE rest = <<>> BY <2>1, <2>2 DEF Request, Stages, Done
  <2>3. CASE rest # <<>> BY <1>3, <2>1, <2>3 DEF Request, Stages
  <2>. QED BY <2>2, <2>3
<1>. HIDE DEF new
<1>7. Holds(new) BY <1>1, <1>2, <1>6, Current DEF Holds, Op
<1>8. Able(r, new) /\ ~MadeNew(new)
  BY <1>1, <1>2, <1>6, <1>7 DEF Able, MadeNew, Op
<1>. QED BY <1>1, <1>2, <1>5, <1>8, Making

(* To be done with ok is a state a request may be in.                      *)
LEMMA DoneAble ==
    ASSUME Typed, NEW r \in Requests, req[r].at \notin {"idle", "done"},
           Op(r) \notin {"mkdir", "create"}
    PROVE  Able(r, Done(r)) /\ ~MadeNew(Done(r))
<1>. DEFINE new == Done(r)
<1>1. /\ new \in Request /\ new.at = "done" /\ new.ask = req[r].ask /\ new.ok = TRUE
  BY Current DEF Done, Request, Stages
<1>. HIDE DEF new
<1>2. Holds(new) BY <1>1, Current DEF Holds, Op
<1>3. Able(r, new) /\ ~MadeNew(new)
  BY <1>1, <1>2 DEF Able, MadeNew, Op
<1>. QED BY <1>3 DEF new

(* A stack whose last element is replaced and which grows keeps its first, *)
LEMMA Stacked ==
    ASSUME NEW S, NEW s \in Seq(S), s # <<>>, NEW x \in S, NEW e \in Seq(S)
    PROVE  LET u == Append(Front(s), x) \o e IN
           /\ u \in Seq(S) /\ u # <<>>
           /\ u[1] = IF Front(s) = <<>> THEN x ELSE s[1]
<1>. DEFINE f == Front(s)
            p == Append(f, x)
            u == p \o e
<1>1. f \in Seq(S) /\ Last(s) \in S /\ s = Append(f, Last(s))
  BY FrontLastOfSeq
<1>. HIDE DEF f
<1>2. /\ p \in Seq(S) /\ Len(p) = Len(f) + 1 /\ Len(f) \in Nat
      /\ \A i \in 1 .. Len(f) : p[i] = f[i] /\ s[i] = f[i]
      /\ p[Len(f) + 1] = x
  <2>. DEFINE y == Last(s)
  <2>1. y \in S /\ s = Append(f, y) BY <1>1
  <2>. HIDE DEF y
  <2>2. \A i \in 1 .. Len(f) : s[i] = f[i]
    BY <1>1, <2>1, AppendProperties
  <2>. QED BY <1>1, <2>2, AppendProperties, LenProperties
<1>. HIDE DEF p
<1>3. /\ u \in Seq(S) /\ Len(u) = Len(p) + Len(e) /\ Len(e) \in Nat
      /\ \A i \in 1 .. Len(p) : u[i] = p[i]
  <2>1. /\ u \in Seq(S) /\ Len(u) = Len(p) + Len(e)
        /\ \A i \in 1 .. Len(p) + Len(e) : u[i] = IF i <= Len(p) THEN p[i] ELSE e[i - Len(p)]
    BY <1>2, ConcatProperties
  <2>2. Len(p) \in Nat /\ Len(e) \in Nat BY <1>2, LenProperties
  <2>. HIDE DEF u
  <2>. QED BY <2>1, <2>2
<1>. HIDE DEF u
<1>4. u # <<>> /\ u[1] = p[1]
  <2>1. Len(u) # 0 /\ 1 \in 1 .. Len(p) BY <1>2, <1>3
  <2>. QED BY <1>3, <2>1, EmptySeq
<1>5. p[1] = IF f = <<>> THEN x ELSE s[1]
  <2>1. CASE f = <<>> BY <1>2, <2>1
  <2>2. CASE f # <<>>
    <3>1. Len(f) # 0 BY <1>1, <2>2, EmptySeq
    <3>. QED BY <1>2, <2>2, <3>1
  <2>. QED BY <2>1, <2>2
<1>. QED BY <1>3, <1>4, <1>5 DEF u, p, f

(* and so does one that loses its last, if anything is left.               *)
LEMMA Popped ==
    ASSUME NEW S, NEW s \in Seq(S), s # <<>>
    PROVE  /\ Front(s) \in Seq(S) /\ Last(s) \in S
           /\ IF Front(s) = <<>> THEN Last(s) = s[1] ELSE Front(s)[1] = s[1]
<1>. DEFINE f == Front(s)
<1>1. f \in Seq(S) /\ Last(s) \in S /\ s = Append(f, Last(s))
  BY FrontLastOfSeq
<1>. HIDE DEF f
<1>2. /\ Len(f) \in Nat /\ \A i \in 1 .. Len(f) : s[i] = f[i]
      /\ s[Len(f) + 1] = Last(s)
  <2>. DEFINE x == Last(s)
  <2>1. x \in S /\ s = Append(f, x) BY <1>1
  <2>. HIDE DEF x
  <2>2. /\ \A i \in 1 .. Len(f) : Append(f, x)[i] = f[i]
        /\ Append(f, x)[Len(f) + 1] = x
    BY <1>1, <2>1, AppendProperties
  <2>. QED BY <1>1, <2>1, <2>2, LenProperties DEF x
<1>3. CASE f = <<>> BY <1>1, <1>2, <1>3 DEF f
<1>4. CASE f # <<>>
  <2>1. Len(f) # 0 BY <1>1, <1>4, EmptySeq
  <2>. QED BY <1>1, <1>2, <1>4, <2>1 DEF f
<1>. QED BY <1>3, <1>4

(* The entries of a directory, as what is to be removed.                   *)
LEMMA EntriesDoomed ==
    ASSUME NEW t, NEW d, NEW X, \A n \in Entries(t, d) : Doomed(d, t[n].name) \in X,
           NEW s \in SetToSeqs({Doomed(d, t[n].name) : n \in Entries(t, d)})
    PROVE  s \in Seq(X)
<1>. DEFINE doomed(n) == Doomed(d, t[n].name)
            S == {doomed(n) : n \in Entries(t, d)}
            f == [n \in Entries(t, d) |-> doomed(n)]
            k == Cardinality(S)
<1>1. IsFiniteSet(Entries(t, d))
  <2>1. IsFiniteSet(Node)
    BY FileSystemAssumption, FS_Interval DEF Node
  <2>2. Entries(t, d) \in SUBSET Node BY DEF Entries
  <2>. QED BY <2>1, <2>2, FS_Subset
<1>2. f \in Surjection(Entries(t, d), S) BY DEF Surjection
<1>3. S \subseteq X OBVIOUS
<1>. HIDE DEF f
<1>4. IsFiniteSet(S) BY <1>1, <1>2, FS_Surjection
<1>5. s \in [1 .. k -> S] BY DEF SetToSeqs
<1>. HIDE DEF S
<1>6. k \in Nat BY <1>4, FS_CardinalityType
<1>. HIDE DEF k
<1>7. s \in [1 .. k -> X] BY <1>3, <1>5
<1>. QED BY <1>6, <1>7

(* os.RemoveAll first tries the name itself,                               *)
LEMMA RemoveOneAdvances ==
    ASSUME Typed, NEW r \in Requests, RemoveOne(r)
    PROVE  Advances(r)
<1>. DEFINE from == req[r].from
            n == Lstat(tree, from)
            new == [req[r] EXCEPT !.at = "open parent"]
<1>1. /\ req[r].at = "remove"
      /\ \/ GoesOn(r, Done(r))
         \/ n # Nil /\ Entries(tree, n) = {} /\ Makes(r, Unlink(tree, n), Done(r))
         \/ GoesOn(r, new)
  BY DEF RemoveOne
<1>2. Op(r) = "delete" /\ from \in Places /\ from # <<>>
  BY <1>1, Current DEF Holds, Within, Op
<1>3. Able(r, Done(r)) /\ ~MadeNew(Done(r)) BY <1>1, <1>2, DoneAble
<1>4. CASE GoesOn(r, Done(r)) BY <1>3, <1>4, Going
<1>5. CASE n # Nil /\ Entries(tree, n) = {} /\ Makes(r, Unlink(tree, n), Done(r))
  <2>1. n \in Live(tree) \ {Top}
    <3>1. Structured(tree) BY Current DEF Tree
    <3>2. n = Entry(tree, Stat(tree, Front(from)), Last(from)) /\ Stat(tree, Front(from)) # Nil
      BY <1>2, <1>5, <3>1, LstatLast
    <3>3. Stat(tree, Front(from)) \in Node
      BY <1>2, <3>1, <3>2, FrontLast, StatLive DEF Live
    <3>. QED BY <1>5, <3>2, <3>3, EntryLive
  <2>. HIDE DEF n, from
  <2>2. Tree(Unlink(tree, n)) BY <1>5, <2>1, Current, UnlinkTree
  <2>. QED BY <1>2, <1>3, <1>5, <2>2, Making
<1>6. CASE GoesOn(r, new)
  <2>1. /\ new \in Request /\ new.at = "open parent" /\ new.ask = req[r].ask /\ new.ok = FALSE
        /\ new.from = req[r].from
    BY <1>1, Current DEF Request, Stages, Holds
  <2>. HIDE DEF new
  <2>2. Holds(new)
    BY <1>1, <1>2, <2>1, Current DEF Holds, Within, Op, from
  <2>3. Able(r, new) /\ ~MadeNew(new)
    BY <1>1, <2>1, <2>2 DEF Able, MadeNew
  <2>. QED BY <1>6, <2>3, Going
<1>. QED BY <1>1, <1>4, <1>5, <1>6

(* What a removal goes on with.                                            *)
LEMMA RemovingAble ==
    ASSUME Typed, NEW r \in Requests, req[r].at \in {"open parent", "removing"},
           NEW todo \in Seq(Frames), todo # <<>>,
           NEW new, new = [req[r] EXCEPT !.at = "removing", !.todo = todo]
    PROVE  Able(r, new) /\ ~MadeNew(new)
<1>1. Op(r) = "delete" /\ req[r].from \in Places /\ req[r].from # <<>> /\ ~req[r].ok
  BY Current DEF Holds, Within, Op
<1>2. todo \in Todo BY DEF Todo
<1>3. /\ new \in Request /\ new.at = "removing" /\ new.ask = req[r].ask /\ new.ok = FALSE
      /\ new.from = req[r].from /\ new.todo = todo
  BY <1>1, <1>2, Current DEF Request, Stages, Holds
<1>4. Holds(new) BY <1>1, <1>3, Current DEF Holds, Within, Op
<1>. QED BY <1>3, <1>4 DEF Able, MadeNew

(* then opens the directory it is in,                                      *)
LEMMA RemoveOpensParentAdvances ==
    ASSUME Typed, NEW r \in Requests, RemoveOpensParent(r)
    PROVE  Advances(r)
<1>. DEFINE from == req[r].from
            dir == Stat(tree, Front(from))
            frame == Doomed(dir, Last(from))
            new == [req[r] EXCEPT !.at = "removing", !.todo = <<frame>>]
<1>1. /\ req[r].at = "open parent"
      /\ GoesOn(r, Done(r)) \/ (IsDir(tree, Front(from)) /\ GoesOn(r, new))
  BY DEF RemoveOpensParent
<1>2. Op(r) = "delete" /\ from \in Places /\ from # <<>>
  BY <1>1, Current DEF Holds, Within, Op
<1>3. CASE GoesOn(r, Done(r)) BY <1>1, <1>2, <1>3, DoneAble, Going
<1>4. CASE IsDir(tree, Front(from)) /\ GoesOn(r, new)
  <2>1. dir \in Node /\ Last(from) \in STRING
    BY <1>2, <1>4, Current, FrontLast, StatLive DEF IsDir, Tree, Live
  <2>. HIDE DEF dir, from
  <2>2. frame \in Frames BY <2>1 DEF Doomed, Frames
  <2>. HIDE DEF frame
  <2>3. <<frame>> \in Seq(Frames) /\ <<frame>> # <<>>
    BY <2>2, Singleton
  <2>4. Able(r, new) /\ ~MadeNew(new) BY <1>1, <2>3, RemovingAble
  <2>. QED BY <1>4, <2>4, Going
<1>. QED BY <1>1, <1>3, <1>4

(* What a removal holds, and what is entered there.                        *)
LEMMA RemovingHolds ==
    ASSUME Typed, NEW r \in Requests, req[r].at = "removing"
    PROVE  /\ Op(r) = "delete" /\ req[r].todo \in Seq(Frames) /\ req[r].todo # <<>>
           /\ Last(req[r].todo) \in Frames /\ Front(req[r].todo) \in Seq(Frames)
           /\ req[r] = [req[r] EXCEPT !.at = "removing"]
           /\ Entered(r) # Nil =>
                Entered(r) \in Live(tree) \ {Top} /\ Entered(r) \in Entries(tree, Last(req[r].todo).dir)
                /\ tree[Entered(r)].name = Last(req[r].todo).name
<1>1. Op(r) = "delete" /\ req[r].todo \in Seq(Frames) /\ req[r].todo # <<>> /\ req[r] \in Request
  BY Current DEF Holds, Within, Op
<1>2. Last(req[r].todo) \in Frames /\ Front(req[r].todo) \in Seq(Frames)
  BY <1>1, FrontLastOfSeq
<1>3. req[r] = [req[r] EXCEPT !.at = "removing"] BY <1>1 DEF Request
<1>. DEFINE d == Last(req[r].todo).dir
            name == Last(req[r].todo).name
<1>4. d \in Node /\ Entered(r) = Entry(tree, d, name)
  BY <1>2 DEF Frames, Entered
<1>. HIDE DEF d, name
<1>5. Entered(r) # Nil =>
        Entered(r) \in Live(tree) \ {Top} /\ Entered(r) \in Entries(tree, d)
        /\ tree[Entered(r)].name = name
  BY <1>4, EntryLive, EntryType DEF Entries
<1>. QED BY <1>1, <1>2, <1>3, <1>5 DEF d, name

(* and goes on with what is left.                                          *)
LEMMA RemoveRestAble ==
    ASSUME Typed, NEW r \in Requests, req[r].at = "removing"
    PROVE  Able(r, RemoveRest(r)) /\ ~MadeNew(RemoveRest(r))
<1>. DEFINE rest == Front(req[r].todo)
            new == [req[r] EXCEPT !.at = "removing", !.todo = rest]
<1>1. Op(r) = "delete" /\ rest \in Seq(Frames) /\ req[r] \in Request
  BY RemovingHolds, Current
<1>2. CASE rest = <<>> BY <1>1, <1>2, DoneAble DEF RemoveRest
<1>3. CASE rest # <<>>
  <2>1. RemoveRest(r) = new BY <1>1, <1>3 DEF RemoveRest, Request
  <2>2. new = [req[r] EXCEPT !.at = "removing", !.todo = rest] OBVIOUS
  <2>. HIDE DEF new, rest
  <2>3. Able(r, new) /\ ~MadeNew(new)
    BY <1>1, <1>3, <2>2, RemovingAble
  <2>. QED BY <2>1, <2>3
<1>. QED BY <1>2, <1>3

(* What is removed after that is entries of what it met, by name,          *)
LEMMA RemoveReadsDirAdvances ==
    ASSUME Typed, NEW r \in Requests, RemoveReadsDir(r)
    PROVE  Advances(r)
<1>. DEFINE n == Entered(r)
            todo == req[r].todo
            frame == [Last(todo) EXCEPT !.read = TRUE]
<1>1. req[r].at = "removing" /\ n # Nil BY DEF RemoveReadsDir
<1>2. PICK entries \in SetToSeqs({Doomed(n, tree[m].name) : m \in Entries(tree, n)}) :
            GoesOn(r, [req[r] EXCEPT !.todo = Append(Front(todo), frame) \o entries])
  BY DEF RemoveReadsDir
<1>. DEFINE next == Append(Front(todo), frame) \o entries
            new == [req[r] EXCEPT !.at = "removing", !.todo = next]
<1>3. todo \in Seq(Frames) /\ todo # <<>> /\ Last(todo) \in Frames /\ n \in Node
  BY <1>1, RemovingHolds DEF Live
<1>4. frame \in Frames BY <1>3 DEF Frames
<1>5. ASSUME NEW m \in Entries(tree, n) PROVE Doomed(n, tree[m].name) \in Frames
  <2>1. m \in Live(tree) \ {Top}
    BY <1>3, FileSystemAssumption DEF Entries, Live
  <2>2. tree[m].name \in STRING BY <2>1, Current DEF Tree, Structured
  <2>. QED BY <1>3, <2>2 DEF Doomed, Frames
<1>6. entries \in Seq(Frames) BY <1>5, EntriesDoomed
<1>. HIDE DEF frame, n
<1>7. next \in Seq(Frames) /\ next # <<>>
  <2>. HIDE DEF todo
  <2>. QED BY <1>3, <1>4, <1>6, Stacked
<1>8. new = [req[r] EXCEPT !.todo = next] BY <1>1, Current DEF Request
<1>. HIDE DEF next
<1>9. Able(r, new) /\ ~MadeNew(new) BY <1>1, <1>7, RemovingAble
<1>. QED BY <1>2, <1>8, <1>9, Going DEF next

(* the deepest first.                                                      *)
LEMMA RemoveNextAdvances ==
    ASSUME Typed, NEW r \in Requests, RemoveNext(r)
    PROVE  Advances(r)
<1>. DEFINE n == Entered(r)
<1>1. /\ req[r].at = "removing"
      /\ \/ GoesOn(r, RemoveRest(r))
         \/ n # Nil /\ Entries(tree, n) = {} /\ Makes(r, Unlink(tree, n), RemoveRest(r))
  BY DEF RemoveNext
<1>2. Op(r) = "delete" /\ Able(r, RemoveRest(r)) /\ ~MadeNew(RemoveRest(r))
  BY <1>1, RemovingHolds, RemoveRestAble
<1>3. CASE GoesOn(r, RemoveRest(r)) BY <1>2, <1>3, Going
<1>4. CASE n # Nil /\ Entries(tree, n) = {} /\ Makes(r, Unlink(tree, n), RemoveRest(r))
  <2>1. n \in Live(tree) \ {Top} BY <1>1, <1>4, RemovingHolds
  <2>. HIDE DEF n
  <2>2. Tree(Unlink(tree, n)) BY <1>4, <2>1, Current, UnlinkTree
  <2>. QED BY <1>2, <1>4, <2>2, Making
<1>. QED BY <1>1, <1>3, <1>4

LEMMA RenameAdvances ==
    ASSUME Typed, NEW r \in Requests, Rename(r) \/ Move(r)
    PROVE  Advances(r)
<1>. DEFINE from == req[r].from
            to == IF Op(r) = "rename" THEN Front(from) \o req[r].ask.other ELSE req[r].to
            t == RenameNode(tree, from, to)
<1>1. Makes(r, t, Done(r)) /\ t # Nil /\ req[r].at = "rename" /\ Op(r) \in {"rename", "move"}
  BY DEF Rename, Move, Makes
<1>2. from \in Places /\ from # <<>> BY <1>1, Current DEF Holds, Op
<1>3. to \in Places /\ to # <<>>
  <2>1. CASE Op(r) = "rename"
    <3>1. PICK name \in STRING : req[r].ask.other = <<name>>
      BY <1>1, <2>1, Current, InputsType DEF Op
    <3>2. Front(from) \in Places BY <1>2, FrontLast
    <3>3. Front(from) \o <<name>> = Append(Front(from), name)
      BY <3>2, AppendIsConcat DEF Places
    <3>4. Append(Front(from), name) \in Places /\ Append(Front(from), name) # <<>>
      BY <3>2, AppendProperties DEF Places
    <3>. QED BY <2>1, <3>1, <3>3, <3>4
  <2>2. CASE Op(r) = "move" BY <1>1, <2>2, Current DEF Holds, Op
  <2>. QED BY <1>1, <2>1, <2>2
<1>. HIDE DEF from, to
<1>4. Tree(t) BY <1>1, <1>2, <1>3, Current, RenameTree
<1>. HIDE DEF t
<1>5. Able(r, Done(r)) /\ ~MadeNew(Done(r)) BY <1>1, DoneAble
<1>. QED BY <1>1, <1>4, <1>5, Making

LEMMA MoveMakesParentsAdvances ==
    ASSUME Typed, NEW r \in Requests, MoveMakesParents(r)
    PROVE  Advances(r)
<1>. DEFINE path == Front(req[r].to)
            new == [req[r] EXCEPT !.at = "rename"]
<1>1. /\ MkdirAll(r, path, "rename") /\ req[r].at = "parents" /\ Op(r) = "move"
      /\ req[r].to \in Places /\ req[r].to # <<>>
  BY Current DEF MoveMakesParents, Holds, Op
<1>2. path \in Places BY <1>1, FrontLast
<1>3. /\ new \in Request /\ new.at = "rename" /\ new.ask = req[r].ask /\ new.ok = FALSE
      /\ new.from = req[r].from /\ new.to = req[r].to
  BY <1>1, Current DEF Request, Stages, Holds
<1>4. Able(r, new) /\ ~MadeNew(new)
  <2>. HIDE DEF new
  <2>1. Holds(new) BY <1>1, <1>3, Current DEF Holds, Within, Op
  <2>. QED BY <1>1, <1>3, <2>1 DEF Able, MadeNew
<1>. HIDE DEF path
<1>. QED BY <1>1, <1>2, <1>4, MkdirAllAdvances

(* Entries are finitely many, and can be listed.                           *)
LEMMA SetToSeqType ==
    ASSUME NEW X, NEW S, IsFiniteSet(S), S \subseteq X
    PROVE  SetToSeq(S) \in Seq(X)
<1>. DEFINE n == Cardinality(S)
<1>1. n \in Nat /\ ExistsBijection(1 .. n, S) BY FS_CardinalityType
<1>2. PICK f \in [1 .. n -> S] : \A a, b \in 1 .. n : f[a] = f[b] => a = b
  BY <1>1 DEF ExistsBijection, Bijection, Injection, IsInjective
<1>3. SetToSeq(S) \in [1 .. n -> S] BY <1>2 DEF SetToSeq, IsInjective
<1>. HIDE DEF n
<1>4. SetToSeq(S) \in [1 .. n -> X] BY <1>3
<1>. QED BY <1>1, <1>4

(* The entries of a directory, as tasks below those of the directory.      *)
EntryTask(t, n, from, to) == Task(t, n, Append(from, t[n].name), Append(to, t[n].name))
Listed(t, d, from, to) == SetToSeq({EntryTask(t, n, from, to) : n \in Entries(t, d)})

(* The tasks for the entries of a directory are of any set that has each.  *)
LEMMA EntriesListed ==
    ASSUME NEW t, NEW d, NEW from, NEW to, NEW X,
           \A n \in Entries(t, d) : EntryTask(t, n, from, to) \in X
    PROVE  Listed(t, d, from, to) \in Seq(X)
<1>. DEFINE task(n) == EntryTask(t, n, from, to)
            tasks == {task(n) : n \in Entries(t, d)}
            f == [n \in Entries(t, d) |-> task(n)]
<1>1. IsFiniteSet(Entries(t, d))
  <2>1. IsFiniteSet(Node)
    BY FileSystemAssumption, FS_Interval DEF Node
  <2>2. Entries(t, d) \in SUBSET Node BY DEF Entries
  <2>. QED BY <2>1, <2>2, FS_Subset
<1>2. f \in Surjection(Entries(t, d), tasks) BY DEF Surjection
<1>3. tasks \subseteq X OBVIOUS
<1>. HIDE DEF f
<1>4. IsFiniteSet(tasks) BY <1>1, <1>2, FS_Surjection
<1>. HIDE DEF tasks
<1>5. SetToSeq(tasks) \in Seq(X) BY <1>3, <1>4, SetToSeqType
<1>. QED BY <1>5 DEF tasks, Listed

(* They are tasks.                                                         *)
LEMMA EntriesTasks ==
    ASSUME NEW t, Structured(t), NEW d \in Node, NEW from \in Places, NEW to \in Places
    PROVE  Listed(t, d, from, to) \in Seq(Tasks)
<1>1. ASSUME NEW n \in Entries(t, d)
      PROVE  EntryTask(t, n, from, to) \in Tasks
  <2>1. n \in Live(t) \ {Top}
    BY FileSystemAssumption DEF Entries, Live
  <2>2. t[n].name \in STRING BY <2>1 DEF Structured
  <2>3. Append(from, t[n].name) \in Places /\ Append(to, t[n].name) \in Places
    BY <2>2, AppendProperties DEF Places
  <2>. QED BY <2>2, <2>3 DEF EntryTask, Task, Tasks
<1>. QED BY <1>1, EntriesListed

(* The next state of a copy is one a request may be in.                    *)
LEMMA CopyNextAble ==
    ASSUME Typed, NEW r \in Requests, NEW todo \in Seq(Tasks), Op(r) = "copy",
           req[r].at \in {"stat", "read directory", "copy data"}
    PROVE  Able(r, CopyNext(r, todo)) /\ ~MadeNew(CopyNext(r, todo))
<1>. DEFINE new == [req[r] EXCEPT !.at = "copy", !.todo = todo]
<1>1. CASE todo = <<>> BY <1>1, DoneAble DEF CopyNext
<1>2. CASE todo # <<>>
  <2>1. todo \in Todo BY DEF Todo
  <2>2. /\ new \in Request /\ new.at = "copy" /\ new.ask = req[r].ask /\ new.ok = FALSE
        /\ new.from = req[r].from /\ new.todo = todo
    BY <2>1, Current DEF Request, Stages, Holds
  <2>3. CopyNext(r, todo) = new BY <1>2 DEF CopyNext
  <2>. HIDE DEF new
  <2>4. Holds(new) BY <1>2, <2>2, Current DEF Holds, Within, Op
  <2>. QED BY <2>2, <2>3, <2>4 DEF Able, MadeNew
<1>. QED BY <1>1, <1>2

LEMMA CopyStatsAdvances ==
    ASSUME Typed, NEW r \in Requests, CopyStats(r)
    PROVE  Advances(r)
<1>. DEFINE task == Task(tree, Stat(tree, req[r].from), req[r].from, req[r].to)
<1>1. GoesOn(r, CopyNext(r, <<task>>)) /\ req[r].at = "stat"
  BY DEF CopyStats
<1>2. Op(r) = "copy" /\ req[r].from \in Places /\ req[r].to \in Places
  BY <1>1, Current DEF Holds, Within, Op
<1>3. task \in Tasks BY <1>2 DEF Task, Tasks
<1>. HIDE DEF task
<1>4. <<task>> \in Seq(Tasks) BY <1>3, Singleton
<1>. QED BY <1>1, <1>2, <1>4, CopyNextAble, Going

(* A copy at work has a task.                                              *)
LEMMA HeadTask ==
    ASSUME Typed, NEW r \in Requests,
           req[r].at \in {"copy", "read directory", "open destination", "copy data"}
    PROVE  /\ req[r].todo \in Seq(Tasks) /\ req[r].todo # <<>>
           /\ Head(req[r].todo).from \in Places /\ Head(req[r].todo).to \in Places
           /\ Tail(req[r].todo) \in Seq(Tasks)
           /\ Op(r) = "copy"
<1>1. req[r].todo \in Seq(Tasks) /\ req[r].todo # <<>> /\ Op(r) = "copy"
  BY Current DEF Holds, Within, Op
<1>2. Head(req[r].todo) \in Tasks /\ Tail(req[r].todo) \in Seq(Tasks)
  BY <1>1, HeadTailProperties
<1>. QED BY <1>1, <1>2 DEF Tasks

LEMMA CopyMakesDirAdvances ==
    ASSUME Typed, NEW r \in Requests, CopyMakesDir(r)
    PROVE  Advances(r)
<1>. DEFINE path == Head(req[r].todo).to
            new == [req[r] EXCEPT !.at = "read directory"]
<1>1. MkdirAll(r, path, "read directory") /\ req[r].at = "copy"
  BY DEF CopyMakesDir
<1>2. Op(r) = "copy" /\ path \in Places BY <1>1, HeadTask
<1>3. /\ new \in Request /\ new.at = "read directory" /\ new.ask = req[r].ask /\ new.ok = FALSE
      /\ new.from = req[r].from /\ new.todo = req[r].todo
  BY <1>1, Current DEF Request, Stages, Holds
<1>4. Able(r, new) /\ ~MadeNew(new)
  <2>. HIDE DEF new
  <2>1. Holds(new) BY <1>1, <1>2, <1>3, Current DEF Holds, Within, Op
  <2>. QED BY <1>1, <1>3, <2>1 DEF Able, MadeNew
<1>. HIDE DEF path
<1>. QED BY <1>1, <1>2, <1>4, MkdirAllAdvances

LEMMA CopyReadsDirAdvances ==
    ASSUME Typed, NEW r \in Requests, CopyReadsDir(r)
    PROVE  Advances(r)
<1>. DEFINE head == Head(req[r].todo)
            d == Stat(tree, head.from)
            tasks == Listed(tree, d, head.from, head.to)
            todo == tasks \o Tail(req[r].todo)
<1>1. req[r].at = "read directory" /\ IsDir(tree, head.from) /\ GoesOn(r, CopyNext(r, todo))
  BY DEF CopyReadsDir, Listed, EntryTask
<1>2. Op(r) = "copy" /\ head.from \in Places /\ head.to \in Places
      /\ Tail(req[r].todo) \in Seq(Tasks)
  BY <1>1, HeadTask
<1>3. Structured(tree) BY Current DEF Tree
<1>4. d \in Node BY <1>1, <1>2, <1>3, StatLive DEF IsDir, Live
<1>5. tasks \in Seq(Tasks)
  <2>. HIDE DEF head, d
  <2>. QED BY <1>2, <1>3, <1>4, EntriesTasks
<1>. HIDE DEF tasks, head, d
<1>6. todo \in Seq(Tasks) BY <1>2, <1>5, ConcatProperties
<1>. HIDE DEF todo
<1>. QED BY <1>1, <1>2, <1>6, CopyNextAble, Going

(* A copy of a file opens the source,                                      *)
LEMMA CopyOpensSourceAdvances ==
    ASSUME Typed, NEW r \in Requests, CopyOpensSource(r)
    PROVE  Advances(r)
<1>. DEFINE in == Stat(tree, Head(req[r].todo).from)
            new == [req[r] EXCEPT !.at = "open destination", !.in = in]
<1>1. GoesOn(r, new) /\ in # Nil /\ req[r].at = "copy"
  BY DEF CopyOpensSource
<1>2. Op(r) = "copy" /\ Head(req[r].todo).from \in Places
  BY <1>1, HeadTask
<1>3. in \in Node BY <1>1, <1>2, Current, StatLive DEF Tree, Live
<1>. HIDE DEF in
<1>4. /\ new \in Request /\ new.at = "open destination" /\ new.ask = req[r].ask
      /\ new.ok = FALSE /\ new.from = req[r].from /\ new.todo = req[r].todo /\ new.in = in
  BY <1>1, <1>3, Current DEF Request, Stages, Holds
<1>. HIDE DEF new
<1>5. Holds(new)
  BY <1>1, <1>2, <1>3, <1>4, Current DEF Holds, Within, Op
<1>6. Able(r, new) /\ ~MadeNew(new)
  BY <1>1, <1>4, <1>5 DEF Able, MadeNew
<1>. QED BY <1>1, <1>6, Going

(* then the destination.                                                   *)
LEMMA CopyOpensDestAdvances ==
    ASSUME Typed, NEW r \in Requests, CopyOpensDest(r)
    PROVE  Advances(r)
<1>. DEFINE to == Head(req[r].todo).to
            t == OpenTruncated(tree, to)
            out == Stat(t, to)
            new == [req[r] EXCEPT !.at = "copy data", !.out = out]
<1>1. Makes(r, t, new) /\ t # Nil /\ req[r].at = "open destination"
  BY DEF CopyOpensDest
<1>2. Op(r) = "copy" /\ to \in Places BY <1>1, HeadTask
<1>. HIDE DEF to
<1>3. Tree(t) /\ Grows(tree, t)
  BY <1>1, <1>2, Current, OpenTruncatedTree
<1>4. out \in Node \union {Nil}
  BY <1>1, <1>2, <1>3, Current, StatLive DEF Tree, Live
<1>. HIDE DEF t, out
<1>5. /\ new \in Request /\ new.at = "copy data" /\ new.ask = req[r].ask /\ new.ok = FALSE
      /\ new.from = req[r].from /\ new.todo = req[r].todo /\ new.in = req[r].in
  BY <1>1, <1>4, Current DEF Request, Stages, Holds
<1>. HIDE DEF new
<1>6. Holds(new) BY <1>1, <1>2, <1>5, Current DEF Holds, Within, Op
<1>7. Able(r, new) /\ ~MadeNew(new)
  BY <1>1, <1>5, <1>6 DEF Able, MadeNew
<1>. QED BY <1>1, <1>2, <1>3, <1>7, Making

LEMMA CopyDataAdvances ==
    ASSUME Typed, NEW r \in Requests, CopyData(r)
    PROVE  Advances(r)
<1>. DEFINE data == tree[req[r].in].data
            t == Holding(tree, req[r].out, data)
            todo == Tail(req[r].todo)
<1>1. Makes(r, t, CopyNext(r, todo)) /\ req[r].at = "copy data"
  BY DEF CopyData, Holding
<1>2. Op(r) = "copy" /\ todo \in Seq(Tasks) BY <1>1, HeadTask
<1>3. data \in Contents
  <2>1. req[r].in \in Node BY <1>1, Current DEF Holds
  <2>. QED BY <2>1, Current, NodeFields DEF Tree, Structured
<1>. HIDE DEF data
<1>4. Tree(t) /\ Grows(tree, t) BY <1>3, Current, DataTree
<1>. HIDE DEF t, todo
<1>. QED BY <1>1, <1>2, <1>4, CopyNextAble, Making

LEMMA OpenAdvances ==
    ASSUME Typed, NEW r \in Requests, Open(r)
    PROVE  Advances(r)
<1>. DEFINE in == Stat(tree, req[r].to)
            new == [Done(r) EXCEPT !.in = in]
<1>1. GoesOn(r, new) /\ in # Nil /\ req[r].at = "open" BY DEF Open
<1>2. Op(r) = "open" /\ req[r].to \in Places
  BY <1>1, Current DEF Holds, Within, Op
<1>3. in \in Node BY <1>1, <1>2, Current, StatLive DEF Tree, Live
<1>. HIDE DEF in
<1>4. Able(r, Done(r)) /\ ~MadeNew(Done(r)) BY <1>1, <1>2, DoneAble
<1>5. /\ new \in Request /\ new.at = "done" /\ new.ask = req[r].ask /\ new.ok = TRUE
  BY <1>1, <1>3, Current DEF Done, Request, Stages
<1>. HIDE DEF new
<1>6. Holds(new) BY <1>1, <1>2, <1>5, Current DEF Holds, Op
<1>7. Able(r, new) /\ ~MadeNew(new)
  BY <1>1, <1>2, <1>5, <1>6 DEF Able, MadeNew, Op
<1>. QED BY <1>1, <1>7, Going

-----------------------------------------------------------------------------
(* The theorems on trees, on what is made, and on shares.                  *)

(* Every action is a step that advances,                                   *)
LEMMA NextAdvances ==
    ASSUME Typed, NEW r \in Requests,
           Fails(r) \/ ResolvePath(r) \/ ResolveUpload(r) \/ ResolveDest(r) \/ ResolveWithin(r)
           \/ MakeDirectory(r) \/ CreateFile(r) \/ UploadMakesParents(r) \/ UploadOpens(r)
           \/ UploadWrites(r) \/ RemoveOne(r) \/ RemoveOpensParent(r) \/ RemoveReadsDir(r)
           \/ RemoveNext(r) \/ Rename(r) \/ MoveMakesParents(r) \/ Move(r) \/ CopyStats(r)
           \/ CopyMakesDir(r) \/ CopyReadsDir(r) \/ CopyOpensSource(r) \/ CopyOpensDest(r)
           \/ CopyData(r) \/ Open(r)
    PROVE  Advances(r)
BY FailsAdvances, ResolvePathAdvances, ResolveUploadAdvances, ResolveOtherAdvances, MakeAdvances,
   UploadMakesParentsAdvances, UploadOpensAdvances, UploadWritesAdvances, RemoveOneAdvances,
   RemoveOpensParentAdvances, RemoveReadsDirAdvances, RemoveNextAdvances, RenameAdvances,
   MoveMakesParentsAdvances, CopyStatsAdvances, CopyMakesDirAdvances, CopyReadsDirAdvances,
   CopyOpensSourceAdvances, CopyOpensDestAdvances, CopyDataAdvances, OpenAdvances

(* so that every step advances or brings one request, or none.             *)
LEMMA NextSteps ==
    ASSUME Typed, [Next]_vars
    PROVE  \/ UNCHANGED vars
           \/ \E r \in Requests : Advances(r) \/ \E ask \in Inputs : Arrive(r, ask)
BY NextAdvances DEF Next

(* Typed is inductive.                                                     *)
LEMMA TypedInductive == Typed /\ [Next]_vars => Typed'
<1>. SUFFICES ASSUME Typed, [Next]_vars PROVE Typed' OBVIOUS
<1>1. CASE UNCHANGED vars BY <1>1 DEF vars, Typed
<1>2. ASSUME NEW r \in Requests, Advances(r) PROVE Typed'
  BY <1>2, AdvanceTyped
<1>3. ASSUME NEW r \in Requests, NEW ask \in Inputs, Arrive(r, ask) PROVE Typed'
  BY <1>3, ArriveTyped
<1>. QED BY <1>1, <1>2, <1>3, NextSteps

(* At every moment, between the calls of any number of requests, the tree is *)
(* one - every node in a directory, under a name of its own, and found by the *)
(* path that leads to it - and requests hold what fits the step they are at. *)
THEOREM FileTypeCorrect == Spec => []TypeOK
<1>1. Spec => []Typed BY InitTyped, TypedInductive, PTL DEF Spec
<1>. QED BY <1>1, TypedType, PTL

(* Nobody takes anything away, so all that was newly made is still there.  *)
Taken == \E s \in Requests : req[s].at # "idle" /\ Op(s) \in {"delete", "rename", "move"}

Made == \A r \in Requests : MadeNew(req[r]) => Lstat(tree, req[r].from) # Nil

(* Either somebody has come to take something away, or no two have made the *)
(* same.                                                                   *)
Once == Taken \/ (Made /\ CreatedOnce)

(* No request has made anything in the beginning.                          *)
LEMMA InitOnce == Init => Once
BY DEF Init, Once, Made, MadeNew, CreatedOnce, Idle

(* Nor has a request that arrives.                                         *)
LEMMA ArriveOnce ==
    ASSUME Typed, Once, NEW r \in Requests, NEW ask \in Inputs, Arrive(r, ask)
    PROVE  Once'
<1>. DEFINE new == [Idle EXCEPT !.at = "resolve", !.ask = ask,
                    !.todo = [i \in DOMAIN ask.files |-> ask.path \o Filename(ask.files[i])]]
<1>1. tree' = tree /\ req' = [req EXCEPT ![r] = new] /\ req[r].at = "idle"
  BY DEF Arrive
<1>2. new.ok = FALSE /\ new.at = "resolve" BY DEF Idle
<1>. HIDE DEF new
<1>3. req'[r] = new /\ \A q \in Requests \ {r} : req'[q] = req[q]
  BY <1>1 DEF Typed
<1>4. Taken => Taken' BY <1>1, <1>3 DEF Taken, Op
<1>5. Made => Made' BY <1>1, <1>2, <1>3 DEF Made, MadeNew
<1>6. CreatedOnce /\ ~Taken => CreatedOnce' \/ Taken'
  BY <1>2, <1>3 DEF CreatedOnce, Taken, Op
<1>. QED BY <1>4, <1>5, <1>6 DEF Once

(* Who makes something new finds nothing there; those that made something  *)
(* before still find theirs.                                               *)
LEMMA AdvanceOnce ==
    ASSUME Typed, Once, NEW r \in Requests, Advances(r)
    PROVE  Once'
<1>1. PICK new : Steps(r, new) BY DEF Advances
<1>2. /\ req'[r] = new /\ \A q \in Requests \ {r} : req'[q] = req[q]
      /\ new.ask = req[r].ask /\ new.at # "idle" /\ req[r].at # "idle" /\ ~req[r].ok
  BY <1>1, Current DEF Typed, Steps, Able, Holds
<1>3. CASE Taken BY <1>2, <1>3 DEF Once, Taken, Op
<1>4. CASE ~Taken
  <2>1. Made /\ CreatedOnce BY <1>4 DEF Once
  <2>2. Tree(tree') /\ Grows(tree, tree')
    <3>1. Stays \/ Changes(r) BY <1>1 DEF Steps
    <3>2. CASE Stays BY <3>2, Current DEF Stays, Grows
    <3>3. CASE Changes(r) BY <1>2, <1>4, <3>3 DEF Changes, Taken
    <3>. QED BY <3>1, <3>2, <3>3
  <2>3. ASSUME NEW q \in Requests, q # r, MadeNew(req[q])
        PROVE  Lstat(tree, req[q].from) # Nil /\ Lstat(tree', req[q].from) # Nil
    <3>1. req[q].from \in Places BY <2>3, Current DEF Holds, MadeNew
    <3>. QED BY <2>1, <2>2, <2>3, <3>1, Current, FoundStaysFound DEF Made, Tree
  <2>4. Made' BY <1>1, <1>2, <2>3 DEF Made, MadeNew, Steps, Created
  <2>5. CreatedOnce'
    <3>1. SUFFICES ASSUME NEW p \in Requests, NEW q \in Requests, p # q,
                          MadeNew(req'[p]), MadeNew(req'[q]), req'[p].from = req'[q].from
                   PROVE  \E s \in Requests : req'[s].at # "idle"
                              /\ req'[s].ask.op \in {"delete", "rename", "move"}
      BY DEF CreatedOnce, MadeNew, Op
    <3>2. CASE p = r
      BY <1>1, <1>2, <2>3, <3>1, <3>2 DEF Steps, Created
    <3>3. CASE q = r
      BY <1>1, <1>2, <2>3, <3>1, <3>3 DEF Steps, Created
    <3>4. CASE p # r /\ q # r
      <4>1. req[p].at = "done" /\ req[q].at = "done"
        BY <1>2, <3>1, <3>4, Current DEF Holds, MadeNew
      <4>. QED BY <1>2, <1>4, <2>1, <3>1, <3>4, <4>1 DEF CreatedOnce, MadeNew, Op, Taken
    <3>. QED BY <3>2, <3>3, <3>4
  <2>. QED BY <2>4, <2>5 DEF Once
<1>. QED BY <1>3, <1>4

(* Of any number of requests that make the same new file or directory one  *)
(* succeeds (os.Mkdir, and O_EXCL in CreateFile), as long as nobody deletes, *)
(* renames or moves.                                                       *)
THEOREM NewOnesAreMadeOnce == Spec => []CreatedOnce
<1>1. Init => Typed /\ Once BY InitTyped, InitOnce
<1>2. Typed /\ Once /\ [Next]_vars => (Typed /\ Once)'
  <2>. SUFFICES ASSUME Typed, Once, [Next]_vars PROVE Once'
    BY TypedInductive
  <2>1. CASE UNCHANGED vars
    BY <2>1 DEF vars, Once, Taken, Made, MadeNew, CreatedOnce, Op
  <2>. QED BY <2>1, NextSteps, ArriveOnce, AdvanceOnce
<1>3. Once => CreatedOnce BY DEF Once, Taken, CreatedOnce
<1>. QED BY <1>1, <1>2, <1>3, PTL DEF Spec

(* What the resolved paths of a reader are, while nobody changes the tree. *)
Scoped(r) ==
    /\ req[r].at = "idle" => before[r] = Nil
    /\ req[r].at # "idle" /\ Op(r) = "open" /\ before[r] # Nil =>
        /\ tree = before[r]
        /\ req[r].at \in {"resolveOther", "open"} =>
            req[r].from # Nil /\ req[r].from = Resolve(tree, req[r].ask.path)
        /\ req[r].at = "open" =>
            /\ req[r].to # Nil /\ req[r].to = Resolve(tree, req[r].ask.other)
            /\ IsPrefix(req[r].from, req[r].to)
        /\ req[r].at = "done" /\ req[r].ok =>
            /\ req[r].in = Stat(tree, req[r].ask.other)
            /\ AtOrBelow(tree, Stat(tree, req[r].ask.path), req[r].in)

AllScoped == \A r \in Requests : Scoped(r)

(* In the beginning nothing is open.                                       *)
LEMMA InitScoped == Init => AllScoped
BY DEF Init, AllScoped, Scoped, Idle

(* From it follows the property.                                           *)
LEMMA ScopedType ==
    ASSUME Typed, AllScoped
    PROVE  ReadsWithinScope
BY DEF Typed, AllScoped, Scoped, ReadsWithinScope, Undisturbed

(* A request that arrives has nothing open.                                *)
LEMMA ArriveScoped ==
    ASSUME Typed, AllScoped, NEW r \in Requests, NEW ask \in Inputs, Arrive(r, ask)
    PROVE  AllScoped'
<1>. DEFINE new == [Idle EXCEPT !.at = "resolve", !.ask = ask,
                    !.todo = [i \in DOMAIN ask.files |-> ask.path \o Filename(ask.files[i])]]
<1>1. /\ tree' = tree /\ req' = [req EXCEPT ![r] = new]
      /\ before' = [before EXCEPT ![r] = tree]
  BY DEF Arrive
<1>2. new.at = "resolve" BY DEF Idle
<1>. HIDE DEF new
<1>3. /\ req'[r] = new /\ before'[r] = tree
      /\ \A q \in Requests \ {r} : req'[q] = req[q] /\ before'[q] = before[q]
  BY <1>1 DEF Typed
<1>4. ASSUME NEW q \in Requests PROVE Scoped(q)'
  <2>1. CASE q = r BY <1>1, <1>2, <1>3, <2>1 DEF Scoped
  <2>2. CASE q # r BY <1>1, <1>3, <2>2 DEF AllScoped, Scoped, Op
  <2>. QED BY <2>1, <2>2
<1>. QED BY <1>4 DEF AllScoped

(* The others are not touched by a step of r, or cannot tell any more.     *)
LEMMA AdvanceOthersScoped ==
    ASSUME Typed, AllScoped, NEW r \in Requests, Advances(r), NEW q \in Requests, q # r
    PROVE  Scoped(q)'
<1>1. PICK new : Steps(r, new) BY DEF Advances
<1>2. req'[q] = req[q] BY <1>1 DEF Typed, Steps
<1>3. CASE Stays BY <1>2, <1>3 DEF Stays, AllScoped, Scoped, Op
<1>4. CASE Changes(r)
  <2>1. before'[q] = Nil BY <1>4 DEF Changes
  <2>. QED BY <1>2, <2>1 DEF Scoped
<1>. QED BY <1>1, <1>3, <1>4 DEF Steps

(* Every step of a request keeps to its scope.                             *)
LEMMA AdvanceScoped ==
    ASSUME Typed, AllScoped, NEW r \in Requests, Advances(r),
           \/ Op(r) # "open"
           \/ Fails(r)
           \/ ResolvePath(r)
           \/ ResolveWithin(r)
           \/ Open(r)
    PROVE  Scoped(r)'
<1>1. PICK new : Steps(r, new) BY DEF Advances
<1>2. req'[r] = new /\ new.ask = req[r].ask /\ req[r].at \notin {"idle", "done"} /\ new.at # "idle"
  BY <1>1 DEF Typed, Steps, Able
<1>3. CASE Op(r) # "open" BY <1>2, <1>3 DEF Scoped, Op
<1>4. CASE Op(r) = "open"
  <2>1. tree' = tree /\ before' = before
    BY <1>1, <1>4 DEF Steps, Stays, Changes
  <2>2. SUFFICES ASSUME before[r] # Nil
        PROVE  /\ tree = before[r]
               /\ new.at \in {"resolveOther", "open"} =>
                    new.from # Nil /\ new.from = Resolve(tree, req[r].ask.path)
               /\ new.at = "open" =>
                    /\ new.to # Nil /\ new.to = Resolve(tree, req[r].ask.other)
                    /\ IsPrefix(new.from, new.to)
               /\ new.at = "done" /\ new.ok =>
                    /\ new.in = Stat(tree, req[r].ask.other)
                    /\ AtOrBelow(tree, Stat(tree, req[r].ask.path), new.in)
    BY <1>2, <2>1 DEF Scoped
  <2>3. tree = before[r] BY <1>2, <1>4, <2>2 DEF AllScoped, Scoped
  <2>4. req[r] \in Request /\ req'[r] = new /\ req \in [Requests -> Request]
    BY <1>2, Current DEF Typed
  <2>5. CASE Fails(r)
    <3>1. new = [req[r] EXCEPT !.at = "done"]
      BY <2>4, <2>5 DEF Fails, GoesOn
    <3>2. new.at = "done" /\ new.ok = FALSE
      BY <1>2, <2>4, <3>1, Current DEF Request, Holds
    <3>. QED BY <2>3, <3>2
  <2>6. CASE ResolvePath(r)
    <3>. DEFINE from == Resolve(tree, req[r].ask.path)
    <3>1. new = [req[r] EXCEPT !.at = FirstStep[Op(r)], !.from = from] /\ from # Nil
      BY <2>4, <2>6 DEF ResolvePath, GoesOn
    <3>2. FirstStep[Op(r)] = "resolveOther" BY <1>4 DEF FirstStep
    <3>. HIDE DEF from
    <3>3. new.at = "resolveOther" /\ new.from = from
      BY <2>4, <3>1, <3>2 DEF Request
    <3>. QED BY <2>3, <3>1, <3>3 DEF from
  <2>7. CASE ResolveWithin(r)
    <3>. DEFINE to == Resolve(tree, req[r].ask.other)
    <3>1. /\ new = [req[r] EXCEPT !.at = "open", !.to = to] /\ to # Nil
          /\ IsPrefix(req[r].from, to) /\ req[r].at = "resolveOther"
      BY <2>4, <2>7 DEF ResolveWithin, GoesOn
    <3>. HIDE DEF to
    <3>2. new.at = "open" /\ new.to = to /\ new.from = req[r].from
      BY <2>4, <3>1 DEF Request
    <3>3. req[r].from # Nil /\ req[r].from = Resolve(tree, req[r].ask.path)
      BY <1>4, <2>2, <3>1 DEF AllScoped, Scoped
    <3>. QED BY <2>3, <3>1, <3>2, <3>3 DEF to
  <2>8. CASE Open(r)
    <3>. DEFINE in == Stat(tree, req[r].to)
    <3>1. new = [Done(r) EXCEPT !.in = in] /\ in # Nil /\ req[r].at = "open"
      BY <2>4, <2>8 DEF Open, GoesOn
    <3>. HIDE DEF in
    <3>2. new.at = "done" /\ new.in = in
      BY <2>4, <3>1 DEF Request, Done
    <3>3. /\ req[r].from # Nil /\ req[r].from = Resolve(tree, req[r].ask.path)
          /\ req[r].to # Nil /\ req[r].to = Resolve(tree, req[r].ask.other)
          /\ IsPrefix(req[r].from, req[r].to)
      BY <1>4, <2>2, <3>1 DEF AllScoped, Scoped
    <3>4. req[r].ask.path \in Places /\ req[r].ask.other \in Places
      BY <1>2, Current, InputsType
    <3>5. in = Stat(tree, req[r].ask.other)
          /\ AtOrBelow(tree, Stat(tree, req[r].ask.path), Stat(tree, req[r].ask.other))
      BY <3>1, <3>3, <3>4, Current, WithinScope DEF in
    <3>. QED BY <2>3, <3>2, <3>5
  <2>. QED BY <1>4, <2>5, <2>6, <2>7, <2>8
<1>. QED BY <1>3, <1>4

(* The actions of the other operations open nothing for reading.           *)
LEMMA OtherOperations ==
    ASSUME Typed, NEW r \in Requests,
           \/ ResolveUpload(r) \/ ResolveDest(r) \/ MakeDirectory(r) \/ CreateFile(r)
           \/ UploadMakesParents(r) \/ UploadOpens(r) \/ UploadWrites(r) \/ RemoveOne(r)
           \/ RemoveOpensParent(r) \/ RemoveReadsDir(r) \/ RemoveNext(r) \/ Rename(r)
           \/ MoveMakesParents(r) \/ Move(r) \/ CopyStats(r) \/ CopyMakesDir(r)
           \/ CopyReadsDir(r) \/ CopyOpensSource(r) \/ CopyOpensDest(r) \/ CopyData(r)
    PROVE  Op(r) # "open"
<1>1. \/ Op(r) \in {"upload", "move", "copy", "rename"}
      \/ req[r].at \in {"mkdir", "create", "create file", "write", "remove", "open parent",
                        "removing", "stat", "copy", "read directory", "open destination",
                        "copy data"}
  BY DEF ResolveUpload, ResolveDest, MakeDirectory, CreateFile, UploadMakesParents, UploadOpens,
         UploadWrites, RemoveOne, RemoveOpensParent, RemoveReadsDir, RemoveNext, Rename,
         MoveMakesParents, Move, CopyStats, CopyMakesDir, CopyReadsDir, CopyOpensSource,
         CopyOpensDest, CopyData
<1>. QED BY <1>1, Current DEF Holds, Within, Op

(* The invariant of what is opened is kept.                                *)
LEMMA ScopedInductive ==
    ASSUME Typed, AllScoped, [Next]_vars
    PROVE  AllScoped'
<1>1. CASE UNCHANGED vars BY <1>1 DEF vars, AllScoped, Scoped, Op
<1>2. ASSUME NEW r \in Requests, NEW ask \in Inputs, Arrive(r, ask) PROVE AllScoped'
  BY <1>2, ArriveScoped
<1>3. ASSUME NEW r \in Requests, Advances(r),
             Op(r) # "open" \/ Fails(r) \/ ResolvePath(r) \/ ResolveWithin(r) \/ Open(r)
      PROVE  AllScoped'
  BY <1>3, AdvanceScoped, AdvanceOthersScoped DEF AllScoped
<1>. QED BY <1>1, <1>2, <1>3, NextAdvances, OtherOperations DEF Next

(* What ResolveWithin lets through and os.Open then opens is what the path *)
(* names and lies at or below the scope, whatever links there are on either *)
(* way, for any tree, if no other request changes it in between.           *)
THEOREM SharesAreOneSubtree == Spec => []ReadsWithinScope
<1>1. Init => Typed /\ AllScoped BY InitTyped, InitScoped
<1>2. Typed /\ AllScoped /\ [Next]_vars => (Typed /\ AllScoped)'
  BY TypedInductive, ScopedInductive
<1>3. Typed /\ AllScoped => ReadsWithinScope BY ScopedType
<1>. QED BY <1>1, <1>2, <1>3, PTL DEF Spec

-----------------------------------------------------------------------------
(* Failures.  First, what a tree that grows says of the paths in it.       *)

(* Following the last link or not makes a difference only if it is one.    *)
LEMMA LstatStat ==
    ASSUME NEW t, Structured(t), NEW path \in Places
    PROVE  /\ Lstat(t, path) = Nil => Stat(t, path) = Nil
           /\ Lstat(t, path) # Nil /\ t[Lstat(t, path)].kind # "link" =>
                Stat(t, path) = Lstat(t, path)
<1>1. PICK S : Walking(t, Through, S) BY BothWalks
<1>2. PICK L : Walking(t, UpTo, L) BY BothWalks
<1>. DEFINE Agree(v) == /\ L[v] = Nil => S[v] = Nil
                        /\ L[v] # Nil /\ t[L[v]].kind # "link" => S[v] = L[v]
            P == {v \in Walks : Agree(v)}
<1>3. ASSUME NEW v \in Walks,
             Passes(t, Through, v) => Passed(t, v) \in P,
             Leads(t, Through, v) => Led(t, v) \in P
      PROVE  v \in P
  <2>1. SUFFICES Agree(v) OBVIOUS
  <2>2. CASE v.rest = <<>>
    BY <1>1, <1>2, <2>2, FileSystemAssumption DEF Walking, Walks
  <2>3. CASE v.rest # <<>> /\ Passes(t, Through, v)
    <3>1. Passes(t, UpTo, v) BY <2>3, BothWalks
    <3>2. S[v] = S[Passed(t, v)] /\ L[v] = L[Passed(t, v)]
      BY <1>1, <1>2, <2>3, <3>1 DEF Walking
    <3>3. Agree(Passed(t, v)) BY <1>3, <2>3
    <3>. QED BY <3>2, <3>3
  <2>4. CASE v.rest # <<>> /\ ~Passes(t, Through, v) /\ Len(v.rest) # 1
    <3>1. ~Passes(t, UpTo, v) /\ (Leads(t, UpTo, v) <=> Leads(t, Through, v))
      BY <2>4, BothWalks
    <3>2. CASE Leads(t, Through, v)
      <4>1. S[v] = S[Led(t, v)] /\ L[v] = L[Led(t, v)]
        BY <1>1, <1>2, <2>4, <3>1, <3>2 DEF Walking
      <4>2. Agree(Led(t, v)) BY <1>3, <3>2
      <4>. QED BY <4>1, <4>2
    <3>3. CASE ~Leads(t, Through, v)
      BY <1>1, <1>2, <2>4, <3>1, <3>3 DEF Walking
    <3>. QED BY <3>2, <3>3
  <2>5. CASE v.rest # <<>> /\ ~Passes(t, Through, v) /\ Len(v.rest) = 1
    <3>1. CASE Found(t, v) = Nil
      <4>1. ~Leads(t, Through, v) BY <3>1, BothWalks
      <4>2. S[v] = Nil BY <1>1, <2>5, <4>1 DEF Walking
      <4>3. ~Passes(t, UpTo, v) /\ ~Leads(t, UpTo, v)
        BY <3>1, BothWalks
      <4>4. L[v] = Nil BY <1>2, <2>5, <4>3 DEF Walking
      <4>. QED BY <4>2, <4>4
    <3>2. CASE Found(t, v) # Nil
      <4>1. t[Found(t, v)].kind = "link" /\ Passes(t, UpTo, v)
        BY <2>5, <3>2, BothWalks
      <4>2. L[v] = L[Passed(t, v)] BY <1>2, <2>5, <4>1 DEF Walking
      <4>3. Passed(t, v) \in Walks BY <4>1, WalksType
      <4>4. Passed(t, v).rest = <<>> /\ Passed(t, v).at = Found(t, v)
        <5>1. v.rest \in Seq(STRING) BY DEF Walks
        <5>2. Tail(v.rest) \in Seq(STRING) /\ Len(Tail(v.rest)) = Len(v.rest) - 1
          BY <2>5, <5>1, HeadTailProperties
        <5>3. Len(Tail(v.rest)) = 0 BY <2>5, <5>2
        <5>. QED BY <5>2, <5>3, EmptySeq DEF Passed
      <4>5. L[v] = Found(t, v) BY <1>2, <4>2, <4>3, <4>4 DEF Walking
      <4>. QED BY <3>2, <4>1, <4>5
    <3>. QED BY <3>1, <3>2
  <2>. QED BY <2>2, <2>3, <2>4, <2>5
<1>4. P = Walks
  <2>1. P \in SUBSET Walks OBVIOUS
  <2>. HIDE DEF P
  <2>. QED BY <1>3, <2>1, WalkInduction
<1>5. Start(path) \in P BY <1>4, StartType
<1>6. Stat(t, path) = S[Start(path)] /\ Lstat(t, path) = L[Start(path)]
  BY <1>1, <1>2, BothWalks
<1>. QED BY <1>5, <1>6

(* So a path leads one name further if the entry is no link, and never     *)
(* where its parts do not lead.                                            *)
LEMMA StatAppend ==
    ASSUME NEW t, Structured(t), NEW p \in Places, NEW x, x \in STRING
    PROVE  /\ Append(p, x) \in Places
           /\ Stat(t, p) = Nil => Stat(t, Append(p, x)) = Nil /\ Lstat(t, Append(p, x)) = Nil
           /\ Stat(t, p) # Nil =>
                LET n == Entry(t, Stat(t, p), x) IN
                /\ Lstat(t, Append(p, x)) = n
                /\ n = Nil => Stat(t, Append(p, x)) = Nil
                /\ n # Nil /\ t[n].kind # "link" => Stat(t, Append(p, x)) = n
<1>1. Append(p, x) \in Places BY AppendProperties DEF Places
<1>2. Lstat(t, Append(p, x)) = IF Stat(t, p) = Nil THEN Nil ELSE Entry(t, Stat(t, p), x)
  BY LstatAppend
<1>. QED BY <1>1, <1>2, LstatStat

(* A tree that has grown by directories and files, but not by links.       *)
GrowsPlainly(t, u) ==
    Grows(t, u) /\ \A n \in Live(u) \ Live(t) : u[n].kind # "link"

(* What was there is still there.                                          *)
LEMMA GrowsLive ==
    ASSUME NEW t, NEW u, Structured(t), Grows(t, u)
    PROVE  Live(t) \subseteq Live(u)
BY DEF Grows, Live

(* What was not found and now is, is new.                                  *)
LEMMA WalkFindsNew ==
    ASSUME NEW t, NEW u, Structured(t), Structured(u), GrowsPlainly(t, u), NEW follow,
           NEW W, Walking(t, follow, W), NEW V, Walking(u, follow, V),
           NEW w \in Walks, w.at \in Live(t), W[w] = Nil, V[w] # Nil
    PROVE  V[w] \notin Live(t)
<1>. DEFINE New(v) == V[v] # Nil /\ (v.at \notin Live(t) \/ W[v] = Nil) => V[v] \notin Live(t)
            P == {v \in Walks : New(v)}
<1>0. Grows(t, u) BY DEF GrowsPlainly
<1>1. ASSUME NEW v \in Walks,
             Passes(u, follow, v) => Passed(u, v) \in P,
             Leads(u, follow, v) => Led(u, v) \in P
      PROVE  v \in P
  <2>1. SUFFICES ASSUME V[v] # Nil, v.at \notin Live(t) \/ W[v] = Nil
                 PROVE  V[v] \notin Live(t)
    OBVIOUS
  <2>2. CASE v.rest = <<>>
    BY <2>1, <2>2, FileSystemAssumption DEF Walking, Walks
  <2>3. CASE v.rest # <<>>
    <3>. DEFINE m == Found(u, v)
    <3>1. Passes(u, follow, v) \/ Leads(u, follow, v)
      BY <2>1, <2>3 DEF Walking
    <3>2. /\ m \in Live(u) \ {Top} /\ m # Nil
          /\ u[m].in = v.at /\ u[m].name = Head(v.rest)
      BY <2>1, <3>1, EntryLive, EntryType DEF Passes, Leads, Found, Walks
    <3>3. Passes(u, follow, v) => V[v] = V[Passed(u, v)] /\ Passed(u, v).at = m
      BY <2>3 DEF Walking, Passed
    <3>4. CASE m \notin Live(t)
      <4>1. u[m].kind # "link" BY <3>2, <3>4 DEF GrowsPlainly
      <4>2. Passes(u, follow, v) BY <2>3, <3>2, <4>1 DEF Passes
      <4>3. New(Passed(u, v)) BY <1>1, <4>2
      <4>. QED BY <2>1, <3>3, <3>4, <4>2, <4>3
    <3>5. CASE m \in Live(t)
      <4>1. /\ t[m].in = v.at /\ t[m].name = Head(v.rest)
            /\ u[m].kind = t[m].kind /\ u[m].target = t[m].target
        BY <1>0, <3>2, <3>5 DEF Grows
      <4>2. v.at \in Live(t) /\ W[v] = Nil
        BY <2>1, <3>2, <3>5, <4>1 DEF Structured
      <4>3. Found(t, v) = m BY <3>2, <3>5, <4>1, EntryOf DEF Found
      <4>. HIDE DEF m
      <4>4. /\ Passes(u, follow, v) <=> Passes(t, follow, v)
            /\ Leads(u, follow, v) <=> Leads(t, follow, v)
        BY <4>1, <4>3 DEF Passes, Leads, m
      <4>5. Passed(u, v) = Passed(t, v) /\ Led(u, v) = Led(t, v)
        BY <4>1, <4>3 DEF Passed, Led, m
      <4>6. CASE Passes(u, follow, v)
        <5>1. W[v] = W[Passed(u, v)]
          BY <2>3, <4>4, <4>5, <4>6 DEF Walking
        <5>2. New(Passed(u, v)) BY <1>1, <4>6
        <5>. QED BY <2>1, <3>3, <4>2, <4>6, <5>1, <5>2
      <4>7. CASE ~Passes(u, follow, v) /\ Leads(u, follow, v)
        <5>1. W[v] = W[Led(u, v)] /\ V[v] = V[Led(u, v)]
          BY <2>3, <4>4, <4>5, <4>7 DEF Walking
        <5>2. New(Led(u, v)) BY <1>1, <4>7
        <5>. QED BY <2>1, <4>2, <5>1, <5>2
      <4>. QED BY <3>1, <4>6, <4>7
    <3>. QED BY <3>4, <3>5
  <2>. QED BY <2>2, <2>3
<1>2. P = Walks
  <2>1. P \in SUBSET Walks OBVIOUS
  <2>. HIDE DEF P
  <2>. QED BY <1>1, <2>1, WalkInduction
<1>3. New(w) BY <1>2
<1>. QED BY <1>3

(* What a path did not lead to before is new.                              *)
LEMMA NewlyFound ==
    ASSUME NEW t, NEW u, Structured(t), Structured(u), GrowsPlainly(t, u), NEW path \in Places
    PROVE  /\ Stat(t, path) = Nil /\ Stat(u, path) # Nil => Stat(u, path) \notin Live(t)
           /\ Lstat(t, path) = Nil /\ Lstat(u, path) # Nil => Lstat(u, path) \notin Live(t)
<1>1. Start(path) \in Walks /\ Start(path).at \in Live(t)
  BY StartType, TopLive DEF Start
<1>2. PICK S : Walking(t, Through, S) BY BothWalks
<1>3. PICK L : Walking(t, UpTo, L) BY BothWalks
<1>4. PICK S2 : Walking(u, Through, S2) BY BothWalks
<1>5. PICK L2 : Walking(u, UpTo, L2) BY BothWalks
<1>6. S[Start(path)] = Nil /\ S2[Start(path)] # Nil => S2[Start(path)] \notin Live(t)
  BY <1>1, <1>2, <1>4, WalkFindsNew
<1>7. L[Start(path)] = Nil /\ L2[Start(path)] # Nil => L2[Start(path)] \notin Live(t)
  BY <1>1, <1>3, <1>5, WalkFindsNew
<1>. QED BY <1>2, <1>3, <1>4, <1>5, <1>6, <1>7, BothWalks

(* Nodes stay where they are.                                              *)
LEMMA PathGrows ==
    ASSUME NEW t, NEW u, Tree(t), Tree(u), Grows(t, u), NEW n \in Live(t)
    PROVE  n \in Live(u) /\ PathOf(u, n) = PathOf(t, n)
<1>. DEFINE P == {m \in Live(t) : PathOf(u, m) = PathOf(t, m)}
<1>0. Structured(t) /\ Live(t) \subseteq Live(u) BY GrowsLive DEF Tree
<1>1. Top \in P BY <1>0, TopLive, PathDef
<1>2. ASSUME NEW m \in Live(t) \ {Top}, t[m].in \in P PROVE m \in P
  <2>1. u[m].in = t[m].in /\ u[m].name = t[m].name /\ m \in Live(u) \ {Top}
    BY <1>0 DEF Grows
  <2>2. PathOf(u, m) = Append(PathOf(u, u[m].in), u[m].name)
    BY <2>1, PathDef
  <2>3. PathOf(t, m) = Append(PathOf(t, t[m].in), t[m].name)
    BY PathDef
  <2>. QED BY <1>2, <2>1, <2>2, <2>3
<1>3. P = Live(t)
  <2>1. P \in SUBSET Live(t) OBVIOUS
  <2>. HIDE DEF P
  <2>. QED BY <1>1, <1>2, <2>1, TreeInduction
<1>. QED BY <1>0, <1>3

(* Only directories have anything below them.                              *)
LEMMA AncestorIsDir ==
    ASSUME NEW t, Tree(t), NEW n \in Live(t), NEW m \in Live(t), AtOrBelow(t, n, m), n # m
    PROVE  t[n].kind = "dir"
<1>. DEFINE P == {k \in Live(t) : AtOrBelow(t, n, k) /\ n # k => t[n].kind = "dir"}
<1>0. Structured(t) BY DEF Tree
<1>1. Top \in P BY <1>0, TopLive, BelowTop
<1>2. ASSUME NEW k \in Live(t) \ {Top}, t[k].in \in P PROVE k \in P
  BY <1>0, <1>2, BelowDef DEF Structured
<1>3. P = Live(t)
  <2>1. P \in SUBSET Live(t) OBVIOUS
  <2>. HIDE DEF P
  <2>. QED BY <1>1, <1>2, <2>1, TreeInduction
<1>. QED BY <1>3

(* Induction from a number to a later one, over a set.                     *)
LEMMA UpwardInduction ==
    ASSUME NEW a \in Nat, NEW b \in Nat, NEW P, a \in P,
           \A j \in a .. b - 1 : j \in P => j + 1 \in P
    PROVE  \A j \in a .. b : j \in P
<1>. DEFINE S == {j \in a .. b : j \notin P}
<1>1. SUFFICES ASSUME S # {} PROVE FALSE OBVIOUS
<1>2. S \subseteq Nat OBVIOUS
<1>3. PICK m \in S : \A n \in S : m <= n
  <2>. HIDE DEF S
  <2>. QED BY <1>1, <1>2, LeastNatural
<1>4. m \in a .. b /\ m \notin P /\ m # a BY <1>3
<1>5. m - 1 \in a .. b - 1 /\ m - 1 + 1 = m /\ m - 1 \in a .. b
  BY <1>4
<1>6. m - 1 \in P
  <2>1. m - 1 \in S => m <= m - 1 BY <1>3
  <2>. QED BY <1>4, <1>5, <2>1
<1>. QED BY <1>4, <1>5, <1>6

(* What goes from every path to those with one name more holds of all.     *)
LEMMA PathInduction ==
    ASSUME NEW P \in SUBSET Places, <<>> \in P,
           \A p \in P : \A x : x \in STRING => Append(p, x) \in P
    PROVE  P = Places
<1>. DEFINE S == {Len(p) : p \in Places \ P}
<1>1. SUFFICES ASSUME Places \ P # {} PROVE FALSE OBVIOUS
<1>2. S \subseteq Nat /\ S # {}
  <2>1. \A p \in Places : Len(p) \in Nat BY LenProperties DEF Places
  <2>. QED BY <1>1, <2>1
<1>3. PICK m \in S : \A n \in S : m <= n
  <2>. HIDE DEF S
  <2>. QED BY <1>2, LeastNatural
<1>4. PICK p \in Places \ P : Len(p) = m BY <1>3
<1>5. PICK s \in Seq(STRING) : \E x \in STRING : p = Append(s, x)
  BY <1>4, SequenceEmptyOrAppend DEF Places
<1>6. PICK x \in STRING : p = Append(s, x) BY <1>5
<1>7. s \notin P BY <1>4, <1>6
<1>8. Len(s) \in S BY <1>7 DEF Places
<1>9. Len(p) = Len(s) + 1 /\ Len(s) \in Nat
  BY <1>6, AppendProperties, LenProperties
<1>. QED BY <1>3, <1>4, <1>8, <1>9

(* Two prefixes of one path are comparable.                                *)
LEMMA PrefixComparable ==
    ASSUME NEW S, NEW p \in Seq(S), NEW q \in Seq(S), NEW u \in Seq(S),
           IsPrefix(p, u), IsPrefix(q, u)
    PROVE  IsPrefix(p, q) \/ IsPrefix(q, p)
<1>1. Len(p) \in Nat /\ Len(q) \in Nat BY LenProperties
<1>2. /\ \A i \in 1 .. Len(p) : p[i] = u[i]
      /\ \A i \in 1 .. Len(q) : q[i] = u[i]
  BY PrefixElements
<1>3. CASE Len(p) <= Len(q)
  <2>1. \A i \in 1 .. Len(p) : p[i] = q[i] BY <1>1, <1>2, <1>3
  <2>. QED BY <1>3, <2>1, PrefixElements
<1>4. CASE Len(q) <= Len(p)
  <2>1. \A i \in 1 .. Len(q) : q[i] = p[i] BY <1>1, <1>2, <1>4
  <2>. QED BY <1>4, <2>1, PrefixElements
<1>. QED BY <1>1, <1>3, <1>4

(* To be a prefix is transitive.                                           *)
LEMMA PrefixTransitive ==
    ASSUME NEW S, NEW p \in Seq(S), NEW q \in Seq(S), NEW u \in Seq(S),
           IsPrefix(p, q), IsPrefix(q, u)
    PROVE  IsPrefix(p, u)
<1>1. Len(p) \in Nat /\ Len(q) \in Nat /\ Len(u) \in Nat
  BY LenProperties
<1>2. /\ Len(p) <= Len(q) /\ \A i \in 1 .. Len(p) : p[i] = q[i]
      /\ Len(q) <= Len(u) /\ \A i \in 1 .. Len(q) : q[i] = u[i]
  BY PrefixElements
<1>3. Len(p) <= Len(u) /\ \A i \in 1 .. Len(p) : p[i] = u[i]
  BY <1>1, <1>2
<1>. QED BY <1>3, PrefixElements

(* A sequence is a prefix of any continuation.                             *)
LEMMA PrefixOfConcat ==
    ASSUME NEW S, NEW p \in Seq(S), NEW q \in Seq(S)
    PROVE  p \o q \in Seq(S) /\ IsPrefix(p, p \o q) /\ IsPrefix(p, p)
<1>. DEFINE u == p \o q
<1>1. /\ u \in Seq(S) /\ Len(u) = Len(p) + Len(q)
      /\ \A i \in 1 .. Len(p) + Len(q) : u[i] = IF i <= Len(p) THEN p[i] ELSE q[i - Len(p)]
  BY ConcatProperties
<1>2. Len(p) \in Nat /\ Len(q) \in Nat BY LenProperties
<1>. HIDE DEF u
<1>3. Len(p) <= Len(u) /\ \A i \in 1 .. Len(p) : p[i] = u[i]
  BY <1>1, <1>2
<1>4. IsPrefix(p, u) BY <1>1, <1>3, PrefixElements
<1>5. IsPrefix(p, p) BY <1>2, PrefixElements
<1>. QED BY <1>1, <1>4, <1>5 DEF u

(* The next name on a path.                                                *)
LEMMA NextName ==
    ASSUME NEW S, NEW p \in Seq(S), NEW q \in Seq(S), NEW x \in S,
           IsPrefix(Append(p, x), p \o q)
    PROVE  q # <<>> /\ q[1] = x
<1>. DEFINE u == p \o q
            v == Append(p, x)
<1>1. /\ u \in Seq(S) /\ Len(u) = Len(p) + Len(q)
      /\ \A i \in 1 .. Len(p) + Len(q) : u[i] = IF i <= Len(p) THEN p[i] ELSE q[i - Len(p)]
  BY ConcatProperties
<1>2. v \in Seq(S) /\ Len(v) = Len(p) + 1 /\ v[Len(p) + 1] = x
  BY AppendProperties
<1>3. Len(p) \in Nat /\ Len(q) \in Nat BY LenProperties
<1>. HIDE DEF u, v
<1>4. Len(v) <= Len(u) /\ \A i \in 1 .. Len(v) : v[i] = u[i]
  <2>1. IsPrefix(v, u) BY DEF u, v
  <2>. QED BY <1>1, <1>2, <2>1, PrefixElements
<1>5. u[Len(p) + 1] = x /\ Len(q) >= 1
  <2>1. Len(q) >= 1 BY <1>1, <1>2, <1>3, <1>4
  <2>2. Len(p) + 1 \in 1 .. Len(v) BY <1>2, <1>3
  <2>. DEFINE k == Len(p) + 1
  <2>. HIDE DEF k
  <2>3. k \in 1 .. Len(v) /\ v[k] = x BY <1>2, <2>2 DEF k
  <2>4. u[k] = x BY <1>4, <2>3
  <2>. QED BY <2>1, <2>4 DEF k
<1>6. u[Len(p) + 1] = q[1]
  <2>. DEFINE k == Len(p) + 1
  <2>1. k \in 1 .. Len(p) + Len(q) /\ ~(k <= Len(p)) /\ k - Len(p) = 1
    BY <1>3, <1>5
  <2>. HIDE DEF k
  <2>2. u[k] = q[1] BY <1>1, <2>1
  <2>. QED BY <2>2 DEF k
<1>7. q # <<>> BY <1>5, EmptySeq
<1>. QED BY <1>5, <1>6, <1>7

(* The part of a path up to its i-th name.                                 *)
Part(path, i) == SubSeq(path, 1, i)
Rest(path, i) == SubSeq(path, i + 1, Len(path))

(* The first i names of a path, and the rest of them.                      *)
LEMMA PartType ==
    ASSUME NEW path \in Places
    PROVE  /\ Len(path) \in Nat
           /\ Part(path, 0) = <<>> /\ Part(path, Len(path)) = path
           /\ Rest(path, Len(path)) = <<>>
           /\ \A i \in 0 .. Len(path) :
                /\ Part(path, i) \in Places /\ Rest(path, i) \in Places
                /\ Len(Part(path, i)) = i
           /\ \A i \in 0 .. Len(path) - 1 :
                /\ path[i + 1] \in STRING /\ i + 1 \in 1 .. Len(path)
                /\ Part(path, i + 1) = Append(Part(path, i), path[i + 1])
                /\ Rest(path, i) = <<path[i + 1]>> \o Rest(path, i + 1)
<1>1. Len(path) \in Nat /\ path \in Seq(STRING)
  BY LenProperties DEF Places
<1>2. /\ Part(path, 0) = <<>> /\ Part(path, Len(path)) = path
      /\ Rest(path, Len(path)) = <<>>
  BY <1>1, SubSeqEmpty, SubSeqFull DEF Part, Rest
<1>3. \A i \in 0 .. Len(path) :
        /\ Part(path, i) \in Places /\ Rest(path, i) \in Places /\ Len(Part(path, i)) = i
  BY PrefixType DEF Part, Rest
<1>4. ASSUME NEW i \in 0 .. Len(path) - 1
      PROVE  /\ path[i + 1] \in STRING /\ i + 1 \in 1 .. Len(path)
             /\ Part(path, i + 1) = Append(Part(path, i), path[i + 1])
             /\ Rest(path, i) = <<path[i + 1]>> \o Rest(path, i + 1)
  <2>1. i + 1 \in 1 .. Len(path) /\ i \in 0 .. Len(path) /\ i + 1 - 1 = i
    BY <1>1
  <2>2. path[i + 1] \in STRING BY <1>1, <2>1, ElementOfSeq
  <2>3. Part(path, i + 1) = SubSeq(path, 1, i) \o <<path[i + 1]>>
    <3>1. SubSeq(path, 1, i + 1) = SubSeq(path, 1, i + 1 - 1) \o <<path[i + 1]>>
      <4>1. 1 \in 1 .. Len(path) /\ i + 1 \in 1 .. Len(path)
        BY <1>1, <2>1
      <4>. QED BY <1>1, <4>1, SubSeqRecursiveSecond
    <3>. QED BY <2>1, <3>1 DEF Part
  <2>4. Part(path, i) \in Seq(STRING) BY <1>3, <2>1 DEF Places
  <2>5. Append(Part(path, i), path[i + 1]) = Part(path, i) \o <<path[i + 1]>>
    <3>. DEFINE x == path[i + 1]
                p == Part(path, i)
    <3>1. p \in Seq(STRING) /\ x \in STRING BY <2>2, <2>4
    <3>. HIDE DEF x, p
    <3>2. Append(p, x) = p \o <<x>> BY <3>1, AppendIsConcat
    <3>. QED BY <3>2 DEF x, p
  <2>6. Rest(path, i) = <<path[i + 1]>> \o Rest(path, i + 1)
    <3>1. Len(path) \in i + 1 .. Len(path) BY <1>1, <2>1
    <3>2. SubSeq(path, i + 1, Len(path)) = <<path[i + 1]>> \o SubSeq(path, i + 1 + 1, Len(path))
      BY <1>1, <2>1, <3>1, SubSeqRecursiveFirst
    <3>. QED BY <3>2 DEF Rest
  <2>. QED BY <2>1, <2>2, <2>3, <2>5, <2>6 DEF Part
<1>. QED BY <1>1, <1>2, <1>3, <1>4

(* Where a path leads nowhere, so do the longer ones.                      *)
LEMMA NowhereBelow ==
    ASSUME NEW t, Structured(t), NEW path \in Places, NEW i \in 0 .. Len(path),
           Stat(t, Part(path, i)) = Nil
    PROVE  \A j \in i .. Len(path) :
                /\ Stat(t, Part(path, j)) = Nil
                /\ j > i => Lstat(t, Part(path, j)) = Nil
<1>. DEFINE P == {j \in i .. Len(path) :
                    /\ Stat(t, Part(path, j)) = Nil
                    /\ j > i => Lstat(t, Part(path, j)) = Nil}
<1>1. Len(path) \in Nat /\ i \in Nat /\ i <= Len(path) BY PartType
<1>2. i \in P BY <1>1
<1>3. ASSUME NEW j \in i .. Len(path) - 1, j \in P PROVE j + 1 \in P
  <2>1. j \in 0 .. Len(path) - 1 /\ j \in 0 .. Len(path) /\ j + 1 \in i .. Len(path)
    BY <1>1
  <2>2. /\ Part(path, j + 1) = Append(Part(path, j), path[j + 1])
        /\ path[j + 1] \in STRING /\ Part(path, j) \in Places
    BY <2>1, PartType
  <2>3. Stat(t, Append(Part(path, j), path[j + 1])) = Nil
        /\ Lstat(t, Append(Part(path, j), path[j + 1])) = Nil
    <3>. DEFINE p == Part(path, j)
                x == path[j + 1]
    <3>1. p \in Places /\ x \in STRING /\ Stat(t, p) = Nil
      BY <1>3, <2>2
    <3>. HIDE DEF p, x
    <3>2. Stat(t, Append(p, x)) = Nil /\ Lstat(t, Append(p, x)) = Nil
      BY <3>1, StatAppend
    <3>. QED BY <3>2 DEF p, x
  <2>. QED BY <2>1, <2>2, <2>3
<1>4. \A j \in i .. Len(path) : j \in P
  <2>. HIDE DEF P
  <2>. QED BY <1>1, <1>2, <1>3, UpwardInduction
<1>. QED BY <1>4

(* A path up to where it leads, and what is not there.                     *)
Splits(t, path, i) ==
    /\ i \in 0 .. Len(path)
    /\ Stat(t, Part(path, i)) # Nil
    /\ \A j \in i + 1 .. Len(path) :
        Stat(t, Part(path, j)) = Nil /\ Lstat(t, Part(path, j)) = Nil

(* Resolve splits a path behind the deepest part of it that is there.      *)
LEMMA ResolveSplits ==
    ASSUME NEW t, Tree(t), NEW path \in Places, Resolve(t, path) # Nil
    PROVE  \E i : /\ Splits(t, path, i)
                  /\ Resolve(t, path) = PathOf(t, Stat(t, Part(path, i))) \o Rest(path, i)
<1>. DEFINE i == deepestExisting(t, path)
<1>0. Structured(t) /\ Len(path) \in Nat BY PartType DEF Tree
<1>1. i \in 0 .. Len(path) /\ (i < Len(path) => Lstat(t, Part(path, i + 1)) = Nil)
  BY DeepestExisting DEF Part
<1>2. /\ Stat(t, Part(path, i)) # Nil
      /\ Resolve(t, path) = PathOf(t, Stat(t, Part(path, i))) \o Rest(path, i)
  BY DEF Resolve, Part, Rest
<1>. HIDE DEF i
<1>3. ASSUME NEW j \in i + 1 .. Len(path)
      PROVE  Stat(t, Part(path, j)) = Nil /\ Lstat(t, Part(path, j)) = Nil
  <2>1. i + 1 \in 0 .. Len(path) /\ i < Len(path) /\ j \in i + 1 .. Len(path)
    BY <1>0, <1>1
  <2>2. Part(path, i + 1) \in Places /\ Lstat(t, Part(path, i + 1)) = Nil
    BY <1>1, <2>1, PartType
  <2>3. Stat(t, Part(path, i + 1)) = Nil BY <1>0, <2>2, LstatStat
  <2>4. CASE j = i + 1 BY <2>2, <2>3, <2>4
  <2>5. CASE j > i + 1 BY <1>0, <2>1, <2>3, <2>5, NowhereBelow
  <2>. QED BY <1>1, <2>4, <2>5
<1>. QED BY <1>1, <1>2, <1>3 DEF Splits

(* Place gives the place of what is there, and the rest as it is named,    *)
LEMMA PlaceDef ==
    ASSUME NEW t, Tree(t), NEW path \in Places, NEW i, Splits(t, path, i)
    PROVE  Place(t, path) = PathOf(t, Stat(t, Part(path, i))) \o Rest(path, i)
<1>. DEFINE S == 0 .. Len(path)
            V == Places
            halt == {j \in S : Stat(t, Part(path, j)) # Nil}
            value == [j \in halt |-> PathOf(t, Stat(t, Part(path, j)))]
            step == [j \in S \ halt |-> j - 1]
            then == [j \in S \ halt |-> [p \in V |-> Append(p, path[j])]]
            place == CHOOSE place : place = [j \in 0 .. Len(path) |->
                        LET p == SubSeq(path, 1, j) IN
                        IF Stat(t, p) # Nil THEN PathOf(t, Stat(t, p))
                        ELSE Append(place[j - 1], path[j])]
<1>0. /\ Structured(t) /\ Len(path) \in Nat /\ path \in Seq(STRING)
      /\ i \in 0 .. Len(path) /\ Stat(t, Part(path, i)) # Nil
      /\ \A j \in i + 1 .. Len(path) : Stat(t, Part(path, j)) = Nil
  BY PartType DEF Tree, Splits, Places
<1>a. 0 \in halt
  <2>1. Stat(t, <<>>) = Top /\ Top # Nil
    <3>1. PathOf(t, Top) = <<>> /\ Top \in Live(t) /\ t[Top].kind # "link" /\ Top # Nil
      BY <1>0, PathDef, TopLive DEF Structured
    <3>. QED BY <3>1, NodeFound
  <2>2. Part(path, 0) = <<>> /\ 0 \in S BY <1>0, PartType
  <2>. QED BY <2>1, <2>2
<1>1. Recursive(S, V, halt, value, step, then)
  <2>1. halt \in SUBSET S OBVIOUS
  <2>2. value \in [halt -> V]
    <3>1. ASSUME NEW j \in halt PROVE PathOf(t, Stat(t, Part(path, j))) \in Places
      <4>1. Part(path, j) \in Places BY PartType
      <4>. QED BY <1>0, <4>1, StatLive, PathDef
    <3>. QED BY <3>1
  <2>3. step \in [S \ halt -> S]
    <3>1. \A j \in S \ halt : j - 1 \in S BY <1>0, <1>a
    <3>. QED BY <3>1
  <2>4. then \in [S \ halt -> [V -> V]]
    <3>1. ASSUME NEW j \in S \ halt, NEW p \in V PROVE Append(p, path[j]) \in V
      <4>1. j \in 1 .. Len(path) BY <1>0, <1>a
      <4>2. path[j] \in STRING BY <1>0, <4>1, ElementOfSeq
      <4>. QED BY <4>2, AppendProperties DEF Places
    <3>. QED BY <3>1
  <2>5. ASSUME NEW T \in SUBSET S, T # {} PROVE \E j \in T : j \in halt \/ step[j] \notin T
    <3>1. PICK m \in T : \A n \in T : m <= n
      <4>1. T \subseteq Nat BY <1>0
      <4>. QED BY <2>5, <4>1, LeastNatural
    <3>2. CASE m \notin halt
      <4>1. step[m] = m - 1 /\ m \in Nat BY <1>0, <3>2
      <4>2. m - 1 \notin T BY <3>1, <4>1
      <4>. QED BY <4>1, <4>2
    <3>. QED BY <3>2
  <2>. HIDE DEF S, V, halt, value, step, then
  <2>. QED BY <2>1, <2>2, <2>3, <2>4, <2>5 DEF Recursive
<1>2. PICK f \in [S -> V] : \A j \in S :
            f[j] = IF j \in halt THEN value[j] ELSE then[j][f[step[j]]]
  <2>. HIDE DEF S, V, halt, value, step, then
  <2>. QED BY <1>1, Recursion
<1>3. ASSUME NEW j \in S
      PROVE  f[j] = IF Stat(t, Part(path, j)) # Nil THEN PathOf(t, Stat(t, Part(path, j)))
                    ELSE Append(f[j - 1], path[j])
  <2>1. CASE j \in halt BY <1>2, <2>1
  <2>2. CASE j \notin halt
    <3>1. f[j] = then[j][f[step[j]]] /\ step[j] = j - 1 BY <1>2, <2>2
    <3>2. j - 1 \in S BY <1>0, <1>a, <2>2
    <3>3. f[j - 1] \in V BY <3>2
    <3>4. then[j] = [p \in V |-> Append(p, path[j])] BY <2>2
    <3>5. Stat(t, Part(path, j)) = Nil BY <2>2
    <3>. HIDE DEF then, step, V, halt
    <3>. QED BY <3>1, <3>3, <3>4, <3>5
  <2>. QED BY <2>1, <2>2
<1>4. f = [j \in 0 .. Len(path) |->
                        LET p == SubSeq(path, 1, j) IN
                        IF Stat(t, p) # Nil THEN PathOf(t, Stat(t, p))
                        ELSE Append(f[j - 1], path[j])]
  BY <1>2, <1>3 DEF Part
<1>5. place = [j \in 0 .. Len(path) |->
                        LET p == SubSeq(path, 1, j) IN
                        IF Stat(t, p) # Nil THEN PathOf(t, Stat(t, p))
                        ELSE Append(place[j - 1], path[j])]
  BY <1>4
<1>6. Place(t, path) = place[Len(path)] BY DEF Place
<1>. HIDE DEF place
<1>7. \A j \in S : place[j] = IF Stat(t, Part(path, j)) # Nil THEN PathOf(t, Stat(t, Part(path, j)))
                              ELSE Append(place[j - 1], path[j])
  BY <1>5 DEF Part
<1>. DEFINE q == PathOf(t, Stat(t, Part(path, i)))
            P == {j \in S : place[j] = q \o SubSeq(path, i + 1, j)}
<1>8. q \in Places
  <2>1. Part(path, i) \in Places BY <1>0, PartType
  <2>. QED BY <1>0, <2>1, StatLive, PathDef
<1>9. i \in P
  <2>1. place[i] = q BY <1>0, <1>7
  <2>2. SubSeq(path, i + 1, i) = <<>> BY <1>0, SubSeqEmpty
  <2>3. q \o <<>> = q BY <1>8, ConcatEmptySeq DEF Places
  <2>. QED BY <1>0, <2>1, <2>2, <2>3
<1>10. ASSUME NEW j \in i .. Len(path) - 1, j \in P PROVE j + 1 \in P
  <2>1. j + 1 \in S /\ j + 1 \in i + 1 .. Len(path) /\ j + 1 - 1 = j /\ j + 1 \in 1 .. Len(path)
    BY <1>0
  <2>2. place[j + 1] = Append(place[j], path[j + 1])
    <3>1. Stat(t, Part(path, j + 1)) = Nil BY <1>0, <2>1
    <3>. DEFINE k == j + 1
    <3>2. k \in S /\ Stat(t, Part(path, k)) = Nil /\ k - 1 = j
      BY <2>1, <3>1
    <3>. HIDE DEF k, S
    <3>3. place[k] = Append(place[k - 1], path[k]) BY <1>7, <3>2
    <3>4. place[k] = Append(place[j], path[k]) BY <3>2, <3>3
    <3>. QED BY <3>4 DEF k
  <2>. DEFINE s == SubSeq(path, i + 1, j)
              x == path[j + 1]
  <2>3. x \in STRING /\ s \in Places
    <3>1. x \in STRING BY <1>0, <2>1, ElementOfSeq
    <3>2. \A k \in i + 1 .. j : path[k] \in STRING
      BY <1>0, ElementOfSeq
    <3>3. s \in Seq(STRING) BY <1>0, <3>2, SubSeqProperties
    <3>. QED BY <3>1, <3>3 DEF Places
  <2>4. SubSeq(path, i + 1, j + 1) = s \o <<x>>
    <3>1. i + 1 \in 1 .. Len(path) /\ j + 1 \in i + 1 .. Len(path)
      BY <1>0
    <3>. DEFINE k == i + 1
                l == j + 1
    <3>2. k \in 1 .. Len(path) /\ l \in k .. Len(path) /\ path \in Seq(STRING)
      BY <1>0, <3>1
    <3>3. l - 1 = j BY <2>1
    <3>. HIDE DEF k, l
    <3>4. SubSeq(path, k, l) = SubSeq(path, k, l - 1) \o <<path[l]>>
      BY <3>2, SubSeqRecursiveSecond
    <3>. QED BY <3>3, <3>4 DEF k, l
  <2>5. place[j] = q \o s BY <1>10
  <2>. HIDE DEF s, x, q
  <2>6. Append(q \o s, x) = q \o (s \o <<x>>)
    <3>1. s \o <<x>> = Append(s, x) BY <2>3, AppendIsConcat DEF Places
    <3>2. q \o Append(s, x) = Append(q \o s, x)
      BY <1>8, <2>3, ConcatAppend DEF Places
    <3>. QED BY <3>1, <3>2
  <2>7. place[j + 1] = q \o SubSeq(path, i + 1, j + 1)
    BY <2>2, <2>4, <2>5, <2>6 DEF x
  <2>. QED BY <2>1, <2>7
<1>11. \A j \in i .. Len(path) : j \in P
  <2>1. \A j \in i .. Len(path) - 1 : j \in P => j + 1 \in P BY <1>10
  <2>2. i \in Nat BY <1>0
  <2>. HIDE DEF P, S
  <2>. QED BY <1>0, <1>9, <2>1, <2>2, UpwardInduction
<1>12. Len(path) \in P
  <2>1. Len(path) \in i .. Len(path) BY <1>0
  <2>. HIDE DEF P, S
  <2>. QED BY <1>11, <2>1
<1>. QED BY <1>6, <1>12 DEF Rest

(* as Resolve does.                                                        *)
LEMMA PlaceIsResolve ==
    ASSUME NEW t, Tree(t), NEW path \in Places, Resolve(t, path) # Nil
    PROVE  Place(t, path) = Resolve(t, path)
BY ResolveSplits, PlaceDef

-----------------------------------------------------------------------------
(* Straight paths: no link is on the way, nor at the end.  Every path that *)
(* Resolve gives is one, and a call on it makes what the path says.        *)

(* To be a prefix is an order, and the prefixes of a path are one chain.   *)
LEMMA PrefixOrder ==
    ASSUME NEW p \in Places, NEW q \in Places
    PROVE  /\ IsPrefix(p, p) /\ IsPrefix(<<>>, p)
           /\ IsPrefix(p, <<>>) => p = <<>>
           /\ IsPrefix(p, q) /\ IsPrefix(q, p) => p = q
           /\ \A u \in Places :
                /\ IsPrefix(p, q) /\ IsPrefix(q, u) => IsPrefix(p, u)
                /\ IsPrefix(p, u) /\ IsPrefix(q, u) => IsPrefix(p, q) \/ IsPrefix(q, p)
           /\ \A x : x \in STRING =>
                /\ Append(q, x) \in Places
                /\ IsPrefix(p, Append(q, x)) <=> p = Append(q, x) \/ IsPrefix(p, q)
                /\ ~IsPrefix(Append(q, x), q)
<1>1. p \in Seq(STRING) /\ q \in Seq(STRING) /\ Len(p) \in Nat /\ Len(q) \in Nat
  BY LenProperties DEF Places
<1>2. IsPrefix(p, p) BY <1>1, PrefixOfConcat
<1>3. IsPrefix(<<>>, p)
  <2>. DEFINE e == <<>>
  <2>1. e \in Seq(STRING) /\ Len(e) = 0 OBVIOUS
  <2>. HIDE DEF e
  <2>2. Len(e) <= Len(p) /\ \A i \in 1 .. Len(e) : e[i] = p[i]
    BY <1>1, <2>1
  <2>3. IsPrefix(e, p) BY <1>1, <2>1, <2>2, PrefixElements
  <2>. QED BY <2>3 DEF e
<1>4. IsPrefix(p, <<>>) => p = <<>> BY <1>1, PrefixOfEmpty
<1>5. IsPrefix(p, q) /\ IsPrefix(q, p) => p = q
  <2>1. SUFFICES ASSUME IsPrefix(p, q), IsPrefix(q, p) PROVE p = q
    OBVIOUS
  <2>2. /\ Len(p) <= Len(q) /\ \A i \in 1 .. Len(p) : p[i] = q[i]
        /\ Len(q) <= Len(p)
    BY <1>1, <2>1, PrefixElements
  <2>3. Len(p) = Len(q) BY <1>1, <2>2
  <2>. QED BY <1>1, <2>2, <2>3, SeqEqual
<1>6. ASSUME NEW u \in Places
      PROVE  /\ IsPrefix(p, q) /\ IsPrefix(q, u) => IsPrefix(p, u)
             /\ IsPrefix(p, u) /\ IsPrefix(q, u) => IsPrefix(p, q) \/ IsPrefix(q, p)
  <2>1. u \in Seq(STRING) BY DEF Places
  <2>2. IsPrefix(p, q) /\ IsPrefix(q, u) => IsPrefix(p, u)
    BY <1>1, <2>1, PrefixTransitive
  <2>3. IsPrefix(p, u) /\ IsPrefix(q, u) => IsPrefix(p, q) \/ IsPrefix(q, p)
    BY <1>1, <2>1, PrefixComparable
  <2>. QED BY <2>2, <2>3
<1>7. ASSUME NEW x, x \in STRING
      PROVE  /\ Append(q, x) \in Places
             /\ IsPrefix(p, Append(q, x)) <=> p = Append(q, x) \/ IsPrefix(p, q)
             /\ ~IsPrefix(Append(q, x), q)
  <2>. DEFINE v == Append(q, x)
  <2>1. v \in Seq(STRING) /\ Len(v) = Len(q) + 1
    BY <1>1, <1>7, AppendProperties
  <2>2. IsPrefix(p, v) <=> p = v \/ IsPrefix(p, q)
    BY <1>1, <1>7, PrefixAppend
  <2>3. ~IsPrefix(v, q)
    <3>. HIDE DEF v
    <3>1. IsPrefix(v, q) => Len(v) <= Len(q)
      BY <1>1, <2>1, PrefixElements
    <3>. QED BY <1>1, <2>1, <3>1
  <2>. QED BY <2>1, <2>2, <2>3 DEF Places
<1>. QED BY <1>2, <1>3, <1>4, <1>5, <1>6, <1>7

(* A path on which there is no link: it is that of whatever it leads to.   *)
Straight(t, p) ==
    \A q \in Places :
        IsPrefix(q, p) /\ Lstat(t, q) # Nil => t[Lstat(t, q)].kind # "link"

(* The beginning of a straight path is straight,                           *)
LEMMA StraightPrefix ==
    ASSUME NEW t, NEW p \in Places, NEW q \in Places, IsPrefix(q, p), Straight(t, p)
    PROVE  Straight(t, q)
<1>1. ASSUME NEW u \in Places, IsPrefix(u, q) PROVE IsPrefix(u, p)
  BY <1>1, PrefixOrder
<1>. QED BY <1>1 DEF Straight

(* and so is the directory of one.                                         *)
LEMMA FrontStraight ==
    ASSUME NEW t, NEW p \in Places, p # <<>>, Straight(t, p)
    PROVE  /\ Front(p) \in Places /\ Last(p) \in STRING /\ p = Append(Front(p), Last(p))
           /\ IsPrefix(Front(p), p) /\ Straight(t, Front(p))
<1>. DEFINE q == Front(p)
            x == Last(p)
<1>1. q \in Places /\ x \in STRING /\ p = Append(q, x) BY FrontLast
<1>. HIDE DEF q, x
<1>2. IsPrefix(q, p) BY <1>1, PrefixOrder
<1>3. Straight(t, q) BY <1>1, <1>2, StraightPrefix
<1>. QED BY <1>1, <1>2, <1>3 DEF q, x

(* The entry of a name that is a prefix's next.                            *)
LEMMA EntryPath ==
    ASSUME NEW t, Tree(t), NEW d \in Live(t), NEW x, x \in STRING, Entry(t, d, x) # Nil
    PROVE  /\ Entry(t, d, x) \in Live(t) \ {Top}
           /\ PathOf(t, Entry(t, d, x)) = Append(PathOf(t, d), x)
<1>. DEFINE n == Entry(t, d, x)
<1>1. d \in Node BY DEF Live
<1>2. n \in Live(t) \ {Top} /\ t[n].in = d /\ t[n].name = x
  BY <1>1, EntryLive, EntryType
<1>. HIDE DEF n
<1>3. PathOf(t, n) = Append(PathOf(t, d), x) BY <1>2, PathDef
<1>. QED BY <1>2, <1>3 DEF n

(* The root is found by no names.                                          *)
LEMMA TopStat ==
    ASSUME NEW t, Tree(t)
    PROVE  /\ Stat(t, <<>>) = Top /\ Lstat(t, <<>>) = Top
           /\ PathOf(t, Top) = <<>> /\ Top \in Live(t) /\ t[Top].kind = "dir" /\ Top # Nil
<1>1. Structured(t) BY DEF Tree
<1>2. PathOf(t, Top) = <<>> /\ Top \in Live(t) /\ t[Top].kind = "dir" /\ Top # Nil
  BY <1>1, PathDef, TopLive DEF Structured
<1>3. Stat(t, PathOf(t, Top)) = Top /\ Lstat(t, PathOf(t, Top)) = Top
  BY <1>2, NodeFound
<1>. QED BY <1>2, <1>3

(* What is on a straight path is at it.                                    *)
LEMMA StraightDef ==
    ASSUME NEW t, Tree(t), NEW p \in Places, Straight(t, p)
    PROVE  /\ Stat(t, p) = Lstat(t, p)
           /\ Lstat(t, p) # Nil => Lstat(t, p) \in Live(t) /\ PathOf(t, Lstat(t, p)) = p
<1>0. Structured(t) BY DEF Tree
<1>. DEFINE Good(q) == /\ Stat(t, q) = Lstat(t, q)
                       /\ Lstat(t, q) # Nil =>
                            Lstat(t, q) \in Live(t) /\ PathOf(t, Lstat(t, q)) = q
            P == {q \in Places : IsPrefix(q, p) => Good(q)}
<1>1. <<>> \in P
  <2>1. Good(<<>>) BY TopStat
  <2>. QED BY <2>1, Nowhere
<1>2. ASSUME NEW q \in P, NEW x, x \in STRING PROVE Append(q, x) \in P
  <2>1. q \in Places /\ Append(q, x) \in Places BY <1>2, PrefixOrder
  <2>2. SUFFICES ASSUME IsPrefix(Append(q, x), p) PROVE Good(Append(q, x))
    BY <2>1
  <2>3. IsPrefix(q, p)
    <3>. DEFINE v == Append(q, x)
    <3>1. IsPrefix(q, v) /\ v \in Places /\ IsPrefix(v, p)
      BY <1>2, <2>1, <2>2, PrefixOrder
    <3>. HIDE DEF v
    <3>. QED BY <2>1, <3>1, PrefixOrder
  <2>4. Good(q) BY <2>3
  <2>. DEFINE d == Stat(t, q)
              n == Entry(t, d, x)
              v == Append(q, x)
  <2>5. CASE d = Nil
    <3>1. Stat(t, v) = Nil /\ Lstat(t, v) = Nil
      BY <1>0, <1>2, <2>1, <2>5, StatAppend
    <3>. QED BY <3>1
  <2>6. CASE d # Nil
    <3>1. d \in Live(t) /\ PathOf(t, d) = q BY <2>4, <2>6
    <3>2. Lstat(t, v) = n /\ (n = Nil => Stat(t, v) = Nil)
          /\ (n # Nil /\ t[n].kind # "link" => Stat(t, v) = n)
      BY <1>0, <1>2, <2>1, <2>6, StatAppend
    <3>3. CASE n = Nil BY <3>2, <3>3
    <3>4. CASE n # Nil
      <4>1. t[n].kind # "link" BY <2>1, <2>2, <3>2, <3>4 DEF Straight
      <4>2. n \in Live(t) /\ PathOf(t, n) = Append(PathOf(t, d), x)
        <5>. HIDE DEF P, d
        <5>. QED BY <1>2, <3>1, <3>4, EntryPath
      <4>. QED BY <3>1, <3>2, <4>1, <4>2
    <3>. QED BY <3>3, <3>4
  <2>. QED BY <2>5, <2>6
<1>3. P = Places
  <2>1. P \in SUBSET Places OBVIOUS
  <2>. HIDE DEF P
  <2>. QED BY <1>1, <1>2, <2>1, PathInduction
<1>. QED BY <1>3, PrefixOrder

(* What grows by no link stays straight.                                   *)
LEMMA StraightGrows ==
    ASSUME NEW t, NEW u, Structured(t), Structured(u), GrowsPlainly(t, u),
           NEW p \in Places, Straight(t, p)
    PROVE  Straight(u, p)
<1>1. ASSUME NEW q \in Places, IsPrefix(q, p), Lstat(u, q) # Nil
      PROVE  u[Lstat(u, q)].kind # "link"
  <2>. DEFINE n == Lstat(u, q)
  <2>1. n \in Live(u) BY <1>1, StatLive
  <2>2. CASE n \notin Live(t) BY <2>1, <2>2 DEF GrowsPlainly
  <2>3. CASE n \in Live(t)
    <3>1. Lstat(t, q) # Nil BY <1>1, <2>3, NewlyFound
    <3>2. n = Lstat(t, q) BY <3>1, FoundStaysFound DEF GrowsPlainly
    <3>3. u[n].kind = t[n].kind BY <2>3 DEF GrowsPlainly, Grows
    <3>. QED BY <1>1, <3>1, <3>2, <3>3 DEF Straight
  <2>. QED BY <2>2, <2>3
<1>. QED BY <1>1 DEF Straight

(* Below a place at and below which there are no links.                    *)
LEMMA StraightBelow ==
    ASSUME NEW t, Tree(t), NEW to \in Places, Straight(t, to),
           \A n \in Live(t) : t[n].kind = "link" => ~IsPrefix(to, PathOf(t, n)),
           NEW p \in Places, IsPrefix(to, p)
    PROVE  Straight(t, p)
<1>0. Structured(t) BY DEF Tree
<1>. DEFINE P == {q \in Places : IsPrefix(q, to) \/ IsPrefix(to, q) => Straight(t, q)}
<1>1. <<>> \in P
  <2>1. IsPrefix(<<>>, to) /\ <<>> \in Places BY PrefixOrder, Nowhere
  <2>. QED BY <2>1, StraightPrefix
<1>2. ASSUME NEW q \in P, NEW x, x \in STRING PROVE Append(q, x) \in P
  <2>. DEFINE v == Append(q, x)
  <2>1. q \in Places /\ v \in Places BY <1>2, PrefixOrder
  <2>2. CASE IsPrefix(v, to) BY <2>1, <2>2, StraightPrefix
  <2>3. CASE IsPrefix(to, v) /\ ~IsPrefix(v, to)
    <3>1. IsPrefix(to, q)
      <4>1. to = v \/ IsPrefix(to, q) BY <1>2, <2>1, <2>3, PrefixOrder
      <4>2. to # v BY <2>1, <2>3, PrefixOrder
      <4>. QED BY <4>1, <4>2
    <3>2. Straight(t, q) BY <3>1
    <3>3. ASSUME NEW u \in Places, IsPrefix(u, v), Lstat(t, u) # Nil
          PROVE  t[Lstat(t, u)].kind # "link"
      <4>1. CASE u # v
        <5>1. IsPrefix(u, q) BY <1>2, <2>1, <3>3, <4>1, PrefixOrder
        <5>. QED BY <3>2, <3>3, <5>1 DEF Straight
      <4>2. CASE u = v
        <5>. DEFINE d == Stat(t, q)
                    n == Entry(t, d, x)
        <5>1. d # Nil BY <1>0, <1>2, <2>1, <3>3, <4>2, StatAppend
        <5>2. Lstat(t, v) = n BY <1>0, <1>2, <2>1, <5>1, StatAppend
        <5>3. d \in Live(t) /\ PathOf(t, d) = q
          BY <2>1, <3>2, <5>1, StraightDef
        <5>4. n # Nil BY <3>3, <4>2, <5>2
        <5>5. n \in Live(t) /\ PathOf(t, n) = v
          BY <1>2, <5>3, <5>4, EntryPath
        <5>. QED BY <2>3, <4>2, <5>2, <5>5
      <4>. QED BY <4>1, <4>2
    <3>. QED BY <2>1, <3>3 DEF Straight
  <2>. QED BY <2>1, <2>2, <2>3
<1>3. P = Places
  <2>1. P \in SUBSET Places OBVIOUS
  <2>. HIDE DEF P
  <2>. QED BY <1>1, <1>2, <2>1, PathInduction
<1>. QED BY <1>3

(* What sandbox.Resolve returns has no link on it, nor at its end.         *)
LEMMA ResolveStraight ==
    ASSUME NEW t, Tree(t), NEW path \in Places, Resolve(t, path) # Nil
    PROVE  Resolve(t, path) \in Places /\ Straight(t, Resolve(t, path))
<1>0. Structured(t) /\ Len(path) \in Nat BY PartType DEF Tree
<1>. DEFINE R == Resolve(t, path)
<1>1. PICK i : Splits(t, path, i) /\ R = PathOf(t, Stat(t, Part(path, i))) \o Rest(path, i)
  BY ResolveSplits
<1>. DEFINE e == Stat(t, Part(path, i))
            a == PathOf(t, e)
            r == Rest(path, i)
<1>2. i \in 0 .. Len(path) /\ e # Nil /\ Part(path, i) \in Places /\ r \in Places
  BY <1>1, PartType DEF Splits
<1>3. e \in Live(t) /\ t[e].kind # "link" /\ a \in Places
  BY <1>0, <1>2, StatLive, PathDef
<1>4. R = a \o r /\ R \in Places
  BY <1>1, <1>2, <1>3, ConcatProperties DEF Places
<1>5. Lstat(t, a) = e BY <1>3, NodeFound
<1>6. ASSUME r # <<>>
      PROVE  Entry(t, e, r[1]) = Nil
  <2>1. i \in 0 .. Len(path) - 1 BY <1>0, <1>2, <1>6, PartType
  <2>2. /\ path[i + 1] \in STRING /\ i + 1 \in i + 1 .. Len(path)
        /\ Part(path, i + 1) = Append(Part(path, i), path[i + 1])
        /\ r = <<path[i + 1]>> \o Rest(path, i + 1)
        /\ Rest(path, i + 1) \in Places
    <3>1. i + 1 \in i + 1 .. Len(path) /\ i + 1 \in 0 .. Len(path)
      BY <1>0, <2>1
    <3>. QED BY <2>1, <3>1, PartType
  <2>. DEFINE x == path[i + 1]
              s == Rest(path, i + 1)
  <2>3. r[1] = x
    <3>1. x \in STRING /\ s \in Seq(STRING) /\ r = <<x>> \o s
      BY <2>2 DEF Places
    <3>. HIDE DEF x, s, r
    <3>. QED BY <3>1
  <2>4. Lstat(t, Append(Part(path, i), x)) = Nil
    BY <1>1, <2>2 DEF Splits
  <2>5. Lstat(t, Append(Part(path, i), x)) = Entry(t, e, x)
    <3>. DEFINE p == Part(path, i)
    <3>1. x \in STRING /\ p \in Places /\ Stat(t, p) # Nil
      BY <1>2, <2>2
    <3>. HIDE DEF x, p
    <3>2. Lstat(t, Append(p, x)) = Entry(t, Stat(t, p), x)
      BY <1>0, <3>1, StatAppend
    <3>. QED BY <3>2 DEF p
  <2>. QED BY <2>3, <2>4, <2>5
<1>. HIDE DEF R, e, a, r
<1>. DEFINE Good(q) == Lstat(t, q) # Nil =>
                /\ IsPrefix(q, a) /\ t[Lstat(t, q)].kind # "link"
                /\ Lstat(t, q) \in Live(t) /\ PathOf(t, Lstat(t, q)) = q
            P == {q \in Places : IsPrefix(q, R) => Good(q)}
<1>7. <<>> \in P
  <2>1. IsPrefix(<<>>, a) BY <1>3, PrefixOrder
  <2>2. Good(<<>>) BY <2>1, TopStat
  <2>. QED BY <2>2, Nowhere
<1>8. ASSUME NEW q \in P, NEW x, x \in STRING PROVE Append(q, x) \in P
  <2>. DEFINE v == Append(q, x)
              d == Stat(t, q)
              n == Entry(t, d, x)
  <2>1. q \in Places /\ v \in Places BY <1>8, PrefixOrder
  <2>2. SUFFICES ASSUME IsPrefix(v, R), Lstat(t, v) # Nil
        PROVE  /\ IsPrefix(v, a) /\ t[Lstat(t, v)].kind # "link"
               /\ Lstat(t, v) \in Live(t) /\ PathOf(t, Lstat(t, v)) = v
    BY <2>1
  <2>3. IsPrefix(q, R)
    <3>1. IsPrefix(q, v) BY <1>8, <2>1, PrefixOrder
    <3>. HIDE DEF v
    <3>. QED BY <1>4, <2>1, <2>2, <3>1, PrefixOrder
  <2>4. d # Nil BY <1>0, <1>8, <2>1, <2>2, StatAppend
  <2>5. Lstat(t, v) = n BY <1>0, <1>8, <2>1, <2>4, StatAppend
  <2>6. Lstat(t, q) # Nil BY <1>0, <2>1, <2>4, LstatStat
  <2>7. IsPrefix(q, a) /\ d \in Live(t) /\ PathOf(t, d) = q
    <3>1. Good(q) BY <2>3
    <3>2. d = Lstat(t, q) BY <1>0, <2>1, <2>6, <3>1, LstatStat
    <3>. QED BY <2>6, <3>1, <3>2
  <2>8. q # a
    <3>1. SUFFICES ASSUME q = a PROVE FALSE OBVIOUS
    <3>2. d = e
      <4>1. Lstat(t, PathOf(t, d)) = d BY <2>7, NodeFound
      <4>. QED BY <1>5, <2>7, <3>1, <4>1
    <3>3. r # <<>> /\ r[1] = x
      <4>1. a \in Seq(STRING) /\ r \in Seq(STRING) /\ IsPrefix(Append(a, x), a \o r)
        BY <1>2, <1>3, <1>4, <2>2, <3>1 DEF Places
      <4>. QED BY <1>8, <4>1, NextName
    <3>. QED BY <1>6, <2>2, <2>5, <3>2, <3>3
  <2>9. IsPrefix(v, a)
    <3>1. IsPrefix(a, R)
      <4>1. a \in Seq(STRING) /\ r \in Seq(STRING)
        BY <1>2, <1>3 DEF Places
      <4>. QED BY <1>4, <4>1, PrefixOfConcat
    <3>2. IsPrefix(v, a) \/ IsPrefix(a, v)
      <4>. HIDE DEF v
      <4>. QED BY <1>3, <1>4, <2>1, <2>2, <3>1, PrefixOrder
    <3>3. IsPrefix(a, v) => a = v
      <4>1. IsPrefix(a, v) => a = v \/ IsPrefix(a, q)
        BY <1>3, <1>8, <2>1, PrefixOrder
      <4>2. ~IsPrefix(a, q) BY <1>3, <2>1, <2>7, <2>8, PrefixOrder
      <4>. QED BY <4>1, <4>2
    <3>4. IsPrefix(a, a) BY <1>3, PrefixOrder
    <3>. QED BY <3>2, <3>3, <3>4
  <2>10. n \in Live(t) /\ PathOf(t, n) = v
    <3>1. n # Nil BY <2>2, <2>5
    <3>. HIDE DEF P, d
    <3>2. n \in Live(t) /\ PathOf(t, n) = Append(PathOf(t, d), x)
      BY <1>8, <2>7, <3>1, EntryPath
    <3>. QED BY <2>7, <3>2
  <2>11. t[n].kind # "link"
    <3>. HIDE DEF P, n, v, Good
    <3>1. CASE n = e BY <1>3, <3>1
    <3>2. CASE n # e
      <4>1. AtOrBelow(t, n, e) BY <2>9, <2>10 DEF AtOrBelow, a
      <4>2. t[n].kind = "dir"
        BY <1>3, <2>10, <3>2, <4>1, AncestorIsDir
      <4>. QED BY <4>2
    <3>. QED BY <3>1, <3>2
  <2>. QED BY <2>5, <2>9, <2>10, <2>11
<1>9. P = Places
  <2>1. P \in SUBSET Places OBVIOUS
  <2>. HIDE DEF P
  <2>. QED BY <1>7, <1>8, <2>1, PathInduction
<1>10. Straight(t, R) BY <1>9 DEF Straight
<1>. QED BY <1>4, <1>10 DEF R

(* The beginnings of a sequence with one more element.                     *)
LEMMA PartAppendOfSeq ==
    ASSUME NEW S, NEW p \in Seq(S), NEW x \in S
    PROVE  /\ Append(p, x) \in Seq(S) /\ Len(Append(p, x)) = Len(p) + 1
           /\ \A j \in 0 .. Len(p) : SubSeq(Append(p, x), 1, j) = SubSeq(p, 1, j)
           /\ SubSeq(Append(p, x), 1, Len(p) + 1) = Append(p, x)
<1>. DEFINE v == Append(p, x)
<1>1. Len(p) \in Nat /\ v \in Seq(S) /\ Len(v) = Len(p) + 1 /\ \A i \in 1 .. Len(p) : v[i] = p[i]
  BY LenProperties, AppendProperties
<1>. HIDE DEF v
<1>2. SubSeq(v, 1, Len(v)) = v BY <1>1, SubSeqFull
<1>3. ASSUME NEW j \in 0 .. Len(p) PROVE SubSeq(v, 1, j) = SubSeq(p, 1, j)
  <2>1. /\ \A i \in 1 .. j : v[i] = p[i] /\ p[i] \in S /\ v[i] \in S
        /\ 1 \in Int /\ j \in Int
    BY <1>1, ElementOfSeq
  <2>2. /\ SubSeq(v, 1, j) \in Seq(S)
        /\ Len(SubSeq(v, 1, j)) = IF 1 <= j THEN j - 1 + 1 ELSE 0
        /\ \A i \in 1 .. j - 1 + 1 : SubSeq(v, 1, j)[i] = v[1 + i - 1]
    BY <2>1, SubSeqProperties
  <2>3. /\ SubSeq(p, 1, j) \in Seq(S)
        /\ Len(SubSeq(p, 1, j)) = IF 1 <= j THEN j - 1 + 1 ELSE 0
        /\ \A i \in 1 .. j - 1 + 1 : SubSeq(p, 1, j)[i] = p[1 + i - 1]
    BY <2>1, SubSeqProperties
  <2>4. Len(SubSeq(v, 1, j)) = j /\ Len(SubSeq(p, 1, j)) = j
    BY <1>1, <2>2, <2>3
  <2>5. ASSUME NEW i \in 1 .. j PROVE SubSeq(v, 1, j)[i] = SubSeq(p, 1, j)[i]
    <3>1. i \in 1 .. j - 1 + 1 /\ 1 + i - 1 = i BY <1>1
    <3>. QED BY <2>1, <2>2, <2>3, <3>1
  <2>. QED BY <2>2, <2>3, <2>4, <2>5, SeqEqual
<1>. QED BY <1>1, <1>2, <1>3 DEF v

(* The same of paths.                                                      *)
LEMMA PartAppend ==
    ASSUME NEW p \in Places, NEW x, x \in STRING
    PROVE  /\ Append(p, x) \in Places /\ Len(Append(p, x)) = Len(p) + 1
           /\ \A j \in 0 .. Len(p) : Part(Append(p, x), j) = Part(p, j)
           /\ Part(Append(p, x), Len(p) + 1) = Append(p, x)
BY PartAppendOfSeq DEF Part, Places

(* The first i names are a prefix.                                         *)
LEMMA PartPrefix ==
    ASSUME NEW p \in Places, NEW i \in 0 .. Len(p)
    PROVE  Part(p, i) \in Places /\ IsPrefix(Part(p, i), p)
<1>1. /\ p \in Seq(STRING) /\ Len(p) \in Nat /\ Part(p, i) \in Places /\ Len(Part(p, i)) = i
  BY PartType DEF Places
<1>2. /\ Part(p, i) \in Seq(STRING)
      /\ \A j \in 1 .. i - 1 + 1 : SubSeq(p, 1, i)[j] = p[1 + j - 1]
  <2>1. (\A j \in 1 .. i : p[j] \in STRING) /\ 1 \in Int /\ i \in Int
    BY <1>1, ElementOfSeq
  <2>. QED BY <1>1, <2>1, SubSeqProperties DEF Places
<1>3. ASSUME NEW j \in 1 .. i PROVE Part(p, i)[j] = p[j]
  <2>1. j \in 1 .. i - 1 + 1 /\ 1 + j - 1 = j BY <1>1
  <2>. QED BY <1>2, <2>1 DEF Part
<1>. QED BY <1>1, <1>2, <1>3, PrefixElements

(* What was not there when a request came in is found under the name it    *)
(* would have been given, once it is made.                                 *)
LEMMA ResolveGrown ==
    ASSUME NEW b, NEW t, Tree(b), Tree(t), GrowsPlainly(b, t),
           NEW path \in Places, NEW i, Splits(b, path, i), Resolve(t, path) # Nil
    PROVE  Resolve(t, path) = Place(b, path)
<1>0. /\ Structured(b) /\ Structured(t) /\ Grows(b, t) /\ Len(path) \in Nat
      /\ i \in 0 .. Len(path)
  BY PartType DEF Tree, GrowsPlainly, Splits
<1>1. PICK k : Splits(t, path, k) /\ Resolve(t, path) = PathOf(t, Stat(t, Part(path, k))) \o Rest(path, k)
  BY ResolveSplits
<1>2. Place(b, path) = PathOf(b, Stat(b, Part(path, i))) \o Rest(path, i)
  BY PlaceDef
<1>3. \A m \in 0 .. Len(path) : Part(path, m) \in Places /\ Rest(path, m) \in Places
  BY PartType
<1>. DEFINE Good(m) == /\ Stat(t, Part(path, m)) # Nil
                       /\ PathOf(t, Stat(t, Part(path, m))) \o Rest(path, m) = Place(b, path)
            P == {m \in i .. Len(path) : Good(m)}
<1>4. Stat(b, Part(path, i)) # Nil /\ Stat(t, Part(path, i)) = Stat(b, Part(path, i))
  BY <1>0, <1>3, FoundStaysFound DEF Splits
<1>5. k \in i .. Len(path) /\ Stat(t, Part(path, k)) # Nil
  <2>1. k \in 0 .. Len(path) /\ Stat(t, Part(path, k)) # Nil
    BY <1>1 DEF Splits
  <2>2. i \notin k + 1 .. Len(path) BY <1>1, <1>4 DEF Splits
  <2>. QED BY <1>0, <2>1, <2>2
<1>6. i \in P
  <2>. DEFINE e == Stat(b, Part(path, i))
  <2>1. e \in Live(b) BY <1>0, <1>3, <1>4, StatLive
  <2>2. PathOf(t, e) = PathOf(b, e) BY <1>0, <2>1, PathGrows
  <2>. QED BY <1>0, <1>2, <1>4, <2>2
<1>7. ASSUME NEW m \in i .. k - 1, m \in P PROVE m + 1 \in P
  <2>1. /\ m \in 0 .. Len(path) - 1 /\ m \in 0 .. Len(path) /\ m + 1 \in 0 .. Len(path)
        /\ m + 1 \in i + 1 .. Len(path) /\ m + 1 \in i .. Len(path) /\ k \in m + 1 .. Len(path)
    BY <1>0, <1>5
  <2>. DEFINE x == path[m + 1]
              p == Part(path, m)
              v == Part(path, m + 1)
              s == Rest(path, m + 1)
              d == Stat(t, p)
              n == Entry(t, d, x)
  <2>2. /\ p \in Places /\ x \in STRING /\ v = Append(p, x) /\ v \in Places /\ s \in Places
        /\ Rest(path, m) = <<x>> \o s
    BY <1>3, <2>1, PartType
  <2>3. d # Nil /\ PathOf(t, d) \o Rest(path, m) = Place(b, path)
    BY <1>7
  <2>4. Stat(t, v) # Nil
    <3>1. Stat(t, v) = Nil => Stat(t, Part(path, k)) = Nil
      BY <1>0, <2>1, NowhereBelow
    <3>. QED BY <1>5, <3>1
  <2>5. Lstat(b, v) = Nil BY <2>1 DEF Splits
  <2>. HIDE DEF x, p, v, s
  <2>6. Lstat(t, v) = n /\ (n = Nil => Stat(t, v) = Nil) /\ (n # Nil /\ t[n].kind # "link" => Stat(t, v) = n)
    BY <1>0, <2>2, <2>3, StatAppend
  <2>7. n # Nil BY <2>4, <2>6
  <2>8. n \in Live(t) \ Live(b)
    BY <1>0, <2>2, <2>5, <2>6, <2>7, NewlyFound, StatLive
  <2>9. Stat(t, v) = n BY <2>6, <2>7, <2>8 DEF GrowsPlainly
  <2>10. d \in Live(t) BY <1>0, <2>2, <2>3, StatLive
  <2>11. PathOf(t, n) = Append(PathOf(t, d), x) /\ PathOf(t, d) \in Places
    <3>. HIDE DEF d
    <3>1. PathOf(t, n) = Append(PathOf(t, d), x)
      BY <2>2, <2>7, <2>10, EntryPath
    <3>. QED BY <2>10, <3>1, PathDef
  <2>12. PathOf(t, n) \o s = PathOf(t, d) \o Rest(path, m)
    <3>. DEFINE q == PathOf(t, d)
    <3>. HIDE DEF q
    <3>1. q \in Seq(STRING) /\ s \in Seq(STRING) /\ <<x>> \in Seq(STRING)
      BY <2>2, <2>11, Singleton DEF Places, q
    <3>2. Append(q, x) = q \o <<x>> BY <2>2, <3>1, AppendIsConcat
    <3>3. (q \o <<x>>) \o s = q \o (<<x>> \o s)
      BY <3>1, ConcatAssociative
    <3>. QED BY <2>2, <2>11, <3>2, <3>3 DEF q
  <2>13. Good(m + 1) BY <2>3, <2>4, <2>9, <2>12 DEF v, s
  <2>. QED BY <2>1, <2>13
<1>8. k \in P
  <2>1. i \in Nat /\ k \in Nat /\ k \in i .. k BY <1>0, <1>5
  <2>2. \A m \in i .. k - 1 : m \in P => m + 1 \in P BY <1>7
  <2>. HIDE DEF P
  <2>3. \A m \in i .. k : m \in P BY <1>6, <2>1, <2>2, UpwardInduction
  <2>. QED BY <2>1, <2>3
<1>. QED BY <1>1, <1>8

(* A file of an upload, whose folder leads to what is there.               *)
LEMMA SplitsFront ==
    ASSUME NEW b, Structured(b), NEW p \in Places, NEW x, x \in STRING,
           NEW k, Splits(b, Append(p, x), k)
    PROVE  \E i : Splits(b, p, i)
<1>. DEFINE v == Append(p, x)
<1>0. Len(p) \in Nat BY PartType
<1>1. v \in Places /\ Len(v) = Len(p) + 1 /\ Part(v, Len(p) + 1) = v
      /\ \A j \in 0 .. Len(p) : Part(v, j) = Part(p, j)
  BY PartAppend
<1>. HIDE DEF v
<1>2. k \in 0 .. Len(p) + 1 /\ Stat(b, Part(v, k)) # Nil
      /\ \A j \in k + 1 .. Len(p) + 1 : Stat(b, Part(v, j)) = Nil /\ Lstat(b, Part(v, j)) = Nil
  BY <1>1 DEF Splits, v
<1>3. CASE k <= Len(p)
  <2>1. k \in 0 .. Len(p) BY <1>0, <1>2, <1>3
  <2>2. \A j \in k + 1 .. Len(p) : j \in k + 1 .. Len(p) + 1 /\ j \in 0 .. Len(p)
    BY <1>0, <2>1
  <2>3. \A j \in k + 1 .. Len(p) : Stat(b, Part(p, j)) = Nil /\ Lstat(b, Part(p, j)) = Nil
    BY <1>1, <1>2, <2>2
  <2>4. Stat(b, Part(p, k)) # Nil BY <1>1, <1>2, <2>1
  <2>. QED BY <2>1, <2>3, <2>4 DEF Splits
<1>4. CASE k = Len(p) + 1
  <2>1. Stat(b, Append(p, x)) # Nil BY <1>1, <1>2, <1>4 DEF v
  <2>2. Stat(b, p) # Nil BY <2>1, StatAppend
  <2>3. Part(p, Len(p)) = p /\ Len(p) \in 0 .. Len(p)
    BY <1>0, PartType
  <2>4. \A j \in Len(p) + 1 .. Len(p) : FALSE BY <1>0
  <2>. QED BY <2>2, <2>3, <2>4 DEF Splits
<1>. QED BY <1>0, <1>2, <1>3, <1>4

(* and one with one name more for that place or for what is new.           *)
LEMMA ResolveInFolder ==
    ASSUME NEW b, NEW t, Tree(b), Tree(t), GrowsPlainly(b, t),
           NEW p \in Places, NEW x, x \in STRING, NEW i, Splits(b, p, i),
           Resolve(t, Append(p, x)) # Nil
    PROVE  \/ Resolve(t, Append(p, x)) = Place(b, Append(p, x))
           \/ \E e \in Live(t) \ Live(b) : Resolve(t, Append(p, x)) = PathOf(t, e)
<1>. DEFINE v == Append(p, x)
            n == Len(p)
<1>0. Structured(b) /\ Structured(t) /\ Grows(b, t) /\ n \in Nat /\ i \in 0 .. n
  BY PartType DEF Tree, GrowsPlainly, Splits
<1>1. v \in Places /\ Len(v) = n + 1 /\ Part(v, n + 1) = v
      /\ \A j \in 0 .. n : Part(v, j) = Part(p, j)
  BY PartAppend
<1>2. /\ Stat(b, p) = Nil => Stat(b, v) = Nil /\ Lstat(b, v) = Nil
  BY <1>0, StatAppend
<1>a. Part(p, n) = p BY PartType
<1>. HIDE DEF v, n
<1>3. CASE \E k : Splits(b, v, k)
  <2>1. PICK k : Splits(b, v, k) BY <1>3
  <2>2. Resolve(t, v) # Nil BY DEF v
  <2>3. Resolve(t, v) = Place(b, v) BY <1>1, <2>1, <2>2, ResolveGrown
  <2>. QED BY <2>3 DEF v
<1>4. CASE \A k : ~Splits(b, v, k)
  <2>1. i = n
    <3>1. SUFFICES ASSUME i # n PROVE FALSE OBVIOUS
    <3>2. Stat(b, p) = Nil
      <4>1. n \in i + 1 .. n BY <1>0, <3>1
      <4>. QED BY <1>a, <4>1 DEF Splits, n
    <3>3. ASSUME NEW j \in i + 1 .. n + 1
          PROVE  Stat(b, Part(v, j)) = Nil /\ Lstat(b, Part(v, j)) = Nil
      <4>1. CASE j = n + 1 BY <1>1, <1>2, <3>2, <4>1
      <4>2. CASE j # n + 1
        <5>1. j \in i + 1 .. n /\ j \in 0 .. n BY <1>0, <4>2
        <5>. QED BY <1>1, <5>1 DEF Splits, n
      <4>. QED BY <4>1, <4>2
    <3>4. i \in 0 .. n + 1 /\ Stat(b, Part(v, i)) # Nil
      BY <1>0, <1>1 DEF Splits
    <3>5. Splits(b, v, i) BY <1>1, <3>3, <3>4 DEF Splits
    <3>. QED BY <1>4, <3>5
  <2>2. Stat(b, v) = Nil
    <3>1. n + 1 \in 0 .. n + 1 /\ \A j \in n + 1 + 1 .. n + 1 : FALSE
      BY <1>0
    <3>2. ~Splits(b, v, n + 1) BY <1>4
    <3>. QED BY <1>1, <3>1, <3>2 DEF Splits
  <2>3. Lstat(b, v) # Nil
    <3>1. SUFFICES ASSUME Lstat(b, v) = Nil PROVE FALSE OBVIOUS
    <3>2. n \in 0 .. n + 1 /\ \A j \in n + 1 .. n + 1 : j = n + 1
      BY <1>0
    <3>3. Stat(b, Part(v, n)) # Nil
      <4>1. n \in 0 .. n BY <1>0
      <4>. QED BY <1>1, <2>1, <4>1 DEF Splits
    <3>4. Splits(b, v, n) BY <1>1, <2>2, <3>1, <3>2, <3>3 DEF Splits
    <3>. QED BY <1>4, <3>4
  <2>4. Lstat(t, v) # Nil BY <1>0, <1>1, <2>3, FoundStaysFound
  <2>5. Resolve(t, v) # Nil BY DEF v
  <2>6. PICK k : Splits(t, v, k) /\ Resolve(t, v) = PathOf(t, Stat(t, Part(v, k))) \o Rest(v, k)
    BY <1>1, <2>5, ResolveSplits
  <2>7. k = n + 1
    <3>1. k \in 0 .. n + 1 BY <1>1, <2>6 DEF Splits
    <3>2. n + 1 \notin k + 1 .. n + 1 BY <1>1, <2>4, <2>6 DEF Splits
    <3>. QED BY <1>0, <3>1, <3>2
  <2>. DEFINE e == Stat(t, v)
  <2>8. e # Nil /\ Resolve(t, v) = PathOf(t, e) \o Rest(v, n + 1)
    BY <1>1, <2>6, <2>7 DEF Splits
  <2>9. Rest(v, n + 1) = <<>> BY <1>1, PartType
  <2>10. e \in Live(t) \ Live(b)
    BY <1>0, <1>1, <2>2, <2>8, NewlyFound, StatLive
  <2>11. PathOf(t, e) \o <<>> = PathOf(t, e)
    <3>1. PathOf(t, e) \in Places BY <2>10, PathDef
    <3>. QED BY <3>1, ConcatEmptySeq DEF Places
  <2>. QED BY <2>8, <2>9, <2>10, <2>11 DEF v
<1>. QED BY <1>3, <1>4

-----------------------------------------------------------------------------
(* What may be made, and what may be taken away.                           *)

(* A tree that has gained the node k, at the path.                         *)
Gains(t, u, k, kind, data, path) ==
    /\ Tree(u) /\ Grows(t, u)
    /\ k \notin Live(t) /\ Live(u) = Live(t) \union {k}
    /\ \A n \in Live(t) : u[n] = t[n]
    /\ u[k].kind = kind /\ u[k].data = data /\ u[k].target = <<>>
    /\ PathOf(u, k) = path /\ Stat(u, path) = k

(* A new node is one more, and the others are as they were.                *)
LEMMA HavingGains ==
    ASSUME NEW t, Tree(t), NEW k \in Spare(t), NEW kind \in {"dir", "file"}, NEW d \in Node,
           NEW x, x \in STRING, NEW data \in Contents,
           NEW u, u = Having(t, k, kind, d, x, data)
    PROVE  /\ k \notin Live(t) /\ Live(u) = Live(t) \union {k}
           /\ \A n \in Live(t) : u[n] = t[n]
           /\ u[k].kind = kind /\ u[k].data = data /\ u[k].target = <<>>
<1>. DEFINE new == [kind |-> kind, in |-> d, name |-> x, data |-> data, target |-> <<>>]
<1>1. t \in [Node -> Nodes] /\ k \in Node /\ t[k].in = Nil /\ k \notin Live(t)
  BY DEF Tree, Structured, Spare, Unused, Live
<1>2. u[k] = new /\ \A m \in Node \ {k} : u[m] = t[m]
  BY <1>1 DEF Having
<1>3. new.kind = kind /\ new.in = d /\ new.data = data /\ new.target = <<>> /\ d # Nil
  BY FileSystemAssumption
<1>. HIDE DEF new
<1>4. Live(u) = Live(t) \union {k} BY <1>1, <1>2, <1>3 DEF Live
<1>5. \A n \in Live(t) : u[n] = t[n] BY <1>1, <1>2 DEF Live
<1>. QED BY <1>1, <1>2, <1>3, <1>4, <1>5

(* On a straight path a call makes what the path says.                     *)
LEMMA AddGains ==
    ASSUME NEW t, Tree(t), NEW path \in Places, Straight(t, path),
           NEW kind \in {"dir", "file"}, NEW data \in Contents,
           NEW u, u = Add(t, path, kind, data), u # Nil
    PROVE  \E k : Gains(t, u, k, kind, data, path)
<1>. DEFINE p == Front(path)
            x == Last(path)
            d == Stat(t, p)
            k == Min(Spare(t))
<1>0. Structured(t) BY DEF Tree
<1>1. /\ path # <<>> /\ IsDir(t, p) /\ Spare(t) # {}
      /\ u = Having(t, k, kind, d, x, data)
  BY DEF Add, Having
<1>2. p \in Places /\ x \in STRING BY <1>1, FrontLast
<1>3. d # Nil /\ d \in Live(t) /\ d \in Node
  BY <1>0, <1>1, <1>2, StatLive DEF IsDir, Live
<1>4. k \in Spare(t) BY <1>1, SpareMin
<1>. HIDE DEF p, x, d, k
<1>5. /\ k \notin Live(t) /\ Live(u) = Live(t) \union {k}
      /\ \A n \in Live(t) : u[n] = t[n]
      /\ u[k].kind = kind /\ u[k].data = data /\ u[k].target = <<>>
  BY <1>1, <1>2, <1>3, <1>4, HavingGains
<1>6. Tree(u) /\ Grows(t, u) /\ Lstat(t, path) = Nil /\ Lstat(u, path) # Nil
  BY AddTree
<1>7. Structured(u) /\ GrowsPlainly(t, u)
  BY <1>5, <1>6 DEF Tree, GrowsPlainly
<1>8. Lstat(u, path) = k
  BY <1>0, <1>5, <1>6, <1>7, NewlyFound, StatLive
<1>9. Straight(u, path) BY <1>0, <1>7, StraightGrows
<1>10. Stat(u, path) = k /\ PathOf(u, k) = path
  BY <1>6, <1>8, <1>9, StraightDef
<1>. QED BY <1>5, <1>6, <1>10 DEF Gains

(* os.Mkdir on a straight path makes a directory at that path.             *)
LEMMA MkdirGains ==
    ASSUME NEW t, Tree(t), NEW path \in Places, Straight(t, path), Mkdir(t, path) # Nil
    PROVE  \E k : Gains(t, Mkdir(t, path), k, "dir", Nil, path)
<1>1. Nil \in Contents BY DEF Contents
<1>. DEFINE u == Mkdir(t, path)
<1>2. u = Add(t, path, "dir", Nil) /\ u # Nil BY DEF Mkdir
<1>. HIDE DEF u
<1>3. \E k : Gains(t, u, k, "dir", Nil, path) BY <1>1, <1>2, AddGains
<1>. QED BY <1>3 DEF u

(* os.Create on one makes a file there, or empties the file there.         *)
LEMMA OpenGains ==
    ASSUME NEW t, Tree(t), NEW path \in Places, Straight(t, path),
           NEW u, u = OpenTruncated(t, path), u # Nil
    PROVE  \/ \E k : Gains(t, u, k, "file", Empty, path)
           \/ /\ Stat(t, path) \in Live(t) /\ t[Stat(t, path)].kind = "file"
              /\ PathOf(t, Stat(t, path)) = path
              /\ u = Holding(t, Stat(t, path), Empty)
<1>1. CASE Stat(t, path) = Nil
  <2>1. Empty \in Contents BY DEF Contents
  <2>2. u = Add(t, path, "file", Empty)
    BY <1>1 DEF OpenTruncated, OpenNew
  <2>. QED BY <2>1, <2>2, AddGains
<1>2. CASE Stat(t, path) # Nil
  <2>1. Stat(t, path) \in Live(t) /\ PathOf(t, Stat(t, path)) = path
    BY <1>2, StraightDef
  <2>2. t[Stat(t, path)].kind = "file" /\ u = Holding(t, Stat(t, path), Empty)
    BY <1>2 DEF OpenTruncated, Holding
  <2>. QED BY <2>1, <2>2
<1>. QED BY <1>1, <1>2

(* Data have been written, and files and directories made, at the places W *)
(* alone, but for directories before those of T.                           *)
Parent(u, n, T) ==
    /\ u[n].kind = "dir" /\ u[n].data = Nil
    /\ \E q \in T : IsStrictPrefix(PathOf(u, n), q)

Spread(b, t, W, T) ==
    /\ Tree(t) /\ Grows(b, t)
    /\ \A n \in Live(b) : t[n].data = b[n].data \/ PathOf(b, n) \in W
    /\ \A n \in Live(t) \ Live(b) :
        /\ t[n].kind # "link" /\ t[n].target = <<>>
        /\ PathOf(t, n) \in W \/ Parent(t, n, T)

(* To begin with nothing has been written.                                 *)
LEMMA SpreadStart ==
    ASSUME NEW b, Tree(b), NEW W, NEW T
    PROVE  Spread(b, b, W, T)
BY DEF Spread, Grows

(* A tree in which things were written has grown from the one before.      *)
LEMMA SpreadPlainly ==
    ASSUME NEW b, NEW t, NEW W, NEW T, Spread(b, t, W, T)
    PROVE  GrowsPlainly(b, t) /\ Structured(t) /\ Tree(t) /\ Grows(b, t)
BY DEF Spread, GrowsPlainly, Tree

(* Growing is transitive, also with links.                                 *)
LEMMA GrowsThrough ==
    ASSUME NEW t, NEW u, NEW v, Structured(t), Grows(t, u), Grows(u, v)
    PROVE  Grows(t, v)
<1>1. Live(t) \subseteq Live(u) BY GrowsLive
<1>. QED BY <1>1 DEF Grows

(* To make something at a given place, or a directory on the way to one,   *)
(* keeps to the places.                                                    *)
LEMMA SpreadGains ==
    ASSUME NEW b, NEW t, NEW W, NEW T, Tree(b), Spread(b, t, W, T),
           NEW u, NEW k, NEW kind, NEW data, NEW path, Gains(t, u, k, kind, data, path),
           kind # "link",
           path \in W \/ (kind = "dir" /\ data = Nil /\ \E q \in T : IsStrictPrefix(path, q))
    PROVE  Spread(b, u, W, T)
<1>1. Tree(u) /\ Grows(b, u) /\ Live(b) \subseteq Live(t) /\ Structured(b) /\ Tree(t) /\ Grows(t, u)
  BY GrowsThrough, GrowsLive DEF Spread, Gains, Tree
<1>2. \A n \in Live(b) : u[n].data = b[n].data \/ PathOf(b, n) \in W
  BY <1>1 DEF Spread, Gains
<1>3. ASSUME NEW n \in Live(t) \ Live(b)
      PROVE  /\ u[n].kind # "link" /\ u[n].target = <<>>
             /\ PathOf(u, n) \in W \/ Parent(u, n, T)
  <2>1. u[n] = t[n] BY DEF Gains
  <2>2. PathOf(u, n) = PathOf(t, n) BY <1>1, PathGrows
  <2>. QED BY <2>1, <2>2 DEF Spread, Parent
<1>4. /\ u[k].kind # "link" /\ u[k].target = <<>>
      /\ PathOf(u, k) \in W \/ Parent(u, k, T)
  BY DEF Gains, Parent
<1>5. \A n \in Live(u) \ Live(b) : n = k \/ n \in Live(t) \ Live(b)
  BY DEF Gains
<1>. QED BY <1>1, <1>2, <1>3, <1>4, <1>5 DEF Spread

(* Writing to a file changes its data and nothing else.                    *)
LEMMA HoldingNode ==
    ASSUME NEW t, Tree(t), NEW n \in Live(t), NEW x
    PROVE  LET u == Holding(t, n, x) IN
           /\ Live(u) = Live(t)
           /\ \A m \in Live(t) :
                /\ u[m].kind = t[m].kind /\ u[m].target = t[m].target
                /\ m # n => u[m] = t[m]
<1>. DEFINE u == Holding(t, n, x)
<1>0. t \in [Node -> Nodes] BY DEF Tree, Structured
<1>1. ASSUME NEW m \in Node
      PROVE  /\ u[m].kind = t[m].kind /\ u[m].in = t[m].in
             /\ u[m].target = t[m].target /\ (m # n => u[m] = t[m])
  <2>1. u[m] = IF m = n THEN [t[m] EXCEPT !.data = x] ELSE t[m]
    BY <1>0 DEF Holding
  <2>2. t[m] \in Nodes BY <1>0
  <2>. HIDE DEF u
  <2>. QED BY <2>1, <2>2 DEF Nodes
<1>. HIDE DEF u
<1>2. Live(u) = Live(t) BY <1>1 DEF Live
<1>3. \A m \in Live(t) : m \in Node BY DEF Live
<1>. QED BY <1>1, <1>2, <1>3 DEF u

(* To write to a file at a given place keeps to the places.                *)
LEMMA SpreadHolding ==
    ASSUME NEW b, NEW t, NEW W, NEW T, Tree(b), Spread(b, t, W, T),
           NEW n \in Live(t), PathOf(t, n) \in W, NEW x \in Contents
    PROVE  Spread(b, Holding(t, n, x), W, T)
<1>. DEFINE u == Holding(t, n, x)
<1>0. Tree(t) /\ Structured(b) /\ Grows(b, t) /\ Live(b) \subseteq Live(t)
  BY GrowsLive DEF Spread, Tree
<1>1. Tree(u) /\ Grows(t, u) BY <1>0, DataTree
<1>2. /\ Live(u) = Live(t)
      /\ \A m \in Live(t) :
            /\ u[m].kind = t[m].kind /\ u[m].target = t[m].target
            /\ m # n => u[m] = t[m]
  BY <1>0, HoldingNode
<1>. HIDE DEF u
<1>3. Grows(b, u) BY <1>0, <1>1, GrowsThrough
<1>4. ASSUME NEW m \in Live(b) PROVE u[m].data = b[m].data \/ PathOf(b, m) \in W
  <2>1. CASE m = n
    <3>1. PathOf(b, m) = PathOf(t, m) BY <1>0, PathGrows
    <3>. QED BY <2>1, <3>1
  <2>2. CASE m # n BY <1>0, <1>2, <2>2 DEF Spread
  <2>. QED BY <2>1, <2>2
<1>5. ASSUME NEW m \in Live(u) \ Live(b)
      PROVE  /\ u[m].kind # "link" /\ u[m].target = <<>>
             /\ PathOf(u, m) \in W \/ Parent(u, m, T)
  <2>1. m \in Live(t) \ Live(b) /\ PathOf(u, m) = PathOf(t, m)
    BY <1>0, <1>1, <1>2, PathGrows
  <2>2. u[m].kind # "link" /\ u[m].target = <<>>
    BY <1>2, <2>1 DEF Spread
  <2>3. CASE m = n BY <2>1, <2>2, <2>3
  <2>4. CASE m # n BY <1>2, <2>1, <2>2, <2>4 DEF Spread, Parent
  <2>. QED BY <2>3, <2>4
<1>6. Spread(b, u, W, T) BY <1>1, <1>3, <1>4, <1>5 DEF Spread
<1>. QED BY <1>6 DEF u

Shape(t, n) == Seen(t[n])

(* What is in a view: every node, at its path.                             *)
LEMMA ViewDef ==
    ASSUME NEW t, Tree(t)
    PROVE  /\ \A x \in DOMAIN View(t) : \E n \in Live(t) : x = PathOf(t, n)
           /\ \A n \in Live(t) :
                PathOf(t, n) \in DOMAIN View(t) /\ View(t)[PathOf(t, n)] = Shape(t, n)
<1>1. DOMAIN View(t) = {PathOf(t, n) : n \in Live(t)} BY DEF View
<1>2. ASSUME NEW n \in Live(t) PROVE View(t)[PathOf(t, n)] = Shape(t, n)
  <2>. DEFINE p == PathOf(t, n)
  <2>1. Lstat(t, p) = n /\ p \in {PathOf(t, m) : m \in Live(t)}
    BY NodeFound
  <2>2. View(t)[p] = Shape(t, Lstat(t, p)) BY <2>1 DEF View, Shape
  <2>. QED BY <2>1, <2>2
<1>3. \A n \in Live(t) : PathOf(t, n) \in DOMAIN View(t) BY <1>1
<1>4. \A x \in DOMAIN View(t) : \E n \in Live(t) : x = PathOf(t, n)
  BY <1>1
<1>. QED BY <1>2, <1>3, <1>4

(* How the views differ: at the places and on the way to them only.        *)
LEMMA SpreadView ==
    ASSUME NEW b, NEW t, NEW W, NEW T, Tree(b), Spread(b, t, W, T),
           NEW x \in DOMAIN View(b) \union DOMAIN View(t)
    PROVE  \/ x \in DOMAIN View(b) \intersect DOMAIN View(t) /\ View(b)[x] = View(t)[x]
           \/ x \in W
           \/ /\ x \notin DOMAIN View(b) /\ View(t)[x] = Directory
              /\ \E q \in T : IsStrictPrefix(x, q)
<1>0. Tree(t) /\ Grows(b, t) BY DEF Spread
<1>1. CASE x \in DOMAIN View(b)
  <2>1. PICK n \in Live(b) : x = PathOf(b, n) BY <1>1, ViewDef
  <2>2. n \in Live(t) /\ x = PathOf(t, n) BY <1>0, <2>1, PathGrows
  <2>3. x \in DOMAIN View(t) /\ View(t)[x] = Shape(t, n) /\ View(b)[x] = Shape(b, n)
    BY <1>0, <2>1, <2>2, ViewDef
  <2>4. t[n].kind = b[n].kind /\ t[n].target = b[n].target
    BY <1>0 DEF Grows
  <2>5. CASE t[n].data = b[n].data
    BY <1>1, <2>3, <2>4, <2>5 DEF Shape, Seen
  <2>6. CASE PathOf(b, n) \in W BY <2>1, <2>6
  <2>. QED BY <2>5, <2>6 DEF Spread
<1>2. CASE x \notin DOMAIN View(b)
  <2>1. PICK n \in Live(t) : x = PathOf(t, n) BY <1>0, <1>2, ViewDef
  <2>2. n \notin Live(b)
    <3>1. n \in Live(b) => PathOf(b, n) = x /\ PathOf(b, n) \in DOMAIN View(b)
      BY <1>0, <2>1, PathGrows, ViewDef
    <3>. QED BY <1>2, <3>1
  <2>3. CASE x \in W BY <2>3
  <2>4. CASE Parent(t, n, T)
    <3>1. View(t)[x] = Shape(t, n) BY <1>0, <2>1, ViewDef
    <3>2. t[n].kind = "dir" /\ t[n].data = Nil /\ t[n].target = <<>>
      BY <2>2, <2>4 DEF Parent, Spread
    <3>3. View(t)[x] = Directory
      BY <3>1, <3>2 DEF Shape, Seen, Directory
    <3>. QED BY <1>2, <2>1, <2>4, <3>3 DEF Parent
  <2>. QED BY <2>1, <2>2, <2>3, <2>4 DEF Spread
<1>. QED BY <1>1, <1>2

(* A tree of which only what is at or below a place is gone.               *)
Shrunk(b, t, from) ==
    /\ Tree(t) /\ Live(t) \subseteq Live(b)
    /\ \A n \in Live(t) : t[n] = b[n]
    /\ \A n \in Live(b) \ Live(t) : IsPrefix(from, PathOf(b, n))

(* To begin with nothing has been taken away.                              *)
LEMMA ShrunkStart ==
    ASSUME NEW b, Tree(b), NEW from
    PROVE  Shrunk(b, b, from)
BY DEF Shrunk

(* What is left is where it was.                                           *)
LEMMA ShrunkPath ==
    ASSUME NEW b, NEW t, NEW from, Tree(b), Shrunk(b, t, from), NEW n \in Live(t)
    PROVE  n \in Live(b) /\ PathOf(b, n) = PathOf(t, n)
<1>1. Tree(t) /\ Grows(t, b) BY DEF Shrunk, Grows
<1>. QED BY <1>1, PathGrows

(* To remove one more node below the place keeps to it.                    *)
LEMMA ShrunkUnlink ==
    ASSUME NEW b, NEW t, NEW from, Tree(b), Shrunk(b, t, from),
           NEW n \in Live(t) \ {Top}, Entries(t, n) = {}, IsPrefix(from, PathOf(t, n))
    PROVE  Shrunk(b, Unlink(t, n), from)
<1>. DEFINE u == Unlink(t, n)
<1>0. Tree(t) /\ t \in [Node -> Nodes] /\ n \in Node
  BY DEF Shrunk, Tree, Structured, Live
<1>1. Tree(u) BY <1>0, UnlinkTree
<1>2. u[n] = [t[n] EXCEPT !.in = Nil] /\ \A m \in Node \ {n} : u[m] = t[m]
  BY <1>0 DEF Unlink
<1>3. u[n].in = Nil
  <2>1. t[n] \in Nodes BY <1>0
  <2>. QED BY <1>2, <2>1 DEF Nodes
<1>. HIDE DEF u
<1>4. Live(u) = Live(t) \ {n} BY <1>2, <1>3 DEF Live
<1>5. \A m \in Live(u) : u[m] = t[m] BY <1>2, <1>4 DEF Live
<1>6. \A m \in Live(u) : u[m] = b[m] BY <1>4, <1>5 DEF Shrunk
<1>7. IsPrefix(from, PathOf(b, n)) BY ShrunkPath
<1>8. Shrunk(b, u, from) BY <1>1, <1>4, <1>6, <1>7 DEF Shrunk
<1>. QED BY <1>8 DEF u

(* How the views differ: below the place only, where things are gone.      *)
LEMMA ShrunkView ==
    ASSUME NEW b, NEW t, NEW from, Tree(b), Shrunk(b, t, from),
           NEW x \in DOMAIN View(b) \union DOMAIN View(t)
    PROVE  \/ x \in DOMAIN View(b) \intersect DOMAIN View(t) /\ View(b)[x] = View(t)[x]
           \/ IsPrefix(from, x) /\ x \notin DOMAIN View(t)
<1>0. Tree(t) BY DEF Shrunk
<1>1. CASE x \in DOMAIN View(t)
  <2>1. PICK n \in Live(t) : x = PathOf(t, n) BY <1>0, <1>1, ViewDef
  <2>2. n \in Live(b) /\ x = PathOf(b, n) BY <2>1, ShrunkPath
  <2>3. x \in DOMAIN View(b) /\ View(t)[x] = Shape(t, n) /\ View(b)[x] = Shape(b, n)
    BY <1>0, <2>1, <2>2, ViewDef
  <2>4. t[n] = b[n] BY DEF Shrunk
  <2>. QED BY <1>1, <2>3, <2>4 DEF Shape
<1>2. CASE x \notin DOMAIN View(t)
  <2>1. PICK n \in Live(b) : x = PathOf(b, n) BY <1>2, ViewDef
  <2>2. n \notin Live(t)
    <3>1. n \in Live(t) => PathOf(t, n) = x /\ PathOf(t, n) \in DOMAIN View(t)
      BY <1>0, <2>1, ShrunkPath, ViewDef
    <3>. QED BY <1>2, <3>1
  <2>3. IsPrefix(from, x) BY <2>1, <2>2 DEF Shrunk
  <2>. QED BY <1>2, <2>3
<1>. QED BY <1>1, <1>2

-----------------------------------------------------------------------------
(* The invariant on failures.                                              *)

(* What a request that has not succeeded has done to the tree it met.      *)
Source(b, ask) == Place(b, ask.path)
Dest(b, ask) == Place(b, ask.other)
SentPaths(ask) == {ask.path \o Filename(ask.files[i]) : i \in DOMAIN ask.files}
Sent(b, ask) == {Place(b, path) : path \in SentPaths(ask)}
Below(p) == {x \in Places : IsPrefix(p, x)}
TasksBelow(p) == {task \in Tasks : IsPrefix(p, task.to)}
LinkFree(b, p) == \A n \in Live(b) : b[n].kind = "link" => ~IsPrefix(p, PathOf(b, n))

(* What a removal still has to do, by the paths of the tree it met.        *)
FramePath(b, frame) == Append(PathOf(b, frame.dir), frame.name)
FramesBelow(b, p) ==
    {frame \in Frames : frame.dir \in Live(b) /\ IsPrefix(p, FramePath(b, frame))}

Deleting(t, b, q) ==
    /\ q.at \in {"resolve", "remove", "open parent"} => t = b
    /\ q.at \in {"remove", "open parent"} => q.from = Source(b, q.ask) /\ Straight(b, q.from)
    /\ q.at = "removing" =>
        /\ Source(b, q.ask) \in Places
        /\ q.todo \in Seq(FramesBelow(b, Source(b, q.ask))) /\ q.todo # <<>>
        /\ FramePath(b, q.todo[1]) = Source(b, q.ask)
    /\ Shrunk(b, t, Source(b, q.ask))

Moving(t, b, q) ==
    /\ q.at \in {"resolve", "resolveOther"} => t = b
    /\ q.at \in {"parents", "rename"} => q.to = Dest(b, q.ask) /\ Straight(t, q.to)
    /\ Spread(b, t, {}, {Dest(b, q.ask)})

Copying(t, b, q) ==
    /\ q.at \in {"resolve", "resolveOther", "stat"} => t = b
    /\ q.at = "stat" => q.to = Dest(b, q.ask)
    /\ q.at \in {"stat", "copy", "read directory", "open destination", "copy data"} =>
        Dest(b, q.ask) \in Places /\ Straight(b, Dest(b, q.ask))
    /\ q.at \in {"copy", "read directory", "open destination", "copy data"} =>
        q.todo \in Seq(TasksBelow(Dest(b, q.ask)))
    /\ q.at = "copy data" => q.out \in Live(t) /\ PathOf(t, q.out) \in Below(Dest(b, q.ask))
    /\ Spread(b, t, Below(Dest(b, q.ask)), {Dest(b, q.ask)})

Uploading(t, b, q) ==
    /\ q.at # "done" => q.todo \in Seq(SentPaths(q.ask))
    /\ q.at = "resolve" => t = b \/ \E i : Splits(b, q.ask.path, i)
    /\ q.at \in {"parents", "create file", "write"} => \E i : Splits(b, q.ask.path, i)
    /\ q.at \in {"parents", "create file"} =>
        Straight(t, q.from) /\ (q.from \in Sent(b, q.ask) \/ IsDir(t, q.from))
    /\ q.at = "write" => q.out \in Live(t) /\ PathOf(t, q.out) \in Sent(b, q.ask)
    /\ Spread(b, t, Sent(b, q.ask), Sent(b, q.ask))

Confines(t, b, q) ==
    q.at # "idle" /\ b # Nil /\ ~q.ok =>
        /\ q.ask.op \in {"mkdir", "create", "rename", "open"} => t = b
        /\ q.ask.op = "delete" => Deleting(t, b, q)
        /\ q.ask.op = "move" => Moving(t, b, q)
        /\ q.ask.op = "copy" /\ LinkFree(b, Dest(b, q.ask)) => Copying(t, b, q)
        /\ q.ask.op = "upload" => Uploading(t, b, q)

Confined == \A r \in Requests : Confines(tree, before[r], req[r])

(* It is what FailuresStayLocal asks for in the end.                       *)
LEMMA ConfinedLocal ==
    ASSUME Typed, Confined
    PROVE  FailuresStayLocal
<1>1. SUFFICES ASSUME NEW r \in Requests, Undisturbed(r), ~req[r].ok, Sensible(r),
                      NEW x \in DOMAIN View(before[r]) \union DOMAIN View(tree)
               PROVE  \/ /\ x \in DOMAIN View(before[r]) \intersect DOMAIN View(tree)
                         /\ View(before[r])[x] = View(tree)[x]
                      \/ MayLeave(r, x)
  BY DEF FailuresStayLocal
<1>. DEFINE b == before[r]
            ask == req[r].ask
            Same == /\ x \in DOMAIN View(b) \intersect DOMAIN View(tree)
                    /\ View(b)[x] = View(tree)[x]
            newParent(q) == /\ x \notin DOMAIN View(b) /\ View(tree)[x] = Directory
                            /\ IsStrictPrefix(x, q)
<1>2. req[r].at = "done" /\ b # Nil /\ Tree(b) /\ Tree(tree) /\ ask \in Inputs
  BY <1>1, Current DEF Undisturbed, Typed
<1>3. Confines(tree, b, req[r]) /\ req[r].at # "idle" /\ Op(r) = ask.op
  BY <1>2 DEF Confined, Op
<1>4. CASE Op(r) \in {"mkdir", "create", "rename", "open"}
  <2>1. tree = b BY <1>1, <1>2, <1>3, <1>4 DEF Confines
  <2>. QED BY <2>1
<1>5. CASE Op(r) = "delete"
  <2>1. Shrunk(b, tree, From(r))
    BY <1>1, <1>2, <1>3, <1>5 DEF Confines, Deleting, Source, From
  <2>2. Same \/ (IsPrefix(From(r), x) /\ x \notin DOMAIN View(tree))
    BY <1>2, <2>1, ShrunkView
  <2>3. IsPrefix(From(r), x) /\ x \notin DOMAIN View(tree) => MayLeave(r, x)
    BY <1>5 DEF MayLeave
  <2>. QED BY <2>2, <2>3
<1>6. CASE Op(r) = "move"
  <2>1. Dest(b, ask) = To(r) BY <1>6 DEF Dest, To
  <2>2. Spread(b, tree, {}, {To(r)})
    BY <1>1, <1>2, <1>3, <1>6, <2>1 DEF Confines, Moving
  <2>3. Same \/ newParent(To(r)) BY <1>2, <2>2, SpreadView
  <2>4. newParent(To(r)) => MayLeave(r, x) BY <1>6 DEF MayLeave
  <2>. QED BY <2>3, <2>4
<1>7. CASE Op(r) = "copy"
  <2>1. Dest(b, ask) = To(r) BY <1>7 DEF Dest, To
  <2>2. LinkFree(b, To(r)) BY <1>1, <1>7 DEF Sensible, LinkFree
  <2>3. Spread(b, tree, Below(To(r)), {To(r)})
    BY <1>1, <1>2, <1>3, <1>7, <2>1, <2>2 DEF Confines, Copying
  <2>4. Same \/ x \in Below(To(r)) \/ newParent(To(r))
    BY <1>2, <2>3, SpreadView
  <2>5. IsPrefix(To(r), x) \/ newParent(To(r)) => MayLeave(r, x)
    BY <1>7 DEF MayLeave
  <2>. QED BY <2>4, <2>5 DEF Below
<1>8. CASE Op(r) = "upload"
  <2>. DEFINE place(i) == Place(b, ask.path \o Filename(ask.files[i]))
  <2>1. Spread(b, tree, Sent(b, ask), Sent(b, ask))
    BY <1>1, <1>2, <1>3, <1>8 DEF Confines, Uploading
  <2>2. Same \/ x \in Sent(b, ask) \/ \E q \in Sent(b, ask) : newParent(q)
    BY <1>2, <2>1, SpreadView
  <2>3. \A q \in Sent(b, ask) : \E i \in DOMAIN ask.files : q = place(i)
    BY DEF Sent, SentPaths
  <2>4. \A i \in DOMAIN ask.files : x = place(i) \/ newParent(place(i)) => MayLeave(r, x)
    BY <1>8 DEF MayLeave
  <2>. QED BY <2>2, <2>3, <2>4
<1>9. Op(r) \in {"mkdir", "create", "delete", "rename", "move", "copy", "open", "upload"}
  BY <1>2, <1>3, InputsType
<1>. QED BY <1>4, <1>5, <1>6, <1>7, <1>8, <1>9

(* What a step that leaves the tree alone does,                            *)
LEMMA GoneOn ==
    ASSUME Typed, NEW r \in Requests, NEW new, GoesOn(r, new)
    PROVE  tree' = tree /\ before'[r] = before[r] /\ req'[r] = new
BY DEF GoesOn, Typed

(* what one does that makes something,                                     *)
LEMMA HasMade ==
    ASSUME Typed, NEW r \in Requests, NEW t, NEW new, Makes(r, t, new)
    PROVE  t # Nil /\ tree' = t /\ before'[r] = before[r] /\ req'[r] = new
BY DEF Makes, Typed

(* and what either leaves as it was.                                       *)
LEMMA Advanced ==
    ASSUME Typed, NEW r \in Requests, Advances(r)
    PROVE  /\ before'[r] = before[r] /\ req'[r].ask = req[r].ask /\ req'[r].at # "idle"
           /\ req'[r] \in Request /\ Holds(req'[r])
           /\ req[r] \in Request /\ Holds(req[r])
           /\ req[r].at \notin {"idle", "done"} /\ ~req[r].ok /\ req[r].ask \in Inputs
           /\ Tree(tree) /\ (before[r] # Nil => Tree(before[r]))
           /\ \A q \in Requests \ {r} :
                req'[q] = req[q] /\ ((tree' = tree /\ before'[q] = before[q]) \/ before'[q] = Nil)
<1>1. PICK new : Steps(r, new) BY DEF Advances
<1>2. req'[r] = new /\ \A q \in Requests \ {r} : req'[q] = req[q]
  BY <1>1 DEF Steps, Typed
<1>3. before'[r] = before[r]
      /\ \A q \in Requests \ {r} : (tree' = tree /\ before'[q] = before[q]) \/ before'[q] = Nil
  BY <1>1 DEF Steps, Stays, Changes
<1>4. /\ new \in Request /\ Holds(new) /\ new.at # "idle" /\ new.ask = req[r].ask
      /\ req[r].at \notin {"idle", "done"}
  BY <1>1 DEF Steps, Able
<1>5. ~req[r].ok BY <1>4, Current DEF Holds
<1>. QED BY <1>2, <1>3, <1>4, <1>5, Current DEF Typed

(* A request that is done without an error is ok.                          *)
LEMMA DoneOk ==
    ASSUME Typed, NEW r \in Requests
    PROVE  Done(r).ok = TRUE /\ Done(r).ask = req[r].ask
BY Current DEF Done, Request

(* What is missing of a path may be made.                                  *)
Allowed(t, path, W, T) ==
    \A q \in Places :
        IsPrefix(q, path) /\ Lstat(t, q) = Nil => q \in W \/ \E s \in T : IsStrictPrefix(q, s)

(* os.MkdirAll makes directories where the path says, and where it may.    *)
LEMMA MkdirAllSpreads ==
    ASSUME Typed, NEW r \in Requests, NEW path \in Places, NEW step, MkdirAll(r, path, step),
           Straight(tree, path), NEW b, Tree(b), NEW W, NEW T, Spread(b, tree, W, T),
           Allowed(tree, path, W, T)
    PROVE  /\ Spread(b, tree', W, T) /\ GrowsPlainly(tree, tree') /\ Tree(tree')
           /\ req'[r] \in {req[r], [req[r] EXCEPT !.at = step]}
           /\ \A n \in Live(tree) : tree'[n] = tree[n]
<1>. DEFINE missing == {i \in 1 .. Len(path) : Lstat(tree, SubSeq(path, 1, i)) = Nil}
            p == SubSeq(path, 1, Min(missing))
            new == [req[r] EXCEPT !.at = step]
<1>0. Tree(tree) /\ GrowsPlainly(tree, tree)
  BY Current DEF GrowsPlainly, Grows
<1>1. CASE GoesOn(r, new)
  <2>. HIDE DEF new
  <2>1. tree' = tree /\ req'[r] = new BY <1>1, GoneOn
  <2>. QED BY <1>0, <2>1 DEF new
<1>2. CASE missing # {} /\ Makes(r, Mkdir(tree, p), req[r])
  <2>1. p \in Places /\ IsPrefix(p, path) /\ Lstat(tree, p) = Nil
    <3>1. Len(path) \in Nat BY LenProperties DEF Places
    <3>2. missing \subseteq Nat OBVIOUS
    <3>3. Min(missing) \in missing
      <4>. HIDE DEF missing
      <4>. QED BY <1>2, <3>2, MinType
    <3>4. Min(missing) \in 0 .. Len(path) /\ Lstat(tree, p) = Nil
      BY <3>1, <3>3
    <3>. HIDE DEF missing
    <3>. QED BY <3>1, <3>4, PartPrefix DEF Part
  <2>. DEFINE t == Mkdir(tree, p)
  <2>. HIDE DEF p
  <2>2. t # Nil /\ tree' = t /\ req'[r] = req[r]
    <3>. HIDE DEF t
    <3>. QED BY <1>2, HasMade DEF t
  <2>3. Straight(tree, p) BY <2>1, StraightPrefix
  <2>4. PICK k : Gains(tree, t, k, "dir", Nil, p)
    BY <1>0, <2>1, <2>2, <2>3, MkdirGains
  <2>. HIDE DEF t
  <2>5. p \in W \/ \E s \in T : IsStrictPrefix(p, s)
    BY <2>1 DEF Allowed
  <2>6. Spread(b, t, W, T) BY <2>4, <2>5, SpreadGains
  <2>7. GrowsPlainly(tree, t) /\ Tree(t)
    BY <2>4 DEF Gains, GrowsPlainly
  <2>8. \A n \in Live(tree) : tree'[n] = tree[n]
    BY <2>2, <2>4 DEF Gains
  <2>. QED BY <2>1, <2>2, <2>6, <2>7, <2>8
<1>. QED BY <1>1, <1>2 DEF MkdirAll

(* One that fails is over, and has changed nothing by failing.             *)
LEMMA FailsEnds ==
    ASSUME Typed, NEW r \in Requests, Fails(r)
    PROVE  tree' = tree /\ req'[r].at = "done"
<1>1. GoesOn(r, [req[r] EXCEPT !.at = "done"]) BY DEF Fails
<1>2. tree' = tree /\ req'[r] = [req[r] EXCEPT !.at = "done"]
  BY <1>1, GoneOn
<1>. QED BY <1>2, Current DEF Request

(* What a resolved path is.                                                *)
LEMMA Resolved ==
    ASSUME NEW t, Tree(t), NEW path \in Places, Resolve(t, path) # Nil
    PROVE  /\ Resolve(t, path) = Place(t, path) /\ Resolve(t, path) \in Places
           /\ Straight(t, Resolve(t, path))
BY ResolveStraight, PlaceIsResolve

-----------------------------------------------------------------------------
(* That every step keeps to it, one lemma for each operation.              *)

(* Failing changes nothing.                                                *)
LEMMA FailsConfined ==
    ASSUME Typed, NEW r \in Requests, Fails(r), Confines(tree, before[r], req[r])
    PROVE  Confines(tree', before[r], req'[r])
<1>1. tree' = tree /\ req'[r].at = "done" BY FailsEnds
<1>2. req'[r].ask = req[r].ask /\ ~req[r].ok /\ req[r].at # "idle"
  BY FailsAdvances, Advanced
<1>. DEFINE b == before[r]
            q == req[r]
            new == req'[r]
<1>3. Deleting(tree, b, q) => Deleting(tree, b, new)
  BY <1>1, <1>2 DEF Deleting
<1>4. Moving(tree, b, q) => Moving(tree, b, new)
  BY <1>1, <1>2 DEF Moving
<1>5. Copying(tree, b, q) => Copying(tree, b, new)
  BY <1>1, <1>2 DEF Copying
<1>6. Uploading(tree, b, q) => Uploading(tree, b, new)
  BY <1>1, <1>2 DEF Uploading
<1>. HIDE DEF b, q, new
<1>7. Confines(tree, b, q) /\ new.at = "done" /\ new.ask = q.ask /\ ~q.ok /\ q.at # "idle"
  BY <1>1, <1>2 DEF b, q, new
<1>8. Confines(tree, b, new)
  BY <1>3, <1>4, <1>5, <1>6, <1>7 DEF Confines
<1>. QED BY <1>1, <1>8 DEF b, new

(* A directory is strictly before what is in it.                           *)
LEMMA FrontBefore ==
    ASSUME NEW p \in Places, NEW x, x \in STRING, NEW q \in Places, IsPrefix(q, p)
    PROVE  IsStrictPrefix(q, Append(p, x))
<1>1. IsPrefix(q, Append(p, x)) /\ ~IsPrefix(Append(p, x), p)
  BY PrefixOrder
<1>. QED BY <1>1 DEF IsStrictPrefix

(* An operation of one call has done it all or nothing.                    *)
LEMMA PlainConfined ==
    ASSUME Typed, NEW r \in Requests,
           \/ ResolvePath(r) \/ ResolveWithin(r) \/ Open(r)
           \/ MakeDirectory(r) \/ CreateFile(r) \/ Rename(r)
    PROVE  req'[r].ok \/ tree' = tree
<1>1. CASE ResolvePath(r) \/ ResolveWithin(r) \/ Open(r)
  BY <1>1 DEF ResolvePath, ResolveWithin, Open, GoesOn
<1>2. CASE MakeDirectory(r) \/ CreateFile(r) \/ Rename(r)
  <2>1. \E t : Makes(r, t, Done(r))
    BY <1>2 DEF MakeDirectory, CreateFile, Rename
  <2>. QED BY <2>1, HasMade, DoneOk
<1>. QED BY <1>1, <1>2

(* What is entered there is what was there when the removal began.         *)
LEMMA EnteredBelow ==
    ASSUME Typed, NEW r \in Requests, before[r] # Nil, req[r].at = "removing",
           Deleting(tree, before[r], req[r]), Entered(r) # Nil
    PROVE  LET b == before[r]
               n == Entered(r)
               source == Source(b, req[r].ask)
           IN  /\ n \in Live(tree) \ {Top} /\ n \in Live(b)
               /\ PathOf(tree, n) = PathOf(b, n) /\ PathOf(b, n) \in Places
               /\ PathOf(b, n) = FramePath(b, Last(req[r].todo))
               /\ IsPrefix(source, PathOf(b, n))
<1>. DEFINE b == before[r]
            n == Entered(r)
            source == Source(b, req[r].ask)
            todo == req[r].todo
            frame == Last(todo)
<1>1. Tree(b) /\ Tree(tree) /\ Shrunk(b, tree, source)
  BY Current DEF Typed, Deleting
<1>2. /\ n \in Live(tree) \ {Top} /\ n \in Entries(tree, frame.dir)
      /\ tree[n].name = frame.name
  BY RemovingHolds
<1>3. frame \in FramesBelow(b, source)
  <2>1. todo \in Seq(FramesBelow(b, source)) /\ todo # <<>>
    BY DEF Deleting
  <2>. HIDE DEF todo, b, source
  <2>. QED BY <2>1, Popped
<1>. HIDE DEF b, n, source, frame
<1>4. n \in Live(b) /\ PathOf(tree, n) = PathOf(b, n) /\ b[n] = tree[n]
  BY <1>1, <1>2, ShrunkPath DEF Shrunk
<1>5. b[n].in = frame.dir /\ b[n].name = frame.name
  BY <1>2, <1>4 DEF Entries
<1>6. PathOf(b, n) = FramePath(b, frame) /\ PathOf(b, n) \in Places
  BY <1>1, <1>2, <1>4, <1>5, PathDef DEF Tree, FramePath
<1>. QED BY <1>2, <1>3, <1>4, <1>6 DEF FramesBelow, b, n, source, frame, todo

(* What is left to remove is still below the place.                        *)
LEMMA RestDeletes ==
    ASSUME Typed, NEW r \in Requests, req[r].at = "removing", NEW b,
           Deleting(tree, b, req[r]), NEW t, Shrunk(b, t, Source(b, req[r].ask))
    PROVE  RemoveRest(r).ok \/ Deleting(t, b, RemoveRest(r))
<1>. DEFINE source == Source(b, req[r].ask)
            todo == req[r].todo
            rest == Front(todo)
            next == [req[r] EXCEPT !.todo = rest]
<1>1. CASE rest = <<>> BY <1>1, DoneOk DEF RemoveRest
<1>2. CASE rest # <<>>
  <2>1. /\ source \in Places /\ todo \in Seq(FramesBelow(b, source)) /\ todo # <<>>
        /\ FramePath(b, todo[1]) = source
    BY DEF Deleting
  <2>2. next.at = "removing" /\ next.todo = rest /\ next.ask = req[r].ask
    BY Current DEF Request
  <2>. HIDE DEF todo, next, source
  <2>3. rest \in Seq(FramesBelow(b, source)) /\ FramePath(b, rest[1]) = source
    BY <1>2, <2>1, Popped
  <2>4. Deleting(t, b, next)
    BY <1>2, <2>1, <2>2, <2>3 DEF Deleting, source
  <2>5. RemoveRest(r) = next BY <1>2 DEF RemoveRest, next, todo
  <2>. QED BY <2>4, <2>5
<1>. QED BY <1>1, <1>2

(* The name tried first, and the directory opened then, are those of the   *)
(* place.                                                                  *)
LEMMA RemoveOneConfined ==
    ASSUME Typed, NEW r \in Requests, before[r] # Nil,
           Deleting(tree, before[r], req[r]), RemoveOne(r) \/ RemoveOpensParent(r)
    PROVE  req'[r].ok \/ Deleting(tree', before[r], req'[r])
<1>. DEFINE b == before[r]
            ask == req[r].ask
            source == Source(b, ask)
            from == req[r].from
            new == req'[r]
<1>0. /\ Tree(b) /\ req[r] \in Request /\ Holds(req[r]) /\ Shrunk(b, tree, source)
      /\ req[r].at \in {"remove", "open parent"} /\ ask.op = "delete"
  BY Current DEF Typed, RemoveOne, RemoveOpensParent, Deleting, Holds, Within
<1>1. tree = b /\ from = source /\ Straight(b, from) /\ from \in Places /\ from # <<>>
  BY <1>0 DEF Deleting, Holds
<1>2. CASE GoesOn(r, Done(r)) \/ \E t : Makes(r, t, Done(r))
  <2>1. new = Done(r) BY <1>2, GoneOn, HasMade
  <2>. QED BY <2>1, DoneOk
<1>3. CASE GoesOn(r, [req[r] EXCEPT !.at = "open parent"])
  <2>1. tree' = tree /\ new = [req[r] EXCEPT !.at = "open parent"]
    BY <1>3, GoneOn
  <2>2. new.at = "open parent" /\ new.from = from /\ new.ask = ask
    BY <1>0, <2>1 DEF Request
  <2>. QED BY <1>0, <1>1, <2>1, <2>2 DEF Deleting
<1>4. CASE RemoveOpensParent(r) /\ ~GoesOn(r, Done(r))
  <2>. DEFINE dir == Stat(tree, Front(from))
              frame == Doomed(dir, Last(from))
              next == [req[r] EXCEPT !.at = "removing", !.todo = <<frame>>]
  <2>1. IsDir(tree, Front(from)) /\ GoesOn(r, next)
    BY <1>4 DEF RemoveOpensParent
  <2>. HIDE DEF b, source, from
  <2>2. /\ Front(from) \in Places /\ Last(from) \in STRING /\ from = Append(Front(from), Last(from))
        /\ Straight(b, Front(from))
    BY <1>1, FrontStraight
  <2>3. dir \in Live(b) /\ PathOf(b, dir) = Front(from)
    BY <1>0, <1>1, <2>1, <2>2, StraightDef DEF IsDir
  <2>4. frame.dir = dir /\ frame.name = Last(from) /\ frame \in Frames
    BY <2>2, <2>3 DEF Doomed, Frames, Live
  <2>5. FramePath(b, frame) = source
    BY <1>1, <2>2, <2>3, <2>4 DEF FramePath
  <2>6. frame \in FramesBelow(b, source)
    BY <1>1, <2>3, <2>4, <2>5, PrefixOrder DEF FramesBelow
  <2>7. tree' = tree /\ new = next BY <2>1, GoneOn
  <2>8. next.at = "removing" /\ next.todo = <<frame>> /\ next.ask = ask
    BY <1>0 DEF Request
  <2>. HIDE DEF frame, next
  <2>9. <<frame>> \in Seq(FramesBelow(b, source)) /\ <<frame>> # <<>> /\ <<frame>>[1] = frame
    BY <2>6, Singleton
  <2>10. Deleting(tree, b, next)
    BY <1>0, <1>1, <2>5, <2>8, <2>9 DEF Deleting, source
  <2>. QED BY <2>7, <2>10 DEF b
<1>. QED BY <1>2, <1>3, <1>4 DEF RemoveOne

(* The entries of what is below the place are below it.                    *)
LEMMA RemoveReadsDirConfined ==
    ASSUME Typed, NEW r \in Requests, before[r] # Nil,
           Deleting(tree, before[r], req[r]), RemoveReadsDir(r)
    PROVE  Deleting(tree', before[r], req'[r])
<1>. DEFINE b == before[r]
            ask == req[r].ask
            source == Source(b, ask)
            n == Entered(r)
            todo == req[r].todo
            last == Last(todo)
            frame == [last EXCEPT !.read = TRUE]
            S == FramesBelow(b, source)
<1>1. req[r].at = "removing" /\ n # Nil BY DEF RemoveReadsDir
<1>2. PICK entries \in SetToSeqs({Doomed(n, tree[m].name) : m \in Entries(tree, n)}) :
            GoesOn(r, [req[r] EXCEPT !.todo = Append(Front(todo), frame) \o entries])
  BY DEF RemoveReadsDir
<1>. DEFINE stack == Append(Front(todo), frame) \o entries
            next == [req[r] EXCEPT !.todo = stack]
<1>3. /\ Tree(tree) /\ Shrunk(b, tree, source) /\ source \in Places
      /\ todo \in Seq(S) /\ todo # <<>> /\ FramePath(b, todo[1]) = source
  BY <1>1, Current DEF Deleting
<1>4. n \in Live(b) /\ PathOf(b, n) \in Places /\ IsPrefix(source, PathOf(b, n))
  BY <1>1, EnteredBelow
<1>5. tree' = tree /\ req'[r] = next BY <1>2, GoneOn
<1>6. next.at = "removing" /\ next.todo = stack /\ next.ask = ask
  BY <1>1, Current DEF Request
<1>. HIDE DEF b, source, n, todo, next
<1>7. last \in S /\ (Front(todo) = <<>> => last = todo[1])
  <2>. HIDE DEF S
  <2>. QED BY <1>3, Popped
<1>8. frame \in S /\ FramePath(b, frame) = FramePath(b, last)
  <2>. HIDE DEF last
  <2>1. frame \in Frames /\ frame.dir = last.dir /\ frame.name = last.name
    BY <1>7 DEF FramesBelow, Frames
  <2>2. FramePath(b, frame) = FramePath(b, last) BY <2>1 DEF FramePath
  <2>. HIDE DEF frame
  <2>. QED BY <1>7, <2>1, <2>2 DEF FramesBelow
<1>9. ASSUME NEW m \in Entries(tree, n) PROVE Doomed(n, tree[m].name) \in S
  <2>. DEFINE name == tree[m].name
              d == Doomed(n, name)
  <2>1. m \in Live(tree) \ {Top}
    BY <1>4, FileSystemAssumption DEF Entries, Live
  <2>2. name \in STRING BY <1>3, <2>1 DEF Tree, Structured
  <2>. HIDE DEF name
  <2>3. d \in Frames /\ d.dir = n /\ d.name = name
    BY <1>4, <2>2 DEF Doomed, Frames, Live
  <2>4. IsPrefix(source, Append(PathOf(b, n), name))
    BY <1>3, <1>4, <2>2, PrefixOrder
  <2>. QED BY <1>4, <2>3, <2>4 DEF FramesBelow, FramePath, name
<1>10. entries \in Seq(S) BY <1>9, EntriesDoomed
<1>. HIDE DEF frame, last
<1>11. /\ stack \in Seq(S) /\ stack # <<>>
       /\ stack[1] = IF Front(todo) = <<>> THEN frame ELSE todo[1]
  <2>. HIDE DEF S
  <2>. QED BY <1>3, <1>8, <1>10, Stacked
<1>. HIDE DEF stack
<1>12. FramePath(b, stack[1]) = source BY <1>3, <1>7, <1>8, <1>11
<1>13. Deleting(tree, b, next)
  BY <1>3, <1>6, <1>11, <1>12 DEF Deleting, source, S
<1>. QED BY <1>5, <1>13 DEF b

(* So os.RemoveAll takes away only what is below the place, one node at a time. *)
LEMMA DeleteConfined ==
    ASSUME Typed, NEW r \in Requests, Op(r) = "delete", before[r] # Nil,
           Deleting(tree, before[r], req[r]),
           ResolvePath(r) \/ RemoveOne(r) \/ RemoveOpensParent(r) \/ RemoveReadsDir(r)
           \/ RemoveNext(r)
    PROVE  req'[r].ok \/ Deleting(tree', before[r], req'[r])
<1>. DEFINE b == before[r]
            ask == req[r].ask
            source == Source(b, ask)
            new == req'[r]
<1>0. /\ Tree(b) /\ Tree(tree) /\ req[r] \in Request
      /\ Shrunk(b, tree, source)
  BY Current DEF Typed, Deleting
<1>1. CASE ResolvePath(r)
  <2>. DEFINE from == Resolve(tree, ask.path)
  <2>1. /\ req[r].at = "resolve" /\ from # Nil
        /\ GoesOn(r, [req[r] EXCEPT !.at = "remove", !.from = from])
    BY <1>1 DEF ResolvePath, FirstStep
  <2>2. tree = b /\ ask.path \in Places
    BY <2>1, Current, InputsType DEF Deleting
  <2>3. from = source /\ Straight(b, from)
    BY <1>0, <2>1, <2>2, Resolved DEF Source
  <2>. HIDE DEF from
  <2>4. tree' = tree /\ new = [req[r] EXCEPT !.at = "remove", !.from = from]
    BY <2>1, GoneOn
  <2>5. new.at = "remove" /\ new.from = from /\ new.ask = ask
    BY <1>0, <2>4 DEF Request
  <2>. QED BY <1>0, <2>2, <2>3, <2>4, <2>5 DEF Deleting
<1>2. CASE RemoveNext(r)
  <2>. DEFINE n == Entered(r)
  <2>1. /\ req[r].at = "removing"
        /\ \/ GoesOn(r, RemoveRest(r))
           \/ n # Nil /\ Entries(tree, n) = {} /\ Makes(r, Unlink(tree, n), RemoveRest(r))
    BY <1>2 DEF RemoveNext
  <2>2. CASE GoesOn(r, RemoveRest(r))
    <3>1. tree' = tree /\ new = RemoveRest(r) BY <2>2, GoneOn
    <3>2. RemoveRest(r).ok \/ Deleting(tree, b, RemoveRest(r))
      BY <1>0, <2>1, RestDeletes
    <3>. QED BY <3>1, <3>2
  <2>3. CASE n # Nil /\ Entries(tree, n) = {} /\ Makes(r, Unlink(tree, n), RemoveRest(r))
    <3>1. n \in Live(tree) \ {Top} /\ IsPrefix(source, PathOf(tree, n))
      BY <2>1, <2>3, EnteredBelow
    <3>2. tree' = Unlink(tree, n) /\ new = RemoveRest(r)
      BY <2>3, HasMade
    <3>. HIDE DEF n, source
    <3>3. Shrunk(b, Unlink(tree, n), source)
      BY <1>0, <2>3, <3>1, ShrunkUnlink
    <3>4. RemoveRest(r).ok \/ Deleting(Unlink(tree, n), b, RemoveRest(r))
      BY <2>1, <3>3, RestDeletes DEF source
    <3>. QED BY <3>2, <3>4
  <2>. QED BY <2>1, <2>2, <2>3
<1>. QED BY <1>1, <1>2, RemoveOneConfined, RemoveReadsDirConfined

(* A move makes parents of its destination, and renames.                   *)
LEMMA MoveConfined ==
    ASSUME Typed, NEW r \in Requests, Op(r) = "move", before[r] # Nil,
           Moving(tree, before[r], req[r]),
           ResolvePath(r) \/ ResolveDest(r) \/ MoveMakesParents(r) \/ Move(r)
    PROVE  req'[r].ok \/ Moving(tree', before[r], req'[r])
<1>. DEFINE b == before[r]
            ask == req[r].ask
            dest == Dest(b, ask)
            new == req'[r]
<1>0. /\ Tree(b) /\ Tree(tree) /\ ask.other \in Places /\ req[r] \in Request /\ Holds(req[r])
      /\ Spread(b, tree, {}, {dest})
  BY Current, InputsType DEF Typed, ResolvePath, ResolveDest, MoveMakesParents, Move, Moving
<1>1. CASE ResolvePath(r)
  <2>. DEFINE from == Resolve(tree, ask.path)
  <2>1. /\ req[r].at = "resolve"
        /\ GoesOn(r, [req[r] EXCEPT !.at = "resolveOther", !.from = from])
    BY <1>1 DEF ResolvePath, FirstStep
  <2>. HIDE DEF from
  <2>2. tree' = tree /\ new = [req[r] EXCEPT !.at = "resolveOther", !.from = from]
    BY <2>1, GoneOn
  <2>3. new.at = "resolveOther" /\ new.ask = ask
    BY <1>0, <2>2 DEF Request
  <2>. QED BY <1>0, <2>1, <2>2, <2>3 DEF Moving
<1>2. CASE ResolveDest(r)
  <2>. DEFINE to == Resolve(tree, ask.other)
  <2>1. /\ req[r].at = "resolveOther" /\ to # Nil
        /\ GoesOn(r, [req[r] EXCEPT !.at = "parents", !.to = to])
    BY <1>2 DEF ResolveDest
  <2>2. tree = b BY <2>1 DEF Moving
  <2>3. to = dest /\ Straight(tree, to)
    BY <1>0, <2>1, <2>2, Resolved DEF Dest
  <2>. HIDE DEF to
  <2>4. tree' = tree /\ new = [req[r] EXCEPT !.at = "parents", !.to = to]
    BY <2>1, GoneOn
  <2>5. new.at = "parents" /\ new.to = to /\ new.ask = ask
    BY <1>0, <2>4 DEF Request
  <2>. QED BY <1>0, <2>3, <2>4, <2>5 DEF Moving
<1>3. CASE MoveMakesParents(r)
  <2>. DEFINE to == req[r].to
  <2>1. /\ req[r].at = "parents" /\ to # <<>> /\ MkdirAll(r, Front(to), "rename")
        /\ to = dest /\ Straight(tree, to) /\ to \in Places
    BY <1>0, <1>3 DEF MoveMakesParents, Moving, Holds, Op
  <2>2. /\ Front(to) \in Places /\ Last(to) \in STRING /\ to = Append(Front(to), Last(to))
        /\ Straight(tree, Front(to))
    BY <2>1, FrontStraight
  <2>3. \A q \in Places : IsPrefix(q, Front(to)) => IsStrictPrefix(q, to)
    BY <2>2, FrontBefore
  <2>4. Allowed(tree, Front(to), {}, {dest}) BY <2>1, <2>3 DEF Allowed
  <2>5. /\ Spread(b, tree', {}, {dest}) /\ GrowsPlainly(tree, tree') /\ Tree(tree')
        /\ new \in {req[r], [req[r] EXCEPT !.at = "rename"]}
    BY <1>0, <2>1, <2>2, <2>4, MkdirAllSpreads
  <2>6. new.at \in {"parents", "rename"} /\ new.to = to /\ new.ask = ask
    BY <1>0, <2>1, <2>5 DEF Request
  <2>7. Straight(tree', to)
    BY <1>0, <2>1, <2>5, StraightGrows DEF Tree
  <2>. QED BY <2>1, <2>5, <2>6, <2>7 DEF Moving
<1>4. CASE Move(r)
  <2>1. Makes(r, RenameNode(tree, req[r].from, req[r].to), Done(r))
    BY <1>4 DEF Move
  <2>2. new = Done(r) BY <2>1, HasMade
  <2>. QED BY <2>2, DoneOk
<1>. QED BY <1>1, <1>2, <1>3, <1>4

(* A file is opened, or made, where the path says.                         *)
LEMMA OpenSpreads ==
    ASSUME NEW b, NEW t, NEW W, NEW T, Tree(b), Spread(b, t, W, T),
           NEW path \in Places, Straight(t, path), path \in W,
           NEW u, u = OpenTruncated(t, path), u # Nil
    PROVE  /\ Spread(b, u, W, T)
           /\ Stat(u, path) \in Live(u) /\ PathOf(u, Stat(u, path)) = path
<1>0. Tree(t) /\ Structured(t) BY DEF Spread, Tree
<1>1. CASE \E k : Gains(t, u, k, "file", Empty, path)
  <2>1. PICK k : Gains(t, u, k, "file", Empty, path) BY <1>1
  <2>2. Spread(b, u, W, T) BY <2>1, SpreadGains
  <2>. QED BY <2>1, <2>2 DEF Gains
<1>2. CASE /\ Stat(t, path) \in Live(t) /\ PathOf(t, Stat(t, path)) = path
           /\ u = Holding(t, Stat(t, path), Empty)
  <2>. DEFINE n == Stat(t, path)
  <2>1. n \in Live(t) /\ PathOf(t, n) = path /\ u = Holding(t, n, Empty) /\ n # Nil
    BY <1>2, FileSystemAssumption DEF Live
  <2>. HIDE DEF n
  <2>2. Empty \in Contents BY DEF Contents
  <2>3. Spread(b, u, W, T) BY <2>1, <2>2, SpreadHolding
  <2>4. Tree(u) /\ Grows(t, u) BY <1>0, <2>1, <2>2, DataTree
  <2>5. Stat(u, path) = n
    BY <1>0, <2>1, <2>4, FoundStaysFound DEF n, Tree
  <2>. QED BY <1>0, <2>1, <2>3, <2>4, <2>5, PathGrows
<1>. QED BY <1>0, <1>1, <1>2, OpenGains

(* What is known of the copying of a request.                              *)
LEMMA CopyFacts ==
    ASSUME Typed, NEW r \in Requests, before[r] # Nil, Copying(tree, before[r], req[r]),
           LinkFree(before[r], Dest(before[r], req[r].ask)),
           req[r].at \in {"copy", "read directory", "open destination", "copy data"}
    PROVE  LET b == before[r]
               dest == Dest(b, req[r].ask)
               head == Head(req[r].todo)
           IN  /\ Tree(b) /\ dest \in Places /\ Straight(b, dest)
               /\ head \in Tasks /\ head.to \in Places /\ IsPrefix(dest, head.to)
               /\ Straight(tree, head.to) /\ head.to \in Below(dest)
               /\ Tail(req[r].todo) \in Seq(TasksBelow(dest))
               /\ Spread(b, tree, Below(dest), {dest})
<1>. DEFINE b == before[r]
            dest == Dest(b, req[r].ask)
            todo == req[r].todo
            head == Head(todo)
<1>1. /\ Tree(b) /\ dest \in Places /\ Straight(b, dest) /\ LinkFree(b, dest)
      /\ todo \in Seq(TasksBelow(dest)) /\ todo # <<>>
      /\ Spread(b, tree, Below(dest), {dest})
  BY HeadTask DEF Typed, Copying
<1>. HIDE DEF b, dest, todo
<1>2. head \in TasksBelow(dest) /\ Tail(todo) \in Seq(TasksBelow(dest))
  BY <1>1, HeadTailProperties
<1>3. head \in Tasks /\ head.to \in Places /\ IsPrefix(dest, head.to)
  BY <1>2 DEF TasksBelow, Tasks
<1>. HIDE DEF head
<1>4. Straight(b, head.to) BY <1>1, <1>3, StraightBelow DEF LinkFree
<1>5. Straight(tree, head.to)
  BY <1>1, <1>3, <1>4, SpreadPlainly, StraightGrows DEF Tree
<1>6. head.to \in Below(dest) BY <1>3 DEF Below
<1>. QED BY <1>1, <1>2, <1>3, <1>5, <1>6 DEF b, dest, todo, head

(* The next state of a copy, if what is left of its tasks goes below its place. *)
LEMMA CopyNextConfined ==
    ASSUME Typed, NEW r \in Requests, NEW b, NEW t,
           NEW dest, dest = Dest(b, req[r].ask), dest \in Places, Straight(b, dest),
           NEW todo \in Seq(TasksBelow(dest)), Spread(b, t, Below(dest), {dest})
    PROVE  CopyNext(r, todo).ok \/ Copying(t, b, CopyNext(r, todo))
<1>1. CASE todo = <<>> BY <1>1, DoneOk DEF CopyNext
<1>2. CASE todo # <<>>
  <2>. DEFINE new == [req[r] EXCEPT !.at = "copy", !.todo = todo]
  <2>1. new.at = "copy" /\ new.todo = todo /\ new.ask = req[r].ask
    BY Current DEF Request
  <2>. HIDE DEF new
  <2>2. Copying(t, b, new) BY <2>1 DEF Copying
  <2>. QED BY <1>2, <2>2 DEF CopyNext, new
<1>. QED BY <1>1, <1>2

(* Once both paths are resolved a copy has its one task.                   *)
LEMMA CopyResolvesConfined ==
    ASSUME Typed, NEW r \in Requests, Op(r) = "copy", before[r] # Nil,
           Copying(tree, before[r], req[r]),
           ResolvePath(r) \/ ResolveDest(r) \/ CopyStats(r)
    PROVE  req'[r].ok \/ Copying(tree', before[r], req'[r])
<1>. DEFINE b == before[r]
            ask == req[r].ask
            dest == Dest(b, ask)
            new == req'[r]
<1>0. /\ Tree(b) /\ Tree(tree) /\ ask.other \in Places /\ req[r] \in Request /\ Holds(req[r])
      /\ Spread(b, tree, Below(dest), {dest})
  BY Current, InputsType DEF Typed, ResolvePath, ResolveDest, CopyStats, Copying
<1>1. CASE ResolvePath(r)
  <2>. DEFINE from == Resolve(tree, ask.path)
  <2>1. /\ req[r].at = "resolve"
        /\ GoesOn(r, [req[r] EXCEPT !.at = "resolveOther", !.from = from])
    BY <1>1 DEF ResolvePath, FirstStep
  <2>. HIDE DEF from
  <2>2. tree' = tree /\ new = [req[r] EXCEPT !.at = "resolveOther", !.from = from]
    BY <2>1, GoneOn
  <2>3. new.at = "resolveOther" /\ new.ask = ask
    BY <1>0, <2>2 DEF Request
  <2>. QED BY <1>0, <2>1, <2>2, <2>3 DEF Copying
<1>2. CASE ResolveDest(r)
  <2>. DEFINE to == Resolve(tree, ask.other)
  <2>1. /\ req[r].at = "resolveOther" /\ to # Nil
        /\ GoesOn(r, [req[r] EXCEPT !.at = "stat", !.to = to])
    BY <1>2 DEF ResolveDest
  <2>2. tree = b BY <2>1 DEF Copying
  <2>3. to = dest /\ to \in Places /\ Straight(b, to)
    BY <1>0, <2>1, <2>2, Resolved DEF Dest
  <2>. HIDE DEF to
  <2>4. tree' = tree /\ new = [req[r] EXCEPT !.at = "stat", !.to = to]
    BY <2>1, GoneOn
  <2>5. new.at = "stat" /\ new.to = to /\ new.ask = ask
    BY <1>0, <2>4 DEF Request
  <2>. QED BY <1>0, <2>2, <2>3, <2>4, <2>5 DEF Copying
<1>3. CASE CopyStats(r)
  <2>. DEFINE task == Task(tree, Stat(tree, req[r].from), req[r].from, req[r].to)
  <2>1. req[r].at = "stat" /\ GoesOn(r, CopyNext(r, <<task>>))
    BY <1>3 DEF CopyStats
  <2>2. /\ req[r].to = dest /\ dest \in Places /\ Straight(b, dest) /\ req[r].from \in Places
    BY <1>0, <2>1 DEF Copying, Holds
  <2>3. task \in Tasks /\ task.to = dest BY <2>2 DEF Task, Tasks
  <2>4. task \in TasksBelow(dest)
    BY <2>2, <2>3, PrefixOrder DEF TasksBelow
  <2>. HIDE DEF task
  <2>5. <<task>> \in Seq(TasksBelow(dest)) BY <2>4, Singleton
  <2>6. tree' = tree /\ new = CopyNext(r, <<task>>) BY <2>1, GoneOn
  <2>. HIDE DEF new, b, dest
  <2>7. dest = Dest(b, req[r].ask) BY DEF dest
  <2>8. CopyNext(r, <<task>>).ok \/ Copying(tree, b, CopyNext(r, <<task>>))
    BY <1>0, <2>2, <2>5, <2>7, CopyNextConfined
  <2>. QED BY <2>6, <2>8 DEF new, b
<1>. QED BY <1>1, <1>2, <1>3

(* Every directory and file of a copy is below the destination.            *)
LEMMA CopyMakesDirConfined ==
    ASSUME Typed, NEW r \in Requests, before[r] # Nil, Copying(tree, before[r], req[r]),
           LinkFree(before[r], Dest(before[r], req[r].ask)), CopyMakesDir(r)
    PROVE  Copying(tree', before[r], req'[r])
<1>. DEFINE b == before[r]
            ask == req[r].ask
            dest == Dest(b, ask)
            to == Head(req[r].todo).to
            W == Below(dest)
            new == req'[r]
<1>1. req[r].at = "copy" /\ MkdirAll(r, to, "read directory")
  BY DEF CopyMakesDir
<1>2. /\ Tree(b) /\ dest \in Places /\ Straight(b, dest)
      /\ to \in Places /\ IsPrefix(dest, to) /\ Straight(tree, to)
      /\ Spread(b, tree, W, {dest})
  BY <1>1, CopyFacts
<1>3. req[r].todo \in Seq(TasksBelow(dest)) /\ req[r] \in Request
  BY <1>1, Current DEF Copying
<1>. HIDE DEF b, dest, to
<1>4. ASSUME NEW q \in Places, IsPrefix(q, to)
      PROVE  q \in W \/ IsStrictPrefix(q, dest)
  <2>1. IsPrefix(dest, q) \/ IsPrefix(q, dest)
    BY <1>2, <1>4, PrefixOrder
  <2>2. IsPrefix(dest, dest) BY <1>2, PrefixOrder
  <2>. QED BY <2>1, <2>2 DEF Below, IsStrictPrefix
<1>5. Allowed(tree, to, W, {dest}) BY <1>4 DEF Allowed
<1>. HIDE DEF W
<1>6. Spread(b, tree', W, {dest}) /\ new \in {req[r], [req[r] EXCEPT !.at = "read directory"]}
  BY <1>1, <1>2, <1>5, MkdirAllSpreads
<1>7. new.at \in {"copy", "read directory"} /\ new.todo = req[r].todo /\ new.ask = ask
  BY <1>1, <1>3, <1>6 DEF Request
<1>. QED BY <1>2, <1>3, <1>6, <1>7 DEF Copying, W, dest, b

(* The tasks of the entries go below the place of their directory.         *)
LEMMA CopyReadsDirConfined ==
    ASSUME Typed, NEW r \in Requests, before[r] # Nil, Copying(tree, before[r], req[r]),
           LinkFree(before[r], Dest(before[r], req[r].ask)), CopyReadsDir(r)
    PROVE  req'[r].ok \/ Copying(tree', before[r], req'[r])
<1>. DEFINE b == before[r]
            dest == Dest(b, req[r].ask)
            head == Head(req[r].todo)
            d == Stat(tree, head.from)
            tasks == Listed(tree, d, head.from, head.to)
            todo == tasks \o Tail(req[r].todo)
            new == req'[r]
<1>1. req[r].at = "read directory" /\ IsDir(tree, head.from) /\ GoesOn(r, CopyNext(r, todo))
  BY DEF CopyReadsDir, Listed, EntryTask
<1>2. /\ dest \in Places /\ Straight(b, dest) /\ Spread(b, tree, Below(dest), {dest})
      /\ head.to \in Places /\ IsPrefix(dest, head.to)
      /\ Tail(req[r].todo) \in Seq(TasksBelow(dest))
  BY <1>1, CopyFacts
<1>3. head.from \in Places /\ Structured(tree) /\ dest = Dest(b, req[r].ask)
  BY <1>1, HeadTask, Current DEF Tree
<1>4. d \in Node BY <1>1, <1>3, StatLive DEF IsDir, Live
<1>. HIDE DEF b, dest, head, d
<1>5. ASSUME NEW n \in Entries(tree, d)
      PROVE  EntryTask(tree, n, head.from, head.to) \in TasksBelow(dest)
  <2>1. n \in Live(tree) \ {Top}
    BY <1>4, FileSystemAssumption DEF Entries, Live
  <2>2. tree[n].name \in STRING BY <1>3, <2>1 DEF Structured
  <2>3. Append(head.from, tree[n].name) \in Places /\ Append(head.to, tree[n].name) \in Places
        /\ IsPrefix(dest, Append(head.to, tree[n].name))
    BY <1>2, <1>3, <2>2, PrefixOrder
  <2>. QED BY <2>3 DEF EntryTask, Task, Tasks, TasksBelow
<1>6. tasks \in Seq(TasksBelow(dest)) BY <1>5, EntriesListed
<1>. HIDE DEF tasks
<1>7. todo \in Seq(TasksBelow(dest)) BY <1>2, <1>6, ConcatProperties
<1>. HIDE DEF todo
<1>8. tree' = tree /\ new = CopyNext(r, todo) BY <1>1, GoneOn
<1>9. CopyNext(r, todo).ok \/ Copying(tree, b, CopyNext(r, todo))
  BY <1>2, <1>3, <1>7, CopyNextConfined
<1>. QED BY <1>8, <1>9 DEF b

(* Opening the source makes nothing,                                       *)
LEMMA CopyOpensSourceConfined ==
    ASSUME Typed, NEW r \in Requests, before[r] # Nil, Copying(tree, before[r], req[r]),
           CopyOpensSource(r)
    PROVE  Copying(tree', before[r], req'[r])
<1>. DEFINE in == Stat(tree, Head(req[r].todo).from)
            next == [req[r] EXCEPT !.at = "open destination", !.in = in]
<1>1. req[r].at = "copy" /\ GoesOn(r, next) BY DEF CopyOpensSource
<1>. HIDE DEF in
<1>2. tree' = tree /\ req'[r] = next BY <1>1, GoneOn
<1>3. next.at = "open destination" /\ next.todo = req[r].todo /\ next.ask = req[r].ask
  BY Current DEF Request
<1>. HIDE DEF next
<1>4. Copying(tree, before[r], next) BY <1>1, <1>3 DEF Copying
<1>. QED BY <1>2, <1>4

(* and opening the destination makes or empties a file at its place.       *)
LEMMA CopyOpensDestConfined ==
    ASSUME Typed, NEW r \in Requests, before[r] # Nil, Copying(tree, before[r], req[r]),
           LinkFree(before[r], Dest(before[r], req[r].ask)), CopyOpensDest(r)
    PROVE  Copying(tree', before[r], req'[r])
<1>. DEFINE b == before[r]
            ask == req[r].ask
            dest == Dest(b, ask)
            to == Head(req[r].todo).to
            W == Below(dest)
            t == OpenTruncated(tree, to)
            out == Stat(t, to)
            next == [req[r] EXCEPT !.at = "copy data", !.out = out]
<1>1. req[r].at = "open destination" /\ t # Nil /\ Makes(r, t, next)
  BY DEF CopyOpensDest
<1>2. /\ Tree(b) /\ dest \in Places /\ Straight(b, dest)
      /\ to \in Places /\ to \in W /\ Straight(tree, to)
      /\ Spread(b, tree, W, {dest})
  BY <1>1, CopyFacts
<1>3. req[r].todo \in Seq(TasksBelow(dest)) /\ req[r] \in Request
  BY <1>1, Current DEF Copying
<1>. DEFINE T == {dest}
<1>. HIDE DEF b, dest, W, to
<1>4. Spread(b, t, W, {dest}) /\ out \in Live(t) /\ PathOf(t, out) = to
  <2>1. /\ t = OpenTruncated(tree, to) /\ t # Nil /\ to \in Places /\ Straight(tree, to)
        /\ to \in W /\ Tree(b) /\ Spread(b, tree, W, T)
    BY <1>1, <1>2
  <2>. HIDE DEF T, t, out, next
  <2>2. /\ Spread(b, t, W, T)
        /\ Stat(t, to) \in Live(t) /\ PathOf(t, Stat(t, to)) = to
    BY <2>1, OpenSpreads
  <2>. QED BY <2>2 DEF T, out
<1>. HIDE DEF t, out
<1>5. tree' = t /\ req'[r] = next BY <1>1, HasMade
<1>6. next.at = "copy data" /\ next.out = out /\ next.todo = req[r].todo /\ next.ask = ask
  BY <1>3 DEF Request
<1>. HIDE DEF next
<1>7. Copying(t, b, next)
  BY <1>2, <1>3, <1>4, <1>6 DEF Copying, W, dest
<1>. QED BY <1>5, <1>7 DEF b

(* What is written is a file at its place.                                 *)
LEMMA CopyDataConfined ==
    ASSUME Typed, NEW r \in Requests, before[r] # Nil, Copying(tree, before[r], req[r]),
           LinkFree(before[r], Dest(before[r], req[r].ask)), CopyData(r)
    PROVE  req'[r].ok \/ Copying(tree', before[r], req'[r])
<1>. DEFINE b == before[r]
            dest == Dest(b, req[r].ask)
            W == Below(dest)
            x == tree[req[r].in].data
            t == Holding(tree, req[r].out, x)
            todo == Tail(req[r].todo)
<1>1. req[r].at = "copy data" /\ Makes(r, t, CopyNext(r, todo))
  BY DEF CopyData, Holding
<1>2. /\ Tree(b) /\ dest \in Places /\ Straight(b, dest) /\ dest = Dest(b, req[r].ask)
      /\ todo \in Seq(TasksBelow(dest)) /\ Spread(b, tree, W, {dest})
  BY <1>1, CopyFacts
<1>3. req[r].out \in Live(tree) /\ PathOf(tree, req[r].out) \in W
  BY <1>1 DEF Copying
<1>4. x \in Contents
  <2>1. req[r].in \in Node /\ tree \in [Node -> Nodes]
    BY <1>1, Current DEF Holds, Tree, Structured
  <2>. QED BY <2>1, NodeFields
<1>. HIDE DEF b, dest, W, x, todo
<1>5. Spread(b, t, W, {dest}) BY <1>2, <1>3, <1>4, SpreadHolding
<1>. HIDE DEF t
<1>6. tree' = t /\ req'[r] = CopyNext(r, todo) BY <1>1, HasMade
<1>7. CopyNext(r, todo).ok \/ Copying(t, b, CopyNext(r, todo))
  BY <1>2, <1>5, CopyNextConfined DEF W
<1>. QED BY <1>6, <1>7 DEF b

(* A file is sent to a name in the folder.                                 *)
LEMMA SentPath ==
    ASSUME NEW ask \in Inputs, ask.op = "upload", NEW path \in SentPaths(ask)
    PROVE  path \in Places /\ \E x : x \in STRING /\ path = Append(ask.path, x)
<1>1. ask.path \in Places /\ ask.files \in Uploads BY InputsType
<1>2. PICK i \in DOMAIN ask.files : path = ask.path \o Filename(ask.files[i])
  BY DEF SentPaths
<1>3. ask.files \in Seq(Places) /\ ask.files[i] # <<>>
  BY <1>1, <1>2, FileTreeAssumption
<1>4. ask.files[i] \in Places BY <1>2, <1>3
<1>5. Last(ask.files[i]) \in STRING BY <1>3, <1>4, FrontLast
<1>. DEFINE x == Last(ask.files[i])
<1>6. path = ask.path \o <<x>> BY <1>2 DEF Filename
<1>. HIDE DEF x
<1>7. ask.path \o <<x>> = Append(ask.path, x) /\ Append(ask.path, x) \in Places
  BY <1>1, <1>5, AppendProperties DEF Places, x
<1>. QED BY <1>5, <1>6, <1>7 DEF x

(* A directory stays one.                                                  *)
LEMMA IsDirGrows ==
    ASSUME NEW t, NEW u, Structured(t), Structured(u), Grows(t, u), NEW path \in Places,
           IsDir(t, path)
    PROVE  IsDir(u, path)
<1>1. Stat(t, path) # Nil /\ Stat(t, path) \in Live(t) /\ t[Stat(t, path)].kind = "dir"
  BY StatLive DEF IsDir
<1>2. Stat(u, path) = Stat(t, path) BY <1>1, FoundStaysFound
<1>3. u[Stat(t, path)].kind = "dir" BY <1>1 DEF Grows
<1>. QED BY <1>1, <1>2, <1>3 DEF IsDir

(* Before a place that is there nothing is missing.                        *)
LEMMA NothingMissing ==
    ASSUME NEW t, Tree(t), NEW p \in Places, Straight(t, p), IsDir(t, p),
           NEW q \in Places, IsPrefix(q, p)
    PROVE  Lstat(t, q) # Nil
<1>1. Stat(t, p) # Nil /\ Stat(t, p) \in Live(t) /\ PathOf(t, Stat(t, p)) = p
  BY StraightDef DEF IsDir
<1>2. PICK m \in Live(t) : PathOf(t, m) = q BY <1>1, PrefixIsNode
<1>3. Lstat(t, q) = m /\ m # Nil
  BY <1>2, NodeFound, FileSystemAssumption DEF Live
<1>. QED BY <1>3

(* A file that is sent goes to its place, or is refused for a directory that *)
(* an earlier one of them has made there.                                  *)
LEMMA ResolveUploadConfined ==
    ASSUME Typed, NEW r \in Requests, before[r] # Nil, Uploading(tree, before[r], req[r]),
           ResolveUpload(r)
    PROVE  Uploading(tree', before[r], req'[r])
<1>. DEFINE b == before[r]
            ask == req[r].ask
            sent == Sent(b, ask)
            path == Head(req[r].todo)
            from == Resolve(tree, path)
            next == [req[r] EXCEPT !.at = "parents", !.from = from]
<1>1. /\ req[r].at = "resolve" /\ ask.op = "upload" /\ from # Nil
      /\ GoesOn(r, next)
  BY DEF ResolveUpload, Op
<1>2. /\ Tree(b) /\ Tree(tree) /\ req[r] \in Request /\ ask \in Inputs /\ ask.path \in Places
      /\ req[r].todo \in Seq(SentPaths(ask)) /\ req[r].todo # <<>>
      /\ Spread(b, tree, sent, sent)
  BY <1>1, Current, InputsType DEF Typed, Uploading, Holds
<1>3. path \in SentPaths(ask)
  <2>. DEFINE S == SentPaths(ask)
  <2>. HIDE DEF S
  <2>1. req[r].todo \in Seq(S) /\ req[r].todo # <<>> BY <1>2 DEF S
  <2>2. path \in S BY <2>1, HeadTailProperties
  <2>. QED BY <2>2 DEF S
<1>. HIDE DEF b, ask, path
<1>4. path \in Places /\ Place(b, path) \in sent
  BY <1>1, <1>2, <1>3, SentPath DEF Sent
<1>5. PICK x : x \in STRING /\ path = Append(ask.path, x)
  BY <1>1, <1>2, <1>3, SentPath
<1>6. from \in Places /\ Straight(tree, from)
  BY <1>1, <1>2, <1>4, Resolved
<1>. HIDE DEF from
<1>7. (\E i : Splits(b, ask.path, i)) /\ (from \in sent \/ IsDir(tree, from))
  <2>1. CASE tree = b
    <3>1. PICK k : Splits(b, path, k)
      BY <1>1, <1>2, <1>4, <2>1, ResolveSplits DEF from
    <3>2. \E i : Splits(b, ask.path, i)
      BY <1>2, <1>5, <3>1, SplitsFront DEF Tree
    <3>3. from = Place(b, path)
      BY <1>1, <1>2, <1>4, <2>1, Resolved DEF from
    <3>. QED BY <1>4, <3>2, <3>3
  <2>2. CASE \E i : Splits(b, ask.path, i)
    <3>1. PICK i : Splits(b, ask.path, i) BY <2>2
    <3>2. GrowsPlainly(b, tree) BY <1>2, SpreadPlainly
    <3>3. \/ from = Place(b, path)
          \/ \E e \in Live(tree) \ Live(b) : from = PathOf(tree, e)
      BY <1>1, <1>2, <1>5, <3>1, <3>2, ResolveInFolder DEF from
    <3>4. ASSUME NEW e \in Live(tree) \ Live(b), from = PathOf(tree, e), from \notin sent
          PROVE  IsDir(tree, from)
      <4>1. tree[e].kind = "dir" /\ e # Nil
        BY <1>2, <3>4, FileSystemAssumption DEF Spread, Parent, Live
      <4>2. Stat(tree, from) = e BY <1>2, <3>4, <4>1, NodeFound
      <4>. QED BY <4>1, <4>2 DEF IsDir
    <3>. QED BY <1>4, <2>2, <3>3, <3>4
  <2>. QED BY <1>1, <2>1, <2>2 DEF Uploading, b, ask
<1>8. tree' = tree /\ req'[r] = next BY <1>1, GoneOn
<1>9. next.at = "parents" /\ next.from = from /\ next.todo = req[r].todo /\ next.ask = ask
  BY <1>2 DEF Request, ask
<1>. HIDE DEF next
<1>10. Uploading(tree, b, next)
  BY <1>2, <1>6, <1>7, <1>9 DEF Uploading
<1>. QED BY <1>8, <1>10 DEF b

(* An upload makes the directories on the way to its file,                 *)
LEMMA UploadMakesParentsConfined ==
    ASSUME Typed, NEW r \in Requests, before[r] # Nil, Uploading(tree, before[r], req[r]),
           UploadMakesParents(r)
    PROVE  Uploading(tree', before[r], req'[r])
<1>. DEFINE b == before[r]
            ask == req[r].ask
            sent == Sent(b, ask)
            from == req[r].from
            new == req'[r]
<1>1. /\ req[r].at = "parents" /\ from # <<>> /\ MkdirAll(r, Front(from), "create file")
  BY DEF UploadMakesParents
<1>2. /\ Tree(b) /\ Tree(tree) /\ req[r] \in Request /\ from \in Places
      /\ req[r].todo \in Seq(SentPaths(ask)) /\ \E i : Splits(b, ask.path, i)
      /\ Straight(tree, from) /\ (from \in sent \/ IsDir(tree, from))
      /\ Spread(b, tree, sent, sent)
  BY <1>1, Current DEF Typed, Uploading, Holds
<1>. HIDE DEF b, ask, sent, from
<1>3. /\ Front(from) \in Places /\ Last(from) \in STRING /\ from = Append(Front(from), Last(from))
      /\ IsPrefix(Front(from), from) /\ Straight(tree, Front(from))
  BY <1>1, <1>2, FrontStraight
<1>4. ASSUME NEW q \in Places, IsPrefix(q, Front(from)), Lstat(tree, q) = Nil
      PROVE  \E s \in sent : IsStrictPrefix(q, s)
  <2>1. IsPrefix(q, from) BY <1>2, <1>3, <1>4, PrefixOrder
  <2>2. ~IsDir(tree, from) BY <1>2, <1>4, <2>1, NothingMissing
  <2>3. IsStrictPrefix(q, from) BY <1>3, <1>4, FrontBefore
  <2>. QED BY <1>2, <2>2, <2>3
<1>5. Allowed(tree, Front(from), sent, sent) BY <1>4 DEF Allowed
<1>6. /\ Spread(b, tree', sent, sent) /\ GrowsPlainly(tree, tree') /\ Tree(tree')
      /\ new \in {req[r], [req[r] EXCEPT !.at = "create file"]}
  BY <1>1, <1>2, <1>3, <1>5, MkdirAllSpreads
<1>7. /\ new.at \in {"parents", "create file"} /\ new.from = from
      /\ new.todo = req[r].todo /\ new.ask = ask
  BY <1>1, <1>2, <1>6 DEF Request, from, ask
<1>8. Straight(tree', from) /\ (from \in sent \/ IsDir(tree', from))
  BY <1>2, <1>6, StraightGrows, IsDirGrows DEF Tree, GrowsPlainly
<1>. HIDE DEF new
<1>9. Uploading(tree', b, new)
  BY <1>2, <1>6, <1>7, <1>8 DEF Uploading, sent
<1>. QED BY <1>9 DEF b, new

(* the file, in the place where it would have gone at first,               *)
LEMMA UploadOpensConfined ==
    ASSUME Typed, NEW r \in Requests, before[r] # Nil, Uploading(tree, before[r], req[r]),
           UploadOpens(r)
    PROVE  Uploading(tree', before[r], req'[r])
<1>. DEFINE b == before[r]
            ask == req[r].ask
            sent == Sent(b, ask)
            from == req[r].from
            t == OpenTruncated(tree, from)
            out == Stat(t, from)
            next == [req[r] EXCEPT !.at = "write", !.out = out]
<1>1. req[r].at = "create file" /\ t # Nil /\ Makes(r, t, next)
  BY DEF UploadOpens
<1>2. /\ Tree(b) /\ req[r] \in Request /\ from \in Places
      /\ req[r].todo \in Seq(SentPaths(ask)) /\ \E i : Splits(b, ask.path, i)
      /\ Straight(tree, from) /\ (from \in sent \/ IsDir(tree, from))
      /\ Spread(b, tree, sent, sent)
  BY <1>1, Current DEF Typed, Uploading, Holds
<1>3. from \in sent
  <2>1. ~IsDir(tree, from) BY <1>1 DEF OpenTruncated, IsDir
  <2>. QED BY <1>2, <2>1
<1>. HIDE DEF b, ask, sent, from
<1>4. Spread(b, t, sent, sent) /\ out \in Live(t) /\ PathOf(t, out) = from
  <2>1. t = OpenTruncated(tree, from) /\ t # Nil BY <1>1
  <2>. HIDE DEF t
  <2>. QED BY <1>2, <1>3, <2>1, OpenSpreads
<1>. HIDE DEF t, out
<1>5. tree' = t /\ req'[r] = next BY <1>1, HasMade
<1>6. next.at = "write" /\ next.out = out /\ next.todo = req[r].todo /\ next.ask = ask
  BY <1>2 DEF Request, ask
<1>. HIDE DEF next
<1>7. Uploading(t, b, next)
  BY <1>2, <1>3, <1>4, <1>6 DEF Uploading, sent
<1>. QED BY <1>5, <1>7 DEF b

(* and writes to it.                                                       *)
LEMMA UploadWritesConfined ==
    ASSUME Typed, NEW r \in Requests, before[r] # Nil, Uploading(tree, before[r], req[r]),
           UploadWrites(r)
    PROVE  req'[r].ok \/ Uploading(tree', before[r], req'[r])
<1>. DEFINE b == before[r]
            ask == req[r].ask
            sent == Sent(b, ask)
            rest == Tail(req[r].todo)
            t == Holding(tree, req[r].out, r)
            next == [req[r] EXCEPT !.at = "resolve", !.todo = rest]
<1>1. req[r].at = "write" /\ Makes(r, t, IF rest = <<>> THEN Done(r) ELSE next)
  BY DEF UploadWrites, Holding
<1>2. /\ Tree(b) /\ req[r] \in Request /\ r \in Contents
      /\ req[r].todo \in Seq(SentPaths(ask)) /\ req[r].todo # <<>>
      /\ \E i : Splits(b, ask.path, i)
      /\ req[r].out \in Live(tree) /\ PathOf(tree, req[r].out) \in sent
      /\ Spread(b, tree, sent, sent)
  BY <1>1, Current DEF Typed, Uploading, Holds, Within, Contents
<1>3. rest \in Seq(SentPaths(ask))
  <2>. DEFINE S == SentPaths(ask)
  <2>. HIDE DEF S
  <2>1. req[r].todo \in Seq(S) /\ req[r].todo # <<>> BY <1>2 DEF S
  <2>2. rest \in Seq(S) BY <2>1, HeadTailProperties
  <2>. QED BY <2>2 DEF S
<1>. HIDE DEF b, ask, sent, rest
<1>4. Spread(b, t, sent, sent) BY <1>2, SpreadHolding
<1>. HIDE DEF t
<1>5. tree' = t /\ req'[r] = IF rest = <<>> THEN Done(r) ELSE next
  BY <1>1, HasMade
<1>6. next.at = "resolve" /\ next.todo = rest /\ next.ask = ask
  BY <1>2 DEF Request, ask
<1>. HIDE DEF next
<1>7. Uploading(t, b, next)
  BY <1>2, <1>3, <1>4, <1>6 DEF Uploading, sent
<1>. QED BY <1>5, <1>7, DoneOk DEF b

(* The work of an upload is the paths it is sent to.                       *)
LEMMA SentTodo ==
    ASSUME NEW ask \in Inputs, ask.op = "upload"
    PROVE  [i \in DOMAIN ask.files |-> ask.path \o Filename(ask.files[i])] \in Seq(SentPaths(ask))
<1>. DEFINE S == SentPaths(ask)
            f(i) == ask.path \o Filename(ask.files[i])
            files == ask.files
<1>1. files \in Seq(Places) BY InputsType, FileTreeAssumption
<1>2. \A i \in DOMAIN files : f(i) \in S BY DEF SentPaths
<1>. HIDE DEF S, f, files
<1>3. [i \in DOMAIN files |-> f(i)] \in Seq(S)
  <2>1. Len(files) \in Nat /\ DOMAIN files = 1 .. Len(files)
    BY <1>1, LenProperties
  <2>. QED BY <1>2, <2>1
<1>. QED BY <1>3 DEF S, f, files

(* A request begins with the tree it meets.                                *)
LEMMA ArriveConfined ==
    ASSUME Typed, Confined, NEW r \in Requests, NEW ask \in Inputs, Arrive(r, ask)
    PROVE  Confined'
<1>. DEFINE todo == [i \in DOMAIN ask.files |-> ask.path \o Filename(ask.files[i])]
            new == [Idle EXCEPT !.at = "resolve", !.ask = ask, !.todo = todo]
<1>1. /\ tree' = tree /\ req' = [req EXCEPT ![r] = new]
      /\ before' = [before EXCEPT ![r] = tree]
  BY DEF Arrive
<1>2. ask.op = "upload" => todo \in Seq(SentPaths(ask)) BY SentTodo
<1>. HIDE DEF todo
<1>3. new.at = "resolve" /\ new.ask = ask /\ new.todo = todo
  BY DEF Idle
<1>. HIDE DEF new
<1>4. /\ req'[r] = new /\ before'[r] = tree
      /\ \A q \in Requests \ {r} : req'[q] = req[q] /\ before'[q] = before[q]
  BY <1>1 DEF Typed
<1>5. Confines(tree, tree, new)
  <2>0. Tree(tree) BY DEF Typed
  <2>1. Deleting(tree, tree, new)
    BY <1>3, <2>0, ShrunkStart DEF Deleting
  <2>2. Moving(tree, tree, new) BY <1>3, <2>0, SpreadStart DEF Moving
  <2>3. Copying(tree, tree, new)
    BY <1>3, <2>0, SpreadStart DEF Copying
  <2>4. ask.op = "upload" => Uploading(tree, tree, new)
    BY <1>2, <1>3, <2>0, SpreadStart DEF Uploading
  <2>. QED BY <1>3, <2>1, <2>2, <2>3, <2>4 DEF Confines
<1>6. ASSUME NEW q \in Requests PROVE Confines(tree', before'[q], req'[q])
  <2>1. CASE q = r BY <1>1, <1>4, <1>5, <2>1
  <2>2. CASE q # r BY <1>1, <1>4, <2>2 DEF Confined
  <2>. QED BY <2>1, <2>2
<1>. QED BY <1>6 DEF Confined

(* Whose step it may be.                                                   *)
LEMMA WhoseStep ==
    ASSUME Typed, NEW r \in Requests
    PROVE  /\ RemoveOne(r) \/ RemoveOpensParent(r) \/ RemoveReadsDir(r) \/ RemoveNext(r) =>
                Op(r) = "delete"
           /\ MoveMakesParents(r) \/ Move(r) => Op(r) = "move"
           /\ ResolveDest(r) => Op(r) \in {"move", "copy"}
           /\ CopyStats(r) \/ CopyMakesDir(r) \/ CopyReadsDir(r) \/ CopyOpensSource(r)
              \/ CopyOpensDest(r) \/ CopyData(r) => Op(r) = "copy"
           /\ ResolveUpload(r) \/ UploadMakesParents(r) \/ UploadOpens(r) \/ UploadWrites(r) =>
                Op(r) = "upload"
           /\ ResolveWithin(r) \/ Open(r) \/ MakeDirectory(r) \/ CreateFile(r) \/ Rename(r) =>
                Op(r) \in {"mkdir", "create", "rename", "open"}
           /\ ResolvePath(r) => Op(r) # "upload"
<1>1. RemoveOne(r) \/ RemoveOpensParent(r) \/ RemoveReadsDir(r) \/ RemoveNext(r) =>
        Op(r) = "delete"
  BY Current DEF RemoveOne, RemoveOpensParent, RemoveReadsDir, RemoveNext, Holds, Within, Op
<1>2. CopyStats(r) \/ CopyMakesDir(r) \/ CopyReadsDir(r) \/ CopyOpensSource(r)
      \/ CopyOpensDest(r) \/ CopyData(r) => Op(r) = "copy"
  BY Current DEF CopyStats, CopyMakesDir, CopyReadsDir, CopyOpensSource, CopyOpensDest, CopyData,
                 Holds, Within, Op
<1>3. ResolveUpload(r) \/ UploadMakesParents(r) \/ UploadOpens(r) \/ UploadWrites(r) =>
        Op(r) = "upload"
  BY Current DEF ResolveUpload, UploadMakesParents, UploadOpens, UploadWrites, Holds, Within, Op
<1>4. ResolveWithin(r) \/ Open(r) \/ MakeDirectory(r) \/ CreateFile(r) \/ Rename(r) =>
        Op(r) \in {"mkdir", "create", "rename", "open"}
  BY Current DEF ResolveWithin, Open, MakeDirectory, CreateFile, Rename, Holds, Within, Op
<1>. QED BY <1>1, <1>2, <1>3, <1>4 DEF MoveMakesParents, Move, ResolveDest, ResolvePath

(* Every action keeps to it.                                               *)
LEMMA StepConfined ==
    ASSUME Typed, NEW r \in Requests, before[r] # Nil, Confines(tree, before[r], req[r]),
           Fails(r) \/ ResolvePath(r) \/ ResolveUpload(r) \/ ResolveDest(r) \/ ResolveWithin(r)
           \/ MakeDirectory(r) \/ CreateFile(r) \/ UploadMakesParents(r) \/ UploadOpens(r)
           \/ UploadWrites(r) \/ RemoveOne(r) \/ RemoveOpensParent(r) \/ RemoveReadsDir(r)
           \/ RemoveNext(r) \/ Rename(r) \/ MoveMakesParents(r) \/ Move(r) \/ CopyStats(r)
           \/ CopyMakesDir(r) \/ CopyReadsDir(r) \/ CopyOpensSource(r) \/ CopyOpensDest(r)
           \/ CopyData(r) \/ Open(r)
    PROVE  Confines(tree', before[r], req'[r])
<1>. DEFINE b == before[r]
            ask == req[r].ask
            q == req[r]
            new == req'[r]
<1>0. q.at # "idle" /\ ~q.ok /\ new.ask = ask /\ Op(r) = ask.op
  BY NextAdvances, Advanced DEF Op
<1>1. CASE Fails(r) BY <1>1, FailsConfined
<1>2. CASE Op(r) \in {"mkdir", "create", "rename", "open"} /\ ~Fails(r)
  <2>1. new.ok \/ tree' = tree BY <1>2, PlainConfined, WhoseStep
  <2>2. tree = b BY <1>0, <1>2 DEF Confines
  <2>. QED BY <1>0, <1>2, <2>1, <2>2 DEF Confines
<1>3. CASE Op(r) = "delete" /\ ~Fails(r)
  <2>1. ResolvePath(r) \/ RemoveOne(r) \/ RemoveOpensParent(r) \/ RemoveReadsDir(r)
        \/ RemoveNext(r)
    BY <1>3, WhoseStep
  <2>2. Deleting(tree, b, q) BY <1>0, <1>3 DEF Confines
  <2>3. new.ok \/ Deleting(tree', b, new)
    BY <1>3, <2>1, <2>2, DeleteConfined
  <2>. QED BY <1>0, <1>3, <2>3 DEF Confines
<1>4. CASE Op(r) = "move" /\ ~Fails(r)
  <2>1. ResolvePath(r) \/ ResolveDest(r) \/ MoveMakesParents(r) \/ Move(r)
    BY <1>4, WhoseStep
  <2>2. Moving(tree, b, q) BY <1>0, <1>4 DEF Confines
  <2>3. new.ok \/ Moving(tree', b, new)
    BY <1>4, <2>1, <2>2, MoveConfined
  <2>. QED BY <1>0, <1>4, <2>3 DEF Confines
<1>5. CASE Op(r) = "copy" /\ ~Fails(r)
  <2>1. ResolvePath(r) \/ ResolveDest(r) \/ CopyStats(r) \/ CopyMakesDir(r) \/ CopyReadsDir(r)
        \/ CopyOpensSource(r) \/ CopyOpensDest(r) \/ CopyData(r)
    BY <1>5, WhoseStep
  <2>2. SUFFICES ASSUME LinkFree(b, Dest(b, ask))
        PROVE  new.ok \/ Copying(tree', b, new)
    BY <1>0, <1>5 DEF Confines
  <2>3. Copying(tree, b, q) BY <1>0, <1>5, <2>2 DEF Confines
  <2>. QED BY <1>5, <2>1, <2>2, <2>3, CopyResolvesConfined, CopyMakesDirConfined,
             CopyReadsDirConfined, CopyOpensSourceConfined, CopyOpensDestConfined,
             CopyDataConfined
<1>6. CASE Op(r) = "upload" /\ ~Fails(r)
  <2>1. ResolveUpload(r) \/ UploadMakesParents(r) \/ UploadOpens(r) \/ UploadWrites(r)
    BY <1>6, WhoseStep
  <2>2. Uploading(tree, b, q) BY <1>0, <1>6 DEF Confines
  <2>3. new.ok \/ Uploading(tree', b, new)
    BY <2>1, <2>2, ResolveUploadConfined, UploadMakesParentsConfined, UploadOpensConfined,
       UploadWritesConfined
  <2>. QED BY <1>0, <1>6, <2>3 DEF Confines
<1>7. Op(r) \in {"mkdir", "create", "delete", "rename", "move", "copy", "open", "upload"}
  BY <1>0, Current, InputsType
<1>. QED BY <1>1, <1>2, <1>3, <1>4, <1>5, <1>6, <1>7

(* What others change, a request does not answer for.                      *)
LEMMA AdvanceConfined ==
    ASSUME Typed, Confined, NEW r \in Requests, Advances(r),
           before[r] # Nil => Confines(tree', before[r], req'[r])
    PROVE  Confined'
<1>1. ASSUME NEW q \in Requests PROVE Confines(tree', before'[q], req'[q])
  <2>1. CASE q = r
    <3>1. before'[q] = before[r] BY <2>1, Advanced
    <3>. QED BY <2>1, <3>1 DEF Confines
  <2>2. CASE q # r
    <3>1. req'[q] = req[q] /\ ((tree' = tree /\ before'[q] = before[q]) \/ before'[q] = Nil)
      BY <2>2, Advanced
    <3>2. CASE before'[q] = Nil BY <3>2 DEF Confines
    <3>3. CASE tree' = tree /\ before'[q] = before[q]
      BY <3>1, <3>3 DEF Confined
    <3>. QED BY <3>1, <3>2, <3>3
  <2>. QED BY <2>1, <2>2
<1>. QED BY <1>1 DEF Confined

(* It holds in the beginning.                                              *)
LEMMA InitConfined == Init => Confined
BY DEF Init, Confined, Confines, Idle

(* The invariant on failures is kept, by what others do too: then nobody asks. *)
LEMMA ConfinedInductive == Typed /\ Confined /\ [Next]_vars => Confined'
<1>. SUFFICES ASSUME Typed, Confined, [Next]_vars PROVE Confined'
  OBVIOUS
<1>1. CASE UNCHANGED vars BY <1>1 DEF vars, Confined
<1>2. ASSUME NEW r \in Requests, NEW ask \in Inputs, Arrive(r, ask) PROVE Confined'
  BY <1>2, ArriveConfined
<1>3. ASSUME NEW r \in Requests, Advances(r),
             before[r] # Nil => Confines(tree', before[r], req'[r])
      PROVE  Confined'
  BY <1>3, AdvanceConfined
<1>4. \A r \in Requests : Confines(tree, before[r], req[r])
  BY DEF Confined
<1>. QED BY <1>1, <1>2, <1>3, <1>4, NextAdvances, StepConfined DEF Next

(* A request that fails, at whatever system call, and that nobody disturbed *)
(* has changed nothing but what it was to delete or to write, and has perhaps *)
(* made parents of it; a move that fails has lost nothing.                 *)
THEOREM FailuresAreLocal == Spec => []FailuresStayLocal
<1>1. Init => Typed /\ Confined BY InitTyped, InitConfined
<1>2. Typed /\ Confined /\ [Next]_vars => (Typed /\ Confined)'
  BY TypedInductive, ConfinedInductive
<1>3. Typed /\ Confined => FailuresStayLocal BY ConfinedLocal
<1>. QED BY <1>1, <1>2, <1>3, PTL DEF Spec

-----------------------------------------------------------------------------
(* Success.  First, what the calls on the tree make of its view.           *)

(* Views as functions.                                                     *)
IsMap(f) == f = [x \in DOMAIN f |-> f[x]]

(* Two maps with the same values are one,                                  *)
LEMMA SameMap ==
    ASSUME NEW f, NEW g, IsMap(f), IsMap(g), DOMAIN f = DOMAIN g,
           \A x \in DOMAIN f : f[x] = g[x]
    PROVE  f = g
BY DEF IsMap

(* and a view is the map that has every node at its path.                  *)
LEMMA ViewIs ==
    ASSUME NEW t, Tree(t), NEW f, IsMap(f),
           \A n \in Live(t) : PathOf(t, n) \in DOMAIN f /\ f[PathOf(t, n)] = Seen(t[n]),
           \A x \in DOMAIN f : \E n \in Live(t) : x = PathOf(t, n)
    PROVE  View(t) = f
<1>. DEFINE v == View(t)
<1>1. IsMap(v) BY DEF View, IsMap
<1>2. DOMAIN v = DOMAIN f BY ViewDef
<1>3. \A x \in DOMAIN v : v[x] = f[x] BY ViewDef DEF Shape
<1>. HIDE DEF v
<1>4. v = f BY <1>1, <1>2, <1>3, SameMap
<1>. QED BY <1>4 DEF v

(* One map over another has the values of the first where it has any.      *)
LEMMA OverDef ==
    ASSUME NEW f, NEW g, NEW u, u = Over(f, g)
    PROVE  /\ DOMAIN u = DOMAIN f \union DOMAIN g
           /\ \A x \in DOMAIN f : u[x] = f[x]
           /\ \A x \in DOMAIN g : x \notin DOMAIN f => u[x] = g[x]
           /\ IsMap(u)
BY DEF Over, IsMap

(* What is strictly before a path are its parts.                           *)
LEMMA StrictPrefixPart ==
    ASSUME NEW q \in Places, NEW x \in Places
    PROVE  IsStrictPrefix(x, q) <=> \E i \in 0 .. Len(q) - 1 : x = Part(q, i)
<1>1. ASSUME NEW i \in 0 .. Len(q) - 1, x = Part(q, i) PROVE IsStrictPrefix(x, q)
  <2>1. i \in 0 .. Len(q) /\ i # Len(q) /\ Len(x) = i
    BY <1>1, PartType
  <2>2. IsPrefix(x, q) /\ x # q BY <1>1, <2>1, PartPrefix
  <2>. QED BY <2>2 DEF IsStrictPrefix
<1>2. ASSUME IsStrictPrefix(x, q) PROVE \E i \in 0 .. Len(q) - 1 : x = Part(q, i)
  <2>1. IsPrefix(x, q) /\ x # q BY <1>2 DEF IsStrictPrefix
  <2>2. /\ Len(x) \in Nat /\ Len(q) \in Nat /\ Part(x, Len(x)) = x /\ Part(q, Len(q)) = q
    BY PartType
  <2>3. Len(x) <= Len(q) /\ Part(x, Len(x)) = Part(q, Len(x))
    BY <2>1 DEF IsPrefix, Part
  <2>4. Len(x) # Len(q) BY <2>1, <2>2, <2>3
  <2>5. \A m, k \in Nat : m <= k /\ m # k => m \in 0 .. k - 1 OBVIOUS
  <2>7. Len(x) \in 0 .. Len(q) - 1 BY <2>2, <2>3, <2>4, <2>5
  <2>6. x = Part(q, Len(x)) BY <2>2, <2>3
  <2>. QED BY <2>6, <2>7
<1>. QED BY <1>1, <1>2

(* All that leads to the places.                                           *)
Parents(places) == UNION {{SubSeq(q, 1, i) : i \in 0 .. Len(q) - 1} : q \in places}

LEMMA ParentsDef ==
    ASSUME NEW places \in SUBSET Places
    PROVE  /\ Parents(places) \in SUBSET Places
           /\ \A x \in Places :
                x \in Parents(places) <=> \E q \in places : IsStrictPrefix(x, q)
<1>1. \A x : x \in Parents(places) <=>
            \E q \in places : \E i \in 0 .. Len(q) - 1 : x = Part(q, i)
  BY DEF Parents, Part
<1>2. \A q \in places : \A i \in 0 .. Len(q) - 1 : Part(q, i) \in Places
  <2>1. SUFFICES ASSUME NEW q \in places, NEW i \in 0 .. Len(q) - 1 PROVE Part(q, i) \in Places
    OBVIOUS
  <2>2. i \in 0 .. Len(q) BY PartType
  <2>. QED BY <2>2, PartType
<1>. QED BY <1>1, <1>2, StrictPrefixPart

(* A view with parents has gained directories where it had nothing.        *)
LEMMA WithParentsDef ==
    ASSUME NEW v, NEW places, NEW u, u = WithParents(v, places)
    PROVE  /\ DOMAIN u = DOMAIN v \union Parents(places)
           /\ \A x \in DOMAIN v : u[x] = v[x]
           /\ \A x \in Parents(places) : x \notin DOMAIN v => u[x] = Directory
           /\ IsMap(u)
<1>. DEFINE g == [x \in Parents(places) |-> Directory]
<1>1. u = Over(v, g) BY DEF WithParents, Parents
<1>2. DOMAIN g = Parents(places) /\ \A x \in Parents(places) : g[x] = Directory
  OBVIOUS
<1>. HIDE DEF g
<1>3. /\ DOMAIN u = DOMAIN v \union DOMAIN g
      /\ \A x \in DOMAIN v : u[x] = v[x]
      /\ \A x \in DOMAIN g : x \notin DOMAIN v => u[x] = g[x]
  BY <1>1 DEF Over
<1>4. IsMap(u) BY <1>1, OverDef
<1>. QED BY <1>2, <1>3, <1>4

(* What a call makes of the view.                                          *)
LEMMA PathsDiffer ==
    ASSUME NEW t, Tree(t), NEW n \in Live(t), NEW m \in Live(t), PathOf(t, n) = PathOf(t, m)
    PROVE  n = m
<1>1. Lstat(t, PathOf(t, n)) = n /\ Lstat(t, PathOf(t, m)) = m
  BY NodeFound
<1>. QED BY <1>1

(* The map of a single place.                                              *)
One(place, seen) == [x \in {place} |-> seen]

(* A tree that gained a node has gained it in the view.                    *)
LEMMA GainsView ==
    ASSUME NEW t, Tree(t), NEW u, NEW k, NEW kind, NEW data, NEW path,
           Gains(t, u, k, kind, data, path), NEW s, s = Seen(u[k])
    PROVE  View(u) = Over(One(path, s), View(t))
<1>. DEFINE one == One(path, s)
            f == Over(one, View(t))
<1>1. DOMAIN one = {path} /\ one[path] = s BY DEF One
<1>2. /\ Tree(u) /\ Grows(t, u) /\ k \notin Live(t) /\ Live(u) = Live(t) \union {k}
      /\ \A n \in Live(t) : u[n] = t[n]
      /\ PathOf(u, k) = path
  BY DEF Gains
<1>. HIDE DEF one
<1>. HIDE DEF f
<1>3. /\ DOMAIN f = {path} \union DOMAIN View(t) /\ IsMap(f) /\ f[path] = s
      /\ \A x \in DOMAIN View(t) : x # path => f[x] = View(t)[x]
  BY <1>1 DEF f, Over, IsMap
<1>4. ASSUME NEW n \in Live(u)
      PROVE  PathOf(u, n) \in DOMAIN f /\ f[PathOf(u, n)] = Seen(u[n])
  <2>1. CASE n = k BY <1>2, <1>3, <2>1
  <2>2. CASE n # k
    <3>1. n \in Live(t) /\ PathOf(u, n) = PathOf(t, n) /\ u[n] = t[n]
      BY <1>2, <2>2, PathGrows
    <3>2. PathOf(u, n) # path BY <1>2, <2>2, PathsDiffer
    <3>3. PathOf(t, n) \in DOMAIN View(t) /\ View(t)[PathOf(t, n)] = Seen(t[n])
      BY <3>1, ViewDef DEF Shape
    <3>. QED BY <1>3, <3>1, <3>2, <3>3
  <2>. QED BY <2>1, <2>2
<1>5. ASSUME NEW x \in DOMAIN f PROVE \E n \in Live(u) : x = PathOf(u, n)
  <2>1. CASE x = path BY <1>2, <2>1
  <2>2. CASE x \in DOMAIN View(t)
    <3>1. PICK n \in Live(t) : x = PathOf(t, n) BY <2>2, ViewDef
    <3>2. n \in Live(u) /\ PathOf(u, n) = x BY <1>2, <3>1, PathGrows
    <3>. QED BY <3>2
  <2>. QED BY <1>3, <2>1, <2>2
<1>6. View(u) = f BY <1>2, <1>3, <1>4, <1>5, ViewIs
<1>. QED BY <1>6 DEF f, one

(* What is left when a place and all below it are gone.                    *)
LEMMA WithoutDef ==
    ASSUME NEW v, NEW p, NEW u, u = Without(v, p)
    PROVE  /\ \A x : x \in DOMAIN u <=> x \in DOMAIN v /\ ~IsPrefix(p, x)
           /\ \A x \in DOMAIN u : u[x] = v[x]
           /\ IsMap(u)
BY DEF Without, Restrict, IsMap

(* Where no node is there is none below.                                   *)
LEMMA NothingBelow ==
    ASSUME NEW t, Tree(t), NEW p \in Places, \A n \in Live(t) : PathOf(t, n) # p
    PROVE  \A n \in Live(t) : ~IsPrefix(p, PathOf(t, n))
BY PrefixIsNode

(* When the place itself is gone nothing else has gone with it.            *)
LEMMA ShrunkGone ==
    ASSUME NEW b, NEW t, NEW p \in Places, Tree(b), Shrunk(b, t, p),
           \A n \in Live(t) : PathOf(t, n) # p
    PROVE  View(t) = Without(View(b), p)
<1>. DEFINE f == Without(View(b), p)
<1>0. Tree(t) BY DEF Shrunk
<1>1. /\ \A x : x \in DOMAIN f <=> x \in DOMAIN View(b) /\ ~IsPrefix(p, x)
      /\ \A x \in DOMAIN f : f[x] = View(b)[x]
      /\ IsMap(f)
  BY WithoutDef
<1>. HIDE DEF f
<1>2. ASSUME NEW n \in Live(t)
      PROVE  PathOf(t, n) \in DOMAIN f /\ f[PathOf(t, n)] = Seen(t[n])
  <2>1. n \in Live(b) /\ PathOf(b, n) = PathOf(t, n) /\ t[n] = b[n]
    BY ShrunkPath DEF Shrunk
  <2>2. PathOf(b, n) \in DOMAIN View(b) /\ View(b)[PathOf(b, n)] = Seen(b[n])
    BY <2>1, ViewDef DEF Shape
  <2>3. ~IsPrefix(p, PathOf(t, n)) BY <1>0, NothingBelow
  <2>. QED BY <1>1, <2>1, <2>2, <2>3
<1>3. ASSUME NEW x \in DOMAIN f PROVE \E n \in Live(t) : x = PathOf(t, n)
  <2>1. x \in DOMAIN View(b) /\ ~IsPrefix(p, x) BY <1>1
  <2>2. x \in DOMAIN View(t) BY <2>1, ShrunkView
  <2>. QED BY <1>0, <2>2, ViewDef
<1>4. View(t) = f BY <1>0, <1>1, <1>2, <1>3, ViewIs
<1>. QED BY <1>4 DEF f

-----------------------------------------------------------------------------
(* What is moved or copied: the paths below one place, put below another.  *)

(* A path below p, moved below q.                                          *)
Rebased(x, p, q) == q \o SubSeq(x, Len(p) + 1, Len(x))

(* A path below p is p and the rest,                                       *)
LEMMA ConcatIsPrefix ==
    ASSUME NEW S, NEW p \in Seq(S), NEW x \in Seq(S), IsPrefix(p, x)
    PROVE  /\ SubSeq(x, Len(p) + 1, Len(x)) \in Seq(S)
           /\ x = p \o SubSeq(x, Len(p) + 1, Len(x))
<1>. DEFINE w == SubSeq(x, Len(p) + 1, Len(x))
            u == p \o w
<1>1. Len(p) \in Nat /\ Len(x) \in Nat BY LenProperties
<1>2. Len(p) <= Len(x) /\ \A i \in 1 .. Len(p) : p[i] = x[i]
  BY PrefixElements
<1>3. /\ w \in Seq(S) /\ Len(w) = Len(x) - Len(p)
      /\ \A i \in 1 .. Len(w) : w[i] = x[Len(p) + i]
  <2>1. Len(p) + 1 \in 1 .. Len(x) + 1 BY <1>1, <1>2
  <2>2. \A i \in Len(p) + 1 .. Len(x) : x[i] \in S
    BY <1>1, ElementOfSeq
  <2>. QED BY <1>1, <1>2, <2>1, <2>2, SubSeqProperties
<1>. HIDE DEF w
<1>4. /\ u \in Seq(S) /\ Len(u) = Len(p) + Len(w)
      /\ \A i \in 1 .. Len(p) + Len(w) : u[i] = IF i <= Len(p) THEN p[i] ELSE w[i - Len(p)]
  BY <1>3, ConcatProperties
<1>. HIDE DEF u
<1>5. \A i \in 1 .. Len(x) : x[i] = u[i]
  <2>1. SUFFICES ASSUME NEW i \in 1 .. Len(x) PROVE x[i] = u[i]
    OBVIOUS
  <2>2. i \in 1 .. Len(p) + Len(w) BY <1>1, <1>3
  <2>3. CASE i <= Len(p) BY <1>1, <1>2, <1>4, <2>2, <2>3
  <2>4. CASE ~(i <= Len(p))
    <3>. DEFINE j == i - Len(p)
    <3>1. j \in 1 .. Len(w) /\ Len(p) + j = i BY <1>1, <1>3, <2>4
    <3>2. u[i] = w[j] BY <1>4, <2>2, <2>4
    <3>. HIDE DEF j
    <3>3. w[j] = x[Len(p) + j] BY <1>3, <3>1
    <3>. QED BY <3>1, <3>2, <3>3
  <2>. QED BY <2>3, <2>4
<1>6. Len(x) = Len(u) BY <1>1, <1>3, <1>4
<1>7. x = u BY <1>4, <1>5, <1>6, SeqEqual
<1>. QED BY <1>3, <1>7 DEF u, w

(* The path w below p.                                                     *)
Beneath(p, w) == p \o w

(* and no two rests make the same path.                                    *)
LEMMA BeneathDef ==
    ASSUME NEW p \in Places
    PROVE  /\ Beneath(p, <<>>) = p
           /\ \A w \in Places : Beneath(p, w) \in Places /\ IsPrefix(p, Beneath(p, w))
           /\ \A w, v \in Places : Beneath(p, w) = Beneath(p, v) => w = v
           /\ \A w, v \in Places : Beneath(Beneath(p, w), v) = Beneath(p, Beneath(w, v))
           /\ \A x \in Places : IsPrefix(p, x) => \E w \in Places : x = Beneath(p, w)
<1>1. Beneath(p, <<>>) = p BY ConcatEmptySeq DEF Places, Beneath
<1>2. \A w \in Places : Beneath(p, w) \in Places /\ IsPrefix(p, Beneath(p, w))
  BY PrefixOfConcat DEF Places, Beneath
<1>3. \A w, v \in Places : Beneath(p, w) = Beneath(p, v) => w = v
  BY ConcatSimplifications DEF Places, Beneath
<1>4. \A w, v \in Places : Beneath(Beneath(p, w), v) = Beneath(p, Beneath(w, v))
  BY ConcatAssociative DEF Places, Beneath
<1>6. ASSUME NEW x \in Places, IsPrefix(p, x) PROVE \E w \in Places : x = Beneath(p, w)
  <2>. DEFINE w == SubSeq(x, Len(p) + 1, Len(x))
  <2>1. w \in Places /\ x = p \o w BY <1>6, ConcatIsPrefix DEF Places
  <2>. QED BY <2>1 DEF Beneath
<1>. QED BY <1>1, <1>2, <1>3, <1>4, <1>6

(* A word is any string; Longer adds one to a path.                        *)
Words == STRING
Longer(w, a) == Append(w, a)

LEMMA BeneathLonger ==
    ASSUME NEW p \in Places, NEW w \in Places, NEW a \in Words
    PROVE  Longer(Beneath(p, w), a) = Beneath(p, Longer(w, a))
BY ConcatAppend DEF Beneath, Longer, Words

LEMMA LongerDef ==
    ASSUME NEW w \in Places, NEW a \in Words
    PROVE  /\ Longer(w, a) \in Places
           /\ \A p \in Places : IsPrefix(p, Longer(w, a)) <=> p = Longer(w, a) \/ IsPrefix(p, w)
BY PrefixOrder DEF Longer, Words

LEMMA RebasedBeneath ==
    ASSUME NEW p \in Places, NEW q \in Places, NEW w \in Places
    PROVE  Rebased(Beneath(p, w), p, q) = Beneath(q, w)
<1>. DEFINE x == Beneath(p, w)
            v == SubSeq(x, Len(p) + 1, Len(x))
<1>1. x \in Places /\ IsPrefix(p, x) BY BeneathDef
<1>. HIDE DEF x
<1>2. v \in Places /\ x = Beneath(p, v)
  BY <1>1, ConcatIsPrefix DEF Places, Beneath
<1>3. Rebased(x, p, q) = Beneath(q, v) BY DEF Rebased, Beneath
<1>. HIDE DEF v
<1>4. v = w BY <1>2, BeneathDef DEF x
<1>. QED BY <1>3, <1>4 DEF x

(* Moving paths can be undone, and goes with one name more,                *)
LEMMA RebasedDef ==
    ASSUME NEW p \in Places, NEW q \in Places, NEW x \in Places, IsPrefix(p, x)
    PROVE  /\ Rebased(x, p, q) \in Places /\ IsPrefix(q, Rebased(x, p, q))
           /\ Rebased(Rebased(x, p, q), q, p) = x /\ Rebased(x, p, p) = x
           /\ \A a \in Words : Rebased(Longer(x, a), p, q) = Longer(Rebased(x, p, q), a)
<1>1. PICK w \in Places : x = Beneath(p, w) BY BeneathDef
<1>2. /\ Rebased(x, p, q) = Beneath(q, w) /\ Rebased(x, p, p) = x
      /\ Rebased(Beneath(q, w), q, p) = x
  BY <1>1, RebasedBeneath
<1>3. ASSUME NEW a \in Words PROVE Rebased(Longer(x, a), p, q) = Longer(Rebased(x, p, q), a)
  <2>. DEFINE v == Longer(w, a)
  <2>1. v \in Places BY LongerDef
  <2>2. Longer(Beneath(p, w), a) = Beneath(p, v) BY BeneathLonger
  <2>3. Longer(Beneath(q, w), a) = Beneath(q, v) BY BeneathLonger
  <2>. HIDE DEF v
  <2>. QED BY <1>1, <1>2, <2>1, <2>2, <2>3, RebasedBeneath
<1>. QED BY <1>1, <1>2, <1>3, BeneathDef

(* takes p to q,                                                           *)
LEMMA RebasedSelf ==
    ASSUME NEW p \in Places, NEW q \in Places
    PROVE  Rebased(p, p, q) = q
BY Nowhere, BeneathDef, RebasedBeneath

(* and keeps what is before what.                                          *)
LEMMA RebasedPrefix ==
    ASSUME NEW p \in Places, NEW q \in Places, NEW x \in Places, NEW y \in Places,
           IsPrefix(p, x), IsPrefix(x, y)
    PROVE  IsPrefix(Rebased(x, p, q), Rebased(y, p, q))
<1>1. PICK w \in Places : x = Beneath(p, w) BY BeneathDef
<1>2. PICK v \in Places : y = Beneath(x, v) BY BeneathDef
<1>3. y = Beneath(p, Beneath(w, v)) /\ Beneath(w, v) \in Places
  BY <1>1, <1>2, BeneathDef
<1>4. Rebased(x, p, q) = Beneath(q, w) /\ Rebased(y, p, q) = Beneath(Beneath(q, w), v)
  BY <1>1, <1>2, <1>3, RebasedBeneath, BeneathDef
<1>5. Beneath(q, w) \in Places BY BeneathDef
<1>. QED BY <1>2, <1>4, <1>5, BeneathDef

(* Paths with one name more, as Longer.                                    *)
LEMMA LongerPath ==
    ASSUME NEW t, Tree(t)
    PROVE  /\ \A n \in Live(t) : PathOf(t, n) \in Places
           /\ \A n \in Live(t) \ {Top} :
                /\ t[n].in \in Live(t) /\ t[n].name \in Words
                /\ PathOf(t, n) = Longer(PathOf(t, t[n].in), t[n].name)
BY PathDef DEF Longer, Words, Tree, Structured

(* The node one name below a directory is the entry of that name.          *)
LEMMA LongerEntry ==
    ASSUME NEW t, Tree(t), NEW d \in Live(t), t[d].kind = "dir", NEW x \in Words
    PROVE  \A e \in Live(t) : PathOf(t, e) = Longer(PathOf(t, d), x) <=> e = Entry(t, d, x)
<1>. DEFINE p == PathOf(t, d)
<1>1. Structured(t) /\ p \in Places /\ x \in STRING
  BY LongerPath DEF Tree, Words
<1>2. Stat(t, p) = d /\ d # Nil /\ d \in Node
  BY NodeFound, FileSystemAssumption DEF Live
<1>3. Lstat(t, Append(p, x)) = Entry(t, d, x)
  BY <1>1, <1>2, LstatAppend
<1>4. ASSUME NEW e \in Live(t), PathOf(t, e) = Append(p, x) PROVE e = Entry(t, d, x)
  BY <1>3, <1>4, NodeFound
<1>5. ASSUME NEW e \in Live(t), e = Entry(t, d, x) PROVE PathOf(t, e) = Append(p, x)
  <2>1. Entry(t, d, x) # Nil BY <1>5, FileSystemAssumption DEF Live
  <2>. QED BY <1>1, <1>5, <2>1, EntryPath
<1>. QED BY <1>4, <1>5 DEF Longer

(* What is grafted is at its moved path, and nothing else is.              *)
LEMMA GraftedDef ==
    ASSUME NEW v, DOMAIN v \subseteq Places, NEW p \in Places, NEW q \in Places,
           NEW g, g = Grafted(v, p, q)
    PROVE  /\ \A y \in DOMAIN v : IsPrefix(p, y) =>
                Rebased(y, p, q) \in DOMAIN g /\ g[Rebased(y, p, q)] = v[y]
           /\ \A x \in DOMAIN g : \E y \in DOMAIN v : IsPrefix(p, y) /\ x = Rebased(y, p, q)
           /\ \A x \in DOMAIN g : x \in Places /\ IsPrefix(q, x)
<1>1. DOMAIN g = {Rebased(y, p, q) : y \in {x \in DOMAIN v : IsPrefix(p, x)}}
  BY DEF Grafted, Rebased
<1>2. \A x \in DOMAIN g : g[x] = v[Rebased(x, q, p)]
  BY DEF Grafted, Rebased
<1>3. \A x \in DOMAIN g : \E y \in DOMAIN v : IsPrefix(p, y) /\ x = Rebased(y, p, q)
  BY <1>1
<1>4. ASSUME NEW y \in DOMAIN v, IsPrefix(p, y)
      PROVE  Rebased(y, p, q) \in DOMAIN g /\ g[Rebased(y, p, q)] = v[y]
  <2>1. Rebased(y, p, q) \in DOMAIN g BY <1>1, <1>4
  <2>2. Rebased(Rebased(y, p, q), q, p) = y BY <1>4, RebasedDef
  <2>. QED BY <1>2, <2>1, <2>2
<1>5. \A x \in DOMAIN g : x \in Places /\ IsPrefix(q, x)
  BY <1>3, RebasedDef
<1>. QED BY <1>3, <1>4, <1>5

(* What is below the node that is renamed goes with it.                    *)
Relocated(y, from, to) == IF IsPrefix(from, y) THEN Rebased(y, from, to) ELSE y

(* It has its moved path, and all others keep theirs.                      *)
LEMMA RenamedPaths ==
    ASSUME NEW t, NEW u, Tree(t), Tree(u), NEW n, NEW d, NEW x, NEW old,
           Renamed(t, u, n, d, x, old),
           NEW from, from = PathOf(t, n), NEW to, to = Longer(PathOf(t, d), x)
    PROVE  \A m \in Live(u) : PathOf(u, m) = Relocated(PathOf(t, m), from, to)
<1>. DEFINE P == {m \in Live(u) : PathOf(u, m) = Relocated(PathOf(t, m), from, to)}
<1>1. /\ n \in Live(t) \ {Top} /\ d \in Live(t) /\ x \in Words /\ n # d /\ n \in Node
      /\ Live(u) = Live(t) \ {old} /\ u[n].in = d /\ u[n].name = x
      /\ \A m \in Node : m # n /\ m # old => u[m] = t[m]
  BY DEF Renamed, Words, Live
<1>2. ~IsPrefix(from, PathOf(t, d)) BY DEF Renamed, AtOrBelow
<1>3. from \in Places /\ to \in Places BY <1>1, LongerPath, LongerDef
<1>4. Top \in P
  <2>1. PathOf(t, Top) = <<>> /\ PathOf(u, Top) = <<>> /\ Top \in Live(u)
    BY TopStat
  <2>2. from # <<>> BY <1>1, <2>1, PathsDiffer, TopStat
  <2>3. ~IsPrefix(from, <<>>) BY <1>3, <2>2, PrefixOrder, Nowhere
  <2>. QED BY <2>1, <2>3 DEF Relocated
<1>5. ASSUME NEW m \in Live(u) \ {Top}, u[m].in \in P PROVE m \in P
  <2>1. CASE m = n
    <3>1. PathOf(u, d) = PathOf(t, d)
      BY <1>1, <1>2, <1>5, <2>1 DEF Relocated
    <3>2. PathOf(u, n) = to BY <1>1, <1>5, <2>1, <3>1, LongerPath
    <3>3. Rebased(from, from, to) = to /\ IsPrefix(from, from)
      BY <1>3, RebasedSelf, PrefixOrder
    <3>. QED BY <1>5, <2>1, <3>2, <3>3 DEF Relocated
  <2>2. CASE m # n
    <3>. DEFINE e == t[m].in
                y == PathOf(t, e)
                a == t[m].name
    <3>1. m \in Live(t) \ {Top} /\ u[m] = t[m]
      BY <1>1, <1>5, <2>2 DEF Live
    <3>2. e \in Live(t) /\ y \in Places /\ a \in Words /\ PathOf(t, m) = Longer(y, a)
      BY <3>1, LongerPath
    <3>3. PathOf(u, m) = Longer(PathOf(u, e), a) /\ PathOf(u, e) = Relocated(y, from, to)
      BY <1>5, <3>1, LongerPath
    <3>4. PathOf(t, m) # from BY <1>1, <2>2, <3>1, PathsDiffer
    <3>. HIDE DEF e, y, a
    <3>5. IsPrefix(from, PathOf(t, m)) <=> IsPrefix(from, y)
      BY <1>3, <3>2, <3>4, LongerDef
    <3>6. CASE IsPrefix(from, y)
      <4>1. Rebased(Longer(y, a), from, to) = Longer(Rebased(y, from, to), a)
        BY <1>3, <3>2, <3>6, RebasedDef
      <4>2. PathOf(u, m) = Relocated(PathOf(t, m), from, to)
        BY <3>2, <3>3, <3>5, <3>6, <4>1 DEF Relocated
      <4>. QED BY <1>5, <4>2
    <3>7. CASE ~IsPrefix(from, y)
      BY <1>5, <3>2, <3>3, <3>5, <3>7 DEF Relocated
    <3>. QED BY <3>6, <3>7
  <2>. QED BY <2>1, <2>2
<1>6. P \in SUBSET Live(u) OBVIOUS
<1>. HIDE DEF P
<1>7. P = Live(u) BY <1>4, <1>5, <1>6, TreeInduction
<1>. QED BY <1>7 DEF P

(* The view after a rename, of a tree that has gained parents of the new   *)
(* place.                                                                  *)
RenameOf(v, from, to) ==
    WithParents(Over(Grafted(v, from, to), Without(Without(v, to), from)), {to})

LEMMA RenameOfDef ==
    ASSUME NEW v, DOMAIN v \subseteq Places, NEW from \in Places, NEW to \in Places,
           NEW f, f = RenameOf(v, from, to)
    PROVE  /\ IsMap(f)
           /\ \A y \in DOMAIN v : IsPrefix(from, y) =>
                Rebased(y, from, to) \in DOMAIN f /\ f[Rebased(y, from, to)] = v[y]
           /\ \A y \in DOMAIN v : ~IsPrefix(from, y) /\ ~IsPrefix(to, y) =>
                y \in DOMAIN f /\ f[y] = v[y]
           /\ \A y \in Places : IsStrictPrefix(y, to) /\ y \notin DOMAIN v =>
                y \in DOMAIN f /\ f[y] = Directory
           /\ \A x \in DOMAIN f :
                \/ \E y \in DOMAIN v : IsPrefix(from, y) /\ x = Rebased(y, from, to)
                \/ x \in DOMAIN v /\ ~IsPrefix(from, x) /\ ~IsPrefix(to, x)
                \/ x \in Places /\ IsStrictPrefix(x, to)
<1>. DEFINE g == Grafted(v, from, to)
            w1 == Without(v, to)
            w == Without(w1, from)
            o == Over(g, w)
<1>1. /\ \A y \in DOMAIN v : IsPrefix(from, y) =>
            Rebased(y, from, to) \in DOMAIN g /\ g[Rebased(y, from, to)] = v[y]
      /\ \A x \in DOMAIN g : \E y \in DOMAIN v : IsPrefix(from, y) /\ x = Rebased(y, from, to)
      /\ \A x \in DOMAIN g : x \in Places /\ IsPrefix(to, x)
  BY GraftedDef
<1>2. /\ \A x : x \in DOMAIN w1 <=> x \in DOMAIN v /\ ~IsPrefix(to, x)
      /\ \A x \in DOMAIN w1 : w1[x] = v[x]
  BY WithoutDef
<1>. HIDE DEF g, w1
<1>3. /\ \A x : x \in DOMAIN w <=> x \in DOMAIN w1 /\ ~IsPrefix(from, x)
      /\ \A x \in DOMAIN w : w[x] = w1[x]
  BY WithoutDef
<1>. HIDE DEF w
<1>4. /\ DOMAIN o = DOMAIN g \union DOMAIN w
      /\ \A x \in DOMAIN g : o[x] = g[x]
      /\ \A x \in DOMAIN w : x \notin DOMAIN g => o[x] = w[x]
  BY DEF Over
<1>. HIDE DEF o
<1>5. f = WithParents(o, {to}) BY DEF RenameOf, o, g, w, w1
<1>6. /\ DOMAIN f = DOMAIN o \union Parents({to})
      /\ \A x \in DOMAIN o : f[x] = o[x]
      /\ \A x \in Parents({to}) : x \notin DOMAIN o => f[x] = Directory
      /\ IsMap(f)
  BY <1>5, WithParentsDef
<1>7. /\ Parents({to}) \in SUBSET Places
      /\ \A x \in Places : x \in Parents({to}) <=> IsStrictPrefix(x, to)
  <2>1. {to} \in SUBSET Places OBVIOUS
  <2>. QED BY <2>1, ParentsDef
<1>8. ASSUME NEW y \in Places, IsStrictPrefix(y, to) PROVE ~IsPrefix(to, y)
  BY <1>8, PrefixOrder DEF IsStrictPrefix
<1>9. ASSUME NEW y \in DOMAIN v, IsPrefix(from, y)
      PROVE  Rebased(y, from, to) \in DOMAIN f /\ f[Rebased(y, from, to)] = v[y]
  BY <1>1, <1>4, <1>6, <1>9
<1>10. ASSUME NEW y \in DOMAIN v, ~IsPrefix(from, y), ~IsPrefix(to, y)
       PROVE  y \in DOMAIN f /\ f[y] = v[y]
  <2>1. y \in DOMAIN w /\ w[y] = v[y] BY <1>2, <1>3, <1>10
  <2>2. y \notin DOMAIN g BY <1>1, <1>10
  <2>. QED BY <1>4, <1>6, <2>1, <2>2
<1>11. ASSUME NEW y \in Places, IsStrictPrefix(y, to), y \notin DOMAIN v
       PROVE  y \in DOMAIN f /\ f[y] = Directory
  <2>1. y \notin DOMAIN g BY <1>1, <1>8, <1>11
  <2>2. y \notin DOMAIN w BY <1>2, <1>3, <1>11
  <2>. QED BY <1>4, <1>6, <1>7, <1>11, <2>1, <2>2
<1>12. ASSUME NEW x \in DOMAIN f
       PROVE  \/ \E y \in DOMAIN v : IsPrefix(from, y) /\ x = Rebased(y, from, to)
              \/ x \in DOMAIN v /\ ~IsPrefix(from, x) /\ ~IsPrefix(to, x)
              \/ x \in Places /\ IsStrictPrefix(x, to)
  <2>1. CASE x \in DOMAIN g BY <1>1, <2>1
  <2>2. CASE x \in DOMAIN w BY <1>2, <1>3, <2>2
  <2>3. CASE x \in Parents({to}) BY <1>7, <2>3
  <2>. QED BY <1>4, <1>6, <2>1, <2>2, <2>3
<1>. QED BY <1>6, <1>9, <1>10, <1>11, <1>12

(* If nodes are relocated and keep what they hold, the view is renamed.    *)
LEMMA RelocatedView ==
    ASSUME NEW b, NEW t, NEW u, NEW from \in Places, NEW to \in Places,
           Tree(b), Spread(b, t, {}, {to}), Tree(u),
           \A m \in Live(u) :
                /\ m \in Live(t) /\ PathOf(u, m) = Relocated(PathOf(t, m), from, to)
                /\ Seen(u[m]) = Seen(t[m])
                /\ IsPrefix(to, PathOf(t, m)) => IsPrefix(from, PathOf(t, m)),
           \A m \in Live(t) : m \in Live(u) \/ (PathOf(t, m) = to /\ ~IsPrefix(from, to)),
           \A q \in Places : IsStrictPrefix(q, to) =>
                ~IsPrefix(from, q) /\ \E m \in Live(t) : PathOf(t, m) = q
    PROVE  View(u) = RenameOf(View(b), from, to)
<1>. DEFINE v == View(b)
            f == RenameOf(v, from, to)
<1>0. Tree(t) /\ DOMAIN v \subseteq Places
  BY ViewDef, LongerPath DEF Spread
<1>1. /\ IsMap(f)
      /\ \A y \in DOMAIN v : IsPrefix(from, y) =>
            Rebased(y, from, to) \in DOMAIN f /\ f[Rebased(y, from, to)] = v[y]
      /\ \A y \in DOMAIN v : ~IsPrefix(from, y) /\ ~IsPrefix(to, y) =>
            y \in DOMAIN f /\ f[y] = v[y]
      /\ \A y \in Places : IsStrictPrefix(y, to) /\ y \notin DOMAIN v =>
            y \in DOMAIN f /\ f[y] = Directory
      /\ \A x \in DOMAIN f :
            \/ \E y \in DOMAIN v : IsPrefix(from, y) /\ x = Rebased(y, from, to)
            \/ x \in DOMAIN v /\ ~IsPrefix(from, x) /\ ~IsPrefix(to, x)
            \/ x \in Places /\ IsStrictPrefix(x, to)
  <2>. HIDE DEF v
  <2>. QED BY <1>0, RenameOfDef
<1>. HIDE DEF f
<1>2. ASSUME NEW x \in DOMAIN v \union DOMAIN View(t)
      PROVE  \/ x \in DOMAIN v /\ x \in DOMAIN View(t) /\ v[x] = View(t)[x]
             \/ x \notin DOMAIN v /\ View(t)[x] = Directory /\ IsStrictPrefix(x, to)
  BY SpreadView
<1>3. ASSUME NEW m \in Live(t)
      PROVE  PathOf(t, m) \in DOMAIN View(t) /\ View(t)[PathOf(t, m)] = Seen(t[m])
             /\ PathOf(t, m) \in Places
  BY <1>0, ViewDef, LongerPath DEF Shape
<1>4. ASSUME NEW m \in Live(u)
      PROVE  PathOf(u, m) \in DOMAIN f /\ f[PathOf(u, m)] = Seen(u[m])
  <2>. DEFINE y == PathOf(t, m)
  <2>1. /\ m \in Live(t) /\ PathOf(u, m) = Relocated(y, from, to) /\ Seen(u[m]) = Seen(t[m])
        /\ IsPrefix(to, y) => IsPrefix(from, y)
    OBVIOUS
  <2>2. y \in DOMAIN View(t) /\ View(t)[y] = Seen(t[m]) /\ y \in Places
    BY <1>3, <2>1
  <2>. HIDE DEF y, v
  <2>3. CASE IsPrefix(from, y)
    <3>1. ~IsStrictPrefix(y, to) BY <2>2, <2>3
    <3>2. y \in DOMAIN v /\ v[y] = Seen(t[m]) BY <1>2, <2>2, <3>1
    <3>. QED BY <1>1, <2>1, <2>3, <3>2 DEF Relocated
  <2>4. CASE ~IsPrefix(from, y)
    <3>1. ~IsPrefix(to, y) /\ PathOf(u, m) = y
      BY <2>1, <2>4 DEF Relocated
    <3>. QED BY <1>1, <1>2, <2>1, <2>2, <2>4, <3>1
  <2>. QED BY <2>3, <2>4
<1>5. ASSUME NEW x \in DOMAIN f PROVE \E m \in Live(u) : x = PathOf(u, m)
  <2>1. ASSUME NEW y \in DOMAIN v PROVE y \in Places /\ \E m \in Live(t) : y = PathOf(t, m)
    BY <1>0, <1>2, <2>1, ViewDef
  <2>. HIDE DEF v
  <2>2. CASE \E y \in DOMAIN v : IsPrefix(from, y) /\ x = Rebased(y, from, to)
    <3>1. PICK y \in DOMAIN v : IsPrefix(from, y) /\ x = Rebased(y, from, to)
      BY <2>2
    <3>2. PICK m \in Live(t) : y = PathOf(t, m) BY <2>1
    <3>3. m \in Live(u) BY <3>1, <3>2
    <3>. QED BY <3>1, <3>2, <3>3 DEF Relocated
  <2>3. CASE x \in DOMAIN v /\ ~IsPrefix(from, x) /\ ~IsPrefix(to, x)
    <3>1. PICK m \in Live(t) : x = PathOf(t, m) BY <2>1, <2>3
    <3>2. x # to BY <2>1, <2>3, PrefixOrder
    <3>3. m \in Live(u) BY <3>1, <3>2
    <3>. QED BY <2>3, <3>1, <3>3 DEF Relocated
  <2>4. CASE x \in Places /\ IsStrictPrefix(x, to)
    <3>1. PICK m \in Live(t) : PathOf(t, m) = x BY <2>4
    <3>2. x # to /\ ~IsPrefix(from, x) BY <2>4 DEF IsStrictPrefix
    <3>3. m \in Live(u) BY <3>1, <3>2
    <3>. QED BY <3>1, <3>2, <3>3 DEF Relocated
  <2>. QED BY <1>1, <2>2, <2>3, <2>4
<1>6. View(u) = f BY <1>1, <1>4, <1>5, ViewIs
<1>. QED BY <1>6 DEF f, v

(* A path before a new name is before it or is the longer path.            *)
LEMMA StrictBefore ==
    ASSUME NEW p \in Places, NEW x \in Words, NEW to, to = Longer(p, x)
    PROVE  /\ to \in Places
           /\ \A q \in Places : IsStrictPrefix(q, to) <=> IsPrefix(q, p)
           /\ \A q \in Places : IsPrefix(q, to) <=> q = to \/ IsPrefix(q, p)
<1>1. to \in Places /\ \A q \in Places : IsPrefix(q, to) <=> q = to \/ IsPrefix(q, p)
  BY LongerDef
<1>2. ~IsPrefix(to, p) BY PrefixOrder DEF Longer, Words
<1>. QED BY <1>1, <1>2 DEF IsStrictPrefix

(* So it is when an entry takes the place of nothing or of a file,         *)
LEMMA ReplacedView ==
    ASSUME NEW b, NEW t, NEW u, NEW from \in Places, NEW to \in Places,
           Tree(b), Spread(b, t, {}, {to}), Tree(u),
           NEW n, NEW d, NEW x, NEW old, Renamed(t, u, n, d, x, old),
           from = PathOf(t, n), to = Longer(PathOf(t, d), x)
    PROVE  View(u) = RenameOf(View(b), from, to)
<1>. DEFINE p == PathOf(t, d)
<1>0. Tree(t) BY DEF Spread
<1>1. /\ n \in Live(t) \ {Top} /\ n \in Node /\ d \in Live(t) /\ t[d].kind = "dir" /\ x \in Words
      /\ old = Entry(t, d, x) /\ old # n
      /\ old # Nil => old \in Live(t) \ {Top} /\ t[old].kind # "dir"
      /\ Live(u) = Live(t) \ {old}
      /\ u[n].kind = t[n].kind /\ u[n].data = t[n].data /\ u[n].target = t[n].target
      /\ \A m \in Node : m # n /\ m # old => u[m] = t[m]
  BY DEF Renamed, Words, Live
<1>2. p \in Places /\ ~IsPrefix(from, p)
  BY <1>0, <1>1, LongerPath DEF Renamed, AtOrBelow
<1>3. \A e \in Live(t) : PathOf(t, e) = to <=> e = old
  BY <1>0, <1>1, LongerEntry
<1>4. /\ \A q \in Places : IsStrictPrefix(q, to) <=> IsPrefix(q, p)
      /\ \A q \in Places : IsPrefix(q, to) <=> q = to \/ IsPrefix(q, p)
  BY <1>1, <1>2, StrictBefore
<1>5. ~IsPrefix(from, to)
  <2>1. from # to BY <1>1, <1>3
  <2>. QED BY <1>2, <1>4, <2>1
<1>6. ASSUME NEW m \in Live(u)
      PROVE  /\ m \in Live(t) /\ PathOf(u, m) = Relocated(PathOf(t, m), from, to)
             /\ Seen(u[m]) = Seen(t[m])
             /\ IsPrefix(to, PathOf(t, m)) => IsPrefix(from, PathOf(t, m))
  <2>1. m \in Live(t) /\ m # old /\ m \in Node BY <1>1 DEF Live
  <2>2. PathOf(u, m) = Relocated(PathOf(t, m), from, to)
    BY <1>0, RenamedPaths
  <2>3. Seen(u[m]) = Seen(t[m]) BY <1>1, <2>1 DEF Seen
  <2>4. ~IsPrefix(to, PathOf(t, m))
    <3>1. SUFFICES ASSUME IsPrefix(to, PathOf(t, m)) PROVE FALSE
      OBVIOUS
    <3>2. old \in Live(t) /\ PathOf(t, old) = to
      BY <1>0, <1>3, <2>1, <3>1, PrefixIsNode
    <3>3. AtOrBelow(t, old, m) BY <3>1, <3>2 DEF AtOrBelow
    <3>4. t[old].kind = "dir" BY <1>0, <2>1, <3>2, <3>3, AncestorIsDir
    <3>. QED BY <1>1, <3>2, <3>4, FileSystemAssumption DEF Live
  <2>. QED BY <2>1, <2>2, <2>3, <2>4
<1>7. ASSUME NEW m \in Live(t) PROVE m \in Live(u) \/ (PathOf(t, m) = to /\ ~IsPrefix(from, to))
  BY <1>1, <1>3, <1>5
<1>8. ASSUME NEW q \in Places, IsStrictPrefix(q, to)
      PROVE  ~IsPrefix(from, q) /\ \E m \in Live(t) : PathOf(t, m) = q
  <2>1. IsPrefix(q, p) BY <1>4, <1>8
  <2>2. ~IsPrefix(from, q) BY <1>2, <2>1, PrefixOrder
  <2>. QED BY <1>0, <1>1, <2>1, <2>2, PrefixIsNode
<1>. QED BY <1>6, <1>7, <1>8, RelocatedView

(* and when something is renamed to where it is.                           *)
LEMMA SamePlaceView ==
    ASSUME NEW b, NEW t, NEW to \in Places, to # <<>>, Tree(b), Spread(b, t, {}, {to}),
           NEW n \in Live(t), PathOf(t, n) = to
    PROVE  View(t) = RenameOf(View(b), to, to)
<1>0. Tree(t) BY DEF Spread
<1>1. ASSUME NEW m \in Live(t)
      PROVE  /\ m \in Live(t) /\ PathOf(t, m) = Relocated(PathOf(t, m), to, to)
             /\ Seen(t[m]) = Seen(t[m])
             /\ IsPrefix(to, PathOf(t, m)) => IsPrefix(to, PathOf(t, m))
  BY <1>0, LongerPath, RebasedDef DEF Relocated
<1>2. ASSUME NEW q \in Places, IsStrictPrefix(q, to)
      PROVE  ~IsPrefix(to, q) /\ \E m \in Live(t) : PathOf(t, m) = q
  <2>1. IsPrefix(q, to) /\ q # to BY <1>2 DEF IsStrictPrefix
  <2>. QED BY <1>0, <2>1, PrefixIsNode, PrefixOrder
<1>. QED BY <1>0, <1>1, <1>2, RelocatedView

LEMMA SameAppend ==
    ASSUME NEW S, NEW p \in Seq(S), NEW q \in Seq(S), NEW x \in S, NEW y \in S,
           Append(p, x) = Append(q, y)
    PROVE  p = q /\ x = y
BY AppendInjective

LEMMA FrontOfLonger ==
    ASSUME NEW p \in Places, NEW x \in Words, NEW to, to = Longer(p, x)
    PROVE  to \in Places /\ to # <<>> /\ Front(to) = p /\ Last(to) = x
<1>1. to \in Places /\ to # <<>>
  BY AppendProperties DEF Longer, Words, Places
<1>2. Front(to) \in Places /\ Last(to) \in Words /\ to = Longer(Front(to), Last(to))
  BY <1>1, FrontLast DEF Longer, Words
<1>3. Places = Seq(Words) BY DEF Places, Words
<1>. DEFINE f == Front(to)
            l == Last(to)
<1>4. f \in Seq(Words) /\ l \in Words /\ p \in Seq(Words) /\ Append(f, l) = Append(p, x)
  BY <1>2, <1>3 DEF Longer
<1>. HIDE DEF f, l
<1>5. f = p /\ l = x BY <1>4, SameAppend
<1>. QED BY <1>1, <1>5 DEF f, l

(* What is renamed is at its new place, with all below it; and all else is *)
(* where it was.                                                           *)
LEMMA RenameView ==
    ASSUME NEW b, NEW t, NEW from \in Places, from # <<>>,
           NEW p \in Places, NEW x \in Words, NEW to, to = Longer(p, x),
           Tree(b), Spread(b, t, {}, {to}), Straight(t, from), Straight(t, p),
           NEW u, u = RenameNode(t, from, to), u # Nil
    PROVE  View(u) = RenameOf(View(b), from, to)
<1>. DEFINE n == Lstat(t, from)
            d == Stat(t, p)
            old == Lstat(t, to)
<1>0. Tree(t) BY DEF Spread
<1>1. to \in Places /\ to # <<>> /\ Front(to) = p /\ Last(to) = x
  BY FrontOfLonger
<1>2. /\ n # Nil /\ d \in Live(t)
      /\ (old = n /\ u = t) \/ Renamed(t, u, n, d, x, old)
  BY <1>0, <1>1, RenameDef
<1>3. n \in Live(t) /\ PathOf(t, n) = from BY <1>0, <1>2, StraightDef
<1>4. PathOf(t, d) = p /\ d # Nil
  BY <1>0, <1>2, StraightDef, FileSystemAssumption DEF Live
<1>5. CASE old = n /\ u = t
  <2>1. old = Entry(t, d, x)
    BY <1>0, <1>4, LstatAppend DEF Longer, Words, Tree
  <2>2. PathOf(t, n) = to
    <3>1. x \in STRING /\ Entry(t, d, x) = n /\ Entry(t, d, x) # Nil /\ to = Append(p, x)
      BY <1>2, <1>5, <2>1 DEF Longer, Words
    <3>. HIDE DEF n, d, old
    <3>. QED BY <1>0, <1>2, <1>4, <3>1, EntryPath
  <2>. QED BY <1>1, <1>3, <1>5, <2>2, SamePlaceView
<1>6. CASE Renamed(t, u, n, d, x, old)
  <2>1. Tree(u) BY <1>0, <1>1, RenameTree
  <2>. HIDE DEF n, d, old
  <2>. QED BY <1>1, <1>3, <1>4, <1>6, <2>1, ReplacedView
<1>. QED BY <1>2, <1>5, <1>6

-----------------------------------------------------------------------------
(* What has been written, and the invariant on success.                    *)

(* A tree in which all is written that was to be, and nothing else.        *)
LEMMA SpreadDone ==
    ASSUME NEW b, NEW t, NEW g, NEW W, W = DOMAIN g, NEW T \in SUBSET Places, Tree(b),
           Spread(b, t, W, T),
           \A x \in W : \E m \in Live(t) : PathOf(t, m) = x /\ Seen(t[m]) = g[x],
           \A q \in T : \E m \in Live(t) : PathOf(t, m) = q
    PROVE  View(t) = WithParents(Over(g, View(b)), T)
<1>. DEFINE v == View(b)
            o == Over(g, v)
            f == WithParents(o, T)
<1>0. Tree(t) BY DEF Spread
<1>1. /\ DOMAIN o = W \union DOMAIN v
      /\ \A x \in W : o[x] = g[x]
      /\ \A x \in DOMAIN v : x \notin W => o[x] = v[x]
  BY DEF Over
<1>. HIDE DEF o
<1>2. /\ DOMAIN f = DOMAIN o \union Parents(T)
      /\ \A x \in DOMAIN o : f[x] = o[x]
      /\ \A x \in Parents(T) : x \notin DOMAIN o => f[x] = Directory
      /\ IsMap(f)
  BY WithParentsDef
<1>. HIDE DEF f
<1>3. /\ Parents(T) \in SUBSET Places
      /\ \A x \in Places : x \in Parents(T) <=> \E q \in T : IsStrictPrefix(x, q)
  BY ParentsDef
<1>4. ASSUME NEW x \in DOMAIN v \union DOMAIN View(t)
      PROVE  \/ x \in DOMAIN v /\ x \in DOMAIN View(t) /\ v[x] = View(t)[x]
             \/ x \in W
             \/ /\ x \notin DOMAIN v /\ View(t)[x] = Directory
                /\ \E q \in T : IsStrictPrefix(x, q)
  BY SpreadView
<1>5. ASSUME NEW n \in Live(t)
      PROVE  PathOf(t, n) \in DOMAIN f /\ f[PathOf(t, n)] = Seen(t[n])
  <2>. DEFINE x == PathOf(t, n)
  <2>1. x \in Places /\ x \in DOMAIN View(t) /\ View(t)[x] = Seen(t[n])
    BY <1>0, LongerPath, ViewDef DEF Shape
  <2>2. CASE x \in W
    <3>1. PICK m \in Live(t) : PathOf(t, m) = x /\ Seen(t[m]) = g[x]
      BY <2>2
    <3>2. m = n BY <1>0, <3>1, PathsDiffer
    <3>. QED BY <1>1, <1>2, <2>2, <3>1, <3>2
  <2>3. CASE x \notin W
    <3>. HIDE DEF v, x
    <3>. QED BY <1>1, <1>2, <1>3, <1>4, <2>1, <2>3 DEF x
  <2>. QED BY <2>2, <2>3
<1>6. ASSUME NEW x \in DOMAIN f PROVE \E n \in Live(t) : x = PathOf(t, n)
  <2>1. CASE x \in W BY <2>1
  <2>2. CASE x \in DOMAIN v /\ x \notin W
    <3>1. x \in DOMAIN View(t) BY <1>4, <2>2
    <3>. QED BY <1>0, <3>1, ViewDef
  <2>3. CASE x \in Parents(T)
    <3>1. x \in Places /\ \E q \in T : IsStrictPrefix(x, q)
      BY <1>3, <2>3
    <3>2. PICK q \in T : IsPrefix(x, q) BY <3>1 DEF IsStrictPrefix
    <3>3. PICK m \in Live(t) : PathOf(t, m) = q OBVIOUS
    <3>. QED BY <1>0, <3>1, <3>2, <3>3, PrefixIsNode
  <2>. QED BY <1>1, <1>2, <2>1, <2>2, <2>3
<1>7. View(t) = f BY <1>0, <1>2, <1>5, <1>6, ViewIs
<1>. QED BY <1>7 DEF f, o, v

(* What a request that was answered "ok" has done to the tree it met, and  *)
(* what one on its way still has to do.                                    *)
Target(b, ask) ==
    IF ask.op = "rename" THEN Front(Source(b, ask)) \o ask.other ELSE Dest(b, ask)
Lands(b, ask) == \A path \in SentPaths(ask) : Lstat(b, path) # Nil => Stat(b, path) # Nil
Sound(b, ask) ==
    /\ ~IsPrefix(Source(b, ask), Dest(b, ask)) /\ ~IsPrefix(Dest(b, ask), Source(b, ask))
    /\ LinkFree(b, Dest(b, ask))
    /\ \A n \in Live(b) : b[n].kind = "link" /\ IsPrefix(Source(b, ask), PathOf(b, n)) =>
            /\ Stat(b, PathOf(b, n)) # Nil
            /\ ~IsPrefix(Dest(b, ask), PathOf(b, Stat(b, PathOf(b, n))))
Filled(places, seen) == [x \in places |-> seen]

Granted(t, b, ask, r) ==
    /\ ask.op = "mkdir" => View(t) = Over(One(Source(b, ask), Directory), View(b))
    /\ ask.op = "create" => View(t) = Over(One(Source(b, ask), File(Empty)), View(b))
    /\ ask.op = "upload" /\ Lands(b, ask) =>
        View(t) = WithParents(Over(Filled(Sent(b, ask), File(r)), View(b)), Sent(b, ask))
    /\ ask.op = "delete" => View(t) = Without(View(b), Source(b, ask))
    /\ ask.op \in {"rename", "move"} =>
        View(t) = RenameOf(View(b), Source(b, ask), Target(b, ask))
    /\ ask.op = "copy" /\ Sound(b, ask) =>
        View(t) = WithParents(Over(Grafted(Followed(b), Source(b, ask), Dest(b, ask)), View(b)),
                              {Dest(b, ask)})
    /\ ask.op = "open" => View(t) = View(b)

(* There is a node at p, and it is seen as said.                           *)
Wrote(t, p, seen) == \E n \in Live(t) : PathOf(t, n) = p /\ Seen(t[n]) = seen
(* An upload has written, or still has to do, every place it is sent to.   *)
Loading(t, b, q, r) ==
    /\ q.at \in {"resolve", "parents", "create file", "write"} =>
        \A p \in Sent(b, q.ask) :
            Wrote(t, p, File(r)) \/ \E i \in 1 .. Len(q.todo) : Place(b, q.todo[i]) = p
    /\ q.at \in {"parents", "create file"} => q.from = Place(b, Head(q.todo))
    /\ q.at = "write" => PathOf(t, q.out) = Place(b, Head(q.todo)) /\ t[q.out].kind = "file"

(* What a copy copies, where to, and what is to be seen there.             *)
Sources(b, ask) == {n \in Live(b) : IsPrefix(Source(b, ask), PathOf(b, n))}
Goal(b, ask, n) == Rebased(PathOf(b, n), Source(b, ask), Dest(b, ask))
Goals(b, ask) == {Goal(b, ask, n) : n \in Sources(b, ask)}
Wanted(b, n) ==
    IF b[n].kind = "link" THEN File(b[Stat(b, PathOf(b, n))].data) ELSE Seen(b[n])
CopyTask(b, ask, n) ==
    [from |-> PathOf(b, n), to |-> Goal(b, ask, n), dir |-> b[n].kind = "dir"]
CopyTasks(b, ask) == {CopyTask(b, ask, n) : n \in Sources(b, ask)}
(* A copy has written, or has a task for, everything at or below its source, *)
(* and nothing but that.                                                   *)
Copies(t, b, q) ==
    /\ q.at \in {"copy", "read directory", "open destination", "copy data"} =>
        /\ Source(b, q.ask) \in Places /\ Dest(b, q.ask) \in Places
        /\ \E n \in Live(b) : PathOf(b, n) = Source(b, q.ask)
        /\ Spread(b, t, Goals(b, q.ask), {Dest(b, q.ask)})
        /\ q.todo \in Seq(CopyTasks(b, q.ask))
        /\ \A n \in Sources(b, q.ask) :
            \/ Wrote(t, Goal(b, q.ask, n), Wanted(b, n))
            \/ \E i \in 1 .. Len(q.todo) : IsPrefix(q.todo[i].from, PathOf(b, n))
    /\ q.at = "read directory" => Head(q.todo).dir /\ Wrote(t, Head(q.todo).to, Directory)
    /\ q.at \in {"open destination", "copy data"} =>
        ~Head(q.todo).dir /\ q.in = Stat(t, Head(q.todo).from)
    /\ q.at = "copy data" =>
        /\ q.out \in Live(t) /\ PathOf(t, q.out) = Head(q.todo).to /\ t[q.out].kind = "file"

(* What a request acts on is what its path names, and no link.             *)
Sourced(b, q) ==
    /\ q.ask.op # "upload" /\ (q.ask.op = "copy" => LinkFree(b, Dest(b, q.ask)))
    /\ q.at \in {"mkdir", "create", "rename", "parents", "resolveOther", "stat"}
    => q.from = Source(b, q.ask) /\ q.from \in Places /\ Straight(b, q.from)
(* The invariant on success.                                               *)
Fulfils(t, b, q, r) ==
    q.at # "idle" /\ b # Nil =>
        /\ q.ok => Granted(t, b, q.ask, r)
        /\ Sourced(b, q)
        /\ q.ask.op = "upload" /\ Lands(b, q.ask) => Loading(t, b, q, r)
        /\ q.ask.op = "copy" /\ Sound(b, q.ask) => Copies(t, b, q)
Fulfilled == \A r \in Requests : Fulfils(tree, before[r], req[r], r)

(* The places of an upload, as the invariant has them.                     *)
LEMMA SentToIs ==
    ASSUME NEW r \in Requests
    PROVE  SentTo(r) = Sent(before[r], req[r].ask)
BY DEF SentTo, Sent, SentPaths, PathSent

(* It is what OkMeansDone asks for in the end.                             *)
LEMMA FulfilledDone ==
    ASSUME Typed, Fulfilled
    PROVE  OkMeansDone
<1>1. SUFFICES ASSUME NEW r \in Requests, Undisturbed(r), req[r].ok, Sensible(r), Apart(r)
               PROVE  View(tree) = Promised(r)
  BY DEF OkMeansDone
<1>. DEFINE b == before[r]
            ask == req[r].ask
<1>2. req[r].at = "done" /\ b # Nil /\ ask \in Inputs
  BY <1>1, Current DEF Undisturbed
<1>3. Granted(tree, b, ask, r) BY <1>1, <1>2 DEF Fulfilled, Fulfils
<1>4. From(r) = Source(b, ask) /\ To(r) = Target(b, ask) /\ Op(r) = ask.op
      /\ (Op(r) = "copy" => To(r) = Dest(b, ask))
  BY DEF From, To, Source, Dest, Target, Op
<1>5. CASE Op(r) = "mkdir"
  BY <1>3, <1>4, <1>5 DEF Granted, Promised, One
<1>6. CASE Op(r) = "create"
  BY <1>3, <1>4, <1>6 DEF Granted, Promised, One
<1>7. CASE Op(r) = "delete" BY <1>3, <1>4, <1>7 DEF Granted, Promised
<1>8. CASE Op(r) \in {"rename", "move"}
  BY <1>3, <1>4, <1>8 DEF Granted, Promised, RenameOf
<1>9. CASE Op(r) = "open" BY <1>3, <1>4, <1>9 DEF Granted, Promised
<1>10. CASE Op(r) = "upload"
  <2>1. Lands(b, ask)
    BY <1>1, <1>10 DEF Apart, Lands, SentPaths, PathSent
  <2>2. View(tree) = WithParents(Over(Filled(Sent(b, ask), File(r)), View(b)), Sent(b, ask))
    BY <1>3, <1>4, <1>10, <2>1 DEF Granted
  <2>3. Promised(r) = WithParents(Over([x \in SentTo(r) |-> File(r)], View(b)), SentTo(r))
    BY <1>10 DEF Promised
  <2>. QED BY <2>2, <2>3, SentToIs DEF Filled
<1>11. CASE Op(r) = "copy"
  <2>1. Sound(b, ask)
    BY <1>1, <1>4, <1>11 DEF Apart, Sensible, Sound, LinkFree
  <2>2. View(tree) = WithParents(Over(Grafted(Followed(b), From(r), To(r)), View(b)), {To(r)})
    BY <1>3, <1>4, <1>11, <2>1 DEF Granted
  <2>3. Promised(r) = WithParents(Over(Grafted(Followed(b), From(r), To(r)), View(b)), {To(r)})
    BY <1>11 DEF Promised
  <2>. QED BY <2>2, <2>3
<1>12. Op(r) \in {"mkdir", "create", "delete", "rename", "move", "copy", "open", "upload"}
  BY <1>2, <1>4, InputsType
<1>. QED BY <1>5, <1>6, <1>7, <1>8, <1>9, <1>10, <1>11, <1>12

-----------------------------------------------------------------------------
(* That every step keeps to it: the operations of one call, renames, moves *)
(* and deletions.                                                          *)

(* One that failed has nothing to show.                                    *)
LEMMA FailsFulfils ==
    ASSUME Typed, NEW r \in Requests, Fails(r)
    PROVE  Fulfils(tree', before[r], req'[r], r)
<1>1. req'[r].at = "done" /\ ~req'[r].ok
  <2>1. /\ req[r].at \notin {"idle", "done"} /\ GoesOn(r, [req[r] EXCEPT !.at = "done"])
    BY DEF Fails
  <2>2. req[r] \in Request /\ ~req[r].ok BY <2>1, Current DEF Holds
  <2>3. req'[r] = [req[r] EXCEPT !.at = "done"] BY <2>1, GoneOn
  <2>. QED BY <2>2, <2>3 DEF Request
<1>. QED BY <1>1 DEF Fulfils, Sourced, Loading, Copies

(* A request still on its way to its first change.                         *)
LEMMA Underway ==
    ASSUME NEW t, NEW b, NEW q, NEW r, ~q.ok, Sourced(b, q), q.ask.op # "upload",
           q.ask.op = "copy" => q.at \notin {"copy", "read directory", "open destination", "copy data"}
    PROVE  Fulfils(t, b, q, r)
BY DEF Fulfils, Copies

(* Resolve gives the place the path names,                                 *)
LEMMA ResolvePathFulfils ==
    ASSUME Typed, NEW r \in Requests, before[r] # Nil, Confines(tree, before[r], req[r]),
           ResolvePath(r)
    PROVE  Fulfils(tree', before[r], req'[r], r)
<1>. DEFINE b == before[r]
            ask == req[r].ask
            from == Resolve(tree, ask.path)
            next == [req[r] EXCEPT !.at = FirstStep[Op(r)], !.from = from]
<1>1. /\ req[r].at = "resolve" /\ ask.op # "upload" /\ from # Nil /\ GoesOn(r, next)
  BY DEF ResolvePath, Op
<1>2. /\ Tree(tree) /\ req[r] \in Request /\ ~req[r].ok /\ ask \in Inputs /\ ask.path \in Places
  BY <1>1, Current, InputsType DEF Holds
<1>3. from = Place(tree, ask.path) /\ from \in Places /\ Straight(tree, from)
  BY <1>1, <1>2, Resolved
<1>. HIDE DEF from
<1>4. ask.op = "copy" => FirstStep[Op(r)] = "resolveOther"
  BY DEF FirstStep, Op
<1>5. tree' = tree /\ req'[r] = next BY <1>1, GoneOn
<1>6. next.at = FirstStep[Op(r)] /\ next.from = from /\ next.ask = ask /\ ~next.ok
  BY <1>2 DEF Request
<1>. HIDE DEF next
<1>7. ASSUME ask.op = "copy" => LinkFree(b, Dest(b, ask))
      PROVE  tree = b
  <2>1. ask.op \in {"mkdir", "create", "delete", "rename", "move", "copy", "open"}
    BY <1>1, <1>2, InputsType
  <2>. HIDE DEF b, ask
  <2>2. Confines(tree, b, req[r]) /\ b # Nil /\ ask = req[r].ask
    BY DEF b, ask
  <2>. QED BY <1>1, <1>2, <1>7, <2>1, <2>2 DEF Confines, Deleting, Moving, Copying
<1>8. Sourced(b, next) BY <1>3, <1>6, <1>7 DEF Sourced, Source
<1>. QED BY <1>1, <1>4, <1>5, <1>6, <1>8, Underway

(* for the other path as well.                                             *)
LEMMA ResolveOtherFulfils ==
    ASSUME Typed, NEW r \in Requests, before[r] # Nil,
           Fulfils(tree, before[r], req[r], r), ResolveDest(r) \/ ResolveWithin(r)
    PROVE  Fulfils(tree', before[r], req'[r], r)
<1>. DEFINE b == before[r]
            ask == req[r].ask
            to == Resolve(tree, ask.other)
            at == IF Op(r) = "open" THEN "open" ELSE IF Op(r) = "move" THEN "parents" ELSE "stat"
            next == [req[r] EXCEPT !.at = at, !.to = to]
<1>1. /\ req[r].at = "resolveOther" /\ ask.op \in {"open", "move", "copy"} /\ GoesOn(r, next)
  BY DEF ResolveDest, ResolveWithin, Op
<1>2. req[r] \in Request /\ ~req[r].ok BY <1>1, Current DEF Holds
<1>3. Sourced(b, req[r]) BY <1>1 DEF Fulfils
<1>. HIDE DEF to
<1>4. tree' = tree /\ req'[r] = next BY <1>1, GoneOn
<1>5. next.at = at /\ next.from = req[r].from /\ next.ask = ask /\ ~next.ok
  BY <1>2 DEF Request
<1>. HIDE DEF next
<1>6. at \in {"open", "parents", "stat"} OBVIOUS
<1>7. Sourced(b, next) BY <1>1, <1>3, <1>5, <1>6 DEF Sourced
<1>. QED BY <1>1, <1>4, <1>5, <1>6, <1>7, Underway

(* A request of one call, and what that call makes of the view.            *)
LEMMA OkFulfils ==
    ASSUME NEW t, NEW b, NEW q, NEW r, q.at = "done", Granted(t, b, q.ask, r)
    PROVE  Fulfils(t, b, q, r)
BY DEF Fulfils, Sourced, Loading, Copies

LEMMA DoneIs ==
    ASSUME Typed, NEW r \in Requests
    PROVE  Done(r).at = "done" /\ Done(r).ok /\ Done(r).ask = req[r].ask
BY Current DEF Done, Request

(* A directory or file is made there and nowhere else.                     *)
LEMMA MakeFulfils ==
    ASSUME Typed, NEW r \in Requests, before[r] # Nil, Confines(tree, before[r], req[r]),
           Fulfils(tree, before[r], req[r], r), MakeDirectory(r) \/ CreateFile(r)
    PROVE  Fulfils(tree', before[r], req'[r], r)
<1>. DEFINE b == before[r]
            ask == req[r].ask
            from == req[r].from
            kind == IF Op(r) = "mkdir" THEN "dir" ELSE "file"
            data == IF Op(r) = "mkdir" THEN Nil ELSE Empty
            t == Add(tree, from, kind, data)
<1>1. /\ req[r].at = ask.op /\ Op(r) = ask.op /\ ask.op \in {"mkdir", "create"}
      /\ Makes(r, t, Done(r))
  BY Current DEF MakeDirectory, CreateFile, Holds, Within, Op, Mkdir, OpenNew
<1>2. /\ Tree(b) /\ ~req[r].ok /\ req[r].at \notin {"idle", "done", "resolve"}
      /\ from \in Places
  BY <1>1, Current DEF Holds, Typed
<1>3. tree = b /\ Sourced(b, req[r])
  BY <1>1, <1>2 DEF Confines, Fulfils
<1>4. from = Source(b, ask) /\ Straight(b, from)
  BY <1>1, <1>3 DEF Sourced
<1>5. t # Nil /\ tree' = t /\ req'[r] = Done(r) BY <1>1, HasMade
<1>6. kind \in {"dir", "file"} /\ data \in Contents BY DEF Contents
<1>7. \E k : Gains(b, t, k, kind, data, from)
  <2>. HIDE DEF kind, data, from, b
  <2>1. t = Add(b, from, kind, data) BY <1>3
  <2>. HIDE DEF t
  <2>. QED BY <1>2, <1>4, <1>5, <1>6, <2>1, AddGains
<1>8. PICK k : Gains(b, t, k, kind, data, from) BY <1>7
<1>9. t[k].kind = kind /\ t[k].data = data /\ t[k].target = <<>>
  BY <1>8 DEF Gains
<1>. HIDE DEF t
<1>10. View(t) = Over(One(from, Seen(t[k])), View(b))
  <2>. DEFINE s == Seen(t[k])
  <2>1. s = Seen(t[k]) OBVIOUS
  <2>. HIDE DEF b, from, kind, data, s
  <2>2. View(t) = Over(One(from, s), View(b))
    BY <1>2, <1>8, <2>1, GainsView
  <2>. QED BY <2>1, <2>2
<1>11. Seen(t[k]) = IF Op(r) = "mkdir" THEN Directory ELSE File(Empty)
  BY <1>9 DEF Seen, Directory, File
<1>12. Granted(t, b, ask, r) BY <1>1, <1>4, <1>10, <1>11 DEF Granted
<1>. QED BY <1>5, <1>12, DoneIs, OkFulfils

(* Reading changes nothing.                                                *)
LEMMA OpenFulfils ==
    ASSUME Typed, NEW r \in Requests, before[r] # Nil, Confines(tree, before[r], req[r]), Open(r)
    PROVE  Fulfils(tree', before[r], req'[r], r)
<1>. DEFINE b == before[r]
            ask == req[r].ask
            in == Stat(tree, req[r].to)
            next == [Done(r) EXCEPT !.in = in]
<1>1. req[r].at = "open" /\ ask.op = "open" /\ GoesOn(r, next)
  BY Current DEF Open, Holds, Within
<1>2. req[r] \in Request /\ ~req[r].ok BY <1>1, Current DEF Holds
<1>3. tree = b BY <1>1, <1>2 DEF Confines
<1>. HIDE DEF in
<1>4. tree' = tree /\ req'[r] = next BY <1>1, GoneOn
<1>5. next.at = "done" /\ next.ask = ask BY <1>2 DEF Request, Done
<1>. HIDE DEF next
<1>6. Granted(tree, b, ask, r) BY <1>1, <1>3 DEF Granted
<1>. QED BY <1>4, <1>5, <1>6, OkFulfils

(* What is renamed is where the new name says, with all below it.          *)
LEMMA RenameFulfils ==
    ASSUME Typed, NEW r \in Requests, before[r] # Nil, Confines(tree, before[r], req[r]),
           Fulfils(tree, before[r], req[r], r), Rename(r)
    PROVE  Fulfils(tree', before[r], req'[r], r)
<1>. DEFINE b == before[r]
            ask == req[r].ask
            from == req[r].from
            to == Front(from) \o ask.other
            t == RenameNode(tree, from, to)
<1>1. req[r].at = "rename" /\ ask.op = "rename" /\ Makes(r, t, Done(r))
  BY DEF Rename, Op
<1>2. /\ Tree(b) /\ ~req[r].ok /\ from \in Places /\ from # <<>> /\ ask \in Inputs
  BY <1>1, Current DEF Holds, Typed
<1>3. tree = b /\ Sourced(b, req[r])
  BY <1>1, <1>2 DEF Confines, Fulfils
<1>4. from = Source(b, ask) /\ Straight(b, from)
  BY <1>1, <1>3 DEF Sourced
<1>5. PICK name \in Words : ask.other = <<name>>
  BY <1>1, <1>2, InputsType DEF Words
<1>. HIDE DEF b, from
<1>6. Front(from) \in Places /\ Straight(b, Front(from))
  BY <1>2, <1>4, FrontStraight
<1>7. to = Longer(Front(from), name)
  BY <1>5, <1>6, AppendIsConcat DEF Places, Longer, Words
<1>8. Target(b, ask) = to BY <1>1, <1>4 DEF Target
<1>. HIDE DEF to
<1>9. t # Nil /\ tree' = t /\ req'[r] = Done(r) BY <1>1, HasMade
<1>10. View(t) = RenameOf(View(b), from, to)
  <2>1. Spread(b, b, {}, {to}) BY <1>2, SpreadStart
  <2>2. t = RenameNode(b, from, to) BY <1>3
  <2>. HIDE DEF t
  <2>. QED BY <1>2, <1>4, <1>6, <1>7, <1>9, <2>1, <2>2, RenameView
<1>. HIDE DEF t
<1>11. Granted(t, b, ask, r) BY <1>1, <1>4, <1>8, <1>10 DEF Granted
<1>. QED BY <1>9, <1>11, DoneIs, OkFulfils DEF b

(* And so is what is moved, once the parents of its new place are made.    *)
LEMMA MoveFulfils ==
    ASSUME Typed, NEW r \in Requests, before[r] # Nil, Confines(tree, before[r], req[r]),
           Fulfils(tree, before[r], req[r], r), MoveMakesParents(r) \/ Move(r)
    PROVE  Fulfils(tree', before[r], req'[r], r)
<1>. DEFINE b == before[r]
            ask == req[r].ask
            from == req[r].from
            to == req[r].to
<1>1. ask.op = "move" /\ req[r].at \in {"parents", "rename"}
  BY DEF MoveMakesParents, Move, Op
<1>2. /\ Tree(b) /\ ~req[r].ok /\ from \in Places /\ from # <<>> /\ req[r] \in Request
      /\ to \in Places /\ (req[r].at = "rename" => to # <<>>)
  BY <1>1, Current DEF Holds, Typed
<1>3. Moving(tree, b, req[r]) /\ Sourced(b, req[r])
  BY <1>1, <1>2 DEF Confines, Fulfils
<1>4. /\ from = Source(b, ask) /\ Straight(b, from)
      /\ to = Dest(b, ask) /\ Straight(tree, to) /\ Spread(b, tree, {}, {to})
  BY <1>1, <1>3 DEF Sourced, Moving
<1>5. CASE MoveMakesParents(r)
  <2>1. MkdirAll(r, Front(to), "rename") BY <1>5 DEF MoveMakesParents
  <2>2. req'[r] = req[r] \/ req'[r] = [req[r] EXCEPT !.at = "rename"]
    BY <2>1, GoneOn, HasMade DEF MkdirAll
  <2>3. req'[r].from = from /\ req'[r].ask = ask /\ ~req'[r].ok
    BY <1>2, <2>2 DEF Request
  <2>4. Sourced(b, req'[r]) BY <1>1, <1>2, <1>4, <2>3 DEF Sourced
  <2>. QED BY <1>1, <2>3, <2>4, Underway
<1>6. CASE Move(r)
  <2>. DEFINE t == RenameNode(tree, from, to)
  <2>1. Makes(r, t, Done(r)) /\ to # <<>> BY <1>2, <1>6 DEF Move
  <2>2. t # Nil /\ tree' = t /\ req'[r] = Done(r) BY <2>1, HasMade
  <2>3. Target(b, ask) = to BY <1>1, <1>4 DEF Target
  <2>. HIDE DEF b, from, to
  <2>4. Front(to) \in Places /\ Last(to) \in Words /\ to = Longer(Front(to), Last(to))
        /\ Straight(tree, Front(to))
    BY <1>2, <1>4, <2>1, FrontStraight DEF Longer, Words
  <2>5. Straight(tree, from)
    BY <1>2, <1>4, SpreadPlainly, StraightGrows DEF Tree
  <2>6. View(t) = RenameOf(View(b), from, to)
    <3>1. t = RenameNode(tree, from, to) OBVIOUS
    <3>. HIDE DEF t
    <3>. QED BY <1>2, <1>4, <2>2, <2>4, <2>5, <3>1, RenameView
  <2>. HIDE DEF t
  <2>7. Granted(t, b, ask, r) BY <1>1, <1>4, <2>3, <2>6 DEF Granted
  <2>. QED BY <2>2, <2>7, DoneIs, OkFulfils DEF b
<1>. QED BY <1>5, <1>6

(* When the node at a place is unlinked nothing is there any more.         *)
LEMMA UnlinkedGone ==
    ASSUME NEW b, NEW t, NEW p \in Places, Tree(b), Shrunk(b, t, p),
           NEW n \in Live(t) \ {Top}, Entries(t, n) = {}, PathOf(t, n) = p
    PROVE  /\ Shrunk(b, Unlink(t, n), p)
           /\ \A m \in Live(Unlink(t, n)) : PathOf(Unlink(t, n), m) # p
<1>. DEFINE u == Unlink(t, n)
<1>1. Shrunk(b, u, p)
  <2>1. IsPrefix(p, p) BY PrefixOrder
  <2>. QED BY <2>1, ShrunkUnlink
<1>2. n \notin Live(u)
  <2>1. t \in [Node -> Nodes] /\ n \in Node
    BY DEF Shrunk, Tree, Structured, Live
  <2>2. t[n] = [t[n] EXCEPT !.in = t[n].in] BY <2>1 DEF Nodes
  <2>3. u[n].in = Nil BY <2>1 DEF Unlink, Nodes
  <2>. QED BY <2>3 DEF Live
<1>. HIDE DEF u
<1>3. n \in Live(b) /\ PathOf(b, n) = p BY ShrunkPath
<1>4. ASSUME NEW m \in Live(u), PathOf(u, m) = p PROVE FALSE
  <2>1. m \in Live(b) /\ PathOf(b, m) = p BY <1>1, <1>4, ShrunkPath
  <2>. QED BY <1>2, <1>3, <1>4, <2>1, PathsDiffer
<1>. QED BY <1>1, <1>4 DEF u

(* What is not found at a place is not there.                              *)
LEMMA NoneThere ==
    ASSUME NEW b, Tree(b), NEW p \in Places, Lstat(b, p) = Nil
    PROVE  \A n \in Live(b) : PathOf(b, n) # p
<1>1. SUFFICES ASSUME NEW n \in Live(b), PathOf(b, n) = p PROVE FALSE
  OBVIOUS
<1>2. Lstat(b, PathOf(b, n)) = n /\ n # Nil
  BY NodeFound, FileSystemAssumption DEF Live
<1>. QED BY <1>1, <1>2

(* A name that is no more in its directory names nothing that is left.     *)
LEMMA EntryGone ==
    ASSUME NEW b, NEW t, NEW p, Tree(b), Shrunk(b, t, p),
           NEW frame \in Frames, frame.dir \in Live(b), FramePath(b, frame) = p,
           Entry(t, frame.dir, frame.name) = Nil
    PROVE  \A n \in Live(t) : PathOf(t, n) # p
<1>. DEFINE d == frame.dir
            x == frame.name
            in(n) == b[n].in
<1>1. d \in Live(b) /\ x \in Words /\ p = Longer(PathOf(b, d), x) /\ PathOf(b, d) \in Places
  BY PathDef DEF Frames, FramePath, Longer, Words
<1>2. Entry(t, d, x) = Nil OBVIOUS
<1>. HIDE DEF d, x
<1>3. SUFFICES ASSUME NEW n \in Live(t), PathOf(t, n) = p PROVE FALSE
  OBVIOUS
<1>4. n \in Live(b) /\ PathOf(b, n) = p /\ t[n] = b[n]
  BY <1>3, ShrunkPath DEF Shrunk
<1>5. n # Top
  <2>1. p # <<>> BY <1>1, FrontOfLonger
  <2>2. PathOf(b, Top) = <<>> BY PathDef
  <2>. QED BY <1>4, <2>1, <2>2
<1>6. in(n) \in Live(b) /\ b[n].name \in Words /\ p = Longer(PathOf(b, in(n)), b[n].name)
      /\ PathOf(b, in(n)) \in Places
  BY <1>4, <1>5, LongerPath
<1>7. PathOf(b, in(n)) = PathOf(b, d) /\ b[n].name = x
  <2>. DEFINE q == PathOf(b, in(n))
              y == b[n].name
              z == PathOf(b, d)
  <2>1. q \in Places /\ z \in Places /\ y \in Words /\ Longer(q, y) = Longer(z, x)
    BY <1>1, <1>6
  <2>. HIDE DEF q, y, z
  <2>2. q = z /\ y = x
    BY <1>1, <2>1, SameAppend DEF Longer, Words, Places
  <2>. QED BY <2>2 DEF q, y, z
<1>8. in(n) = d BY <1>1, <1>6, <1>7, PathsDiffer
<1>9. n \in Node \ {Top} /\ t[n].in = d /\ t[n].name = x
  BY <1>4, <1>5, <1>7, <1>8 DEF Live
<1>. QED BY <1>2, <1>9, EntryType

(* When the node at the path is gone all below it is.                      *)
LEMMA DeleteFulfils ==
    ASSUME Typed, NEW r \in Requests, before[r] # Nil, Confines(tree, before[r], req[r]),
           RemoveOne(r) \/ RemoveOpensParent(r) \/ RemoveReadsDir(r) \/ RemoveNext(r)
    PROVE  Fulfils(tree', before[r], req'[r], r)
<1>. DEFINE b == before[r]
            ask == req[r].ask
            source == Source(b, ask)
            from == req[r].from
            new == req'[r]
<1>1. ask.op = "delete" /\ req[r].at \in {"remove", "open parent", "removing"}
  BY WhoseStep DEF RemoveOne, RemoveOpensParent, RemoveReadsDir, RemoveNext, Op
<1>2. /\ Tree(b) /\ Tree(tree) /\ ~req[r].ok /\ req[r] \in Request /\ Holds(req[r])
  BY <1>1, Current DEF Holds, Typed
<1>3. Deleting(tree, b, req[r]) BY <1>1, <1>2 DEF Confines
<1>4. Shrunk(b, tree, source) BY <1>3 DEF Deleting
<1>5. ASSUME NEW next, new = next, next.at \in {"open parent", "removing"}, next.ask = ask, ~next.ok
      PROVE  Fulfils(tree', b, new, r)
  <2>1. Sourced(b, next) BY <1>5 DEF Sourced
  <2>. HIDE DEF b
  <2>. QED BY <1>1, <1>5, <2>1, Underway
<1>6. ASSUME NEW t, tree' = t, new = Done(r), source \in Places, Shrunk(b, t, source),
             \A n \in Live(t) : PathOf(t, n) # source
      PROVE  Fulfils(tree', b, new, r)
  <2>. HIDE DEF b, source, new, ask
  <2>1. View(t) = Without(View(b), source) BY <1>2, <1>6, ShrunkGone
  <2>2. Granted(t, b, ask, r) BY <1>1, <2>1 DEF Granted, source
  <2>. QED BY <1>6, <2>2, DoneIs, OkFulfils DEF ask
<1>7. ASSUME req[r].at \in {"remove", "open parent"}
      PROVE  tree = b /\ from = source /\ from \in Places /\ from # <<>> /\ Straight(b, from)
  <2>1. from \in Places /\ from # <<>>
    BY <1>1, <1>2, <1>7 DEF Holds, Within, Op
  <2>. QED BY <1>2, <1>3, <1>7, <2>1 DEF Deleting
<1>8. ASSUME NEW n \in Live(tree) \ {Top}, Entries(tree, n) = {}, PathOf(tree, n) = source,
             source \in Places, Makes(r, Unlink(tree, n), Done(r))
      PROVE  Fulfils(tree', b, new, r)
  <2>1. tree' = Unlink(tree, n) /\ new = Done(r) BY <1>8, HasMade
  <2>. HIDE DEF b, source, new
  <2>2. /\ Shrunk(b, Unlink(tree, n), source)
        /\ \A m \in Live(Unlink(tree, n)) : PathOf(Unlink(tree, n), m) # source
    BY <1>2, <1>4, <1>8, UnlinkedGone
  <2>. QED BY <1>6, <1>8, <2>1, <2>2
<1>9. CASE RemoveOne(r)
  <2>. DEFINE n == Lstat(tree, from)
              next == [req[r] EXCEPT !.at = "open parent"]
  <2>1. /\ req[r].at = "remove"
        /\ \/ n = Nil /\ GoesOn(r, Done(r))
           \/ n # Nil /\ Entries(tree, n) = {} /\ Makes(r, Unlink(tree, n), Done(r))
           \/ GoesOn(r, next)
    BY <1>9 DEF RemoveOne
  <2>2. tree = b /\ from = source /\ from \in Places /\ from # <<>> /\ Straight(b, from)
    BY <1>7, <2>1
  <2>3. CASE n = Nil /\ GoesOn(r, Done(r))
    <3>1. tree' = tree /\ new = Done(r) BY <2>3, GoneOn
    <3>2. \A m \in Live(tree) : PathOf(tree, m) # source
      BY <1>2, <2>2, <2>3, NoneThere
    <3>. QED BY <1>4, <1>6, <2>2, <3>1, <3>2
  <2>4. CASE n # Nil /\ Entries(tree, n) = {} /\ Makes(r, Unlink(tree, n), Done(r))
    <3>1. n \in Live(tree) /\ PathOf(tree, n) = source
      BY <1>2, <2>2, <2>4, StraightDef
    <3>2. n # Top
      <4>1. PathOf(tree, Top) = <<>> BY <1>2, PathDef
      <4>. QED BY <2>2, <3>1, <4>1
    <3>. HIDE DEF n
    <3>. QED BY <1>8, <2>2, <2>4, <3>1, <3>2
  <2>5. CASE GoesOn(r, next)
    <3>1. new = next BY <2>5, GoneOn
    <3>2. next.at = "open parent" /\ next.ask = ask /\ ~next.ok
      BY <1>2 DEF Request
    <3>. QED BY <1>5, <3>1, <3>2
  <2>. QED BY <2>1, <2>3, <2>4, <2>5
<1>10. CASE RemoveOpensParent(r)
  <2>. DEFINE dir == Stat(tree, Front(from))
              next == [req[r] EXCEPT !.at = "removing", !.todo = <<Doomed(dir, Last(from))>>]
  <2>1. /\ req[r].at = "open parent"
        /\ (dir = Nil /\ GoesOn(r, Done(r))) \/ GoesOn(r, next)
    BY <1>10 DEF RemoveOpensParent
  <2>2. tree = b /\ from = source /\ from \in Places /\ from # <<>> /\ Straight(b, from)
    BY <1>7, <2>1
  <2>3. CASE dir = Nil /\ GoesOn(r, Done(r))
    <3>1. tree' = tree /\ new = Done(r) BY <2>3, GoneOn
    <3>2. Lstat(tree, source) = Nil
      BY <1>2, <2>2, <2>3, LstatLast DEF Tree
    <3>3. \A m \in Live(tree) : PathOf(tree, m) # source
      BY <1>2, <2>2, <3>2, NoneThere
    <3>. QED BY <1>4, <1>6, <2>2, <3>1, <3>3
  <2>4. CASE GoesOn(r, next)
    <3>1. new = next BY <2>4, GoneOn
    <3>2. next.at = "removing" /\ next.ask = ask /\ ~next.ok
      BY <1>2 DEF Request
    <3>. HIDE DEF next
    <3>. QED BY <1>5, <3>1, <3>2
  <2>. QED BY <2>1, <2>3, <2>4
<1>11. CASE RemoveReadsDir(r)
  <2>. DEFINE todo == req[r].todo
              stack(entries) == Append(Front(todo), [Last(todo) EXCEPT !.read = TRUE]) \o entries
              next(entries) == [req[r] EXCEPT !.todo = stack(entries)]
  <2>1. PICK entries : req[r].at = "removing" /\ GoesOn(r, next(entries))
    BY <1>11 DEF RemoveReadsDir
  <2>2. new = next(entries) BY <2>1, GoneOn
  <2>. HIDE DEF stack
  <2>3. next(entries).at = "removing" /\ next(entries).ask = ask /\ ~next(entries).ok
    BY <1>2, <2>1 DEF Request
  <2>. HIDE DEF next
  <2>. QED BY <1>5, <2>2, <2>3
<1>12. CASE RemoveNext(r)
  <2>. DEFINE n == Entered(r)
              todo == req[r].todo
              rest == Front(todo)
              next == [req[r] EXCEPT !.todo = rest]
              frame == Last(todo)
  <2>1. /\ req[r].at = "removing"
        /\ \/ n = Nil /\ GoesOn(r, RemoveRest(r))
           \/ n # Nil /\ Entries(tree, n) = {} /\ Makes(r, Unlink(tree, n), RemoveRest(r))
           \/ rest # <<>> /\ GoesOn(r, RemoveRest(r))
    BY <1>12 DEF RemoveNext
  <2>2. /\ source \in Places /\ todo \in Seq(FramesBelow(b, source)) /\ todo # <<>>
        /\ FramePath(b, todo[1]) = source
    BY <1>3, <2>1 DEF Deleting
  <2>3. CASE rest # <<>>
    <3>1. new = next BY <2>1, <2>3, GoneOn, HasMade DEF RemoveRest
    <3>2. next.at = "removing" /\ next.ask = ask /\ ~next.ok
      BY <1>2, <2>1 DEF Request
    <3>. HIDE DEF next
    <3>. QED BY <1>5, <3>1, <3>2
  <2>4. CASE rest = <<>>
    <3>1. RemoveRest(r) = Done(r) BY <2>4 DEF RemoveRest
    <3>2. frame \in FramesBelow(b, source) /\ FramePath(b, frame) = source
      <4>. HIDE DEF todo, b, source
      <4>. QED BY <2>2, <2>4, Popped
    <3>3. CASE n = Nil /\ GoesOn(r, Done(r))
      <4>1. tree' = tree /\ new = Done(r) BY <3>3, GoneOn
      <4>2. Entry(tree, frame.dir, frame.name) = Nil
        BY <3>3 DEF Entered
      <4>. HIDE DEF b, source, frame
      <4>3. \A m \in Live(tree) : PathOf(tree, m) # source
        BY <1>2, <1>4, <3>2, <4>2, EntryGone DEF FramesBelow
      <4>. QED BY <1>4, <1>6, <2>2, <4>1, <4>3 DEF b, source
    <3>4. CASE n # Nil /\ Entries(tree, n) = {} /\ Makes(r, Unlink(tree, n), Done(r))
      <4>1. /\ n \in Live(tree) \ {Top} /\ PathOf(tree, n) = PathOf(b, n)
            /\ PathOf(b, n) = FramePath(b, frame)
        BY <1>3, <2>1, <3>4, EnteredBelow
      <4>. HIDE DEF n
      <4>. QED BY <1>8, <2>2, <3>2, <3>4, <4>1
    <3>. QED BY <2>1, <2>4, <3>1, <3>3, <3>4
  <2>. QED BY <2>3, <2>4
<1>. QED BY <1>9, <1>10, <1>11, <1>12

-----------------------------------------------------------------------------
(* That uploads keep to it.                                                *)

(* What is in a list is at its head or in its tail.                        *)
LEMMA InTail ==
    ASSUME NEW S, NEW s \in Seq(S), s # <<>>, NEW i \in 1 .. Len(s)
    PROVE  s[i] = Head(s) \/ \E j \in 1 .. Len(Tail(s)) : Tail(s)[j] = s[i]
<1>1. /\ Head(s) = s[1] /\ Len(Tail(s)) = Len(s) - 1 /\ Len(s) \in Nat
      /\ \A j \in 1 .. Len(Tail(s)) : Tail(s)[j] = s[j + 1]
  BY HeadTailProperties, LenProperties
<1>. DEFINE k == Len(Tail(s))
<1>. HIDE DEF k
<1>2. i = 1 \/ (i - 1 \in 1 .. k /\ (i - 1) + 1 = i) BY <1>1 DEF k
<1>. QED BY <1>1, <1>2 DEF k

LEMMA HeadIn ==
    ASSUME NEW S, NEW s \in Seq(S), s # <<>>
    PROVE  Head(s) \in S /\ Tail(s) \in Seq(S) /\ 1 \in 1 .. Len(s) /\ s[1] = Head(s)
<1>1. Len(s) \in Nat /\ Len(s) # 0 BY LenProperties, EmptySeq
<1>. QED BY <1>1, HeadTailProperties

(* What is written stays, until something else is written there.           *)
LEMMA WroteKept ==
    ASSUME NEW t, NEW u, Tree(t), Tree(u), Grows(t, u), NEW p, NEW seen, Wrote(t, p, seen),
           \A n \in Live(t) : PathOf(t, n) = p => u[n].data = t[n].data
    PROVE  Wrote(u, p, seen)
<1>1. PICK n \in Live(t) : PathOf(t, n) = p /\ Seen(t[n]) = seen
  BY DEF Wrote
<1>2. n \in Live(u) /\ PathOf(u, n) = p BY <1>1, PathGrows
<1>3. Seen(u[n]) = Seen(t[n]) BY <1>1 DEF Grows, Seen
<1>. QED BY <1>1, <1>2, <1>3 DEF Wrote

(* A file is open at its place, and all others are as they were.           *)
LEMMA OpenKeeps ==
    ASSUME NEW t, Tree(t), NEW path \in Places, Straight(t, path),
           NEW u, u = OpenTruncated(t, path), u # Nil
    PROVE  /\ Tree(u) /\ Grows(t, u)
           /\ Stat(u, path) \in Live(u) /\ PathOf(u, Stat(u, path)) = path
           /\ u[Stat(u, path)].kind = "file"
           /\ \A m \in Live(t) : PathOf(t, m) # path => u[m] = t[m]
<1>1. CASE \E k : Gains(t, u, k, "file", Empty, path)
  <2>1. PICK k : Gains(t, u, k, "file", Empty, path) BY <1>1
  <2>. QED BY <2>1 DEF Gains
<1>2. CASE /\ Stat(t, path) \in Live(t) /\ t[Stat(t, path)].kind = "file"
           /\ PathOf(t, Stat(t, path)) = path
           /\ u = Holding(t, Stat(t, path), Empty)
  <2>. DEFINE n == Stat(t, path)
  <2>1. /\ n \in Live(t) /\ PathOf(t, n) = path /\ u = Holding(t, n, Empty) /\ n # Nil
        /\ t[n].kind = "file"
    BY <1>2, FileSystemAssumption DEF Live
  <2>. HIDE DEF n
  <2>2. Tree(u) /\ Grows(t, u) BY <2>1, DataTree DEF Contents
  <2>3. Stat(u, path) = n BY <2>1, <2>2, FoundStaysFound DEF n, Tree
  <2>4. /\ Live(u) = Live(t)
        /\ \A m \in Live(t) : u[m].kind = t[m].kind /\ (m # n => u[m] = t[m])
    BY <2>1, HoldingNode
  <2>5. PathOf(u, n) = path BY <2>1, <2>2, PathGrows
  <2>. QED BY <2>1, <2>2, <2>3, <2>4, <2>5
<1>. QED BY <1>1, <1>2, OpenGains

(* Where a sent file is put when nothing that was there stands in its way. *)
LEMMA ResolveSent ==
    ASSUME NEW b, NEW t, Tree(b), Tree(t), GrowsPlainly(b, t),
           NEW p \in Places, NEW x \in Words, NEW path, path = Longer(p, x),
           t = b \/ \E i : Splits(b, p, i),
           Lstat(b, path) # Nil => Stat(b, path) # Nil, Resolve(t, path) # Nil
    PROVE  Resolve(t, path) = Place(b, path)
<1>1. path \in Places BY LongerDef
<1>2. CASE t = b BY <1>1, <1>2, PlaceIsResolve
<1>3. CASE Stat(b, path) # Nil
  <2>1. Splits(b, path, Len(path))
    <3>1. Len(path) \in Nat /\ Part(path, Len(path)) = path
      BY <1>1, PartType
    <3>. QED BY <1>3, <3>1 DEF Splits
  <2>. QED BY <1>1, <2>1, ResolveGrown
<1>4. CASE Stat(b, path) = Nil /\ \E i : Splits(b, p, i)
  <2>1. PICK i : Splits(b, p, i) BY <1>4
  <2>2. /\ Len(path) = Len(p) + 1 /\ Len(p) \in Nat
        /\ \A j \in 0 .. Len(p) : Part(path, j) = Part(p, j)
        /\ Part(path, Len(p) + 1) = path
    <3>1. x \in STRING /\ path = Append(p, x) BY DEF Longer, Words
    <3>2. Len(p) \in Nat BY PartType
    <3>. QED BY <3>1, <3>2, PartAppend
  <2>3. i \in 0 .. Len(p) /\ Stat(b, Part(p, i)) # Nil
    BY <2>1 DEF Splits
  <2>4. i \in 0 .. Len(path) /\ Stat(b, Part(path, i)) # Nil
    BY <2>2, <2>3
  <2>5. ASSUME NEW j \in i + 1 .. Len(path)
        PROVE  Stat(b, Part(path, j)) = Nil /\ Lstat(b, Part(path, j)) = Nil
    <3>1. CASE j = Len(p) + 1 BY <1>4, <2>2, <3>1
    <3>2. CASE j # Len(p) + 1
      <4>1. j \in 0 .. Len(p) /\ j \in i + 1 .. Len(p)
        BY <2>2, <2>3, <3>2
      <4>. QED BY <2>1, <2>2, <4>1 DEF Splits
    <3>. QED BY <3>1, <3>2
  <2>6. Splits(b, path, i) BY <2>4, <2>5 DEF Splits
  <2>. QED BY <1>1, <2>6, ResolveGrown
<1>. QED BY <1>2, <1>3, <1>4

(* What is known of the upload of a request.                               *)
LEMMA LoadFacts ==
    ASSUME Typed, NEW r \in Requests, before[r] # Nil, Uploading(tree, before[r], req[r]),
           req[r].at \in {"resolve", "parents", "create file", "write"}, req[r].ask.op = "upload",
           Lands(before[r], req[r].ask)
    PROVE  LET b == before[r]
               ask == req[r].ask
               todo == req[r].todo
           IN  /\ Tree(b) /\ Tree(tree) /\ req[r] \in Request /\ ask \in Inputs
               /\ todo \in Seq(SentPaths(ask)) /\ todo # <<>>
               /\ Head(todo) \in SentPaths(ask)
               /\ GrowsPlainly(b, tree) /\ Spread(b, tree, Sent(b, ask), Sent(b, ask))
               /\ ask.path \in Places
               /\ \E x \in Words : Head(todo) = Longer(ask.path, x)
               /\ Lstat(b, Head(todo)) # Nil => Stat(b, Head(todo)) # Nil
<1>. DEFINE b == before[r]
            ask == req[r].ask
            todo == req[r].todo
            S == SentPaths(ask)
<1>1. /\ Tree(b) /\ Tree(tree) /\ req[r] \in Request /\ ask \in Inputs
      /\ todo \in Seq(S) /\ todo # <<>> /\ ask.path \in Places
      /\ Spread(b, tree, Sent(b, ask), Sent(b, ask))
  BY Current, InputsType DEF Typed, Uploading, Holds
<1>2. Head(todo) \in S
  <2>. HIDE DEF S
  <2>. QED BY <1>1, HeadIn
<1>3. \E x \in Words : Head(todo) = Longer(ask.path, x)
  <2>. HIDE DEF todo, ask
  <2>. QED BY <1>1, <1>2, SentPath DEF Words, Longer, ask
<1>4. GrowsPlainly(b, tree) BY <1>1, SpreadPlainly
<1>5. Lstat(b, Head(todo)) # Nil => Stat(b, Head(todo)) # Nil
  BY <1>2 DEF Lands
<1>. QED BY <1>1, <1>2, <1>3, <1>4, <1>5

(* The next file is resolved, to the place it would have had at first,     *)
LEMMA ResolveUploadLoads ==
    ASSUME Typed, NEW r \in Requests, before[r] # Nil, Uploading(tree, before[r], req[r]),
           Loading(tree, before[r], req[r], r), Lands(before[r], req[r].ask), ResolveUpload(r)
    PROVE  Loading(tree', before[r], req'[r], r)
<1>. DEFINE b == before[r]
            ask == req[r].ask
            path == Head(req[r].todo)
            from == Resolve(tree, path)
            next == [req[r] EXCEPT !.at = "parents", !.from = from]
<1>1. req[r].at = "resolve" /\ ask.op = "upload" /\ from # Nil /\ GoesOn(r, next)
  BY DEF ResolveUpload, Op
<1>2. /\ Tree(b) /\ Tree(tree) /\ req[r] \in Request /\ GrowsPlainly(b, tree)
      /\ ask.path \in Places /\ \E x \in Words : path = Longer(ask.path, x)
      /\ Lstat(b, path) # Nil => Stat(b, path) # Nil
  BY <1>1, LoadFacts
<1>3. tree = b \/ \E i : Splits(b, ask.path, i) BY <1>1 DEF Uploading
<1>. HIDE DEF b, path
<1>4. from = Place(b, path) BY <1>1, <1>2, <1>3, ResolveSent
<1>. HIDE DEF from
<1>5. tree' = tree /\ req'[r] = next BY <1>1, GoneOn
<1>6. next.at = "parents" /\ next.from = from /\ next.todo = req[r].todo /\ next.ask = ask
  BY <1>2 DEF Request
<1>. HIDE DEF next
<1>7. Loading(tree, b, next, r)
  BY <1>1, <1>4, <1>6 DEF Loading, b, path
<1>. QED BY <1>5, <1>7 DEF b

(* its parents are made,                                                   *)
LEMMA UploadMakesParentsLoads ==
    ASSUME Typed, NEW r \in Requests, before[r] # Nil, Uploading(tree, before[r], req[r]),
           Loading(tree, before[r], req[r], r), Lands(before[r], req[r].ask),
           UploadMakesParents(r)
    PROVE  Loading(tree', before[r], req'[r], r) /\ ~req'[r].ok
<1>. DEFINE b == before[r]
            ask == req[r].ask
            from == req[r].from
            new == req'[r]
<1>1. /\ req[r].at = "parents" /\ ask.op = "upload" /\ from # <<>>
      /\ MkdirAll(r, Front(from), "create file")
  BY DEF UploadMakesParents, Op
<1>2. /\ Tree(b) /\ Tree(tree) /\ req[r] \in Request
      /\ Spread(b, tree, Sent(b, ask), Sent(b, ask))
  BY <1>1, LoadFacts
<1>3. Straight(tree, from) /\ from \in Places /\ ~req[r].ok
      /\ (from \in Sent(b, ask) \/ IsDir(tree, from))
  BY <1>1, Current DEF Uploading, Holds
<1>4. /\ Front(from) \in Places /\ Last(from) \in STRING /\ from = Append(Front(from), Last(from))
      /\ Straight(tree, Front(from))
  BY <1>1, <1>3, FrontStraight
<1>5. Allowed(tree, Front(from), {}, {from})
  BY <1>4, FrontBefore DEF Allowed
<1>6. /\ Tree(tree') /\ GrowsPlainly(tree, tree')
      /\ new \in {req[r], [req[r] EXCEPT !.at = "create file"]}
      /\ \A n \in Live(tree) : tree'[n] = tree[n]
  BY <1>1, <1>2, <1>4, <1>5, SpreadStart, MkdirAllSpreads
<1>7. /\ new.at \in {"parents", "create file"} /\ new.from = from
      /\ new.todo = req[r].todo /\ new.ask = ask /\ ~new.ok
  BY <1>1, <1>2, <1>3, <1>6 DEF Request
<1>8. ASSUME NEW p, Wrote(tree, p, File(r)) PROVE Wrote(tree', p, File(r))
  <2>1. Grows(tree, tree') /\ \A n \in Live(tree) : tree'[n].data = tree[n].data
    BY <1>6 DEF GrowsPlainly
  <2>. QED BY <1>2, <1>6, <1>8, <2>1, WroteKept
<1>. HIDE DEF b, from, new
<1>9. Loading(tree', b, new, r)
  BY <1>1, <1>7, <1>8 DEF Loading, b, from
<1>. QED BY <1>7, <1>9 DEF b, new

(* it is opened or made there, and what others hold is kept.               *)
LEMMA UploadOpensLoads ==
    ASSUME Typed, NEW r \in Requests, before[r] # Nil, Uploading(tree, before[r], req[r]),
           Loading(tree, before[r], req[r], r), Lands(before[r], req[r].ask), UploadOpens(r)
    PROVE  Loading(tree', before[r], req'[r], r) /\ ~req'[r].ok
<1>. DEFINE b == before[r]
            ask == req[r].ask
            from == req[r].from
            t == OpenTruncated(tree, from)
            out == Stat(t, from)
            next == [req[r] EXCEPT !.at = "write", !.out = out]
<1>1. req[r].at = "create file" /\ ask.op = "upload" /\ t # Nil /\ Makes(r, t, next)
  BY WhoseStep DEF UploadOpens, Op
<1>2. /\ Tree(b) /\ Tree(tree) /\ req[r] \in Request /\ req[r].todo \in Seq(SentPaths(ask))
      /\ req[r].todo # <<>>
  BY <1>1, LoadFacts
<1>3. Straight(tree, from) /\ from \in Places /\ ~req[r].ok
  BY <1>1, Current DEF Uploading, Holds
<1>4. from = Place(b, Head(req[r].todo)) BY <1>1 DEF Loading
<1>5. /\ Tree(t) /\ Grows(tree, t) /\ PathOf(t, out) = from /\ t[out].kind = "file"
      /\ \A m \in Live(tree) : PathOf(tree, m) # from => t[m] = tree[m]
  <2>. DEFINE u == t
  <2>1. u = OpenTruncated(tree, from) /\ u # Nil BY <1>1
  <2>. HIDE DEF u, from
  <2>2. /\ Tree(u) /\ Grows(tree, u) /\ PathOf(u, Stat(u, from)) = from
        /\ u[Stat(u, from)].kind = "file"
        /\ \A m \in Live(tree) : PathOf(tree, m) # from => u[m] = tree[m]
    BY <1>2, <1>3, <2>1, OpenKeeps
  <2>. QED BY <2>2 DEF u
<1>. HIDE DEF t, out
<1>6. tree' = t /\ req'[r] = next BY <1>1, HasMade
<1>7. /\ next.at = "write" /\ next.out = out /\ next.todo = req[r].todo /\ next.ask = ask
      /\ ~next.ok
  BY <1>2, <1>3 DEF Request
<1>. HIDE DEF next
<1>8. ASSUME NEW p, Wrote(tree, p, File(r)), p # from PROVE Wrote(t, p, File(r))
  BY <1>2, <1>5, <1>8, WroteKept
<1>9. 1 \in 1 .. Len(req[r].todo) /\ req[r].todo[1] = Head(req[r].todo)
  BY <1>2, HeadIn
<1>. HIDE DEF b, from
<1>10. ASSUME NEW p \in Sent(b, ask)
       PROVE  Wrote(t, p, File(r)) \/ \E i \in 1 .. Len(next.todo) : Place(b, next.todo[i]) = p
  <2>1. Wrote(tree, p, File(r)) \/ \E i \in 1 .. Len(next.todo) : Place(b, next.todo[i]) = p
    BY <1>1, <1>7 DEF Loading, b
  <2>2. CASE p = from BY <1>4, <1>7, <1>9, <2>2
  <2>3. CASE p # from BY <1>8, <2>1, <2>3
  <2>. QED BY <2>2, <2>3
<1>11. Loading(t, b, next, r) BY <1>4, <1>5, <1>7, <1>10 DEF Loading
<1>. QED BY <1>6, <1>7, <1>11 DEF b

(* A file and its data.                                                    *)
LEMMA HoldingWrote ==
    ASSUME NEW t, Tree(t), NEW n \in Live(t), t[n].kind = "file", NEW x \in Contents,
           NEW u, u = Holding(t, n, x)
    PROVE  /\ Tree(u) /\ Grows(t, u) /\ Wrote(u, PathOf(t, n), File(x))
           /\ \A m \in Live(t) : m # n => u[m] = t[m]
<1>1. Tree(u) /\ Grows(t, u) BY DataTree
<1>2. Live(u) = Live(t) /\ u[n].kind = "file" /\ \A m \in Live(t) : m # n => u[m] = t[m]
  BY HoldingNode
<1>3. u[n].data = x
  <2>1. t \in [Node -> Nodes] /\ n \in Node /\ t[n] \in Nodes
    BY DEF Tree, Structured, Live
  <2>. QED BY <2>1 DEF Holding, Nodes
<1>4. PathOf(u, n) = PathOf(t, n) BY <1>1, PathGrows
<1>5. Seen(u[n]) = File(x) BY <1>2, <1>3 DEF Seen, File
<1>. QED BY <1>1, <1>2, <1>4, <1>5 DEF Wrote

(* With its data written it is off the list; with the last, all is done.   *)
LEMMA UploadWritesFulfils ==
    ASSUME Typed, NEW r \in Requests, before[r] # Nil, Uploading(tree, before[r], req[r]),
           Loading(tree, before[r], req[r], r), Lands(before[r], req[r].ask), UploadWrites(r)
    PROVE  \/ req'[r].at = "done" /\ Granted(tree', before[r], req'[r].ask, r)
           \/ ~req'[r].ok /\ Loading(tree', before[r], req'[r], r)
<1>. DEFINE b == before[r]
            ask == req[r].ask
            todo == req[r].todo
            rest == Tail(todo)
            out == req[r].out
            place == Place(b, Head(todo))
            sent == Sent(b, ask)
            t == Holding(tree, out, r)
            next == [req[r] EXCEPT !.at = "resolve", !.todo = rest]
<1>1. req[r].at = "write" /\ Makes(r, t, IF rest = <<>> THEN Done(r) ELSE next)
  BY DEF UploadWrites, Holding
<1>2. ask.op = "upload" BY WhoseStep DEF Op
<1>3. /\ Tree(b) /\ Tree(tree) /\ req[r] \in Request /\ ~req[r].ok
      /\ todo \in Seq(SentPaths(ask)) /\ todo # <<>> /\ Spread(b, tree, sent, sent)
  BY <1>1, <1>2, LoadFacts, Current DEF Holds
<1>4. /\ out \in Live(tree) /\ PathOf(tree, out) = place /\ tree[out].kind = "file"
      /\ r \in Contents /\ PathOf(tree, out) \in sent
  BY <1>1 DEF Loading, Uploading, Contents
<1>5. \A p \in sent : Wrote(tree, p, File(r)) \/ \E i \in 1 .. Len(todo) : Place(b, todo[i]) = p
  BY <1>1 DEF Loading
<1>6. \A i \in 1 .. Len(todo) :
        todo[i] = Head(todo) \/ \E j \in 1 .. Len(rest) : rest[j] = todo[i]
  <2>. DEFINE S == SentPaths(ask)
  <2>1. todo \in Seq(S) /\ todo # <<>> BY <1>3
  <2>. HIDE DEF S, todo
  <2>. QED BY <2>1, InTail
<1>7. tree' = t /\ req'[r] = IF rest = <<>> THEN Done(r) ELSE next
  <2>. DEFINE new == IF rest = <<>> THEN Done(r) ELSE next
  <2>1. Makes(r, t, new) BY <1>1
  <2>. HIDE DEF new, t
  <2>2. tree' = t /\ req'[r] = new BY <2>1, HasMade
  <2>. QED BY <2>2 DEF new
<1>8. next.at = "resolve" /\ next.todo = rest /\ next.ask = ask /\ ~next.ok
  BY <1>3 DEF Request
<1>9. /\ Tree(t) /\ Grows(tree, t) /\ Wrote(t, place, File(r))
      /\ \A m \in Live(tree) : m # out => t[m] = tree[m]
  <2>. DEFINE u == t
  <2>1. u = Holding(tree, out, r) OBVIOUS
  <2>. HIDE DEF u, place, out
  <2>2. /\ Tree(u) /\ Grows(tree, u) /\ Wrote(u, PathOf(tree, out), File(r))
        /\ \A m \in Live(tree) : m # out => u[m] = tree[m]
    BY <1>3, <1>4, <2>1, HoldingWrote
  <2>. QED BY <1>4, <2>2 DEF u
<1>10. Spread(b, t, sent, sent)
  <2>. HIDE DEF b, sent, out
  <2>. QED BY <1>3, <1>4, SpreadHolding
<1>. HIDE DEF t, next, b, rest, todo, place, sent, out
<1>11. ASSUME NEW p \in sent
       PROVE  Wrote(t, p, File(r)) \/ \E j \in 1 .. Len(rest) : Place(b, rest[j]) = p
  <2>1. CASE p = place BY <1>9, <2>1
  <2>2. CASE p # place
    <3>1. Wrote(tree, p, File(r)) => Wrote(t, p, File(r))
      BY <1>3, <1>4, <1>9, <2>2, WroteKept
    <3>. QED BY <1>5, <1>6, <2>2, <3>1 DEF place
  <2>. QED BY <2>1, <2>2
<1>12. CASE rest # <<>>
  <2>1. req'[r] = next BY <1>7, <1>12
  <2>2. Loading(t, b, next, r) BY <1>8, <1>11 DEF Loading, sent
  <2>. QED BY <1>7, <1>8, <2>1, <2>2 DEF b
<1>13. CASE rest = <<>>
  <2>1. req'[r] = Done(r) BY <1>7, <1>13
  <2>2. \A p \in sent : Wrote(t, p, File(r))
    <3>1. Len(rest) = 0 BY <1>13, EmptySeq
    <3>2. \A j \in 1 .. Len(rest) : FALSE BY <3>1
    <3>. QED BY <1>11, <3>2
  <2>. DEFINE g == Filled(sent, File(r))
  <2>3. DOMAIN g = sent /\ \A x \in sent : g[x] = File(r)
    BY DEF Filled
  <2>4. sent \in SUBSET Places BY <1>9, <2>2, LongerPath DEF Wrote
  <2>. HIDE DEF g
  <2>5. View(t) = WithParents(Over(g, View(b)), sent)
    BY <1>3, <1>10, <2>2, <2>3, <2>4, SpreadDone DEF Wrote
  <2>6. Granted(t, b, ask, r) BY <1>2, <2>5 DEF Granted, g, sent
  <2>. QED BY <1>7, <2>1, <2>6, DoneIs DEF b
<1>. QED BY <1>12, <1>13

(* So an upload does what it says.                                         *)
LEMMA UploadFulfils ==
    ASSUME Typed, NEW r \in Requests, before[r] # Nil, Confines(tree, before[r], req[r]),
           Fulfils(tree, before[r], req[r], r), Op(r) = "upload",
           ResolveUpload(r) \/ UploadMakesParents(r) \/ UploadOpens(r) \/ UploadWrites(r)
    PROVE  Fulfils(tree', before[r], req'[r], r)
<1>. DEFINE b == before[r]
            ask == req[r].ask
            new == req'[r]
<1>1. /\ req[r].at \notin {"idle", "done"} /\ ~req[r].ok /\ new.ask = ask /\ ask.op = "upload"
  BY ResolveUploadAdvances, UploadMakesParentsAdvances, UploadOpensAdvances,
     UploadWritesAdvances, Advanced DEF Op
<1>2. Uploading(tree, b, req[r]) BY <1>1 DEF Confines
<1>3. Lands(b, ask) => Loading(tree, b, req[r], r) BY <1>1 DEF Fulfils
<1>4. Sourced(b, new) BY <1>1 DEF Sourced
<1>5. ASSUME ~Lands(b, ask) PROVE Fulfils(tree', b, new, r)
  <2>. HIDE DEF b, new, ask
  <2>1. Granted(tree', b, new.ask, r) BY <1>1, <1>5 DEF Granted
  <2>. QED BY <1>1, <1>4, <1>5, <2>1 DEF Fulfils
<1>6. ASSUME ~new.ok, Loading(tree', b, new, r) PROVE Fulfils(tree', b, new, r)
  <2>. HIDE DEF b, new, ask
  <2>. QED BY <1>1, <1>4, <1>6 DEF Fulfils
<1>7. ASSUME new.at = "done", Granted(tree', b, new.ask, r) PROVE Fulfils(tree', b, new, r)
  <2>. HIDE DEF b, new, ask
  <2>. QED BY <1>7, OkFulfils
<1>8. ASSUME Lands(b, ask) PROVE Fulfils(tree', b, new, r)
  <2>1. Loading(tree, b, req[r], r) BY <1>3, <1>8
  <2>2. CASE ResolveUpload(r)
    <3>1. ~new.ok
      <4>1. new = [req[r] EXCEPT !.at = "parents", !.from = Resolve(tree, Head(req[r].todo))]
        BY <2>2, GoneOn DEF ResolveUpload
      <4>2. req[r] \in Request BY Current
      <4>. QED BY <1>1, <4>1, <4>2 DEF Request
    <3>. QED BY <1>2, <1>6, <1>8, <2>1, <2>2, <3>1, ResolveUploadLoads
  <2>3. CASE UploadMakesParents(r)
    BY <1>2, <1>6, <1>8, <2>1, <2>3, UploadMakesParentsLoads
  <2>4. CASE UploadOpens(r)
    BY <1>2, <1>6, <1>8, <2>1, <2>4, UploadOpensLoads
  <2>5. CASE UploadWrites(r)
    BY <1>2, <1>6, <1>7, <1>8, <2>1, <2>5, UploadWritesFulfils
  <2>. QED BY <2>2, <2>3, <2>4, <2>5
<1>. QED BY <1>5, <1>8

-----------------------------------------------------------------------------
(* That copies keep to it.                                                 *)

(* On the way from a node to one below it there is an entry of the first.  *)
LEMMA EntryToward ==
    ASSUME NEW t, Tree(t), NEW n \in Live(t), NEW m \in Live(t), AtOrBelow(t, n, m), n # m
    PROVE  \E e \in Live(t) \ {Top} : t[e].in = n /\ AtOrBelow(t, e, m)
<1>. DEFINE Toward(k) == \E e \in Live(t) \ {Top} : t[e].in = n /\ AtOrBelow(t, e, k)
            P == {k \in Live(t) : AtOrBelow(t, n, k) /\ n # k => Toward(k)}
<1>1. Top \in P BY BelowTop, TopLive DEF Tree
<1>2. ASSUME NEW k \in Live(t) \ {Top}, t[k].in \in P PROVE k \in P
  <2>1. SUFFICES ASSUME AtOrBelow(t, n, k), n # k PROVE Toward(k)
    BY <1>2
  <2>2. AtOrBelow(t, n, t[k].in) /\ t[k].in \in Live(t)
    BY <1>2, <2>1, BelowDef
  <2>3. CASE n = t[k].in
    <3>1. AtOrBelow(t, k, k) BY BelowDef
    <3>. QED BY <2>3, <3>1
  <2>4. CASE n # t[k].in
    <3>1. PICK e \in Live(t) \ {Top} : t[e].in = n /\ AtOrBelow(t, e, t[k].in)
      BY <1>2, <2>2, <2>4
    <3>2. AtOrBelow(t, e, k) BY <3>1, BelowDef
    <3>. QED BY <3>1, <3>2
  <2>. QED BY <2>3, <2>4
<1>. HIDE DEF Toward
<1>3. P = Live(t)
  <2>1. P \in SUBSET Live(t) OBVIOUS
  <2>. HIDE DEF P
  <2>. QED BY <1>1, <1>2, <2>1, TreeInduction
<1>. QED BY <1>3 DEF Toward

(* What is copied, and where to.                                           *)
Apartly(b, ask) ==
    /\ Tree(b) /\ Sound(b, ask)
    /\ Source(b, ask) \in Places /\ Dest(b, ask) \in Places

(* No two nodes are copied to one place, and none is there already.        *)
LEMMA SourcesDef ==
    ASSUME NEW b, NEW ask, Apartly(b, ask)
    PROVE  /\ \A n \in Sources(b, ask) :
                /\ n \in Live(b) /\ PathOf(b, n) \in Places
                /\ Goal(b, ask, n) \in Places /\ IsPrefix(Dest(b, ask), Goal(b, ask, n))
                /\ Rebased(Goal(b, ask, n), Dest(b, ask), Source(b, ask)) = PathOf(b, n)
           /\ \A n, m \in Sources(b, ask) : Goal(b, ask, n) = Goal(b, ask, m) => n = m
           /\ \A x \in Places : IsPrefix(Source(b, ask), x) =>
                ~IsPrefix(Dest(b, ask), x) /\ ~IsStrictPrefix(x, Dest(b, ask))
           /\ \A x \in Goals(b, ask) : IsPrefix(Dest(b, ask), x)
<1>. DEFINE source == Source(b, ask)
            dest == Dest(b, ask)
<1>1. /\ Tree(b) /\ source \in Places /\ dest \in Places
      /\ ~IsPrefix(source, dest) /\ ~IsPrefix(dest, source)
  BY DEF Apartly, Sound
<1>. HIDE DEF source, dest
<1>2. ASSUME NEW n \in Sources(b, ask)
      PROVE  /\ n \in Live(b) /\ PathOf(b, n) \in Places
             /\ Goal(b, ask, n) \in Places /\ IsPrefix(dest, Goal(b, ask, n))
             /\ Rebased(Goal(b, ask, n), dest, source) = PathOf(b, n)
  <2>1. n \in Live(b) /\ IsPrefix(source, PathOf(b, n)) /\ PathOf(b, n) \in Places
    BY <1>1, LongerPath DEF Sources, source
  <2>. QED BY <1>1, <2>1, RebasedDef DEF Goal, source, dest
<1>3. ASSUME NEW n \in Sources(b, ask), NEW m \in Sources(b, ask),
             Goal(b, ask, n) = Goal(b, ask, m)
      PROVE  n = m
  <2>1. PathOf(b, n) = PathOf(b, m) /\ n \in Live(b) /\ m \in Live(b)
    BY <1>2, <1>3
  <2>. QED BY <1>1, <2>1, PathsDiffer
<1>4. ASSUME NEW x \in Places, IsPrefix(source, x)
      PROVE  ~IsPrefix(dest, x) /\ ~IsStrictPrefix(x, dest)
  BY <1>1, <1>4, PrefixOrder DEF IsStrictPrefix
<1>5. \A x \in Goals(b, ask) : IsPrefix(dest, x) BY <1>2 DEF Goals
<1>. QED BY <1>2, <1>3, <1>4, <1>5 DEF source, dest

(* The source of a copy is as it was.                                      *)
LEMMA SourceStays ==
    ASSUME NEW b, NEW t, NEW ask, Apartly(b, ask),
           Spread(b, t, Goals(b, ask), {Dest(b, ask)})
    PROVE  /\ Tree(t) /\ Grows(b, t)
           /\ \A m \in Live(b) :
                ~IsPrefix(Dest(b, ask), PathOf(b, m)) => t[m].data = b[m].data
           /\ \A e \in Live(t) : IsPrefix(Source(b, ask), PathOf(t, e)) => e \in Sources(b, ask)
           /\ \A e \in Sources(b, ask) : e \in Live(t) /\ PathOf(t, e) = PathOf(b, e)
<1>. DEFINE source == Source(b, ask)
            dest == Dest(b, ask)
<1>1. Tree(b) /\ Tree(t) /\ Grows(b, t) BY DEF Apartly, Spread
<1>2. /\ \A x \in Places : IsPrefix(source, x) => ~IsPrefix(dest, x) /\ ~IsStrictPrefix(x, dest)
      /\ \A x \in Goals(b, ask) : IsPrefix(dest, x)
      /\ \A n \in Sources(b, ask) : n \in Live(b)
  BY SourcesDef
<1>3. ASSUME NEW m \in Live(b), ~IsPrefix(dest, PathOf(b, m)) PROVE t[m].data = b[m].data
  BY <1>2, <1>3 DEF Spread
<1>4. ASSUME NEW e \in Live(t), IsPrefix(source, PathOf(t, e)) PROVE e \in Sources(b, ask)
  <2>1. PathOf(t, e) \in Places BY <1>1, LongerPath
  <2>2. ~IsPrefix(dest, PathOf(t, e)) /\ ~IsStrictPrefix(PathOf(t, e), dest)
    BY <1>2, <1>4, <2>1
  <2>3. e \in Live(b) BY <1>2, <2>2 DEF Spread, Parent
  <2>4. PathOf(t, e) = PathOf(b, e) BY <1>1, <2>3, PathGrows
  <2>. QED BY <1>4, <2>3, <2>4 DEF Sources
<1>5. ASSUME NEW e \in Sources(b, ask) PROVE e \in Live(t) /\ PathOf(t, e) = PathOf(b, e)
  BY <1>1, <1>2, PathGrows
<1>. QED BY <1>1, <1>3, <1>4, <1>5

(* And this is what a task finds there.                                    *)
LEMMA SourceFound ==
    ASSUME NEW b, NEW t, NEW ask, Apartly(b, ask),
           Spread(b, t, Goals(b, ask), {Dest(b, ask)}), NEW n \in Sources(b, ask),
           NEW in, in = Stat(t, PathOf(b, n))
    PROVE  /\ in \in Live(t) /\ t[n].kind = b[n].kind
           /\ b[n].kind # "link" => in = n
           /\ t[in].kind = "file" => Wanted(b, n) = File(t[in].data)
<1>. DEFINE p == PathOf(b, n)
<1>1. /\ Tree(t) /\ Structured(t) /\ Grows(b, t)
      /\ \A m \in Live(b) : ~IsPrefix(Dest(b, ask), PathOf(b, m)) => t[m].data = b[m].data
      /\ n \in Live(t) /\ PathOf(t, n) = p
  BY SourceStays DEF Tree
<1>2. /\ Tree(b) /\ Structured(b) /\ n \in Live(b) /\ p \in Places /\ IsPrefix(Source(b, ask), p)
      /\ ~IsPrefix(Dest(b, ask), p)
  BY SourcesDef DEF Apartly, Tree, Sources
<1>3. t[n].kind = b[n].kind BY <1>1, <1>2 DEF Grows
<1>4. CASE b[n].kind # "link"
  <2>1. in = n BY <1>1, <1>3, <1>4, NodeFound
  <2>2. t[n].data = b[n].data BY <1>1, <1>2
  <2>3. t[n].kind = "file" => Wanted(b, n) = File(t[n].data)
    BY <1>3, <1>4, <2>2 DEF Wanted, Seen, File
  <2>. QED BY <1>1, <1>3, <2>1, <2>3
<1>5. CASE b[n].kind = "link"
  <2>. DEFINE m == Stat(b, p)
  <2>1. m # Nil /\ ~IsPrefix(Dest(b, ask), PathOf(b, m))
    BY <1>2, <1>5 DEF Apartly, Sound
  <2>2. m \in Live(b) BY <1>2, <2>1, StatLive
  <2>3. in = m BY <1>1, <1>2, <2>1, FoundStaysFound
  <2>4. t[m].data = b[m].data /\ m \in Live(t)
    BY <1>1, <1>2, <2>1, <2>2, PathGrows
  <2>5. Wanted(b, n) = File(b[m].data) BY <1>5 DEF Wanted
  <2>. QED BY <1>3, <1>5, <2>3, <2>4, <2>5
<1>. QED BY <1>4, <1>5

(* Nothing of a set is left out of its sequence.                           *)
LEMMA SetToSeqAll ==
    ASSUME NEW S, IsFiniteSet(S), NEW x \in S
    PROVE  \E i \in 1 .. Len(SetToSeq(S)) : SetToSeq(S)[i] = x
<1>. DEFINE n == Cardinality(S)
<1>1. n \in Nat /\ ExistsBijection(1 .. n, S) BY FS_CardinalityType
<1>2. PICK f \in [1 .. n -> S] : \A a, b \in 1 .. n : f[a] = f[b] => a = b
  BY <1>1 DEF ExistsBijection, Bijection, Injection, IsInjective
<1>3. SetToSeq(S) \in [1 .. n -> S] /\ IsInjective(SetToSeq(S))
  <2>1. IsInjective(f) BY <1>2 DEF IsInjective
  <2>. QED BY <2>1 DEF SetToSeq
<1>4. Cardinality(1 .. n) = n
  <2>. HIDE DEF n
  <2>. QED BY <1>1, FS_Interval
<1>5. SetToSeq(S) \in Surjection(1 .. n, S)
  <2>1. SetToSeq(S) \in Injection(1 .. n, S) BY <1>3 DEF Injection
  <2>. QED BY <1>4, <2>1, FS_Injection
<1>6. SetToSeq(S) \in Seq(S) BY SetToSeqType
<1>. DEFINE s == SetToSeq(S)
<1>. HIDE DEF s, n
<1>7. DOMAIN s = 1 .. n /\ \E i \in 1 .. n : s[i] = x
  BY <1>3, <1>5 DEF Surjection, s
<1>8. DOMAIN s = 1 .. Len(s) BY <1>6, LenProperties DEF s
<1>. QED BY <1>7, <1>8 DEF s

(* Every entry is listed as a task,                                        *)
LEMMA EntriesAll ==
    ASSUME NEW t, NEW d, NEW from, NEW to, NEW e \in Entries(t, d)
    PROVE  \E i \in 1 .. Len(Listed(t, d, from, to)) :
                Listed(t, d, from, to)[i] = EntryTask(t, e, from, to)
<1>. DEFINE task(n) == EntryTask(t, n, from, to)
            tasks == {task(n) : n \in Entries(t, d)}
            f == [n \in Entries(t, d) |-> task(n)]
<1>1. IsFiniteSet(Entries(t, d))
  <2>1. IsFiniteSet(Node)
    BY FileSystemAssumption, FS_Interval DEF Node
  <2>2. Entries(t, d) \in SUBSET Node BY DEF Entries
  <2>. QED BY <2>1, <2>2, FS_Subset
<1>2. f \in Surjection(Entries(t, d), tasks) BY DEF Surjection
<1>3. task(e) \in tasks OBVIOUS
<1>. HIDE DEF f
<1>4. IsFiniteSet(tasks) BY <1>1, <1>2, FS_Surjection
<1>. DEFINE x == task(e)
<1>. HIDE DEF tasks, x
<1>5. \E i \in 1 .. Len(SetToSeq(tasks)) : SetToSeq(tasks)[i] = x
  BY <1>3, <1>4, SetToSeqAll DEF x
<1>. QED BY <1>5 DEF tasks, Listed, x

(* and two lists, one after the other, hold what each holds.               *)
LEMMA InConcat ==
    ASSUME NEW S, NEW s \in Seq(S), NEW u \in Seq(S), NEW v, v = Beneath(s, u)
    PROVE  /\ v \in Seq(S)
           /\ \A i \in 1 .. Len(s) : \E j \in 1 .. Len(v) : v[j] = s[i]
           /\ \A i \in 1 .. Len(u) : \E j \in 1 .. Len(v) : v[j] = u[i]
<1>. DEFINE m == Len(s)  k == Len(u)
<1>1. /\ v \in Seq(S) /\ Len(v) = m + k
      /\ \A i \in 1 .. m + k : v[i] = IF i <= m THEN s[i] ELSE u[i - m]
  BY ConcatProperties DEF Beneath
<1>2. m \in Nat /\ k \in Nat BY LenProperties
<1>. HIDE DEF m, k
<1>3. ASSUME NEW i \in 1 .. m PROVE \E j \in 1 .. Len(v) : v[j] = s[i]
  <2>1. i \in 1 .. m + k /\ i <= m BY <1>2
  <2>. QED BY <1>1, <2>1
<1>4. ASSUME NEW i \in 1 .. k PROVE \E j \in 1 .. Len(v) : v[j] = u[i]
  <2>. DEFINE j == m + i
  <2>1. j \in 1 .. m + k /\ ~(j <= m) /\ j - m = i BY <1>2
  <2>. HIDE DEF j
  <2>. QED BY <1>1, <2>1
<1>. QED BY <1>1, <1>3, <1>4 DEF m, k

(* The entries of a directory are copied as it is.                         *)
LEMMA EntryTasks ==
    ASSUME NEW b, NEW t, NEW ask, Apartly(b, ask),
           Spread(b, t, Goals(b, ask), {Dest(b, ask)}), NEW n \in Sources(b, ask)
    PROVE  /\ \A e \in Entries(t, n) :
                /\ e \in Sources(b, ask)
                /\ EntryTask(t, e, PathOf(b, n), Goal(b, ask, n)) = CopyTask(b, ask, e)
           /\ \A m \in Sources(b, ask) : IsPrefix(PathOf(b, n), PathOf(b, m)) =>
                m = n \/ \E e \in Entries(t, n) : IsPrefix(PathOf(b, e), PathOf(b, m))
<1>. DEFINE p == PathOf(b, n)
            source == Source(b, ask)
            dest == Dest(b, ask)
<1>1. /\ Tree(b) /\ Tree(t) /\ Grows(b, t) /\ n \in Live(b) /\ n \in Live(t) /\ PathOf(t, n) = p
      /\ source \in Places /\ dest \in Places /\ p \in Places /\ IsPrefix(source, p)
  BY SourceStays, SourcesDef DEF Apartly, Sources
<1>. HIDE DEF p, source, dest
<1>2. ASSUME NEW e \in Entries(t, n)
      PROVE  /\ e \in Sources(b, ask)
             /\ EntryTask(t, e, p, Goal(b, ask, n)) = CopyTask(b, ask, e)
  <2>. DEFINE a == t[e].name
  <2>1. e \in Live(t) \ {Top} /\ t[e].in = n
    BY <1>1, FileSystemAssumption DEF Entries, Live
  <2>2. a \in Words /\ PathOf(t, e) = Longer(p, a)
    BY <1>1, <2>1, LongerPath
  <2>3. IsPrefix(source, PathOf(t, e)) BY <1>1, <2>2, LongerDef
  <2>4. e \in Sources(b, ask) /\ PathOf(b, e) = Longer(p, a) /\ e \in Live(b)
    BY <2>1, <2>2, <2>3, SourceStays DEF source, Sources
  <2>5. t[e].kind = b[e].kind BY <1>1, <2>4 DEF Grows
  <2>6. Rebased(Longer(p, a), source, dest) = Longer(Rebased(p, source, dest), a)
    <3>. HIDE DEF a
    <3>. QED BY <1>1, <2>2, RebasedDef
  <2>7. Goal(b, ask, e) = Longer(Goal(b, ask, n), a)
    BY <2>4, <2>6 DEF Goal, source, dest, p
  <2>. HIDE DEF a
  <2>8. EntryTask(t, e, p, Goal(b, ask, n)) =
        [from |-> Longer(p, a), to |-> Longer(Goal(b, ask, n), a), dir |-> t[e].kind = "dir"]
    BY DEF EntryTask, Task, Longer, a
  <2>. QED BY <2>4, <2>5, <2>7, <2>8 DEF CopyTask
<1>3. ASSUME NEW m \in Sources(b, ask), IsPrefix(p, PathOf(b, m)), m # n
      PROVE  \E e \in Entries(t, n) : IsPrefix(PathOf(b, e), PathOf(b, m))
  <2>1. m \in Live(b) /\ AtOrBelow(b, n, m)
    BY <1>3 DEF AtOrBelow, Sources, p
  <2>2. PICK e \in Live(b) \ {Top} : b[e].in = n /\ AtOrBelow(b, e, m)
    BY <1>1, <1>3, <2>1, EntryToward
  <2>3. e \in Entries(t, n) BY <1>1, <2>2 DEF Grows, Entries, Live
  <2>. QED BY <2>2, <2>3 DEF AtOrBelow
<1>. QED BY <1>2, <1>3 DEF p

(* Before a goal there are goals and what leads to the destination.        *)
LEMMA GoalParents ==
    ASSUME NEW b, NEW t, NEW ask, Apartly(b, ask), NEW n \in Sources(b, ask)
    PROVE  Allowed(t, Goal(b, ask, n), Goals(b, ask), {Dest(b, ask)})
<1>. DEFINE source == Source(b, ask)
            dest == Dest(b, ask)
            goal == Goal(b, ask, n)
<1>1. /\ Tree(b) /\ n \in Live(b) /\ source \in Places /\ dest \in Places
      /\ goal \in Places /\ IsPrefix(dest, goal) /\ Rebased(goal, dest, source) = PathOf(b, n)
  BY SourcesDef DEF Apartly
<1>. HIDE DEF source, dest, goal
<1>2. ASSUME NEW q \in Places, IsPrefix(q, goal)
      PROVE  q \in Goals(b, ask) \/ IsStrictPrefix(q, dest)
  <2>1. IsPrefix(dest, q) \/ IsPrefix(q, dest)
    BY <1>1, <1>2, PrefixOrder
  <2>2. CASE ~IsPrefix(dest, q)
    <3>1. q # dest BY <1>1, <2>2, PrefixOrder
    <3>. QED BY <2>1, <2>2, <3>1 DEF IsStrictPrefix
  <2>3. CASE IsPrefix(dest, q)
    <3>. DEFINE y == Rebased(q, dest, source)
    <3>1. /\ y \in Places /\ IsPrefix(source, y) /\ Rebased(y, source, dest) = q
      BY <1>1, <2>3, RebasedDef
    <3>2. IsPrefix(y, PathOf(b, n)) BY <1>1, <1>2, <2>3, RebasedPrefix
    <3>. HIDE DEF y
    <3>3. PICK m \in Live(b) : PathOf(b, m) = y
      BY <1>1, <3>1, <3>2, PrefixIsNode
    <3>4. m \in Sources(b, ask) /\ Goal(b, ask, m) = q
      BY <3>1, <3>3 DEF Sources, Goal, source, dest
    <3>. QED BY <3>4 DEF Goals
  <2>. QED BY <2>2, <2>3
<1>. QED BY <1>2 DEF Allowed, dest, goal

(* A copy is what its source is to those who read it.                      *)
LEMMA FollowedDef ==
    ASSUME NEW b, NEW ask, Apartly(b, ask)
    PROVE  /\ DOMAIN Followed(b) = DOMAIN View(b)
           /\ \A n \in Sources(b, ask) : Followed(b)[PathOf(b, n)] = Wanted(b, n)
<1>1. DOMAIN Followed(b) = DOMAIN View(b) BY DEF Followed
<1>2. ASSUME NEW n \in Sources(b, ask)
      PROVE  Followed(b)[PathOf(b, n)] = Wanted(b, n)
  <2>. DEFINE x == PathOf(b, n)
  <2>1. n \in Live(b) /\ IsPrefix(Source(b, ask), x) BY DEF Sources
  <2>2. x \in DOMAIN View(b) /\ View(b)[x] = Seen(b[n]) /\ View(b)[x].kind = b[n].kind
    BY <2>1, ViewDef DEF Apartly, Shape, Seen
  <2>3. b[n].kind = "link" => Stat(b, x) # Nil
    BY <2>1 DEF Apartly, Sound
  <2>4. Followed(b)[x] = IF View(b)[x].kind = "link" /\ Stat(b, x) # Nil
                         THEN File(b[Stat(b, x)].data) ELSE View(b)[x]
    BY <2>2 DEF Followed
  <2>. QED BY <2>2, <2>3, <2>4 DEF Wanted
<1>. QED BY <1>1, <1>2

(* When all is written the view is the promised one.                       *)
LEMMA CopyDone ==
    ASSUME NEW b, NEW t, NEW ask, NEW r, Apartly(b, ask), ask.op = "copy",
           Spread(b, t, Goals(b, ask), {Dest(b, ask)}),
           \E n \in Live(b) : PathOf(b, n) = Source(b, ask),
           \A n \in Sources(b, ask) : Wrote(t, Goal(b, ask, n), Wanted(b, n))
    PROVE  Granted(t, b, ask, r)
<1>. DEFINE source == Source(b, ask)
            dest == Dest(b, ask)
            v == Followed(b)
            g == Grafted(v, source, dest)
            W == Goals(b, ask)
            T == {dest}
<1>1. Tree(b) /\ source \in Places /\ dest \in Places BY DEF Apartly
<1>2. /\ \A y \in DOMAIN v : y \in Places /\ \E n \in Live(b) : y = PathOf(b, n)
      /\ \A n \in Sources(b, ask) : PathOf(b, n) \in DOMAIN v /\ v[PathOf(b, n)] = Wanted(b, n)
  BY <1>1, FollowedDef, ViewDef, LongerPath DEF Sources
<1>3. /\ \A y \in DOMAIN v : IsPrefix(source, y) =>
            Rebased(y, source, dest) \in DOMAIN g /\ g[Rebased(y, source, dest)] = v[y]
      /\ \A x \in DOMAIN g : \E y \in DOMAIN v : IsPrefix(source, y) /\ x = Rebased(y, source, dest)
  <2>. DEFINE h == g
  <2>1. h = Grafted(v, source, dest) OBVIOUS
  <2>. HIDE DEF h, v, source, dest
  <2>2. DOMAIN v \subseteq Places BY <1>2
  <2>3. /\ \A y \in DOMAIN v : IsPrefix(source, y) =>
            Rebased(y, source, dest) \in DOMAIN h /\ h[Rebased(y, source, dest)] = v[y]
        /\ \A x \in DOMAIN h :
            \E y \in DOMAIN v : IsPrefix(source, y) /\ x = Rebased(y, source, dest)
    BY <1>1, <2>1, <2>2, GraftedDef
  <2>. QED BY <2>3 DEF h
<1>. HIDE DEF g, v
<1>4. ASSUME NEW n \in Sources(b, ask)
      PROVE  Goal(b, ask, n) \in DOMAIN g /\ g[Goal(b, ask, n)] = Wanted(b, n)
  BY <1>2, <1>3 DEF Sources, Goal
<1>5. ASSUME NEW x \in DOMAIN g PROVE \E n \in Sources(b, ask) : x = Goal(b, ask, n)
  BY <1>2, <1>3 DEF Sources, Goal
<1>6. W = DOMAIN g BY <1>4, <1>5 DEF Goals
<1>7. \A x \in W : \E m \in Live(t) : PathOf(t, m) = x /\ Seen(t[m]) = g[x]
  <2>1. ASSUME NEW n \in Sources(b, ask)
        PROVE  \E m \in Live(t) : PathOf(t, m) = Goal(b, ask, n) /\ Seen(t[m]) = g[Goal(b, ask, n)]
    BY <1>4 DEF Wrote
  <2>. QED BY <2>1 DEF Goals
<1>8. \E m \in Live(t) : PathOf(t, m) = dest
  <2>1. PICK n \in Live(b) : PathOf(b, n) = source OBVIOUS
  <2>2. n \in Sources(b, ask) /\ Goal(b, ask, n) = dest
    BY <1>1, <2>1, RebasedSelf, PrefixOrder DEF Sources, Goal
  <2>. QED BY <2>2 DEF Wrote
<1>9. T \in SUBSET Places /\ (\A q \in T : \E m \in Live(t) : PathOf(t, m) = q) /\ Spread(b, t, W, T)
  BY <1>1, <1>8
<1>. HIDE DEF W, T, source, dest
<1>10. View(t) = WithParents(Over(g, View(b)), T)
  BY <1>1, <1>6, <1>7, <1>9, SpreadDone
<1>. QED BY <1>10 DEF Granted, g, v, T, source, dest

(* What is still to be copied, and all else is.                            *)
Remaining(t, b, ask, todo) ==
    /\ Apartly(b, ask) /\ ask.op = "copy"
    /\ \E n \in Live(b) : PathOf(b, n) = Source(b, ask)
    /\ Spread(b, t, Goals(b, ask), {Dest(b, ask)})
    /\ todo \in Seq(CopyTasks(b, ask))
    /\ \A n \in Sources(b, ask) :
        \/ Wrote(t, Goal(b, ask, n), Wanted(b, n))
        \/ \E i \in 1 .. Len(todo) : IsPrefix(todo[i].from, PathOf(b, n))

(* The next task is that of a node at or below the source.                 *)
LEMMA TaskFacts ==
    ASSUME Typed, NEW r \in Requests, before[r] # Nil, Copying(tree, before[r], req[r]),
           Copies(tree, before[r], req[r]), Sound(before[r], req[r].ask),
           req[r].at \in {"copy", "read directory", "open destination", "copy data"}
    PROVE  LET b == before[r]
               ask == req[r].ask
               todo == req[r].todo
           IN  /\ Remaining(tree, b, ask, todo) /\ req[r] \in Request /\ ~req[r].ok
               /\ Tree(tree) /\ todo # <<>>
               /\ \E n \in Sources(b, ask) : Head(todo) = CopyTask(b, ask, n)
               /\ Tail(todo) \in Seq(CopyTasks(b, ask))
               /\ Straight(tree, Head(todo).to) /\ Head(todo).to \in Places
<1>. DEFINE b == before[r]
            ask == req[r].ask
            todo == req[r].todo
            S == CopyTasks(b, ask)
<1>1. /\ Tree(b) /\ Tree(tree) /\ ask.op = "copy" /\ req[r] \in Request /\ ~req[r].ok
      /\ todo # <<>>
  BY Current, HeadTask DEF Typed, Holds, Op
<1>2. Remaining(tree, b, ask, todo)
  BY <1>1 DEF Copies, Remaining, Apartly
<1>3. Straight(tree, Head(todo).to) /\ Head(todo).to \in Places
  BY CopyFacts DEF Sound
<1>4. Head(todo) \in S /\ Tail(todo) \in Seq(S)
  <2>1. todo \in Seq(S) BY <1>2 DEF Remaining
  <2>. HIDE DEF S, todo
  <2>. QED BY <1>1, <2>1, HeadIn
<1>. QED BY <1>1, <1>2, <1>3, <1>4 DEF CopyTasks

(* What a step of a copy must bring about.                                 *)
Served(t, b, new, r) ==
    \/ new.at = "done" /\ Granted(t, b, new.ask, r)
    \/ ~new.ok /\ Copies(t, b, new)

(* When no task is left all is written.                                    *)
LEMMA CopyNextServes ==
    ASSUME Typed, NEW r \in Requests, ~req[r].ok, NEW b, NEW t, NEW todo,
           Remaining(t, b, req[r].ask, todo)
    PROVE  Served(t, b, CopyNext(r, todo), r)
<1>. DEFINE ask == req[r].ask
            next == [req[r] EXCEPT !.at = "copy", !.todo = todo]
<1>1. CASE todo = <<>>
  <2>1. Len(todo) = 0 BY <1>1, EmptySeq
  <2>2. \A i \in 1 .. Len(todo) : FALSE BY <2>1
  <2>3. Granted(t, b, ask, r) BY <2>2, CopyDone DEF Remaining
  <2>4. CopyNext(r, todo) = Done(r) BY <1>1 DEF CopyNext
  <2>. QED BY <2>3, <2>4, DoneIs DEF Served
<1>2. CASE todo # <<>>
  <2>1. CopyNext(r, todo) = next BY <1>2 DEF CopyNext
  <2>2. next.at = "copy" /\ next.todo = todo /\ next.ask = ask /\ ~next.ok
    BY Current DEF Request
  <2>. HIDE DEF next
  <2>3. Copies(t, b, next) BY <2>2 DEF Copies, Remaining, Apartly
  <2>. QED BY <2>1, <2>2, <2>3 DEF Served
<1>. QED BY <1>1, <1>2

(* A copy begins with the source itself.                                   *)
LEMMA CopyStatsServes ==
    ASSUME Typed, NEW r \in Requests, before[r] # Nil, Copying(tree, before[r], req[r]),
           Sourced(before[r], req[r]), Sound(before[r], req[r].ask), CopyStats(r)
    PROVE  Served(tree', before[r], req'[r], r)
<1>. DEFINE b == before[r]
            ask == req[r].ask
            source == Source(b, ask)
            dest == Dest(b, ask)
            n == Stat(tree, req[r].from)
            task == Task(tree, n, req[r].from, req[r].to)
            todo == <<task>>
<1>1. req[r].at = "stat" /\ n # Nil /\ GoesOn(r, CopyNext(r, todo))
  BY DEF CopyStats
<1>2. /\ ask.op = "copy" /\ Tree(b) /\ tree = b /\ ~req[r].ok
      /\ req[r].to = dest /\ dest \in Places /\ LinkFree(b, dest)
  BY <1>1, WhoseStep, Current DEF Copying, Typed, Holds, Op, Sound
<1>3. req[r].from = source /\ source \in Places /\ Straight(b, source)
  BY <1>1, <1>2 DEF Sourced
<1>. HIDE DEF b, source, dest
<1>4. n \in Live(b) /\ PathOf(b, n) = source
  BY <1>1, <1>2, <1>3, StraightDef
<1>5. Apartly(b, ask) BY <1>2, <1>3 DEF Apartly, source, dest, b
<1>6. n \in Sources(b, ask) /\ Goal(b, ask, n) = dest
  BY <1>2, <1>3, <1>4, RebasedSelf, PrefixOrder DEF Sources, Goal, source, dest
<1>7. task = CopyTask(b, ask, n)
  BY <1>2, <1>3, <1>4, <1>6 DEF Task, CopyTask
<1>8. task \in CopyTasks(b, ask) /\ task.from = source
  BY <1>4, <1>6, <1>7 DEF CopyTasks, CopyTask
<1>. HIDE DEF task, n
<1>9. todo \in Seq(CopyTasks(b, ask)) /\ 1 \in 1 .. Len(todo) /\ todo[1].from = source
  BY <1>8, Singleton
<1>10. Spread(b, b, Goals(b, ask), {Dest(b, ask)})
  BY <1>2, SpreadStart
<1>. HIDE DEF todo
<1>11. Remaining(tree, b, ask, todo)
  BY <1>2, <1>4, <1>5, <1>9, <1>10 DEF Remaining, Sources, source
<1>12. tree' = tree /\ req'[r] = CopyNext(r, todo) BY <1>1, GoneOn
<1>. QED BY <1>2, <1>11, <1>12, CopyNextServes DEF b

(* A directory is made at its place,                                       *)
LEMMA CopyMakesDirServes ==
    ASSUME Typed, NEW r \in Requests, before[r] # Nil, Copying(tree, before[r], req[r]),
           Copies(tree, before[r], req[r]), Sound(before[r], req[r].ask), CopyMakesDir(r)
    PROVE  Served(tree', before[r], req'[r], r)
<1>. DEFINE b == before[r]
            ask == req[r].ask
            todo == req[r].todo
            to == Head(todo).to
            W == Goals(b, ask)
            T == {Dest(b, ask)}
            new == req'[r]
<1>1. req[r].at = "copy" /\ MkdirAll(r, to, "read directory") /\ Head(todo).dir
  BY DEF CopyMakesDir
<1>2. /\ Remaining(tree, b, ask, todo) /\ req[r] \in Request /\ ~req[r].ok
      /\ Tree(tree) /\ Straight(tree, to) /\ to \in Places
  BY <1>1, TaskFacts
<1>3. PICK n \in Sources(b, ask) : Head(todo) = CopyTask(b, ask, n)
  BY <1>1, TaskFacts
<1>4. to = Goal(b, ask, n) BY <1>3 DEF CopyTask
<1>5. Allowed(tree, to, W, T) /\ Tree(b) /\ Spread(b, tree, W, T)
  BY <1>2, <1>4, GoalParents DEF Remaining, Apartly
<1>. HIDE DEF b, todo, to, W, T
<1>6. /\ Spread(b, tree', W, T) /\ GrowsPlainly(tree, tree') /\ Tree(tree')
      /\ new \in {req[r], [req[r] EXCEPT !.at = "read directory"]}
      /\ \A m \in Live(tree) : tree'[m] = tree[m]
  BY <1>1, <1>2, <1>5, MkdirAllSpreads
<1>7. new.at \in {"copy", "read directory"} /\ new.todo = todo /\ new.ask = ask /\ ~new.ok
  <2>. DEFINE next == [req[r] EXCEPT !.at = "read directory"]
  <2>1. /\ next.at = "read directory" /\ next.todo = req[r].todo /\ next.ask = ask
        /\ ~next.ok
    BY <1>2 DEF Request
  <2>2. new = req[r] \/ new = next BY <1>6
  <2>. HIDE DEF next, new
  <2>. QED BY <1>1, <1>2, <2>1, <2>2 DEF todo
<1>8. new.at = "read directory" => Wrote(tree', to, Directory)
  <2>1. SUFFICES ASSUME new.at = "read directory" PROVE Wrote(tree', to, Directory)
    OBVIOUS
  <2>2. IsDir(tree, to) /\ tree' = tree
    <3>1. CASE IsDir(tree, to) /\ GoesOn(r, [req[r] EXCEPT !.at = "read directory"])
      BY <3>1 DEF GoesOn
    <3>2. CASE \E t : Makes(r, t, req[r])
      <4>1. req'[r] = req[r] BY <3>2, HasMade
      <4>. QED BY <1>1, <2>1, <4>1
    <3>. QED BY <1>1, <3>1, <3>2 DEF MkdirAll
  <2>. DEFINE m == Stat(tree, to)
  <2>3. m \in Live(tree) /\ PathOf(tree, m) = to /\ tree[m].kind = "dir"
    BY <1>2, <2>2, StraightDef DEF IsDir
  <2>4. Seen(tree[m]) = Directory BY <2>3 DEF Seen, Directory
  <2>. QED BY <2>2, <2>3, <2>4 DEF Wrote
<1>. HIDE DEF new
<1>9. ASSUME NEW m \in Sources(b, ask), Wrote(tree, Goal(b, ask, m), Wanted(b, m))
      PROVE  Wrote(tree', Goal(b, ask, m), Wanted(b, m))
  <2>. DEFINE p == Goal(b, ask, m)  seen == Wanted(b, m)
  <2>. HIDE DEF p, seen
  <2>1. Wrote(tree, p, seen) /\ Grows(tree, tree') /\ \A k \in Live(tree) : tree'[k].data = tree[k].data
    BY <1>6, <1>9 DEF p, seen, GrowsPlainly
  <2>2. Wrote(tree', p, seen) BY <1>2, <1>6, <2>1, WroteKept
  <2>. QED BY <2>2 DEF p, seen
<1>10. Copies(tree', b, new)
  BY <1>1, <1>2, <1>6, <1>7, <1>8, <1>9 DEF Copies, Remaining, Apartly, W, T, to
<1>. QED BY <1>7, <1>10 DEF Served, b, new

(* and its entries, which are those it had at first, take the place of its *)
(* task.                                                                   *)
LEMMA CopyReadsDirServes ==
    ASSUME Typed, NEW r \in Requests, before[r] # Nil, Copying(tree, before[r], req[r]),
           Copies(tree, before[r], req[r]), Sound(before[r], req[r].ask), CopyReadsDir(r)
    PROVE  Served(tree', before[r], req'[r], r)
<1>. DEFINE b == before[r]
            ask == req[r].ask
            head == Head(req[r].todo)
            d == Stat(tree, head.from)
            tasks == Listed(tree, d, head.from, head.to)
            rest == Tail(req[r].todo)
            todo == tasks \o rest
            S == CopyTasks(b, ask)
<1>1. req[r].at = "read directory" /\ GoesOn(r, CopyNext(r, todo))
  BY DEF CopyReadsDir, Listed, EntryTask
<1>2. Remaining(tree, b, ask, req[r].todo) /\ ~req[r].ok /\ req[r].todo # <<>> /\ rest \in Seq(S)
  BY <1>1, TaskFacts
<1>3. PICK n \in Sources(b, ask) : head = CopyTask(b, ask, n)
  BY <1>1, TaskFacts
<1>4. /\ head.from = PathOf(b, n) /\ head.to = Goal(b, ask, n) /\ b[n].kind = "dir"
      /\ Wrote(tree, Goal(b, ask, n), Directory)
  <2>1. head.dir /\ Wrote(tree, head.to, Directory) BY <1>1 DEF Copies
  <2>2. head.from = PathOf(b, n) /\ head.to = Goal(b, ask, n) /\ head.dir = (b[n].kind = "dir")
    BY <1>3 DEF CopyTask
  <2>. QED BY <2>1, <2>2
<1>5. Wanted(b, n) = Directory BY <1>4 DEF Wanted, Seen, Directory
<1>. HIDE DEF b, head, rest
<1>6. Apartly(b, ask) /\ Spread(b, tree, Goals(b, ask), {Dest(b, ask)})
  BY <1>2 DEF Remaining
<1>7. d = n
  <2>1. d = Stat(tree, PathOf(b, n)) /\ b[n].kind # "link" BY <1>4
  <2>. HIDE DEF d
  <2>. QED BY <1>6, <2>1, SourceFound
<1>8. /\ \A e \in Entries(tree, n) :
            e \in Sources(b, ask) /\ EntryTask(tree, e, head.from, head.to) = CopyTask(b, ask, e)
      /\ \A m \in Sources(b, ask) : IsPrefix(PathOf(b, n), PathOf(b, m)) =>
            m = n \/ \E e \in Entries(tree, n) : IsPrefix(PathOf(b, e), PathOf(b, m))
  BY <1>4, <1>6, EntryTasks
<1>. HIDE DEF d
<1>9. tasks \in Seq(S)
  <2>1. \A e \in Entries(tree, d) : EntryTask(tree, e, head.from, head.to) \in S
    BY <1>7, <1>8 DEF CopyTasks
  <2>. HIDE DEF S
  <2>. QED BY <2>1, EntriesListed
<1>10. \A e \in Entries(tree, n) : \E i \in 1 .. Len(tasks) : tasks[i] = CopyTask(b, ask, e)
  BY <1>7, <1>8, EntriesAll
<1>. HIDE DEF tasks, S
<1>11. /\ todo \in Seq(S)
       /\ \A i \in 1 .. Len(tasks) : \E j \in 1 .. Len(todo) : todo[j] = tasks[i]
       /\ \A i \in 1 .. Len(rest) : \E j \in 1 .. Len(todo) : todo[j] = rest[i]
  <2>. DEFINE v == todo
  <2>1. v = Beneath(tasks, rest) BY DEF Beneath
  <2>. HIDE DEF todo, v
  <2>2. /\ v \in Seq(S)
        /\ \A i \in 1 .. Len(tasks) : \E j \in 1 .. Len(v) : v[j] = tasks[i]
        /\ \A i \in 1 .. Len(rest) : \E j \in 1 .. Len(v) : v[j] = rest[i]
    <3>1. tasks \in Seq(S) /\ rest \in Seq(S) BY <1>2, <1>9
    <3>. QED BY <2>1, <3>1, InConcat
  <2>. QED BY <2>2 DEF v
<1>12. \A i \in 1 .. Len(req[r].todo) :
            req[r].todo[i] = head \/ \E j \in 1 .. Len(rest) : rest[j] = req[r].todo[i]
  <2>. DEFINE old == req[r].todo
  <2>1. old \in Seq(S) /\ old # <<>> /\ head = Head(old) /\ rest = Tail(old)
    BY <1>2 DEF Remaining, S, head, rest
  <2>. HIDE DEF old
  <2>2. \A i \in 1 .. Len(old) : old[i] = head \/ \E j \in 1 .. Len(rest) : rest[j] = old[i]
    BY <2>1, InTail
  <2>. QED BY <2>2 DEF old
<1>. HIDE DEF todo
<1>13. ASSUME NEW m \in Sources(b, ask)
       PROVE  \/ Wrote(tree, Goal(b, ask, m), Wanted(b, m))
              \/ \E i \in 1 .. Len(todo) : IsPrefix(todo[i].from, PathOf(b, m))
  <2>1. CASE \E i \in 1 .. Len(req[r].todo) : IsPrefix(req[r].todo[i].from, PathOf(b, m))
    <3>1. PICK i \in 1 .. Len(req[r].todo) : IsPrefix(req[r].todo[i].from, PathOf(b, m))
      BY <2>1
    <3>2. CASE \E j \in 1 .. Len(rest) : rest[j] = req[r].todo[i]
      <4>1. PICK j \in 1 .. Len(todo) : todo[j] = req[r].todo[i]
        BY <1>11, <3>2
      <4>. QED BY <3>1, <4>1
    <3>3. CASE req[r].todo[i] = head
      <4>1. IsPrefix(PathOf(b, n), PathOf(b, m)) BY <1>4, <3>1, <3>3
      <4>2. CASE m = n BY <1>4, <1>5, <4>2
      <4>3. CASE m # n
        <5>1. PICK e \in Entries(tree, n) : IsPrefix(PathOf(b, e), PathOf(b, m))
          BY <1>8, <4>1, <4>3
        <5>2. PICK j \in 1 .. Len(todo) : todo[j] = CopyTask(b, ask, e)
          BY <1>10, <1>11
        <5>3. todo[j].from = PathOf(b, e) BY <5>2 DEF CopyTask
        <5>. QED BY <5>1, <5>3
      <4>. QED BY <4>2, <4>3
    <3>. QED BY <1>12, <3>2, <3>3
  <2>. QED BY <1>2, <2>1 DEF Remaining
<1>14. Remaining(tree, b, ask, todo)
  BY <1>2, <1>11, <1>13 DEF Remaining, S
<1>15. tree' = tree /\ req'[r] = CopyNext(r, todo) BY <1>1, GoneOn
<1>. QED BY <1>2, <1>14, <1>15, CopyNextServes DEF b

(* The source that is held is what its path leads to,                      *)
LEMMA CopyOpensSourceServes ==
    ASSUME Typed, NEW r \in Requests, before[r] # Nil, Copying(tree, before[r], req[r]),
           Copies(tree, before[r], req[r]), Sound(before[r], req[r].ask), CopyOpensSource(r)
    PROVE  Served(tree', before[r], req'[r], r)
<1>. DEFINE b == before[r]
            ask == req[r].ask
            todo == req[r].todo
            in == Stat(tree, Head(todo).from)
            next == [req[r] EXCEPT !.at = "open destination", !.in = in]
<1>1. req[r].at = "copy" /\ ~Head(todo).dir /\ GoesOn(r, next)
  BY DEF CopyOpensSource
<1>2. Remaining(tree, b, ask, todo) /\ req[r] \in Request /\ ~req[r].ok
  BY <1>1, TaskFacts
<1>3. in = Stat(tree, Head(todo).from) OBVIOUS
<1>. HIDE DEF in
<1>4. tree' = tree /\ req'[r] = next BY <1>1, GoneOn
<1>5. /\ next.at = "open destination" /\ next.in = in /\ next.todo = todo /\ next.ask = ask
      /\ ~next.ok
  BY <1>2 DEF Request
<1>. HIDE DEF next, b, todo
<1>6. Copies(tree, b, next)
  BY <1>1, <1>2, <1>3, <1>5 DEF Copies, Remaining, Apartly
<1>. QED BY <1>4, <1>5, <1>6 DEF Served, b

(* and still is when a file is emptied or made at the place of the copy.   *)
LEMMA CopyOpensDestServes ==
    ASSUME Typed, NEW r \in Requests, before[r] # Nil, Copying(tree, before[r], req[r]),
           Copies(tree, before[r], req[r]), Sound(before[r], req[r].ask), CopyOpensDest(r)
    PROVE  Served(tree', before[r], req'[r], r)
<1>. DEFINE b == before[r]
            ask == req[r].ask
            todo == req[r].todo
            head == Head(todo)
            W == Goals(b, ask)
            T == {Dest(b, ask)}
            t == OpenTruncated(tree, head.to)
            in == req[r].in
            out == Stat(t, head.to)
            next == [req[r] EXCEPT !.at = "copy data", !.out = out]
<1>0. req[r].at = "open destination" /\ t # Nil /\ Makes(r, t, next)
  BY DEF CopyOpensDest
<1>1. ~head.dir /\ in = Stat(tree, head.from) /\ in # Nil
  BY <1>0, Current, FileSystemAssumption DEF Copies, Holds, Within
<1>2. /\ Remaining(tree, b, ask, todo) /\ req[r] \in Request /\ ~req[r].ok /\ todo # <<>>
      /\ Tree(tree) /\ Straight(tree, head.to) /\ head.to \in Places
  BY <1>0, TaskFacts
<1>3. PICK n \in Sources(b, ask) : head = CopyTask(b, ask, n)
  BY <1>0, TaskFacts
<1>4. head.from = PathOf(b, n) /\ head.to = Goal(b, ask, n) /\ head.to \in W
  BY <1>3 DEF CopyTask, Goals
<1>5. head.from \in Places BY <1>2, <1>4, SourcesDef DEF Remaining
<1>6. Tree(b) /\ Spread(b, tree, W, T) BY <1>2 DEF Remaining, Apartly
<1>7. 1 \in 1 .. Len(todo) /\ todo[1] = head
  <2>. DEFINE S == CopyTasks(b, ask)
  <2>1. todo \in Seq(S) BY <1>2 DEF Remaining
  <2>. HIDE DEF S, todo
  <2>. QED BY <1>2, <2>1, HeadIn
<1>. HIDE DEF b, todo, head, W, T
<1>8. /\ Spread(b, t, W, T) /\ Tree(t) /\ Grows(tree, t)
      /\ out \in Live(t) /\ PathOf(t, out) = head.to /\ t[out].kind = "file"
      /\ \A m \in Live(tree) : PathOf(tree, m) # head.to => t[m] = tree[m]
  <2>. DEFINE u == t
              path == head.to
  <2>1. u = OpenTruncated(tree, path) /\ u # Nil /\ path \in Places /\ Straight(tree, path)
        /\ path \in W
    BY <1>0, <1>2, <1>4
  <2>. HIDE DEF u, path
  <2>2. Spread(b, u, W, T) BY <1>6, <2>1, OpenSpreads
  <2>3. /\ Tree(u) /\ Grows(tree, u)
        /\ Stat(u, path) \in Live(u) /\ PathOf(u, Stat(u, path)) = path
        /\ u[Stat(u, path)].kind = "file"
        /\ \A m \in Live(tree) : PathOf(tree, m) # path => u[m] = tree[m]
    BY <1>2, <2>1, OpenKeeps
  <2>. QED BY <2>2, <2>3 DEF u, path
<1>. HIDE DEF t, out
<1>9. in = Stat(t, head.from)
  BY <1>1, <1>2, <1>5, <1>8, FoundStaysFound DEF Tree
<1>. HIDE DEF in
<1>10. tree' = t /\ req'[r] = next BY <1>0, HasMade
<1>11. /\ next.at = "copy data" /\ next.in = in /\ next.out = out /\ next.todo = todo
       /\ next.ask = ask /\ ~next.ok
  BY <1>2 DEF Request, todo, in
<1>. HIDE DEF next
<1>12. ASSUME NEW m \in Sources(b, ask)
       PROVE  \/ Wrote(t, Goal(b, ask, m), Wanted(b, m))
              \/ \E i \in 1 .. Len(todo) : IsPrefix(todo[i].from, PathOf(b, m))
  <2>1. CASE Goal(b, ask, m) = head.to
    <3>1. m = n /\ IsPrefix(PathOf(b, n), PathOf(b, n))
      BY <1>2, <1>4, <1>5, <2>1, SourcesDef, PrefixOrder DEF Remaining
    <3>. QED BY <1>4, <1>7, <3>1
  <2>2. CASE Goal(b, ask, m) # head.to
    <3>. DEFINE p == Goal(b, ask, m)  seen == Wanted(b, m)
    <3>. HIDE DEF p, seen
    <3>1. ASSUME Wrote(tree, p, seen) PROVE Wrote(t, p, seen)
      <4>1. \A k \in Live(tree) : PathOf(tree, k) = p => t[k].data = tree[k].data
        BY <1>8, <2>2 DEF p
      <4>. QED BY <1>2, <1>8, <3>1, <4>1, WroteKept
    <3>. QED BY <1>2, <3>1 DEF Remaining, p, seen
  <2>. QED BY <2>1, <2>2
<1>13. Copies(t, b, next)
  BY <1>1, <1>2, <1>8, <1>9, <1>11, <1>12 DEF Copies, Remaining, Apartly, W, T, head
<1>. QED BY <1>10, <1>11, <1>13 DEF Served, b

(* and gets the data of what its source leads to, which nobody has written. *)
LEMMA CopyDataServes ==
    ASSUME Typed, NEW r \in Requests, before[r] # Nil, Copying(tree, before[r], req[r]),
           Copies(tree, before[r], req[r]), Sound(before[r], req[r].ask), CopyData(r)
    PROVE  Served(tree', before[r], req'[r], r)
<1>. DEFINE b == before[r]
            ask == req[r].ask
            old == req[r].todo
            head == Head(old)
            todo == Tail(old)
            W == Goals(b, ask)
            T == {Dest(b, ask)}
            in == req[r].in
            out == req[r].out
            x == tree[in].data
            t == Holding(tree, out, x)
            S == CopyTasks(b, ask)
<1>1. req[r].at = "copy data" /\ tree[in].kind = "file" /\ Makes(r, t, CopyNext(r, todo))
  BY DEF CopyData, Holding
<1>2. /\ Remaining(tree, b, ask, old) /\ ~req[r].ok /\ old # <<>>
      /\ Tree(tree) /\ todo \in Seq(S)
  BY <1>1, TaskFacts
<1>3. PICK n \in Sources(b, ask) : head = CopyTask(b, ask, n)
  BY <1>1, TaskFacts
<1>4. /\ ~head.dir /\ in = Stat(tree, head.from)
      /\ out \in Live(tree) /\ PathOf(tree, out) = head.to /\ tree[out].kind = "file"
  BY <1>1 DEF Copies
<1>5. head.from = PathOf(b, n) /\ head.to = Goal(b, ask, n) /\ head.dir = (b[n].kind = "dir")
  BY <1>3 DEF CopyTask
<1>6. Apartly(b, ask) /\ Tree(b) /\ Spread(b, tree, W, T)
  BY <1>2 DEF Remaining, Apartly
<1>7. in \in Live(tree) /\ Wanted(b, n) = File(x)
  <2>1. in = Stat(tree, PathOf(b, n)) /\ Spread(b, tree, Goals(b, ask), {Dest(b, ask)})
    BY <1>4, <1>5, <1>6
  <2>. HIDE DEF in, b, x, W, T
  <2>2. /\ in \in Live(tree)
        /\ tree[in].kind = "file" => Wanted(b, n) = File(tree[in].data)
    BY <1>6, <2>1, SourceFound
  <2>. QED BY <1>1, <2>2 DEF x
<1>8. x \in Contents
  <2>1. in \in Node /\ tree \in [Node -> Nodes]
    BY <1>2, <1>7 DEF Tree, Structured, Live
  <2>. QED BY <2>1, NodeFields
<1>9. \A i \in 1 .. Len(old) : old[i] = head \/ \E j \in 1 .. Len(todo) : todo[j] = old[i]
  <2>1. old \in Seq(S) /\ old # <<>> BY <1>2 DEF Remaining
  <2>. HIDE DEF S, old
  <2>. QED BY <2>1, InTail
<1>. HIDE DEF b, old, head, todo, W, T, in, out, x, S
<1>10. PathOf(tree, out) = Goal(b, ask, n) /\ PathOf(tree, out) \in W
  BY <1>4, <1>5 DEF W, Goals
<1>11. /\ Tree(t) /\ Grows(tree, t) /\ Wrote(t, Goal(b, ask, n), Wanted(b, n))
       /\ \A m \in Live(tree) : m # out => t[m] = tree[m]
  <2>. DEFINE u == t
  <2>1. u = Holding(tree, out, x) OBVIOUS
  <2>. HIDE DEF u
  <2>2. /\ Tree(u) /\ Grows(tree, u) /\ Wrote(u, PathOf(tree, out), File(x))
        /\ \A m \in Live(tree) : m # out => u[m] = tree[m]
    BY <1>2, <1>4, <1>8, <2>1, HoldingWrote
  <2>. QED BY <1>7, <1>10, <2>2 DEF u
<1>12. Spread(b, t, W, T) BY <1>4, <1>6, <1>8, <1>10, SpreadHolding
<1>. HIDE DEF t
<1>13. tree' = t /\ req'[r] = CopyNext(r, todo) BY <1>1, HasMade
<1>14. ASSUME NEW m \in Sources(b, ask)
       PROVE  \/ Wrote(t, Goal(b, ask, m), Wanted(b, m))
              \/ \E i \in 1 .. Len(todo) : IsPrefix(todo[i].from, PathOf(b, m))
  <2>1. CASE m = n BY <1>11, <2>1
  <2>2. CASE m # n
    <3>1. ~IsPrefix(PathOf(b, n), PathOf(b, m))
      <4>1. n \in Live(b) /\ m \in Live(b) BY DEF Sources
      <4>. QED BY <1>4, <1>5, <1>6, <2>2, <4>1, AncestorIsDir DEF AtOrBelow
    <3>2. Goal(b, ask, m) # Goal(b, ask, n) BY <1>6, <2>2, SourcesDef
    <3>. DEFINE p == Goal(b, ask, m)  seen == Wanted(b, m)
    <3>. HIDE DEF p, seen
    <3>3. ASSUME Wrote(tree, p, seen) PROVE Wrote(t, p, seen)
      <4>1. \A k \in Live(tree) : PathOf(tree, k) = p => t[k].data = tree[k].data
        BY <1>10, <1>11, <3>2 DEF p
      <4>. QED BY <1>2, <1>11, <3>3, <4>1, WroteKept
    <3>4. CASE \E i \in 1 .. Len(old) : IsPrefix(old[i].from, PathOf(b, m))
      BY <1>5, <1>9, <3>1, <3>4
    <3>. QED BY <1>2, <3>3, <3>4 DEF Remaining, p, seen
  <2>. QED BY <2>1, <2>2
<1>15. Remaining(t, b, ask, todo)
  BY <1>2, <1>6, <1>12, <1>14 DEF Remaining, S, W, T
<1>. QED BY <1>2, <1>13, <1>15, CopyNextServes DEF b

-----------------------------------------------------------------------------
(* The theorem on success.                                                 *)

(* A copy does not go back to resolving.                                   *)
LEMMA CopyStages ==
    ASSUME Typed, NEW r \in Requests,
           CopyStats(r) \/ CopyMakesDir(r) \/ CopyReadsDir(r)
           \/ CopyOpensSource(r) \/ CopyOpensDest(r) \/ CopyData(r)
    PROVE  req'[r].at \in {"copy", "read directory", "open destination", "copy data", "done"}
<1>1. req[r] \in Request BY Current
<1>2. ASSUME NEW todo PROVE CopyNext(r, todo).at \in {"copy", "done"}
  <2>1. [req[r] EXCEPT !.at = "copy", !.todo = todo].at = "copy"
    BY <1>1 DEF Request
  <2>. QED BY <2>1, DoneIs DEF CopyNext
<1>3. CASE \E todo, t : GoesOn(r, CopyNext(r, todo)) \/ Makes(r, t, CopyNext(r, todo))
  <2>1. PICK todo, t : GoesOn(r, CopyNext(r, todo)) \/ Makes(r, t, CopyNext(r, todo))
    BY <1>3
  <2>2. req'[r] = CopyNext(r, todo) BY <2>1, GoneOn, HasMade
  <2>. QED BY <1>2, <2>2
<1>4. CASE CopyStats(r) BY <1>3, <1>4 DEF CopyStats
<1>5. CASE CopyReadsDir(r) BY <1>3, <1>5 DEF CopyReadsDir
<1>6. CASE CopyData(r) BY <1>3, <1>6 DEF CopyData
<1>7. CASE CopyOpensDest(r)
  <2>. DEFINE t == OpenTruncated(tree, Head(req[r].todo).to)
              next == [req[r] EXCEPT !.at = "copy data", !.out = Stat(t, Head(req[r].todo).to)]
  <2>1. Makes(r, t, next) BY <1>7 DEF CopyOpensDest
  <2>2. next.at = "copy data" BY <1>1 DEF Request
  <2>. HIDE DEF next, t
  <2>. QED BY <2>1, <2>2, HasMade
<1>8. CASE CopyMakesDir(r)
  <2>. DEFINE next == [req[r] EXCEPT !.at = "read directory"]
  <2>1. req[r].at = "copy" /\ (GoesOn(r, next) \/ \E t : Makes(r, t, req[r]))
    BY <1>8 DEF CopyMakesDir, MkdirAll
  <2>2. next.at = "read directory" BY <1>1 DEF Request
  <2>. HIDE DEF next
  <2>3. req'[r] = next \/ req'[r] = req[r] BY <2>1, GoneOn, HasMade
  <2>. QED BY <2>1, <2>2, <2>3
<1>9. CASE CopyOpensSource(r)
  <2>. DEFINE next == [req[r] EXCEPT !.at = "open destination",
                                     !.in = Stat(tree, Head(req[r].todo).from)]
  <2>1. GoesOn(r, next) BY <1>9 DEF CopyOpensSource
  <2>2. next.at = "open destination" BY <1>1 DEF Request
  <2>. HIDE DEF next
  <2>. QED BY <2>1, <2>2, GoneOn
<1>. QED BY <1>4, <1>5, <1>6, <1>7, <1>8, <1>9

(* So a copy does what it says.                                            *)
LEMMA CopyFulfils ==
    ASSUME Typed, NEW r \in Requests, before[r] # Nil, Confines(tree, before[r], req[r]),
           Fulfils(tree, before[r], req[r], r),
           CopyStats(r) \/ CopyMakesDir(r) \/ CopyReadsDir(r)
           \/ CopyOpensSource(r) \/ CopyOpensDest(r) \/ CopyData(r)
    PROVE  Fulfils(tree', before[r], req'[r], r)
<1>. DEFINE b == before[r]
            ask == req[r].ask
            new == req'[r]
<1>1. /\ req[r].at # "idle" /\ ~req[r].ok /\ new.ask = ask /\ ask.op = "copy"
  BY CopyStatsAdvances, CopyMakesDirAdvances, CopyReadsDirAdvances,
     CopyOpensSourceAdvances, CopyOpensDestAdvances, CopyDataAdvances, Advanced, WhoseStep DEF Op
<1>2. Sourced(b, req[r]) /\ (Sound(b, ask) => Copies(tree, b, req[r]))
  BY <1>1 DEF Fulfils
<1>3. Sound(b, ask) => Copying(tree, b, req[r])
  BY <1>1 DEF Confines, Sound
<1>4. Sourced(b, new)
  <2>1. new.at \in {"copy", "read directory", "open destination", "copy data", "done"}
    BY CopyStages
  <2>. HIDE DEF new
  <2>. QED BY <2>1 DEF Sourced
<1>5. ASSUME Sound(b, ask) PROVE Fulfils(tree', b, new, r)
  <2>1. Served(tree', b, new, r)
    BY <1>2, <1>3, <1>5, CopyStatsServes, CopyMakesDirServes, CopyReadsDirServes,
       CopyOpensSourceServes, CopyOpensDestServes, CopyDataServes
  <2>. HIDE DEF b, new, ask
  <2>. QED BY <1>1, <1>4, <2>1, OkFulfils DEF Served, Fulfils
<1>6. ASSUME ~Sound(b, ask) PROVE Fulfils(tree', b, new, r)
  <2>. HIDE DEF b, new, ask
  <2>1. Granted(tree', b, new.ask, r) BY <1>1, <1>6 DEF Granted
  <2>. QED BY <1>1, <1>4, <1>6, <2>1 DEF Fulfils
<1>. QED BY <1>5, <1>6

(* Every step of every operation keeps to the invariant.                   *)
LEMMA StepFulfils ==
    ASSUME Typed, NEW r \in Requests, before[r] # Nil, Confines(tree, before[r], req[r]),
           Fulfils(tree, before[r], req[r], r),
           Fails(r) \/ ResolvePath(r) \/ ResolveUpload(r) \/ ResolveDest(r) \/ ResolveWithin(r)
           \/ MakeDirectory(r) \/ CreateFile(r) \/ UploadMakesParents(r) \/ UploadOpens(r)
           \/ UploadWrites(r) \/ RemoveOne(r) \/ RemoveOpensParent(r) \/ RemoveReadsDir(r)
           \/ RemoveNext(r) \/ Rename(r) \/ MoveMakesParents(r) \/ Move(r) \/ CopyStats(r)
           \/ CopyMakesDir(r) \/ CopyReadsDir(r) \/ CopyOpensSource(r) \/ CopyOpensDest(r)
           \/ CopyData(r) \/ Open(r)
    PROVE  Fulfils(tree', before[r], req'[r], r)
<1>1. CASE ResolveUpload(r) \/ UploadMakesParents(r) \/ UploadOpens(r) \/ UploadWrites(r)
  <2>1. Op(r) = "upload" BY <1>1, WhoseStep
  <2>. QED BY <1>1, <2>1, UploadFulfils
<1>. QED BY <1>1, FailsFulfils, ResolvePathFulfils, ResolveOtherFulfils, MakeFulfils,
         DeleteFulfils, RenameFulfils, MoveFulfils, CopyFulfils, OpenFulfils

(* A request begins with everything to do.                                 *)
LEMMA ArriveFulfilled ==
    ASSUME Typed, Fulfilled, NEW r \in Requests, NEW ask \in Inputs, Arrive(r, ask)
    PROVE  Fulfilled'
<1>. DEFINE todo == [i \in DOMAIN ask.files |-> ask.path \o Filename(ask.files[i])]
            new == [Idle EXCEPT !.at = "resolve", !.ask = ask, !.todo = todo]
<1>1. /\ tree' = tree /\ req' = [req EXCEPT ![r] = new]
      /\ before' = [before EXCEPT ![r] = tree]
  BY DEF Arrive
<1>2. ASSUME ask.op = "upload", NEW p \in Sent(tree, ask)
      PROVE  \E i \in 1 .. Len(todo) : Place(tree, todo[i]) = p
  <2>1. todo \in Seq(SentPaths(ask)) /\ DOMAIN todo = DOMAIN ask.files
    BY <1>2, SentTodo
  <2>2. PICK i \in DOMAIN ask.files : p = Place(tree, ask.path \o Filename(ask.files[i]))
    BY DEF Sent, SentPaths
  <2>3. todo[i] = ask.path \o Filename(ask.files[i]) OBVIOUS
  <2>. HIDE DEF todo
  <2>4. i \in 1 .. Len(todo) BY <2>1, LenProperties
  <2>. QED BY <2>2, <2>3, <2>4
<1>. HIDE DEF todo
<1>3. new.at = "resolve" /\ new.ask = ask /\ new.todo = todo /\ ~new.ok
  BY DEF Idle
<1>. HIDE DEF new
<1>4. /\ req'[r] = new /\ before'[r] = tree
      /\ \A q \in Requests \ {r} : req'[q] = req[q] /\ before'[q] = before[q]
  BY <1>1 DEF Typed
<1>5. Fulfils(tree, tree, new, r)
  <2>1. Sourced(tree, new) /\ Copies(tree, tree, new)
    BY <1>3 DEF Sourced, Copies
  <2>2. ask.op = "upload" => Loading(tree, tree, new, r)
    BY <1>2, <1>3 DEF Loading
  <2>. QED BY <1>3, <2>1, <2>2 DEF Fulfils
<1>6. ASSUME NEW q \in Requests PROVE Fulfils(tree', before'[q], req'[q], q)
  <2>1. CASE q = r BY <1>1, <1>4, <1>5, <2>1
  <2>2. CASE q # r BY <1>1, <1>4, <2>2 DEF Fulfilled
  <2>. QED BY <2>1, <2>2
<1>. QED BY <1>6 DEF Fulfilled

LEMMA AdvanceFulfilled ==
    ASSUME Typed, Fulfilled, NEW r \in Requests, Advances(r),
           before[r] # Nil => Fulfils(tree', before[r], req'[r], r)
    PROVE  Fulfilled'
<1>1. ASSUME NEW q \in Requests PROVE Fulfils(tree', before'[q], req'[q], q)
  <2>1. CASE q = r
    <3>1. before'[q] = before[r] BY <2>1, Advanced
    <3>. QED BY <2>1, <3>1 DEF Fulfils
  <2>2. CASE q # r
    <3>1. req'[q] = req[q] /\ ((tree' = tree /\ before'[q] = before[q]) \/ before'[q] = Nil)
      BY <2>2, Advanced
    <3>2. CASE before'[q] = Nil BY <3>2 DEF Fulfils
    <3>3. CASE tree' = tree /\ before'[q] = before[q]
      BY <3>1, <3>3 DEF Fulfilled
    <3>. QED BY <3>1, <3>2, <3>3
  <2>. QED BY <2>1, <2>2
<1>. QED BY <1>1 DEF Fulfilled

LEMMA InitFulfilled == Init => Fulfilled
BY DEF Init, Fulfilled, Fulfils, Idle

(* The invariant on success is inductive.                                  *)
LEMMA FulfilledInductive == Typed /\ Confined /\ Fulfilled /\ [Next]_vars => Fulfilled'
<1>. SUFFICES ASSUME Typed, Confined, Fulfilled, [Next]_vars PROVE Fulfilled'
  OBVIOUS
<1>1. CASE UNCHANGED vars BY <1>1 DEF vars, Fulfilled
<1>2. ASSUME NEW r \in Requests, NEW ask \in Inputs, Arrive(r, ask) PROVE Fulfilled'
  BY <1>2, ArriveFulfilled
<1>3. ASSUME NEW r \in Requests, Advances(r),
             before[r] # Nil => Fulfils(tree', before[r], req'[r], r)
      PROVE  Fulfilled'
  BY <1>3, AdvanceFulfilled
<1>4. \A r \in Requests : Confines(tree, before[r], req[r]) /\ Fulfils(tree, before[r], req[r], r)
  BY DEF Confined, Fulfilled
<1>. QED BY <1>1, <1>2, <1>3, <1>4, NextAdvances, StepFulfils DEF Next

(* A request that is answered "ok" and that nobody disturbed has done what *)
(* its name says, to what its paths name and to nothing else: a rename or a *)
(* move has everything below the old place at the new one, a copy is what the *)
(* source is to its readers and leaves the source as it was, an upload has *)
(* every file at its place.                                                *)
THEOREM OkMeansItIsDone == Spec => []OkMeansDone
<1>1. Init => Typed /\ Confined /\ Fulfilled
  BY InitTyped, InitConfined, InitFulfilled
<1>2. Typed /\ Confined /\ Fulfilled /\ [Next]_vars => (Typed /\ Confined /\ Fulfilled)'
  BY TypedInductive, ConfinedInductive, FulfilledInductive
<1>3. Typed /\ Fulfilled => OkMeansDone BY FulfilledDone
<1>. QED BY <1>1, <1>2, <1>3, PTL DEF Spec

=============================================================================
