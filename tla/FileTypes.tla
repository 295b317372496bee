----------------------------- MODULE FileTypes -----------------------------
(***************************************************************************)
(* The names of file types (internal/mimetypes/mimetypes.go) that the      *)
(* browser shows beside the files: parse reads the system's database of    *)
(* types, each with a comment and the patterns it claims, and Load puts    *)
(* the program's own names over what it finds.                             *)
(***************************************************************************)
EXTENDS Naturals, Sequences, SequencesExt

CONSTANTS
    Extensions,     \* lower-case extensions
    NoExtension,    \* what singleExtension finds in "Makefile" or "*.tar.gz"
    TypeNames,      \* unlocalized comments
    NoName          \* a type without one

(* A glob with its weight, 50 where the document gives none or no number.  *)
Glob == [ext : Extensions \union {NoExtension}, weight : Nat]
MimeType == [name : TypeNames \union {NoName}, globs : Seq(Glob)]

Claim(name, glob) == [name |-> name, ext |-> glob.ext, weight |-> glob.weight]

(* The claims of a document in the order parse meets them.                 *)
Claims(types) ==
    LET Of(t) == [i \in DOMAIN t.globs |-> Claim(t.name, t.globs[i])]
        Counts(c) == c.name # NoName /\ c.ext # NoExtension
    IN SelectSeq(FlattenSeq([i \in DOMAIN types |-> Of(types[i])]), Counts)

(* best, after one more claim: a heavier one replaces the one there is.    *)
Better(best, claim) ==
    IF claim.ext \notin DOMAIN best \/ claim.weight > best[claim.ext].weight
    THEN (claim.ext :> claim) @@ best
    ELSE best

Parse(types) ==
    LET best == FoldLeft(Better, <<>>, Claims(types))
    IN [ext \in DOMAIN best |-> best[ext].name]

(* The first database that can be read and parsed, or none.                *)
Load(databases, overrides) ==
    overrides @@ (IF databases = <<>> THEN <<>> ELSE Parse(Head(databases)))

-----------------------------------------------------------------------------
(* What parse promises: every extension claimed by a type with a name goes *)
(* to the heaviest of its claims, and of those to the first.               *)
ParsePromise(types) ==
    LET claims == Claims(types)
        Wins(i) ==
            \A j \in DOMAIN claims : claims[j].ext = claims[i].ext =>
                \/ claims[i].weight > claims[j].weight
                \/ claims[i].weight = claims[j].weight /\ i <= j
        Winners == {i \in DOMAIN claims : Wins(i)}
    IN /\ DOMAIN Parse(types) = {claims[i].ext : i \in DOMAIN claims}
       /\ \A i \in Winners : Parse(types)[claims[i].ext] = claims[i].name

=============================================================================
