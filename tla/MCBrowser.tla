----------------------------- MODULE MCBrowser -----------------------------
(* Two directories, so that an answer can be about the one the user has    *)
(* left, two names, so that a bulk operation has a second file, and two    *)
(* listings in flight, so that they can be answered out of order.          *)
EXTENDS Browser, FileTypes

CONSTANTS docs, pics, f1, f2, l1, l2, o1, c1, nothing, ts, py, other

MCDirs == {docs, pics}
MCNames == {f1, f2}
MCFiles == {<<docs, f1>>, <<docs, f2>>, <<pics, f1>>}
MCListings == {l1, l2}
MCOperations == {o1}
MCCsrfTokens == {c1}
MCExtensions == {ts, py}
Alike == Permutations(MCListings)

(* The file types of all documents with up to two types of up to two       *)
(* patterns, and whatever they say, the program's own name wins.           *)
Documents ==
    LET MCGlobs == [ext : Extensions \union {NoExtension}, weight : {10, 50}]
        MCTypes == [name : TypeNames \union {NoName}, globs : BoundedSeq(MCGlobs, 2)]
    IN BoundedSeq(MCTypes, 2)

ASSUME ParseKeepsItsPromise == \A document \in Documents : ParsePromise(document)

ASSUME OverridesWin ==
    \A document \in Documents :
        \A databases \in {<<>>, <<document>>} : Load(databases, ts :> f2)[ts] = f2

=============================================================================
