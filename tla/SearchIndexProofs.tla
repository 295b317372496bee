------------------------- MODULE SearchIndexProofs -------------------------
(***************************************************************************)
(* Proofs about SearchIndex.tla, for any number of files, indexes, callers *)
(* of Rebuild and searches, any batch size and any limit on the hits.      *)
(***************************************************************************)
EXTENDS SearchIndex, FiniteSetTheorems, TLAPS

(* The flag lets one build run at a time.                                  *)
OneBuild ==
    /\ \A b \in Rebuilders : build[b].at # "idle" => building
    /\ \A b, c \in Rebuilders : build[b].at # "idle" /\ build[c].at # "idle" => b = c

(* A build starts with nothing in its hands.                               *)
FreshBuild ==
    \A b \in Rebuilders : build[b].at \in {"idle", "create"} => build[b].batch = {}

(* Who refers to which index: the one being built is open and nobody       *)
(* else's, the one about to be closed is no longer current, and a search   *)
(* has one while it queries.                                               *)
Referred ==
    /\ \A b \in Rebuilders :
        /\ build[b].next # NoIndex =>
            /\ build[b].next \in open
            /\ ~Visible(build[b].next)
        /\ build[b].old # NoIndex => build[b].at = "close" /\ build[b].old # bleve
    /\ \A s \in Searchers : search[s].index # NoIndex => search[s].at = "query"

(* An index that is not open has no documents.                             *)
ClosedAreEmpty == \A i \in Slots \ open : docs[i] = {}

(* Documents are added one at a time.                                      *)
FinitelyMany ==
    /\ \A i \in Slots : IsFiniteSet(docs[i])
    /\ \A b \in Rebuilders : IsFiniteSet(build[b].batch)

(* What is said of a file that has not changed since the build began is    *)
(* true, in the index and in the batch.                                    *)
SettledIsTrue ==
    \A i \in open : \A f \in settled[i] :
        /\ f \in Present
        /\ \A e \in docs[i] : e.path = f => e.stat = tree[f]
        /\ \A b \in Rebuilders : build[b].next = i =>
            \A e \in build[b].batch : e.path = f => e.stat = tree[f]

(* And something is said of it, or will be before the build ends.          *)
Document(f) == [path |-> f, stat |-> tree[f]]

WillSay(b, f) ==
    build[b].at = "walk" /\ (f \in build[b].todo \/ Document(f) \in build[b].batch)

SettledIsSaid ==
    \A i \in open : \A f \in settled[i] :
        \/ Document(f) \in docs[i]
        \/ \E b \in Rebuilders : build[b].next = i /\ WillSay(b, f)

RolesInv == OneBuild /\ FreshBuild /\ Referred /\ NoIndexLeaks

ContentInv == ClosedAreEmpty /\ FinitelyMany /\ SettledIsTrue /\ SettledIsSaid

IndexInv == TypeOK /\ RolesInv /\ ContentInv

-----------------------------------------------------------------------------
LEMMA Constants ==
    /\ NoBuild \in Build
    /\ NoSearch \in Search
    /\ \A id \in Identities, q \in Queries, at \in SearchSteps :
            [NoSearch EXCEPT !.at = at, !.id = id, !.query = q] \in Search
    /\ Absent \notin AnyStat
    /\ \A f \in Files : Stats[f] \subseteq AnyStat
<1>1. (CHOOSE id \in Identities : TRUE) \in Identities /\ (CHOOSE q \in Queries : TRUE) \in Queries
    BY QueriesAssumption
<1>2. NoSearch \in Search
    BY <1>1 DEF NoSearch, Search, SearchSteps
<1>3. NoBuild \in Build
    BY DEF NoBuild, Build, BuildSteps
<1>4. \A id \in Identities, q \in Queries, at \in SearchSteps :
            [NoSearch EXCEPT !.at = at, !.id = id, !.query = q] \in Search
    BY <1>2 DEF Search
<1>5. Absent \notin AnyStat /\ \A f \in Files : Stats[f] \subseteq AnyStat
    BY AbsentAssumption DEF AnyStat
<1> QED BY <1>2, <1>3, <1>4, <1>5

LEMMA InitIndexInv == Init => IndexInv
<1> SUFFICES ASSUME Init PROVE IndexInv
    OBVIOUS
<1>1. TypeOK
    BY Constants, NoIndexAssumption DEF Init, TypeOK, NoBuild
<1>2. RolesInv
    BY NoIndexAssumption
    DEF Init, NoBuild, NoSearch, RolesInv, OneBuild, FreshBuild, Referred, NoIndexLeaks
<1>3. ContentInv
    BY FS_EmptySet
    DEF Init, NoBuild, ContentInv, ClosedAreEmpty, FinitelyMany, SettledIsTrue, SettledIsSaid
<1> QED BY <1>1, <1>2, <1>3 DEF IndexInv

(* The tree changes under the build.                                       *)
LEMMA FileChangesKeeps ==
    ASSUME IndexInv, NEW g \in Files, NEW stat \in AnyStat \union {Absent}, FileChanges(g, stat)
    PROVE  IndexInv'
<1> USE DEF IndexInv
<1>1. /\ tree' = [tree EXCEPT ![g] = stat]
      /\ settled' = [i \in Slots |-> settled[i] \ {g}]
      /\ UNCHANGED <<docs, open, bleve, ready, building, build, search>>
    BY DEF FileChanges, indexes
<1>2. TypeOK'
    BY <1>1 DEF TypeOK
<1>3. RolesInv'
    BY <1>1 DEF RolesInv, OneBuild, FreshBuild, Referred, NoIndexLeaks, Visible
<1>4. \A i \in open : \A f \in settled'[i] :
          f \in settled[i] /\ f \in Files /\ tree'[f] = tree[f] /\ Document(f)' = Document(f)
  <2> SUFFICES ASSUME NEW i \in open, NEW f \in settled'[i]
               PROVE  f \in settled[i] /\ f \in Files /\ tree'[f] = tree[f]
      BY DEF Document
  <2>1. f \in settled[i] /\ f # g
      BY <1>1 DEF TypeOK
  <2>2. f \in Files
      BY <2>1 DEF TypeOK
  <2> QED BY <1>1, <2>1, <2>2 DEF TypeOK
<1>5. (ClosedAreEmpty /\ FinitelyMany)'
    BY <1>1 DEF ContentInv, ClosedAreEmpty, FinitelyMany
<1>6. SettledIsTrue'
    BY <1>1, <1>4 DEF ContentInv, SettledIsTrue, Present
<1>7. SettledIsSaid'
    BY <1>1, <1>4 DEF ContentInv, SettledIsSaid, WillSay
<1> QED BY <1>2, <1>3, <1>5, <1>6, <1>7 DEF ContentInv

-----------------------------------------------------------------------------
(* A build begins and ends.                                                *)
LEMMA RebuildKeeps ==
    ASSUME IndexInv, NEW b \in Rebuilders, Rebuild(b)
    PROVE  IndexInv'
<1> USE DEF IndexInv
<1>1. /\ build[b].at = "idle" /\ ~building /\ building'
      /\ build' = [build EXCEPT ![b].at = "create"]
      /\ UNCHANGED <<tree, docs, open, bleve, ready, search, settled>>
    BY DEF Rebuild, indexes
<1>2. /\ build' \in [Rebuilders -> Build]
      /\ build'[b].at = "create" /\ build'[b].batch = build[b].batch
      /\ build'[b].next = build[b].next /\ build'[b].old = build[b].old
      /\ \A c \in Rebuilders : c # b => build'[c] = build[c]
    BY <1>1 DEF TypeOK, Build, BuildSteps
<1>3. TypeOK'
    BY <1>1, <1>2 DEF TypeOK
<1>4. (OneBuild /\ FreshBuild)'
    BY <1>1, <1>2 DEF RolesInv, OneBuild, FreshBuild
<1>5. (Referred /\ NoIndexLeaks)'
    BY <1>1, <1>2 DEF RolesInv, Referred, NoIndexLeaks, Visible
<1>6. (ClosedAreEmpty /\ FinitelyMany /\ SettledIsTrue)'
    BY <1>1, <1>2 DEF ContentInv, ClosedAreEmpty, FinitelyMany, SettledIsTrue, Present
<1>7. build[b].next = NoIndex
    BY <1>1 DEF TypeOK
<1>8. SettledIsSaid'
    BY <1>1, <1>2, <1>7, NoIndexAssumption DEF ContentInv, SettledIsSaid, WillSay, Document, TypeOK
<1> QED BY <1>3, <1>4, <1>5, <1>6, <1>8 DEF RolesInv, ContentInv

LEMMA RebuildEndsKeeps ==
    ASSUME IndexInv, NEW b \in Rebuilders, NewIndexFails(b) \/ SetReady(b) \/ RebuildReturns(b)
    PROVE  IndexInv'
<1> USE DEF IndexInv
<1>1. /\ build[b].at \in {"create", "ready", "done"}
      /\ ready' \in BOOLEAN
      /\ UNCHANGED <<tree, docs, open, bleve, search, settled>>
    BY DEF NewIndexFails, SetReady, RebuildReturns, indexes, TypeOK
<1>2. build[b].next = NoIndex /\ build[b].old = NoIndex /\ building
    BY <1>1 DEF TypeOK, RolesInv, OneBuild, Referred
<1>3. /\ build' \in [Rebuilders -> Build] /\ building' \in BOOLEAN
      /\ build'[b].next = NoIndex /\ build'[b].old = NoIndex
      /\ \/ build'[b].at = "done" /\ building' /\ build'[b].batch = build[b].batch
         \/ build'[b].at = "idle" /\ build'[b].batch = {}
      /\ \A c \in Rebuilders : c # b => build'[c] = build[c]
  <2>1. CASE NewIndexFails(b) \/ SetReady(b)
    <3>1. build' = [build EXCEPT ![b].at = "done"] /\ building' = building
        BY <2>1 DEF NewIndexFails, SetReady
    <3> QED BY <1>2, <3>1 DEF TypeOK, Build, BuildSteps
  <2>2. CASE RebuildReturns(b)
    <3>1. build' = [build EXCEPT ![b] = NoBuild] /\ building' = FALSE
        BY <2>2 DEF RebuildReturns
    <3>2. build' \in [Rebuilders -> Build] /\ build'[b] = NoBuild
        BY <3>1, Constants DEF TypeOK
    <3> QED BY <3>1, <3>2 DEF NoBuild, TypeOK
  <2> QED BY <2>1, <2>2
<1>4. TypeOK'
    BY <1>1, <1>3 DEF TypeOK
<1>5. (OneBuild /\ FreshBuild)'
    BY <1>1, <1>2, <1>3 DEF RolesInv, OneBuild, FreshBuild
<1>6. Referred'
    BY <1>1, <1>3 DEF RolesInv, Referred, Visible
<1>7. NoIndexLeaks'
  <2>1. \A i \in open : i # NoIndex
      BY NoIndexAssumption DEF TypeOK
  <2> QED BY <1>1, <1>2, <1>3, <2>1 DEF RolesInv, NoIndexLeaks
<1>8. (ClosedAreEmpty /\ FinitelyMany)'
    BY <1>1, <1>3, FS_EmptySet DEF ContentInv, ClosedAreEmpty, FinitelyMany
<1>9. SettledIsTrue'
    BY <1>1, <1>2, <1>3 DEF ContentInv, SettledIsTrue, Present
<1>10. SettledIsSaid'
    BY <1>1, <1>2, <1>3, NoIndexAssumption DEF ContentInv, SettledIsSaid, WillSay, Document, TypeOK
<1> QED BY <1>4, <1>5, <1>6, <1>7, <1>8, <1>9, <1>10 DEF RolesInv, ContentInv

(* A new index takes a slot nothing refers to, and everything there is     *)
(* will be said of.                                                        *)
LEMMA NewIndexKeeps ==
    ASSUME IndexInv, NEW b \in Rebuilders, NewIndex(b)
    PROVE  IndexInv'
<1> USE DEF IndexInv
<1>1. PICK i \in Slots :
          /\ Unused(i)
          /\ open' = open \union {i}
          /\ settled' = [settled EXCEPT ![i] = Present]
          /\ build' = [build EXCEPT ![b] = Walk(@, i)]
  <2>1. (CHOOSE i \in Slots : Unused(i)) \in Slots /\ Unused(CHOOSE i \in Slots : Unused(i))
      BY DEF NewIndex
  <2> QED BY <2>1 DEF NewIndex
<1>2. /\ build[b].at = "create"
      /\ UNCHANGED <<tree, docs, bleve, ready, building, search>>
    BY DEF NewIndex
<1>3. /\ i \notin open /\ i # bleve /\ i # NoIndex
      /\ \A s \in Searchers : search[s].index # i
      /\ \A c \in Rebuilders : i # build[c].next /\ i # build[c].old
    BY <1>1, NoIndexAssumption DEF Unused
<1>4. build[b].batch = {} /\ build[b].old = NoIndex /\ build[b].next = NoIndex
    BY <1>2 DEF TypeOK, RolesInv, FreshBuild, Referred
<1>5. /\ build' \in [Rebuilders -> Build]
      /\ build'[b].at = "walk" /\ build'[b].todo = Files /\ build'[b].batch = {}
      /\ build'[b].next = i /\ build'[b].old = NoIndex
      /\ \A c \in Rebuilders : c # b => build'[c] = build[c]
  <2>1. build \in [Rebuilders -> Build]
      BY DEF TypeOK
  <2>2. Walk(build[b], i) = [build[b] EXCEPT !.at = "walk", !.todo = Files, !.next = i]
      BY DEF Walk
  <2>3. Walk(build[b], i) \in Build
    <3>1. build[b] \in Build /\ Files \in SUBSET Files /\ i \in Slots \union {NoIndex}
        BY <2>1
    <3> QED BY <2>2, <3>1 DEF Build, BuildSteps
  <2>4. build' = [build EXCEPT ![b] = Walk(build[b], i)]
      BY <1>1
  <2>5. /\ build' \in [Rebuilders -> Build]
        /\ build'[b] = Walk(build[b], i)
        /\ \A c \in Rebuilders : c # b => build'[c] = build[c]
      BY <2>1, <2>3, <2>4
  <2> QED BY <1>4, <2>1, <2>2, <2>5 DEF Build
<1>6. TypeOK'
  <2>1. settled' \in [Slots -> SUBSET Files] /\ open' \subseteq Slots
      BY <1>1 DEF TypeOK, Present
  <2> QED BY <1>2, <1>3, <1>5, <2>1 DEF TypeOK
<1>7. (OneBuild /\ FreshBuild)'
    BY <1>2, <1>5 DEF RolesInv, OneBuild, FreshBuild
<1>8. (Referred /\ NoIndexLeaks)'
    BY <1>1, <1>2, <1>3, <1>4, <1>5 DEF RolesInv, Referred, NoIndexLeaks, Visible
<1>9. docs[i] = {}
    BY <1>3 DEF ContentInv, ClosedAreEmpty
<1>10. /\ settled'[i] = Present
       /\ \A j \in Slots : j # i => settled'[j] = settled[j]
    BY <1>1 DEF TypeOK
<1>11. (ClosedAreEmpty /\ FinitelyMany)'
    BY <1>1, <1>2, <1>5, FS_EmptySet DEF ContentInv, ClosedAreEmpty, FinitelyMany
<1>12. SettledIsTrue'
    BY <1>1, <1>2, <1>3, <1>5, <1>9, <1>10 DEF ContentInv, SettledIsTrue, Present
<1>13. SettledIsSaid'
  <2> SUFFICES ASSUME NEW j \in open', NEW f \in settled'[j]
               PROVE  \/ Document(f)' \in docs'[j]
                      \/ \E c \in Rebuilders : build'[c].next = j /\ WillSay(c, f)'
      BY DEF SettledIsSaid
  <2>1. CASE j = i
    <3>1. f \in Files
        BY <1>10, <2>1 DEF Present
    <3> QED BY <1>5, <2>1, <3>1 DEF WillSay
  <2>2. CASE j # i
    <3>1. j \in open /\ f \in settled[j] /\ j # NoIndex
        BY <1>1, <1>10, <2>2, NoIndexAssumption DEF TypeOK
    <3> QED
        BY <1>2, <1>4, <1>5, <3>1 DEF ContentInv, SettledIsSaid, WillSay, Document
  <2> QED BY <2>1, <2>2
<1> QED BY <1>6, <1>7, <1>8, <1>11, <1>12, <1>13 DEF RolesInv, ContentInv

(* Writing to the index being built, from the batch in hand: which index   *)
(* that is, and that nobody else refers to it.                             *)
LEMMA BuildsOne ==
    ASSUME IndexInv, NEW b \in Rebuilders, build[b].at \in {"walk", "swap"}
    PROVE  /\ build[b].next \in open /\ build[b].next \in Slots /\ ~Visible(build[b].next)
           /\ build[b] \in Build /\ build[b].old = NoIndex
           /\ \A c \in Rebuilders : c # b => build[c].at = "idle" /\ build[c].next = NoIndex
<1>1. build[b] \in Build /\ build[b].next # NoIndex
    BY DEF IndexInv, TypeOK
<1>2. \A c \in Rebuilders : c # b => build[c].at = "idle"
    BY DEF IndexInv, RolesInv, OneBuild
<1> QED BY <1>1, <1>2 DEF IndexInv, TypeOK, Build, RolesInv, Referred

(* A batch is written, or kept because that failed.                        *)
Flushed(b, batch, to) ==
    /\ docs' \in [Slots -> SUBSET Entry] /\ build' \in [Rebuilders -> Build]
    /\ build'[b].at = to.at /\ build'[b].todo = to.todo
    /\ build'[b].next = to.next /\ build'[b].old = to.old
    /\ \/ docs'[build[b].next] = docs[build[b].next] \union batch /\ build'[b].batch = {}
       \/ docs' = docs /\ build'[b].batch = batch
    /\ \A j \in Slots : j # build[b].next => docs'[j] = docs[j]
    /\ \A c \in Rebuilders : c # b => build'[c] = build[c]

LEMMA FlushEffect ==
    ASSUME IndexInv, NEW b \in Rebuilders, NEW batch \in SUBSET Entry, NEW to \in Build,
           build[b].next \in Slots, Flush(b, batch, to), to.batch = batch
    PROVE  Flushed(b, batch, to)
<1>t. docs \in [Slots -> SUBSET Entry] /\ build \in [Rebuilders -> Build]
    BY DEF IndexInv, TypeOK
<1>1. CASE /\ docs' = [docs EXCEPT ![build[b].next] = @ \union batch]
           /\ build' = [build EXCEPT ![b] = [to EXCEPT !.batch = {}]]
  <2>1. /\ [to EXCEPT !.batch = {}] \in Build
        /\ [to EXCEPT !.batch = {}].at = to.at /\ [to EXCEPT !.batch = {}].todo = to.todo
        /\ [to EXCEPT !.batch = {}].next = to.next /\ [to EXCEPT !.batch = {}].old = to.old
        /\ [to EXCEPT !.batch = {}].batch = {}
      BY DEF Build
  <2>2. build' \in [Rebuilders -> Build] /\ build'[b] = [to EXCEPT !.batch = {}]
        /\ \A c \in Rebuilders : c # b => build'[c] = build[c]
      BY <1>t, <1>1, <2>1
  <2>3. /\ docs' \in [Slots -> SUBSET Entry]
        /\ docs'[build[b].next] = docs[build[b].next] \union batch
        /\ \A j \in Slots : j # build[b].next => docs'[j] = docs[j]
      BY <1>t, <1>1
  <2> QED BY <2>1, <2>2, <2>3 DEF Flushed
<1>2. CASE build' = [build EXCEPT ![b] = to] /\ docs' = docs
    BY <1>t, <1>2 DEF Flushed
<1> QED BY <1>1, <1>2 DEF Flush, Flushed

(* Of the steps of the walk, what does not depend on the entry.            *)
LEMMA WalkKeepsRoles ==
    ASSUME IndexInv, NEW b \in Rebuilders, build[b].at = "walk",
           build'[b].at \in {"walk", "swap"},
           build'[b].next = build[b].next, build'[b].old = build[b].old,
           \A c \in Rebuilders : c # b => build'[c] = build[c],
           UNCHANGED <<open, bleve, building, search>>
    PROVE  RolesInv'
<1> USE DEF IndexInv
<1>1. (OneBuild /\ FreshBuild)'
    BY DEF RolesInv, OneBuild, FreshBuild
<1>2. (Referred /\ NoIndexLeaks)'
    BY BuildsOne DEF RolesInv, Referred, NoIndexLeaks, Visible
<1> QED BY <1>1, <1>2 DEF RolesInv

(* An entry is added to the batch, and the batch perhaps written.          *)
LEMMA IndexesKeeps ==
    ASSUME IndexInv, NEW b \in Rebuilders, NEW f \in Files, Visit(b, f), Indexes(b, f)
    PROVE  IndexInv'
<1> USE DEF IndexInv
<1> DEFINE batch == build[b].batch \union {[path |-> f, stat |-> tree[f]]}
           after == [build[b] EXCEPT !.todo = @ \ {f}, !.batch = batch]
<1>1. /\ build[b].at = "walk" /\ f \in build[b].todo /\ f \in Present
      /\ Flush(b, batch, after) \/ (build' = [build EXCEPT ![b] = after] /\ UNCHANGED docs)
      /\ UNCHANGED <<tree, open, bleve, ready, building, search, settled>>
    BY DEF Visit, Indexes
<1> PICK i \in open : i = build[b].next
    BY <1>1, BuildsOne
<1>2. /\ i \in Slots /\ i # NoIndex /\ build[b] \in Build
      /\ \A c \in Rebuilders : c # b => build[c].next = NoIndex
    BY <1>1, BuildsOne, NoIndexAssumption
<1>3. batch = build[b].batch \union {Document(f)} /\ Document(f) \in Entry
    BY <1>1 DEF Document, Entry, Present, TypeOK
<1>4. /\ batch \in SUBSET Entry /\ IsFiniteSet(batch)
  <2>1. IsFiniteSet(build[b].batch) /\ build[b].batch \in SUBSET Entry
      BY <1>2 DEF ContentInv, FinitelyMany, Build
  <2> QED BY <1>3, <2>1, FS_AddElement
<1>5. /\ after \in Build /\ after.batch = batch /\ after.todo = build[b].todo \ {f}
      /\ after.at = "walk" /\ after.next = i /\ after.old = build[b].old
    BY <1>1, <1>2, <1>4 DEF Build
<1> HIDE DEF after, batch
<1>6. /\ docs' \in [Slots -> SUBSET Entry] /\ build' \in [Rebuilders -> Build]
      /\ build'[b].at = "walk" /\ build'[b].todo = build[b].todo \ {f}
      /\ build'[b].next = i /\ build'[b].old = build[b].old
      /\ \/ docs'[i] = docs[i] \union batch /\ build'[b].batch = {}
         \/ docs' = docs /\ build'[b].batch = batch
      /\ \A j \in Slots : j # i => docs'[j] = docs[j]
      /\ \A c \in Rebuilders : c # b => build'[c] = build[c]
  <2>1. CASE Flush(b, batch, after)
    <3> HIDE DEF IndexInv
    <3>1. /\ batch \in SUBSET Entry /\ after \in Build /\ build[b].next \in Slots
          /\ Flush(b, batch, after) /\ after.batch = batch
        BY <1>2, <1>4, <1>5, <2>1
    <3>2. Flushed(b, batch, after)
        BY <3>1, FlushEffect
    <3> QED BY <1>5, <3>2 DEF Flushed
  <2>2. CASE build' = [build EXCEPT ![b] = after] /\ UNCHANGED docs
      BY <1>2, <1>5, <2>2 DEF TypeOK
  <2> QED BY <1>1, <2>1, <2>2
<1>7. TypeOK'
    BY <1>1, <1>2, <1>6 DEF TypeOK
<1>8. RolesInv'
    BY <1>1, <1>6, WalkKeepsRoles
<1>9. (ClosedAreEmpty /\ FinitelyMany)'
  <2>1. ClosedAreEmpty'
      BY <1>1, <1>6 DEF ContentInv, ClosedAreEmpty
  <2>2. IsFiniteSet(docs[i] \union batch) /\ IsFiniteSet({})
      BY <1>2, <1>4, FS_Union, FS_EmptySet DEF ContentInv, FinitelyMany
  <2>3. FinitelyMany'
      BY <1>2, <1>4, <1>6, <2>2 DEF ContentInv, FinitelyMany
  <2> QED BY <2>1, <2>3
<1>10. SettledIsTrue'
  <2>1. \A g \in settled[i] : \A e \in batch : e.path = g => e.stat = tree[g]
      BY <1>2, <1>3 DEF ContentInv, SettledIsTrue, Document
  <2> QED BY <1>1, <1>2, <1>6, <2>1 DEF ContentInv, SettledIsTrue, Present, TypeOK
<1>11. SettledIsSaid'
  <2> SUFFICES ASSUME NEW j \in open, NEW g \in settled[j]
               PROVE  \/ Document(g) \in docs'[j]
                      \/ \E c \in Rebuilders : build'[c].next = j /\ WillSay(c, g)'
      BY <1>1 DEF SettledIsSaid, Document
  <2>1. CASE j # i
    <3>1. Document(g) \in docs[j]
        BY <1>2, <2>1, NoIndexAssumption DEF ContentInv, SettledIsSaid, TypeOK
    <3> QED BY <1>6, <2>1, <3>1 DEF TypeOK
  <2>2. CASE j = i
    <3>1. Document(g) \in docs[i] \/ g \in build[b].todo \/ Document(g) \in build[b].batch
        BY <1>1, <1>2, <2>2 DEF ContentInv, SettledIsSaid, WillSay
    <3>2. Document(g) \in docs[i] \/ g \in build[b].todo \ {f} \/ Document(g) \in batch
        BY <1>3, <3>1
    <3>3. Document(g) \in docs'[i] \/ g \in build'[b].todo \/ Document(g) \in build'[b].batch
        BY <1>6, <3>2
    <3> QED BY <1>1, <1>6, <2>2, <3>3 DEF WillSay, Document
  <2> QED BY <2>1, <2>2
<1> QED BY <1>7, <1>8, <1>9, <1>10, <1>11 DEF ContentInv

(* An entry is passed by, and the index no longer answers for it.          *)
LEMMA SkipsKeeps ==
    ASSUME IndexInv, NEW b \in Rebuilders, NEW f \in Files, Visit(b, f), Skips(b, f)
    PROVE  IndexInv'
<1> USE DEF IndexInv
<1>1. /\ build[b].at = "walk"
      /\ build' = [build EXCEPT ![b].todo = @ \ {f}]
      /\ settled' = [settled EXCEPT ![build[b].next] = @ \ {f}]
      /\ UNCHANGED <<tree, docs, open, bleve, ready, building, search>>
    BY DEF Visit, Skips
<1> PICK i \in open : i = build[b].next
    BY <1>1, BuildsOne
<1>2. /\ i \in Slots /\ i # NoIndex /\ build[b] \in Build
      /\ \A c \in Rebuilders : c # b => build[c].next = NoIndex
    BY <1>1, BuildsOne, NoIndexAssumption
<1>3. /\ build' \in [Rebuilders -> Build]
      /\ build'[b].at = "walk" /\ build'[b].todo = build[b].todo \ {f}
      /\ build'[b].batch = build[b].batch
      /\ build'[b].next = i /\ build'[b].old = build[b].old
      /\ \A c \in Rebuilders : c # b => build'[c] = build[c]
    BY <1>1, <1>2 DEF TypeOK, Build
<1>4. /\ settled' \in [Slots -> SUBSET Files]
      /\ settled'[i] = settled[i] \ {f}
      /\ \A j \in Slots : j # i => settled'[j] = settled[j]
    BY <1>1, <1>2 DEF TypeOK
<1>5. TypeOK'
    BY <1>1, <1>2, <1>3, <1>4 DEF TypeOK
<1>6. RolesInv'
    BY <1>1, <1>3, WalkKeepsRoles
<1>7. (ClosedAreEmpty /\ FinitelyMany)'
    BY <1>1, <1>3 DEF ContentInv, ClosedAreEmpty, FinitelyMany
<1>8. SettledIsTrue'
  <2>1. \A j \in open : settled'[j] \subseteq settled[j]
      BY <1>4 DEF TypeOK
  <2>2. \A c \in Rebuilders : build'[c].batch = build[c].batch /\ build'[c].next = build[c].next
      BY <1>3
  <2> QED BY <1>1, <2>1, <2>2 DEF ContentInv, SettledIsTrue, Present
<1>9. SettledIsSaid'
  <2> SUFFICES ASSUME NEW j \in open, NEW g \in settled'[j]
               PROVE  \/ Document(g) \in docs[j]
                      \/ \E c \in Rebuilders : build'[c].next = j /\ WillSay(c, g)'
      BY <1>1 DEF SettledIsSaid, Document
  <2>1. g \in settled[j] /\ (j = i => g # f)
      BY <1>4 DEF TypeOK
  <2>2. CASE j = i
    <3>1. Document(g) \in docs[i] \/ g \in build[b].todo \/ Document(g) \in build[b].batch
        BY <1>1, <1>2, <2>1, <2>2 DEF ContentInv, SettledIsSaid, WillSay
    <3> QED BY <1>1, <1>3, <2>1, <2>2, <3>1 DEF WillSay, Document
  <2>3. CASE j # i
      BY <1>2, <2>1, <2>3, NoIndexAssumption DEF ContentInv, SettledIsSaid, TypeOK
  <2> QED BY <2>2, <2>3
<1> QED BY <1>5, <1>6, <1>7, <1>8, <1>9 DEF ContentInv

LEMMA VisitKeeps ==
    ASSUME IndexInv, NEW b \in Rebuilders, NEW f \in Files, Visit(b, f)
    PROVE  IndexInv'
BY IndexesKeeps, SkipsKeeps DEF Visit

(* The final batch: what is in it is no longer vouched for if it fails.    *)
LEMMA WalkEndsKeeps ==
    ASSUME IndexInv, NEW b \in Rebuilders, WalkEnds(b)
    PROVE  IndexInv'
<1> USE DEF IndexInv
<1> DEFINE batch == build[b].batch
           after == [build[b] EXCEPT !.at = "swap"]
<1>1. /\ build[b].at = "walk" /\ build[b].todo = {}
      /\ Flush(b, batch, after)
      /\ settled' = [settled EXCEPT ![build[b].next] = @ \ Paths(build'[b].batch)]
      /\ UNCHANGED <<tree, open, bleve, ready, building, search>>
    BY DEF WalkEnds
<1> PICK i \in open : i = build[b].next
    BY <1>1, BuildsOne
<1>2. /\ i \in Slots /\ i # NoIndex /\ build[b] \in Build
      /\ \A c \in Rebuilders : c # b => build[c].next = NoIndex
    BY <1>1, BuildsOne, NoIndexAssumption
<1>3. batch \in SUBSET Entry /\ IsFiniteSet(batch)
    BY <1>2 DEF ContentInv, FinitelyMany, Build
<1>4. /\ after \in Build /\ after.batch = batch /\ after.todo = {}
      /\ after.at = "swap" /\ after.next = i /\ after.old = build[b].old
    BY <1>1, <1>2 DEF Build, BuildSteps
<1> HIDE DEF after, batch
<1>5. /\ docs' \in [Slots -> SUBSET Entry] /\ build' \in [Rebuilders -> Build]
      /\ build'[b].at = "swap" /\ build'[b].next = i /\ build'[b].old = build[b].old
      /\ \/ docs'[i] = docs[i] \union batch /\ build'[b].batch = {}
         \/ docs' = docs /\ build'[b].batch = batch
      /\ \A j \in Slots : j # i => docs'[j] = docs[j]
      /\ \A c \in Rebuilders : c # b => build'[c] = build[c]
  <2> HIDE DEF IndexInv
  <2>1. /\ batch \in SUBSET Entry /\ after \in Build /\ build[b].next \in Slots
        /\ Flush(b, batch, after) /\ after.batch = batch
      BY <1>1, <1>2, <1>3, <1>4
  <2>2. Flushed(b, batch, after)
      BY <2>1, FlushEffect
  <2> QED BY <1>4, <2>2 DEF Flushed
<1>6. /\ settled' \in [Slots -> SUBSET Files]
      /\ settled'[i] = settled[i] \ Paths(build'[b].batch)
      /\ \A j \in Slots : j # i => settled'[j] = settled[j]
    BY <1>1, <1>2 DEF TypeOK
<1>7. TypeOK'
    BY <1>1, <1>2, <1>5, <1>6 DEF TypeOK
<1>8. RolesInv'
    BY <1>1, <1>5, WalkKeepsRoles
<1>9. (ClosedAreEmpty /\ FinitelyMany)'
  <2>1. ClosedAreEmpty'
      BY <1>1, <1>5 DEF ContentInv, ClosedAreEmpty
  <2>2. IsFiniteSet(docs[i] \union batch) /\ IsFiniteSet({})
      BY <1>2, <1>3, FS_Union, FS_EmptySet DEF ContentInv, FinitelyMany
  <2>3. FinitelyMany'
      BY <1>2, <1>3, <1>5, <2>2 DEF ContentInv, FinitelyMany
  <2> QED BY <2>1, <2>3
<1>10. SettledIsTrue'
  <2> SUFFICES ASSUME NEW j \in open, NEW g \in settled'[j]
               PROVE  /\ g \in Present
                      /\ \A e \in docs'[j] : e.path = g => e.stat = tree[g]
                      /\ \A c \in Rebuilders : build'[c].next = j =>
                            \A e \in build'[c].batch : e.path = g => e.stat = tree[g]
      BY <1>1 DEF SettledIsTrue, Present
  <2>1. g \in settled[j] /\ j \in Slots /\ j # NoIndex
      BY <1>6, NoIndexAssumption DEF TypeOK
  <2>2. /\ g \in Present
        /\ \A e \in docs[j] : e.path = g => e.stat = tree[g]
        /\ j = i => \A e \in batch : e.path = g => e.stat = tree[g]
      BY <2>1 DEF ContentInv, SettledIsTrue, batch
  <2> QED BY <1>2, <1>5, <2>1, <2>2
<1>11. SettledIsSaid'
  <2> SUFFICES ASSUME NEW j \in open, NEW g \in settled'[j]
               PROVE  Document(g) \in docs'[j]
      BY <1>1 DEF SettledIsSaid, Document
  <2>1. CASE j # i
    <3>1. g \in settled[j] /\ j \in Slots
        BY <1>6, <2>1 DEF TypeOK
    <3>2. Document(g) \in docs[j]
        BY <1>2, <2>1, <3>1, NoIndexAssumption DEF ContentInv, SettledIsSaid
    <3> QED BY <1>5, <2>1, <3>1, <3>2
  <2>2. CASE j = i
    <3>1. g \in settled[i] /\ g \notin Paths(build'[b].batch)
        BY <1>6, <2>2
    <3>2. Document(g) \in docs[i] \/ Document(g) \in batch
        BY <1>1, <1>2, <3>1 DEF ContentInv, SettledIsSaid, WillSay, batch
    <3>3. Document(g) \notin build'[b].batch
        BY <3>1 DEF Paths, Document
    <3> QED BY <1>5, <2>2, <3>2, <3>3
  <2> QED BY <2>1, <2>2
<1> QED BY <1>7, <1>8, <1>9, <1>10, <1>11 DEF ContentInv

(* The new index becomes the current one, and everything settled is said.  *)
LEMMA SwapKeeps ==
    ASSUME IndexInv, NEW b \in Rebuilders, Swap(b)
    PROVE  IndexInv'
<1> USE DEF IndexInv
<1>1. /\ build[b].at = "swap" /\ bleve' = build[b].next
      /\ build' = [build EXCEPT ![b].at = "close", ![b].next = NoIndex, ![b].old = bleve]
      /\ UNCHANGED <<tree, docs, open, ready, building, search, settled>>
    BY DEF Swap, indexes
<1> PICK i \in open : i = build[b].next
    BY <1>1, BuildsOne
<1>2. /\ i \in Slots /\ i # NoIndex /\ i # bleve /\ build[b] \in Build
      /\ \A c \in Rebuilders : c # b => build[c].at = "idle" /\ build[c].next = NoIndex
    BY <1>1, BuildsOne, NoIndexAssumption DEF Visible
<1>3. /\ build' \in [Rebuilders -> Build]
      /\ build'[b].at = "close" /\ build'[b].next = NoIndex /\ build'[b].old = bleve
      /\ build'[b].batch = build[b].batch
      /\ \A c \in Rebuilders : c # b => build'[c] = build[c]
    BY <1>1, <1>2 DEF TypeOK, Build, BuildSteps
<1>4. TypeOK'
    BY <1>1, <1>2, <1>3 DEF TypeOK
<1>5. (OneBuild /\ FreshBuild)'
    BY <1>1, <1>3 DEF RolesInv, OneBuild, FreshBuild
<1>6. Referred'
    BY <1>1, <1>2, <1>3 DEF RolesInv, Referred
<1>7. NoIndexLeaks'
    BY <1>1, <1>2, <1>3 DEF RolesInv, NoIndexLeaks, Referred, TypeOK
<1>8. (ClosedAreEmpty /\ FinitelyMany)'
    BY <1>1, <1>3 DEF ContentInv, ClosedAreEmpty, FinitelyMany
<1>9. \A j \in open : j # NoIndex
    BY NoIndexAssumption DEF TypeOK
<1>10. SettledIsTrue'
    BY <1>1, <1>3, <1>9 DEF ContentInv, SettledIsTrue, Present
<1>11. SettledIsSaid'
    BY <1>1, <1>2, <1>3, <1>9 DEF ContentInv, SettledIsSaid, WillSay, Document
<1> QED BY <1>4, <1>5, <1>6, <1>7, <1>8, <1>10, <1>11 DEF RolesInv, ContentInv

LEMMA CloseOldKeeps ==
    ASSUME IndexInv, NEW b \in Rebuilders, CloseOld(b)
    PROVE  IndexInv'
<1> USE DEF IndexInv
<1>1. /\ build[b].at = "close" /\ open' = open \ {build[b].old}
      /\ docs' = [i \in Slots |-> IF i = build[b].old THEN {} ELSE docs[i]]
      /\ settled' = [i \in Slots |-> IF i = build[b].old THEN {} ELSE settled[i]]
      /\ build' = [build EXCEPT ![b].at = "ready", ![b].old = NoIndex]
      /\ UNCHANGED <<tree, bleve, ready, building, search>>
    BY DEF CloseOld
<1>2. /\ build[b] \in Build /\ build[b].next = NoIndex
      /\ build[b].old # NoIndex => build[b].old # bleve
      /\ \A c \in Rebuilders : c # b => build[c].at = "idle" /\ build[c].next = NoIndex
                                        /\ build[c].old = NoIndex
  <2>1. \A c \in Rebuilders : c # b => build[c].at = "idle"
      BY <1>1 DEF RolesInv, OneBuild
  <2> QED BY <1>1, <2>1 DEF TypeOK, RolesInv, Referred
<1>3. /\ build' \in [Rebuilders -> Build]
      /\ build'[b].at = "ready" /\ build'[b].next = NoIndex /\ build'[b].old = NoIndex
      /\ build'[b].batch = build[b].batch
      /\ \A c \in Rebuilders : c # b => build'[c] = build[c]
    BY <1>1, <1>2 DEF TypeOK, Build, BuildSteps
<1>4. /\ docs' \in [Slots -> SUBSET Entry] /\ settled' \in [Slots -> SUBSET Files]
      /\ \A i \in Slots : docs'[i] = IF i = build[b].old THEN {} ELSE docs[i]
      /\ \A i \in open' : docs'[i] = docs[i] /\ settled'[i] = settled[i]
    BY <1>1 DEF TypeOK
<1>5. TypeOK'
    BY <1>1, <1>2, <1>3, <1>4 DEF TypeOK
<1>6. (OneBuild /\ FreshBuild)'
    BY <1>1, <1>3 DEF RolesInv, OneBuild, FreshBuild
<1>7. Referred'
    BY <1>1, <1>2, <1>3 DEF RolesInv, Referred
<1>8. NoIndexLeaks'
    BY <1>1, <1>2, <1>3, NoIndexAssumption DEF RolesInv, NoIndexLeaks, TypeOK
<1>9. (ClosedAreEmpty /\ FinitelyMany)'
    BY <1>1, <1>3, <1>4, FS_EmptySet DEF ContentInv, ClosedAreEmpty, FinitelyMany
<1>10. \A j \in open' : j \in open /\ j # NoIndex
    BY <1>1, NoIndexAssumption DEF TypeOK
<1>11. SettledIsTrue'
  <2>1. tree' = tree
      BY <1>1
  <2> SUFFICES ASSUME NEW j \in open', NEW f \in settled'[j]
               PROVE  /\ f \in Present
                      /\ \A e \in docs'[j] : e.path = f => e.stat = tree[f]
                      /\ \A c \in Rebuilders : build'[c].next = j =>
                            \A e \in build'[c].batch : e.path = f => e.stat = tree[f]
      BY <2>1 DEF SettledIsTrue, Present
  <2>2. j \in open /\ j # NoIndex /\ docs'[j] = docs[j] /\ f \in settled[j]
      BY <1>4, <1>10
  <2>3. \A c \in Rebuilders : build'[c].next = j => build'[c] = build[c]
      BY <1>3, <2>2
  <2> QED BY <2>2, <2>3 DEF ContentInv, SettledIsTrue
<1>12. SettledIsSaid'
    BY <1>1, <1>2, <1>3, <1>4, <1>10 DEF ContentInv, SettledIsSaid, WillSay, Document
<1> QED BY <1>5, <1>6, <1>7, <1>8, <1>9, <1>11, <1>12 DEF RolesInv, ContentInv

-----------------------------------------------------------------------------
(* A search changes nothing but where it stands.                           *)
LEMMA SearchTypes ==
    ASSUME IndexInv, NEW s \in Searchers, SearchStep(s)
    PROVE  /\ search' \in [Searchers -> Search]
           /\ search'[s].index # NoIndex => search'[s].index = bleve /\ search'[s].at = "query"
           /\ \A t \in Searchers : t # s => search'[t] = search[t]
<1> USE DEF IndexInv
<1>t. search \in [Searchers -> Search]
    BY DEF TypeOK
<1>1. CASE SearchStarts(s)
  <2>1. PICK id \in Identities, q \in Queries :
            search' = [search EXCEPT ![s] = [NoSearch EXCEPT !.at = "snapshot", !.id = id, !.query = q]]
      BY <1>1 DEF SearchStarts
  <2>2. [NoSearch EXCEPT !.at = "snapshot", !.id = id, !.query = q] \in Search
      BY Constants DEF SearchSteps
  <2>3. [NoSearch EXCEPT !.at = "snapshot", !.id = id, !.query = q].index = NoIndex
      BY DEF NoSearch
  <2> QED BY <1>t, <2>1, <2>2, <2>3
<1>2. CASE TakeSnapshot(s)
  <2>1. search' = [search EXCEPT ![s].at = "query", ![s].index = bleve]
      BY <1>2 DEF TakeSnapshot
  <2>2. [search[s] EXCEPT !.at = "query", !.index = bleve] \in Search
      BY <1>t DEF TypeOK, Search, SearchSteps
  <2>3. search' = [search EXCEPT ![s] = [search[s] EXCEPT !.at = "query", !.index = bleve]]
      BY <2>1
  <2> QED BY <1>t, <2>2, <2>3 DEF Search
<1>3. CASE Query(s)
  <2>1. \A results \in SUBSET Files, at \in {"failed", "answered"} :
            /\ [NoSearch EXCEPT !.at = at, !.results = results] \in Search
            /\ [NoSearch EXCEPT !.at = at, !.results = results].index = NoIndex
            /\ [NoSearch EXCEPT !.at = at] \in Search
            /\ [NoSearch EXCEPT !.at = at].index = NoIndex
    <3>1. NoSearch.index = NoIndex
        BY DEF NoSearch
    <3> QED BY <3>1, Constants DEF Search, SearchSteps
  <2>2. \E r \in Search : r.index = NoIndex /\ search' = [search EXCEPT ![s] = r]
    <3>1. CASE search[s].index = NoIndex /\ Answer(s, {})
        BY <2>1, <3>1 DEF Answer
    <3>2. CASE /\ search[s].index \in open
               /\ \E hits \in Hits(Matches(s)) :
                    Answer(s, Paths({e \in hits : CanRead(search[s].id, e.stat)}))
      <4>1. PICK hits \in Hits(Matches(s)) :
                Answer(s, Paths({e \in hits : CanRead(search[s].id, e.stat)}))
          BY <3>2
      <4>2. hits \subseteq Entry
          BY <3>2 DEF Hits, Matches, TypeOK
      <4>3. Paths({e \in hits : CanRead(search[s].id, e.stat)}) \in SUBSET Files
        <5>1. \A e \in hits : e.path \in Files
            BY <4>2 DEF Entry
        <5> QED BY <5>1 DEF Paths
      <4> QED BY <2>1, <4>1, <4>3 DEF Answer
    <3>3. CASE search' = [search EXCEPT ![s] = [NoSearch EXCEPT !.at = "failed"]]
        BY <2>1, <3>3
    <3> QED BY <1>3, <3>1, <3>2, <3>3 DEF Query
  <2> QED BY <1>t, <2>2
<1>4. CASE Replied(s)
  <2>1. search' = [search EXCEPT ![s] = NoSearch]
      BY <1>4 DEF Replied
  <2> QED BY <1>t, <2>1, Constants DEF NoSearch
<1> QED BY <1>1, <1>2, <1>3, <1>4 DEF SearchStep

LEMMA SearchKeeps ==
    ASSUME IndexInv, NEW s \in Searchers, SearchStep(s)
    PROVE  IndexInv'
<1> USE DEF IndexInv
<1>1. UNCHANGED <<tree, docs, open, bleve, ready, building, build, settled>>
    BY DEF SearchStep, SearchStarts, TakeSnapshot, Query, Replied, indexes
<1>2. TypeOK'
    BY <1>1, SearchTypes DEF TypeOK
<1>3. RolesInv'
    BY <1>1, SearchTypes DEF RolesInv, OneBuild, FreshBuild, Referred, NoIndexLeaks, Visible
<1>4. ContentInv'
    BY <1>1
    DEF ContentInv, ClosedAreEmpty, FinitelyMany, SettledIsTrue, SettledIsSaid, WillSay, Document,
        Present
<1> QED BY <1>2, <1>3, <1>4

-----------------------------------------------------------------------------
LEMMA NextKeepsIndexInv == IndexInv /\ [Next]_vars => IndexInv'
<1> SUFFICES ASSUME IndexInv, [Next]_vars PROVE IndexInv'
    OBVIOUS
<1>1. CASE Next
    BY <1>1, FileChangesKeeps, RebuildKeeps, RebuildEndsKeeps, NewIndexKeeps, VisitKeeps,
       WalkEndsKeeps, SwapKeeps, CloseOldKeeps, SearchKeeps
    DEF Next, BuildStep
<1>2. CASE UNCHANGED vars
  <2>1. (TypeOK /\ RolesInv)'
      BY <1>2
      DEF vars, indexes, IndexInv, TypeOK, RolesInv, OneBuild, FreshBuild, Referred, NoIndexLeaks,
          Visible
  <2>2. ContentInv'
      BY <1>2
      DEF vars, indexes, IndexInv, ContentInv, ClosedAreEmpty, FinitelyMany, SettledIsTrue,
          SettledIsSaid, WillSay, Document, Present
  <2> QED BY <2>1, <2>2 DEF IndexInv
<1> QED BY <1>1, <1>2

(* The inductive invariant holds in every reachable state.                 *)
THEOREM IndexInvariance == Spec => []IndexInv
BY InitIndexInv, NextKeepsIndexInv, PTL DEF Spec

-----------------------------------------------------------------------------
(* Results.                                                                *)

(* Every variable of the index and of its searches keeps its type.         *)
THEOREM IndexTypeCorrect == Spec => []TypeOK
<1>1. IndexInv => TypeOK
    BY DEF IndexInv
<1> QED BY <1>1, IndexInvariance, PTL

(* No bleve index is lost open, and the current one is open.               *)
THEOREM IndexesAreClosed == Spec => []NoIndexLeaks
<1>1. IndexInv => NoIndexLeaks
    BY DEF IndexInv, RolesInv
<1> QED BY <1>1, IndexInvariance, PTL

(* Documents are written to the index being built only, and no index that  *)
(* is current or held by a search is that one.                             *)
LEMMA WritesAreHidden ==
    ASSUME IndexInv, [Next]_vars, NEW i \in Slots, Visible(i), i \in open'
    PROVE  docs'[i] = docs[i]
<1>1. CASE docs' = docs
    BY <1>1
<1>2. ASSUME NEW b \in Rebuilders, (\E f \in Files : Visit(b, f)) \/ WalkEnds(b)
      PROVE  docs'[i] = docs[i]
  <2>1. build[b].at = "walk"
      BY <1>2 DEF Visit, WalkEnds
  <2>2. build[b].next # i
      BY <2>1, BuildsOne
  <2>3. docs' = docs \/ \E batch : docs' = [docs EXCEPT ![build[b].next] = @ \union batch]
      BY <1>2 DEF Visit, Indexes, Skips, WalkEnds, Flush
  <2> QED BY <2>2, <2>3 DEF IndexInv, TypeOK
<1>3. ASSUME NEW b \in Rebuilders, CloseOld(b)
      PROVE  docs'[i] = docs[i]
    BY <1>3 DEF CloseOld
<1>4. CASE UNCHANGED vars
    BY <1>1, <1>4 DEF vars, indexes
<1>5. CASE \/ \E f \in Files, stat \in AnyStat \union {Absent} : FileChanges(f, stat)
           \/ \E s \in Searchers : SearchStep(s)
    BY <1>1, <1>5
    DEF FileChanges, SearchStep, SearchStarts, TakeSnapshot, Query, Replied, indexes
<1>6. ASSUME NEW b \in Rebuilders,
             Rebuild(b) \/ NewIndex(b) \/ NewIndexFails(b) \/ Swap(b) \/ SetReady(b)
                \/ RebuildReturns(b)
      PROVE  docs'[i] = docs[i]
    BY <1>6 DEF Rebuild, NewIndex, NewIndexFails, Swap, SetReady, RebuildReturns, indexes
<1> QED BY <1>2, <1>3, <1>4, <1>5, <1>6 DEF Next, BuildStep

(* No search sees a half built index.                                      *)
THEOREM SearchesSeeWholeIndexes == Spec => NoHalfBuiltIndex
<1>1. IndexInv /\ [Next]_vars =>
          [\A i \in Slots : Visible(i) /\ i \in open' => docs'[i] = docs[i]]_vars
    BY WritesAreHidden
<1> QED BY <1>1, IndexInvariance, PTL DEF Spec, NoHalfBuiltIndex

-----------------------------------------------------------------------------
(* What a search that is answered is answered with.                        *)
LEMMA AnswerIs ==
    ASSUME IndexInv, [Next]_vars, NEW s \in Searchers, Answers(s)
    PROVE  /\ search[s].index \in open
           /\ \E hits \in Hits(Matches(s)) :
                search'[s].results = Paths({e \in hits : CanRead(search[s].id, e.stat)})
<1>1. SearchStep(s)
  <2>1. search' # search
      BY DEF Answers
  <2>2. \E t \in Searchers : SearchStep(t)
      BY <2>1
      DEF Next, vars, FileChanges, Rebuild, BuildStep, NewIndex, NewIndexFails, Visit,
          WalkEnds, Swap, CloseOld, SetReady, RebuildReturns
  <2>3. \A t \in Searchers : SearchStep(t) /\ t # s => search'[s] = search[s]
      BY SearchTypes
  <2> QED BY <2>2, <2>3 DEF Answers
<1>2. Query(s)
    BY <1>1 DEF Answers, SearchStep, SearchStarts, TakeSnapshot, Replied
<1>t. search \in [Searchers -> Search] /\ NoSearch \in Search
    BY Constants DEF IndexInv, TypeOK
<1>3. search[s].index \in open /\ \E hits \in Hits(Matches(s)) :
          Answer(s, Paths({e \in hits : CanRead(search[s].id, e.stat)}))
  <2>1. ~(search' = [search EXCEPT ![s] = [NoSearch EXCEPT !.at = "failed"]])
    <3> SUFFICES ASSUME search' = [search EXCEPT ![s] = [NoSearch EXCEPT !.at = "failed"]]
                 PROVE  FALSE
        OBVIOUS
    <3>1. search'[s].at = "failed"
        BY <1>t DEF Search
    <3> QED BY <3>1 DEF Answers
  <2> QED BY <1>2, <2>1 DEF Query, Answers
<1>4. ASSUME NEW results, Answer(s, results)
      PROVE  search'[s].results = results
    BY <1>4, <1>t DEF Answer, Search
<1> QED BY <1>3, <1>4

(* The handler's check is that of the bit of the caller's class.           *)
LEMMA CanReadIsBits ==
    ASSUME NEW id, NEW stat
    PROVE  CanRead(id, stat) <=> Class(id, stat) \in stat.mode
BY DEF CanRead, Class

(* Of a file that has not changed since the build of its index began, what *)
(* the index a search holds says is true and complete.                     *)
LEMMA SettledInIndex ==
    ASSUME IndexInv, NEW s \in Searchers, search[s].index \in open,
           NEW f \in settled[search[s].index]
    PROVE  /\ f \in Files /\ tree[f] # Absent
           /\ \A e \in docs[search[s].index] : e.path = f => e.stat = tree[f]
           /\ Document(f) \in docs[search[s].index]
<1>1. /\ f \in Present
      /\ \A e \in docs[search[s].index] : e.path = f => e.stat = tree[f]
    BY DEF IndexInv, ContentInv, SettledIsTrue
<1>2. Visible(search[s].index) /\ search[s].index # NoIndex
    BY NoIndexAssumption DEF Visible, IndexInv, TypeOK
<1>3. Document(f) \in docs[search[s].index]
    BY <1>2 DEF IndexInv, ContentInv, SettledIsSaid, RolesInv, Referred
<1> QED BY <1>1, <1>3 DEF Present

(* Every result is there, has the name asked for and its own owner, group  *)
(* and mode grant it to the one who asked, unless its file has changed     *)
(* since the build began.                                                  *)
THEOREM SearchShowsGranted == Spec => ResultsGranted
<1> DEFINE Granted == \A s \in Searchers : Answers(s) =>
               \A f \in search'[s].results :
                   /\ f \in search[s].query
                   /\ f \in settled[search[s].index] => BitsGrant(search[s].id, f)
<1>1. ASSUME IndexInv, [Next]_vars
      PROVE  Granted
  <2> SUFFICES ASSUME NEW s \in Searchers, Answers(s), NEW f \in search'[s].results
               PROVE  /\ f \in search[s].query
                      /\ f \in settled[search[s].index] => BitsGrant(search[s].id, f)
      OBVIOUS
  <2>1. PICK hits \in Hits(Matches(s)) :
            search'[s].results = Paths({e \in hits : CanRead(search[s].id, e.stat)})
      BY <1>1, AnswerIs
  <2>2. PICK e \in hits : e.path = f /\ CanRead(search[s].id, e.stat)
      BY <2>1 DEF Paths
  <2>3. e \in docs[search[s].index] /\ f \in search[s].query
      BY <2>1, <2>2 DEF Hits, Matches
  <2>4. ASSUME f \in settled[search[s].index]
        PROVE  BitsGrant(search[s].id, f)
    <3>1. e.stat = tree[f] /\ tree[f] # Absent
        BY <1>1, <2>2, <2>3, <2>4, AnswerIs, SettledInIndex
    <3> QED BY <2>2, <3>1, CanReadIsBits DEF BitsGrant
  <2> QED BY <2>3, <2>4
<1>2. IndexInv /\ [Next]_vars => [Granted]_vars
    BY <1>1
<1> QED BY <1>2, IndexInvariance, PTL DEF Spec, ResultsGranted

(* As long as the limit does not bite, nothing whose bits grant it to the  *)
(* user, that has been there since the build began and that the build got  *)
(* into the index, is kept from him.                                       *)
THEOREM SearchShowsAllOfFew == Spec => FewMatchesAllShown
<1> DEFINE AllShown ==
        \A s \in Searchers : Answers(s) /\ Cardinality(Matches(s)) <= maxResults =>
            \A f \in settled[search[s].index] \intersect search[s].query :
                BitsGrant(search[s].id, f) => f \in search'[s].results
<1>1. ASSUME IndexInv, [Next]_vars
      PROVE  AllShown
  <2> SUFFICES ASSUME NEW s \in Searchers, Answers(s), Cardinality(Matches(s)) <= maxResults,
                      NEW f \in settled[search[s].index] \intersect search[s].query,
                      BitsGrant(search[s].id, f)
               PROVE  f \in search'[s].results
      OBVIOUS
  <2>1. PICK hits \in Hits(Matches(s)) :
            search'[s].results = Paths({e \in hits : CanRead(search[s].id, e.stat)})
      BY <1>1, AnswerIs
  <2>2. search[s].index \in open /\ search[s].index \in Slots
      BY <1>1, AnswerIs DEF IndexInv, TypeOK
  <2>3. IsFiniteSet(Matches(s)) /\ hits \in SUBSET Matches(s)
    <3>1. IsFiniteSet(docs[search[s].index])
        BY <1>1, <2>2 DEF IndexInv, ContentInv, FinitelyMany
    <3>2. Matches(s) \in SUBSET docs[search[s].index]
        BY DEF Matches
    <3> QED BY <2>1, <3>1, <3>2, FS_Subset DEF Hits
  <2>4. hits = Matches(s)
    <3>1. CASE Cardinality(hits) = maxResults
      <4>1. /\ Cardinality(hits) <= Cardinality(Matches(s))
            /\ Cardinality(Matches(s)) = Cardinality(hits) => hits = Matches(s)
          BY <2>3, FS_Subset
      <4>2. Cardinality(Matches(s)) \in Nat
          BY <2>3, FS_CardinalityType
      <4>3. maxResults \in Nat
          BY BatchAssumption
      <4> QED BY <3>1, <4>1, <4>2, <4>3
    <3> QED BY <2>1, <3>1 DEF Hits
  <2>5. Document(f) \in Matches(s) /\ Document(f).path = f /\ Document(f).stat = tree[f]
      BY <1>1, <2>2, SettledInIndex DEF Matches, Document
  <2>6. CanRead(search[s].id, tree[f])
      BY CanReadIsBits DEF BitsGrant
  <2> QED BY <2>1, <2>4, <2>5, <2>6 DEF Paths
<1>2. IndexInv /\ [Next]_vars => [AllShown]_vars
    BY <1>1
<1> QED BY <1>2, IndexInvariance, PTL DEF Spec, FewMatchesAllShown

=============================================================================
