---------------------------- MODULE SearchIndex ----------------------------
(***************************************************************************)
(* The filename index (internal/search/index.go) and the search and        *)
(* reindex handlers over it (internal/api/search.go).                      *)
(*                                                                         *)
(* A rebuild walks the tree into an index of its own, swaps the pointer    *)
(* under the mutex and closes the index it replaced; a search takes the    *)
(* pointer under the mutex and uses it after releasing it.  Files come, go *)
(* and change their owner, group and mode during the walk.  A bleve index  *)
(* is a slot: the documents in it and whether it is open.  The handler     *)
(* filters the hits with fsops.CanRead (internal/fsops/access.go) on what  *)
(* the documents say of owner, group and mode.                             *)
(***************************************************************************)
EXTENDS FiniteSets, Naturals

CONSTANTS
    Files,          \* paths that may exist below the root
    Slots,          \* bleve indexes in memory at a time
    Rebuilders,     \* goroutines that call Rebuild
    Ticker,         \* the one of them that does so every five minutes
    Searchers,      \* search requests served at a time
    Stats,          \* the owners, groups and mode bits each file may have
    Identities,     \* accounts that search
    Queries,        \* what the user may type: the files whose names match
    BatchSize,      \* batchSize
    maxResults,
    Absent,         \* no file
    NoIndex         \* nil

ASSUME TickerAssumption == Ticker \in Rebuilders
ASSUME BatchAssumption == BatchSize \in Nat \ {0} /\ maxResults \in Nat \ {0}
ASSUME NoIndexAssumption == NoIndex \notin Slots
ASSUME AbsentAssumption == \A f \in Files : Absent \notin Stats[f]
ASSUME QueriesAssumption == Queries \subseteq SUBSET Files /\ Queries # {} /\ Identities # {}

VARIABLES
    tree,       \* what stat says of each file
    docs,       \* the documents of each bleve index
    open,       \* the indexes that are open
    bleve,      \* Index.bleve, the current index
    ready,      \* Index.ready
    building,   \* Index.building
    build,      \* the local variables of a Rebuild call
    search,     \* where a search stands, its caller, text, index and results
    settled     \* history: the files an index has as they have been since its build began

indexes == <<docs, open>>
vars == <<tree, docs, open, bleve, ready, building, build, search, settled>>

AnyStat == UNION {Stats[f] : f \in Files}

Entry == [path : Files, stat : AnyStat]

Paths(entries) == {e.path : e \in entries}

Present == {f \in Files : tree[f] # Absent}

BuildSteps == {"idle", "create", "walk", "swap", "close", "ready", "done"}

Build == [at : BuildSteps, todo : SUBSET Files, batch : SUBSET Entry,
          next : Slots \union {NoIndex}, old : Slots \union {NoIndex}]

SearchSteps == {"idle", "snapshot", "query", "failed", "answered"}

Search == [at : SearchSteps, index : Slots \union {NoIndex}, id : Identities,
           query : Queries, results : SUBSET Files]

TypeOK ==
    /\ tree \in [Files -> AnyStat \union {Absent}]
    /\ docs \in [Slots -> SUBSET Entry]
    /\ open \subseteq Slots
    /\ bleve \in Slots \union {NoIndex}
    /\ ready \in BOOLEAN
    /\ building \in BOOLEAN
    /\ build \in [Rebuilders -> Build]
    /\ \A b \in Rebuilders :
        build[b].next # NoIndex <=> build[b].at \in {"walk", "swap"}
    /\ search \in [Searchers -> Search]
    /\ settled \in [Slots -> SUBSET Files]

NoBuild == [at |-> "idle", todo |-> {}, batch |-> {}, next |-> NoIndex, old |-> NoIndex]
NoSearch == [at |-> "idle", index |-> NoIndex, id |-> CHOOSE id \in Identities : TRUE,
             query |-> CHOOSE q \in Queries : TRUE, results |-> {}]

Init ==
    /\ tree \in {t \in [Files -> AnyStat \union {Absent}] :
                    \A f \in Files : t[f] \in Stats[f] \union {Absent}}
    /\ docs = [i \in Slots |-> {}]
    /\ open = {}
    /\ bleve = NoIndex
    /\ ready = FALSE
    /\ building = FALSE
    /\ build = [b \in Rebuilders |-> NoBuild]
    /\ search = [s \in Searchers |-> NoSearch]
    /\ settled = [i \in Slots |-> {}]

-----------------------------------------------------------------------------
(* Uploads, deletions, chmod, chown and whatever else changes the tree.    *)
FileChanges(f, stat) ==
    /\ stat \in (Stats[f] \union {Absent}) \ {tree[f]}
    /\ tree' = [tree EXCEPT ![f] = stat]
    /\ settled' = [i \in Slots |-> settled[i] \ {f}]
    /\ UNCHANGED <<indexes, bleve, ready, building, build, search>>

-----------------------------------------------------------------------------
(* Index.Rebuild.                                                          *)

(* A call while another is running is dropped: no step.                    *)
Rebuild(b) ==
    /\ build[b].at = "idle"
    /\ ~building
    /\ building' = TRUE
    /\ build' = [build EXCEPT ![b].at = "create"]
    /\ UNCHANGED <<tree, indexes, bleve, ready, search, settled>>

(* The walk of the build into index i: WalkDir reads a directory when it   *)
(* comes to it, so a file may be listed or not until it is visited.        *)
Walk(step, i) == [step EXCEPT !.at = "walk", !.todo = Files, !.next = i]

(* A slot nothing refers to any more.                                      *)
Unused(i) ==
    /\ i \notin open /\ i # bleve
    /\ \A s \in Searchers : search[s].index # i
    /\ \A b \in Rebuilders : i \notin {build[b].next, build[b].old}

NewIndexPublished(b) ==         \* fault: the new index is current while it is built
    LET i == CHOOSE i \in Slots : Unused(i) IN
    /\ build[b].at = "create"
    /\ \E j \in Slots : Unused(j)
    /\ open' = open \union {i}
    /\ settled' = [settled EXCEPT ![i] = Present]
    /\ bleve' = i
    /\ build' = [build EXCEPT ![b] = [Walk(@, i) EXCEPT !.old = bleve]]
    /\ UNCHANGED <<tree, docs, ready, building, search>>

NewIndex(b) ==
    LET i == CHOOSE i \in Slots : Unused(i) IN
    /\ build[b].at = "create"
    /\ \E j \in Slots : Unused(j)
    /\ open' = open \union {i}
    /\ settled' = [settled EXCEPT ![i] = Present]
    /\ build' = [build EXCEPT ![b] = Walk(@, i)]
    /\ UNCHANGED <<tree, docs, bleve, ready, building, search>>

FailsAndGoesOn(b) ==            \* fault: the error is logged, no return
    /\ build[b].at = "create"
    /\ build' = [build EXCEPT ![b] = Walk(@, NoIndex)]
    /\ UNCHANGED <<tree, indexes, bleve, ready, building, search, settled>>

NewIndexFails(b) ==
    /\ build[b].at = "create"
    /\ build' = [build EXCEPT ![b].at = "done"]
    /\ UNCHANGED <<tree, indexes, bleve, ready, building, search, settled>>

(* flush: a batch that fails is kept, and tried again with the next entry. *)
Flush(b, batch, to) ==
    \/ /\ docs' = [docs EXCEPT ![build[b].next] = @ \union batch]
       /\ build' = [build EXCEPT ![b] = [to EXCEPT !.batch = {}]]
    \/ /\ batch # {}
       /\ build' = [build EXCEPT ![b] = to]
       /\ UNCHANGED docs

(* StatT: an entry is statted when it is visited.                          *)
Indexes(b, f) ==
    LET batch == build[b].batch \union {[path |-> f, stat |-> tree[f]]}
        after == [build[b] EXCEPT !.todo = @ \ {f}, !.batch = batch]
    IN
    /\ f \in Present
    /\ IF Cardinality(batch) >= BatchSize
       THEN Flush(b, batch, after)
       ELSE build' = [build EXCEPT ![b] = after] /\ UNCHANGED docs
    /\ UNCHANGED settled

(* Passed by: a file that is not there, or was not when its directory was  *)
(* read; or one that is, if reading the directory, d.Info, RelPath or      *)
(* batch.Index fails.  The build goes on.                                  *)
Skips(b, f) ==
    /\ build' = [build EXCEPT ![b].todo = @ \ {f}]
    /\ settled' = [settled EXCEPT ![build[b].next] = @ \ {f}]
    /\ UNCHANGED docs

Visit(b, f) ==
    /\ build[b].at = "walk"
    /\ f \in build[b].todo
    /\ Indexes(b, f) \/ Skips(b, f)
    /\ UNCHANGED <<tree, open, bleve, ready, building, search>>

(* The final flush; its error is logged and the swap goes ahead.           *)
WalkEnds(b) ==
    /\ build[b].at = "walk"
    /\ build[b].todo = {}
    /\ Flush(b, build[b].batch, [build[b] EXCEPT !.at = "swap"])
    /\ settled' = [settled EXCEPT ![build[b].next] = @ \ Paths(build'[b].batch)]
    /\ UNCHANGED <<tree, open, bleve, ready, building, search>>

SwapKeepsOld(b) ==              \* fault: the replaced index is forgotten
    /\ build[b].at = "swap"
    /\ bleve' = build[b].next
    /\ build' = [build EXCEPT ![b].at = "close", ![b].next = NoIndex]
    /\ UNCHANGED <<tree, indexes, ready, building, search, settled>>

Swap(b) ==
    /\ build[b].at = "swap"
    /\ bleve' = build[b].next
    /\ build' = [build EXCEPT ![b].at = "close", ![b].next = NoIndex, ![b].old = bleve]
    /\ UNCHANGED <<tree, indexes, ready, building, search, settled>>

CloseOld(b) ==
    /\ build[b].at = "close"
    /\ open' = open \ {build[b].old}
    /\ docs' = [i \in Slots |-> IF i = build[b].old THEN {} ELSE docs[i]]
    /\ settled' = [i \in Slots |-> IF i = build[b].old THEN {} ELSE settled[i]]
    /\ build' = [build EXCEPT ![b].at = "ready", ![b].old = NoIndex]
    /\ UNCHANGED <<tree, bleve, ready, building, search>>

SetReady(b) ==
    /\ build[b].at = "ready"
    /\ ready' = TRUE
    /\ build' = [build EXCEPT ![b].at = "done"]
    /\ UNCHANGED <<tree, indexes, bleve, building, search, settled>>

ReturnStillBuilding(b) ==       \* fault: no deferred building.Store(false)
    /\ build[b].at = "done"
    /\ build' = [build EXCEPT ![b] = NoBuild]
    /\ UNCHANGED <<tree, indexes, bleve, ready, building, search, settled>>

RebuildReturns(b) ==
    /\ build[b].at = "done"
    /\ building' = FALSE
    /\ build' = [build EXCEPT ![b] = NoBuild]
    /\ UNCHANGED <<tree, indexes, bleve, ready, search, settled>>

-----------------------------------------------------------------------------
(* The search handler.  Until the first build is ready it answers          *)
(* "indexing" at once, which is no step; then it calls Index.Search.       *)
SearchStarts(s) ==
    /\ search[s].at = "idle"
    /\ ready
    /\ \E id \in Identities, query \in Queries :
        search' = [search EXCEPT ![s] =
                    [NoSearch EXCEPT !.at = "snapshot", !.id = id, !.query = query]]
    /\ UNCHANGED <<tree, indexes, bleve, ready, building, build, settled>>

TakeSnapshot(s) ==
    /\ search[s].at = "snapshot"
    /\ search' = [search EXCEPT ![s].at = "query", ![s].index = bleve]
    /\ UNCHANGED <<tree, indexes, bleve, ready, building, build, settled>>

CanReadAnyClass(id, stat) ==    \* fault: any class that fits may grant
    \/ id.uid = stat.uid /\ "owner" \in stat.mode
    \/ stat.gid \in {id.gid} \union id.groups /\ "group" \in stat.mode
    \/ "other" \in stat.mode

CanReadPrimaryGroup(id, stat) ==    \* fault: id.Groups is not looked at
    IF id.uid = stat.uid THEN "owner" \in stat.mode
    ELSE IF id.gid = stat.gid THEN "group" \in stat.mode
    ELSE "other" \in stat.mode

(* fsops.CanRead.  A mode is the set of the classes with a read bit.       *)
CanRead(id, stat) ==
    IF id.uid = stat.uid THEN "owner" \in stat.mode
    ELSE IF stat.gid \in {id.gid} \union id.groups THEN "group" \in stat.mode
    ELSE "other" \in stat.mode

Matches(s) == {e \in docs[search[s].index] : e.path \in search[s].query}

(* bleve returns at most maxResults of the matches, all with the same      *)
(* score; only then does the handler filter.                               *)
Hits(matches) ==
    {hits \in SUBSET matches :
        \/ hits = matches /\ Cardinality(matches) <= maxResults
        \/ Cardinality(hits) = maxResults}

Answer(s, results) ==
    search' = [search EXCEPT ![s] = [NoSearch EXCEPT !.at = "answered", !.results = results]]

(* No index, no hits.  bleve holds its own lock while it searches an index *)
(* and refuses to search a closed one: 500.                                *)
Query(s) ==
    /\ search[s].at = "query"
    /\ \/ search[s].index = NoIndex /\ Answer(s, {})
       \/ /\ search[s].index \in open
          /\ \E hits \in Hits(Matches(s)) :
                Answer(s, Paths({e \in hits : CanRead(search[s].id, e.stat)}))
       \/ /\ search[s].index \notin open \union {NoIndex}
          /\ search' = [search EXCEPT ![s] = [NoSearch EXCEPT !.at = "failed"]]
    /\ UNCHANGED <<tree, indexes, bleve, ready, building, build, settled>>

Replied(s) ==
    /\ search[s].at \in {"failed", "answered"}
    /\ search' = [search EXCEPT ![s] = NoSearch]
    /\ UNCHANGED <<tree, indexes, bleve, ready, building, build, settled>>

-----------------------------------------------------------------------------
BuildStep(b) ==
    \/ NewIndex(b)
    \/ NewIndexFails(b)
    \/ \E f \in Files : Visit(b, f)
    \/ WalkEnds(b)
    \/ Swap(b)
    \/ CloseOld(b)
    \/ SetReady(b)
    \/ RebuildReturns(b)

SearchStep(s) == SearchStarts(s) \/ TakeSnapshot(s) \/ Query(s) \/ Replied(s)

Next ==
    \/ \E f \in Files, stat \in AnyStat \union {Absent} : FileChanges(f, stat)
    \/ \E b \in Rebuilders : Rebuild(b) \/ BuildStep(b)
    \/ \E s \in Searchers : SearchStep(s)

Spec == Init /\ [][Next]_vars

(* Goroutines that can run do run, and the ticker keeps calling Rebuild.   *)
Fairness ==
    /\ WF_vars(Rebuild(Ticker))
    /\ \A b \in Rebuilders : WF_vars(BuildStep(b))
    /\ \A s \in Searchers : WF_vars(TakeSnapshot(s) \/ Query(s) \/ Replied(s))

FairSpec == Spec /\ Fairness

-----------------------------------------------------------------------------
(* Properties.                                                             *)

(* Searches "never see a half-rebuilt index" (index.go:47-50): nothing is  *)
(* written to an open index once it is current or a search holds it.       *)
Visible(i) == i = bleve \/ \E s \in Searchers : search[s].index = i

NoHalfBuiltIndex ==
    [][\A i \in Slots : Visible(i) /\ i \in open' => docs'[i] = docs[i]]_vars

(* No index is lost open: each open one is current, being built or about   *)
(* to be closed, and the current one is open (index.go:151-157).           *)
NoIndexLeaks ==
    /\ \A i \in open :
        i = bleve \/ \E b \in Rebuilders : i \in {build[b].next, build[b].old}
    /\ bleve # NoIndex => bleve \in open

(* An error that costs a build files, though it goes on or is the next one *)
(* to replace the index: no index to write to, a file that has been there  *)
(* all along passed by, the final batch not written.                       *)
Errs(b) ==
    \/ NewIndexFails(b)
    \/ /\ build[b].at = "walk"
       /\ \E f \in settled[build[b].next] : Visit(b, f) /\ Skips(b, f)
    \/ WalkEnds(b) /\ build'[b].batch # {}

(* A file that stays as it is is found from some point on, and as it is,   *)
(* also when the reindex after its upload was dropped because a build had  *)
(* begun before it (index.go:67-70) -- if the errors stop that the code    *)
(* logs or passes over: each takes files out of the index until the next   *)
(* build (index.go:77-82, 105-118, 133-135, 147-153).                      *)
StableFilesFound ==
    \A f \in Files : \A stat \in Stats[f] :
        <>[](tree[f] = stat) /\ <>[][\A b \in Rebuilders : ~Errs(b)]_vars
            => <>[](bleve # NoIndex /\ [path |-> f, stat |-> stat] \in docs[bleve])

(* What owner, group and mode of a file, not followed if it is a link,     *)
(* grant a user: the bit of the one class he is in.  Neither an ACL nor    *)
(* the directories above are asked (access.go:10-17).                      *)
Class(id, stat) ==
    CASE id.uid = stat.uid -> "owner"
      [] id.uid # stat.uid /\ stat.gid \in {id.gid} \union id.groups -> "group"
      [] OTHER -> "other"

BitsGrant(id, f) == tree[f] # Absent /\ Class(id, tree[f]) \in tree[f].mode

Answers(s) == search[s].at = "query" /\ search[s].index # NoIndex /\ search'[s].at = "answered"

(* A result is there, has the name asked for and its own bits grant the    *)
(* one who asked to read it, unless its file has changed since the build   *)
(* of the index began: of "a permission the user does have" (access.go:17, *)
(* search.go:45-48) nothing but the bits is promised, and that however     *)
(* builds, swaps and searches interleave.                                  *)
ResultsGranted ==
    [][\A s \in Searchers : Answers(s) =>
        \A f \in search'[s].results :
            /\ f \in search[s].query
            /\ f \in settled[search[s].index] => BitsGrant(search[s].id, f)]_vars

(* As long as no more than maxResults names match, no file whose bits      *)
(* grant it is kept from the user that has been there since the build      *)
(* began, was read by it and had its batch written.  With more, maxResults *)
(* of them are taken before the filter, and he may be shown nothing        *)
(* (search.go:39-48, index.go:177-194).                                    *)
FewMatchesAllShown ==
    [][\A s \in Searchers : Answers(s) /\ Cardinality(Matches(s)) <= maxResults =>
        \A f \in settled[search[s].index] \intersect search[s].query :
            BitsGrant(search[s].id, f) => f \in search'[s].results]_vars

=============================================================================
