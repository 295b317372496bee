-------------------------- MODULE ThumbnailsProofs --------------------------
(***************************************************************************)
(* Proofs about thumbnails, for any number of users and of requests at a   *)
(* time, any times and sizes of the file and any resolution of the times.  *)
(***************************************************************************)
EXTENDS Thumbnails, TLAPS

History == file \in Seq(Stats)

(* A whole picture lies under the stamp the file had when it was made or   *)
(* had had before.                                                         *)
FiledUnderPast ==
    \A n \in Names : cache[n] \in Version =>
        cache[n] <= Current /\ \E v \in 1 .. cache[n] : CachePath(v) = n

Opened == {"look up", "make", "write", "writing", "served"}

(* What a request has seen is of its own time.                             *)
SeesRecent(q) ==
    q.at \in Opened =>
        /\ q.read
        /\ q.seen \in 1 .. Current
        /\ q.name = CachePath(q.seen)

(* The picture it made is of the version it has seen or of a later one;    *)
(* the one it found in the cache may be older, and then of a time when the *)
(* file had had the stamp that was seen.                                   *)
ShowsRecent(q) ==
    /\ q.at \in {"write", "writing"} => q.picture \in q.seen .. Current
    /\ q.at = "served" /\ q.picture # Torn =>
        /\ q.picture \in 1 .. Current
        /\ \E v \in 1 .. q.picture : CachePath(v) = q.name

(* What TypeOK says of one request.                                        *)
WellTyped(q) ==
    /\ q \in Request
    /\ q.picture \in Version => q.picture <= Current
    /\ q.at \in {"write", "writing"} => q.picture \in Version
    /\ q.at = "served" => q.picture # None

Recent(q) == WellTyped(q) /\ SeesRecent(q) /\ ShowsRecent(q)

RequestsRecent == \A r \in Requests : Recent(req[r])

ThumbnailsInv == TypeOK /\ History /\ FiledUnderPast /\ RequestsRecent

-----------------------------------------------------------------------------
(* The invariant.                                                          *)

LEMMA VersionsAreCounted == ThumbnailsInv => Current \in Nat \ {0} /\ 1 .. Current \subseteq Version
BY BoundsAssumption DEF ThumbnailsInv, TypeOK, Version

LEMMA NamesAreStamps == ASSUME ThumbnailsInv, NEW v \in 1 .. Current PROVE CachePath(v) \in Names
BY DEF ThumbnailsInv, TypeOK, CachePath, Names

LEMMA IdleIsRecent == Recent(Idle)
<1>1. Idle \in Request
    BY DEF Idle, Request
<1>2. Idle.at = "idle" /\ Idle.picture = None
    BY DEF Idle
<1> HIDE DEF Idle
<1> QED BY <1>1, <1>2, MarksAssumption DEF Recent, WellTyped, SeesRecent, ShowsRecent, Opened

LEMMA InitThumbnailsInv == Init => ThumbnailsInv
<1> SUFFICES ASSUME Init PROVE ThumbnailsInv
    OBVIOUS
<1>1. PICK stat \in Stats : file = <<stat>>
    BY DEF Init
<1>2. Current = 1 /\ file[1] = stat
    BY <1>1 DEF Current
<1>3. RequestsRecent
    BY IdleIsRecent DEF Init, RequestsRecent
<1>4. TypeOK
    BY <1>2, <1>3, BoundsAssumption DEF Init, TypeOK, Version, RequestsRecent, Recent, WellTyped
<1>5. History
    BY <1>1, <1>2 DEF Init, History
<1>6. FiledUnderPast
    BY MarksAssumption DEF Init, FiledUnderPast
<1> QED BY <1>3, <1>4, <1>5, <1>6 DEF ThumbnailsInv

(* Steps that leave all but one request alone.                             *)
LEMMA StepKeepsInv ==
    ASSUME ThumbnailsInv, NEW r \in Requests, NEW new, Recent(new), Step(r, new)
    PROVE  ThumbnailsInv'
<1>1. file' = file /\ readers' = readers /\ cache' = cache
    BY DEF Step
<1>2. Current' = Current
    BY <1>1 DEF Current
<1>3. \A q : Recent(q)' <=> Recent(q)
    BY <1>1, <1>2 DEF Recent, WellTyped, SeesRecent, ShowsRecent, CachePath
<1>4. \A q \in Requests : Recent(req'[q])
    BY DEF ThumbnailsInv, RequestsRecent, Recent, TypeOK, Step
<1>5. RequestsRecent'
    BY <1>3, <1>4 DEF RequestsRecent
<1>6. req' \in [Requests -> Request]
    BY DEF ThumbnailsInv, TypeOK, Step, Recent, WellTyped
<1>7. TypeOK'
    BY <1>1, <1>2, <1>4, <1>6 DEF ThumbnailsInv, TypeOK, Recent, WellTyped
<1>8. History' /\ FiledUnderPast'
    BY <1>1, <1>2 DEF ThumbnailsInv, History, FiledUnderPast, CachePath
<1> QED BY <1>5, <1>7, <1>8 DEF ThumbnailsInv
LEMMA RequestIsRecent ==
    ASSUME ThumbnailsInv, NEW r \in Requests
    PROVE  req[r] \in Request /\ Recent(req[r])
BY DEF ThumbnailsInv, TypeOK, RequestsRecent

LEMMA ArriveKeepsInv ==
    ASSUME ThumbnailsInv, NEW r \in Requests, NEW u \in Users, Arrive(r, u)
    PROVE  ThumbnailsInv'
<1> DEFINE new == [Idle EXCEPT !.at = "open", !.user = u]
<1>1. Current \in 1 .. Current /\ Current \in Version
    BY VersionsAreCounted
<1>2. new \in Request
    BY <1>1 DEF Idle, Request
<1>3. new.at = "open" /\ new.picture = None
    BY DEF Idle
<1>4. Step(r, new)
    BY DEF Arrive
<1> HIDE DEF new
<1>5. Recent(new)
    BY <1>1, <1>2, <1>3, MarksAssumption DEF Recent, WellTyped, SeesRecent, ShowsRecent, Opened
<1> QED BY <1>4, <1>5, StepKeepsInv

LEMMA OpenAsUserKeepsInv ==
    ASSUME ThumbnailsInv, NEW r \in Requests, OpenAsUser(r)
    PROVE  ThumbnailsInv'
<1> DEFINE old == req[r]
           name == CachePath(Current)
           new == [old EXCEPT !.at = "look up", !.seen = Current, !.name = name, !.read = TRUE]
<1>1. Current \in 1 .. Current /\ Current \in Version
    BY VersionsAreCounted
<1>2. name \in Names
    BY <1>1, NamesAreStamps
<1>3. old \in Request /\ Recent(old)
    BY RequestIsRecent
<1>4. old.at = "open" /\ Step(r, new)
    BY DEF OpenAsUser
<1> HIDE DEF old, name
<1>5. new \in Request
    BY <1>1, <1>2, <1>3 DEF Request
<1>6. /\ new.at = "look up" /\ new.seen = Current /\ new.name = name /\ new.read = TRUE
      /\ new.picture = old.picture
    BY <1>3 DEF Request
<1>7. old.picture \in Version => old.picture <= Current
    BY <1>3 DEF Recent, WellTyped
<1> HIDE DEF new
<1>8. Recent(new)
    <2>1. WellTyped(new)
        BY <1>5, <1>6, <1>7 DEF WellTyped
    <2>2. SeesRecent(new)
        <3>1. new.name = CachePath(new.seen)
            BY <1>6 DEF name
        <3> QED BY <3>1, <1>1, <1>6 DEF SeesRecent
    <2>3. ShowsRecent(new)
        BY <1>6 DEF ShowsRecent
    <2> QED BY <2>1, <2>2, <2>3 DEF Recent
<1> QED BY <1>4, <1>8, StepKeepsInv

LEMMA FailsKeepsInv ==
    ASSUME ThumbnailsInv, NEW r \in Requests, Fails(r) \/ Answered(r)
    PROVE  ThumbnailsInv'
BY IdleIsRecent, StepKeepsInv DEF Fails, Answered

(* What is found in the cache was made when the file had, or had had, the  *)
(* stamp that the request has seen.                                        *)
LEMMA CacheHitKeepsInv ==
    ASSUME ThumbnailsInv, NEW r \in Requests, CacheHit(r)
    PROVE  ThumbnailsInv'
<1> DEFINE old == req[r]
           picture == cache[old.name]
           new == [old EXCEPT !.at = "served", !.picture = picture]
<1>1. old \in Request /\ Recent(old)
    BY RequestIsRecent
<1>2. old.at = "look up" /\ picture # None /\ Step(r, new)
    BY DEF CacheHit
<1>3. old.read /\ old.seen \in 1 .. Current /\ old.name = CachePath(old.seen)
    BY <1>1, <1>2 DEF Recent, SeesRecent, Opened
<1>4. old.name \in Names
    BY <1>3, NamesAreStamps
<1>5. picture \in Version \union {Torn, None}
    BY <1>4 DEF ThumbnailsInv, TypeOK
<1>6. picture # Torn =>
          picture \in 1 .. Current /\ \E v \in 1 .. picture : CachePath(v) = old.name
    <2> SUFFICES ASSUME picture # Torn
                 PROVE  picture \in 1 .. Current /\ \E v \in 1 .. picture : CachePath(v) = old.name
        OBVIOUS
    <2>1. picture \in Version
        BY <1>2, <1>5
    <2>2. picture <= Current /\ \E v \in 1 .. picture : CachePath(v) = old.name
        BY <2>1, <1>4 DEF ThumbnailsInv, FiledUnderPast
    <2> QED BY <2>1, <2>2, VersionsAreCounted DEF Version
<1> HIDE DEF picture, old
<1>7. new \in Request
    BY <1>1, <1>5 DEF Request
<1>8. /\ new.at = "served" /\ new.picture = picture /\ new.seen = old.seen
      /\ new.name = old.name /\ new.read = old.read
    BY <1>1 DEF Request
<1> HIDE DEF new
<1>9. Recent(new)
    <2>1. WellTyped(new)
        <3>1. picture \in Version => picture <= Current
            BY <1>6, MarksAssumption, VersionsAreCounted
        <3> QED BY <3>1, <1>2, <1>7, <1>8 DEF WellTyped
    <2>2. SeesRecent(new)
        BY <1>3, <1>8 DEF SeesRecent
    <2>3. ShowsRecent(new)
        BY <1>6, <1>8 DEF ShowsRecent
    <2> QED BY <2>1, <2>2, <2>3 DEF Recent
<1> QED BY <1>2, <1>9, StepKeepsInv

LEMMA CacheMissKeepsInv ==
    ASSUME ThumbnailsInv, NEW r \in Requests, CacheMiss(r)
    PROVE  ThumbnailsInv'
<1> DEFINE old == req[r]
           new == [old EXCEPT !.at = "make"]
<1>1. old \in Request /\ Recent(old)
    BY RequestIsRecent
<1>2. old.at = "look up" /\ Step(r, new)
    BY DEF CacheMiss
<1> HIDE DEF old
<1>3. new \in Request
    BY <1>1 DEF Request
<1>4. /\ new.at = "make" /\ new.picture = old.picture /\ new.seen = old.seen
      /\ new.name = old.name /\ new.read = old.read
    BY <1>1 DEF Request
<1> HIDE DEF new
<1>5. Recent(new)
    BY <1>1, <1>2, <1>3, <1>4 DEF Recent, WellTyped, SeesRecent, ShowsRecent, Opened
<1> QED BY <1>2, <1>5, StepKeepsInv

(* The second Open finds the file as it is by then, not as it was seen.    *)
LEMMA MakePictureKeepsInv ==
    ASSUME ThumbnailsInv, NEW r \in Requests, MakePicture(r)
    PROVE  ThumbnailsInv'
<1> DEFINE old == req[r]
           new == [old EXCEPT !.at = "write", !.picture = Current]
<1>1. old \in Request /\ Recent(old)
    BY RequestIsRecent
<1>2. old.at = "make" /\ Step(r, new)
    BY DEF MakePicture
<1>3. Current \in Nat \ {0} /\ Current \in Version
    BY VersionsAreCounted
<1> HIDE DEF old
<1>4. new \in Request
    BY <1>1, <1>3 DEF Request
<1>5. /\ new.at = "write" /\ new.picture = Current /\ new.seen = old.seen
      /\ new.name = old.name /\ new.read = old.read
    BY <1>1 DEF Request
<1> HIDE DEF new
<1>6. Recent(new)
    BY <1>1, <1>2, <1>3, <1>4, <1>5 DEF Recent, WellTyped, SeesRecent, ShowsRecent, Opened
<1> QED BY <1>2, <1>6, StepKeepsInv

(* The picture just made, or one in the middle of being written, is served *)
(* whether or not it got into the cache.                                   *)
LEMMA ServingMadeIsRecent ==
    ASSUME ThumbnailsInv, NEW r \in Requests, req[r].at \in {"write", "writing"}
    PROVE  Recent([req[r] EXCEPT !.at = "served"])
<1> DEFINE old == req[r]
           new == [old EXCEPT !.at = "served"]
<1>1. old \in Request /\ Recent(old)
    BY RequestIsRecent
<1>2. /\ old.seen \in 1 .. Current /\ old.picture \in old.seen .. Current
      /\ old.read /\ old.name = CachePath(old.seen) /\ old.picture \in Version
    BY <1>1 DEF Recent, SeesRecent, ShowsRecent, WellTyped, Opened
<1>3. old.picture \in 1 .. Current /\ old.seen \in 1 .. old.picture
    BY <1>2, VersionsAreCounted
<1> HIDE DEF old
<1>4. new \in Request
    BY <1>1 DEF Request
<1>5. /\ new.at = "served" /\ new.picture = old.picture /\ new.seen = old.seen
      /\ new.name = old.name /\ new.read = old.read
    BY <1>1 DEF Request
<1> HIDE DEF new
<1>6. Recent(new)
    BY <1>2, <1>3, <1>4, <1>5, MarksAssumption DEF Recent, WellTyped, SeesRecent, ShowsRecent
<1> QED BY <1>6 DEF new, old
LEMMA NotCachedKeepsInv ==
    ASSUME ThumbnailsInv, NEW r \in Requests, NotCached(r)
    PROVE  ThumbnailsInv'
BY ServingMadeIsRecent, StepKeepsInv DEF NotCached

(* Steps that write a file of the cache and move one request on.           *)
LEMMA FilingKeepsInv ==
    ASSUME ThumbnailsInv, NEW r \in Requests, NEW new, NEW entry, Recent(new),
           entry \in {req[r].picture, Torn}, req[r].at \in {"write", "writing"},
           cache' = [cache EXCEPT ![req[r].name] = entry],
           req' = [req EXCEPT ![r] = new],
           UNCHANGED <<file, readers>>
    PROVE  ThumbnailsInv'
<1> DEFINE old == req[r]
           name == old.name
<1>1. old \in Request /\ Recent(old)
    BY RequestIsRecent
<1>2. old.seen \in 1 .. Current /\ old.picture \in old.seen .. Current /\ name = CachePath(old.seen)
    BY <1>1 DEF Recent, SeesRecent, ShowsRecent, Opened
<1>3. old.picture \in 1 .. Current /\ old.seen \in 1 .. old.picture
    BY <1>2, VersionsAreCounted
<1>4. name \in Names
    BY <1>2, NamesAreStamps
<1>5. entry \in Version \union {Torn, None}
    BY <1>3, VersionsAreCounted
<1>6. entry \in Version => entry <= Current /\ \E v \in 1 .. entry : CachePath(v) = name
    BY <1>2, <1>3, VersionsAreCounted, MarksAssumption
<1> HIDE DEF old, name
<1>7. Current' = Current /\ \A v : CachePath(v)' = CachePath(v)
    BY DEF Current, CachePath
<1>8. cache' \in [Names -> Version \union {Torn, None}]
    BY <1>4, <1>5 DEF ThumbnailsInv, TypeOK, name, old
<1>9. FiledUnderPast'
    <2> SUFFICES ASSUME NEW n \in Names, cache'[n] \in Version
                 PROVE  cache'[n] <= Current /\ \E v \in 1 .. cache'[n] : CachePath(v) = n
        BY <1>7 DEF FiledUnderPast
    <2>1. CASE n = name
        BY <2>1, <1>4, <1>6 DEF ThumbnailsInv, TypeOK, name, old
    <2>2. CASE n # name
        <3>1. cache'[n] = cache[n]
            BY <2>2 DEF ThumbnailsInv, TypeOK, name, old
        <3> QED BY <3>1 DEF ThumbnailsInv, FiledUnderPast
    <2> QED BY <2>1, <2>2
<1>10. \A q : Recent(q)' <=> Recent(q)
    BY <1>7 DEF Recent, WellTyped, SeesRecent, ShowsRecent, CachePath
<1>11. \A q \in Requests : Recent(req'[q])
    BY DEF ThumbnailsInv, RequestsRecent, TypeOK
<1>12. RequestsRecent'
    BY <1>10, <1>11 DEF RequestsRecent
<1>13. req' \in [Requests -> Request]
    BY DEF ThumbnailsInv, TypeOK, Recent, WellTyped
<1>14. TypeOK'
    BY <1>7, <1>8, <1>11, <1>13 DEF ThumbnailsInv, TypeOK, Recent, WellTyped
<1>15. History'
    BY <1>7 DEF ThumbnailsInv, History
<1> QED BY <1>9, <1>12, <1>14, <1>15 DEF ThumbnailsInv

LEMMA TruncateCacheKeepsInv ==
    ASSUME ThumbnailsInv, NEW r \in Requests, TruncateCache(r)
    PROVE  ThumbnailsInv'
<1> DEFINE old == req[r]
           new == [old EXCEPT !.at = "writing"]
<1>1. old \in Request /\ Recent(old) /\ old.at = "write"
    BY RequestIsRecent DEF TruncateCache
<1>2. /\ cache' = [cache EXCEPT ![old.name] = Torn] /\ req' = [req EXCEPT ![r] = new]
      /\ UNCHANGED <<file, readers>>
    BY DEF TruncateCache
<1> HIDE DEF old
<1>3. new \in Request
    BY <1>1 DEF Request
<1>4. /\ new.at = "writing" /\ new.picture = old.picture /\ new.seen = old.seen
      /\ new.name = old.name /\ new.read = old.read
    BY <1>1 DEF Request
<1> HIDE DEF new
<1>5. Recent(new)
    BY <1>1, <1>3, <1>4 DEF Recent, WellTyped, SeesRecent, ShowsRecent, Opened
<1> QED BY <1>1, <1>2, <1>5, FilingKeepsInv DEF old

LEMMA WriteCacheKeepsInv ==
    ASSUME ThumbnailsInv, NEW r \in Requests, WriteCache(r)
    PROVE  ThumbnailsInv'
<1>1. PICK entry \in {req[r].picture, Torn} : cache' = [cache EXCEPT ![req[r].name] = entry]
    BY DEF WriteCache
<1>2. /\ req[r].at = "writing"
      /\ req' = [req EXCEPT ![r] = [req[r] EXCEPT !.at = "served"]]
      /\ UNCHANGED <<file, readers>>
    BY DEF WriteCache
<1>3. Recent([req[r] EXCEPT !.at = "served"])
    BY <1>2, ServingMadeIsRecent
<1> QED BY <1>1, <1>2, <1>3, FilingKeepsInv

(* The file gains a version; those before it stay what they were.          *)
LEMMA FileChangesKeepsInv ==
    ASSUME ThumbnailsInv, NEW stat \in Stats, FileChanges(stat)
    PROVE  ThumbnailsInv'
<1>1. file \in Seq(Stats)
    BY DEF ThumbnailsInv, History
<1>2. file' = Append(file, stat) /\ Current < MaxVersion /\ cache' = cache
      /\ req' = req /\ readers' = readers
    BY DEF FileChanges
<1>3. Current \in Nat \ {0} /\ 1 .. Current \subseteq Version
    BY VersionsAreCounted
<1>4. /\ Current' = Current + 1
      /\ \A v \in 1 .. Current : file'[v] = file[v]
      /\ file'[Current + 1] = stat
      /\ file' \in Seq(Stats)
    BY <1>1, <1>2 DEF Current
<1>5. Current' \in Version /\ \A v \in 1 .. Current' : v \in 1 .. Current \/ v = Current + 1
    BY <1>2, <1>3, <1>4, BoundsAssumption DEF Version
<1>6. \A v \in 1 .. Current : CachePath(v)' = CachePath(v)
    BY <1>4 DEF CachePath
<1>7. ASSUME NEW p \in 1 .. Current, NEW n, \E v \in 1 .. p : CachePath(v) = n
      PROVE  \E v \in 1 .. p : CachePath(v)' = n
    <2>1. PICK v \in 1 .. p : CachePath(v) = n
        BY <1>7
    <2>2. v \in 1 .. Current
        BY <1>3
    <2> QED BY <2>1, <2>2, <1>6
<1>8. History'
    BY <1>4 DEF History
<1>9. FiledUnderPast'
    <2> SUFFICES ASSUME NEW n \in Names, cache[n] \in Version
                 PROVE  cache[n] <= Current' /\ \E v \in 1 .. cache[n] : CachePath(v)' = n
        BY <1>2 DEF FiledUnderPast, CachePath
    <2> DEFINE p == cache[n]
    <2>1. p \in 1 .. Current /\ \E v \in 1 .. p : CachePath(v) = n
        BY <1>3 DEF ThumbnailsInv, FiledUnderPast, Version
    <2> HIDE DEF p
    <2>2. p <= Current'
        BY <2>1, <1>3, <1>4
    <2> QED BY <2>1, <2>2, <1>7 DEF p
<1>10. \A q : Recent(q) => Recent(q)'
    <2> SUFFICES ASSUME NEW q, Recent(q) PROVE Recent(q)'
        OBVIOUS
    <2>1. WellTyped(q)'
        <3>1. q.picture \in Version => q.picture <= Current'
            BY <1>3, <1>4 DEF Recent, WellTyped, Version
        <3> QED BY <3>1 DEF Recent, WellTyped
    <2>2. SeesRecent(q)'
        <3>1. 1 .. Current \subseteq 1 .. Current'
            BY <1>3, <1>4
        <3>2. q.at \in Opened => q.seen \in 1 .. Current' /\ q.name = CachePath(q.seen)'
            BY <3>1, <1>6 DEF Recent, SeesRecent
        <3> QED BY <3>2 DEF Recent, SeesRecent
    <2>3. ShowsRecent(q)'
        <3>1. 1 .. Current \subseteq 1 .. Current'
            BY <1>3, <1>4
        <3>2. ASSUME q.at \in {"write", "writing"} PROVE q.picture \in q.seen .. Current'
            <4>1. q.seen \in 1 .. Current /\ q.picture \in q.seen .. Current
                BY <3>2 DEF Recent, SeesRecent, ShowsRecent, Opened
            <4> QED BY <4>1, <1>3, <1>4
        <3>3. ASSUME q.at = "served", q.picture # Torn
              PROVE  /\ q.picture \in 1 .. Current'
                     /\ \E v \in 1 .. q.picture : CachePath(v)' = q.name
            <4>1. q.picture \in 1 .. Current /\ \E v \in 1 .. q.picture : CachePath(v) = q.name
                BY <3>3 DEF Recent, ShowsRecent
            <4> QED BY <4>1, <3>1, <1>7
        <3> QED BY <3>2, <3>3 DEF ShowsRecent
    <2> QED BY <2>1, <2>2, <2>3 DEF Recent
<1>11. RequestsRecent'
    BY <1>2, <1>10 DEF ThumbnailsInv, RequestsRecent
<1>12. \A v \in 1 .. Current' : file'[v] \in Stats
    BY <1>4, <1>5 DEF ThumbnailsInv, TypeOK
<1>13. TypeOK'
    BY <1>2, <1>5, <1>11, <1>12 DEF ThumbnailsInv, TypeOK, RequestsRecent, Recent, WellTyped
<1> QED BY <1>8, <1>9, <1>11, <1>13 DEF ThumbnailsInv

LEMMA SurroundingsKeepInv ==
    ASSUME ThumbnailsInv,
           Restart \/ (\E allowed \in SUBSET Users : ReadersChange(allowed)) \/ UNCHANGED vars
    PROVE  ThumbnailsInv'
<1>1. file' = file /\ cache' = cache /\ Current' = Current
    BY DEF Restart, ReadersChange, vars, Current
<1>3. readers' \subseteq Users
    BY DEF ThumbnailsInv, TypeOK, Restart, ReadersChange, vars
<1>4. \A q : Recent(q)' <=> Recent(q)
    BY <1>1 DEF Recent, WellTyped, SeesRecent, ShowsRecent, CachePath
<1>5. req' \in [Requests -> Request] /\ \A r \in Requests : Recent(req'[r])
    <2>1. CASE req' = req
        BY <2>1 DEF ThumbnailsInv, TypeOK, RequestsRecent
    <2>2. CASE Restart
        <3>1. Idle \in Request
            BY IdleIsRecent DEF Recent, WellTyped
        <3> HIDE DEF Idle
        <3> QED BY <2>2, <3>1, IdleIsRecent DEF Restart
    <2> QED BY <2>1, <2>2 DEF ReadersChange, vars
<1>6. RequestsRecent'
    BY <1>4, <1>5 DEF RequestsRecent
<1>7. TypeOK'
    BY <1>1, <1>3, <1>5 DEF ThumbnailsInv, TypeOK, Recent, WellTyped
<1>8. History' /\ FiledUnderPast'
    BY <1>1 DEF ThumbnailsInv, History, FiledUnderPast, CachePath
<1> QED BY <1>6, <1>7, <1>8 DEF ThumbnailsInv

LEMMA NextKeepsThumbnailsInv == ThumbnailsInv /\ [Next]_vars => ThumbnailsInv'
<1> SUFFICES ASSUME ThumbnailsInv, [Next]_vars PROVE ThumbnailsInv'
    OBVIOUS
<1>1. CASE \E stat \in Stats : FileChanges(stat)
    BY <1>1, FileChangesKeepsInv
<1>2. ASSUME NEW r \in Requests,
             \/ \E u \in Users : Arrive(r, u)
             \/ OpenAsUser(r) \/ Fails(r) \/ CacheHit(r) \/ CacheMiss(r) \/ MakePicture(r)
             \/ TruncateCache(r) \/ WriteCache(r) \/ NotCached(r) \/ Answered(r)
      PROVE  ThumbnailsInv'
    BY <1>2, ArriveKeepsInv, OpenAsUserKeepsInv, FailsKeepsInv, CacheHitKeepsInv,
       CacheMissKeepsInv, MakePictureKeepsInv, TruncateCacheKeepsInv, WriteCacheKeepsInv,
       NotCachedKeepsInv
<1>3. CASE \/ \E allowed \in SUBSET Users : ReadersChange(allowed)
           \/ Restart \/ UNCHANGED vars
    BY <1>3, SurroundingsKeepInv
<1> QED BY <1>1, <1>2, <1>3 DEF Next

(* The inductive invariant holds in every reachable state.                 *)
THEOREM ThumbnailsInvariance == Spec => []ThumbnailsInv
BY InitThumbnailsInv, NextKeepsThumbnailsInv, PTL DEF Spec

-----------------------------------------------------------------------------
(* Results.                                                                *)

(* Every variable keeps its type; nothing is served that was not there,    *)
(* and no picture is of a version the file has not had.                    *)
THEOREM ThumbnailsTypeCorrect == Spec => []TypeOK
<1>1. ThumbnailsInv => TypeOK BY DEF ThumbnailsInv
<1> QED BY ThumbnailsInvariance, <1>1, PTL

(* A whole picture that is served was made of the file when it had, or     *)
(* after it first had, the second and the size that the request has seen.  *)
THEOREM PicturesAreFresh == Spec => []FreshForItsStamp
<1>1. ThumbnailsInv => FreshForItsStamp
    <2> SUFFICES ASSUME ThumbnailsInv, NEW r \in Requests,
                        req[r].at = "served", req[r].picture # Torn
                 PROVE  \E v \in 1 .. req[r].picture : Stamp(file[v]) = Stamp(file[req[r].seen])
        BY DEF FreshForItsStamp
    <2>1. Recent(req[r])
        BY RequestIsRecent
    <2>2. \E v \in 1 .. req[r].picture : CachePath(v) = req[r].name
        BY <2>1 DEF Recent, ShowsRecent
    <2>3. req[r].name = CachePath(req[r].seen)
        BY <2>1 DEF Recent, SeesRecent, Opened
    <2> QED BY <2>2, <2>3 DEF CachePath
<1> QED BY ThumbnailsInvariance, <1>1, PTL

(* Whoever filled the cache, a user who is served could read the file      *)
(* since he asked.                                                         *)
THEOREM CacheServesReaders == Spec => []ReadersOnly
<1>1. ThumbnailsInv => ReadersOnly
    BY DEF ThumbnailsInv, RequestsRecent, Recent, SeesRecent, Opened, ReadersOnly
<1> QED BY ThumbnailsInvariance, <1>1, PTL

=============================================================================
