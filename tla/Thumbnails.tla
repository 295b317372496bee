----------------------------- MODULE Thumbnails -----------------------------
(***************************************************************************)
(* Thumbnails of one file at one size: internal/api/thumbnail.go and       *)
(* internal/thumbnail/thumbnail.go.                                        *)
(*                                                                         *)
(* A request opens the file as its user, looks in the cache under what it  *)
(* saw of the file, and otherwise opens the file again, makes the picture  *)
(* and writes it to the cache, while the file and who may read it change,  *)
(* other requests do the same and the server stops anywhere.               *)
(***************************************************************************)
EXTENDS FiniteSets, Integers, Sequences

CONSTANTS
    Users,
    Requests,       \* requests served at a time
    Stats,          \* what stat may say of the file
    TicksPerSecond, \* times of modification are finer than Unix seconds
    MaxVersion,     \* bound on the changes of the file
    Torn,           \* a cache file that is no whole picture
    None

ASSUME BoundsAssumption == TicksPerSecond \in Nat \ {0} /\ MaxVersion \in Nat \ {0}
ASSUME StatsAssumption == Stats \subseteq [mtime : Nat, size : Nat]

VARIABLES
    file,           \* what the file has been: its versions, the last one now
    readers,        \* the users who may read the file
    cache,          \* the files of cacheDir, by their names
    req             \* the requests being served

vars == <<file, readers, cache, req>>

Unix(t) == t \div TicksPerSecond
Version == 1 .. MaxVersion
Current == Len(file)
Stamp(stat) == [second |-> Unix(stat.mtime), size |-> stat.size]
Names == {Stamp(stat) : stat \in Stats}

ASSUME MarksAssumption == Torn \notin Version /\ None \notin Version

Request ==
    [at : {"idle", "open", "look up", "make", "write", "writing", "served"},
     user : Users \union {None}, read : BOOLEAN,
     seen : Version \union {None}, name : Names \union {None},
     picture : Version \union {Torn, None}]

Idle == [at |-> "idle", user |-> None, read |-> FALSE, seen |-> None, name |-> None,
         picture |-> None]

TypeOK ==
    /\ Current \in Version
    /\ \A v \in 1 .. Current : file[v] \in Stats
    /\ readers \subseteq Users
    /\ cache \in [Names -> Version \union {Torn, None}]
    /\ req \in [Requests -> Request]
    /\ \A r \in Requests :
        /\ req[r].picture \in Version => req[r].picture <= Current
        /\ req[r].at \in {"write", "writing"} => req[r].picture \in Version
        /\ req[r].at = "served" => req[r].picture # None

Init ==
    /\ \E stat \in Stats : file = <<stat>>
    /\ readers \in SUBSET Users
    /\ cache = [n \in Names |-> None]
    /\ req = [r \in Requests |-> Idle]

-----------------------------------------------------------------------------
(* Whoever writes the file, puts another at its path (os.Rename in Move    *)
(* and Rename, mv, cp -p, tar), which brings its own time along and may    *)
(* have been there before, sets its time or changes its permissions.       *)

FileChanges(stat) ==
    /\ Current < MaxVersion
    /\ file' = Append(file, stat)
    /\ UNCHANGED <<readers, cache, req>>

ReadersChange(allowed) ==
    /\ readers' = allowed
    /\ UNCHANGED <<file, cache, req>>

-----------------------------------------------------------------------------
Step(r, new) ==
    /\ req' = [req EXCEPT ![r] = new]
    /\ UNCHANGED <<file, readers, cache>>

Arrive(r, u) ==
    /\ req[r].at = "idle"
    /\ Step(r, [Idle EXCEPT !.at = "open", !.user = u])

(* CachePath and cacheKey; path and dimension are the same for all.        *)
NameWithoutTime(v) ==           \* fault: size alone
    [second |-> 0, size |-> file[v].size]

CachePath(v) == Stamp(file[v])

(* The user could read the version he opens.                               *)
MayRead(r) == req[r].user \in readers

OpenByStat(r) ==                \* fault: Stat, which needs no permission
    /\ req[r].at = "open"
    /\ Step(r, [req[r] EXCEPT !.at = "look up", !.seen = Current,
                              !.name = CachePath(Current), !.read = MayRead(r)])

OpenAsUser(r) ==
    /\ req[r].at = "open"
    /\ MayRead(r)
    /\ Step(r, [req[r] EXCEPT !.at = "look up", !.seen = Current,
                              !.name = CachePath(Current), !.read = TRUE])

(* Any step may fail: the file or the account is gone, or no picture.      *)
Fails(r) ==
    /\ req[r].at \in {"open", "make"}
    /\ Step(r, Idle)

CacheHitUnchecked(r) ==         \* fault: the error of ReadFile is ignored
    /\ req[r].at = "look up"
    /\ Step(r, [req[r] EXCEPT !.at = "served", !.picture = cache[req[r].name]])

CacheHit(r) ==
    /\ req[r].at = "look up"
    /\ cache[req[r].name] # None
    /\ Step(r, [req[r] EXCEPT !.at = "served", !.picture = cache[req[r].name]])

CacheMiss(r) ==
    /\ req[r].at = "look up"
    /\ cache[req[r].name] = None
    /\ Step(r, [req[r] EXCEPT !.at = "make"])

(* The second Open, as the user again, and what it opened is decoded; or   *)
(* ffmpeg or pdftoppm, which run with his credentials.                     *)
MakePicture(r) ==
    /\ req[r].at = "make"
    /\ MayRead(r)
    /\ Step(r, [req[r] EXCEPT !.at = "write", !.picture = Current])

(* os.WriteFile truncates and then writes; its errors are ignored.         *)
TruncateCache(r) ==
    /\ req[r].at = "write"
    /\ cache' = [cache EXCEPT ![req[r].name] = Torn]
    /\ req' = [req EXCEPT ![r].at = "writing"]
    /\ UNCHANGED <<file, readers>>

(* A picture over another leaves the rest of a longer one.                 *)
WriteCache(r) ==
    LET old == cache[req[r].name] IN
    /\ req[r].at = "writing"
    /\ \E result \in {req[r].picture} \union (IF old = req[r].picture THEN {} ELSE {Torn}) :
        cache' = [cache EXCEPT ![req[r].name] = result]
    /\ req' = [req EXCEPT ![r].at = "served"]
    /\ UNCHANGED <<file, readers>>

NotCached(r) ==
    /\ req[r].at = "write"
    /\ Step(r, [req[r] EXCEPT !.at = "served"])

Answered(r) ==
    /\ req[r].at = "served"
    /\ Step(r, Idle)

-----------------------------------------------------------------------------
(* The cache outlives the server.                                          *)
Restart ==
    /\ req' = [r \in Requests |-> Idle]
    /\ UNCHANGED <<file, readers, cache>>

Next ==
    \/ \E stat \in Stats : FileChanges(stat)
    \/ \E allowed \in SUBSET Users : ReadersChange(allowed)
    \/ \E r \in Requests :
        \/ \E u \in Users : Arrive(r, u)
        \/ OpenAsUser(r)
        \/ Fails(r)
        \/ CacheHit(r)
        \/ CacheMiss(r)
        \/ MakePicture(r)
        \/ TruncateCache(r)
        \/ WriteCache(r)
        \/ NotCached(r)
        \/ Answered(r)
    \/ Restart

Spec == Init /\ [][Next]_vars

-----------------------------------------------------------------------------
(* Properties.                                                             *)

(* "so it invalidates automatically when the source file changes"          *)
(* (thumbnail.go:96-97): a whole picture that is served was made of the    *)
(* file when it had, or after it first had, the second and the size the    *)
(* request has seen.  So it is an older one only if the file is back at a  *)
(* second and a size it had before -- although pictures are kept under     *)
(* what another request saw of an earlier version than it made them of.    *)
FreshForItsStamp ==
    \A r \in Requests :
        req[r].at = "served" /\ req[r].picture # Torn =>
            \E v \in 1 .. req[r].picture : Stamp(file[v]) = Stamp(file[req[r].seen])

(* "The real access-control gate" (api/thumbnail.go:46-50): also from the  *)
(* cache, whoever filled it, a user is served only if he could read the    *)
(* file since he asked.                                                    *)
ReadersOnly ==
    \A r \in Requests : req[r].at = "served" => req[r].read

=============================================================================
