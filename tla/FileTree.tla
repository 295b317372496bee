------------------------------ MODULE FileTree ------------------------------
(***************************************************************************)
(* The operations on files: internal/fsops/sandbox.go and ops.go, and the  *)
(* handlers of internal/api/api.go that call them.                         *)
(*                                                                         *)
(* A request resolves the paths it is given to the places behind all links *)
(* and then makes its system calls on these, one after the other, while    *)
(* other requests make theirs.  Any call may fail: for want of permission  *)
(* or space, or for what others did.                                       *)
(***************************************************************************)
EXTENDS FileSystem, TLC

CONSTANTS
    Trees,          \* what is below the root in the beginning
    Requests,       \* the requests that will ever be made
    Paths,          \* the paths they name
    Names,          \* the new names of renames
    Uploads         \* the files sent at a time: lists of paths below a folder

Places == Seq(STRING)
Inputs ==
    [op : {"mkdir", "create", "delete"}, path : Paths, other : {<<>>}, files : {<<>>}]
    \union [op : {"rename"}, path : Paths, other : {<<name>> : name \in Names}, files : {<<>>}]
    \union [op : {"move", "copy"}, path : Paths, other : Paths, files : {<<>>}]
    \union [op : {"open"}, path : Paths, other : Paths, files : {<<>>}]
    \union [op : {"upload"}, path : Paths, other : {<<>>}, files : Uploads]

VARIABLES
    tree,       \* what is below the root
    req,        \* the requests: what they ask and how far they are
    before      \* history: the tree a request met, until another changes it

vars == <<tree, req, before>>

Idle == [at |-> "idle", ask |-> Nil, from |-> Nil, to |-> Nil, todo |-> <<>>,
         in |-> Nil, out |-> Nil, ok |-> FALSE]

Nodes ==
    [kind : {"unused", "dir", "file", "link"}, in : Node \union {Nil},
     name : STRING \union {Nil}, data : Requests \union STRING \union {Empty, Nil},
     target : Places]

(* Every node is in a directory, under a name of its own; the root stays.  *)
Structured(t) ==
    /\ t \in [Node -> Nodes]
    /\ t[Top].kind = "dir" /\ t[Top].in = Top
    /\ \A n \in Live(t) \ {Top} :
        /\ t[n].kind \in {"dir", "file", "link"} /\ t[n].name \in STRING
        /\ t[n].in \in Live(t) /\ t[t[n].in].kind = "dir"
        /\ \A m \in Entries(t, t[n].in) : t[m].name = t[n].name => m = n

(* No directory is below itself.                                           *)
Acyclic(t) ==
    \A S \in SUBSET (Live(t) \ {Top}) : S # {} => \E n \in S : t[n].in \notin S

(* And so every node is found by its path.                                 *)
Wellformed(t) == Structured(t) /\ \A n \in Live(t) : Lstat(t, PathOf(t, n)) = n

(* The disk begins as a file system; an upload has files, and each a name. *)
ASSUME FileTreeAssumption ==
    /\ \A t \in Trees : Structured(t) /\ Acyclic(t)
    /\ Paths \subseteq Places /\ Names \subseteq STRING
    /\ Uploads \subseteq Seq(Places)
    /\ \A files \in Uploads : files # <<>> /\ \A i \in DOMAIN files : files[i] # <<>>

TypeOK ==
    /\ Wellformed(tree)
    /\ \A r \in Requests :
        /\ req[r].ask \in Inputs \union {Nil}
        /\ req[r].from \in Places \union {Nil} /\ req[r].to \in Places \union {Nil}
        /\ req[r].in \in Node \union {Nil} /\ req[r].out \in Node \union {Nil}
        /\ req[r].ok \in BOOLEAN
    /\ \A r \in Requests : before[r] # Nil => Wellformed(before[r])

Init ==
    /\ tree \in Trees
    /\ req = [r \in Requests |-> Idle]
    /\ before = [r \in Requests |-> Nil]

-----------------------------------------------------------------------------
(* Sandbox.Resolve.                                                        *)

(* deepestExisting: the longest part of the path that is there.            *)
deepestExisting(t, path) ==
    Max({i \in 0 .. Len(path) : Lstat(t, SubSeq(path, 1, i)) # Nil})

(* The place behind all links; what is not there yet stays as it is named. *)
Resolve(t, path) ==
    LET i == deepestExisting(t, path)
        existing == Stat(t, SubSeq(path, 1, i))
    IN  IF existing = Nil THEN Nil
        ELSE PathOf(t, existing) \o SubSeq(path, i + 1, Len(path))

-----------------------------------------------------------------------------
(* The life of a request.                                                  *)

(* multipart.FileHeader.Filename: of the path a browser sends, the base.   *)
Filename(sent) == <<Last(sent)>>

Op(r) == req[r].ask.op

(* r goes on as new without touching the tree, or with the tree t.         *)
GoesOn(r, new) ==
    /\ req' = [req EXCEPT ![r] = new]
    /\ UNCHANGED <<tree, before>>

Makes(r, t, new) ==
    /\ t # Nil
    /\ tree' = t
    /\ req' = [req EXCEPT ![r] = new]
    /\ before' = [q \in Requests |-> IF q = r THEN before[r] ELSE Nil]

Done(r) == [req[r] EXCEPT !.at = "done", !.ok = TRUE]

Arrive(r, ask) ==
    /\ req[r].at = "idle"
    /\ req' = [req EXCEPT ![r] = [Idle EXCEPT !.at = "resolve", !.ask = ask,
                    !.todo = [i \in DOMAIN ask.files |-> ask.path \o Filename(ask.files[i])]]]
    /\ before' = [before EXCEPT ![r] = tree]
    /\ UNCHANGED tree

(* Any system call may fail, and the handler answers with the error.       *)
Fails(r) ==
    /\ req[r].at \notin {"idle", "done"}
    /\ GoesOn(r, [req[r] EXCEPT !.at = "done"])

FirstStep ==
    [mkdir |-> "mkdir", create |-> "create", upload |-> "parents", delete |-> "remove",
     rename |-> "rename", move |-> "resolveOther", copy |-> "resolveOther",
     open |-> "resolveOther"]

ResolvePathAndRoot(r) ==            \* fault: the root is as good as any other
    LET from == Resolve(tree, req[r].ask.path) IN
    /\ req[r].at = "resolve" /\ Op(r) # "upload"
    /\ from # Nil
    /\ GoesOn(r, [req[r] EXCEPT !.at = FirstStep[Op(r)], !.from = from])

(* The root is neither deleted nor renamed nor moved.                      *)
ResolvePath(r) ==
    LET from == Resolve(tree, req[r].ask.path) IN
    /\ req[r].at = "resolve" /\ Op(r) # "upload"
    /\ from # Nil
    /\ Op(r) \in {"delete", "rename", "move"} => from # <<>>
    /\ GoesOn(r, [req[r] EXCEPT !.at = FirstStep[Op(r)], !.from = from])

ResolveUpload(r) ==
    LET from == Resolve(tree, Head(req[r].todo)) IN
    /\ req[r].at = "resolve" /\ Op(r) = "upload"
    /\ from # Nil
    /\ GoesOn(r, [req[r] EXCEPT !.at = "parents", !.from = from])

ResolveDest(r) ==
    LET to == Resolve(tree, req[r].ask.other) IN
    /\ req[r].at = "resolveOther" /\ Op(r) \in {"move", "copy"}
    /\ to # Nil
    /\ GoesOn(r, [req[r] EXCEPT !.at = IF Op(r) = "move" THEN "parents" ELSE "stat",
                                !.to = to])

ResolveWithinRoot(r) ==             \* fault: Resolve instead of ResolveWithin
    LET to == Resolve(tree, req[r].ask.other) IN
    /\ req[r].at = "resolveOther" /\ Op(r) = "open"
    /\ to # Nil
    /\ GoesOn(r, [req[r] EXCEPT !.at = "open", !.to = to])

(* "other" is what path.Join makes of the scope and the path below it, any *)
(* path at all.  For a request of a user the scope is the root.            *)
ResolveWithin(r) ==
    LET to == Resolve(tree, req[r].ask.other) IN
    /\ req[r].at = "resolveOther" /\ Op(r) = "open"
    /\ to # Nil /\ IsPrefix(req[r].from, to)
    /\ GoesOn(r, [req[r] EXCEPT !.at = "open", !.to = to])

-----------------------------------------------------------------------------
(* The operations.                                                         *)

(* os.MkdirAll, one missing directory after the other, and then step.      *)
MkdirAll(r, path, step) ==
    LET missing == {i \in 1 .. Len(path) : Lstat(tree, SubSeq(path, 1, i)) = Nil} IN
    \/ IsDir(tree, path) /\ GoesOn(r, [req[r] EXCEPT !.at = step])
    \/ missing # {} /\ Makes(r, Mkdir(tree, SubSeq(path, 1, Min(missing))), req[r])

MakeDirectory(r) ==
    /\ req[r].at = "mkdir"
    /\ Makes(r, Mkdir(tree, req[r].from), Done(r))

CreateFileOver(r) ==                \* fault: O_TRUNC instead of O_EXCL
    /\ req[r].at = "create"
    /\ Makes(r, OpenTruncated(tree, req[r].from), Done(r))

CreateFile(r) ==
    /\ req[r].at = "create"
    /\ Makes(r, OpenNew(tree, req[r].from), Done(r))

(* Create, Upload: the parents, the file, its data; then the next file.    *)
UploadMakesParents(r) ==
    /\ req[r].at = "parents" /\ Op(r) = "upload" /\ req[r].from # <<>>
    /\ MkdirAll(r, Front(req[r].from), "create file")

UploadOpens(r) ==
    LET t == OpenTruncated(tree, req[r].from) IN
    /\ req[r].at = "create file"
    /\ t # Nil
    /\ Makes(r, t, [req[r] EXCEPT !.at = "write", !.out = Stat(t, req[r].from)])

UploadWrites(r) ==
    LET rest == Tail(req[r].todo) IN
    /\ req[r].at = "write"
    /\ Makes(r, [tree EXCEPT ![req[r].out].data = r],
             IF rest = <<>> THEN Done(r)
             ELSE [req[r] EXCEPT !.at = "resolve", !.todo = rest])

(* os.RemoveAll: os.Remove of the path, for a file or an empty directory,  *)
(* and if that fails a removal of the name from its parent directory.      *)
(* Nothing to remove is no error; a file on the way is one.                *)
NoFileOnWay(t, path) ==
    \A i \in 0 .. Len(path) - 1 :
        LET n == Stat(t, SubSeq(path, 1, i)) IN n # Nil => t[n].kind = "dir"

RemoveOne(r) ==
    LET n == Lstat(tree, req[r].from) IN
    /\ req[r].at = "remove"
    /\ \/ n = Nil /\ NoFileOnWay(tree, req[r].from) /\ GoesOn(r, Done(r))
       \/ n # Nil /\ Entries(tree, n) = {} /\ Makes(r, Unlink(tree, n), Done(r))
       \/ n # Nil /\ GoesOn(r, [req[r] EXCEPT !.at = "open parent"])

(* The directory is held open, and what is removed is what has the name in *)
(* it, wherever the directory is by then.                                  *)
Doomed(dir, name) == [dir |-> dir, name |-> name, read |-> FALSE]

RemoveOpensParent(r) ==
    LET parent == Front(req[r].from)  dir == Stat(tree, parent) IN
    /\ req[r].at = "open parent" /\ req[r].from # <<>>
    /\ \/ dir = Nil /\ NoFileOnWay(tree, parent) /\ GoesOn(r, Done(r))
       \/ /\ IsDir(tree, parent)
          /\ GoesOn(r, [req[r] EXCEPT !.at = "removing",
                                      !.todo = <<Doomed(dir, Last(req[r].from))>>])

(* The last of "todo" is next, and then what it is an entry of.            *)
Entered(r) == LET last == Last(req[r].todo) IN Entry(tree, last.dir, last.name)

RemoveRest(r) ==
    LET rest == Front(req[r].todo) IN
    IF rest = <<>> THEN Done(r) ELSE [req[r] EXCEPT !.todo = rest]

(* Opening the directory and reading the names in it are one step.         *)
RemoveReadsDir(r) ==
    LET n == Entered(r)
        todo == req[r].todo
    IN  /\ req[r].at = "removing" /\ ~Last(todo).read
        /\ n # Nil /\ tree[n].kind = "dir"
        /\ \E entries \in SetToSeqs({Doomed(n, tree[m].name) : m \in Entries(tree, n)}) :
            GoesOn(r, [req[r] EXCEPT !.todo =
                            Append(Front(todo), [Last(todo) EXCEPT !.read = TRUE]) \o entries])

(* A file or a link is removed at once, a directory after its entries.  An *)
(* entry that cannot be removed is left, and then its directory stays too. *)
RemoveNext(r) ==
    LET n == Entered(r)
        todo == req[r].todo
    IN  /\ req[r].at = "removing"
        /\ \/ n = Nil /\ GoesOn(r, RemoveRest(r))
           \/ /\ n # Nil /\ Entries(tree, n) = {} /\ Last(todo).read = (tree[n].kind = "dir")
              /\ Makes(r, Unlink(tree, n), RemoveRest(r))
           \/ Front(todo) # <<>> /\ GoesOn(r, RemoveRest(r))

Rename(r) ==
    /\ req[r].at = "rename" /\ Op(r) = "rename"
    /\ Makes(r, RenameNode(tree, req[r].from, Front(req[r].from) \o req[r].ask.other), Done(r))

MoveMakesDest(r) ==                 \* fault: MkdirAll(dest)
    /\ req[r].at = "parents" /\ Op(r) = "move" /\ req[r].to # <<>>
    /\ MkdirAll(r, req[r].to, "rename")

MoveMakesParents(r) ==
    /\ req[r].at = "parents" /\ Op(r) = "move" /\ req[r].to # <<>>
    /\ MkdirAll(r, Front(req[r].to), "rename")

Move(r) ==
    /\ req[r].at = "rename" /\ Op(r) = "move"
    /\ Makes(r, RenameNode(tree, req[r].from, req[r].to), Done(r))

-----------------------------------------------------------------------------
(* Copy, copyDir and copyFile: what is still to be copied, in this order.  *)

Task(t, n, from, to) == [from |-> from, to |-> to, dir |-> t[n].kind = "dir"]

CopyNext(r, todo) ==
    IF todo = <<>> THEN Done(r) ELSE [req[r] EXCEPT !.at = "copy", !.todo = todo]

CopyStats(r) ==
    LET n == Stat(tree, req[r].from) IN
    /\ req[r].at = "stat"
    /\ n # Nil
    /\ GoesOn(r, CopyNext(r, <<Task(tree, n, req[r].from, req[r].to)>>))

CopyMakesDir(r) ==
    /\ req[r].at = "copy" /\ Head(req[r].todo).dir
    /\ Stat(tree, Head(req[r].todo).from) # Nil
    /\ MkdirAll(r, Head(req[r].todo).to, "read directory")

CopyReadsDirOnce(r) ==              \* fault: directories below are left out
    LET head == Head(req[r].todo)
        entries == {n \in Entries(tree, Stat(tree, head.from)) : tree[n].kind # "dir"}
        tasks == {Task(tree, n, Append(head.from, tree[n].name), Append(head.to, tree[n].name)) :
                    n \in entries}
    IN  /\ req[r].at = "read directory"
        /\ IsDir(tree, head.from)
        /\ GoesOn(r, CopyNext(r, SetToSeq(tasks) \o Tail(req[r].todo)))

(* A link is not a directory, whatever it leads to.                        *)
CopyReadsDir(r) ==
    LET head == Head(req[r].todo)
        entries == Entries(tree, Stat(tree, head.from))
        tasks == {Task(tree, n, Append(head.from, tree[n].name), Append(head.to, tree[n].name)) :
                    n \in entries}
    IN  /\ req[r].at = "read directory"
        /\ IsDir(tree, head.from)
        /\ GoesOn(r, CopyNext(r, SetToSeq(tasks) \o Tail(req[r].todo)))

(* The source is opened first, and held.                                  *)
CopyOpensSource(r) ==
    LET head == Head(req[r].todo)  in == Stat(tree, head.from) IN
    /\ req[r].at = "copy" /\ ~head.dir
    /\ in # Nil
    /\ GoesOn(r, [req[r] EXCEPT !.at = "open destination", !.in = in])

(* The destination loses its data before any is read.                      *)
CopyOpensDest(r) ==
    LET to == Head(req[r].todo).to  t == OpenTruncated(tree, to) IN
    /\ req[r].at = "open destination"
    /\ t # Nil
    /\ Makes(r, t, [req[r] EXCEPT !.at = "copy data", !.out = Stat(t, to)])

(* Reading a directory fails.                                              *)
CopyData(r) ==
    /\ req[r].at = "copy data"
    /\ tree[req[r].in].kind = "file"
    /\ Makes(r, [tree EXCEPT ![req[r].out].data = tree[req[r].in].data],
             CopyNext(r, Tail(req[r].todo)))

(* List, Stat and Open, and the same within a share.                       *)
Open(r) ==
    /\ req[r].at = "open"
    /\ Stat(tree, req[r].to) # Nil
    /\ GoesOn(r, [Done(r) EXCEPT !.in = Stat(tree, req[r].to)])

Next ==
    \E r \in Requests :
        \/ \E ask \in Inputs : Arrive(r, ask)
        \/ Fails(r)
        \/ ResolvePath(r)
        \/ ResolveUpload(r)
        \/ ResolveDest(r)
        \/ ResolveWithin(r)
        \/ MakeDirectory(r)
        \/ CreateFile(r)
        \/ UploadMakesParents(r)
        \/ UploadOpens(r)
        \/ UploadWrites(r)
        \/ RemoveOne(r)
        \/ RemoveOpensParent(r)
        \/ RemoveReadsDir(r)
        \/ RemoveNext(r)
        \/ Rename(r)
        \/ MoveMakesParents(r)
        \/ Move(r)
        \/ CopyStats(r)
        \/ CopyMakesDir(r)
        \/ CopyReadsDir(r)
        \/ CopyOpensSource(r)
        \/ CopyOpensDest(r)
        \/ CopyData(r)
        \/ Open(r)

Spec == Init /\ [][Next]_vars

-----------------------------------------------------------------------------
(* What the operations promise, from what is at which path.                *)

Directory == [kind |-> "dir", data |-> Nil, target |-> <<>>]
File(data) == [kind |-> "file", data |-> data, target |-> <<>>]

(* What a node is to those who read it.                                    *)
Seen(node) ==
    [kind |-> node.kind, data |-> IF node.kind = "file" THEN node.data ELSE Nil,
     target |-> IF node.kind = "link" THEN node.target ELSE <<>>]

View(t) == [p \in {PathOf(t, n) : n \in Live(t)} |-> Seen(t[Lstat(t, p)])]

(* Where the system itself finds or would make what a path names.          *)
Place(t, path) ==
    LET place[i \in 0 .. Len(path)] ==
            LET p == SubSeq(path, 1, i) IN
            IF Stat(t, p) # Nil THEN PathOf(t, Stat(t, p)) ELSE Append(place[i - 1], path[i])
    IN  place[Len(path)]

Without(v, p) == Restrict(v, {x \in DOMAIN v : ~IsPrefix(p, x)})

(* What is at and below p, put at q.                                       *)
Grafted(v, p, q) ==
    LET below == {x \in DOMAIN v : IsPrefix(p, x)} IN
    [x \in {q \o SubSeq(y, Len(p) + 1, Len(y)) : y \in below} |->
        v[p \o SubSeq(x, Len(q) + 1, Len(x))]]

(* f where it is defined, and g elsewhere.                                 *)
Over(f, g) ==
    [x \in DOMAIN f \union DOMAIN g |-> IF x \in DOMAIN f THEN f[x] ELSE g[x]]

(* With the directories that lead to the places.                           *)
WithParents(v, places) ==
    LET parents == UNION {{SubSeq(q, 1, i) : i \in 0 .. Len(q) - 1} : q \in places} IN
    Over(v, [x \in parents |-> Directory])

(* The view with files in place of links, where these lead to something.   *)
Followed(t) ==
    [x \in DOMAIN View(t) |->
        IF View(t)[x].kind = "link" /\ Stat(t, x) # Nil THEN File(t[Stat(t, x)].data)
        ELSE View(t)[x]]

(* The path the i-th file of an upload is sent to, and the places of all.  *)
PathSent(r, i) == req[r].ask.path \o Filename(req[r].ask.files[i])
SentTo(r) == {Place(before[r], PathSent(r, i)) : i \in DOMAIN req[r].ask.files}

From(r) == Place(before[r], req[r].ask.path)
To(r) ==
    IF Op(r) = "rename" THEN Front(From(r)) \o req[r].ask.other
    ELSE Place(before[r], req[r].ask.other)

(* The view after a request that was answered "ok".                        *)
Promised(r) ==
    LET t == before[r]  v == View(t) IN
    CASE Op(r) = "mkdir" -> Over([x \in {From(r)} |-> Directory], v)
      [] Op(r) = "create" -> Over([x \in {From(r)} |-> File(Empty)], v)
      [] Op(r) = "upload" ->
            WithParents(Over([x \in SentTo(r) |-> File(r)], v), SentTo(r))
      [] Op(r) = "delete" -> Without(v, From(r))
      [] Op(r) \in {"rename", "move"} ->
            WithParents(Over(Grafted(v, From(r), To(r)), Without(Without(v, To(r)), From(r))),
                        {To(r)})
      [] Op(r) = "copy" ->
            WithParents(Over(Grafted(Followed(t), From(r), To(r)), v), {To(r)})
      [] Op(r) = "open" -> v

(* Copying into itself goes on until a path is too long or the disk is     *)
(* full, and copying over a link writes to what it leads to: neither is    *)
(* promised anything.                                                      *)
Sensible(r) ==
    Op(r) = "copy" =>
        /\ ~IsPrefix(From(r), To(r))
        /\ \A n \in Live(before[r]) :
            before[r][n].kind = "link" => ~IsPrefix(To(r), PathOf(before[r], n))

(* Nor may a request meet again what it has made itself: a copy in a       *)
(* directory above its source or behind a link in it, an upload behind a   *)
(* link that led nowhere.                                                  *)
Apart(r) ==
    LET t == before[r] IN
    /\ Op(r) = "copy" =>
        /\ ~IsPrefix(To(r), From(r))
        /\ \A n \in Live(t) :
            t[n].kind = "link" /\ IsPrefix(From(r), PathOf(t, n)) =>
                LET m == Stat(t, PathOf(t, n)) IN m # Nil /\ ~IsPrefix(To(r), PathOf(t, m))
    /\ Op(r) = "upload" =>
        \A i \in DOMAIN req[r].ask.files :
            Lstat(t, PathSent(r, i)) # Nil => Stat(t, PathSent(r, i)) # Nil

Undisturbed(r) == req[r].at = "done" /\ before[r] # Nil

(* A request that no other interferes with and that is answered "ok" has   *)
(* done what its name says, to what its paths name and to nothing else:    *)
(* ops.go:104-185 and the loop of api.go:387-413.  In particular a copy    *)
(* leaves its source as it was, a move loses nothing but what it replaces, *)
(* and all of them act on what a link leads to.                            *)
OkMeansDone ==
    \A r \in Requests :
        Undisturbed(r) /\ req[r].ok /\ Sensible(r) /\ Apart(r) => View(tree) = Promised(r)

(* What a failing request may leave behind at x.                           *)
MayLeave(r, x) ==
    LET v == View(before[r])
        now == View(tree)
        newParent(q) == x \notin DOMAIN v /\ now[x] = Directory /\ IsStrictPrefix(x, q)
    IN  CASE Op(r) = "delete" -> IsPrefix(From(r), x) /\ x \notin DOMAIN now
          [] Op(r) = "move" -> newParent(To(r))
          [] Op(r) = "copy" -> IsPrefix(To(r), x) \/ newParent(To(r))
          [] Op(r) = "upload" ->
                \E i \in DOMAIN req[r].ask.files :
                    LET p == Place(before[r], req[r].ask.path \o Filename(req[r].ask.files[i]))
                    IN  x = p \/ newParent(p)
          [] OTHER -> FALSE

(* And one that fails, at whatever system call, has changed nothing but    *)
(* what it was to delete or to write, and has perhaps made parents of it;  *)
(* a move that fails has lost nothing (api.go:398-411, ops.go:153-169).    *)
FailuresStayLocal ==
    \A r \in Requests :
        Undisturbed(r) /\ ~req[r].ok /\ Sensible(r) =>
            LET v == View(before[r])  now == View(tree) IN
            \A x \in DOMAIN v \union DOMAIN now :
                \/ x \in DOMAIN v \intersect DOMAIN now /\ v[x] = now[x]
                \/ MayLeave(r, x)

(* "a share only grants access to one subtree" (sandbox.go:70-71): what is *)
(* opened is what the path names, and is at or below the scope, whatever   *)
(* links lead there.                                                       *)
ReadsWithinScope ==
    \A r \in Requests :
        Undisturbed(r) /\ req[r].ok /\ Op(r) = "open" =>
            /\ req[r].in = Stat(before[r], req[r].ask.other)
            /\ AtOrBelow(before[r], Stat(before[r], req[r].ask.path), req[r].in)

(* Of two requests that make the same new file or directory one fails,     *)
(* however they overlap, unless somebody took the first away again: what   *)
(* is there is never replaced by something new (ops.go:104-122).           *)
CreatedOnce ==
    \A r, q \in Requests :
        /\ req[r].at = "done" /\ req[r].ok /\ Op(r) \in {"mkdir", "create"}
        /\ req[q].at = "done" /\ req[q].ok /\ Op(q) \in {"mkdir", "create"}
        /\ r # q /\ req[r].from = req[q].from
        => \E s \in Requests : req[s].at # "idle" /\ Op(s) \in {"delete", "rename", "move"}

(* "relPath supports folder uploads where the client sends a               *)
(* webkitdirectory path" (api.go:388): a file of a folder is found where   *)
(* the folder has it.                                                      *)
FoldersKept ==
    \A r \in Requests :
        Undisturbed(r) /\ req[r].ok /\ Op(r) = "upload" =>
            \A i \in DOMAIN req[r].ask.files :
                Place(before[r], req[r].ask.path \o req[r].ask.files[i]) \in DOMAIN View(tree)

=============================================================================
