--------------------------- MODULE Impersonation ---------------------------
(***************************************************************************)
(* fsops.As (internal/fsops/identity.go): a request's file operations run  *)
(* with the OS thread's filesystem credentials switched to the logged-in   *)
(* user, and the thread is put back to root before the Go scheduler may    *)
(* give it to another goroutine.                                           *)
(*                                                                         *)
(* Goroutines run on OS threads; the scheduler may park a goroutine after  *)
(* any step and resume it on another thread, unless it has locked its      *)
(* thread.  The three credentials the kernel checks (fsuid, fsgid, the     *)
(* supplementary groups) are per thread and are changed one system call at *)
(* a time, so every interleaving of those calls is a behaviour.  A         *)
(* credential is abstracted to the account it belongs to.                  *)
(*                                                                         *)
(* A call may be refused.  setfsuid and setfsgid say so only in the id     *)
(* they return, which As does not look at, and of the calls that restore   *)
(* As looks at nothing: then it goes on as if the call had been obeyed.    *)
(* `refused' remembers where that happened.                                *)
(***************************************************************************)
EXTENDS Naturals, FiniteSets

CONSTANTS
    Goroutines,     \* goroutines serving requests or running in the background
    Threads,        \* OS threads of the process
    Users,          \* accounts requests are executed as
    Root,           \* the account the server runs as
    NoGroups,       \* the empty list of groups
    GroupScopes,    \* what syscall.Setgroups may change: its thread or the process
    Refusable,      \* calls the kernel may refuse without As noticing
    MaxRefused,     \* bound: sorts of call that stand refused at a time
    None            \* no thread, no account, not captured yet

ASSUME AccountsDistinct ==
    /\ {Root, None, NoGroups} \cap Users = {}
    /\ Root # None /\ Root # NoGroups /\ None # NoGroups
ASSUME NoneIsNoThread == None \notin Threads
ASSUME RefusableAssumption == Refusable \subseteq {"uid", "gid", "groups", "getgroups"}
ASSUME ScopeAssumption == GroupScopes \subseteq {"thread", "process"}

VARIABLES
    scope,                  \* the platform's answer: one of GroupScopes
    fsuid, fsgid, groups,   \* credentials of each thread
    rootGroups,             \* the package variable filled by captureRootGroups
    refused,                \* history: credentials of a thread that the last call
                            \* for them left as they were, without As noticing
    on,                     \* the thread a goroutine is running on
    locked,                 \* the thread a goroutine has locked
    pc,                     \* where a goroutine stands in As
    id                      \* the identity As was called with

creds == <<fsuid, fsgid, groups, rootGroups, refused>>
asVars == <<scope, creds, on, locked, pc, id>>

Accounts == Users \union {Root}

Credentials == {"uid", "gid", "groups"}

Labels == {"idle", "capture", "setgroups", "setfsgid", "setfsuid", "fn",
           "restoreUid", "restoreGid", "restoreGroups", "unlock"}

AsTypeOK ==
    /\ scope \in GroupScopes
    /\ fsuid \in [Threads -> Accounts]
    /\ fsgid \in [Threads -> Accounts]
    /\ groups \in [Threads -> Accounts \union {NoGroups}]
    /\ rootGroups \in Accounts \union {NoGroups, None}
    /\ refused \in [Threads -> SUBSET Credentials]
    /\ on \in [Goroutines -> Threads \union {None}]
    /\ locked \in [Goroutines -> Threads \union {None}]
    /\ pc \in [Goroutines -> Labels]
    /\ id \in [Goroutines -> Users \union {None}]

AsInit ==
    /\ scope \in GroupScopes
    /\ fsuid = [t \in Threads |-> Root]
    /\ fsgid = [t \in Threads |-> Root]
    /\ groups = [t \in Threads |-> Root]
    /\ rootGroups = None
    /\ refused = [t \in Threads |-> {}]
    /\ on = [g \in Goroutines |-> None]
    /\ locked = [g \in Goroutines |-> None]
    /\ pc = [g \in Goroutines |-> "idle"]
    /\ id = [g \in Goroutines |-> None]

-----------------------------------------------------------------------------
(* The Go scheduler.  A locked goroutine runs only on its thread, and only *)
(* it runs there.                                                          *)

MayRunOn(g, t) ==
    IF locked[g] # None
    THEN t = locked[g]
    ELSE \A h \in Goroutines : locked[h] # t

Resume(g, t) ==
    /\ on[g] = None
    /\ \A h \in Goroutines : on[h] # t
    /\ MayRunOn(g, t)
    /\ on' = [on EXCEPT ![g] = t]
    /\ UNCHANGED <<creds, locked, pc, id>>

Park(g) ==
    /\ on[g] # None
    /\ on' = [on EXCEPT ![g] = None]
    /\ UNCHANGED <<creds, locked, pc, id>>

-----------------------------------------------------------------------------
(* fsops.As, one action per system call.                                   *)

At(g, from, to) ==
    /\ pc[g] = from
    /\ on[g] # None
    /\ pc' = [pc EXCEPT ![g] = to]
    /\ UNCHANGED on

(* A credential that is not as As left it, or groups it could not read.    *)
StandRefused ==
    UNION {refused[t] : t \in Threads}
        \union {c \in {"getgroups"} : rootGroups = NoGroups}

MayRefuse(c) == c \in Refusable /\ Cardinality(StandRefused) < MaxRefused

(* setfsuid and setfsgid do what they are told or nothing.                 *)
Obeys(g, c) == refused' = [refused EXCEPT ![on[g]] = @ \ {c}]
Refuses(g, c) == MayRefuse(c) /\ refused' = [refused EXCEPT ![on[g]] = @ \union {c}]

Setfsuid(g, a) ==
    \/ Obeys(g, "uid") /\ fsuid' = [fsuid EXCEPT ![on[g]] = a]
    \/ Refuses(g, "uid") /\ UNCHANGED fsuid

Setfsgid(g, a) ==
    \/ Obeys(g, "gid") /\ fsgid' = [fsgid EXCEPT ![on[g]] = a]
    \/ Refuses(g, "gid") /\ UNCHANGED fsgid

(* syscall.Setgroups: the scope is the platform's, not the code's.  The    *)
(* comment of As counts on "thread"; the Go runtime of go.mod (1.25) makes *)
(* the call on every thread, through libc or AllThreadsSyscall.            *)
Reach(g) == IF scope = "thread" THEN {on[g]} ELSE Threads

Setgroups(g, a) ==
    /\ groups' = [t \in Threads |-> IF t \in Reach(g) THEN a ELSE groups[t]]
    /\ refused' = [t \in Threads |->
                    IF t \in Reach(g) THEN refused[t] \ {"groups"} ELSE refused[t]]

SetgroupsRefused(g) ==
    /\ MayRefuse("groups")
    /\ refused' = [t \in Threads |->
                    IF t \in Reach(g) THEN refused[t] \union {"groups"} ELSE refused[t]]
    /\ UNCHANGED groups

LockThreadForgotten(g, u) ==    \* fault: no runtime.LockOSThread
    /\ At(g, "idle", "capture")
    /\ id' = [id EXCEPT ![g] = u]
    /\ UNCHANGED <<creds, locked>>

LockThread(g, u) ==
    /\ At(g, "idle", "capture")
    /\ locked' = [locked EXCEPT ![g] = on[g]]
    /\ id' = [id EXCEPT ![g] = u]
    /\ UNCHANGED creds

(* captureRootGroups: sync.Once, so only the first call reads the groups.  *)
(* If it cannot, rootGroups is left empty for good.                        *)
CaptureRootGroups(g) ==
    /\ At(g, "capture", "setgroups")
    /\ IF rootGroups = None
       THEN rootGroups' = groups[on[g]] \/ (MayRefuse("getgroups") /\ rootGroups' = NoGroups)
       ELSE UNCHANGED rootGroups
    /\ UNCHANGED <<fsuid, fsgid, groups, refused, locked, id>>

SwitchGroups(g) ==
    /\ At(g, "setgroups", "setfsgid")
    /\ Setgroups(g, id[g])
    /\ UNCHANGED <<fsuid, fsgid, rootGroups, locked, id>>

SwitchGid(g) ==
    /\ At(g, "setfsgid", "setfsuid")
    /\ Setfsgid(g, id[g])
    /\ UNCHANGED <<fsuid, groups, rootGroups, locked, id>>

SwitchUid(g) ==
    /\ At(g, "setfsuid", "fn")
    /\ Setfsuid(g, id[g])
    /\ UNCHANGED <<fsgid, groups, rootGroups, locked, id>>

SwitchFailsNoUndo(g) ==         \* fault: error paths return at once
    /\ \/ At(g, "setgroups", "unlock")
       \/ At(g, "setfsgid", "unlock")
       \/ At(g, "setfsuid", "unlock")
    /\ UNCHANGED <<creds, locked, id>>

(* A switch that reports an error changed nothing; As undoes the ones      *)
(* before it.                                                              *)
SwitchFails(g) ==
    /\ \/ At(g, "setgroups", "unlock")
       \/ At(g, "setfsgid", "restoreGroups")
       \/ At(g, "setfsuid", "restoreGid")
    /\ UNCHANGED <<creds, locked, id>>

(* fn returns, with an error or without, or panics: the defer runs.        *)
FnReturns(g) ==
    /\ At(g, "fn", "restoreUid")
    /\ UNCHANGED <<creds, locked, id>>

RestoreUid(g) ==
    /\ At(g, "restoreUid", "restoreGid")
    /\ Setfsuid(g, Root)
    /\ UNCHANGED <<fsgid, groups, rootGroups, locked, id>>

RestoreGid(g) ==
    /\ At(g, "restoreGid", "restoreGroups")
    /\ Setfsgid(g, Root)
    /\ UNCHANGED <<fsuid, groups, rootGroups, locked, id>>

RestoreGroupsForgotten(g) ==    \* fault: the defer restores the ids only
    /\ At(g, "restoreGroups", "unlock")
    /\ UNCHANGED <<creds, locked, id>>

RestoreGroups(g) ==
    /\ At(g, "restoreGroups", "unlock")
    /\ Setgroups(g, rootGroups) \/ SetgroupsRefused(g)
    /\ UNCHANGED <<fsuid, fsgid, rootGroups, locked, id>>

UnlockThread(g) ==
    /\ At(g, "unlock", "idle")
    /\ locked' = [locked EXCEPT ![g] = None]
    /\ id' = [id EXCEPT ![g] = None]
    /\ UNCHANGED creds

(* Where the scheduler lets g run, and what As does once it is called.     *)
Runs(g) ==
    \/ Park(g)
    \/ \E t \in Threads : Resume(g, t)
    \/ CaptureRootGroups(g)
    \/ SwitchGroups(g)
    \/ SwitchGid(g)
    \/ SwitchUid(g)
    \/ SwitchFails(g)
    \/ FnReturns(g)
    \/ RestoreUid(g)
    \/ RestoreGid(g)
    \/ RestoreGroups(g)
    \/ UnlockThread(g)

Step(g) == Runs(g) \/ \E u \in Users : LockThread(g, u)

AsNext == (\E g \in Goroutines : Step(g)) /\ UNCHANGED scope

AsSpec == AsInit /\ [][AsNext]_asVars

-----------------------------------------------------------------------------
(* Properties.  A goroutine is in fn when its file system calls are made.  *)

InFn(g) == pc[g] = "fn" /\ on[g] # None

(* Every system call fn makes is checked against the fsuid and fsgid of    *)
(* the account As was called with (identity.go:68-70), whatever the other  *)
(* goroutines do and wherever the scheduler moves them, and whatever was   *)
(* refused before on the thread: but for an id the kernel refused to       *)
(* switch for this very call, which As does not notice.                    *)
FsIdsOfCaller ==
    \A g \in Goroutines : InFn(g) =>
        /\ "uid" \notin refused[on[g]] => fsuid[on[g]] = id[g]
        /\ "gid" \notin refused[on[g]] => fsgid[on[g]] = id[g]

(* The same for the supplementary groups: no other request's switch or     *)
(* restore is visible to this one.  identity.go:72-77 promises it; it needs *)
(* a Setgroups that changes the calling thread only.                       *)
GroupsOfCaller == \A g \in Goroutines : InFn(g) => groups[on[g]] = id[g]

(* What As would promise on a platform whose Setgroups is scoped as its    *)
(* comment says.                                                           *)
GroupsOfCallerByThread == scope = "thread" => GroupsOfCaller

(* The groups to restore: root's or, if those could not be read, none.     *)
HasServersGroups(t) ==
    \/ groups[t] = Root
    \/ groups[t] = NoGroups /\ rootGroups = NoGroups

(* A thread the scheduler may give to any goroutine carries the server's   *)
(* own credentials: nothing leaks to the next user of a thread, on the     *)
(* error paths either (identity.go:74-77, 84-101), but for a credential    *)
(* whose restore was the last call for it and was refused.                 *)
Unlocked(t) == \A g \in Goroutines : locked[g] # t

PoolThreadsAreRoot ==
    \A t \in Threads : Unlocked(t) =>
        /\ "uid" \notin refused[t] => fsuid[t] = Root
        /\ "gid" \notin refused[t] => fsgid[t] = Root
        /\ scope = "thread" /\ "groups" \notin refused[t] => HasServersGroups(t)

(* The groups As restores are those the process started with, or none, and *)
(* never those a request in flight had installed (identity.go:55-57).      *)
RestoresOriginalGroups == rootGroups \in {None, NoGroups, Root}

(* Once no call of As is between its first switch and its last restore,    *)
(* every thread has the server's groups again, however the calls           *)
(* overlapped and whatever the scope of Setgroups (identity.go:97-101),    *)
(* but for threads on which the last restore was refused.                  *)
Switched == {"setfsgid", "setfsuid", "fn", "restoreUid", "restoreGid", "restoreGroups"}

QuiescentGroupsAreRoot ==
    (\A g \in Goroutines : pc[g] \notin Switched) =>
        \A t \in Threads : "groups" \notin refused[t] => HasServersGroups(t)

=============================================================================
