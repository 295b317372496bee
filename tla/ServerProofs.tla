---------------------------- MODULE ServerProofs ----------------------------
(***************************************************************************)
(* Proofs about fsops.As, for any number of goroutines, threads and users  *)
(* and for either scope of Setgroups; about sessions, for any number of    *)
(* tokens and concurrent requests and any timeouts; and about a request    *)
(* from the cookie to the system call, for any number of sessions,         *)
(* requests, threads and users.  What is proved in the first two parts of  *)
(* fsops.As and of the sessions alone is taken over step by step; what is  *)
(* new in the third is the invariant that joins them.                      *)
(***************************************************************************)
EXTENDS Server, Integers, TLAPS

-----------------------------------------------------------------------------
(* fsops.As, on its own.                                                   *)


(* Which credentials of the locked thread are the caller's at which label. *)
GroupsSwitched == Switched
GidSwitched == {"setfsuid", "fn", "restoreUid", "restoreGid"}
UidSwitched == {"fn", "restoreUid"}

(* A thread runs one goroutine; a locked thread runs only its own.         *)
Threading ==
    /\ \A g \in Goroutines : pc[g] = "idle" <=> locked[g] = None
    /\ \A g \in Goroutines : pc[g] # "idle" => id[g] \in Users
    /\ \A g, h \in Goroutines :
        g # h /\ locked[g] # None => locked[g] # locked[h]
    /\ \A g, h \in Goroutines : g # h /\ on[g] # None => on[g] # on[h]
    /\ \A g, h \in Goroutines :
        locked[h] # None /\ on[g] = locked[h] => g = h
    /\ \A g \in Goroutines :
        locked[g] # None /\ on[g] # None => on[g] = locked[g]

(* The credentials of a locked thread are determined by where its          *)
(* goroutine stands in As, but for an id the last call for which was       *)
(* refused.  A caller's groups are never in doubt: a switch of them that   *)
(* is refused is reported.                                                 *)
LockedUids ==
    \A g \in Goroutines : locked[g] # None /\ "uid" \notin refused[locked[g]] =>
        fsuid[locked[g]] = IF pc[g] \in UidSwitched THEN id[g] ELSE Root

LockedGids ==
    \A g \in Goroutines : locked[g] # None /\ "gid" \notin refused[locked[g]] =>
        fsgid[locked[g]] = IF pc[g] \in GidSwitched THEN id[g] ELSE Root

LockedGroups ==
    \A g \in Goroutines : scope = "thread" /\ locked[g] # None =>
        IF pc[g] \in GroupsSwitched
        THEN groups[locked[g]] = id[g]
        ELSE "groups" \notin refused[locked[g]] => HasServersGroups(locked[g])

(* Past captureRootGroups the package variable holds the original groups   *)
(* or none.                                                                *)
Captured ==
    \A g \in Goroutines :
        pc[g] \notin {"idle", "capture"} => rootGroups \in {Root, NoGroups}

(* As long as nobody captured them no groups were restored, in vain or     *)
(* not.                                                                    *)
NotYetRestored == rootGroups = None => \A t \in Threads : "groups" \notin refused[t]

AsIInv ==
    /\ AsTypeOK
    /\ Threading
    /\ LockedUids
    /\ LockedGids
    /\ LockedGroups
    /\ PoolThreadsAreRoot
    /\ RestoresOriginalGroups
    /\ Captured
    /\ NotYetRestored
    /\ QuiescentGroupsAreRoot

(* The initial state: nothing runs, every thread is root's.                *)
LEMMA AsInitIInv == AsInit => AsIInv
BY AccountsDistinct, NoneIsNoThread
DEF AsInit, AsIInv, AsTypeOK, Threading, LockedUids, LockedGids, LockedGroups,
    PoolThreadsAreRoot, Unlocked, HasServersGroups, RestoresOriginalGroups, Captured, NotYetRestored,
    QuiescentGroupsAreRoot, Accounts, Credentials, Labels, Switched

(* The scheduler moves goroutines between threads and touches no           *)
(* credential.                                                             *)
LEMMA SchedulerKeepsIInv ==
    ASSUME AsIInv, UNCHANGED scope, NEW g \in Goroutines,
           Park(g) \/ \E t \in Threads : Resume(g, t)
    PROVE  AsIInv'
<1>1. AsTypeOK' /\ Threading'
    BY AccountsDistinct, NoneIsNoThread
    DEF AsIInv, AsTypeOK, Threading, Park, Resume, MayRunOn, creds
<1>2. UNCHANGED <<scope, creds, locked, pc, id>>
    BY DEF Park, Resume, creds
<1> QED
    BY <1>1, <1>2
    DEF creds, AsIInv, LockedUids, LockedGids, LockedGroups, PoolThreadsAreRoot, Unlocked, HasServersGroups,
        RestoresOriginalGroups, Captured, NotYetRestored,
        QuiescentGroupsAreRoot

(* Locking and unlocking the thread: the pool thread taken is root's, and  *)
(* so is the one given back.                                               *)
LEMMA LockKeepsIInv ==
    ASSUME AsIInv, UNCHANGED scope, NEW g \in Goroutines, NEW u \in Users,
           LockThread(g, u)
    PROVE  AsIInv'
<1>1. AsTypeOK' /\ Threading'
    BY AccountsDistinct, NoneIsNoThread
    DEF AsIInv, AsTypeOK, Threading, LockThread, At, creds, Labels
<1>2. Unlocked(on[g])
    BY NoneIsNoThread DEF AsIInv, AsTypeOK, Threading, LockThread, At, Unlocked
<1>3. LockedUids' /\ LockedGids' /\ LockedGroups' /\ PoolThreadsAreRoot'
    BY <1>2, NoneIsNoThread
    DEF AsIInv, AsTypeOK, Threading, LockThread, At, creds, LockedUids, LockedGids,
        LockedGroups, PoolThreadsAreRoot, Unlocked, HasServersGroups, UidSwitched, GidSwitched,
        GroupsSwitched, Switched, Labels
<1>4. RestoresOriginalGroups' /\ Captured' /\ NotYetRestored' /\ QuiescentGroupsAreRoot'
    BY DEF AsIInv, AsTypeOK, LockThread, At, creds, RestoresOriginalGroups, Captured, NotYetRestored,
           HasServersGroups, QuiescentGroupsAreRoot, Switched, Labels
<1> QED BY <1>1, <1>3, <1>4 DEF AsIInv

LEMMA UnlockKeepsIInv ==
    ASSUME AsIInv, UNCHANGED scope, NEW g \in Goroutines, UnlockThread(g)
    PROVE  AsIInv'
<1>1. AsTypeOK' /\ Threading'
    BY AccountsDistinct, NoneIsNoThread
    DEF AsIInv, AsTypeOK, Threading, UnlockThread, At, creds, Labels
<1>2. LockedUids' /\ LockedGids' /\ LockedGroups' /\ PoolThreadsAreRoot'
    BY NoneIsNoThread
    DEF AsIInv, AsTypeOK, Threading, UnlockThread, At, creds, LockedUids, LockedGids,
        LockedGroups, PoolThreadsAreRoot, Unlocked, HasServersGroups, UidSwitched, GidSwitched,
        GroupsSwitched, Switched, Labels
<1>3. RestoresOriginalGroups' /\ Captured' /\ NotYetRestored' /\ QuiescentGroupsAreRoot'
    BY DEF AsIInv, AsTypeOK, UnlockThread, At, creds, RestoresOriginalGroups, Captured, NotYetRestored,
           HasServersGroups, QuiescentGroupsAreRoot, Switched, Labels
<1> QED BY <1>1, <1>2, <1>3 DEF AsIInv

(* The steps in between run on the locked thread and move neither a        *)
(* goroutine nor a lock.                                                   *)
InsideAs(g) ==
    \/ CaptureRootGroups(g)
    \/ SwitchGroups(g)
    \/ SwitchGid(g)
    \/ SwitchUid(g)
    \/ SwitchFails(g)
    \/ FnReturns(g)
    \/ RestoreUid(g)
    \/ RestoreGid(g)
    \/ RestoreGroups(g)

(* What the three calls do, obeyed or refused.                             *)
LEMMA SetfsuidEffect ==
    ASSUME AsTypeOK, NEW g \in Goroutines, on[g] \in Threads,
           NEW a \in Accounts, Setfsuid(g, a)
    PROVE  /\ fsuid' \in [Threads -> Accounts]
           /\ refused' \in [Threads -> SUBSET Credentials]
           /\ \A t \in Threads \ {on[g]} : UNCHANGED <<fsuid[t], refused[t]>>
           /\ \A c \in Credentials \ {"uid"} : c \in refused'[on[g]] <=> c \in refused[on[g]]
           /\ "uid" \notin refused'[on[g]] => fsuid'[on[g]] = a
BY DEF AsTypeOK, Setfsuid, Obeys, Refuses, Credentials

LEMMA SetfsgidEffect ==
    ASSUME AsTypeOK, NEW g \in Goroutines, on[g] \in Threads,
           NEW a \in Accounts, Setfsgid(g, a)
    PROVE  /\ fsgid' \in [Threads -> Accounts]
           /\ refused' \in [Threads -> SUBSET Credentials]
           /\ \A t \in Threads \ {on[g]} : UNCHANGED <<fsgid[t], refused[t]>>
           /\ \A c \in Credentials \ {"gid"} : c \in refused'[on[g]] <=> c \in refused[on[g]]
           /\ "gid" \notin refused'[on[g]] => fsgid'[on[g]] = a
BY DEF AsTypeOK, Setfsgid, Obeys, Refuses, Credentials

LEMMA SetgroupsEffect ==
    ASSUME AsTypeOK, NEW g \in Goroutines, on[g] \in Threads,
           NEW a \in Accounts \union {NoGroups}, Setgroups(g, a) \/ SetgroupsRefused(g)
    PROVE  /\ groups' \in [Threads -> Accounts \union {NoGroups}]
           /\ refused' \in [Threads -> SUBSET Credentials]
           /\ \A t \in Threads : \A c \in Credentials \ {"groups"} :
                c \in refused'[t] <=> c \in refused[t]
           /\ \A t \in Threads : scope = "process" \/ t = on[g] =>
                ("groups" \notin refused'[t] => groups'[t] = a)
           /\ \A t \in Threads : scope = "thread" /\ t # on[g] =>
                UNCHANGED <<groups[t], refused[t]>>
BY ScopeAssumption
DEF AsTypeOK, Setgroups, SetgroupsRefused, Reach, Credentials

LEMMA InsideAsKeepsIInv ==
    ASSUME AsIInv, UNCHANGED scope, NEW g \in Goroutines, InsideAs(g)
    PROVE  AsIInv'
<1> USE DEF At, Labels, Switched
<1>1. UNCHANGED <<on, locked, id>> /\ on[g] = locked[g] /\ on[g] \in Threads
    BY NoneIsNoThread
    DEF AsIInv, AsTypeOK, Threading, creds, InsideAs, CaptureRootGroups, SwitchGroups,
        SwitchGid, SwitchUid, SwitchFails, FnReturns, RestoreUid, RestoreGid, RestoreGroups
<1>2. /\ pc[g] \in Labels \ {"idle"}
      /\ pc' \in [Goroutines -> Labels]
      /\ \A h \in Goroutines : h # g => pc'[h] = pc[h]
      /\ pc'[g] # "idle"
    BY DEF AsIInv, AsTypeOK, creds, InsideAs, CaptureRootGroups, SwitchGroups,
        SwitchGid, SwitchUid, SwitchFails, FnReturns, RestoreUid, RestoreGid, RestoreGroups
<1>3. Threading'
    BY <1>1, <1>2 DEF AsIInv, Threading
<1>4. \A h \in Goroutines : h # g => locked[h] # on[g]
    BY <1>1, NoneIsNoThread DEF AsIInv, Threading
<1>5. id[g] \in Users
    BY <1>2 DEF AsIInv, Threading
<1>6. /\ AsTypeOK
      /\ \A h \in Goroutines \ {g} : UNCHANGED <<pc[h], locked[h], id[h]>>
      /\ ~Unlocked(on[g])
    BY <1>1, <1>2 DEF AsIInv, Unlocked
<1> DEFINE Uids == LockedUids /\ \A t \in Threads : Unlocked(t) =>
                        ("uid" \notin refused[t] => fsuid[t] = Root)
           Gids == LockedGids /\ \A t \in Threads : Unlocked(t) =>
                        ("gid" \notin refused[t] => fsgid[t] = Root)
           Groups == /\ LockedGroups
                     /\ \A t \in Threads : Unlocked(t) =>
                            (scope = "thread" /\ "groups" \notin refused[t] => HasServersGroups(t))
                     /\ RestoresOriginalGroups
                     /\ Captured
                     /\ NotYetRestored
                     /\ QuiescentGroupsAreRoot
<1>7. Uids /\ Gids /\ Groups
    BY DEF AsIInv, PoolThreadsAreRoot
<1>8. (AsTypeOK /\ Uids /\ Gids /\ Groups)' => AsIInv'
    BY <1>3 DEF AsIInv, PoolThreadsAreRoot
<1>9. ASSUME UNCHANGED fsuid, pc[g] \in UidSwitched <=> pc'[g] \in UidSwitched,
             \A t \in Threads : "uid" \in refused'[t] <=> "uid" \in refused[t]
      PROVE  Uids'
    BY <1>1, <1>6, <1>7, <1>9 DEF LockedUids, Unlocked, AsTypeOK
<1>10. ASSUME UNCHANGED fsgid, pc[g] \in GidSwitched <=> pc'[g] \in GidSwitched,
              \A t \in Threads : "gid" \in refused'[t] <=> "gid" \in refused[t]
       PROVE  Gids'
    BY <1>1, <1>6, <1>7, <1>10 DEF LockedGids, Unlocked, AsTypeOK
<1>11. ASSUME UNCHANGED <<groups, rootGroups>>, pc[g] # "capture",
              pc[g] \in GroupsSwitched <=> pc'[g] \in GroupsSwitched,
              \A t \in Threads : "groups" \in refused'[t] <=> "groups" \in refused[t]
       PROVE  Groups'
    <2>1. LockedGroups' /\ NotYetRestored' /\ RestoresOriginalGroups'
        BY <1>1, <1>6, <1>7, <1>11
        DEF LockedGroups, HasServersGroups, NotYetRestored, RestoresOriginalGroups, AsTypeOK
    <2>2. Captured' /\ QuiescentGroupsAreRoot'
        BY <1>1, <1>2, <1>6, <1>7, <1>11
        DEF Captured, HasServersGroups, QuiescentGroupsAreRoot, GroupsSwitched
    <2>3. \A t \in Threads : Unlocked(t)' =>
              (scope = "thread" /\ "groups" \notin refused[t] => HasServersGroups(t))'
        BY <1>1, <1>6, <1>7, <1>11 DEF HasServersGroups, Unlocked
    <2> QED BY <2>1, <2>2, <2>3
<1> HIDE DEF Uids, Gids, Groups
<1>a. CASE CaptureRootGroups(g)
    <2>1. rootGroups' \in {Root, NoGroups} /\ (rootGroups # None => rootGroups' = rootGroups)
        <3>1. CASE rootGroups = None
            <4>1. \A h \in Goroutines : pc[h] \notin Switched
                BY <3>1, <1>7, AccountsDistinct DEF Groups, Captured
            <4>2. groups[on[g]] = Root
                BY <3>1, <4>1, <1>1, <1>7, AccountsDistinct
                DEF Groups, NotYetRestored, QuiescentGroupsAreRoot, HasServersGroups
            <4> QED BY <4>2, <3>1, <1>a DEF CaptureRootGroups
        <3>2. CASE rootGroups # None
            BY <3>2, <1>a, <1>7 DEF CaptureRootGroups, Groups, RestoresOriginalGroups
        <3> QED BY <3>1, <3>2
    <2>2. UNCHANGED <<fsuid, fsgid, groups, refused>> /\ pc[g] = "capture" /\ pc'[g] = "setgroups"
        BY <1>a, <1>6 DEF CaptureRootGroups, AsTypeOK
    <2>3. AsTypeOK' /\ Uids' /\ Gids'
        BY <2>1, <2>2, <1>1, <1>2, <1>6, <1>9, <1>10
        DEF AsTypeOK, Accounts, UidSwitched, GidSwitched
    <2>4. \A t \in Threads : HasServersGroups(t) => HasServersGroups(t)'
        BY <2>1, <2>2, AccountsDistinct DEF HasServersGroups
    <2>5. Groups'
        BY <2>1, <2>2, <2>4, <1>1, <1>6, <1>7, AccountsDistinct
        DEF Groups, LockedGroups, Unlocked, RestoresOriginalGroups, Captured, NotYetRestored,
            QuiescentGroupsAreRoot, GroupsSwitched, AsTypeOK
    <2> QED BY <2>3, <2>5, <1>8
<1>b. CASE SwitchGroups(g)
    <2>1. /\ groups' \in [Threads -> Accounts \union {NoGroups}]
          /\ refused' \in [Threads -> SUBSET Credentials]
          /\ groups'[on[g]] = id[g]
          /\ \A t \in Threads : \A c \in {"uid", "gid"} : c \in refused'[t] <=> c \in refused[t]
          /\ \A t \in Threads : "groups" \in refused'[t] => "groups" \in refused[t]
          /\ \A t \in Threads : scope = "thread" /\ t # on[g] =>
                UNCHANGED <<groups[t], refused[t]>>
        BY <1>b, <1>1, <1>5, <1>6
        DEF SwitchGroups, Setgroups, Reach, AsTypeOK, Accounts, Credentials
    <2>2. UNCHANGED <<fsuid, fsgid, rootGroups>> /\ pc[g] = "setgroups" /\ pc'[g] = "setfsgid"
        BY <1>b, <1>6 DEF SwitchGroups, AsTypeOK
    <2>3. AsTypeOK' /\ Uids' /\ Gids'
        BY <2>1, <2>2, <1>1, <1>2, <1>6, <1>9, <1>10
        DEF AsTypeOK, UidSwitched, GidSwitched
    <2>4. LockedGroups'
        BY <2>1, <2>2, <1>1, <1>4, <1>6, <1>7
        DEF Groups, LockedGroups, HasServersGroups, GroupsSwitched, AsTypeOK
    <2>5. \A t \in Threads : Unlocked(t)' =>
              (scope = "thread" /\ "groups" \notin refused[t] => HasServersGroups(t))'
        BY <2>1, <2>2, <1>1, <1>6, <1>7 DEF Groups, HasServersGroups, Unlocked
    <2>6. RestoresOriginalGroups' /\ Captured' /\ NotYetRestored' /\ QuiescentGroupsAreRoot'
        BY <2>1, <2>2, <1>6, <1>7
        DEF Groups, RestoresOriginalGroups, Captured, NotYetRestored, QuiescentGroupsAreRoot
    <2> QED BY <2>3, <2>4, <2>5, <2>6, <1>8 DEF Groups
<1>c. CASE SwitchGid(g) \/ RestoreGid(g)
    <2>1. PICK a \in Accounts :
            /\ Setfsgid(g, a)
            /\ a = IF pc'[g] \in GidSwitched THEN id[g] ELSE Root
        BY <1>c, <1>5, <1>6 DEF SwitchGid, RestoreGid, AsTypeOK, Accounts, GidSwitched
    <2>2. /\ UNCHANGED <<fsuid, groups, rootGroups>>
          /\ pc[g] # "capture"
          /\ pc[g] \in UidSwitched <=> pc'[g] \in UidSwitched
          /\ pc[g] \in GroupsSwitched <=> pc'[g] \in GroupsSwitched
        BY <1>c, <1>6 DEF SwitchGid, RestoreGid, AsTypeOK, UidSwitched, GroupsSwitched
    <2>3. /\ fsgid' \in [Threads -> Accounts]
          /\ refused' \in [Threads -> SUBSET Credentials]
          /\ \A t \in Threads \ {on[g]} : UNCHANGED <<fsgid[t], refused[t]>>
          /\ \A t \in Threads : \A c \in {"uid", "groups"} : c \in refused'[t] <=> c \in refused[t]
          /\ "gid" \notin refused'[on[g]] => fsgid'[on[g]] = a
        BY <2>1, <1>1, <1>6, SetfsgidEffect DEF Credentials
    <2>4. AsTypeOK' /\ Uids' /\ Groups'
        BY <2>2, <2>3, <1>1, <1>2, <1>6, <1>9, <1>11 DEF AsTypeOK
    <2>5. Gids'
        BY <2>1, <2>3, <1>1, <1>4, <1>6, <1>7 DEF Gids, LockedGids, Unlocked, AsTypeOK
    <2> QED BY <2>4, <2>5, <1>8
<1>d. CASE SwitchUid(g) \/ RestoreUid(g)
    <2>1. PICK a \in Accounts :
            /\ Setfsuid(g, a)
            /\ a = IF pc'[g] \in UidSwitched THEN id[g] ELSE Root
        BY <1>d, <1>5, <1>6 DEF SwitchUid, RestoreUid, AsTypeOK, Accounts, UidSwitched
    <2>2. /\ UNCHANGED <<fsgid, groups, rootGroups>>
          /\ pc[g] # "capture"
          /\ pc[g] \in GidSwitched <=> pc'[g] \in GidSwitched
          /\ pc[g] \in GroupsSwitched <=> pc'[g] \in GroupsSwitched
        BY <1>d, <1>6 DEF SwitchUid, RestoreUid, AsTypeOK, GidSwitched, GroupsSwitched
    <2>3. /\ fsuid' \in [Threads -> Accounts]
          /\ refused' \in [Threads -> SUBSET Credentials]
          /\ \A t \in Threads \ {on[g]} : UNCHANGED <<fsuid[t], refused[t]>>
          /\ \A t \in Threads : \A c \in {"gid", "groups"} : c \in refused'[t] <=> c \in refused[t]
          /\ "uid" \notin refused'[on[g]] => fsuid'[on[g]] = a
        BY <2>1, <1>1, <1>6, SetfsuidEffect DEF Credentials
    <2>4. AsTypeOK' /\ Gids' /\ Groups'
        BY <2>2, <2>3, <1>1, <1>2, <1>6, <1>10, <1>11 DEF AsTypeOK
    <2>5. Uids'
        BY <2>1, <2>3, <1>1, <1>4, <1>6, <1>7 DEF Uids, LockedUids, Unlocked, AsTypeOK
    <2> QED BY <2>4, <2>5, <1>8
<1>e. CASE SwitchFails(g) \/ FnReturns(g)
    <2>1. /\ UNCHANGED creds
          /\ pc[g] # "capture"
          /\ pc[g] \in UidSwitched <=> pc'[g] \in UidSwitched
          /\ pc[g] \in GidSwitched <=> pc'[g] \in GidSwitched
          /\ pc[g] \in GroupsSwitched <=> pc'[g] \in GroupsSwitched
        BY <1>e, <1>6
        DEF SwitchFails, FnReturns, AsTypeOK, UidSwitched, GidSwitched, GroupsSwitched
    <2> QED
        BY <2>1, <1>1, <1>2, <1>6, <1>8, <1>9, <1>10, <1>11 DEF creds, AsTypeOK
<1>f. CASE RestoreGroups(g)
    <2>1. rootGroups \in {Root, NoGroups}
        BY <1>f, <1>7 DEF RestoreGroups, Groups, Captured
    <2>2. /\ groups' \in [Threads -> Accounts \union {NoGroups}]
          /\ refused' \in [Threads -> SUBSET Credentials]
          /\ \A t \in Threads : \A c \in {"uid", "gid"} : c \in refused'[t] <=> c \in refused[t]
          /\ \A t \in Threads : scope = "process" \/ t = on[g] =>
                ("groups" \notin refused'[t] => groups'[t] = rootGroups)
          /\ \A t \in Threads : scope = "thread" /\ t # on[g] =>
                UNCHANGED <<groups[t], refused[t]>>
        BY <2>1, <1>f, <1>1, <1>6, SetgroupsEffect DEF RestoreGroups, Accounts, Credentials
    <2>3. UNCHANGED <<fsuid, fsgid, rootGroups>> /\ pc[g] = "restoreGroups" /\ pc'[g] = "unlock"
        BY <1>f, <1>6 DEF RestoreGroups, AsTypeOK
    <2>4. AsTypeOK' /\ Uids' /\ Gids'
        BY <2>2, <2>3, <1>1, <1>2, <1>6, <1>9, <1>10
        DEF AsTypeOK, UidSwitched, GidSwitched
    <2>5. \A t \in Threads : scope = "process" \/ t = on[g] =>
              ("groups" \notin refused[t] => HasServersGroups(t))'
        BY <2>1, <2>2, <2>3 DEF HasServersGroups
    <2>6. LockedGroups'
        BY <2>2, <2>3, <2>5, <1>1, <1>4, <1>6, <1>7
        DEF Groups, LockedGroups, HasServersGroups, GroupsSwitched, AsTypeOK
    <2>7. \A t \in Threads : Unlocked(t)' =>
              (scope = "thread" /\ "groups" \notin refused[t] => HasServersGroups(t))'
        BY <2>2, <2>3, <1>1, <1>6, <1>7 DEF Groups, HasServersGroups, Unlocked
    <2>8. RestoresOriginalGroups' /\ Captured' /\ NotYetRestored'
        BY <2>1, <2>3, <1>6, <1>7, AccountsDistinct
        DEF Groups, RestoresOriginalGroups, Captured, NotYetRestored
    <2>9. QuiescentGroupsAreRoot'
        <3>1. CASE scope = "process"
            BY <3>1, <2>5 DEF QuiescentGroupsAreRoot
        <3>2. CASE scope = "thread"
            <4> SUFFICES ASSUME \A h \in Goroutines : pc'[h] \notin Switched,
                                NEW t \in Threads, "groups" \notin refused'[t]
                         PROVE  HasServersGroups(t)'
                BY DEF QuiescentGroupsAreRoot
            <4>1. CASE \E h \in Goroutines : locked'[h] = t
                BY <4>1, <3>2, <2>6, <1>1, NoneIsNoThread DEF LockedGroups, GroupsSwitched
            <4>2. CASE Unlocked(t)'
                BY <4>2, <3>2, <2>7, <1>1
            <4> QED BY <4>1, <4>2 DEF Unlocked
        <3> QED BY <3>1, <3>2, ScopeAssumption, <1>6 DEF AsTypeOK
    <2> QED BY <2>4, <2>6, <2>7, <2>8, <2>9, <1>8 DEF Groups
<1> QED
    BY <1>a, <1>b, <1>c, <1>d, <1>e, <1>f DEF InsideAs

LEMMA AsNextKeepsIInv == AsIInv /\ [AsNext]_asVars => AsIInv'
<1> SUFFICES ASSUME AsIInv, [AsNext]_asVars PROVE AsIInv'
    OBVIOUS
<1>1. CASE UNCHANGED asVars
    BY <1>1
    DEF asVars, creds, AsIInv, AsTypeOK, Threading, LockedUids, LockedGids, LockedGroups,
        PoolThreadsAreRoot, Unlocked, HasServersGroups, RestoresOriginalGroups, Captured,
        NotYetRestored, QuiescentGroupsAreRoot
<1>2. CASE AsNext
    <2>1. PICK g \in Goroutines : Step(g) /\ UNCHANGED scope
        BY <1>2 DEF AsNext
    <2>2. CASE Park(g) \/ \E t \in Threads : Resume(g, t)
        BY <2>1, <2>2, SchedulerKeepsIInv
    <2>3. CASE \E u \in Users : LockThread(g, u)
        BY <2>1, <2>3, LockKeepsIInv
    <2>4. CASE UnlockThread(g)
        BY <2>1, <2>4, UnlockKeepsIInv
    <2>5. CASE InsideAs(g)
        BY <2>1, <2>5, InsideAsKeepsIInv
    <2> QED BY <2>1, <2>2, <2>3, <2>4, <2>5 DEF Step, Runs, InsideAs
<1> QED BY <1>1, <1>2

(* The inductive invariant holds in every reachable state.                 *)
THEOREM AsInvariance == AsSpec => []AsIInv
BY AsInitIInv, AsNextKeepsIInv, PTL DEF AsSpec

-----------------------------------------------------------------------------
(* Results.                                                                *)

(* Every variable of As keeps its type.                                    *)
THEOREM AsTypeCorrect == AsSpec => []AsTypeOK
<1>1. AsIInv => AsTypeOK BY DEF AsIInv
<1> QED BY AsInvariance, <1>1, PTL

(* Each file system call is checked as the caller's uid and gid, whatever  *)
(* the scope of Setgroups, but for one the kernel refused to switch.       *)
THEOREM FsIdsAreCallers == AsSpec => []FsIdsOfCaller
<1>1. AsIInv => FsIdsOfCaller
    BY DEF AsIInv, Threading, LockedUids, LockedGids, FsIdsOfCaller, InFn, UidSwitched, GidSwitched
<1> QED BY AsInvariance, <1>1, PTL

(* Each file system call is checked with the caller's groups, if Setgroups *)
(* changes the calling thread only.                                        *)
THEOREM GroupsAreCallers == AsSpec => []GroupsOfCallerByThread
<1>1. AsIInv => GroupsOfCallerByThread
    BY DEF AsIInv, Threading, LockedGroups, GroupsOfCallerByThread, GroupsOfCaller, InFn,
           GroupsSwitched, Switched
<1> QED BY AsInvariance, <1>1, PTL

(* A thread returned to the pool carries the server's credentials, but for *)
(* one whose restore was refused.                                          *)
THEOREM PoolIsClean == AsSpec => []PoolThreadsAreRoot
<1>1. AsIInv => PoolThreadsAreRoot BY DEF AsIInv
<1> QED BY AsInvariance, <1>1, PTL

(* As restores the groups the process started with, or none if it could    *)
(* not read them; when no call of As is under way every thread has them    *)
(* again, unless the last restore was refused.                             *)
THEOREM GroupsComeBack == AsSpec => [](RestoresOriginalGroups /\ QuiescentGroupsAreRoot)
<1>1. AsIInv => RestoresOriginalGroups /\ QuiescentGroupsAreRoot BY DEF AsIInv
<1> QED BY AsInvariance, <1>1, PTL

-----------------------------------------------------------------------------
(* Sessions, on their own.                                                 *)

(* What a session's uses so far justify as its expiry.                     *)
Bound(t) == IF born[t].remember
            THEN born[t].time + RememberMeDuration
            ELSE lastUse[t] + IdleTimeout

Justified(t, r) ==
    /\ r.remember = born[t].remember
    /\ ~r.remember => r.lastSeen <= lastUse[t]
    /\ r.expires <= Bound(t)

RowsJustified ==
    \A t \in Tokens : row[t] # NoRow => born[t] # NoRow /\ Justified(t, row[t])

(* The copy of the row a request acts on stays justified, whatever became  *)
(* of the row; a request past Judge was in time.                           *)
RequestsJustified ==
    \A r \in Requests : req[r].at # "idle" =>
        LET t == req[r].token IN
        /\ t \in Tokens
        /\ born[t] # NoRow
        /\ req[r].at \in {"read", "touch"} =>
            req[r].seen \in Row /\ Justified(t, req[r].seen)
        /\ req[r].at = "touch" => req[r].time <= Bound(t)

IInv == TypeOK /\ RowsJustified /\ RequestsJustified

-----------------------------------------------------------------------------
(* A multiple of the divisor leaves no remainder.                          *)
LEMMA MultipleHasNoRemainder ==
    ASSUME NEW s \in Nat \ {0}, NEW q \in Nat
    PROVE  (s * q) % s = 0
<1> DEFINE k == (s * q) \div s
           r == (s * q) % s
<1>1. k \in Int /\ r \in 0 .. s - 1 /\ s * q = s * k + r
    OBVIOUS
<1>2. q \in Int /\ s \in Int
    OBVIOUS
<1> HIDE DEF k, r
<1>3. s * (q - k) = r
    BY <1>1, <1>2
<1>4. CASE q - k >= 1
    <2>1. s * (q - k) >= s BY <1>4, <1>1
    <2> QED BY <2>1, <1>3, <1>1
<1>5. CASE q - k <= -1
    <2>1. s * (q - k) <= -s BY <1>5, <1>1
    <2> QED BY <2>1, <1>3, <1>1
<1>6. CASE q = k
    BY <1>6, <1>3, <1>1, <1>2 DEF r
<1> QED BY <1>4, <1>5, <1>6, <1>1

(* Storing a time rounds it down to a whole second.                        *)
LEMMA UnixRoundsDown ==
    ASSUME NEW t \in Nat
    PROVE  Unix(t) \in Seconds /\ Unix(t) <= t
<1>1. /\ t \div TicksPerSecond \in Nat
      /\ Unix(t) = TicksPerSecond * (t \div TicksPerSecond)
      /\ Unix(t) \in Nat
      /\ Unix(t) <= t
    BY ClockAssumption DEF Unix
<1> QED BY <1>1, ClockAssumption, MultipleHasNoRemainder DEF Seconds

(* Nothing exists at the start.                                            *)
LEMMA InitIInv == Init => IInv
BY NoRowAssumption
DEF Init, IInv, TypeOK, RowsJustified, RequestsJustified, Request, Free, With

LEMMA CreateKeepsIInv ==
    ASSUME IInv, NEW t \in Tokens, NEW remember \in BOOLEAN, Create(t, remember)
    PROVE  IInv'
<1> DEFINE life == IF remember THEN RememberMeDuration ELSE IdleTimeout
           new == [lastSeen |-> Unix(now), expires |-> Unix(now + life), remember |-> remember]
<1>1. now \in Nat /\ now + life \in Nat
    BY TimeoutAssumption DEF IInv, TypeOK
<1>2. new \in Row /\ new.lastSeen <= now /\ new.expires <= now + life
    BY <1>1, UnixRoundsDown DEF Row
<1>3. row' = [row EXCEPT ![t] = new]
    BY DEF Create
<1> HIDE DEF new
<1>4. TypeOK'
    BY <1>1, <1>2, <1>3 DEF Create, IInv, TypeOK, Birth
<1>5. born'[t] = [time |-> now, remember |-> remember] /\ lastUse'[t] = now /\ born'[t] # NoRow
    BY NoRowAssumption, <1>1 DEF Create, IInv, TypeOK, Birth
<1>6. RowsJustified'
    BY <1>2, <1>3, <1>5, TimeoutAssumption
    DEF new, Create, IInv, TypeOK, RowsJustified, Justified, Bound
<1>7. RequestsJustified'
    BY DEF Create, IInv, TypeOK, RequestsJustified, Justified, Bound
<1> QED BY <1>4, <1>6, <1>7 DEF IInv

LEMMA ReadKeepsIInv ==
    ASSUME IInv, NEW r \in Requests,
           (\E t \in Tokens : GetSession(r, t)) \/ Judge(r)
    PROVE  IInv'
<1>1. CASE \E t \in Tokens : GetSession(r, t)
    BY <1>1, NoRowAssumption DEF GetSession, IInv, TypeOK, Request, RowsJustified, RequestsJustified,
       Justified, Bound
<1>2. CASE Judge(r)
    <2>1. ~Timeout(req[r].seen) => now <= Bound(req[r].token)
        BY <1>2, TimeoutAssumption
        DEF Judge, Timeout, IInv, TypeOK, RequestsJustified, Justified, Bound, Row, Seconds,
            Birth
    <2>2. TypeOK'
        <3>1. req'[r] \in Request
            BY <1>2 DEF Judge, With, IInv, TypeOK, Request
        <3> QED BY <1>2, <3>1 DEF Judge, IInv, TypeOK
    <2> QED
        BY <1>2, <2>1, <2>2
        DEF Judge, With, IInv, TypeOK, Request, RowsJustified, RequestsJustified, Justified, Bound
<1> QED BY <1>1, <1>2

LEMMA TouchKeepsIInv ==
    ASSUME IInv, NEW r \in Requests, Touch(r)
    PROVE  IInv'
<1>1. PICK t \in Tokens, seen \in Row, time \in Nat :
        /\ t = req[r].token /\ seen = req[r].seen /\ time = req[r].time
        /\ born[t] \in Birth \ {NoRow} /\ Justified(t, seen)
    BY DEF Touch, IInv, TypeOK, Request, RequestsJustified
<1>2. /\ Unix(time) \in Seconds /\ Unix(time) <= time
      /\ Unix(time + IdleTimeout) \in Seconds /\ Unix(time + IdleTimeout) <= time + IdleTimeout
    BY UnixRoundsDown, TimeoutAssumption
<1>3. PICK new \in [lastSeen : Seconds, expires : Seconds, remember : BOOLEAN] :
        new = [lastSeen |-> Unix(time), expires |-> NewExpiry(seen, time),
               remember |-> seen.remember]
    BY <1>1, <1>2 DEF NewExpiry, Row
<1>4. /\ lastUse' = [lastUse EXCEPT ![t] = IF ~seen.remember /\ time > @ THEN time ELSE @]
      /\ row' = [row EXCEPT ![t] = IF @ = NoRow THEN NoRow ELSE new]
      /\ req' = [req EXCEPT ![r] = With("handler", t)]
      /\ UNCHANGED <<now, born>>
    BY <1>1, <1>3 DEF Touch, TouchSession
<1>5. new \in Row
    BY DEF Row
<1>6. /\ lastUse' \in [Tokens -> Nat]
      /\ \A u \in Tokens : lastUse'[u] >= lastUse[u]
      /\ ~seen.remember => lastUse'[t] >= time
    BY <1>1, <1>4 DEF IInv, TypeOK
<1>7. Justified(t, new)'
    BY <1>1, <1>3, <1>4, <1>2, <1>6, TimeoutAssumption
    DEF NewExpiry, Justified, Bound, Row, Seconds, Birth
<1>8. TypeOK'
    BY <1>1, <1>4, <1>5, <1>6 DEF IInv, TypeOK, Request, With
<1>9. \A u \in Tokens, s \in Row : born[u] # NoRow /\ Justified(u, s) => Justified(u, s)'
    BY <1>4, <1>6, TimeoutAssumption
    DEF IInv, TypeOK, Justified, Bound, Row, Seconds, Birth
<1>10. RowsJustified'
    BY <1>1, <1>4, <1>7, <1>9 DEF IInv, TypeOK, RowsJustified
<1>11. RequestsJustified'
    <2>1. /\ req'[r].at = "handler" /\ req'[r].token = req[r].token
          /\ \A q \in Requests : q # r => req'[q] = req[q]
        BY <1>1, <1>4 DEF IInv, TypeOK, With
    <2>2. req[r].at = "touch"
        BY DEF Touch
    <2>3. \A u \in Tokens : born[u] # NoRow => Bound(u)' >= Bound(u) /\ Bound(u) \in Nat /\ Bound(u)' \in Nat
        BY <1>4, <1>6, TimeoutAssumption DEF IInv, TypeOK, Bound, Birth
    <2> QED
        BY <1>4, <1>9, <2>1, <2>2, <2>3 DEF IInv, TypeOK, Request, RequestsJustified
<1> QED BY <1>8, <1>10, <1>11 DEF IInv

LEMMA OtherStepsKeepIInv ==
    ASSUME IInv,
           \/ \E r \in Requests : DeleteTimedOut(r) \/ Serve(r) \/ Logout(r)
           \/ \E t \in Tokens : Destroy(t)
           \/ Tick \/ Restart \/ UNCHANGED vars
    PROVE  IInv'
<1>1. CASE (\E r \in Requests : DeleteTimedOut(r) \/ Serve(r) \/ Logout(r))
            \/ \E t \in Tokens : Destroy(t)
    <2>1. /\ UNCHANGED <<now, born, lastUse>>
          /\ row' = row \/ \E t : row' = [row EXCEPT ![t] = NoRow]
          /\ req' = req \/ \E r \in Requests : req' = [req EXCEPT ![r] = Free]
        BY <1>1 DEF DeleteTimedOut, Serve, Logout, Destroy, DeleteSession
    <2>2. Free \in Request /\ Free.at = "idle"
        BY DEF Free, With, Request
    <2>3. \A r \in Requests : req'[r] = req[r] \/ req'[r] = Free
        BY <2>1 DEF IInv, TypeOK
    <2>4. \A t \in Tokens : row'[t] = row[t] \/ row'[t] = NoRow
        BY <2>1 DEF IInv, TypeOK
    <2>5. TypeOK'
        BY <2>1, <2>2 DEF IInv, TypeOK
    <2>6. RowsJustified' /\ RequestsJustified'
        BY <2>1, <2>2, <2>3, <2>4
        DEF IInv, TypeOK, RowsJustified, RequestsJustified, Justified, Bound
    <2> QED BY <2>5, <2>6 DEF IInv
<1>2. CASE Tick
    BY <1>2 DEF Tick, IInv, TypeOK, RowsJustified, RequestsJustified, Justified, Bound
<1>3. CASE Restart
    BY <1>3 DEF Restart, Free, With, IInv, TypeOK, Request, RowsJustified, RequestsJustified,
        Justified, Bound
<1>4. CASE UNCHANGED vars
    BY <1>4 DEF vars, IInv, TypeOK, RowsJustified, RequestsJustified, Justified, Bound
<1> QED BY <1>1, <1>2, <1>3, <1>4

LEMMA NextKeepsIInv == IInv /\ [Next]_vars => IInv'
BY CreateKeepsIInv, ReadKeepsIInv, TouchKeepsIInv, OtherStepsKeepIInv DEF Next

(* The inductive invariant holds in every reachable state.                 *)
THEOREM Invariance == Spec => []IInv
BY InitIInv, NextKeepsIInv, PTL DEF Spec

-----------------------------------------------------------------------------
(* Results.                                                                *)

(* Every variable keeps its type; the table holds whole seconds.           *)
THEOREM TypeCorrect == Spec => []TypeOK
<1>1. IInv => TypeOK BY DEF IInv
<1> QED BY Invariance, <1>1, PTL

(* No request gets a session in after the absolute expiry of a remembered  *)
(* one, or after IdleTimeout without use of another.                       *)
THEOREM TimeoutsEnforced == Spec => [](RememberIsAbsolute /\ IdleSessionsEnd)
<1>1. IInv => RememberIsAbsolute /\ IdleSessionsEnd
    BY DEF IInv, RequestsJustified, Justified, Bound, RememberIsAbsolute, IdleSessionsEnd
<1> QED BY Invariance, <1>1, PTL

(* The table never grants more time than the uses justify.                 *)
THEOREM ExpiriesJustified == Spec => []ExpiryJustified
<1>1. IInv => ExpiryJustified
    BY DEF IInv, RowsJustified, Justified, Bound, ExpiryJustified
<1> QED BY Invariance, <1>1, PTL

(* A session that is gone does not come back.                              *)
THEOREM NoRevival == Spec => GoneForGood
<1> DEFINE Gone == \A t \in Tokens : born[t] # NoRow /\ row[t] = NoRow => row'[t] = NoRow
<1>1. IInv /\ [Next]_vars => [Gone]_vars
    <2> SUFFICES ASSUME IInv, Next PROVE Gone
        OBVIOUS
    <2> QED
        BY DEF IInv, TypeOK, Request, RequestsJustified, Next, Create, GetSession, Judge,
            DeleteTimedOut, DeleteSession, Touch, TouchSession, Serve, Logout, Destroy, Tick, Restart
<1> QED BY Invariance, <1>1, PTL DEF Spec, GoneForGood

-----------------------------------------------------------------------------
(* The server.                                                             *)

ContextTypeOK ==
    /\ methods \in Configurations
    /\ owner \in [Tokens -> Users \union {None}]
    /\ header \in [Requests -> Users \union {None}]
    /\ user \in [Requests -> Users \union {None}]

(* The name in the context is the caller's as long as the request lasts,   *)
(* and it is what As was called with.                                      *)
Joined ==
    \A r \in Requests :
        /\ req[r].at # "idle" => user[r] = owner[req[r].token] /\ ~Trusted(header[r])
        /\ ByHeader(r) => user[r] = header[r] /\ Trusted(header[r])
        /\ pc[r] # "idle" => InHandler(r) /\ id[r] = user[r]

(* A session that ever was has an owner.                                   *)
Owned == \A t \in Tokens : born[t] # NoRow => owner[t] \in Users

ServerInv == IInv /\ AsIInv /\ ContextTypeOK /\ Joined /\ Owned

-----------------------------------------------------------------------------
LEMMA InitServerInv == ServerInit => ServerInv
<1> SUFFICES ASSUME ServerInit PROVE ServerInv
    OBVIOUS
<1>1. IInv /\ AsIInv
    BY InitIInv, AsInitIInv DEF ServerInit
<1>2. ContextTypeOK /\ Joined /\ Owned
    BY RequestsAssumption
    DEF ServerInit, Init, AsInit, Free, With, ContextTypeOK, Joined, ByHeader, InHandler, Owned
<1> QED BY <1>1, <1>2 DEF ServerInv

(* A request in progress has a user.                                       *)
LEMMA UserKnown ==
    ASSUME ServerInv, NEW r \in Requests, req[r].at # "idle" \/ user[r] # None
    PROVE  user[r] \in Users
<1>1. CASE req[r].at # "idle"
    BY <1>1 DEF ServerInv, Joined, Owned, IInv, RequestsJustified
<1>2. CASE req[r].at = "idle"
    BY <1>2 DEF ServerInv, Joined, ByHeader, Trusted, ContextTypeOK
<1> QED BY <1>1, <1>2

(* What a goroutine does in As concerns it alone, and it keeps the         *)
(* identity it called As with.                                             *)
LEMMA RunsKeepsIdentity ==
    ASSUME AsIInv, NEW g \in Goroutines, Runs(g), NEW h \in Goroutines, pc'[h] # "idle"
    PROVE  pc[h] # "idle" /\ id'[h] = id[h]
BY DEF Runs, Park, Resume, CaptureRootGroups, SwitchGroups, SwitchGid, SwitchUid, SwitchFails,
       FnReturns, RestoreUid, RestoreGid, RestoreGroups, UnlockThread, At, creds, AsIInv, AsTypeOK

LEMMA SignInKeepsServerInv ==
    ASSUME ServerInv, NEW t \in Tokens, NEW u \in Users, NEW remember \in BOOLEAN,
           SignIn(t, u, remember)
    PROVE  ServerInv'
<1>1. IInv'
    BY NextKeepsIInv DEF ServerInv, SignIn, Next
<1>2. AsIInv'
    BY AsNextKeepsIInv DEF ServerInv, SignIn
<1>3. \A r \in Requests : req[r].at # "idle" => req[r].token # t /\ req[r].token \in Tokens
    BY DEF ServerInv, IInv, RequestsJustified, SignIn, Create
<1>4. ContextTypeOK' /\ Joined'
    BY <1>3 DEF ServerInv, ContextTypeOK, Joined, SignIn, Create, asVars, ByHeader, InHandler,
                Trusted
<1>5. Owned'
    BY DEF ServerInv, ContextTypeOK, Owned, SignIn, Create, IInv, TypeOK
<1> QED BY <1>1, <1>2, <1>4, <1>5 DEF ServerInv

LEMMA RequireAuthKeepsServerInv ==
    ASSUME ServerInv, NEW r \in Requests,
           \/ \E h \in Users \union {None} :
                VouchedFor(r, h) \/ \E t \in Tokens : HasCookie(r, t, h)
           \/ Validates(r) \/ TimedOut(r)
    PROVE  ServerInv'
<1>1. IInv'
    BY NextKeepsIInv DEF ServerInv, VouchedFor, HasCookie, Validates, TimedOut, Next
<1>2. AsIInv'
    BY AsNextKeepsIInv DEF ServerInv, VouchedFor, HasCookie, Validates, TimedOut
<1>3. UNCHANGED <<methods, owner, asVars>>
    BY DEF VouchedFor, HasCookie, Validates, TimedOut, context
<1>4. Owned' /\ ContextTypeOK'
    BY <1>3 DEF ServerInv, Owned, ContextTypeOK, VouchedFor, HasCookie, Validates, TimedOut,
                GetSession, Judge, Touch, DeleteTimedOut, Ends, context, vars
<1>5. UNCHANGED <<pc, id>> /\ RequestsJustified /\ req \in [Requests -> Request]
    BY <1>3 DEF asVars, ServerInv, IInv, TypeOK
<1>6. Joined'
    <2>1. CASE \E h \in Users \union {None} : VouchedFor(r, h)
        <3>1. PICK h \in Users \union {None} : VouchedFor(r, h)
            BY <2>1
        <3>2. req[r].at = "idle"
            BY <3>1, UserKnown, AccountsDistinct DEF VouchedFor
        <3>3. /\ req' = req /\ user'[r] = h /\ header'[r] = h /\ Trusted(h)'
              /\ pc'[r] = "idle"
            BY <3>1, <3>2, <1>3, <1>5
            DEF VouchedFor, Trusted, vars, ServerInv, Joined, ContextTypeOK, InHandler, ByHeader
        <3>4. \A q \in Requests \ {r} : UNCHANGED <<user[q], header[q]>>
            BY <3>1 DEF VouchedFor, ServerInv, ContextTypeOK
        <3> QED BY <3>2, <3>3, <3>4, <1>3, <1>5
            DEF ServerInv, Joined, ByHeader, InHandler, Trusted
    <2>2. CASE \E h \in Users \union {None}, t \in Tokens : HasCookie(r, t, h)
        <3>1. PICK h \in Users \union {None}, t \in Tokens : HasCookie(r, t, h)
            BY <2>2
        <3>2. /\ req'[r].at = "read" /\ req'[r].token = t
              /\ user'[r] = owner'[t] /\ ~Trusted(header[r])'
              /\ pc'[r] = "idle"
            BY <3>1, <1>3, <1>5
            DEF HasCookie, GetSession, Trusted, ServerInv, Joined, ContextTypeOK, InHandler,
                ByHeader
        <3>3. \A q \in Requests \ {r} : UNCHANGED <<req[q], user[q], header[q]>>
            BY <3>1, <1>5 DEF HasCookie, GetSession, ServerInv, ContextTypeOK
        <3> QED BY <3>2, <3>3, <1>3, <1>5
            DEF ServerInv, Joined, ByHeader, InHandler, Trusted
    <2>3. CASE Validates(r)
        <3>1. /\ req[r].at \in {"read", "touch"}
              /\ req'[r].at # "idle" /\ req'[r].token = req[r].token
              /\ \A q \in Requests \ {r} : req'[q] = req[q]
            <4>1. CASE Judge(r)
                <5>1. req[r] \in Request
                    BY <1>5
                <5> QED BY <4>1, <5>1, <1>5 DEF Judge, With, Request
            <4>2. CASE Touch(r)
                BY <4>2, <1>5 DEF Touch, With
            <4> QED BY <2>3, <4>1, <4>2 DEF Validates
        <3>2. UNCHANGED <<user, header>> /\ pc'[r] = "idle"
            BY <2>3, <3>1, <1>3, <1>5
            DEF Validates, context, ServerInv, Joined, InHandler, ByHeader
        <3> QED BY <3>1, <3>2, <1>3, <1>5
            DEF ServerInv, Joined, ByHeader, InHandler, Trusted
    <2>4. CASE TimedOut(r)
        <3>1. /\ req'[r].at = "idle" /\ user'[r] = None
              /\ pc'[r] = "idle"
            BY <2>4, <1>3, <1>5
            DEF TimedOut, DeleteTimedOut, Ends, Free, With, ServerInv, Joined, ContextTypeOK,
                InHandler, ByHeader
        <3>2. \A q \in Requests \ {r} : UNCHANGED <<req[q], user[q], header[q]>>
            BY <2>4, <1>5 DEF TimedOut, DeleteTimedOut, Ends, ServerInv, ContextTypeOK
        <3> QED BY <3>1, <3>2, <1>3, <1>5
            DEF ServerInv, Joined, ByHeader, InHandler, Trusted
    <2> QED BY <2>1, <2>2, <2>3, <2>4
<1> QED BY <1>1, <1>2, <1>4, <1>6 DEF ServerInv

LEMMA HandlersKeepServerInv ==
    ASSUME ServerInv, NEW r \in Requests, UsesFiles(r) \/ Answers(r) \/ SignsOut(r)
    PROVE  ServerInv'
<1> r \in Goroutines
    BY RequestsAssumption
<1>1. CASE UsesFiles(r)
    <2>1. user[r] \in Users
        BY <1>1, UserKnown DEF UsesFiles, InHandler, ByHeader
    <2>2. AsNext
        BY <1>1, <2>1 DEF UsesFiles, AsNext, Step
    <2>3. IInv' /\ AsIInv'
        BY <1>1, <2>2, NextKeepsIInv, AsNextKeepsIInv DEF ServerInv, UsesFiles
    <2>4. ContextTypeOK' /\ Owned'
        BY <1>1 DEF ServerInv, UsesFiles, context, vars, ContextTypeOK, Owned
    <2>5. ASSUME NEW q \in Requests, pc'[q] # "idle"
          PROVE  IF pc[q] # "idle" THEN id'[q] = id[q] ELSE q = r /\ id'[q] = user[r]
        <3> q \in Goroutines
            BY RequestsAssumption
        <3>1. CASE Runs(r)
            BY <3>1, <2>5, RunsKeepsIdentity DEF ServerInv
        <3>2. CASE LockThread(r, user[r])
            BY <3>2, <2>5 DEF LockThread, At, ServerInv, AsIInv, AsTypeOK
        <3> QED BY <1>1, <3>1, <3>2 DEF UsesFiles
    <2>6. Joined'
        BY <1>1, <2>5
        DEF ServerInv, Joined, UsesFiles, context, vars, ByHeader, InHandler, Trusted
    <2> QED BY <2>3, <2>4, <2>6 DEF ServerInv
<1>2. CASE Answers(r) \/ SignsOut(r)
    <2>1. [Next]_vars
        BY <1>2 DEF Answers, SignsOut, Next
    <2>2. /\ Leaves(r) /\ Ends(r) /\ UNCHANGED <<methods, owner, born>>
          /\ req' = IF ByHeader(r) THEN req ELSE [req EXCEPT ![r] = Free]
        BY <1>2 DEF Answers, SignsOut, Serve, Logout, Destroy, vars
    <2>3. [AsNext]_asVars
        BY <2>2 DEF Leaves, AsNext, Step, Runs, Park, creds, asVars, ServerInv, AsIInv, AsTypeOK
    <2>4. IInv' /\ AsIInv'
        BY <2>1, <2>3, NextKeepsIInv, AsNextKeepsIInv DEF ServerInv
    <2>5. ContextTypeOK' /\ Owned'
        BY <2>2 DEF ServerInv, Ends, ContextTypeOK, Owned
    <2>6. Joined'
        BY <2>2 DEF ServerInv, Joined, Leaves, Ends, IInv, TypeOK, ContextTypeOK, Free, With,
                    ByHeader, InHandler, Trusted
    <2> QED BY <2>4, <2>5, <2>6 DEF ServerInv
<1> QED BY <1>1, <1>2

(* The new process starts as the first one did.                            *)
LEMMA RestartsKeepsServerInv ==
    ASSUME ServerInv, Restarts
    PROVE  ServerInv'
<1>1. IInv'
    BY NextKeepsIInv DEF ServerInv, Restarts, Next
<1>2. AsIInv'
    BY AccountsDistinct, NoneIsNoThread
    DEF ServerInv, Restarts, AsIInv, AsTypeOK, Threading, LockedUids, LockedGids, LockedGroups,
        PoolThreadsAreRoot, Unlocked, HasServersGroups, RestoresOriginalGroups, Captured,
        NotYetRestored, QuiescentGroupsAreRoot, Accounts, Credentials, Labels, Switched
<1>3. ContextTypeOK' /\ Joined' /\ Owned'
    BY RequestsAssumption
    DEF ServerInv, Restarts, Restart, Free, With, ContextTypeOK, Joined, ByHeader, InHandler,
        Owned
<1> QED BY <1>1, <1>2, <1>3 DEF ServerInv

LEMMA NextKeepsServerInv == ServerInv /\ [ServerNext]_serverVars => ServerInv'
<1> SUFFICES ASSUME ServerInv, [ServerNext]_serverVars PROVE ServerInv'
    OBVIOUS
<1>1. CASE TimePasses \/ UNCHANGED serverVars
    <2>1. [Next]_vars /\ [AsNext]_asVars
        BY <1>1 DEF TimePasses, Next, serverVars
    <2>2. UNCHANGED <<req, born, context, pc, id>>
        BY <1>1 DEF TimePasses, Tick, serverVars, vars, asVars
    <2>3. ContextTypeOK' /\ Joined' /\ Owned'
        BY <2>2 DEF ServerInv, context, ContextTypeOK, Joined, ByHeader, InHandler, Trusted, Owned
    <2> QED BY <2>1, <2>3, NextKeepsIInv, AsNextKeepsIInv DEF ServerInv
<1>2. CASE ServerNext
    BY <1>1, <1>2, SignInKeepsServerInv, RequireAuthKeepsServerInv, HandlersKeepServerInv,
       RestartsKeepsServerInv
    DEF ServerNext
<1> QED BY <1>1, <1>2

(* The inductive invariant holds in every reachable state.                 *)
THEOREM ServerInvariance == ServerSpec => []ServerInv
BY InitServerInv, NextKeepsServerInv, PTL DEF ServerSpec

-----------------------------------------------------------------------------
(* Results.                                                                *)

(* Every variable of the server keeps its type.                            *)
THEOREM ServerTypeCorrect == ServerSpec => []ServerTypeOK
<1>1. ServerInv => ServerTypeOK
    BY DEF ServerInv, IInv, AsIInv, ContextTypeOK, ServerTypeOK
<1> QED BY ServerInvariance, <1>1, PTL

(* Every system call of a handler is checked as the user the proxy named   *)
(* or who signed in to the session, from whichever thread it is made, but  *)
(* for an id the kernel refused to switch.                                 *)
THEOREM HandlersActAsCaller == ServerSpec => []ActsAsCaller
<1>1. ServerInv => ActsAsCaller
    <2> SUFFICES ASSUME ServerInv, NEW r \in Requests, InFn(r)
                 PROVE  /\ "uid" \notin refused[on[r]] => fsuid[on[r]] = Caller(r)
                        /\ "gid" \notin refused[on[r]] => fsgid[on[r]] = Caller(r)
                        /\ scope = "thread" => groups[on[r]] = Caller(r)
        BY DEF ActsAsCaller
    <2>1. r \in Goroutines
        BY RequestsAssumption
    <2>2. id[r] = Caller(r)
        BY DEF ServerInv, Joined, InFn, InHandler, ByHeader, Trusted, Caller
    <2> QED
        BY <2>1, <2>2
        DEF ServerInv, AsIInv, Threading, LockedUids, LockedGids, LockedGroups, InFn,
            UidSwitched, GidSwitched, GroupsSwitched, Switched
<1> QED BY ServerInvariance, <1>1, PTL

(* Between the calls of As every thread of the pool is the server's, and   *)
(* when none is under way so are the groups of all, across restarts, but   *)
(* for credentials whose restore was refused.                              *)
THEOREM ServerThreadsAreRoot ==
    ServerSpec => [](PoolThreadsAreRoot /\ QuiescentGroupsAreRoot)
<1>1. ServerInv => PoolThreadsAreRoot /\ QuiescentGroupsAreRoot
    BY DEF ServerInv, AsIInv
<1> QED BY ServerInvariance, <1>1, PTL

(* The composed server implements the sessions: each of its steps is one   *)
(* of Sessions or leaves them alone.                                       *)
THEOREM ImplementsSessions == ServerSpec => Spec
<1>1. ServerInit => Init
    BY DEF ServerInit
<1>2. [ServerNext]_serverVars => [Next]_vars
    BY DEF ServerNext, serverVars, SignIn, VouchedFor, HasCookie, Validates, TimedOut,
           UsesFiles, Answers, SignsOut, TimePasses, Restarts, Next
<1> QED BY <1>1, <1>2, PTL DEF ServerSpec, Spec

(* So both timeouts hold for the users of the server.                      *)
THEOREM ServerAdmitsInTime == ServerSpec => []AdmittedInTime
BY ImplementsSessions, TimeoutsEnforced, PTL DEF AdmittedInTime

(* And a session that is gone never comes back.                            *)
THEOREM ServerNoRevival == ServerSpec => GoneForGood
BY ImplementsSessions, NoRevival, PTL

=============================================================================
