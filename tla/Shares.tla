------------------------------- MODULE Shares -------------------------------
(***************************************************************************)
(* Share links: internal/api/shares.go, the shares table of                *)
(* internal/store/store.go and the share command of cmd/nimbusfs/share.go. *)
(*                                                                         *)
(* An owner creates and revokes links; anybody who has one asks for what   *)
(* is behind it, which the server opens as the owner.  A request reads the *)
(* row, judges that copy of it and then opens the file, while the owner    *)
(* may revoke the link and the clock goes on.                              *)
(* The table survives a restart, the key of the unlock cookies does not.   *)
(***************************************************************************)
EXTENDS FiniteSets, Integers

CONSTANTS
    Users,          \* accounts that own files
    Tokens,         \* share tokens: random, never used twice
    Clients,        \* browsers without a session
    Requests,       \* anonymous requests served at a time
    Hours,          \* the lifetimes asked for; 0 is "never"
    HourTicks,      \* time.Hour
    TicksPerSecond, \* the clock is finer than the table's whole seconds
    DurationBound,  \* a time.Duration is in -DurationBound .. DurationBound - 1
    StartTime,      \* the clock counts from the Unix epoch
    MaxTime,        \* bound on the clock
    MaxRestarts,    \* bound on the restarts of the server
    None            \* no row, no cookie

ASSUME HoursAssumption == Hours \subseteq Int /\ HourTicks \in Nat \ {0}
ASSUME ClockAssumption ==
    /\ TicksPerSecond \in Nat \ {0} /\ DurationBound \in Nat \ {0}
    /\ StartTime \in Nat /\ MaxTime \in Nat /\ MaxRestarts \in Nat

Modes == {"both", "view_only", "download_only"}
Operations == {"info", "unlock", "list", "view", "download"}
Content == {"list", "view", "download"}

VARIABLES
    now,        \* the clock
    enabled,    \* cfg.Sharing.Enabled of the running server
    row,        \* the shares table, by token
    secret,     \* API.shareUnlockSecret: the n-th server has secret n
    jar,        \* the browsers' unlock cookies, by cookie name
    req,        \* the anonymous requests
    asked,      \* history: who asked for a share and until when
    revoked,    \* history: the shares whose owner was told they are revoked
    gave        \* history: under which secret a client was told "unlocked"

vars == <<now, enabled, row, secret, jar, req, asked, revoked, gave>>
histories == <<asked, revoked, gave>>

Seconds == {t \in Int : t % TicksPerSecond = 0}
Secrets == 0 .. MaxRestarts
Row == [owner : Users, mode : Modes, password : BOOLEAN, expires : Seconds]
MACs == [secret : Secrets, token : Tokens]
Asked == [owner : Users, until : Int \union {None}]

ASSUME NoneAssumption == None \notin Row \union MACs \union Asked \union Int

Request ==
    [at : {"idle", "read", "open", "serve", "password", "unlocked"},
     client : Clients \union {None}, token : Tokens \union {None},
     op : Operations \union {None}, right : BOOLEAN, seen : Row \union {None},
     cookie : MACs \union {None}, live : BOOLEAN, told : BOOLEAN]

Free == [at |-> "idle", client |-> None, token |-> None, op |-> None, right |-> FALSE,
         seen |-> None, cookie |-> None, live |-> FALSE, told |-> FALSE]

TypeOK ==
    /\ now \in Nat
    /\ enabled \in BOOLEAN
    /\ row \in [Tokens -> Row \union {None}]
    /\ secret \in Secrets
    /\ jar \in [Clients -> [Tokens -> MACs \union {None}]]
    /\ req \in [Requests -> Request]
    /\ asked \in [Tokens -> Asked \union {None}]
    /\ revoked \subseteq Tokens
    /\ gave \in [Clients -> [Tokens -> Secrets \union {None}]]

Init ==
    /\ now = StartTime
    /\ enabled \in BOOLEAN
    /\ row = [t \in Tokens |-> None]
    /\ secret = 0
    /\ jar = [c \in Clients |-> [t \in Tokens |-> None]]
    /\ req = [r \in Requests |-> Free]
    /\ asked = [t \in Tokens |-> None]
    /\ revoked = {}
    /\ gave = [c \in Clients |-> [t \in Tokens |-> None]]

-----------------------------------------------------------------------------
(* The owner's side.                                                       *)

UnixUntruncated(t) == t         \* fault: UnixNano instead of Unix
UnixRoundedUp(t) ==             \* fault: the next whole second
    t + ((-t) % TicksPerSecond)

(* time.Time.Unix: whole seconds, rounded down.                            *)
Unix(t) == t - (t % TicksPerSecond)

(* time.Duration(hours) * time.Hour in a signed word.                      *)
Duration(hours) ==
    ((hours * HourTicks + DurationBound) % (2 * DurationBound)) - DurationBound

(* store.CreateShare: 0 in the table is "never".                           *)
Insert(u, t, mode, password, expires, hours) ==
    /\ asked[t] = None
    /\ row' = [row EXCEPT ![t] = [owner |-> u, mode |-> mode, password |-> password,
                                  expires |-> expires]]
    /\ asked' = [asked EXCEPT ![t] =
                    [owner |-> u, until |-> IF hours = 0 THEN None
                                            ELSE now + hours * HourTicks]]
    /\ UNCHANGED <<now, enabled, secret, jar, req, revoked, gave>>

(* The path must be one the user can stat now: no step otherwise.          *)
CreateShare(u, t, mode, password, hours) ==
    /\ enabled
    /\ Insert(u, t, mode, password,
              IF hours > 0 THEN Unix(now + Duration(hours)) ELSE 0, hours)

(* nimbusfs share: any process, whatever the server does or is configured  *)
(* to.  Without -expires never; a lifetime may be negative.                *)
CommandLineShare(u, t, mode, password, hours) ==
    /\ Insert(u, t, mode, password,
              IF hours # 0 THEN Unix(now + Duration(hours)) ELSE 0, hours)

DeleteAnyones(u, t) ==          \* fault: DELETE without AND username = ?
    row' = [row EXCEPT ![t] = None]

(* DELETE ... WHERE token = ? AND username = ?                             *)
DeleteShare(u, t) ==
    row' = [row EXCEPT ![t] = IF @ # None /\ @.owner = u THEN None ELSE @]

(* "ok" also for a share of somebody else, which stays.                    *)
RevokeShare(u, t) ==
    /\ asked[t] # None
    /\ DeleteShare(u, t)
    /\ revoked' = IF asked[t].owner = u THEN revoked \union {t} ELSE revoked
    /\ UNCHANGED <<now, enabled, secret, jar, req, asked, gave>>

-----------------------------------------------------------------------------
(* The anonymous side.                                                     *)

OneCookieName(t) ==             \* fault: one unlock cookie for all shares
    CHOOSE u \in Tokens : TRUE

(* shareUnlockCookieName and shareUnlockMAC.                               *)
CookieName(t) == t
MAC(t) == [secret |-> secret, token |-> t]

(* A share is there for somebody who asks now.                             *)
Live(t) ==
    /\ row[t] # None
    /\ asked[t].until # None => now <= asked[t].until

(* A request arrives with the cookie it has, and its row is read.          *)
GetShare(r, c, t, op, right) ==
    /\ req[r].at = "idle"
    /\ row[t] # None
    /\ right => op = "unlock"
    /\ req' = [req EXCEPT ![r] =
                [at |-> "read", client |-> c, token |-> t, op |-> op, right |-> right,
                 seen |-> row[t], cookie |-> jar[c][CookieName(t)],
                 live |-> Live(t), told |-> gave[c][t] = secret]]
    /\ UNCHANGED <<now, enabled, row, secret, jar, histories>>

(* Rows that are not positive are read as "never".                         *)
Expired(seen) == seen.expires > 0 /\ now > seen.expires

Forbidden(r) ==
    \/ req[r].op = "list" /\ req[r].seen.mode = "download_only"
    \/ req[r].op = "download" /\ req[r].seen.mode = "view_only"

AnyCookie(r) == req[r].cookie # None    \* fault: there, but not compared

shareUnlocked(r) == req[r].cookie = MAC(req[r].token)

Locked(r) == req[r].seen.password /\ ~shareUnlocked(r)

AnswerAt(r, step) ==
    /\ req[r].at = "read"
    /\ req' = [req EXCEPT ![r] = IF step = "idle" THEN Free ELSE [@ EXCEPT !.at = step]]
    /\ UNCHANGED <<now, enabled, row, secret, jar, histories>>

Refuse(r) ==
    /\ AnswerAt(r, "idle")
    /\ Expired(req[r].seen) \/ Forbidden(r)

(* ShareInfo, ShareList and ShareFile up to the call of the sandbox.       *)
Admit(r) ==
    /\ AnswerAt(r, "open")
    /\ ~Expired(req[r].seen)
    /\ ~Forbidden(r)
    /\ req[r].op \in Content => ~Locked(r)
    /\ req[r].op # "unlock"

AskPassword(r) ==
    /\ AnswerAt(r, "password")
    /\ ~Expired(req[r].seen)
    /\ ~Forbidden(r)
    /\ req[r].op \in Content /\ Locked(r)

(* ShareUnlock.  A share without a password sets no cookie.                *)
ShareUnlock(r) ==
    /\ AnswerAt(r, IF req[r].seen.password /\ req[r].right THEN "unlocked" ELSE "idle")
    /\ ~Expired(req[r].seen)
    /\ req[r].op = "unlock"

(* Stat, ListWithin or OpenWithin as the owner: it fails if the account or *)
(* the file is gone or the permissions have changed.                       *)
Open(r) ==
    /\ req[r].at = "open"
    /\ \E result \in {Free, [req[r] EXCEPT !.at = "serve"]} : req' = [req EXCEPT ![r] = result]
    /\ UNCHANGED <<now, enabled, row, secret, jar, histories>>

(* The browser keeps the cookie of the answer.                             *)
CookieArrives(r) ==
    LET c == req[r].client  t == req[r].token IN
    /\ req[r].at = "unlocked"
    /\ jar' = [jar EXCEPT ![c][CookieName(t)] = MAC(t)]
    /\ gave' = [gave EXCEPT ![c][t] = secret]
    /\ req' = [req EXCEPT ![r] = Free]
    /\ UNCHANGED <<now, enabled, row, secret, asked, revoked>>

Answered(r) ==
    /\ req[r].at \in {"serve", "password"}
    /\ req' = [req EXCEPT ![r] = Free]
    /\ UNCHANGED <<now, enabled, row, secret, jar, histories>>

-----------------------------------------------------------------------------
Tick ==
    /\ now < MaxTime
    /\ now' = now + 1
    /\ UNCHANGED <<enabled, row, secret, jar, req, histories>>

(* The configuration may be another one; requests being served are lost.   *)
Restart ==
    /\ secret < MaxRestarts
    /\ secret' = secret + 1
    /\ enabled' \in BOOLEAN
    /\ req' = [r \in Requests |-> Free]
    /\ UNCHANGED <<now, row, jar, histories>>

Next ==
    \/ \E u \in Users, t \in Tokens :
        \/ \E mode \in Modes, password \in BOOLEAN, hours \in Hours :
            \/ CreateShare(u, t, mode, password, hours)
            \/ CommandLineShare(u, t, mode, password, hours)
        \/ RevokeShare(u, t)
    \/ \E r \in Requests, c \in Clients, t \in Tokens, op \in Operations, right \in BOOLEAN :
        GetShare(r, c, t, op, right)
    \/ \E r \in Requests :
        \/ Refuse(r)
        \/ Admit(r)
        \/ AskPassword(r)
        \/ ShareUnlock(r)
        \/ Open(r)
        \/ CookieArrives(r)
        \/ Answered(r)
    \/ Tick
    \/ Restart

Spec == Init /\ [][Next]_vars

-----------------------------------------------------------------------------
(* Properties.                                                             *)

(* What is behind a link is served only to requests that came while it was *)
(* shared: after its creation, before the end of the lifetime its owner    *)
(* asked for and before he revoked it.  The row that is judged is a copy,  *)
(* in whole seconds, of one that may be gone (shares.go:182-191).          *)
ServedOnlyWhileShared ==
    \A r \in Requests : req[r].at = "serve" => req[r].live

(* Behind a password nothing but the link's name is served to a browser    *)
(* that was not told by this server, since its start, that the password it *)
(* gave for this very share is right (shares.go:348-371).                  *)
PasswordGate ==
    \A r \in Requests :
        req[r].at = "serve" /\ req[r].op \in Content /\ req[r].seen.password => req[r].told

(* And one that was told so is not asked again until the server restarts,  *)
(* whatever other shares it unlocks.                                       *)
PasswordAskedOnce ==
    \A r \in Requests : req[r].at = "password" => ~req[r].told

(* "revocation can't cross accounts" (store.go:215-216), and one that was  *)
(* answered "ok" to the owner holds for good, also across restarts: of the *)
(* shares ever created exactly those are gone that their owners revoked.   *)
RevokedByOwner ==
    \A t \in Tokens : asked[t] # None =>
        (row[t] = None <=> t \in revoked)

(* "0 = never" (shares.go:30): a link that never expires is one whose      *)
(* owner asked for that.                                                   *)
OnlyZeroIsNever ==
    \A t \in Tokens : row[t] # None /\ row[t].expires <= 0 => asked[t].until = None

=============================================================================
