------------------------------ MODULE Sessions ------------------------------
(***************************************************************************)
(* Login sessions: internal/auth/session.go over the sessions table of     *)
(* internal/store/store.go, as the RequireAuth middleware and Logout of    *)
(* internal/api/api.go use them.                                           *)
(*                                                                         *)
(* The table is shared by all requests and survives a restart.  Each call  *)
(* of the store is one SQL statement and one step; Validate makes two with *)
(* the clock read in between, so it acts on a row that other requests may  *)
(* have refreshed, or a logout deleted, meanwhile.                         *)
(***************************************************************************)
EXTENDS Naturals

CONSTANTS
    Tokens,             \* session ids: random, never reused
    Requests,           \* requests served at a time
    TicksPerSecond,     \* the clock is finer than the table's whole seconds
    IdleTimeout,        \* IdleTimeout, in ticks
    RememberMeDuration, \* RememberMeDuration, in ticks
    MaxTime,            \* bound on the clock
    NoRow               \* no row in the table; no token

ASSUME ClockAssumption == TicksPerSecond \in Nat \ {0} /\ MaxTime \in Nat
ASSUME TimeoutAssumption == IdleTimeout \in Nat /\ RememberMeDuration \in Nat

(* The table keeps whole seconds.                                          *)
Seconds == {t \in Nat : t % TicksPerSecond = 0}

Row == [lastSeen : Seconds, expires : Seconds, remember : BOOLEAN]

Birth == [time : Nat, remember : BOOLEAN]

ASSUME NoRowAssumption == NoRow \notin Tokens \union Row \union Birth

VARIABLES
    now,        \* the server's clock
    row,        \* the sessions table, by id
    req,        \* where a request stands, its cookie, the row and time Validate read
    born,       \* history: when and how a session was created; NoRow before
    lastUse     \* history: the latest use of a session that slides; the login of another

vars == <<now, row, req, born, lastUse>>

Request == [at : {"idle", "read", "delete", "touch", "handler"},
            token : Tokens \union {NoRow},
            seen : Row \union {NoRow},
            time : Nat]

With(at, token) == [at |-> at, token |-> token, seen |-> NoRow, time |-> 0]

Free == With("idle", NoRow)

TypeOK ==
    /\ now \in Nat
    /\ row \in [Tokens -> Row \union {NoRow}]
    /\ req \in [Requests -> Request]
    /\ born \in [Tokens -> Birth \union {NoRow}]
    /\ lastUse \in [Tokens -> Nat]

Init ==
    /\ now = 0
    /\ row = [t \in Tokens |-> NoRow]
    /\ req = [r \in Requests |-> Free]
    /\ born = [t \in Tokens |-> NoRow]
    /\ lastUse = [t \in Tokens |-> 0]

-----------------------------------------------------------------------------
UnixUntruncated(t) == t         \* fault: UnixNano instead of Unix

(* time.Time.Unix, and time.Unix back: whole seconds.                      *)
Unix(t) == t - (t % TicksPerSecond)

TouchSessionUpserts(t, r) ==    \* fault: INSERT OR REPLACE instead of UPDATE
    row' = [row EXCEPT ![t] = r]

(* UPDATE sessions ... WHERE id = ?: no row, no effect.                    *)
TouchSession(t, r) ==
    row' = [row EXCEPT ![t] = IF @ = NoRow THEN NoRow ELSE r]

DeleteSession(t) == row' = [row EXCEPT ![t] = NoRow]

-----------------------------------------------------------------------------
(* SessionManager.Create, at the end of Login and of SSHPoll.              *)
Create(t, remember) ==
    /\ born[t] = NoRow
    /\ row' = [row EXCEPT ![t] =
                [lastSeen |-> Unix(now),
                 expires |-> Unix(now + IF remember THEN RememberMeDuration ELSE IdleTimeout),
                 remember |-> remember]]
    /\ born' = [born EXCEPT ![t] = [time |-> now, remember |-> remember]]
    /\ lastUse' = [lastUse EXCEPT ![t] = now]
    /\ UNCHANGED <<now, req>>

(* Validate, first statement: a missing row, or an error of the store,     *)
(* ends the request with 401.                                              *)
GetSession(r, t) ==
    /\ req[r].at = "idle"
    /\ row[t] # NoRow
    /\ req' = [req EXCEPT ![r] = [at |-> "read", token |-> t, seen |-> row[t], time |-> 0]]
    /\ UNCHANGED <<now, row, born, lastUse>>

IdleOnly(seen) ==               \* fault: the absolute expiry is not looked at
    ~seen.remember /\ now - seen.lastSeen > IdleTimeout

(* Validate reads the clock after the row, and judges the row it read.     *)
Timeout(seen) ==
    \/ now > seen.expires
    \/ ~seen.remember /\ now - seen.lastSeen > IdleTimeout

Judge(r) ==
    /\ req[r].at = "read"
    /\ req' = [req EXCEPT ![r] =
                IF Timeout(@.seen) THEN With("delete", @.token)
                ELSE [@ EXCEPT !.at = "touch", !.time = now]]
    /\ UNCHANGED <<now, row, born, lastUse>>

DeleteTimedOut(r) ==
    /\ req[r].at = "delete"
    /\ DeleteSession(req[r].token)
    /\ req' = [req EXCEPT ![r] = Free]
    /\ UNCHANGED <<now, born, lastUse>>

(* A remembered session keeps its absolute expiry, the others slide.       *)
NewExpiry(seen, t) == IF seen.remember THEN seen.expires ELSE Unix(t + IdleTimeout)

(* The request goes on whether or not the row was still there.             *)
Touch(r) ==
    LET t == req[r].token  seen == req[r].seen  time == req[r].time IN
    /\ req[r].at = "touch"
    /\ TouchSession(t, [lastSeen |-> Unix(time), expires |-> NewExpiry(seen, time),
                        remember |-> seen.remember])
    /\ lastUse' = [lastUse EXCEPT ![t] = IF ~seen.remember /\ time > @ THEN time ELSE @]
    /\ req' = [req EXCEPT ![r] = With("handler", t)]
    /\ UNCHANGED <<now, born>>

(* Any other handler: it reads the user name Validate returned.            *)
Serve(r) ==
    /\ req[r].at = "handler"
    /\ req' = [req EXCEPT ![r] = Free]
    /\ UNCHANGED <<now, row, born, lastUse>>

Logout(r) ==
    /\ req[r].at = "handler"
    /\ DeleteSession(req[r].token)
    /\ req' = [req EXCEPT ![r] = Free]
    /\ UNCHANGED <<now, born, lastUse>>

(* The logout of a request a proxy vouched for: it destroys the session    *)
(* its cookie names without having looked at it.                           *)
Destroy(t) ==
    /\ DeleteSession(t)
    /\ UNCHANGED <<now, req, born, lastUse>>

Tick ==
    /\ now < MaxTime
    /\ now' = now + 1
    /\ UNCHANGED <<row, req, born, lastUse>>

(* The requests being served are lost, the table is not.                   *)
Restart ==
    /\ req' = [r \in Requests |-> Free]
    /\ UNCHANGED <<now, row, born, lastUse>>

Next ==
    \/ \E t \in Tokens, remember \in BOOLEAN : Create(t, remember)
    \/ \E r \in Requests, t \in Tokens : GetSession(r, t)
    \/ \E r \in Requests :
        Judge(r) \/ DeleteTimedOut(r) \/ Touch(r) \/ Serve(r) \/ Logout(r)
    \/ \E t \in Tokens : Destroy(t)
    \/ Tick
    \/ Restart

Spec == Init /\ [][Next]_vars

-----------------------------------------------------------------------------
(* Properties.                                                             *)

(* A session that was logged out or timed out is never there again, though *)
(* requests that read it before are still about to refresh it              *)
(* (session.go:93, store.go:112-125).                                      *)
GoneForGood ==
    [][\A t \in Tokens : born[t] # NoRow /\ row[t] = NoRow => row'[t] = NoRow]_vars

(* "remember-me sessions use absolute expiry, not idle-refreshed"          *)
(* (session.go:91): no use of one, however often it is refreshed, is       *)
(* admitted later than RememberMeDuration after the login.                 *)
RememberIsAbsolute ==
    \A r \in Requests :
        req[r].at = "touch" /\ req[r].seen.remember =>
            req[r].time <= born[req[r].token].time + RememberMeDuration

(* A session nobody used for IdleTimeout is not admitted, in whatever      *)
(* order the refreshes of the requests before reach the table              *)
(* (session.go:73-74, 85).                                                 *)
IdleSessionsEnd ==
    \A r \in Requests :
        req[r].at = "touch" /\ ~req[r].seen.remember =>
            req[r].time <= lastUse[req[r].token] + IdleTimeout

(* The table never grants more time than the uses so far justify.          *)
ExpiryJustified ==
    \A t \in Tokens : row[t] # NoRow =>
        /\ row[t].remember = born[t].remember
        /\ ~row[t].remember => row[t].lastSeen <= lastUse[t]
        /\ row[t].expires <= IF row[t].remember
                             THEN born[t].time + RememberMeDuration
                             ELSE lastUse[t] + IdleTimeout

=============================================================================
