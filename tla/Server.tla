------------------------------- MODULE Server -------------------------------
(***************************************************************************)
(* A request from the cookie to the system call: the RequireAuth           *)
(* middleware of internal/api/api.go in front of the handlers, the         *)
(* sessions of internal/auth/session.go behind it, and fsops.As under      *)
(* which every handler touches files.                                      *)
(*                                                                         *)
(* Composes Sessions, whose requests these are, with Impersonation, whose  *)
(* goroutines serve them.  What joins the two is the user name: a column   *)
(* of the sessions table or a header of the proxy, put into the context of *)
(* the request by the one and taken from it by the other.                  *)
(***************************************************************************)
EXTENDS Sessions, Impersonation

CONSTANT Configurations     \* ways to authenticate the server may be told to offer

(* Config.Validate: passwords or keys, a proxy, or both.                   *)
Validate(offered) == offered \subseteq {"login", "proxyAuth"} /\ offered # {}

ASSUME ConfigurationsAssumption == \A offered \in Configurations : Validate(offered)

(* net/http serves each request in a goroutine of its own.                 *)
ASSUME RequestsAssumption == Requests \subseteq Goroutines

VARIABLES
    methods,        \* cfg.Auth, as the process was started
    owner,          \* the username column of the sessions table
    header,         \* X-Remote-User of a request, None without
    user            \* the user name in a request's context, None outside a request

context == <<methods, owner, header, user>>
serverVars == <<vars, context, asVars>>

ServerTypeOK ==
    /\ TypeOK
    /\ AsTypeOK
    /\ methods \in Configurations
    /\ owner \in [Tokens -> Users \union {None}]
    /\ header \in [Requests -> Users \union {None}]
    /\ user \in [Requests -> Users \union {None}]

ServerInit ==
    /\ Init
    /\ AsInit
    /\ methods \in Configurations
    /\ owner = [t \in Tokens |-> None]
    /\ header = [r \in Requests |-> None]
    /\ user = [r \in Requests |-> None]

-----------------------------------------------------------------------------
(* Signing in, by password or by key.  The proxy's users have no session   *)
(* but one they got while the server was started otherwise.                *)
SignIn(t, u, remember) ==
    /\ "login" \in methods
    /\ Create(t, remember)
    /\ owner' = [owner EXCEPT ![t] = u]
    /\ UNCHANGED <<methods, header, user, asVars>>

(* The header counts if auth.proxy_auth is set and the request has it.     *)
Trusted(h) == "proxyAuth" \in methods /\ h # None

(* RequireAuth, the header: no session is looked for.  A name without an   *)
(* account is refused, which is no step.                                   *)
VouchedFor(r, h) ==
    /\ user[r] = None
    /\ Trusted(h)
    /\ header' = [header EXCEPT ![r] = h]
    /\ user' = [user EXCEPT ![r] = h]
    /\ UNCHANGED <<vars, methods, owner, asVars>>

(* RequireAuth, the cookie: Validate returns the name in the row it read.  *)
HasCookie(r, t, h) ==
    /\ user[r] = None
    /\ ~Trusted(h)
    /\ GetSession(r, t)
    /\ header' = [header EXCEPT ![r] = h]
    /\ user' = [user EXCEPT ![r] = owner[t]]
    /\ UNCHANGED <<methods, owner, asVars>>

Validates(r) ==
    /\ Judge(r) \/ Touch(r)
    /\ UNCHANGED <<context, asVars>>

Ends(r) ==
    /\ header' = [header EXCEPT ![r] = None]
    /\ user' = [user EXCEPT ![r] = None]

(* 401.                                                                    *)
TimedOut(r) ==
    /\ DeleteTimedOut(r)
    /\ Ends(r)
    /\ UNCHANGED <<methods, owner, asVars>>

-----------------------------------------------------------------------------
(* The handlers.                                                           *)

ByHeader(r) == req[r].at = "idle" /\ user[r] # None

InHandler(r) == req[r].at = "handler" \/ ByHeader(r)

(* A handler calls As as often as it has to, each time with the identity   *)
(* LookupIdentity finds for the name in the context.                       *)
UsesFiles(r) ==
    /\ InHandler(r)
    /\ Runs(r) \/ LockThread(r, user[r])
    /\ UNCHANGED <<vars, context, scope>>

(* The goroutine is done with the request and gives up its thread.         *)
Leaves(r) ==
    /\ pc[r] = "idle"
    /\ on' = [on EXCEPT ![r] = None]
    /\ UNCHANGED <<scope, creds, locked, pc, id>>

Answers(r) ==
    /\ InHandler(r)
    /\ IF ByHeader(r) THEN UNCHANGED vars ELSE Serve(r)
    /\ Ends(r)
    /\ Leaves(r)
    /\ UNCHANGED <<methods, owner>>

(* Logout: a request that came in by the header may have a cookie too.     *)
SignsOut(r) ==
    /\ IF ByHeader(r) THEN \E t \in Tokens : Destroy(t) ELSE Logout(r)
    /\ Ends(r)
    /\ Leaves(r)
    /\ UNCHANGED <<methods, owner>>

-----------------------------------------------------------------------------
TimePasses == Tick /\ UNCHANGED <<context, asVars>>

(* The process ends wherever its requests stand; the next one has fresh    *)
(* threads, perhaps another configuration, and the same sessions.          *)
Restarts ==
    /\ Restart
    /\ methods' \in Configurations
    /\ header' = [r \in Requests |-> None]
    /\ user' = [r \in Requests |-> None]
    /\ UNCHANGED <<owner, scope>>
    /\ fsuid' = [t \in Threads |-> Root]
    /\ fsgid' = [t \in Threads |-> Root]
    /\ groups' = [t \in Threads |-> Root]
    /\ rootGroups' = None
    /\ refused' = [t \in Threads |-> {}]
    /\ on' = [g \in Goroutines |-> None]
    /\ locked' = [g \in Goroutines |-> None]
    /\ pc' = [g \in Goroutines |-> "idle"]
    /\ id' = [g \in Goroutines |-> None]

ServerNext ==
    \/ \E t \in Tokens, u \in Users, remember \in BOOLEAN : SignIn(t, u, remember)
    \/ \E r \in Requests, h \in Users \union {None} :
        VouchedFor(r, h) \/ \E t \in Tokens : HasCookie(r, t, h)
    \/ \E r \in Requests :
        Validates(r) \/ TimedOut(r) \/ UsesFiles(r) \/ Answers(r) \/ SignsOut(r)
    \/ TimePasses
    \/ Restarts

ServerSpec == ServerInit /\ [][ServerNext]_serverVars

-----------------------------------------------------------------------------
(* Properties.                                                             *)

(* Whoever a request comes from: the user the proxy names, if the server   *)
(* was told to trust it, or the one who signed in to the session.          *)
Caller(r) ==
    IF "proxyAuth" \in methods /\ header[r] # None THEN header[r] ELSE owner[req[r].token]

(* "Every handler below runs the actual filesystem work via fsops.As so    *)
(* that kernel permission checks are evaluated as the authenticated Linux  *)
(* user" (api.go:294-295), the header counting only with auth.proxy_auth   *)
(* (api.go:250): each system call of a handler is checked with the ids of  *)
(* its caller, but for one the kernel refused to switch, and with his      *)
(* groups where Setgroups is per thread, however requests share the        *)
(* threads and whatever becomes of the session.                            *)
ActsAsCaller ==
    \A r \in Requests : InFn(r) =>
        /\ "uid" \notin refused[on[r]] => fsuid[on[r]] = Caller(r)
        /\ "gid" \notin refused[on[r]] => fsgid[on[r]] = Caller(r)
        /\ scope = "thread" => groups[on[r]] = Caller(r)

(* Both timeouts hold for every use of a session.                          *)
AdmittedInTime == RememberIsAbsolute /\ IdleSessionsEnd

=============================================================================
