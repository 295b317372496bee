----------------------------- MODULE SSHDevice -----------------------------
(***************************************************************************)
(* The SSH device flow: internal/auth/sshdevice.go (the store of           *)
(* challenges), internal/api/sshauth.go (its four handlers), the browser   *)
(* panel that polls (web SSHLoginPanel.tsx) and the command line client    *)
(* that signs (cmd/nimbusfs/sshlogin.go).                                  *)
(*                                                                         *)
(* The store's methods take its mutex and are one step each; a handler     *)
(* calls several of them and holds a pointer to the challenge in between,  *)
(* so other handlers, the clock and a restart fall between any two calls.  *)
(* Codes, tokens and nonces are random and fresh: a challenge is its own   *)
(* code and token.                                                         *)
(***************************************************************************)
EXTENDS Naturals, FiniteSets

CONSTANTS
    Challenges,         \* challenges SSHStart may issue
    Polls,              \* polls the panel may have in flight at a time
    Clients,            \* runs of nimbusfs ssh-login, one request at a time each
    DeviceCodeTTL,      \* deviceCodeTTL, in ticks
    MaxVerifyAttempts,  \* maxVerifyAttempts
    MaxTime,            \* bound on the clock
    NoChallenge

ASSUME TTLAssumption == DeviceCodeTTL \in Nat /\ MaxTime \in Nat
ASSUME AttemptsAssumption == MaxVerifyAttempts \in Nat \ {0}
ASSUME NoChallengeAssumption == NoChallenge \notin Challenges
ASSUME PollsAssumption == IsFiniteSet(Polls)

VARIABLES
    now,
    byCode, byToken,    \* the two indexes of SSHDeviceStore, by challenge
    status,             \* SSHChallenge.Status, on the heap: outlives the indexes
    attempts,           \* SSHChallenge.Attempts
    expiresAt,          \* SSHChallenge.ExpiresAt; 0 before the challenge exists
    tab,                \* what the panel that started a challenge shows
    poll,               \* SSHPoll requests: where they stand, for which challenge
    client,             \* ssh-login runs and their SSHRespond requests
    sessions,           \* sessions created for a challenge, in sqlite
    signed              \* history: challenges a good signature was sent for

store == <<byCode, byToken, status, attempts, expiresAt>>
vars == <<now, byCode, byToken, status, attempts, expiresAt, tab, poll, client,
          sessions, signed>>

PollSteps == {"idle", "sent", "check", "create", "consume",
              "pending", "approved", "failed"}
ClientSteps == {"idle", "respond", "verify", "approve", "register", "ok"}
TabStates == {"none", "waiting", "signedIn", "failed"}

TypeOK ==
    /\ now \in 0 .. MaxTime
    /\ byCode \subseteq Challenges
    /\ byToken \subseteq Challenges
    /\ status \in [Challenges -> {"pending", "approved"}]
    /\ attempts \in [Challenges -> 0 .. MaxVerifyAttempts]
    /\ expiresAt \in [Challenges -> 0 .. MaxTime + DeviceCodeTTL]
    /\ tab \in [Challenges -> TabStates]
    /\ poll \in [Polls -> [at : PollSteps, for : Challenges \union {NoChallenge}]]
    /\ client \in [Clients -> [at : ClientSteps, for : Challenges \union {NoChallenge}]]
    /\ sessions \in [Challenges -> Nat]
    /\ signed \subseteq Challenges

Idle == [at |-> "idle", for |-> NoChallenge]

Init ==
    /\ now = 0
    /\ byCode = {}
    /\ byToken = {}
    /\ status = [c \in Challenges |-> "pending"]
    /\ attempts = [c \in Challenges |-> 0]
    /\ expiresAt = [c \in Challenges |-> 0]
    /\ tab = [c \in Challenges |-> "none"]
    /\ poll = [p \in Polls |-> Idle]
    /\ client = [k \in Clients |-> Idle]
    /\ sessions = [c \in Challenges |-> 0]
    /\ signed = {}

-----------------------------------------------------------------------------
(* SSHDeviceStore.                                                         *)

Expired(c) == now > expiresAt[c]

FindByCode(c) == c \in byCode /\ ~Expired(c)

FindByPollToken(c) == c \in byToken /\ ~Expired(c)

RemoveCodeOnly(C) ==            \* fault: the poll token stays valid
    /\ byCode' = byCode \ C
    /\ UNCHANGED byToken

Remove(C) ==
    /\ byCode' = byCode \ C
    /\ byToken' = byToken \ C

(* sweep walks byCode, under New's lock.                                   *)
Swept == {c \in byCode : Expired(c)}

NewChallenge(c) ==
    /\ byCode' = (byCode \ Swept) \union {c}
    /\ byToken' = (byToken \ Swept) \union {c}
    /\ expiresAt' = [expiresAt EXCEPT ![c] = now + DeviceCodeTTL]
    /\ UNCHANGED <<status, attempts>>

RegisterOneMore(c) ==           \* fault: the budget is off by one
    IF c \in byCode
    THEN /\ attempts' = [attempts EXCEPT ![c] = @ + 1]
         /\ Remove(IF attempts[c] + 1 > MaxVerifyAttempts THEN {c} ELSE {})
         /\ UNCHANGED <<status, expiresAt>>
    ELSE UNCHANGED store

RegisterAttempt(c) ==
    IF c \in byCode
    THEN /\ attempts' = [attempts EXCEPT ![c] = @ + 1]
         /\ Remove(IF attempts[c] + 1 >= MaxVerifyAttempts THEN {c} ELSE {})
         /\ UNCHANGED <<status, expiresAt>>
    ELSE UNCHANGED store

ApproveNeverMarks(c) ==         \* fault: the status is left pending
    UNCHANGED store

Approve(c) ==
    /\ status' = IF c \in byCode THEN [status EXCEPT ![c] = "approved"] ELSE status
    /\ UNCHANGED <<byCode, byToken, attempts, expiresAt>>

Consume(c) ==
    /\ Remove({c} \intersect byToken)
    /\ UNCHANGED <<status, attempts, expiresAt>>

-----------------------------------------------------------------------------
(* SSHStart: the panel shows the code and starts polling.  A refusal (rate *)
(* limit, unknown user, no usable key) changes nothing.                    *)

SSHStart(c) ==
    /\ tab[c] = "none"
    /\ now + DeviceCodeTTL < MaxTime
    /\ NewChallenge(c)
    /\ tab' = [tab EXCEPT ![c] = "waiting"]
    /\ UNCHANGED <<now, poll, client, sessions, signed>>

(* The same call by a user whose challenge is not followed here: all that  *)
(* shows of it is the sweep.                                               *)
SSHStartElsewhere ==
    /\ Swept # {}
    /\ Remove(Swept)
    /\ UNCHANGED <<status, attempts, expiresAt, now, tab, poll, client, sessions, signed>>

(* SSHPoll, from the panel's interval callback to its reply.               *)

PollMoves(p, from, to) ==
    /\ poll[p].at = from
    /\ poll' = [poll EXCEPT ![p].at = to]

SendPoll(p, c) ==
    /\ poll[p].at = "idle"
    /\ tab[c] = "waiting"
    /\ poll' = [poll EXCEPT ![p] = [at |-> "sent", for |-> c]]
    /\ UNCHANGED <<store, now, tab, client, sessions, signed>>

PollLooksUp(p) ==
    /\ PollMoves(p, "sent", IF FindByPollToken(poll[p].for) THEN "check" ELSE "failed")
    /\ UNCHANGED <<store, now, tab, client, sessions, signed>>

PollSkipsCheck(p) ==            \* fault: Approved() is not asked
    /\ PollMoves(p, "check", "create")
    /\ UNCHANGED <<store, now, tab, client, sessions, signed>>

PollAlwaysPending(p) ==         \* fault: the approval is not noticed
    /\ PollMoves(p, "check", "pending")
    /\ UNCHANGED <<store, now, tab, client, sessions, signed>>

PollChecks(p) ==
    /\ PollMoves(p, "check", IF status[poll[p].for] = "approved" THEN "create" ELSE "pending")
    /\ UNCHANGED <<store, now, tab, client, sessions, signed>>

PollCreatesSession(p) ==
    /\ PollMoves(p, "create", "consume")
    /\ sessions' = [sessions EXCEPT ![poll[p].for] = @ + 1]
    /\ UNCHANGED <<store, now, tab, client, signed>>

CreateErrorIgnored(p) ==        \* fault: the error of Create is dropped
    /\ PollMoves(p, "create", "consume")
    /\ UNCHANGED <<store, now, tab, client, sessions, signed>>

(* sessions.Create fails: 500, and the challenge stays approved.           *)
PollCreateFails(p) ==
    /\ PollMoves(p, "create", "failed")
    /\ UNCHANGED <<store, now, tab, client, sessions, signed>>

PollConsumes(p) ==
    /\ PollMoves(p, "consume", "approved")
    /\ Consume(poll[p].for)
    /\ UNCHANGED <<now, tab, client, sessions, signed>>

(* The reply arrives.  The panel gives up on the first failure, but an     *)
(* "approved" that arrives later still signs the tab in; once signed in,   *)
(* the panel is gone.                                                      *)
TabAfter(c, outcome) ==
    CASE outcome = "approved" -> "signedIn"
      [] outcome = "failed" /\ tab[c] = "waiting" -> "failed"
      [] OTHER -> tab[c]

PollReplies(p) ==
    /\ poll[p].at \in {"pending", "approved", "failed"}
    /\ tab' = [tab EXCEPT ![poll[p].for] = TabAfter(poll[p].for, poll[p].at)]
    /\ poll' = [poll EXCEPT ![p] = Idle]
    /\ UNCHANGED <<store, now, client, sessions, signed>>

(* The reply is lost: fetch throws and the panel's catch gives up.         *)
PollReplyLost(p) ==
    /\ poll[p].at \in {"pending", "approved", "failed"}
    /\ tab' = [tab EXCEPT ![poll[p].for] = TabAfter(poll[p].for, "failed")]
    /\ poll' = [poll EXCEPT ![p] = Idle]
    /\ UNCHANGED <<store, now, client, sessions, signed>>

(* The Cancel button, or the interval callback past the deadline.          *)
TabGivesUp(c) ==
    /\ tab[c] = "waiting"
    /\ tab' = [tab EXCEPT ![c] = "failed"]
    /\ UNCHANGED <<store, now, poll, client, sessions, signed>>

-----------------------------------------------------------------------------
(* nimbusfs ssh-login and SSHRespond.                                      *)

ClientMoves(k, from, to) ==
    /\ client[k].at = from
    /\ client' = [client EXCEPT ![k].at = to]

(* SSHDeviceInfo hands out the nonce while the code is valid; the client   *)
(* signs and posts when it gets round to it, or has no key and exits.      *)
FetchDeviceInfo(k, c) ==
    /\ client[k].at = "idle"
    /\ FindByCode(c)
    /\ client' = [client EXCEPT ![k] = [at |-> "respond", for |-> c]]
    /\ UNCHANGED <<store, now, tab, poll, sessions, signed>>

ClientDone(k) == client' = [client EXCEPT ![k] = Idle]

(* No key to sign with; or SSHRespond finds no such code, cannot decode    *)
(* the request or cannot read the keys.                                    *)
RespondErrors(k) ==
    /\ client[k].at \in {"respond", "verify"}
    /\ ClientDone(k)
    /\ UNCHANGED <<store, now, tab, poll, sessions, signed>>

RespondLooksUp(k) ==
    /\ FindByCode(client[k].for)
    /\ ClientMoves(k, "respond", "verify")
    /\ UNCHANGED <<store, now, tab, poll, sessions, signed>>

AcceptWithoutVerify(k) ==       \* fault: the signature check is inverted
    /\ ClientMoves(k, "verify", "approve")
    /\ UNCHANGED <<store, now, tab, poll, sessions, signed>>

RespondAccepts(k) ==
    /\ ClientMoves(k, "verify", "approve")
    /\ signed' = signed \union {client[k].for}
    /\ UNCHANGED <<store, now, tab, poll, sessions>>

(* The key is not (or no longer) authorized, or the signature is wrong.    *)
RespondRejects(k) ==
    /\ ClientMoves(k, "verify", "register")
    /\ UNCHANGED <<store, now, tab, poll, sessions, signed>>

RespondApproves(k) ==
    /\ ClientMoves(k, "approve", "ok")      \* Approve's result is not looked at
    /\ Approve(client[k].for)
    /\ UNCHANGED <<now, tab, poll, sessions, signed>>

RespondRegisters(k) ==
    /\ client[k].at = "register"
    /\ ClientDone(k)
    /\ RegisterAttempt(client[k].for)
    /\ UNCHANGED <<now, tab, poll, sessions, signed>>

(* The client prints "Signed in as ..." and exits.                         *)
ClientExits(k) ==
    /\ client[k].at = "ok"
    /\ ClientDone(k)
    /\ UNCHANGED <<store, now, tab, poll, sessions, signed>>

-----------------------------------------------------------------------------
Tick ==
    /\ now < MaxTime
    /\ now' = now + 1
    /\ UNCHANGED <<store, tab, poll, client, sessions, signed>>

(* The server process restarts: the challenges were in memory only, the    *)
(* sessions are in sqlite; the requests it was serving fail.               *)
Restart ==
    /\ byCode' = {}
    /\ byToken' = {}
    /\ poll' = [p \in Polls |->
                    IF poll[p].at \in {"idle", "sent"}
                    THEN poll[p] ELSE [poll[p] EXCEPT !.at = "failed"]]
    /\ client' = [k \in Clients |->
                    IF client[k].at \in {"verify", "approve", "register"}
                    THEN Idle ELSE client[k]]
    /\ UNCHANGED <<status, attempts, expiresAt, now, tab, sessions, signed>>

PollStep(p) ==
    \/ PollLooksUp(p) \/ PollChecks(p)
    \/ PollCreatesSession(p) \/ PollCreateFails(p)
    \/ PollConsumes(p)
    \/ PollReplies(p) \/ PollReplyLost(p)

ClientStep(k) ==
    \/ RespondLooksUp(k) \/ RespondErrors(k)
    \/ RespondAccepts(k) \/ RespondRejects(k)
    \/ RespondApproves(k) \/ RespondRegisters(k)
    \/ ClientExits(k)

Next ==
    \/ \E c \in Challenges : SSHStart(c) \/ TabGivesUp(c)
    \/ \E p \in Polls, c \in Challenges : SendPoll(p, c)
    \/ \E p \in Polls : PollStep(p)
    \/ \E k \in Clients, c \in Challenges : FetchDeviceInfo(k, c)
    \/ \E k \in Clients : ClientStep(k)
    \/ SSHStartElsewhere
    \/ Tick
    \/ Restart

Spec == Init /\ [][Next]_vars

(* A request the server has is served, and the panel's interval keeps      *)
(* firing while it waits.  Nothing makes the clock, the user or the client *)
(* move.                                                                   *)
Fairness ==
    /\ \A p \in Polls : WF_vars(PollStep(p))
    /\ \A p \in Polls, c \in Challenges : SF_vars(SendPoll(p, c))

FairSpec == Spec /\ Fairness

-----------------------------------------------------------------------------
(* Properties.                                                             *)

(* The two indexes are two views of one set of challenges, and a challenge *)
(* in them still has attempts left: the budget of five holds whatever      *)
(* number of SSHRespond requests run at once (sshdevice.go:121-138).       *)
IndexesAgree ==
    /\ byCode = byToken
    /\ \A c \in byCode : attempts[c] < MaxVerifyAttempts

(* No session comes of a challenge nobody signed (sshauth.go:61-63).       *)
SessionNeedsSignature == \A c \in Challenges : sessions[c] > 0 => c \in signed

(* "making the device code and poll token single-use" (sshdevice.go:151).  *)
SingleUse == \A c \in Challenges : sessions[c] <= 1

(* "On success the challenge is marked approved for the waiting browser    *)
(* poll" (sshauth.go:126): when the client is told ok, it is, unless it    *)
(* was removed while the signature was being verified.                     *)
OkMeansApprovedOrGone ==
    \A k \in Clients : client[k].at = "ok" =>
        status[client[k].for] = "approved" \/ client[k].for \notin byCode

(* A tab that was told it is signed in has a session, also when the server *)
(* restarted or the challenge is gone (SSHLoginPanel.tsx:27-29).           *)
SignedInHasSession == \A c \in Challenges : tab[c] = "signedIn" => sessions[c] > 0

(* A tab waiting on an approved challenge does not wait for ever: it is    *)
(* signed in or told why not, by its own polls and without the clock       *)
(* (SSHLoginPanel.tsx:17-36).                                              *)
ApprovalReachesTab ==
    \A c \in Challenges :
        (tab[c] = "waiting" /\ status[c] = "approved") ~> (tab[c] # "waiting")

(* The flow implements DeviceLogin with, in place of SingleUse, a session  *)
(* per poll that can be in flight at a time: a challenge is open while it  *)
(* is indexed or a poll that found it has yet to answer.                   *)
Open(c) ==
    \/ c \in byToken
    \/ \E p \in Polls : poll[p].for = c /\ poll[p].at \in {"check", "create", "consume"}

StageOf(c) ==
    CASE tab[c] = "none" -> "none"
      [] tab[c] # "none" /\ Open(c) -> status[c]
      [] OTHER -> "closed"

Abstract == INSTANCE DeviceLogin WITH
    MaxGrants <- Cardinality(Polls),
    stage <- [c \in Challenges |-> StageOf(c)],
    grants <- sessions

ImplementsDeviceLogin == Abstract!Spec

=============================================================================
