-------------------------- MODULE SSHDeviceProofs --------------------------
(***************************************************************************)
(* Proofs about SSHDevice.tla, for any number of challenges, polls and     *)
(* clients, any lifetime and any budget of attempts.                       *)
(***************************************************************************)
EXTENDS SSHDevice, FiniteSetTheorems, TLAPS

(* A request under way is about a challenge.                               *)
RequestsAreAbout ==
    /\ \A p \in Polls : poll[p].at # "idle" => poll[p].for \in Challenges
    /\ \A k \in Clients : client[k].at # "idle" => client[k].for \in Challenges

(* Nobody knows of a challenge that was not issued yet.                    *)
UnissuedUnknown ==
    \A c \in Challenges : tab[c] = "none" =>
        /\ c \notin byCode
        /\ attempts[c] = 0
        /\ status[c] = "pending"
        /\ sessions[c] = 0
        /\ \A p \in Polls : poll[p].for # c
        /\ \A k \in Clients : client[k].for # c

(* The signature comes before the approval, on its way through SSHRespond. *)
ApprovedIsSigned ==
    /\ \A k \in Clients : client[k].at = "approve" => client[k].for \in signed
    /\ \A c \in Challenges : status[c] = "approved" => c \in signed

(* The approval comes before the session, and the session before the       *)
(* answer, on their way through SSHPoll.                                   *)
PollsInOrder ==
    \A p \in Polls :
        /\ poll[p].at = "create" => status[poll[p].for] = "approved"
        /\ poll[p].at \in {"consume", "approved"} => sessions[poll[p].for] > 0

(* So a challenge with sessions is approved.                               *)
SessionsApproved == \A c \in Challenges : sessions[c] > 0 => status[c] = "approved"

(* The polls that may still create a session for a challenge, and those    *)
(* that have created one and are about to consume it.                      *)
Claiming(c) == {p \in Polls : poll[p].for = c /\ poll[p].at \in {"check", "create"}}
Consuming(c) == {p \in Polls : poll[p].for = c /\ poll[p].at = "consume"}

(* Why a challenge has no more sessions than there are polls: each poll    *)
(* that may still create one is one session short, and as long as new      *)
(* polls find the challenge, the poll behind each session is not yet done. *)
Budgeted ==
    \A c \in Challenges :
        /\ sessions[c] <= Cardinality(Polls \ Claiming(c))
        /\ c \in byToken => sessions[c] <= Cardinality(Consuming(c))

(* The conjuncts that do not count.                                        *)
FlowInv ==
    /\ RequestsAreAbout
    /\ UnissuedUnknown
    /\ IndexesAgree
    /\ ApprovedIsSigned
    /\ OkMeansApprovedOrGone
    /\ PollsInOrder
    /\ SessionsApproved
    /\ SignedInHasSession

DeviceInv == TypeOK /\ FlowInv /\ Budgeted

-----------------------------------------------------------------------------
LEMMA InitDeviceInv == Init => DeviceInv
<1> SUFFICES ASSUME Init PROVE DeviceInv
    OBVIOUS
<1>1. TypeOK
    BY TTLAssumption, AttemptsAssumption
    DEF Init, Idle, TypeOK, PollSteps, ClientSteps, TabStates
<1>2. FlowInv
    BY NoChallengeAssumption
    DEF Init, Idle, FlowInv, RequestsAreAbout, UnissuedUnknown, IndexesAgree, ApprovedIsSigned,
        OkMeansApprovedOrGone, PollsInOrder, SessionsApproved, SignedInHasSession
<1>3. \A c \in Challenges : sessions[c] = 0 /\ c \notin byToken
    BY DEF Init
<1>4. \A c \in Challenges : Cardinality(Polls \ Claiming(c)) \in Nat
    BY PollsAssumption, FS_Subset, FS_CardinalityType
<1>5. Budgeted
    BY <1>3, <1>4 DEF Budgeted
<1> QED BY <1>1, <1>2, <1>5 DEF DeviceInv

(* Sets of polls are finite, and a larger one counts more.                 *)
LEMMA PollsCount ==
    ASSUME NEW P \in SUBSET Polls
    PROVE  /\ IsFiniteSet(P)
           /\ Cardinality(P) \in Nat
           /\ \A Q \in SUBSET P : Cardinality(Q) <= Cardinality(P)
<1>1. IsFiniteSet(P)
    BY PollsAssumption, FS_Subset
<1> QED BY <1>1, FS_Subset, FS_CardinalityType

(* A step that creates no session, lets no poll claim one, and forgets no  *)
(* poll that is about to consume, keeps to the budget.                     *)
LEMMA BudgetKept ==
    ASSUME TypeOK, Budgeted, UNCHANGED sessions,
           \A c \in Challenges :
               /\ Claiming(c)' \subseteq Claiming(c)
               /\ c \in byToken' => c \in byToken /\ Consuming(c) \subseteq Consuming(c)'
    PROVE  Budgeted'
<1> SUFFICES ASSUME NEW c \in Challenges
             PROVE  /\ sessions[c] <= Cardinality(Polls \ Claiming(c)')
                    /\ c \in byToken' => sessions[c] <= Cardinality(Consuming(c)')
    BY DEF Budgeted
<1>1. /\ Claiming(c) \subseteq Polls /\ Claiming(c)' \subseteq Claiming(c)
      /\ Consuming(c) \subseteq Polls /\ Consuming(c)' \subseteq Polls
    BY DEF Claiming, Consuming
<1>2. sessions[c] \in Nat
    BY DEF TypeOK
<1>3. Cardinality(Polls \ Claiming(c)) <= Cardinality(Polls \ Claiming(c)')
    BY <1>1, PollsCount
<1>4. c \in byToken' => Cardinality(Consuming(c)) <= Cardinality(Consuming(c)')
    BY <1>1, PollsCount
<1>5. /\ Cardinality(Polls \ Claiming(c)) \in Nat
      /\ Cardinality(Polls \ Claiming(c)') \in Nat
      /\ Cardinality(Consuming(c)) \in Nat
      /\ Cardinality(Consuming(c)') \in Nat
    BY <1>1, PollsCount
<1>6. sessions[c] <= Cardinality(Polls \ Claiming(c)')
    BY <1>2, <1>3, <1>5 DEF Budgeted
<1>7. c \in byToken' => sessions[c] <= Cardinality(Consuming(c)')
    BY <1>2, <1>4, <1>5 DEF Budgeted
<1> QED BY <1>6, <1>7

-----------------------------------------------------------------------------
(* The panel starts a challenge or gives it up; another user's is started; *)
(* time passes.                                                            *)
LEMMA TabKeeps ==
    ASSUME DeviceInv,
           \/ \E c \in Challenges : SSHStart(c) \/ TabGivesUp(c)
           \/ SSHStartElsewhere
           \/ Tick
    PROVE  DeviceInv'
<1> USE DEF DeviceInv
<1>1. ASSUME NEW c \in Challenges, SSHStart(c)
      PROVE  DeviceInv'
  <2>1. /\ byCode' = (byCode \ Swept) \union {c} /\ byToken' = (byToken \ Swept) \union {c}
        /\ expiresAt' = [expiresAt EXCEPT ![c] = now + DeviceCodeTTL]
        /\ tab[c] = "none" /\ tab' = [tab EXCEPT ![c] = "waiting"]
        /\ UNCHANGED <<status, attempts, now, poll, client, sessions, signed>>
      BY <1>1 DEF SSHStart, NewChallenge
  <2>2. TypeOK'
      BY <2>1, TTLAssumption DEF TypeOK, TabStates
  <2>3. FlowInv'
      BY <2>1, AttemptsAssumption
      DEF TypeOK, FlowInv, RequestsAreAbout, UnissuedUnknown, IndexesAgree, ApprovedIsSigned,
          OkMeansApprovedOrGone, PollsInOrder, SessionsApproved, SignedInHasSession
  <2>4. Budgeted'
    <3> SUFFICES ASSUME NEW d \in Challenges
                 PROVE  /\ sessions[d] <= Cardinality(Polls \ Claiming(d))
                        /\ d \in byToken' => sessions[d] <= Cardinality(Consuming(d))
        BY <2>1 DEF Budgeted, Claiming, Consuming
    <3>1. CASE d # c
        BY <2>1, <3>1 DEF Budgeted
    <3>2. CASE d = c
      <4>1. sessions[c] = 0
          BY <2>1 DEF FlowInv, UnissuedUnknown
      <4>2. Cardinality(Consuming(c)) \in Nat
          BY PollsCount DEF Consuming
      <4> QED BY <3>2, <4>1, <4>2 DEF Budgeted
    <3> QED BY <3>1, <3>2
  <2> QED BY <2>2, <2>3, <2>4
<1>2. ASSUME NEW c \in Challenges, TabGivesUp(c)
      PROVE  DeviceInv'
  <2>1. TypeOK' /\ FlowInv'
      BY <1>2
      DEF TabGivesUp, store, TypeOK, TabStates, FlowInv, RequestsAreAbout, UnissuedUnknown,
          IndexesAgree, ApprovedIsSigned, OkMeansApprovedOrGone, PollsInOrder, SessionsApproved, SignedInHasSession
  <2>2. Budgeted'
      BY <1>2 DEF TabGivesUp, store, Budgeted, Claiming, Consuming
  <2> QED BY <2>1, <2>2
<1>3. CASE SSHStartElsewhere
  <2>1. TypeOK' /\ FlowInv'
      BY <1>3
      DEF SSHStartElsewhere, Remove, TypeOK, FlowInv, RequestsAreAbout, UnissuedUnknown,
          IndexesAgree, ApprovedIsSigned, OkMeansApprovedOrGone, PollsInOrder, SessionsApproved, SignedInHasSession
  <2>2. Budgeted'
      BY <1>3, BudgetKept DEF SSHStartElsewhere, Remove, Claiming, Consuming
  <2> QED BY <2>1, <2>2
<1>4. CASE Tick
  <2>1. TypeOK' /\ FlowInv'
      BY <1>4, TTLAssumption
      DEF Tick, store, TypeOK, FlowInv, RequestsAreAbout, UnissuedUnknown,
          IndexesAgree, ApprovedIsSigned, OkMeansApprovedOrGone, PollsInOrder, SessionsApproved, SignedInHasSession
  <2>2. Budgeted'
      BY <1>4 DEF Tick, store, Budgeted, Claiming, Consuming
  <2> QED BY <2>1, <2>2
<1> QED BY <1>1, <1>2, <1>3, <1>4

-----------------------------------------------------------------------------
(* A poll moves on within SSHPoll, without a session; it may remove its    *)
(* challenge.                                                              *)
LEMMA PollMovesKeeps ==
    ASSUME DeviceInv, NEW p \in Polls, NEW from \in PollSteps \ {"idle"}, NEW to \in PollSteps \ {"idle"},
           PollMoves(p, from, to),
           UNCHANGED <<status, attempts, expiresAt, now, tab, client, sessions, signed>>,
           byCode' = byToken', byCode' \subseteq byCode,
           to = "create" => status[poll[p].for] = "approved",
           to \in {"consume", "approved"} => sessions[poll[p].for] > 0
    PROVE  (TypeOK /\ FlowInv)'
<1> USE DEF DeviceInv
<1>1. poll[p].at = from /\ poll' = [poll EXCEPT ![p].at = to]
    BY DEF PollMoves
<1>2. poll \in [Polls -> [at : PollSteps, for : Challenges \union {NoChallenge}]]
    BY DEF TypeOK
<1>3. poll' \in [Polls -> [at : PollSteps, for : Challenges \union {NoChallenge}]]
    BY <1>1, <1>2
<1>4. /\ poll'[p].at = to
      /\ \A q \in Polls : poll'[q].for = poll[q].for /\ (q # p => poll'[q] = poll[q])
    BY <1>1, <1>2
<1>5. TypeOK'
    BY <1>3 DEF TypeOK
<1>6. FlowInv'
    BY <1>1, <1>4
    DEF FlowInv, RequestsAreAbout, UnissuedUnknown, IndexesAgree, ApprovedIsSigned,
        OkMeansApprovedOrGone, PollsInOrder, SessionsApproved, SignedInHasSession
<1> QED BY <1>5, <1>6

(* And it keeps to the budget unless it is the one that finds the          *)
(* challenge.                                                              *)
LEMMA PollMovesBudget ==
    ASSUME TypeOK, Budgeted, NEW p \in Polls, NEW from, NEW to,
           PollMoves(p, from, to), UNCHANGED sessions,
           to \in {"check", "create"} => from \in {"check", "create"},
           from = "consume" => poll[p].for \notin byToken',
           byToken' \subseteq byToken
    PROVE  Budgeted'
<1>1. /\ poll[p].at = from /\ poll'[p].at = to
      /\ \A q \in Polls : poll'[q].for = poll[q].for /\ (q # p => poll'[q] = poll[q])
    BY DEF PollMoves, TypeOK
<1>2. \A c \in Challenges :
          /\ Claiming(c)' \subseteq Claiming(c)
          /\ c \in byToken' => c \in byToken /\ Consuming(c) \subseteq Consuming(c)'
    BY <1>1 DEF Claiming, Consuming
<1> QED BY <1>2, BudgetKept

LEMMA SendPollKeeps ==
    ASSUME DeviceInv, NEW p \in Polls, NEW c \in Challenges, SendPoll(p, c)
    PROVE  DeviceInv'
<1> USE DEF DeviceInv
<1>1. /\ poll[p].at = "idle" /\ tab[c] = "waiting"
      /\ poll' = [poll EXCEPT ![p] = [at |-> "sent", for |-> c]]
      /\ UNCHANGED <<byCode, byToken, status, attempts, expiresAt, now, tab, client, sessions, signed>>
    BY DEF SendPoll, store
<1>2. [at |-> "sent", for |-> c] \in [at : PollSteps, for : Challenges \union {NoChallenge}]
    BY DEF PollSteps
<1>3. TypeOK'
    BY <1>1, <1>2 DEF TypeOK
<1>4. /\ poll'[p] = [at |-> "sent", for |-> c]
      /\ \A q \in Polls : q # p => poll'[q] = poll[q]
    BY <1>1 DEF TypeOK
<1>5. FlowInv'
    BY <1>1, <1>4
    DEF FlowInv, RequestsAreAbout, UnissuedUnknown, IndexesAgree, ApprovedIsSigned,
        OkMeansApprovedOrGone, PollsInOrder, SessionsApproved, SignedInHasSession
<1>6. Budgeted'
    BY <1>1, <1>4, BudgetKept DEF Claiming, Consuming
<1> QED BY <1>3, <1>5, <1>6

(* A poll that finds its challenge leaves room for the session it may      *)
(* create: those created so far have polls of their own.                   *)
LEMMA PollLooksUpKeeps ==
    ASSUME DeviceInv, NEW p \in Polls, PollLooksUp(p)
    PROVE  DeviceInv'
<1> USE DEF DeviceInv
<1> DEFINE to == IF FindByPollToken(poll[p].for) THEN "check" ELSE "failed"
<1>1. /\ PollMoves(p, "sent", to)
      /\ UNCHANGED <<byCode, byToken, status, attempts, expiresAt, now, tab, client, sessions, signed>>
    BY DEF PollLooksUp, store
<1>2. TypeOK' /\ FlowInv'
    BY <1>1, PollMovesKeeps DEF PollSteps, FlowInv, IndexesAgree
<1>3. CASE ~FindByPollToken(poll[p].for)
  <2>1. Budgeted'
      BY <1>1, <1>3, PollMovesBudget
  <2> QED BY <1>2, <2>1
<1>4. CASE FindByPollToken(poll[p].for)
  <2>1. /\ poll[p].at = "sent" /\ poll'[p].at = "check" /\ poll[p].for \in byToken
        /\ \A q \in Polls : poll'[q].for = poll[q].for /\ (q # p => poll'[q] = poll[q])
      BY <1>1, <1>4 DEF PollMoves, TypeOK, FindByPollToken
  <2>2. ASSUME NEW c \in Challenges
        PROVE  /\ sessions[c] <= Cardinality(Polls \ Claiming(c)')
               /\ c \in byToken' => sessions[c] <= Cardinality(Consuming(c)')
    <3>1. Consuming(c)' = Consuming(c)
        BY <2>1 DEF Consuming
    <3>2. CASE poll[p].for # c
      <4>1. Claiming(c)' = Claiming(c)
          BY <2>1, <3>2 DEF Claiming
      <4> QED BY <1>1, <3>1, <4>1 DEF Budgeted
    <3>3. CASE poll[p].for = c
      <4>1. sessions[c] <= Cardinality(Consuming(c))
          BY <2>1, <3>3 DEF Budgeted
      <4>2. Consuming(c)' \subseteq Polls \ Claiming(c)' /\ Polls \ Claiming(c)' \subseteq Polls
          BY DEF Consuming, Claiming
      <4>3. /\ Cardinality(Consuming(c)') <= Cardinality(Polls \ Claiming(c)')
            /\ Cardinality(Consuming(c)') \in Nat /\ Cardinality(Polls \ Claiming(c)') \in Nat
          BY <4>2, PollsCount
      <4>4. sessions[c] <= Cardinality(Consuming(c)')
          BY <3>1, <4>1
      <4>5. sessions[c] \in Nat
          BY DEF TypeOK
      <4>6. sessions[c] <= Cardinality(Polls \ Claiming(c)')
          BY <4>3, <4>4, <4>5
      <4> QED BY <4>4, <4>6
    <3> QED BY <3>2, <3>3
  <2>3. Budgeted'
      BY <1>1, <2>2 DEF Budgeted
  <2> QED BY <1>2, <2>3
<1> QED BY <1>3, <1>4

(* The session a poll creates is the one it was short of.                  *)
LEMMA PollCreatesSessionKeeps ==
    ASSUME DeviceInv, NEW p \in Polls, PollCreatesSession(p)
    PROVE  DeviceInv'
<1> USE DEF DeviceInv
<1> PICK c \in Challenges : c = poll[p].for
    BY DEF PollCreatesSession, PollMoves, FlowInv, RequestsAreAbout
<1>1. /\ PollMoves(p, "create", "consume")
      /\ sessions' = [sessions EXCEPT ![c] = @ + 1]
      /\ UNCHANGED <<byCode, byToken, status, attempts, expiresAt, now, tab, client, signed>>
    BY DEF PollCreatesSession, store
<1>2. /\ poll[p].at = "create" /\ poll' = [poll EXCEPT ![p].at = "consume"]
      /\ poll \in [Polls -> [at : PollSteps, for : Challenges \union {NoChallenge}]]
    BY <1>1 DEF PollMoves, TypeOK
<1>3. status[c] = "approved"
    BY <1>2 DEF FlowInv, PollsInOrder
<1>4. poll' \in [Polls -> [at : PollSteps, for : Challenges \union {NoChallenge}]]
    BY <1>2 DEF PollSteps
<1>5. /\ poll'[p].at = "consume"
      /\ \A q \in Polls : poll'[q].for = poll[q].for /\ (q # p => poll'[q] = poll[q])
    BY <1>2
<1>6. /\ sessions' \in [Challenges -> Nat]
      /\ sessions'[c] = sessions[c] + 1 /\ sessions[c] \in Nat
      /\ \A d \in Challenges : sessions[d] > 0 => sessions'[d] > 0
      /\ \A d \in Challenges : d # c => sessions'[d] = sessions[d]
    BY <1>1, <1>3 DEF TypeOK
<1>7. TypeOK'
    BY <1>1, <1>4, <1>6 DEF TypeOK
<1>8. tab[c] # "none"
    BY DEF FlowInv, UnissuedUnknown
<1>9. FlowInv'
    BY <1>1, <1>3, <1>5, <1>6, <1>8
    DEF FlowInv, RequestsAreAbout, UnissuedUnknown, IndexesAgree, ApprovedIsSigned,
        OkMeansApprovedOrGone, PollsInOrder, SessionsApproved, SignedInHasSession
<1>10. ASSUME NEW d \in Challenges
       PROVE  /\ sessions'[d] <= Cardinality(Polls \ Claiming(d)')
              /\ d \in byToken' => sessions'[d] <= Cardinality(Consuming(d)')
  <2>1. CASE d # c
    <3>1. Claiming(d)' = Claiming(d) /\ Consuming(d)' = Consuming(d)
        BY <1>5, <2>1 DEF Claiming, Consuming
    <3> QED BY <1>1, <1>6, <2>1, <3>1 DEF Budgeted
  <2>2. CASE d = c
    <3>1. /\ Polls \ Claiming(c)' = (Polls \ Claiming(c)) \union {p} /\ p \notin Polls \ Claiming(c)
          /\ Consuming(c)' = Consuming(c) \union {p} /\ p \notin Consuming(c)
        BY <1>2, <1>5 DEF Claiming, Consuming
    <3>2. /\ IsFiniteSet(Polls \ Claiming(c)) /\ Cardinality(Polls \ Claiming(c)) \in Nat
          /\ IsFiniteSet(Consuming(c)) /\ Cardinality(Consuming(c)) \in Nat
        BY PollsCount DEF Consuming
    <3>3. /\ Cardinality(Polls \ Claiming(c)') = Cardinality(Polls \ Claiming(c)) + 1
          /\ Cardinality(Consuming(c)') = Cardinality(Consuming(c)) + 1
      <4>1. Cardinality((Polls \ Claiming(c)) \union {p}) = Cardinality(Polls \ Claiming(c)) + 1
          BY <3>1, <3>2, FS_AddElement
      <4>2. Cardinality(Consuming(c) \union {p}) = Cardinality(Consuming(c)) + 1
          BY <3>1, <3>2, FS_AddElement
      <4> QED BY <3>1, <4>1, <4>2
    <3>4. /\ sessions[c] <= Cardinality(Polls \ Claiming(c))
          /\ c \in byToken => sessions[c] <= Cardinality(Consuming(c))
        BY <1>3 DEF Budgeted
    <3>5. sessions[c] + 1 <= Cardinality(Polls \ Claiming(c)')
        BY <1>6, <3>2, <3>3, <3>4
    <3>6. c \in byToken => sessions[c] + 1 <= Cardinality(Consuming(c)')
        BY <1>6, <3>2, <3>3, <3>4
    <3> QED BY <1>1, <1>6, <2>2, <3>5, <3>6
  <2> QED BY <2>1, <2>2
<1>11. Budgeted'
    BY <1>10 DEF Budgeted
<1> QED BY <1>7, <1>9, <1>11

(* The rest of SSHPoll, and the reply.                                     *)
LEMMA PollAnswers ==
    ASSUME DeviceInv, NEW p \in Polls, PollReplies(p) \/ PollReplyLost(p)
    PROVE  DeviceInv'
<1> USE DEF DeviceInv
<1> PICK c \in Challenges : c = poll[p].for
    BY DEF PollReplies, PollReplyLost, FlowInv, RequestsAreAbout
<1>1. /\ poll[p].at \in {"pending", "approved", "failed"}
      /\ poll' = [poll EXCEPT ![p] = Idle]
      /\ UNCHANGED <<byCode, byToken, status, attempts, expiresAt, now, client, sessions, signed>>
    BY DEF PollReplies, PollReplyLost, store
<1>2. tab[c] # "none"
    BY DEF FlowInv, UnissuedUnknown
<1>3. \E shown \in TabStates \ {"none"} :
          /\ tab' = [tab EXCEPT ![c] = shown]
          /\ shown = "signedIn" => tab[c] = "signedIn" \/ poll[p].at = "approved"
    BY <1>2 DEF PollReplies, PollReplyLost, TabAfter, TypeOK, TabStates
<1>4. /\ poll' \in [Polls -> [at : PollSteps, for : Challenges \union {NoChallenge}]]
      /\ poll'[p] = Idle
      /\ \A q \in Polls : q # p => poll'[q] = poll[q]
    BY <1>1 DEF TypeOK, Idle, PollSteps
<1>5. TypeOK'
    BY <1>1, <1>3, <1>4 DEF TypeOK
<1>6. /\ \A d \in Challenges : tab'[d] = "none" <=> tab[d] = "none"
      /\ tab'[c] = "signedIn" => tab[c] = "signedIn" \/ poll[p].at = "approved"
      /\ \A d \in Challenges : d # c => tab'[d] = tab[d]
    BY <1>2, <1>3 DEF TypeOK
<1>7. (RequestsAreAbout /\ UnissuedUnknown /\ PollsInOrder)'
    BY <1>1, <1>4, <1>6, NoChallengeAssumption
    DEF FlowInv, RequestsAreAbout, UnissuedUnknown, PollsInOrder, Idle
<1>8. (IndexesAgree /\ ApprovedIsSigned /\ OkMeansApprovedOrGone /\ SessionsApproved)'
    BY <1>1 DEF FlowInv, IndexesAgree, ApprovedIsSigned, OkMeansApprovedOrGone, SessionsApproved
<1>9. SignedInHasSession'
    BY <1>1, <1>6 DEF FlowInv, PollsInOrder, SessionsApproved, SignedInHasSession
<1>10. Budgeted'
    BY <1>1, <1>4, BudgetKept DEF Claiming, Consuming, Idle
<1> QED BY <1>5, <1>7, <1>8, <1>9, <1>10 DEF FlowInv

LEMMA PollKeeps ==
    ASSUME DeviceInv, NEW p \in Polls, PollStep(p)
    PROVE  DeviceInv'
<1>1. CASE PollChecks(p)
  <2> DEFINE to == IF status[poll[p].for] = "approved" THEN "create" ELSE "pending"
  <2>1. /\ PollMoves(p, "check", to)
        /\ UNCHANGED <<byCode, byToken, status, attempts, expiresAt, now, tab, client, sessions, signed>>
      BY <1>1 DEF PollChecks, store
  <2>2. (TypeOK /\ FlowInv)'
      BY <2>1, PollMovesKeeps DEF PollSteps, DeviceInv, FlowInv, IndexesAgree
  <2>3. Budgeted'
      BY <2>1, PollMovesBudget DEF DeviceInv
  <2> QED BY <2>2, <2>3 DEF DeviceInv
<1>2. CASE PollCreateFails(p)
  <2>1. /\ PollMoves(p, "create", "failed")
        /\ UNCHANGED <<byCode, byToken, status, attempts, expiresAt, now, tab, client, sessions, signed>>
      BY <1>2 DEF PollCreateFails, store
  <2>2. (TypeOK /\ FlowInv)'
      BY <2>1, PollMovesKeeps DEF PollSteps, DeviceInv, FlowInv, IndexesAgree
  <2>3. Budgeted'
      BY <2>1, PollMovesBudget DEF DeviceInv
  <2> QED BY <2>2, <2>3 DEF DeviceInv
<1>3. CASE PollConsumes(p)
  <2>1. /\ PollMoves(p, "consume", "approved")
        /\ byCode' = byCode \ ({poll[p].for} \intersect byToken)
        /\ byToken' = byToken \ ({poll[p].for} \intersect byToken)
        /\ UNCHANGED <<status, attempts, expiresAt, now, tab, client, sessions, signed>>
      BY <1>3 DEF PollConsumes, Consume, Remove
  <2>2. sessions[poll[p].for] > 0
      BY <2>1 DEF PollMoves, DeviceInv, FlowInv, PollsInOrder
  <2>3. (TypeOK /\ FlowInv)'
      BY <2>1, <2>2, PollMovesKeeps DEF PollSteps, DeviceInv, FlowInv, IndexesAgree
  <2>4. Budgeted'
      BY <2>1, PollMovesBudget DEF DeviceInv
  <2> QED BY <2>3, <2>4 DEF DeviceInv
<1> QED
    BY <1>1, <1>2, <1>3, PollLooksUpKeeps, PollCreatesSessionKeeps, PollAnswers DEF PollStep

-----------------------------------------------------------------------------
(* The client's requests concern no poll.                                  *)
LEMMA ClientKeeps ==
    ASSUME DeviceInv, NEW k \in Clients,
           ClientStep(k) \/ \E c \in Challenges : FetchDeviceInfo(k, c)
    PROVE  DeviceInv'
<1> USE DEF DeviceInv
<1>t. client \in [Clients -> [at : ClientSteps, for : Challenges \union {NoChallenge}]]
    BY DEF TypeOK
<1>1. ASSUME NEW c \in Challenges, FetchDeviceInfo(k, c)
      PROVE  DeviceInv'
  <2>1. /\ c \in byCode
        /\ client' = [client EXCEPT ![k] = [at |-> "respond", for |-> c]]
        /\ UNCHANGED <<byCode, byToken, status, attempts, expiresAt, now, tab, poll, sessions, signed>>
      BY <1>1 DEF FetchDeviceInfo, FindByCode, store
  <2>2. /\ client' \in [Clients -> [at : ClientSteps, for : Challenges \union {NoChallenge}]]
        /\ client'[k] = [at |-> "respond", for |-> c]
        /\ \A l \in Clients : l # k => client'[l] = client[l]
      BY <1>t, <2>1 DEF ClientSteps
  <2>3. TypeOK' /\ FlowInv'
      BY <2>1, <2>2
      DEF TypeOK, FlowInv, RequestsAreAbout, UnissuedUnknown, IndexesAgree, ApprovedIsSigned,
          OkMeansApprovedOrGone, PollsInOrder, SessionsApproved, SignedInHasSession
  <2>4. Budgeted'
      BY <2>1 DEF Budgeted, Claiming, Consuming
  <2> QED BY <2>3, <2>4
<1>2. CASE RespondErrors(k) \/ ClientExits(k)
  <2>1. /\ client' = [client EXCEPT ![k] = Idle]
        /\ UNCHANGED <<byCode, byToken, status, attempts, expiresAt, now, tab, poll, sessions, signed>>
      BY <1>2 DEF RespondErrors, ClientExits, ClientDone, store
  <2>2. /\ client' \in [Clients -> [at : ClientSteps, for : Challenges \union {NoChallenge}]]
        /\ client'[k].at = "idle" /\ client'[k].for = NoChallenge
        /\ \A l \in Clients : l # k => client'[l] = client[l]
      BY <1>t, <2>1 DEF ClientSteps, Idle
  <2>3. TypeOK' /\ FlowInv'
      BY <2>1, <2>2, NoChallengeAssumption
      DEF TypeOK, FlowInv, RequestsAreAbout, UnissuedUnknown, IndexesAgree, ApprovedIsSigned,
          OkMeansApprovedOrGone, PollsInOrder, SessionsApproved, SignedInHasSession
  <2>4. Budgeted'
      BY <2>1 DEF Budgeted, Claiming, Consuming
  <2> QED BY <2>3, <2>4
<1>3. CASE RespondLooksUp(k) \/ RespondAccepts(k) \/ RespondRejects(k)
  <2>1. PICK to \in {"verify", "approve", "register"} :
          /\ client[k].at \in {"respond", "verify"}
          /\ client' = [client EXCEPT ![k].at = to]
          /\ to = "approve" => signed' = signed \union {client[k].for}
          /\ to # "approve" => signed' = signed
      BY <1>3 DEF RespondLooksUp, RespondAccepts, RespondRejects, ClientMoves
  <2>2. UNCHANGED <<byCode, byToken, status, attempts, expiresAt, now, tab, poll, sessions>>
      BY <1>3 DEF RespondLooksUp, RespondAccepts, RespondRejects, store
  <2>3. /\ client' \in [Clients -> [at : ClientSteps, for : Challenges \union {NoChallenge}]]
        /\ client'[k].at = to /\ client'[k].for = client[k].for
        /\ \A l \in Clients : l # k => client'[l] = client[l]
      BY <1>t, <2>1 DEF ClientSteps
  <2>4. client[k].for \in Challenges
      BY <2>1 DEF FlowInv, RequestsAreAbout
  <2>5. TypeOK' /\ FlowInv'
      BY <2>1, <2>2, <2>3, <2>4
      DEF TypeOK, FlowInv, RequestsAreAbout, UnissuedUnknown, IndexesAgree, ApprovedIsSigned,
          OkMeansApprovedOrGone, PollsInOrder, SessionsApproved, SignedInHasSession
  <2>6. Budgeted'
      BY <2>2 DEF Budgeted, Claiming, Consuming
  <2> QED BY <2>5, <2>6
<1>4. CASE RespondApproves(k)
  <2> PICK c \in Challenges : c = client[k].for
      BY <1>4 DEF RespondApproves, ClientMoves, FlowInv, RequestsAreAbout
  <2>1. /\ client[k].at = "approve" /\ client' = [client EXCEPT ![k].at = "ok"]
        /\ status' = IF c \in byCode THEN [status EXCEPT ![c] = "approved"] ELSE status
        /\ UNCHANGED <<byCode, byToken, attempts, expiresAt, now, tab, poll, sessions, signed>>
      BY <1>4 DEF RespondApproves, ClientMoves, Approve
  <2>2. /\ client' \in [Clients -> [at : ClientSteps, for : Challenges \union {NoChallenge}]]
        /\ client'[k].at = "ok" /\ client'[k].for = c
        /\ \A l \in Clients : l # k => client'[l] = client[l]
      BY <1>t, <2>1 DEF ClientSteps
  <2>3. /\ status' \in [Challenges -> {"pending", "approved"}]
        /\ c \in byCode => status'[c] = "approved"
        /\ \A d \in Challenges : status[d] = "approved" => status'[d] = "approved"
        /\ \A d \in Challenges : status'[d] = "approved" => status[d] = "approved" \/ d = c
      BY <2>1 DEF TypeOK
  <2>4. TypeOK'
      BY <2>1, <2>2, <2>3 DEF TypeOK
  <2>5. c \in signed /\ tab[c] # "none"
      BY <2>1 DEF FlowInv, ApprovedIsSigned, UnissuedUnknown
  <2>6. (RequestsAreAbout /\ IndexesAgree /\ ApprovedIsSigned /\ SessionsApproved /\ SignedInHasSession)'
      BY <2>1, <2>2, <2>3, <2>5
      DEF FlowInv, RequestsAreAbout, IndexesAgree, ApprovedIsSigned, SessionsApproved,
          SignedInHasSession
  <2>7. (UnissuedUnknown /\ OkMeansApprovedOrGone)'
      BY <2>1, <2>2, <2>3, <2>4, <2>5
      DEF FlowInv, RequestsAreAbout, UnissuedUnknown, OkMeansApprovedOrGone, TypeOK
  <2>8. PollsInOrder'
      BY <2>1, <2>3 DEF FlowInv, RequestsAreAbout, PollsInOrder
  <2>9. Budgeted'
      BY <2>1 DEF Budgeted, Claiming, Consuming
  <2> QED BY <2>4, <2>6, <2>7, <2>8, <2>9 DEF FlowInv
<1>5. CASE RespondRegisters(k)
  <2> PICK c \in Challenges : c = client[k].for
      BY <1>5 DEF RespondRegisters, FlowInv, RequestsAreAbout
  <2>1. /\ client' = [client EXCEPT ![k] = Idle]
        /\ RegisterAttempt(c)
        /\ UNCHANGED <<now, tab, poll, sessions, signed>>
      BY <1>5 DEF RespondRegisters, ClientDone
  <2>2. /\ client' \in [Clients -> [at : ClientSteps, for : Challenges \union {NoChallenge}]]
        /\ client'[k].at = "idle" /\ client'[k].for = NoChallenge
        /\ \A l \in Clients : l # k => client'[l] = client[l]
      BY <1>t, <2>1 DEF ClientSteps, Idle
  <2>3. /\ UNCHANGED <<status, expiresAt>>
        /\ byCode' \subseteq byCode /\ byToken' \subseteq byToken
      BY <2>1 DEF RegisterAttempt, Remove, store
  <2>4. attempts' \in [Challenges -> 0 .. MaxVerifyAttempts] /\ IndexesAgree'
    <3>1. CASE c \notin byCode
        BY <2>1, <3>1 DEF RegisterAttempt, store, FlowInv, IndexesAgree, TypeOK
    <3>2. CASE c \in byCode
      <4>1. attempts[c] < MaxVerifyAttempts /\ attempts[c] \in Nat
          BY <3>2 DEF FlowInv, IndexesAgree, TypeOK
      <4>2. attempts' = [attempts EXCEPT ![c] = @ + 1]
          BY <2>1, <3>2 DEF RegisterAttempt
      <4>3. /\ attempts'[c] = attempts[c] + 1 /\ attempts'[c] \in 0 .. MaxVerifyAttempts
            /\ attempts' \in [Challenges -> 0 .. MaxVerifyAttempts]
            /\ \A d \in Challenges : d # c => attempts'[d] = attempts[d]
          BY <4>1, <4>2, AttemptsAssumption DEF TypeOK
      <4>4. /\ byCode' = byToken'
            /\ attempts[c] + 1 >= MaxVerifyAttempts => c \notin byCode'
          BY <2>1, <3>2 DEF RegisterAttempt, Remove, FlowInv, IndexesAgree
      <4>5. \A d \in byCode' : attempts'[d] < MaxVerifyAttempts
          BY <2>3, <4>1, <4>3, <4>4, AttemptsAssumption DEF FlowInv, IndexesAgree, TypeOK
      <4> QED BY <4>3, <4>4, <4>5 DEF IndexesAgree
    <3> QED BY <3>1, <3>2
  <2>5. \A d \in Challenges : tab[d] = "none" => attempts'[d] = 0
    <3>1. c \notin byCode => attempts' = attempts
        BY <2>1 DEF RegisterAttempt, store
    <3>2. c \in byCode => attempts' = [attempts EXCEPT ![c] = @ + 1]
        BY <2>1 DEF RegisterAttempt
    <3>3. tab[c] # "none"
        BY DEF FlowInv, UnissuedUnknown
    <3> QED BY <3>1, <3>2, <3>3 DEF FlowInv, UnissuedUnknown, TypeOK
  <2>6. TypeOK'
      BY <2>1, <2>2, <2>3, <2>4 DEF TypeOK
  <2>7. (RequestsAreAbout /\ UnissuedUnknown)'
      BY <2>1, <2>2, <2>3, <2>5, NoChallengeAssumption DEF FlowInv, RequestsAreAbout, UnissuedUnknown
  <2>8. (ApprovedIsSigned /\ OkMeansApprovedOrGone /\ PollsInOrder /\ SessionsApproved
            /\ SignedInHasSession)'
      BY <2>1, <2>2, <2>3
      DEF FlowInv, ApprovedIsSigned, OkMeansApprovedOrGone, PollsInOrder, SessionsApproved, SignedInHasSession
  <2>9. Budgeted'
      BY <2>1, <2>3, BudgetKept DEF Claiming, Consuming
  <2> QED BY <2>4, <2>6, <2>7, <2>8, <2>9 DEF FlowInv
<1> QED BY <1>1, <1>2, <1>3, <1>4, <1>5 DEF ClientStep

-----------------------------------------------------------------------------
(* A restart forgets every challenge, and fails the requests under way.    *)
LEMMA RestartKeeps ==
    ASSUME DeviceInv, Restart
    PROVE  DeviceInv'
<1> USE DEF DeviceInv
<1>1. /\ byCode' = {} /\ byToken' = {}
      /\ UNCHANGED <<status, attempts, expiresAt, now, tab, sessions, signed>>
    BY DEF Restart
<1>2. /\ poll' \in [Polls -> [at : PollSteps, for : Challenges \union {NoChallenge}]]
      /\ \A p \in Polls : /\ poll'[p].for = poll[p].for
                          /\ poll'[p].at \in {poll[p].at, "failed"}
                          /\ poll'[p].at \in {"idle", "sent", "failed"}
                          /\ poll'[p].at = "idle" <=> poll[p].at = "idle"
    BY DEF Restart, TypeOK, PollSteps
<1>3. /\ client' \in [Clients -> [at : ClientSteps, for : Challenges \union {NoChallenge}]]
      /\ \A k \in Clients : client'[k] = client[k] \/ client'[k] = Idle
      /\ \A k \in Clients : client'[k].at # "approve"
    BY DEF Restart, TypeOK, ClientSteps, Idle
<1>4. TypeOK'
    BY <1>1, <1>2, <1>3 DEF TypeOK
<1>5. FlowInv'
    BY <1>1, <1>2, <1>3, NoChallengeAssumption
    DEF FlowInv, RequestsAreAbout, UnissuedUnknown, IndexesAgree, ApprovedIsSigned,
        OkMeansApprovedOrGone, PollsInOrder, SessionsApproved, SignedInHasSession, Idle
<1>6. Budgeted'
    BY <1>1, <1>2, BudgetKept DEF Claiming, Consuming
<1> QED BY <1>4, <1>5, <1>6

LEMMA NextKeepsDeviceInv == DeviceInv /\ [Next]_vars => DeviceInv'
<1> SUFFICES ASSUME DeviceInv, [Next]_vars PROVE DeviceInv'
    OBVIOUS
<1>1. CASE Next
    BY <1>1, TabKeeps, SendPollKeeps, PollKeeps, ClientKeeps, RestartKeeps DEF Next
<1>2. CASE UNCHANGED vars
  <2>1. TypeOK' /\ FlowInv'
      BY <1>2
      DEF vars, DeviceInv, TypeOK, FlowInv, RequestsAreAbout, UnissuedUnknown, IndexesAgree,
          ApprovedIsSigned, OkMeansApprovedOrGone, PollsInOrder, SessionsApproved, SignedInHasSession
  <2>2. Budgeted'
      BY <1>2 DEF vars, DeviceInv, Budgeted, Claiming, Consuming
  <2> QED BY <2>1, <2>2 DEF DeviceInv
<1> QED BY <1>1, <1>2

(* The inductive invariant holds in every reachable state.                 *)
THEOREM DeviceInvariance == Spec => []DeviceInv
BY InitDeviceInv, NextKeepsDeviceInv, PTL DEF Spec

-----------------------------------------------------------------------------
(* Results.                                                                *)

(* Every variable of the flow keeps its type.                              *)
THEOREM DeviceTypeCorrect == Spec => []TypeOK
<1>1. DeviceInv => TypeOK
    BY DEF DeviceInv
<1> QED BY <1>1, DeviceInvariance, PTL

(* The two indexes never part, and whatever is in them has attempts left,  *)
(* however many clients try at once.                                       *)
THEOREM IndexesStayEqual == Spec => []IndexesAgree
<1>1. DeviceInv => IndexesAgree
    BY DEF DeviceInv, FlowInv
<1> QED BY <1>1, DeviceInvariance, PTL

(* No session without a good signature for its challenge.                  *)
THEOREM SessionsAreSigned == Spec => []SessionNeedsSignature
<1>1. DeviceInv => SessionNeedsSignature
    BY DEF DeviceInv, FlowInv, ApprovedIsSigned, SessionsApproved, SessionNeedsSignature
<1> QED BY <1>1, DeviceInvariance, PTL

(* A client that was told ok has approved its challenge, unless it had     *)
(* been removed by then.                                                   *)
THEOREM OkIsTrue == Spec => []OkMeansApprovedOrGone
<1>1. DeviceInv => OkMeansApprovedOrGone
    BY DEF DeviceInv, FlowInv
<1> QED BY <1>1, DeviceInvariance, PTL

(* A tab that shows it is signed in has a session.                         *)
THEOREM SignedInIsTrue == Spec => []SignedInHasSession
<1>1. DeviceInv => SignedInHasSession
    BY DEF DeviceInv, FlowInv
<1> QED BY <1>1, DeviceInvariance, PTL

-----------------------------------------------------------------------------
(* The refinement: each step of the flow is one of DeviceLogin or changes  *)
(* no stage and no grant.                                                  *)
AbstractStep == [Abstract!Next]_<<[c \in Challenges |-> StageOf(c)], sessions>>

LEMMA InitAbstract == Init => Abstract!Init
BY DEF Init, Abstract!Init, StageOf

(* A step after which some challenges are no longer open, and nothing else *)
(* has changed, closes them.                                               *)
LEMMA ClosingStep ==
    ASSUME UNCHANGED <<status, sessions>>,
           \A c \in Challenges : tab'[c] = "none" <=> tab[c] = "none",
           \A c \in Challenges : Open(c)' => Open(c),
           TypeOK
    PROVE  AbstractStep
<1> DEFINE C == {c \in Challenges : StageOf(c) \in {"pending", "approved"} /\ StageOf(c)' = "closed"}
<1>1. \A c \in Challenges \ C : StageOf(c)' = StageOf(c)
    BY DEF StageOf, TypeOK
<1>2. \A c \in Challenges : StageOf(c)' = IF c \in C THEN "closed" ELSE StageOf(c)
    BY <1>1
<1>3. CASE C = {}
    BY <1>2, <1>3 DEF AbstractStep
<1>4. CASE C # {}
  <2>1. C \in (SUBSET Challenges) \ {{}} /\ \A c \in C : StageOf(c) \in {"pending", "approved"}
      BY <1>4
  <2>2. \A c \in Challenges : [d \in Challenges |-> StageOf(d)][c] = StageOf(c)
      OBVIOUS
  <2>3. [c \in Challenges |-> StageOf(c)]'
           = [c \in Challenges |->
                 IF c \in C THEN "closed" ELSE [d \in Challenges |-> StageOf(d)][c]]
      BY <1>2
  <2> HIDE DEF C
  <2>4. Abstract!Close
      BY <2>1, <2>2, <2>3 DEF Abstract!Close
  <2> QED BY <2>4 DEF AbstractStep, Abstract!Next
<1> QED BY <1>3, <1>4

(* Issuing a challenge closes those the sweep drops.                       *)
LEMMA StartRefines ==
    ASSUME DeviceInv, NEW c \in Challenges, SSHStart(c)
    PROVE  AbstractStep
<1> DEFINE C == {d \in Challenges \ {c} :
                    StageOf(d) \in {"pending", "approved"} /\ StageOf(d)' = "closed"}
<1>1. /\ byToken' = (byToken \ Swept) \union {c} /\ Swept \subseteq byCode
      /\ tab[c] = "none" /\ tab' = [tab EXCEPT ![c] = "waiting"]
      /\ UNCHANGED <<status, poll, sessions>>
    BY DEF SSHStart, NewChallenge, Swept
<1>2. status[c] = "pending"
    BY <1>1 DEF DeviceInv, FlowInv, UnissuedUnknown
<1>3. /\ tab'[c] # "none" /\ Open(c)'
      /\ \A d \in Challenges \ {c} : tab'[d] = tab[d] /\ (Open(d)' => Open(d))
    BY <1>1 DEF Open, DeviceInv, TypeOK
<1>4. StageOf(c) = "none" /\ StageOf(c)' = "pending"
    BY <1>1, <1>2, <1>3 DEF StageOf
<1>5. \A d \in Challenges : d # c /\ d \notin C => StageOf(d)' = StageOf(d)
    BY <1>1, <1>3 DEF StageOf, DeviceInv, TypeOK
<1>6. /\ C \in SUBSET (Challenges \ {c})
      /\ \A d \in C : StageOf(d) \in {"pending", "approved"}
    OBVIOUS
<1>7. [d \in Challenges |-> StageOf(d)]'
         = [d \in Challenges |->
               IF d = c THEN "pending"
               ELSE IF d \in C THEN "closed" ELSE [e \in Challenges |-> StageOf(e)][d]]
    BY <1>4, <1>5
<1>8. \A d \in Challenges : [e \in Challenges |-> StageOf(e)][d] = StageOf(d)
    OBVIOUS
<1> HIDE DEF C
<1>9. Abstract!IssueAndSweep(c)
    BY <1>1, <1>4, <1>6, <1>7, <1>8 DEF Abstract!IssueAndSweep
<1> QED BY <1>9 DEF AbstractStep, Abstract!Next

(* A session is a grant, and the budget leaves room for it.                *)
LEMMA SessionRefines ==
    ASSUME DeviceInv, DeviceInv', NEW p \in Polls, PollCreatesSession(p)
    PROVE  AbstractStep
<1> PICK c \in Challenges : c = poll[p].for
    BY DEF PollCreatesSession, PollMoves, DeviceInv, FlowInv, RequestsAreAbout
<1>1. /\ poll[p].at = "create" /\ poll' = [poll EXCEPT ![p].at = "consume"]
      /\ sessions' = [sessions EXCEPT ![c] = @ + 1]
      /\ UNCHANGED <<byToken, status, tab>>
    BY DEF PollCreatesSession, PollMoves, store
<1>2. /\ poll'[p].at = "consume" /\ poll'[p].for = c
      /\ \A q \in Polls : q # p => poll'[q] = poll[q]
    BY <1>1 DEF DeviceInv, TypeOK
<1>3. \A d \in Challenges : Open(d)' = Open(d)
    BY <1>1, <1>2 DEF Open
<1>4. \A d \in Challenges : StageOf(d)' = StageOf(d)
    BY <1>1, <1>3 DEF StageOf
<1>5. StageOf(c) = "approved"
  <2>1. Open(c)
      BY <1>1 DEF Open
  <2>2. status[c] = "approved" /\ tab[c] # "none"
      BY <1>1 DEF DeviceInv, FlowInv, PollsInOrder, UnissuedUnknown
  <2> QED BY <2>1, <2>2 DEF StageOf
<1>6. sessions[c] < Cardinality(Polls)
  <2>1. sessions[c] \in Nat /\ sessions'[c] = sessions[c] + 1
      BY <1>1 DEF DeviceInv, TypeOK
  <2>2. sessions'[c] <= Cardinality(Polls \ Claiming(c)')
      BY DEF DeviceInv, Budgeted
  <2>3. /\ Cardinality(Polls \ Claiming(c)') <= Cardinality(Polls)
        /\ Cardinality(Polls \ Claiming(c)') \in Nat /\ Cardinality(Polls) \in Nat
      BY PollsCount
  <2> QED BY <2>1, <2>2, <2>3
<1>7. [d \in Challenges |-> StageOf(d)]' = [d \in Challenges |-> StageOf(d)]
    BY <1>4
<1>8. Abstract!Grant(c)
    BY <1>1, <1>5, <1>6, <1>7 DEF Abstract!Grant
<1> QED BY <1>8 DEF AbstractStep, Abstract!Next

(* Approving a challenge that is still there is the approval; one that is  *)
(* gone stays as it is.                                                    *)
LEMMA ApprovalRefines ==
    ASSUME DeviceInv, NEW k \in Clients, RespondApproves(k)
    PROVE  AbstractStep
<1> PICK c \in Challenges : c = client[k].for
    BY DEF RespondApproves, ClientMoves, DeviceInv, FlowInv, RequestsAreAbout
<1>1. /\ status' = IF c \in byCode THEN [status EXCEPT ![c] = "approved"] ELSE status
      /\ UNCHANGED <<byToken, poll, tab, sessions>>
    BY DEF RespondApproves, Approve
<1>2. \A d \in Challenges : Open(d)' = Open(d)
    BY <1>1 DEF Open
<1>3. CASE c \notin byCode \/ status[c] = "approved"
  <2>1. status' = status
      BY <1>1, <1>3 DEF DeviceInv, TypeOK
  <2> QED BY <1>1, <1>2, <2>1, ClosingStep DEF DeviceInv
<1>4. CASE c \in byCode /\ status[c] = "pending"
  <2>1. Open(c) /\ tab[c] # "none"
      BY <1>4 DEF Open, DeviceInv, FlowInv, IndexesAgree, UnissuedUnknown
  <2>2. /\ StageOf(c) = "pending" /\ StageOf(c)' = "approved"
        /\ \A d \in Challenges : d # c => StageOf(d)' = StageOf(d)
      BY <1>1, <1>2, <1>4, <2>1 DEF StageOf, DeviceInv, TypeOK
  <2>3. [d \in Challenges |-> StageOf(d)]'
            = [[d \in Challenges |-> StageOf(d)] EXCEPT ![c] = "approved"]
      BY <2>2
  <2>4. Abstract!Approve(c)
      BY <1>1, <2>2, <2>3 DEF Abstract!Approve, Abstract!Enter
  <2> QED BY <2>4 DEF AbstractStep, Abstract!Next
<1> QED BY <1>3, <1>4 DEF DeviceInv, TypeOK

LEMMA NextRefines == DeviceInv /\ DeviceInv' /\ [Next]_vars => AbstractStep
<1> SUFFICES ASSUME DeviceInv, DeviceInv', [Next]_vars PROVE AbstractStep
    OBVIOUS
<1> USE DEF DeviceInv
<1>1. ASSUME NEW c \in Challenges, TabGivesUp(c)
      PROVE  AbstractStep
  <2>1. UNCHANGED <<status, sessions, byToken, poll>> /\ tab[c] = "waiting"
        /\ tab' = [tab EXCEPT ![c] = "failed"]
      BY <1>1 DEF TabGivesUp, store
  <2> QED BY <2>1, ClosingStep DEF Open, TypeOK
<1>2. CASE SSHStartElsewhere \/ Tick \/ UNCHANGED vars
  <2>1. UNCHANGED <<status, sessions, poll, tab>> /\ byToken' \subseteq byToken
      BY <1>2 DEF SSHStartElsewhere, Remove, Tick, vars, store
  <2> QED BY <2>1, ClosingStep DEF Open
<1>3. ASSUME NEW p \in Polls, NEW c \in Challenges, SendPoll(p, c)
      PROVE  AbstractStep
  <2>1. /\ poll' = [poll EXCEPT ![p] = [at |-> "sent", for |-> c]]
        /\ UNCHANGED <<status, sessions, byToken, tab>>
      BY <1>3 DEF SendPoll, store
  <2>2. poll'[p].at = "sent" /\ \A q \in Polls : q # p => poll'[q] = poll[q]
      BY <2>1 DEF TypeOK
  <2> QED BY <2>1, <2>2, ClosingStep DEF Open
<1>4. ASSUME NEW p \in Polls, PollLooksUp(p) \/ PollChecks(p) \/ PollCreateFails(p) \/ PollConsumes(p)
      PROVE  AbstractStep
  <2>1. /\ UNCHANGED <<status, sessions, tab>> /\ byToken' \subseteq byToken
        /\ \E to \in PollSteps : poll' = [poll EXCEPT ![p].at = to]
      BY <1>4
      DEF PollLooksUp, PollChecks, PollCreateFails, PollConsumes, PollMoves, Consume, Remove, store,
          PollSteps
  <2>2. \A q \in Polls : poll'[q].for = poll[q].for /\ (q # p => poll'[q] = poll[q])
      BY <2>1 DEF TypeOK
  <2>3. poll'[p].at \in {"check", "create", "consume"} =>
            poll[p].for \in byToken \/ poll[p].at \in {"check", "create", "consume"}
      BY <1>4
      DEF PollLooksUp, PollChecks, PollCreateFails, PollConsumes, PollMoves, FindByPollToken, TypeOK
  <2> QED BY <2>1, <2>2, <2>3, ClosingStep DEF Open
<1>5. ASSUME NEW p \in Polls, PollReplies(p) \/ PollReplyLost(p)
      PROVE  AbstractStep
  <2>1. PICK c \in Challenges : c = poll[p].for
      BY <1>5 DEF PollReplies, PollReplyLost, FlowInv, RequestsAreAbout
  <2>2. /\ UNCHANGED <<status, sessions, byToken>> /\ poll' = [poll EXCEPT ![p] = Idle]
        /\ tab[c] # "none"
        /\ \E shown \in TabStates \ {"none"} : tab' = [tab EXCEPT ![c] = shown]
      BY <1>5, <2>1
      DEF PollReplies, PollReplyLost, TabAfter, store, FlowInv, UnissuedUnknown, TabStates, TypeOK
  <2>3. poll'[p].at = "idle" /\ \A q \in Polls : q # p => poll'[q] = poll[q]
      BY <2>2 DEF TypeOK, Idle
  <2>4. \A d \in Challenges : Open(d)' => Open(d)
      BY <2>2, <2>3 DEF Open
  <2>5. \A d \in Challenges : tab'[d] = "none" <=> tab[d] = "none"
      BY <2>2 DEF TypeOK
  <2> QED BY <2>2, <2>4, <2>5, ClosingStep
<1>6. ASSUME NEW k \in Clients, ~RespondApproves(k),
             ClientStep(k) \/ \E c \in Challenges : FetchDeviceInfo(k, c)
      PROVE  AbstractStep
  <2>1. UNCHANGED <<status, sessions, poll, tab>> /\ byToken' \subseteq byToken
      BY <1>6
      DEF ClientStep, FetchDeviceInfo, RespondLooksUp, RespondErrors, RespondAccepts, RespondRejects,
          RespondRegisters, RegisterAttempt, Remove, ClientExits, store
  <2> QED BY <2>1, ClosingStep DEF Open
<1>7. CASE Restart
  <2>1. /\ UNCHANGED <<status, sessions, tab>> /\ byToken' = {}
        /\ \A p \in Polls : poll'[p].at \notin {"check", "create", "consume"}
      BY <1>7 DEF Restart, TypeOK
  <2> QED BY <2>1, ClosingStep DEF Open
<1>8. CASE Next
    BY <1>1, <1>2, <1>3, <1>4, <1>5, <1>6, <1>7, <1>8, StartRefines, SessionRefines, ApprovalRefines
    DEF Next, PollStep, ClientStep
<1> QED BY <1>2, <1>8

(* The flow keeps the promises of DeviceLogin: a challenge is approved     *)
(* once, while it is open, and gives at most one session per poll that can *)
(* be in flight, and once closed it stays closed.                          *)
THEOREM FlowImplementsDeviceLogin == Spec => ImplementsDeviceLogin
BY InitAbstract, NextRefines, DeviceInvariance, PTL
DEF Spec, ImplementsDeviceLogin, Abstract!Spec, AbstractStep

=============================================================================
