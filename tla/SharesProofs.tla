---------------------------- MODULE SharesProofs ----------------------------
(***************************************************************************)
(* Proofs about share links, for any number of owners, links, browsers and *)
(* requests.  What is said of the ends of links is proved for lifetimes    *)
(* that fit in a time.Duration; everything else for any lifetimes.         *)
(***************************************************************************)
EXTENDS Shares, TLAPS

(* No lifetime is negative or overflows, and the Epoch is long past.       *)
LifetimesFit ==
    /\ StartTime >= TicksPerSecond
    /\ \A hours \in Hours : hours >= 0 /\ Duration(hours) = hours * HourTicks

(* A row ends no later than its owner asked.                               *)
EndsAsAsked(t, seen) ==
    LifetimesFit /\ asked[t].until # None => seen.expires > 0 /\ seen.expires <= asked[t].until

RowsAsAsked ==
    /\ \A t \in Tokens : row[t] # None =>
        /\ asked[t] # None
        /\ row[t].owner = asked[t].owner
        /\ EndsAsAsked(t, row[t])
    /\ \A t \in Tokens : asked[t] = None => t \notin revoked

(* The browsers hold the cookies they were given, under their names.       *)
JarsAsGiven ==
    \A c \in Clients, t \in Tokens :
        /\ jar[c][t] = IF gave[c][t] = None THEN None
                       ELSE [secret |-> gave[c][t], token |-> t]
        /\ gave[c][t] # None => gave[c][t] <= secret

(* A request that finds its share ended came in time or is refused.        *)
Late(t) == asked[t].until # None /\ now > asked[t].until

RequestJudged(r) ==
    /\ req[r].client \in Clients
    /\ req[r].token \in Tokens
    /\ asked[req[r].token] # None
    /\ req[r].seen \in Row
    /\ EndsAsAsked(req[r].token, req[r].seen)
    /\ req[r].told <=> shareUnlocked(r)
    /\ req[r].at = "read" => req[r].live \/ Late(req[r].token)
    /\ req[r].at \in {"open", "serve"} =>
        /\ LifetimesFit => req[r].live
        /\ req[r].op \in Content /\ req[r].seen.password => req[r].told
    /\ req[r].at = "password" => ~req[r].told

RequestsJudged == \A r \in Requests : req[r].at # "idle" => RequestJudged(r)

IInv ==
    /\ TypeOK
    /\ now >= StartTime
    /\ RowsAsAsked
    /\ RevokedByOwner
    /\ JarsAsGiven
    /\ RequestsJudged

-----------------------------------------------------------------------------
(* No step changes which lifetimes fit.                                    *)
LEMMA FitIsConstant == LifetimesFit' <=> LifetimesFit
BY DEF LifetimesFit, Duration

(* A multiple of the divisor leaves no remainder.                          *)
LEMMA MultipleHasNoRemainder ==
    ASSUME NEW s \in Nat \ {0}, NEW q \in Int
    PROVE  (s * q) % s = 0
<1> DEFINE k == (s * q) \div s
           r == (s * q) % s
<1>1. s \in Int /\ k \in Int /\ r \in 0 .. s - 1 /\ s * q = s * k + r
    OBVIOUS
<1> HIDE DEF k, r
<1>2. s * (q - k) = r
    BY <1>1
<1>3. CASE q - k >= 1
    <2>1. s * (q - k) >= s BY <1>3, <1>1
    <2> QED BY <2>1, <1>2, <1>1
<1>4. CASE q - k <= -1
    <2>1. s * (q - k) <= -s BY <1>4, <1>1
    <2> QED BY <2>1, <1>2, <1>1
<1>5. CASE q = k
    BY <1>5, <1>2, <1>1 DEF r
<1> QED BY <1>3, <1>4, <1>5, <1>1

(* Storing a time rounds it down, by less than a second.                   *)
LEMMA UnixRoundsDown ==
    ASSUME NEW t \in Int
    PROVE  Unix(t) \in Seconds /\ Unix(t) <= t /\ Unix(t) > t - TicksPerSecond
<1>1. /\ t \div TicksPerSecond \in Int
      /\ Unix(t) = TicksPerSecond * (t \div TicksPerSecond)
      /\ Unix(t) \in Int
      /\ Unix(t) <= t
      /\ Unix(t) > t - TicksPerSecond
    BY ClockAssumption DEF Unix
<1> QED BY <1>1, ClockAssumption, MultipleHasNoRemainder DEF Seconds

(* "Never" is a whole number of seconds.                                   *)
LEMMA NeverIsStorable == 0 \in Seconds
BY ClockAssumption, MultipleHasNoRemainder, 0 \in Int, TicksPerSecond * 0 = 0 DEF Seconds

-----------------------------------------------------------------------------
(* The start: no shares, no cookies, no requests.                          *)
LEMMA InitIInv == Init => IInv
<1> SUFFICES ASSUME Init PROVE IInv
    OBVIOUS
<1>1. 0 \in Secrets
    BY ClockAssumption DEF Secrets
<1>2. TypeOK
    BY <1>1, ClockAssumption DEF Init, TypeOK, Request, Free
<1> QED
    BY <1>2, ClockAssumption
    DEF Init, IInv, RowsAsAsked, RevokedByOwner, JarsAsGiven, RequestsJudged, Free

(* A new row ends as its owner asked; nobody refers to it yet.             *)
LEMMA InsertKeepsIInv ==
    ASSUME IInv,
           NEW u \in Users, NEW t \in Tokens, NEW mode \in Modes, NEW password \in BOOLEAN,
           NEW hours \in Hours, NEW expires \in Seconds,
           LifetimesFit /\ hours # 0 => expires > 0 /\ expires <= now + hours * HourTicks,
           Insert(u, t, mode, password, expires, hours)
    PROVE  IInv'
<1> DEFINE new == [owner |-> u, mode |-> mode, password |-> password, expires |-> expires]
           wish == [owner |-> u, until |-> IF hours = 0 THEN None ELSE now + hours * HourTicks]
<1>1. new \in Row /\ new # None /\ new.owner = u /\ new.expires = expires
    BY NoneAssumption DEF Row
<1>2. hours \in Int /\ now \in Int /\ hours * HourTicks \in Int
    BY HoursAssumption DEF IInv, TypeOK
<1>3. wish \in Asked /\ wish # None /\ wish.owner = u
    BY <1>2, NoneAssumption DEF Asked
<1>4. wish.until # None => hours # 0 /\ wish.until = now + hours * HourTicks
    OBVIOUS
<1>5. /\ row' = [row EXCEPT ![t] = new]
      /\ asked' = [asked EXCEPT ![t] = wish]
      /\ asked[t] = None
      /\ UNCHANGED <<now, enabled, secret, jar, req, revoked, gave>>
    BY DEF Insert
<1> HIDE DEF new, wish
<1>6. TypeOK'
    BY <1>1, <1>3, <1>5 DEF IInv, TypeOK
<1>7. RowsAsAsked' /\ RevokedByOwner'
    BY <1>1, <1>3, <1>4, <1>5, FitIsConstant
    DEF IInv, TypeOK, RowsAsAsked, RevokedByOwner, EndsAsAsked
<1>8. JarsAsGiven'
    BY <1>5 DEF IInv, JarsAsGiven
<1>9. RequestsJudged'
    BY <1>5, FitIsConstant
    DEF IInv, TypeOK, RequestsJudged, RequestJudged, EndsAsAsked, Late,
       shareUnlocked, MAC
<1> QED BY <1>5, <1>6, <1>7, <1>8, <1>9 DEF IInv

LEMMA CreateKeepsIInv ==
    ASSUME IInv,
           NEW u \in Users, NEW t \in Tokens, NEW mode \in Modes, NEW password \in BOOLEAN,
           NEW hours \in Hours,
           \/ CreateShare(u, t, mode, password, hours)
           \/ CommandLineShare(u, t, mode, password, hours)
    PROVE  IInv'
<1> DEFINE end == Unix(now + Duration(hours))
           expires == IF CreateShare(u, t, mode, password, hours)
                      THEN IF hours > 0 THEN end ELSE 0
                      ELSE IF hours # 0 THEN end ELSE 0
<1>1. /\ hours \in Int /\ now \in Int /\ TicksPerSecond \in Int
      /\ hours * HourTicks \in Int /\ Duration(hours) \in Int
    <2>1. /\ hours \in Int /\ HourTicks \in Int /\ DurationBound \in Nat \ {0}
          /\ hours * HourTicks \in Int
        BY HoursAssumption, ClockAssumption
    <2>2. Duration(hours) \in Int
        <3> DEFINE word == hours * HourTicks + DurationBound
                   size == 2 * DurationBound
        <3>1. word \in Int /\ size \in Nat \ {0}
            BY <2>1
        <3> HIDE DEF word, size
        <3>2. word % size \in Int
            BY <3>1
        <3> QED BY <2>1, <3>2 DEF Duration, word, size
    <2> QED BY <2>1, <2>2, ClockAssumption DEF IInv, TypeOK
<1>2. end \in Seconds
    BY <1>1, UnixRoundsDown
<1>3. LifetimesFit => hours >= 0 /\ end <= now + hours * HourTicks /\ end > 0
    <2> SUFFICES ASSUME LifetimesFit
                 PROVE  hours >= 0 /\ end <= now + hours * HourTicks /\ end > 0
        OBVIOUS
    <2>1. /\ hours >= 0 /\ now >= TicksPerSecond
          /\ Duration(hours) = hours * HourTicks
          /\ hours * HourTicks >= 0
        BY HoursAssumption, ClockAssumption, <1>1 DEF LifetimesFit, IInv
    <2>2. /\ end \in Seconds
          /\ end <= now + hours * HourTicks
          /\ end > now + hours * HourTicks - TicksPerSecond
        BY <1>1, <2>1, UnixRoundsDown
    <2> HIDE DEF end
    <2> QED BY <1>1, <2>1, <2>2 DEF Seconds
<1> HIDE DEF end
<1>4. /\ expires \in Seconds
      /\ LifetimesFit /\ hours # 0 => expires > 0 /\ expires <= now + hours * HourTicks
    BY <1>1, <1>2, <1>3, NeverIsStorable
<1>5. Insert(u, t, mode, password, expires, hours)
    BY DEF CreateShare, CommandLineShare, end
<1> HIDE DEF expires
<1> QED BY <1>4, <1>5, InsertKeepsIInv

(* Requests keep the copy they read of a revoked row.                      *)
LEMMA RevokeKeepsIInv ==
    ASSUME IInv, NEW u \in Users, NEW t \in Tokens, RevokeShare(u, t)
    PROVE  IInv'
<1>1. TypeOK'
    BY DEF RevokeShare, DeleteShare, IInv, TypeOK
<1>2. RowsAsAsked' /\ RevokedByOwner'
    BY FitIsConstant
    DEF RevokeShare, DeleteShare, IInv, TypeOK, RowsAsAsked, RevokedByOwner, EndsAsAsked
<1> QED
    BY <1>1, <1>2, FitIsConstant DEF RevokeShare, IInv, JarsAsGiven, RequestsJudged, RequestJudged,
       EndsAsAsked, Late, shareUnlocked, MAC

-----------------------------------------------------------------------------
(* A step of one request that leaves everything else alone.                *)
LEMMA RequestStepKeepsIInv ==
    ASSUME IInv, NEW r \in Requests, NEW new \in Request,
           req' = [req EXCEPT ![r] = new],
           UNCHANGED <<now, enabled, row, secret, jar, histories>>,
           new.at # "idle" => RequestJudged(r)'
    PROVE  IInv'
<1>1. \A q \in Requests \ {r} : req'[q] = req[q]
    BY DEF IInv, TypeOK
<1>2. req'[r] = new
    BY DEF IInv, TypeOK
<1>3. TypeOK' /\ RowsAsAsked' /\ RevokedByOwner' /\ JarsAsGiven' /\ now' >= StartTime
    BY FitIsConstant
    DEF histories, IInv, TypeOK, RowsAsAsked, RevokedByOwner, JarsAsGiven, EndsAsAsked
<1>4. \A q \in Requests \ {r} : req[q].at # "idle" => RequestJudged(q)'
    BY <1>1, FitIsConstant
    DEF histories, IInv, RequestsJudged, RequestJudged, EndsAsAsked, Late,
       shareUnlocked, MAC
<1>5. RequestsJudged'
    BY <1>1, <1>2, <1>4 DEF RequestsJudged
<1> QED BY <1>3, <1>5 DEF IInv

(* What a request brings: a copy of a live or ended row, and its cookie,   *)
(* which is good exactly if this server gave it one.                       *)
LEMMA GetShareKeepsIInv ==
    ASSUME IInv, NEW r \in Requests, NEW c \in Clients, NEW t \in Tokens,
           NEW op \in Operations, NEW right \in BOOLEAN, GetShare(r, c, t, op, right)
    PROVE  IInv'
<1> DEFINE new == [at |-> "read", client |-> c, token |-> t, op |-> op, right |-> right,
                   seen |-> row[t], cookie |-> jar[c][CookieName(t)],
                   live |-> Live(t), told |-> gave[c][t] = secret]
<1>1. row[t] \in Row /\ jar[c][t] \in MACs \union {None} /\ Live(t) \in BOOLEAN
    BY DEF GetShare, IInv, TypeOK, Live
<1>2. new \in Request
    BY <1>1 DEF Request, CookieName
<1>3. /\ req' = [req EXCEPT ![r] = new]
      /\ UNCHANGED <<now, enabled, row, secret, jar, histories>>
    BY DEF GetShare
<1>4. req'[r] = new
    BY <1>3 DEF IInv, TypeOK
<1>5. (gave[c][t] = secret) <=> (jar[c][t] = MAC(t))
    <2>1. /\ secret \in Secrets /\ gave[c][t] \in Secrets \union {None}
          /\ jar[c][t] = IF gave[c][t] = None THEN None
                         ELSE [secret |-> gave[c][t], token |-> t]
        BY DEF IInv, TypeOK, JarsAsGiven
    <2>2. secret # None /\ MAC(t) # None
        BY <2>1, NoneAssumption, MAC(t) \in MACs DEF MAC, MACs, Secrets
    <2>3. CASE gave[c][t] = None
        BY <2>1, <2>2, <2>3
    <2>4. CASE gave[c][t] # None
        <3>1. jar[c][t].secret = gave[c][t] /\ MAC(t).secret = secret
            BY <2>1, <2>4 DEF MAC
        <3> QED BY <2>1, <2>4, <3>1 DEF MAC
    <2> QED BY <2>3, <2>4
<1>6. new.live \/ Late(t)
    <2>1. asked[t] # None /\ (asked[t].until # None => asked[t].until \in Int)
        BY DEF GetShare, IInv, TypeOK, RowsAsAsked, Asked
    <2> QED BY <2>1 DEF GetShare, Live, Late, IInv, TypeOK
<1>7. RequestJudged(r)'
    <2>1. /\ new.client = c /\ new.token = t /\ new.seen = row[t] /\ new.at = "read"
          /\ new.cookie = jar[c][t] /\ new.told = (gave[c][t] = secret)
        BY DEF CookieName
    <2> HIDE DEF new
    <2>2. asked[t] # None /\ EndsAsAsked(t, row[t])
        BY DEF GetShare, IInv, RowsAsAsked
    <2>3. (new.told <=> new.cookie = MAC(t))
        BY <2>1, <1>5
    <2> QED
        BY <1>1, <1>3, <1>4, <1>6, <2>1, <2>2, <2>3, FitIsConstant
        DEF RequestJudged, histories, EndsAsAsked, Late, shareUnlocked, MAC
<1> QED BY <1>2, <1>3, <1>7, RequestStepKeepsIInv

(* An answer that moves a request on and changes nothing else about it.    *)
LEMMA MoveKeepsIInv ==
    ASSUME IInv, NEW r \in Requests, req[r].at # "idle",
           NEW step \in {"open", "serve", "password", "unlocked"},
           req' = [req EXCEPT ![r] = [@ EXCEPT !.at = step]],
           UNCHANGED <<now, enabled, row, secret, jar, histories>>,
           step \in {"open", "serve"} =>
               /\ LifetimesFit => req[r].live
               /\ req[r].op \in Content /\ req[r].seen.password => req[r].told,
           step = "password" => ~req[r].told
    PROVE  IInv'
<1> DEFINE new == [req[r] EXCEPT !.at = step]
<1>1. req[r] \in Request /\ RequestJudged(r)
    BY DEF IInv, TypeOK, RequestsJudged
<1>2. new \in Request
    BY <1>1 DEF Request
<1>3. req' = [req EXCEPT ![r] = new] /\ req'[r] = new
    BY DEF IInv, TypeOK
<1>4. /\ new.at = step /\ new.client = req[r].client /\ new.token = req[r].token
      /\ new.seen = req[r].seen /\ new.told = req[r].told /\ new.live = req[r].live
      /\ new.op = req[r].op /\ new.cookie = req[r].cookie
    BY <1>1 DEF Request
<1> HIDE DEF new
<1>5. RequestJudged(r)'
    BY <1>1, <1>3, <1>4, FitIsConstant
    DEF RequestJudged, histories, EndsAsAsked, Late, shareUnlocked, MAC
<1> QED BY <1>2, <1>3, <1>5, RequestStepKeepsIInv

(* An answer that ends a request.                                          *)
LEMMA EndKeepsIInv ==
    ASSUME IInv, NEW r \in Requests, req' = [req EXCEPT ![r] = Free],
           UNCHANGED <<now, enabled, row, secret, jar, histories>>
    PROVE  IInv'
<1>1. Free \in Request /\ Free.at = "idle"
    BY DEF Free, Request
<1> QED BY <1>1, RequestStepKeepsIInv

(* A judged row that has not ended was live when the request came.         *)
LEMMA JudgedInTime ==
    ASSUME IInv, LifetimesFit, NEW r \in Requests, req[r].at = "read", ~Expired(req[r].seen)
    PROVE  req[r].live
<1>1. RequestJudged(r) /\ req[r].at = "read"
    BY DEF IInv, RequestsJudged
<1>2. now \in Int /\ req[r].seen.expires \in Int
    BY <1>1 DEF IInv, TypeOK, RequestJudged, Row, Seconds
<1>3. asked[req[r].token].until # None => asked[req[r].token].until \in Int
    BY <1>1 DEF IInv, TypeOK, RequestJudged, Asked
<1> QED BY <1>1, <1>2, <1>3 DEF RequestJudged, EndsAsAsked, Late, Expired

LEMMA AnswerKeepsIInv ==
    ASSUME IInv, NEW r \in Requests,
           \/ Refuse(r) \/ Admit(r) \/ AskPassword(r) \/ ShareUnlock(r)
           \/ Open(r) \/ Answered(r)
    PROVE  IInv'
<1>1. CASE Refuse(r)
    <2>1. /\ req' = [req EXCEPT ![r] = Free]
          /\ UNCHANGED <<now, enabled, row, secret, jar, histories>>
        BY <1>1 DEF Refuse, AnswerAt
    <2> QED BY <2>1, EndKeepsIInv
<1>2. CASE Admit(r)
    <2>1. /\ req[r].at = "read" /\ req' = [req EXCEPT ![r] = [@ EXCEPT !.at = "open"]]
          /\ UNCHANGED <<now, enabled, row, secret, jar, histories>>
        BY <1>2 DEF Admit, AnswerAt
    <2>2. LifetimesFit => req[r].live
        BY <1>2, <2>1, JudgedInTime DEF Admit
    <2>3. req[r].op \in Content /\ req[r].seen.password => req[r].told
        BY <1>2, <2>1 DEF Admit, Locked, IInv, RequestsJudged, RequestJudged
    <2> QED BY <2>1, <2>2, <2>3, MoveKeepsIInv
<1>3. CASE AskPassword(r)
    <2>1. /\ req[r].at = "read" /\ req' = [req EXCEPT ![r] = [@ EXCEPT !.at = "password"]]
          /\ UNCHANGED <<now, enabled, row, secret, jar, histories>>
        BY <1>3 DEF AskPassword, AnswerAt
    <2>2. ~req[r].told
        BY <1>3, <2>1 DEF AskPassword, Locked, IInv, RequestsJudged, RequestJudged
    <2> QED BY <2>1, <2>2, MoveKeepsIInv
<1>4. CASE ShareUnlock(r)
    <2>1. req[r].at = "read" /\ UNCHANGED <<now, enabled, row, secret, jar, histories>>
        BY <1>4 DEF ShareUnlock, AnswerAt
    <2>2. CASE req' = [req EXCEPT ![r] = Free]
        BY <2>1, <2>2, EndKeepsIInv
    <2>3. CASE req' = [req EXCEPT ![r] = [@ EXCEPT !.at = "unlocked"]]
        BY <2>1, <2>3, MoveKeepsIInv
    <2> QED BY <1>4, <2>2, <2>3 DEF ShareUnlock, AnswerAt
<1>5. CASE Open(r)
    <2>1. req[r].at = "open" /\ UNCHANGED <<now, enabled, row, secret, jar, histories>>
        BY <1>5 DEF Open
    <2>2. CASE req' = [req EXCEPT ![r] = Free]
        BY <2>1, <2>2, EndKeepsIInv
    <2>3. CASE req' = [req EXCEPT ![r] = [req[r] EXCEPT !.at = "serve"]]
        <3>1. /\ LifetimesFit => req[r].live
              /\ req[r].op \in Content /\ req[r].seen.password => req[r].told
            BY <2>1 DEF IInv, RequestsJudged, RequestJudged
        <3> QED BY <2>1, <2>3, <3>1, MoveKeepsIInv DEF IInv, TypeOK
    <2> QED BY <1>5, <2>2, <2>3 DEF Open
<1>6. CASE Answered(r)
    BY <1>6, EndKeepsIInv DEF Answered
<1> QED BY <1>1, <1>2, <1>3, <1>4, <1>5, <1>6

(* The cookie goes where its name says, and is good until a restart.       *)
LEMMA CookieKeepsIInv ==
    ASSUME IInv, NEW r \in Requests, CookieArrives(r)
    PROVE  IInv'
<1>1. PICK c \in Clients, t \in Tokens : c = req[r].client /\ t = req[r].token
    BY DEF CookieArrives, IInv, RequestsJudged, RequestJudged
<1>2. /\ jar' = [jar EXCEPT ![c][t] = [secret |-> secret, token |-> t]]
      /\ gave' = [gave EXCEPT ![c][t] = secret]
      /\ req' = [req EXCEPT ![r] = Free]
      /\ UNCHANGED <<now, enabled, row, secret, asked, revoked>>
    BY <1>1 DEF CookieArrives, CookieName, MAC
<1>3. [secret |-> secret, token |-> t] \in MACs /\ Free \in Request /\ Free.at = "idle"
    BY DEF IInv, TypeOK, MACs, Free, Request
<1>4. TypeOK'
    BY <1>2, <1>3 DEF IInv, TypeOK
<1>5. secret \in Int /\ secret # None
    BY NoneAssumption, ClockAssumption DEF IInv, TypeOK, Secrets
<1>6. \A d \in Clients, v \in Tokens :
        /\ jar'[d][v] = IF d = c /\ v = t THEN [secret |-> secret, token |-> t] ELSE jar[d][v]
        /\ gave'[d][v] = IF d = c /\ v = t THEN secret ELSE gave[d][v]
    BY <1>2 DEF IInv, TypeOK
<1>7. JarsAsGiven'
    BY <1>2, <1>5, <1>6 DEF IInv, JarsAsGiven
<1>8. RowsAsAsked' /\ RevokedByOwner' /\ now' >= StartTime
    BY <1>2, FitIsConstant DEF IInv, RowsAsAsked, RevokedByOwner, EndsAsAsked
<1>9. RequestsJudged'
    BY <1>2, <1>3, FitIsConstant
    DEF IInv, TypeOK, RequestsJudged, RequestJudged, EndsAsAsked, Late,
       shareUnlocked, MAC
<1> QED BY <1>4, <1>7, <1>8, <1>9 DEF IInv

-----------------------------------------------------------------------------
(* The clock makes requests late, a restart makes cookies old.             *)
LEMMA TickKeepsIInv == ASSUME IInv, Tick PROVE IInv'
<1>1. now \in Nat /\ now' = now + 1 /\ now' \in Nat /\ now' >= StartTime
    BY ClockAssumption DEF Tick, IInv, TypeOK
<1>2. TypeOK' /\ RowsAsAsked' /\ RevokedByOwner' /\ JarsAsGiven'
    BY <1>1, FitIsConstant
    DEF Tick, histories, IInv, TypeOK, RowsAsAsked, RevokedByOwner, JarsAsGiven, EndsAsAsked
<1>3. \A t \in Tokens : asked[t] # None /\ Late(t) => Late(t)'
    BY <1>1 DEF Tick, histories, IInv, TypeOK, Asked, Late
<1>4. RequestsJudged'
    BY <1>3, FitIsConstant DEF Tick, histories, IInv, RequestsJudged, RequestJudged, EndsAsAsked,
       shareUnlocked, MAC
<1> QED BY <1>1, <1>2, <1>4 DEF IInv

LEMMA RestartKeepsIInv == ASSUME IInv, Restart PROVE IInv'
<1>1. /\ secret \in Int /\ secret' = secret + 1 /\ secret' \in Secrets
      /\ \A c \in Clients, t \in Tokens : gave[c][t] # None => gave[c][t] \in Int
    BY ClockAssumption DEF Restart, IInv, TypeOK, Secrets
<1>2. TypeOK'
    <2>1. Free \in Request
        BY DEF Free, Request
    <2> QED BY <1>1, <2>1 DEF Restart, histories, IInv, TypeOK
<1>3. JarsAsGiven'
    BY <1>1 DEF Restart, histories, IInv, JarsAsGiven
<1>4. RequestsJudged'
    BY DEF Restart, Free, RequestsJudged
<1> QED
    BY <1>2, <1>3, <1>4, FitIsConstant
    DEF Restart, histories, IInv, RowsAsAsked, RevokedByOwner, EndsAsAsked

LEMMA StutterKeepsIInv == ASSUME IInv, UNCHANGED vars PROVE IInv'
BY FitIsConstant
DEF vars, IInv, TypeOK, RowsAsAsked, RevokedByOwner, JarsAsGiven, RequestsJudged,
   RequestJudged, EndsAsAsked, Late, shareUnlocked, MAC

LEMMA NextKeepsIInv == IInv /\ [Next]_vars => IInv'
BY CreateKeepsIInv, RevokeKeepsIInv, GetShareKeepsIInv, AnswerKeepsIInv, CookieKeepsIInv,
   TickKeepsIInv, RestartKeepsIInv, StutterKeepsIInv
DEF Next

(* The inductive invariant holds in every reachable state.                 *)
THEOREM Invariance == Spec => []IInv
BY InitIInv, NextKeepsIInv, PTL DEF Spec

-----------------------------------------------------------------------------
(* Results.                                                                *)

(* Every variable keeps its type.                                          *)
THEOREM TypeCorrect == Spec => []TypeOK
<1>1. IInv => TypeOK BY DEF IInv
<1> QED BY Invariance, <1>1, PTL

(* Nothing is served to a request that came after the end of the lifetime  *)
(* or after the revocation, if the lifetimes asked for fit; the run with   *)
(* one that does not has a link that never ends.                           *)
THEOREM EndsAreKept == LifetimesFit /\ Spec => []ServedOnlyWhileShared
<1>1. LifetimesFit /\ IInv => ServedOnlyWhileShared
    BY DEF IInv, RequestsJudged, RequestJudged, ServedOnlyWhileShared
<1>2. LifetimesFit => LifetimesFit'
    BY FitIsConstant
<1> QED BY Invariance, <1>1, <1>2, PTL DEF Spec

(* Behind a password a request is served content only with a cookie that   *)
(* this server has set for this share, whatever the link's lifetime.       *)
THEOREM PasswordsGate == Spec => []PasswordGate
<1>1. IInv => PasswordGate
    BY DEF IInv, RequestsJudged, RequestJudged, PasswordGate
<1> QED BY Invariance, <1>1, PTL

(* The password is asked only of those this server has not told that       *)
(* theirs is right: no unlocking of other shares undoes that of this one.  *)
THEOREM PasswordsAreAskedOnce == Spec => []PasswordAskedOnce
<1>1. IInv => PasswordAskedOnce
    BY DEF IInv, RequestsJudged, RequestJudged, PasswordAskedOnce
<1> QED BY Invariance, <1>1, PTL

(* A share is gone if and only if its owner revoked it.                    *)
THEOREM OwnersRevoke == Spec => []RevokedByOwner
<1>1. IInv => RevokedByOwner BY DEF IInv
<1> QED BY Invariance, <1>1, PTL

=============================================================================
