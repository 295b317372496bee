------------------------- MODULE LoginLimiterProofs -------------------------
(***************************************************************************)
(* Proofs about the limit on password logins, for any finite number of     *)
(* logins at a time, any limit and any resolution of the clock.            *)
(***************************************************************************)
EXTENDS LoginLimiter, FiniteSetTheorems, TLAPS

(* The rows are numbered and carry the second they were written in.        *)
TableInv ==
    /\ IsFiniteSet(attempts)
    /\ \A a \in attempts : a.id <= Cardinality(attempts) /\ a.ts = Unix(a.time)

LimiterInv == TypeOK /\ TableInv /\ FailuresBounded /\ RefusedForCause

-----------------------------------------------------------------------------
(* Arithmetic of the clock, which counts from before 0: the first minute   *)
(* looks back to negative times.                                           *)

LEMMA Division ==
    ASSUME NEW s \in Nat \ {0}, NEW t \in Int
    PROVE  t \div s \in Int /\ t % s \in 0 .. s - 1 /\ t = s * (t \div s) + (t % s)
OBVIOUS

LEMMA QuotientsAreOrdered ==
    ASSUME NEW s \in Nat \ {0}, NEW p \in Int, NEW q \in Int,
           NEW a \in 0 .. s - 1, NEW b \in 0 .. s - 1,
           s * p + a <= s * q + b
    PROVE  s * p <= s * q
<1> SUFFICES ASSUME p >= q + 1 PROVE FALSE
    <2> DEFINE d == q - p
    <2>1. d \in Int /\ s * d = s * q - s * p /\ s * p \in Int /\ s * q \in Int
        OBVIOUS
    <2> HIDE DEF d
    <2>2. CASE d >= 0
        <3>1. s * d >= 0
            BY <2>1, <2>2
        <3> DEFINE x == s * p
                   y == s * q
                   z == s * d
        <3>2. x \in Int /\ y \in Int /\ z = y - x /\ z >= 0
            BY <2>1, <3>1
        <3> HIDE DEF x, y, z
        <3>3. x <= y
            BY <3>2
        <3> QED BY <3>3 DEF x, y
    <2>3. CASE ~(d >= 0)
        BY <2>1, <2>3 DEF d
    <2> QED BY <2>2, <2>3
<1> DEFINE d == p - q
<1>1. d \in Int /\ d >= 1 /\ s * d = s * p - s * q /\ s * p \in Int /\ s * q \in Int
    OBVIOUS
<1> HIDE DEF d
<1>2. s * d >= s
    BY <1>1
<1> DEFINE x == s * p
           y == s * q
           z == s * d
<1>3. x \in Int /\ y \in Int /\ z = x - y /\ z >= s /\ x + a <= y + b
    BY <1>1, <1>2
<1> HIDE DEF x, y, z
<1> QED BY <1>3

LEMMA ProductLeavesNoRemainder ==
    ASSUME NEW s \in Nat \ {0}, NEW q \in Int
    PROVE  (s * q) % s = 0
<1> DEFINE k == (s * q) \div s
           r == (s * q) % s
<1>1. s * q \in Int
    OBVIOUS
<1>2. k \in Int /\ r \in 0 .. s - 1 /\ s * q = s * k + r
    BY <1>1, Division
<1> HIDE DEF k, r
<1>3. s * (q - k) = r
    BY <1>2
<1>4. CASE q - k >= 1
    <2>1. s * (q - k) >= s BY <1>4, <1>2
    <2> QED BY <2>1, <1>3, <1>2
<1>5. CASE q - k <= -1
    <2>1. s * (q - k) <= -s BY <1>5, <1>2
    <2> QED BY <2>1, <1>3, <1>2
<1>6. CASE q = k
    BY <1>6, <1>3, <1>2 DEF r
<1> QED BY <1>4, <1>5, <1>6, <1>2

(* Unix rounds down to a whole second and keeps the order of times.        *)
LEMMA UnixRoundsDown ==
    ASSUME NEW t \in Int
    PROVE  Unix(t) \in Seconds /\ Unix(t) \in Int /\ Unix(t) <= t /\ t - TicksPerSecond < Unix(t)
<1> DEFINE s == TicksPerSecond
           p == t \div s
           a == t % s
<1>1. s \in Nat \ {0}
    BY ClockAssumption
<1> HIDE DEF s
<1>2. p \in Int /\ a \in 0 .. s - 1 /\ t = s * p + a
    BY <1>1, Division
<1> HIDE DEF p, a
<1>3. (s * p) % s = 0
    BY <1>1, <1>2, ProductLeavesNoRemainder
<1>4. Unix(t) = t - a
    BY DEF Unix, a, s
<1>5. s * p \in Int /\ t - a = s * p
    <2> DEFINE x == s * p
    <2>1. x \in Int /\ t = x + a
        BY <1>1, <1>2
    <2> HIDE DEF x
    <2>2. t - a = x
        BY <1>2, <2>1
    <2> QED BY <2>1, <2>2 DEF x
<1>6. t - a \in Int /\ t - a <= t /\ t - s < t - a
    BY <1>1, <1>2
<1> QED BY <1>3, <1>4, <1>5, <1>6 DEF Seconds, s

LEMMA UnixIsMonotonic ==
    ASSUME NEW t \in Int, NEW u \in Int, t <= u
    PROVE  Unix(t) <= Unix(u)
<1> DEFINE s == TicksPerSecond
           p == t \div s
           q == u \div s
           a == t % s
           b == u % s
<1>1. s \in Nat \ {0}
    BY ClockAssumption
<1> HIDE DEF s
<1>2. p \in Int /\ a \in 0 .. s - 1 /\ t = s * p + a
    BY <1>1, Division
<1>3. q \in Int /\ b \in 0 .. s - 1 /\ u = s * q + b
    BY <1>1, Division
<1>4. Unix(t) = t - a /\ Unix(u) = u - b
    BY DEF Unix, a, b, s
<1> HIDE DEF p, q, a, b
<1>5. s * p + a <= s * q + b
    BY <1>2, <1>3
<1>6. s * p <= s * q
    BY <1>1, <1>2, <1>3, <1>5, QuotientsAreOrdered
<1> DEFINE x == s * p
           y == s * q
<1>7. x \in Int /\ y \in Int /\ t = x + a /\ u = y + b /\ x <= y
    BY <1>1, <1>2, <1>3, <1>6
<1> HIDE DEF x, y
<1>8. t - a = x /\ u - b = y
    BY <1>2, <1>3, <1>7
<1> QED BY <1>4, <1>7, <1>8
-----------------------------------------------------------------------------
(* The sets that are counted.                                              *)

RecentFailures == {a \in attempts : a.ts >= Unix(now - Minute) /\ ~a.success}

(* The failures among the rows that justify a refusal at a time.           *)
Cause(rows, time) == {a \in rows : ~a.success /\ a.time > time - Minute - TicksPerSecond}

LEMMA NumbersAreNumbers ==
    /\ Minute \in Nat /\ TicksPerSecond \in Nat \ {0} /\ maxLoginAttemptsPerMinute \in Nat \ {0}
    /\ Cardinality(Logins) \in Nat
    /\ TypeOK => now \in Nat /\ now - Minute \in Int /\ Unix(now - Minute) \in Int
<1>1. /\ Minute \in Nat /\ TicksPerSecond \in Nat \ {0}
      /\ maxLoginAttemptsPerMinute \in Nat \ {0}
    BY ClockAssumption, LimitAssumption
<1>2. Cardinality(Logins) \in Nat
    BY LoginsAssumption, FS_CardinalityType
<1>3. TypeOK => now \in Nat /\ now - Minute \in Int
    BY <1>1 DEF TypeOK
<1> QED BY <1>1, <1>2, <1>3, UnixRoundsDown

LEMMA AttemptsAreTyped ==
    ASSUME TypeOK, NEW a \in attempts
    PROVE  /\ a \in Attempt /\ a.id \in 1 .. MaxAttempts /\ a.ts \in Int /\ a.success \in BOOLEAN
           /\ a.time \in Nat /\ a.uncounted \in BOOLEAN
BY DEF TypeOK, Attempt, Seconds

LEMMA CountsAreNumbers ==
    ASSUME LimiterInv
    PROVE  /\ IsFiniteSet(CountedFailures) /\ Cardinality(CountedFailures) \in Nat
           /\ IsFiniteSet(UnderWay) /\ Cardinality(UnderWay) \in Nat
           /\ Cardinality(UnderWay) <= Cardinality(Logins)
           /\ IsFiniteSet(RecentFailures) /\ Cardinality(RecentFailures) \in Nat
           /\ Cardinality(CountedFailures) <= Cardinality(RecentFailures)
<1>1. IsFiniteSet(attempts)
    BY DEF LimiterInv, TableInv
<1>2. CountedFailures \in SUBSET attempts /\ RecentFailures \in SUBSET attempts
    BY DEF CountedFailures, RecentFailures
<1>3. UnderWay \in SUBSET Logins
    BY DEF UnderWay
<1>4. CountedFailures \in SUBSET RecentFailures
    <2> SUFFICES ASSUME NEW a \in CountedFailures PROVE a \in RecentFailures
        OBVIOUS
    <2>1. a \in attempts /\ a.time >= now - Minute /\ ~a.success
        BY DEF CountedFailures
    <2>2. a.ts = Unix(a.time) /\ a.time \in Int /\ now - Minute \in Int
        BY <2>1, AttemptsAreTyped, NumbersAreNumbers DEF LimiterInv, TableInv
    <2>3. Unix(now - Minute) <= Unix(a.time)
        BY <2>1, <2>2, UnixIsMonotonic
    <2>4. Unix(now - Minute) \in Int /\ Unix(a.time) \in Int
        BY <2>2, UnixRoundsDown
    <2>5. a.ts >= Unix(now - Minute)
        BY <2>2, <2>3, <2>4
    <2> QED BY <2>1, <2>5 DEF RecentFailures
<1>5. IsFiniteSet(CountedFailures) /\ IsFiniteSet(RecentFailures) /\ IsFiniteSet(UnderWay)
    BY <1>1, <1>2, <1>3, LoginsAssumption, FS_Subset
<1>6. Cardinality(UnderWay) <= Cardinality(Logins)
    BY <1>3, LoginsAssumption, FS_Subset
<1>7. Cardinality(CountedFailures) <= Cardinality(RecentFailures)
    BY <1>4, <1>5, FS_Subset
<1> QED BY <1>5, <1>6, <1>7, FS_CardinalityType

(* What the count before PAM counts was written less than a minute and a   *)
(* second ago.                                                             *)
LEMMA RecentFailuresAreCause ==
    ASSUME LimiterInv
    PROVE  Cardinality(RecentFailures) <= Cardinality(Cause(attempts, now))
<1>1. IsFiniteSet(attempts) /\ Cause(attempts, now) \in SUBSET attempts
    BY DEF LimiterInv, TableInv, Cause
<1>2. RecentFailures \in SUBSET Cause(attempts, now)
    <2> SUFFICES ASSUME NEW a \in RecentFailures PROVE a \in Cause(attempts, now)
        OBVIOUS
    <2>1. a \in attempts /\ a.ts >= Unix(now - Minute) /\ ~a.success
        BY DEF RecentFailures
    <2>2. a.ts = Unix(a.time) /\ a.time \in Int /\ a.ts \in Int
        BY <2>1, AttemptsAreTyped DEF LimiterInv, TableInv
    <2>3. a.ts <= a.time
        BY <2>2, UnixRoundsDown
    <2> DEFINE since == now - Minute
    <2>4. since \in Int /\ TicksPerSecond \in Int
        BY NumbersAreNumbers DEF LimiterInv
    <2> HIDE DEF since
    <2>5. since - TicksPerSecond < Unix(since) /\ Unix(since) \in Int
        BY <2>4, UnixRoundsDown
    <2>6. a.time > since - TicksPerSecond
        BY <2>1, <2>2, <2>3, <2>4, <2>5 DEF since
    <2> QED BY <2>1, <2>6 DEF Cause, since
<1> QED BY <1>1, <1>2, FS_Subset

-----------------------------------------------------------------------------
(* The invariant.                                                          *)

LEMMA InitLimiterInv == Init => LimiterInv
<1> SUFFICES ASSUME Init PROVE LimiterInv
    OBVIOUS
<1>1. Cardinality(attempts) = 0 /\ IsFiniteSet(attempts) /\ attempts = {}
    BY FS_EmptySet DEF Init
<1>2. TypeOK
    BY <1>1, LimitAssumption DEF Init, TypeOK, Login, Free
<1>3. TableInv
    BY <1>1 DEF TableInv
<1>4. CountedFailures = {} /\ UnderWay = {}
    BY <1>1 DEF Init, CountedFailures, UnderWay, Free
<1>5. FailuresBounded
    BY <1>4, FS_EmptySet, NumbersAreNumbers DEF FailuresBounded
<1>6. RefusedForCause
    BY DEF Init, RefusedForCause, Free
<1> QED BY <1>2, <1>3, <1>5, <1>6 DEF LimiterInv

(* Fewer logins under way and no new failure keep the bound.               *)
LEMMA FewerKeepBound ==
    ASSUME LimiterInv, CountedFailures' \subseteq CountedFailures, UnderWay' \subseteq UnderWay
    PROVE  FailuresBounded'
<1>1. /\ Cardinality(CountedFailures') \in Nat
      /\ Cardinality(CountedFailures') <= Cardinality(CountedFailures)
    BY CountsAreNumbers, FS_Subset, FS_CardinalityType
<1>2. Cardinality(UnderWay') \in Nat /\ Cardinality(UnderWay') <= Cardinality(UnderWay)
    BY CountsAreNumbers, FS_Subset, FS_CardinalityType
<1>3. /\ Cardinality(CountedFailures) \in Nat /\ Cardinality(UnderWay) \in Nat
      /\ Cardinality(CountedFailures) + Cardinality(UnderWay)
            <= maxLoginAttemptsPerMinute - 1 + Cardinality(Logins)
    BY CountsAreNumbers DEF LimiterInv, FailuresBounded
<1> QED BY <1>1, <1>2, <1>3, NumbersAreNumbers DEF FailuresBounded

(* Refusals stay justified while the table is not cut.                     *)
LEMMA RefusalsStayJustified ==
    ASSUME LimiterInv, attempts \subseteq attempts', IsFiniteSet(attempts'),
           \A l \in Logins : login'[l].at = "refused" => login'[l] = login[l]
    PROVE  RefusedForCause'
<1> SUFFICES ASSUME NEW l \in Logins, login'[l].at = "refused"
             PROVE  Cardinality(Cause(attempts', login'[l].since)) >= maxLoginAttemptsPerMinute
    BY DEF RefusedForCause, Cause
<1>1. login'[l] = login[l] /\ login[l].at = "refused"
    OBVIOUS
<1>2. Cardinality(Cause(attempts, login[l].since)) >= maxLoginAttemptsPerMinute
    BY <1>1 DEF LimiterInv, RefusedForCause, Cause
<1> DEFINE since == login[l].since
           old == Cause(attempts, since)
           new == Cause(attempts', since)
<1>3. old \in SUBSET new /\ new \in SUBSET attempts'
    BY DEF Cause
<1>4. IsFiniteSet(new)
    BY <1>3, FS_Subset
<1>5. Cardinality(old) <= Cardinality(new) /\ IsFiniteSet(old)
    BY <1>3, <1>4, FS_Subset
<1>6. Cardinality(old) \in Nat /\ Cardinality(new) \in Nat
    BY <1>4, <1>5, FS_CardinalityType
<1>7. Cause(attempts', login'[l].since) = new
    BY <1>1
<1>8. Cardinality(old) >= maxLoginAttemptsPerMinute
    BY <1>2
<1> HIDE DEF new, old
<1>9. Cardinality(new) >= maxLoginAttemptsPerMinute
    BY <1>5, <1>6, <1>8, NumbersAreNumbers
<1> QED BY <1>7, <1>9
(* Steps of one login that write no row.                                   *)
LEMMA MoveKeepsInv ==
    ASSUME LimiterInv, NEW l \in Logins, NEW new \in Login,
           login' = [login EXCEPT ![l] = new], UNCHANGED <<now, attempts>>,
           new.at \in {"pam", "record"} /\ ~new.uncounted => l \in UnderWay,
           new.at # "refused"
    PROVE  LimiterInv'
<1>1. TypeOK' /\ TableInv'
    BY DEF LimiterInv, TypeOK, TableInv
<1>2. CountedFailures' = CountedFailures
    BY DEF CountedFailures
<1>3. UnderWay' \subseteq UnderWay
    BY DEF UnderWay, LimiterInv, TypeOK
<1>4. FailuresBounded'
    BY <1>2, <1>3, FewerKeepBound
<1>5. \A k \in Logins : login'[k].at = "refused" => login'[k] = login[k]
    BY DEF LimiterInv, TypeOK
<1>6. RefusedForCause'
    BY <1>5, RefusalsStayJustified DEF LimiterInv, TableInv
<1> QED BY <1>1, <1>4, <1>6 DEF LimiterInv

LEMMA LoginIsTyped == ASSUME LimiterInv, NEW l \in Logins PROVE login[l] \in Login
BY DEF LimiterInv, TypeOK

LEMMA FreeIsTyped == Free \in Login /\ Free.at = "idle"
BY DEF Free, Login

(* After a password: a session, or the login form again.                   *)
LEMMA AfterIsTyped ==
    ASSUME LimiterInv, NEW l \in Logins
    PROVE  After(l) \in Login /\ After(l).at \in {"session", "idle"}
<1>1. login[l] \in Login
    BY LoginIsTyped
<1>2. [login[l] EXCEPT !.at = "session"] \in Login /\ [login[l] EXCEPT !.at = "session"].at = "session"
    BY <1>1 DEF Login
<1> QED BY <1>2, FreeIsTyped DEF After

LEMMA MovesKeepInv ==
    ASSUME LimiterInv, NEW l \in Logins,
           AdmitUncounted(l) \/ PamAnswers(l) \/ RecordLost(l) \/ Answered(l)
    PROVE  LimiterInv'
<1> DEFINE old == login[l]
<1>1. old \in Login
    BY LoginIsTyped
<1>2. CASE AdmitUncounted(l)
    <2> DEFINE new == [old EXCEPT !.at = "pam", !.uncounted = TRUE]
    <2>1. new \in Login /\ new.at = "pam" /\ new.uncounted = TRUE
        BY <1>1 DEF Login
    <2>2. login' = [login EXCEPT ![l] = new] /\ UNCHANGED <<now, attempts>>
        BY <1>2 DEF AdmitUncounted, LimiterInv, TypeOK
    <2> HIDE DEF new
    <2> QED BY <2>1, <2>2, MoveKeepsInv
<1>3. CASE PamAnswers(l)
    <2>1. PICK success \in BOOLEAN : login' = [login EXCEPT ![l].at = "record", ![l].success = success]
        BY <1>3 DEF PamAnswers
    <2> DEFINE new == [old EXCEPT !.at = "record", !.success = success]
    <2>2. new \in Login /\ new.at = "record" /\ new.uncounted = old.uncounted
        BY <1>1 DEF Login
    <2>3. login' = [login EXCEPT ![l] = new] /\ UNCHANGED <<now, attempts>> /\ old.at = "pam"
        BY <1>3, <2>1 DEF PamAnswers, LimiterInv, TypeOK
    <2>4. ~old.uncounted => l \in UnderWay
        BY <2>3 DEF UnderWay
    <2> HIDE DEF new
    <2> QED BY <2>2, <2>3, <2>4, MoveKeepsInv
<1>4. CASE RecordLost(l)
    BY <1>4, AfterIsTyped, MoveKeepsInv DEF RecordLost
<1>5. CASE Answered(l)
    BY <1>5, FreeIsTyped, MoveKeepsInv DEF Answered
<1> QED BY <1>2, <1>3, <1>4, <1>5

(* Whoever is admitted was counted: so many failures, and at most every    *)
(* login under way.                                                        *)
LEMMA AdmitKeepsInv ==
    ASSUME LimiterInv, NEW l \in Logins, Admit(l)
    PROVE  LimiterInv'
<1> DEFINE old == login[l]
           new == [old EXCEPT !.at = "pam"]
<1>1. new \in Login /\ new.at = "pam"
    BY LoginIsTyped DEF Login
<1>2. login' = [login EXCEPT ![l] = new] /\ UNCHANGED <<now, attempts>>
    BY DEF Admit, LimiterInv, TypeOK
<1>3. Cardinality(RecentFailures) < maxLoginAttemptsPerMinute
    BY DEF Admit, RecentFailedAttempts, RecentFailures
<1> HIDE DEF new
<1>4. TypeOK' /\ TableInv'
    BY <1>1, <1>2 DEF LimiterInv, TypeOK, TableInv
<1>5. FailuresBounded'
    <2>1. CountedFailures' = CountedFailures
        BY <1>2 DEF CountedFailures
    <2>2. UnderWay' \in SUBSET Logins
        BY DEF UnderWay
    <2>3. Cardinality(UnderWay') \in Nat /\ Cardinality(UnderWay') <= Cardinality(Logins)
        BY <2>2, LoginsAssumption, FS_Subset, FS_CardinalityType
    <2> QED BY <1>3, <2>1, <2>3, CountsAreNumbers, NumbersAreNumbers DEF FailuresBounded
<1>6. \A k \in Logins : login'[k].at = "refused" => login'[k] = login[k]
    BY <1>1, <1>2 DEF LimiterInv, TypeOK
<1>7. RefusedForCause'
    BY <1>2, <1>6, RefusalsStayJustified DEF LimiterInv, TableInv
<1> QED BY <1>4, <1>5, <1>7 DEF LimiterInv

(* The count that refuses is of failures that are cause enough.            *)
LEMMA RefuseKeepsInv ==
    ASSUME LimiterInv, NEW l \in Logins, Refuse(l)
    PROVE  LimiterInv'
<1> DEFINE old == login[l]
           new == [old EXCEPT !.at = "refused", !.since = now]
<1>1. new \in Login /\ new.at = "refused" /\ new.since = now
    BY LoginIsTyped DEF Login, LimiterInv, TypeOK
<1>2. login' = [login EXCEPT ![l] = new] /\ UNCHANGED <<now, attempts>>
    BY DEF Refuse, LimiterInv, TypeOK
<1>3. Cardinality(RecentFailures) >= maxLoginAttemptsPerMinute
    BY DEF Refuse, RecentFailedAttempts, RecentFailures
<1> HIDE DEF new
<1>4. TypeOK' /\ TableInv'
    BY <1>1, <1>2 DEF LimiterInv, TypeOK, TableInv
<1>5. FailuresBounded'
    <2>1. CountedFailures' \subseteq CountedFailures
        BY <1>2 DEF CountedFailures
    <2>2. UnderWay' \subseteq UnderWay
        BY <1>1, <1>2 DEF UnderWay, LimiterInv, TypeOK
    <2> QED BY <2>1, <2>2, FewerKeepBound
<1>6. RefusedForCause'
    <2> SUFFICES ASSUME NEW k \in Logins, login'[k].at = "refused"
                 PROVE  Cardinality(Cause(attempts', login'[k].since)) >= maxLoginAttemptsPerMinute
        BY DEF RefusedForCause, Cause
    <2>1. CASE k = l
        <3>1. login'[k].since = now /\ attempts' = attempts
            BY <2>1, <1>1, <1>2 DEF LimiterInv, TypeOK
        <3>2. Cardinality(Cause(attempts, now)) >= Cardinality(RecentFailures)
            BY RecentFailuresAreCause
        <3>3. Cardinality(Cause(attempts, now)) \in Nat
            <4>1. IsFiniteSet(attempts) /\ Cause(attempts, now) \in SUBSET attempts
                BY DEF LimiterInv, TableInv, Cause
            <4> QED BY <4>1, FS_Subset, FS_CardinalityType
        <3>4. Cardinality(Cause(attempts, now)) >= maxLoginAttemptsPerMinute
            BY <1>3, <3>2, <3>3, CountsAreNumbers, NumbersAreNumbers
        <3> QED BY <3>1, <3>4
    <2>2. CASE k # l
        <3>1. login'[k] = login[k] /\ attempts' = attempts
            BY <2>2, <1>2 DEF LimiterInv, TypeOK
        <3> QED BY <3>1 DEF LimiterInv, RefusedForCause, Cause
    <2> QED BY <2>1, <2>2
<1> QED BY <1>4, <1>5, <1>6 DEF LimiterInv
(* A login that was counted against the limit makes room for the failure   *)
(* it records.                                                             *)
LEMMA RecordLoginAttemptKeepsInv ==
    ASSUME LimiterInv, NEW l \in Logins, RecordLoginAttempt(l)
    PROVE  LimiterInv'
<1> DEFINE old == login[l]
           count == Cardinality(attempts)
           row == [id |-> count + 1, ts |-> Unix(now), success |-> old.success,
                   time |-> now, uncounted |-> old.uncounted]
           new == After(l)
<1>1. /\ old.at = "record" /\ count < MaxAttempts
      /\ attempts' = attempts \union {row} /\ login' = [login EXCEPT ![l] = new]
      /\ now' = now
    BY DEF RecordLoginAttempt
<1>2. old \in Login /\ new \in Login /\ new.at \in {"session", "idle"}
    BY LoginIsTyped, AfterIsTyped
<1>3. IsFiniteSet(attempts) /\ count \in Nat
    BY FS_CardinalityType DEF LimiterInv, TableInv
<1>4. now \in Nat /\ Unix(now) \in Seconds
    BY UnixRoundsDown DEF LimiterInv, TypeOK
<1>5. row.id = count + 1 /\ row.ts = Unix(row.time) /\ row.time = now
      /\ row.success = old.success /\ row.uncounted = old.uncounted
    OBVIOUS
<1>6. row \in Attempt
    BY <1>1, <1>2, <1>3, <1>4, LimitAssumption DEF Attempt, Login
<1> HIDE DEF row, new, count, old
<1>7. row \notin attempts
    <2> SUFFICES ASSUME row \in attempts PROVE FALSE
        OBVIOUS
    <2>1. row.id <= count
        BY DEF LimiterInv, TableInv, count
    <2> QED BY <2>1, <1>3, <1>5
<1>8. IsFiniteSet(attempts') /\ Cardinality(attempts') = count + 1
    BY <1>1, <1>3, <1>7, FS_AddElement DEF count
<1>9. TypeOK'
    BY <1>1, <1>2, <1>3, <1>6, <1>8, LimitAssumption DEF LimiterInv, TypeOK
<1>10. TableInv'
    <2> SUFFICES ASSUME NEW a \in attempts' PROVE a.id <= count + 1 /\ a.ts = Unix(a.time)
        BY <1>8 DEF TableInv
    <2>1. CASE a = row
        BY <2>1, <1>3, <1>5
    <2>2. CASE a \in attempts
        <3>1. a.id <= count /\ a.ts = Unix(a.time) /\ a.id \in 1 .. MaxAttempts
            BY <2>2, AttemptsAreTyped DEF LimiterInv, TableInv, count
        <3> QED BY <3>1, <1>3, LimitAssumption
    <2> QED BY <2>1, <2>2, <1>1
<1>11. FailuresBounded'
    <2>1. UnderWay' \subseteq UnderWay
        BY <1>1, <1>2 DEF UnderWay, LimiterInv, TypeOK
    <2>2. CASE old.success \/ old.uncounted
        <3>1. CountedFailures' \subseteq CountedFailures
            BY <2>2, <1>1, <1>5 DEF CountedFailures
        <3> QED BY <2>1, <3>1, FewerKeepBound
    <2>3. CASE ~old.success /\ ~old.uncounted
        <3>1. CountedFailures' \in SUBSET (CountedFailures \union {row})
            BY <1>1 DEF CountedFailures
        <3>2. IsFiniteSet(CountedFailures \union {row})
              /\ Cardinality(CountedFailures \union {row}) <= Cardinality(CountedFailures) + 1
            <4>1. IsFiniteSet(CountedFailures) /\ Cardinality(CountedFailures) \in Nat
                BY CountsAreNumbers
            <4>2. IsFiniteSet(CountedFailures \union {row})
                  /\ Cardinality(CountedFailures \union {row}) =
                        IF row \in CountedFailures THEN Cardinality(CountedFailures)
                        ELSE Cardinality(CountedFailures) + 1
                BY <4>1, FS_AddElement
            <4> QED BY <4>1, <4>2
        <3>3. /\ Cardinality(CountedFailures') \in Nat
              /\ Cardinality(CountedFailures') <= Cardinality(CountedFailures \union {row})
              /\ Cardinality(CountedFailures \union {row}) \in Nat
            BY <3>1, <3>2, FS_Subset, FS_CardinalityType
        <3>4. l \in UnderWay
            BY <2>3, <1>1 DEF UnderWay, old
        <3>5. UnderWay' \in SUBSET (UnderWay \ {l})
            BY <2>1, <1>1, <1>2 DEF UnderWay, LimiterInv, TypeOK
        <3>6. IsFiniteSet(UnderWay \ {l}) /\ Cardinality(UnderWay \ {l}) = Cardinality(UnderWay) - 1
            BY <3>4, CountsAreNumbers, FS_RemoveElement
        <3>7. /\ Cardinality(UnderWay') \in Nat
              /\ Cardinality(UnderWay') <= Cardinality(UnderWay \ {l})
            BY <3>5, <3>6, FS_Subset, FS_CardinalityType
        <3>8. Cardinality(CountedFailures') <= Cardinality(CountedFailures) + 1
            BY <3>2, <3>3, CountsAreNumbers
        <3>9. Cardinality(UnderWay') <= Cardinality(UnderWay) - 1
            BY <3>6, <3>7
        <3>10. Cardinality(CountedFailures) + Cardinality(UnderWay)
                    <= maxLoginAttemptsPerMinute - 1 + Cardinality(Logins)
            BY DEF LimiterInv, FailuresBounded
        <3> QED BY <3>3, <3>7, <3>8, <3>9, <3>10, CountsAreNumbers, NumbersAreNumbers
            DEF FailuresBounded
    <2> QED BY <2>2, <2>3
<1>12. \A k \in Logins : login'[k].at = "refused" => login'[k] = login[k]
    BY <1>1, <1>2 DEF LimiterInv, TypeOK
<1>13. RefusedForCause'
    BY <1>1, <1>8, <1>12, RefusalsStayJustified
<1> QED BY <1>9, <1>10, <1>11, <1>13 DEF LimiterInv

(* Time only takes failures out of the minute.                             *)
LEMMA TickKeepsInv == ASSUME LimiterInv, Tick PROVE LimiterInv'
<1>1. now \in Nat /\ now' = now + 1 /\ attempts' = attempts /\ login' = login
    BY DEF LimiterInv, TypeOK, Tick
<1>2. TypeOK' /\ TableInv'
    BY <1>1 DEF LimiterInv, TypeOK, TableInv
<1>3. CountedFailures' \subseteq CountedFailures
    <2>1. ASSUME NEW a \in attempts, a.time >= now' - Minute PROVE a.time >= now - Minute
        BY <2>1, <1>1, AttemptsAreTyped, NumbersAreNumbers DEF LimiterInv
    <2> QED BY <2>1, <1>1 DEF CountedFailures
<1>4. UnderWay' = UnderWay
    BY <1>1 DEF UnderWay
<1>5. FailuresBounded'
    BY <1>3, <1>4, FewerKeepBound
<1>6. RefusedForCause'
    BY <1>1, RefusalsStayJustified DEF LimiterInv, TableInv
<1> QED BY <1>2, <1>5, <1>6 DEF LimiterInv

LEMMA RestartKeepsInv == ASSUME LimiterInv, Restart PROVE LimiterInv'
<1>1. now' = now /\ attempts' = attempts /\ login' = [l \in Logins |-> Free]
    BY DEF Restart
<1>2. TypeOK' /\ TableInv'
    BY <1>1, FreeIsTyped DEF LimiterInv, TypeOK, TableInv
<1>3. CountedFailures' \subseteq CountedFailures /\ UnderWay' \subseteq UnderWay
    BY <1>1, FreeIsTyped DEF CountedFailures, UnderWay
<1>4. FailuresBounded'
    BY <1>3, FewerKeepBound
<1>5. RefusedForCause'
    BY <1>1, FreeIsTyped DEF RefusedForCause
<1> QED BY <1>2, <1>4, <1>5 DEF LimiterInv

LEMMA StutterKeepsInv == ASSUME LimiterInv, UNCHANGED vars PROVE LimiterInv'
BY DEF LimiterInv, TypeOK, TableInv, FailuresBounded, CountedFailures, UnderWay, RefusedForCause, vars

LEMMA NextKeepsLimiterInv == LimiterInv /\ [Next]_vars => LimiterInv'
<1> SUFFICES ASSUME LimiterInv, [Next]_vars PROVE LimiterInv'
    OBVIOUS
<1>1. ASSUME NEW l \in Logins,
             Refuse(l) \/ Admit(l) \/ AdmitUncounted(l) \/ PamAnswers(l)
                \/ RecordLoginAttempt(l) \/ RecordLost(l) \/ Answered(l)
      PROVE  LimiterInv'
    BY <1>1, RefuseKeepsInv, AdmitKeepsInv, MovesKeepInv, RecordLoginAttemptKeepsInv
<1>2. CASE Tick \/ Restart \/ UNCHANGED vars
    BY <1>2, TickKeepsInv, RestartKeepsInv, StutterKeepsInv
<1> QED BY <1>1, <1>2 DEF Next

(* The inductive invariant holds in every reachable state.                 *)
THEOREM LimiterInvariance == Spec => []LimiterInv
BY InitLimiterInv, NextKeepsLimiterInv, PTL DEF Spec

-----------------------------------------------------------------------------
(* Results.                                                                *)

(* Every variable keeps its type; the table holds whole seconds.           *)
THEOREM LimiterTypeCorrect == Spec => []TypeOK
<1>1. LimiterInv => TypeOK BY DEF LimiterInv
<1> QED BY LimiterInvariance, <1>1, PTL

(* However the counts, PAM and the records of logins interleave, an        *)
(* address gets no more wrong passwords answered in a minute than the      *)
(* limit and one for every other login served at the same time.            *)
THEOREM FailuresAreBounded == Spec => []FailuresBounded
<1>1. LimiterInv => FailuresBounded BY DEF LimiterInv
<1> QED BY LimiterInvariance, <1>1, PTL

(* Whoever is refused had as many wrong passwords recorded in the minute   *)
(* before, to the second.                                                  *)
THEOREM RefusalsHaveCause == Spec => []RefusedForCause
<1>1. LimiterInv => RefusedForCause BY DEF LimiterInv
<1> QED BY LimiterInvariance, <1>1, PTL

=============================================================================
