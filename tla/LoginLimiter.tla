---------------------------- MODULE LoginLimiter ----------------------------
(***************************************************************************)
(* The limit on password logins: Login of internal/api/api.go over the     *)
(* login_attempts table of internal/store/store.go, for one remote         *)
(* address.                                                                *)
(*                                                                         *)
(* A login counts the failures of the last minute, asks PAM, which takes   *)
(* its time, and then records how that went.  Nothing holds other logins   *)
(* of the address back between the count and the record.  A count that     *)
(* fails lets the login pass, a record that fails is lost.                 *)
(***************************************************************************)
EXTENDS FiniteSets, Integers

CONSTANTS
    Logins,         \* login requests of the address served at a time
    maxLoginAttemptsPerMinute,
    Minute,         \* time.Minute, in ticks
    TicksPerSecond, \* the clock is finer than the table's whole seconds
    MaxTime,        \* bound on the clock
    MaxAttempts     \* bound on the rows of the table

ASSUME ClockAssumption ==
    /\ TicksPerSecond \in Nat \ {0} /\ Minute \in Nat /\ MaxTime \in Nat
ASSUME LoginsAssumption == IsFiniteSet(Logins)
ASSUME LimitAssumption == maxLoginAttemptsPerMinute \in Nat \ {0} /\ MaxAttempts \in Nat

VARIABLES
    now,        \* the clock, in ticks after a minute of silence
    attempts,   \* login_attempts: the rows of this address
    login       \* where a login stands

vars == <<now, attempts, login>>

Seconds == {t \in Int : t % TicksPerSecond = 0}

(* Two fields are history: the exact time, and whether the count before    *)
(* had failed.                                                             *)
Attempt == [id : 1 .. MaxAttempts, ts : Seconds, success : BOOLEAN,
            time : Nat, uncounted : BOOLEAN]

(* since is history: when the login was refused.                           *)
Login == [at : {"idle", "pam", "record", "refused", "session"},
          success : BOOLEAN, since : Nat, uncounted : BOOLEAN]

Free == [at |-> "idle", success |-> FALSE, since |-> 0, uncounted |-> FALSE]

TypeOK ==
    /\ now \in Nat
    /\ attempts \subseteq Attempt
    /\ Cardinality(attempts) <= MaxAttempts
    /\ login \in [Logins -> Login]

Init ==
    /\ now = 0
    /\ attempts = {}
    /\ login = [l \in Logins |-> Free]

-----------------------------------------------------------------------------
UnixUntruncated(t) == t         \* fault: UnixNano instead of Unix

(* time.Time.Unix.                                                         *)
Unix(t) == t - (t % TicksPerSecond)

CountsSuccesses ==              \* fault: SELECT without AND success = 0
    Cardinality({a \in attempts : a.ts >= Unix(now - Minute)})

CountsThisSecond ==             \* fault: since is now, not a minute ago
    Cardinality({a \in attempts : a.ts >= Unix(now) /\ ~a.success})

RecentFailedAttempts ==
    Cardinality({a \in attempts : a.ts >= Unix(now - Minute) /\ ~a.success})

(* 429, without a trace in the table.                                      *)
Refuse(l) ==
    /\ login[l].at = "idle"
    /\ RecentFailedAttempts >= maxLoginAttemptsPerMinute
    /\ login' = [login EXCEPT ![l].at = "refused", ![l].since = now]
    /\ UNCHANGED <<now, attempts>>

Admit(l) ==
    /\ login[l].at = "idle"
    /\ RecentFailedAttempts < maxLoginAttemptsPerMinute
    /\ login' = [login EXCEPT ![l].at = "pam"]
    /\ UNCHANGED <<now, attempts>>

(* err == nil && ...: the login passes if the count fails.                 *)
AdmitUncounted(l) ==
    /\ login[l].at = "idle"
    /\ login' = [login EXCEPT ![l].at = "pam", ![l].uncounted = TRUE]
    /\ UNCHANGED <<now, attempts>>

(* auth.Authenticate.                                                      *)
PamAnswers(l) ==
    /\ login[l].at = "pam"
    /\ \E success \in BOOLEAN :
        login' = [login EXCEPT ![l].at = "record", ![l].success = success]
    /\ UNCHANGED <<now, attempts>>

After(l) == IF login[l].success THEN [login[l] EXCEPT !.at = "session"] ELSE Free

RecordLoginAttempt(l) ==
    /\ login[l].at = "record"
    /\ Cardinality(attempts) < MaxAttempts
    /\ attempts' = attempts \union
        {[id |-> Cardinality(attempts) + 1, ts |-> Unix(now), success |-> login[l].success,
          time |-> now, uncounted |-> login[l].uncounted]}
    /\ login' = [login EXCEPT ![l] = After(l)]
    /\ UNCHANGED now

(* The error of the store is ignored.                                      *)
RecordLost(l) ==
    /\ login[l].at = "record"
    /\ login' = [login EXCEPT ![l] = After(l)]
    /\ UNCHANGED <<now, attempts>>

(* LookupIdentity and SessionManager.Create may still fail, for the user a *)
(* failure, in the table a success.                                        *)
Answered(l) ==
    /\ login[l].at \in {"refused", "session"}
    /\ login' = [login EXCEPT ![l] = Free]
    /\ UNCHANGED <<now, attempts>>

Tick ==
    /\ now < MaxTime
    /\ now' = now + 1
    /\ UNCHANGED <<attempts, login>>

(* The table survives.                                                     *)
Restart ==
    /\ login' = [l \in Logins |-> Free]
    /\ UNCHANGED <<now, attempts>>

Next ==
    \/ \E l \in Logins :
        \/ Refuse(l)
        \/ Admit(l)
        \/ AdmitUncounted(l)
        \/ PamAnswers(l)
        \/ RecordLoginAttempt(l)
        \/ RecordLost(l)
        \/ Answered(l)
    \/ Tick
    \/ Restart

Spec == Init /\ [][Next]_vars

-----------------------------------------------------------------------------
(* Properties.                                                             *)

(* Wrong passwords that were counted against the limit, recorded within    *)
(* the minute before now.                                                  *)
CountedFailures ==
    {a \in attempts : a.time >= now - Minute /\ ~a.success /\ ~a.uncounted}

UnderWay == {l \in Logins : login[l].at \in {"pam", "record"} /\ ~login[l].uncounted}

(* The check before PAM and the record after it are apart, so that         *)
(* maxLoginAttemptsPerMinute is exceeded; but never by more than the other *)
(* logins that run at the same time, however long PAM takes (api.go:147,   *)
(* 158-159).                                                               *)
FailuresBounded ==
    Cardinality(CountedFailures) + Cardinality(UnderWay)
        <= maxLoginAttemptsPerMinute - 1 + Cardinality(Logins)

(* Nobody is refused but for as many wrong passwords recorded in the       *)
(* minute before, to the second: refusals, right passwords and older       *)
(* failures do not count, so that an address is admitted again after a     *)
(* minute without a wrong password (api.go:147-151, store.go:148-160).     *)
RefusedForCause ==
    \A l \in Logins : login[l].at = "refused" =>
        Cardinality({a \in attempts :
            ~a.success /\ a.time > login[l].since - Minute - TicksPerSecond})
                >= maxLoginAttemptsPerMinute

=============================================================================
