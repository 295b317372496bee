---------------------------- MODULE DeviceLogin ----------------------------
(***************************************************************************)
(* What the SSH device flow promises of one challenge, without its maps,   *)
(* handlers and clock: a challenge is issued once, approved at most once   *)
(* while it is open, turned into at most MaxGrants sessions while it is    *)
(* approved, and closed for good.  internal/auth/sshdevice.go:39-41 and    *)
(* 151-152 promise MaxGrants = 1.                                          *)
(***************************************************************************)
EXTENDS Naturals

CONSTANTS
    Challenges,
    MaxGrants   \* a natural number

VARIABLES
    stage,      \* how far a challenge has come
    grants      \* sessions created for it

Stages == {"none", "pending", "approved", "closed"}

Init ==
    /\ stage = [c \in Challenges |-> "none"]
    /\ grants = [c \in Challenges |-> 0]

Enter(c, from, to) ==
    /\ stage[c] \in from
    /\ stage' = [stage EXCEPT ![c] = to]
    /\ UNCHANGED grants

Approve(c) == Enter(c, {"pending"}, "approved")

Grant(c) ==
    /\ stage[c] = "approved"
    /\ grants[c] < MaxGrants
    /\ grants' = [grants EXCEPT ![c] = @ + 1]
    /\ UNCHANGED stage

(* Consumed, expired, out of attempts or forgotten by a restart; several   *)
(* challenges may close in one step.                                       *)
Close ==
    \E C \in (SUBSET Challenges) \ {{}} :
        /\ \A c \in C : stage[c] \in {"pending", "approved"}
        /\ stage' = [c \in Challenges |-> IF c \in C THEN "closed" ELSE stage[c]]
        /\ UNCHANGED grants

(* Issuing sweeps the challenges that have expired.                        *)
IssueAndSweep(c) ==
    /\ stage[c] = "none"
    /\ \E C \in SUBSET (Challenges \ {c}) :
        /\ \A d \in C : stage[d] \in {"pending", "approved"}
        /\ stage' = [d \in Challenges |->
                        IF d = c THEN "pending" ELSE IF d \in C THEN "closed" ELSE stage[d]]
    /\ UNCHANGED grants

Next ==
    \/ \E c \in Challenges : IssueAndSweep(c) \/ Approve(c) \/ Grant(c)
    \/ Close

Spec == Init /\ [][Next]_<<stage, grants>>

=============================================================================
