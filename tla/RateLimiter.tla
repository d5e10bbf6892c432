---------------------------- MODULE RateLimiter ----------------------------
(***************************************************************************)
(* RateLimiter: every action of every run asks check(kind) first.  The deque of *)
(* a kind is kept as the log of all its grants and the number of those that were  *)
(* evicted from its left end.                                                     *)
(***************************************************************************)
EXTENDS Naturals, Sequences

CONSTANTS
    ActionKinds,  \* the values of ActionKind
    Limit,        \* _window: max_actions of each kind
    Period,       \* window_s
    MaxNow        \* bound on the clock

ASSUME RateAssumption ==
    /\ Limit \in [ActionKinds -> Nat]
    /\ Period \in Nat /\ MaxNow \in Nat

VARIABLES
    now,       \* time.monotonic()
    grants,    \* when check returned True, by kind
    evicted    \* how many of them have left the deque

rateVars == <<now, grants, evicted>>

\* The deque has lost its n - evicted[k] first entries, all of them expired, and
\* begins with one that is not.
Evicts(k, n) ==
    /\ n \in evicted[k]..Len(grants[k])
    /\ \A i \in (evicted[k] + 1)..n : grants[k][i] + Period <= now
    /\ n < Len(grants[k]) => grants[k][n + 1] + Period > now

\* Mutant of Check: one more than the limit is let through.
Check_OneMore(k) ==
    \E n \in evicted[k]..Len(grants[k]) :
        /\ Evicts(k, n)
        /\ evicted' = [evicted EXCEPT ![k] = n]
        /\ grants' = IF Len(grants[k]) - n > Limit[k] THEN grants
                     ELSE [grants EXCEPT ![k] = Append(@, now)]
        /\ UNCHANGED now

\* check: the lock is never contended, no step awaits while it is held.  The limits
\* are configured once, before the first check.
Check(k) ==
    \E n \in evicted[k]..Len(grants[k]) :
        /\ Evicts(k, n)
        /\ evicted' = [evicted EXCEPT ![k] = n]
        /\ grants' = IF Len(grants[k]) - n >= Limit[k] THEN grants
                     ELSE [grants EXCEPT ![k] = Append(@, now)]
        /\ UNCHANGED now

Tick ==
    /\ now < MaxNow /\ now' = now + 1
    /\ UNCHANGED <<grants, evicted>>

rateInit ==
    /\ now = 0
    /\ grants = [k \in ActionKinds |-> <<>>]
    /\ evicted = [k \in ActionKinds |-> 0]

rateNext == Tick \/ \E k \in ActionKinds : Check(k)

rateSpec == rateInit /\ [][rateNext]_rateVars

----------------------------------------------------------------------------
(* Properties *)

\* In no stretch of Period are more than Limit actions of a kind let through: the
\* one that comes Limit grants after another is at least a Period later.
GrantsAreSpaced ==
    \A k \in ActionKinds : \A i \in DOMAIN grants[k] :
        i + Limit[k] \in DOMAIN grants[k] =>
            grants[k][i] + Period <= grants[k][i + Limit[k]]
=============================================================================
