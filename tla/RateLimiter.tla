----------------------------- MODULE RateLimiter ----------------------------
(* InMemoryRateLimiter of agents_shared/rate_limit.py, which the OAuth     *)
(* callback asks twice: per remote address and per session.  check() has   *)
(* no await inside its lock, so it is one step.                            *)
EXTENDS Integers, Sequences

CONSTANTS
    Keys,      \* what requests are counted by
    Limit,     \* limit
    Window,    \* window_s
    MaxTime    \* bound on the clock

(* __init__ refuses anything else.                                         *)
ASSUME LimiterAssumption == {Limit, Window} \subseteq Nat \ {0} /\ MaxTime \in Nat

VARIABLES
    now,        \* time.monotonic()
    buckets,    \* _buckets: key -> deque of times
    admitted,   \* history: key -> every time a request was let through
    answers     \* the last answer each key got, and when

vars == <<now, buckets, admitted, answers>>

Init ==
    /\ now = 0
    /\ buckets = [k \in {} |-> <<>>]
    /\ admitted = [k \in Keys |-> <<>>]
    /\ answers = [k \in Keys |-> [allowed |-> TRUE, at |-> 0]]

(* setdefault                                                              *)
Hits(k) == IF k \in DOMAIN buckets THEN buckets[k] ELSE <<>>

(* How many hits the while loop pops.  The mutants pop a hit exactly       *)
(* Window old, and nothing at all.                                         *)
Popped_AtCutoff(hits, n) ==
    /\ n \in 0..Len(hits)
    /\ \A i \in 1..n : hits[i] <= now - Window
    /\ n < Len(hits) => hits[n + 1] > now - Window
Popped_None(hits, n) == n = 0
Popped(hits, n) ==
    /\ n \in 0..Len(hits)
    /\ \A i \in 1..n : hits[i] < now - Window
    /\ n < Len(hits) => hits[n + 1] >= now - Window

(* The mutant lets one more in.                                            *)
Full_OffByOne(hits) == Len(hits) > Limit
Full(hits) == Len(hits) >= Limit

Check(k) ==
    \E n \in 0..Len(Hits(k)) :
        LET kept == SubSeq(Hits(k), n + 1, Len(Hits(k))) IN
        /\ Popped(Hits(k), n)
        /\ answers' = [answers EXCEPT ![k] = [allowed |-> ~Full(kept), at |-> now]]
        /\ \/ /\ Full(kept)
              /\ buckets' = [j \in DOMAIN buckets \cup {k} |->
                               IF j = k THEN kept ELSE buckets[j]]
              /\ UNCHANGED admitted
           \/ /\ ~Full(kept)
              /\ buckets' = [j \in DOMAIN buckets \cup {k} |->
                               IF j = k THEN Append(kept, now) ELSE buckets[j]]
              /\ admitted' = [admitted EXCEPT ![k] = Append(@, now)]
        /\ UNCHANGED now

Tick ==
    /\ now < MaxTime
    /\ now' = now + 1
    /\ UNCHANGED <<buckets, admitted, answers>>

Next == Tick \/ \E k \in Keys : Check(k)

Spec == Init /\ [][Next]_vars

-----------------------------------------------------------------------------
(* Properties *)

(* Buckets hold times, never more than the limit, although a bucket that   *)
(* was made is kept for good.                                              *)
TypeOK ==
    /\ now \in Nat
    /\ DOMAIN buckets \subseteq Keys
    /\ buckets \in [DOMAIN buckets -> Seq(Nat)]
    /\ \A k \in DOMAIN buckets : Len(buckets[k]) <= Limit
    /\ admitted \in [Keys -> Seq(Nat)]
    /\ answers \in [Keys -> [allowed : BOOLEAN, at : Nat]]

(* In no stretch of time as long as the window, its ends included, are     *)
(* more than Limit requests of a key let through, also after refusals and  *)
(* long silence have trimmed its bucket.                                   *)
WindowBound ==
    \A k \in Keys : \A i, j \in DOMAIN admitted[k] :
        j >= i + Limit => admitted[k][j] - admitted[k][i] > Window

(* A request is refused only when Limit requests of its own key were let   *)
(* through within the window: a refused request does not count, nor does   *)
(* another key's.                                                          *)
RefusalJustified ==
    \A k \in Keys : ~answers[k].allowed =>
        /\ Len(admitted[k]) >= Limit
        /\ admitted[k][Len(admitted[k]) - Limit + 1] >= answers[k].at - Window
=============================================================================
