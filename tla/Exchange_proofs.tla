--------------------------- MODULE Exchange_proofs --------------------------
(* That the callback asks each limiter as RateLimiter says a limiter is    *)
(* asked, and what its retry loop may do to users and to the provider, for *)
(* any number of callbacks, codes, sessions and retries.                   *)
EXTENDS Exchange, RateLimiter_proofs, FiniteSetTheorems

-----------------------------------------------------------------------------
(* The two limiters *)

(* A step of the exchange is one of the limiter per session, or none.      *)
LEMMA StepIsLimiterStep == [ExchangeNext]_allVars => [Next]_vars
<1> SUFFICES ASSUME [ExchangeNext]_allVars PROVE [Next]_vars
  OBVIOUS
<1>1. ASSUME NEW q \in Callbacks, NEW c \in Codes, Callback(q, c) PROVE [Next]_vars
  <2>1. UNCHANGED now
    BY <1>1 DEF Callback, Remote!Check
  <2>2. UNCHANGED limiterVars \/ Check(SessionOf(c))
    BY <1>1 DEF Callback
  <2>3. SessionOf(c) \in Keys
    BY ExchangeAssumption
  <2> QED BY <2>1, <2>2, <2>3 DEF limiterVars, vars, Next
<1>2. ASSUME NEW q \in Callbacks, Proceeds(q) PROVE [Next]_vars
  BY <1>2 DEF Proceeds, Send, Fails, ServerError, Wake, TooLong, Refused, Unreadable, Connected,
              OnlyHandling, LimitersIdle
<1>3. ASSUME Time PROVE [Next]_vars
  BY <1>3 DEF Time, Next
<1>4. ASSUME UNCHANGED allVars PROVE [Next]_vars
  BY <1>4 DEF allVars
<1> QED BY <1>1, <1>2, <1>3, <1>4 DEF ExchangeNext

(* The limiter that the callbacks ask per session is the one that          *)
(* agents_shared/rate_limit.py describes, so its guarantees hold of it.    *)
THEOREM UsesLimiter == ExchangeSpec => Spec
<1>1. ExchangeInit => Init
  BY DEF ExchangeInit
<1> QED BY <1>1, StepIsLimiterStep, PTL DEF ExchangeSpec, Spec

(* At most Limit callbacks of a session pass in any window.                *)
THEOREM CallbacksBounded == ExchangeSpec => []WindowBound
BY UsesLimiter, WindowBounded, PTL

(* No session is refused for what another one, or a refused one, did.      *)
THEOREM CallbackRefusalsJustified == ExchangeSpec => []RefusalJustified
BY UsesLimiter, RefusalsJustified, PTL

(* The limiter per address is asked first, in the same step.               *)
LEMMA StepIsRemoteStep == [ExchangeNext]_allVars => [Remote!Next]_(Remote!vars)
<1> SUFFICES ASSUME [ExchangeNext]_allVars PROVE [Remote!Next]_(Remote!vars)
  OBVIOUS
<1>1. ASSUME NEW q \in Callbacks, NEW c \in Codes, Callback(q, c) PROVE Remote!Next
  BY <1>1 DEF Callback, Remote!Next, Remotes
<1>2. ASSUME NEW q \in Callbacks, Proceeds(q) PROVE UNCHANGED Remote!vars
  BY <1>2 DEF Proceeds, Send, Fails, ServerError, Wake, TooLong, Refused, Unreadable, Connected,
              OnlyHandling, LimitersIdle, vars, remoteVars, Remote!vars
<1>3. ASSUME Time PROVE Remote!Next
  BY <1>3 DEF Time, Tick, remoteVars, Remote!Next, Remote!Tick
<1>4. ASSUME UNCHANGED allVars PROVE UNCHANGED Remote!vars
  BY <1>4 DEF allVars, vars, remoteVars, Remote!vars
<1> QED BY <1>1, <1>2, <1>3, <1>4 DEF ExchangeNext

(* Nor does the limiter per address see anything but what a limiter may.   *)
THEOREM UsesRemoteLimiter == ExchangeSpec => Remote!Spec
<1>1. ExchangeInit => Remote!Init
  BY DEF ExchangeInit
<1> QED BY <1>1, StepIsRemoteStep, PTL DEF ExchangeSpec, Remote!Spec

RemoteLimiter ==
    INSTANCE RateLimiter_proofs WITH
      Keys <- Remotes, Limit <- RemoteLimit,
      buckets <- remoteBuckets, admitted <- remoteAdmitted, answers <- remoteAnswers

(* At most RemoteLimit callbacks from an address pass in any window.       *)
THEOREM RemoteCallbacksBounded == ExchangeSpec => []Remote!WindowBound
<1>1. {RemoteLimit, Window} \subseteq Nat \ {0} /\ MaxTime \in Nat
  BY LimiterAssumption, ExchangeAssumption
<1>2. RemoteLimiter!Spec => []RemoteLimiter!WindowBound
  BY <1>1, RemoteLimiter!WindowBounded
<1>3. Remote!Init => RemoteLimiter!Init
  BY DEF Remote!Init, RemoteLimiter!Init
<1>4. [Remote!Next]_(Remote!vars) => [RemoteLimiter!Next]_(RemoteLimiter!vars)
  BY DEF Remote!Next, Remote!Tick, Remote!Check, Remote!Hits, Remote!Popped, Remote!Full,
         Remote!vars, RemoteLimiter!Next, RemoteLimiter!Tick, RemoteLimiter!Check,
         RemoteLimiter!Hits, RemoteLimiter!Popped, RemoteLimiter!Full, RemoteLimiter!vars
<1>5. RemoteLimiter!WindowBound => Remote!WindowBound
  BY DEF Remote!WindowBound, RemoteLimiter!WindowBound
<1> QED BY <1>2, <1>3, <1>4, <1>5, UsesRemoteLimiter, PTL DEF Remote!Spec, RemoteLimiter!Spec
-----------------------------------------------------------------------------
(* The retry loop *)

Busy(r) == r.stage \in {"send", "wait", "sleep"}

(* The attempts for code c that a callback in state r has still ahead.     *)
Remaining(r, c) ==
    {n \in 0..Retries :
       Busy(r) /\ r.code = c /\ (n > r.attempt \/ (r.stage = "send" /\ n = r.attempt))}

Ahead(h, c) == {x \in Callbacks \X (0..Retries) : x[2] \in Remaining(h[x[1]], c)}

(* What is known of one callback when v are the visits, u the codes used   *)
(* and w the void ones: a code that it may still be refused is void, or    *)
(* was used by it or by another.                                           *)
Good(r, v, u, w) ==
    /\ Busy(r) =>
         /\ r.code \in Codes /\ v[r.code] >= 1 /\ r.why = "none"
         /\ r.failed = IF r.stage = "sleep" THEN r.attempt + 1 ELSE r.attempt
         /\ r.stage = "sleep" => r.attempt < Retries
         /\ r.code \in u => \/ r.lost \/ v[r.code] > 1
                            \/ r.stage = "wait" /\ r.reply = "token"
         /\ r.stage = "wait" /\ r.reply = "refused" => r.lost \/ v[r.code] > 1 \/ r.code \in w
    /\ r.why = "refused" => r.code \in Codes /\ (r.lost \/ v[r.code] > 1 \/ r.code \in w)
    /\ r.why = "exhausted" => r.failed = Retries + 1

(* Two callbacks that are busy with one code are two visits.               *)
Apart(h, v) ==
    \A p, q \in Callbacks :
      p # q /\ Busy(h[p]) /\ Busy(h[q]) /\ h[p].code = h[q].code /\ h[p].code \in Codes
        => v[h[p].code] >= 2

(* Every request sent or still to be sent was paid for by a visit.         *)
Paid(h, p, v) == \A c \in Codes : p[c] + Cardinality(Ahead(h, c)) <= (Retries + 1) * v[c]

LimiterTypes ==
    /\ now \in Nat
    /\ admitted \in [Keys -> Seq(Nat)] /\ remoteAdmitted \in [Remotes -> Seq(Nat)]
    /\ answers \in [Keys -> [allowed : BOOLEAN, at : Nat]]
    /\ remoteAnswers \in [Remotes -> [allowed : BOOLEAN, at : Nat]]

Counted ==
    \A c \in Codes :
      /\ visits[c] <= Len(admitted[SessionOf(c)])
      /\ visits[c] <= Len(remoteAdmitted[RemoteOf(c)])

XInv ==
    /\ ExchangeTypeOK /\ LimiterTypes /\ Counted
    /\ \A q \in Callbacks : Good(handling[q], visits, used, void)
    /\ \A c \in used : visits[c] >= 1
    /\ Apart(handling, visits)
    /\ Paid(handling, posts, visits)

(* The attempts ahead are finitely many.                                   *)
LEMMA AheadFinite ==
  ASSUME NEW h, NEW c
  PROVE  IsFiniteSet(Ahead(h, c)) /\ Cardinality(Ahead(h, c)) \in Nat
<1>1. IsFiniteSet(0..Retries) /\ IsFiniteSet(Callbacks)
  BY FS_Interval, ExchangeAssumption
<1>2. IsFiniteSet(Callbacks \X (0..Retries))
  BY <1>1, FS_Product
<1>3. Ahead(h, c) \in SUBSET (Callbacks \X (0..Retries))
  BY DEF Ahead
<1> QED BY <1>2, <1>3, FS_Subset, FS_CardinalityType

(* A callback that has no more ahead than before takes nothing from what   *)
(* is paid for.                                                            *)
LEMMA AheadShrinks ==
  ASSUME NEW h \in [Callbacks -> Handling], NEW q \in Callbacks, NEW r, NEW c,
         Remaining(r, c) \subseteq Remaining(h[q], c)
  PROVE  Cardinality(Ahead([h EXCEPT ![q] = r], c)) <= Cardinality(Ahead(h, c))
<1> DEFINE g == [h EXCEPT ![q] = r]
<1>1. \A x \in Callbacks : Remaining(g[x], c) \subseteq Remaining(h[x], c)
  OBVIOUS
<1> HIDE DEF g
<1>2. Ahead(g, c) \in SUBSET Ahead(h, c)
  BY <1>1 DEF Ahead
<1>3. Cardinality(Ahead(g, c)) <= Cardinality(Ahead(h, c))
  BY <1>2, AheadFinite, FS_Subset
<1> QED BY <1>3 DEF g

(* Sending uses up one of the attempts ahead.                              *)
LEMMA AheadSent ==
  ASSUME NEW h \in [Callbacks -> Handling], NEW q \in Callbacks, NEW r \in Handling, NEW c,
         h[q].stage = "send", h[q].code = c, r.stage = "wait", r.attempt = h[q].attempt
  PROVE  Cardinality(Ahead([h EXCEPT ![q] = r], c)) <= Cardinality(Ahead(h, c)) - 1
<1> DEFINE g == [h EXCEPT ![q] = r]
           x == <<q, h[q].attempt>>
<1>0. h[q].attempt \in 0..Retries /\ Retries \in Nat
  BY ExchangeAssumption DEF Handling
<1>1. x \in Ahead(h, c)
  BY <1>0 DEF Ahead, Remaining, Busy
<1>2. Remaining(r, c) \subseteq Remaining(h[q], c) \ {h[q].attempt}
  BY <1>0 DEF Remaining, Busy
<1>3. \A y \in Callbacks : g[y] = IF y = q THEN r ELSE h[y]
  OBVIOUS
<1> HIDE DEF g
<1>4. Ahead(g, c) \in SUBSET (Ahead(h, c) \ {x})
  BY <1>2, <1>3 DEF Ahead
<1> HIDE DEF x
<1>5. Cardinality(Ahead(h, c) \ {x}) = Cardinality(Ahead(h, c)) - 1
  BY <1>1, AheadFinite, FS_RemoveElement
<1>6. IsFiniteSet(Ahead(h, c) \ {x})
  BY AheadFinite, FS_RemoveElement
<1>7. Cardinality(Ahead(g, c)) <= Cardinality(Ahead(h, c) \ {x})
  BY <1>4, <1>6, FS_Subset
<1> QED BY <1>5, <1>7 DEF g

(* A visit has Retries + 1 attempts ahead.                                 *)
LEMMA AheadVisit ==
  ASSUME NEW h \in [Callbacks -> Handling], NEW q \in Callbacks, NEW r \in Handling, NEW c
  PROVE  Cardinality(Ahead([h EXCEPT ![q] = r], c)) <= Cardinality(Ahead(h, c)) + Retries + 1
<1> DEFINE g == [h EXCEPT ![q] = r]
           all == {q} \X (0..Retries)
<1>0. Retries \in Nat
  BY ExchangeAssumption
<1>1. IsFiniteSet(all) /\ Cardinality(all) = Retries + 1
  <2>1. IsFiniteSet({q}) /\ Cardinality({q}) = 1
    BY FS_Singleton
  <2>2. IsFiniteSet(0..Retries) /\ Cardinality(0..Retries) = Retries + 1
    BY <1>0, FS_Interval
  <2> DEFINE one == {q}
             some == 0..Retries
  <2> HIDE DEF one, some
  <2>3. /\ IsFiniteSet(one \X some)
        /\ Cardinality(one \X some) = Cardinality(one) * Cardinality(some)
    BY <2>1, <2>2, FS_Product DEF one, some
  <2> QED BY <2>1, <2>2, <2>3, <1>0 DEF one, some
<1>2. \A y \in Callbacks : g[y] = IF y = q THEN r ELSE h[y]
  OBVIOUS
<1> HIDE DEF g
<1>3. Ahead(g, c) \in SUBSET (Ahead(h, c) \cup all)
  BY <1>2 DEF Ahead, Remaining
<1> HIDE DEF all
<1>4. /\ IsFiniteSet(Ahead(h, c) \cup all)
      /\ Cardinality(Ahead(h, c) \cup all) =
           Cardinality(Ahead(h, c)) + Cardinality(all) - Cardinality(Ahead(h, c) \cap all)
  BY <1>1, AheadFinite, FS_Union
<1>5. Cardinality(Ahead(h, c) \cap all) \in Nat
  BY AheadFinite, FS_Intersection, FS_CardinalityType
<1>6. Cardinality(Ahead(g, c)) <= Cardinality(Ahead(h, c) \cup all)
  BY <1>3, <1>4, FS_Subset
<1>7. Cardinality(Ahead(g, c)) \in Nat /\ Cardinality(Ahead(h, c)) \in Nat
  BY AheadFinite
<1>8. Cardinality(Ahead(g, c)) <= Cardinality(Ahead(h, c)) + Retries + 1
  BY <1>0, <1>1, <1>4, <1>5, <1>6, <1>7
<1> QED BY <1>8 DEF g

(* Before the first callback.                                              *)
LEMMA InitXInv == ExchangeInit => XInv
<1> SUFFICES ASSUME ExchangeInit PROVE XInv
  OBVIOUS
<1>0. Retries \in Nat /\ MaxBegun \in Nat /\ \A c \in Codes : SessionOf(c) \in Keys
  BY ExchangeAssumption
<1>1. \A q \in Callbacks : handling[q] = Idle
  BY DEF ExchangeInit
<1>2. Idle \in Handling /\ ~Busy(Idle)
  BY <1>0 DEF Idle, Handling, Busy, Pages
<1>3. ExchangeTypeOK
  BY <1>0, <1>2 DEF ExchangeInit, ExchangeTypeOK
<1>4. LimiterTypes
  BY DEF ExchangeInit, Init, Remote!Init, LimiterTypes
<1>5. \A c \in Codes : RemoteOf(c) \in Remotes
  BY DEF Remotes
<1>6. Counted
  BY <1>0, <1>5 DEF ExchangeInit, Init, Remote!Init, Counted
<1>7. \A q \in Callbacks : Good(handling[q], visits, used, void)
  BY <1>1, <1>2 DEF Good, Idle
<1>8. Apart(handling, visits) /\ \A c \in used : visits[c] >= 1
  BY <1>1, <1>2 DEF ExchangeInit, Apart
<1>9. Paid(handling, posts, visits)
  <2>1. ASSUME NEW c \in Codes PROVE Cardinality(Ahead(handling, c)) = 0
    <3>1. Ahead(handling, c) = {}
      BY <1>1, <1>2 DEF Ahead, Remaining
    <3> QED BY <3>1, FS_EmptySet
  <2> QED BY <2>1, <1>0 DEF ExchangeInit, Paid
<1> QED BY <1>3, <1>4, <1>6, <1>7, <1>8, <1>9 DEF XInv

(* A step that ends a callback or leaves it at its code, with no more      *)
(* attempts ahead, and starts or exchanges nothing.                        *)
LEMMA StayXInv ==
  ASSUME XInv, NEW q \in Callbacks, NEW r \in Handling, Set(q, r),
         UNCHANGED <<used, void, posts, visits>>, begun' \in 0..MaxBegun, LimiterTypes', Counted',
         Good(r, visits, used, void),
         \A c \in Codes : Remaining(r, c) \subseteq Remaining(handling[q], c),
         Busy(r) => Busy(handling[q]) /\ r.code = handling[q].code
  PROVE  XInv'
<1> USE DEF XInv
<1>0. /\ handling \in [Callbacks -> Handling]
      /\ handling' = [handling EXCEPT ![q] = r]
      /\ \A p \in Callbacks : handling'[p] = IF p = q THEN r ELSE handling[p]
  BY DEF ExchangeTypeOK, Set
<1>1. ExchangeTypeOK'
  BY <1>0 DEF ExchangeTypeOK
<1>2. LimiterTypes' /\ Counted' /\ \A c \in used' : visits'[c] >= 1
  OBVIOUS
<1>3. \A p \in Callbacks : Good(handling'[p], visits', used', void')
  BY <1>0
<1>4. Apart(handling', visits')
  BY <1>0 DEF Apart
<1>5. Paid(handling', posts', visits')
  <2> SUFFICES ASSUME NEW c \in Codes
               PROVE  posts[c] + Cardinality(Ahead(handling', c)) <= (Retries + 1) * visits[c]
    BY DEF Paid
  <2>1. Cardinality(Ahead(handling', c)) <= Cardinality(Ahead(handling, c))
    BY <1>0, AheadShrinks
  <2>2. posts[c] + Cardinality(Ahead(handling, c)) <= (Retries + 1) * visits[c]
    BY DEF Paid
  <2> DEFINE budget == (Retries + 1) * visits[c]
  <2>3. posts[c] \in Nat /\ budget \in Int
    BY ExchangeAssumption DEF ExchangeTypeOK
  <2>4. Cardinality(Ahead(handling', c)) \in Nat /\ Cardinality(Ahead(handling, c)) \in Nat
    BY AheadFinite
  <2> HIDE DEF budget
  <2>5. posts[c] + Cardinality(Ahead(handling', c)) <= budget
    BY <2>1, <2>2, <2>3, <2>4 DEF budget
  <2> QED BY <2>5 DEF budget
<1> QED BY <1>1, <1>2, <1>3, <1>4, <1>5

(* The same, for a step of fetch.                                          *)
LEMMA MoveXInv ==
  ASSUME XInv, NEW q \in Callbacks, NEW r \in Handling, OnlyHandling, Set(q, r),
         Good(r, visits, used, void),
         \A c \in Codes : Remaining(r, c) \subseteq Remaining(handling[q], c),
         Busy(r) => Busy(handling[q]) /\ r.code = handling[q].code
  PROVE  XInv'
<1>1. UNCHANGED <<used, void, posts, visits>> /\ begun' \in 0..MaxBegun
  BY DEF XInv, ExchangeTypeOK, OnlyHandling
<1>2. LimiterTypes' /\ Counted'
  BY DEF XInv, LimiterTypes, Counted, OnlyHandling, LimitersIdle, vars, remoteVars
<1> QED BY <1>1, <1>2, StayXInv

(* The callback in a slot has come to its end for this reason.             *)
Ends(r, f, why) ==
  /\ r \in Handling /\ ~Busy(r) /\ r.why = why
  /\ why = "refused" => r.code = f.code /\ r.lost = f.lost
  /\ why = "exhausted" => r.failed = f.failed
  /\ \A c \in Codes : Remaining(r, c) = {}

(* A page ends a callback.                                                 *)
LEMMA PageEnds ==
  ASSUME NEW f \in Handling, NEW page \in Pages,
         NEW why \in {"none", "limit", "state", "host", "exhausted", "refused", "unusable"}
  PROVE  Ends(Page(f, page, why), f, why)
<1>0. /\ Retries \in Nat
      /\ f.failed \in 0..(Retries + 1) /\ f.code \in Codes \cup {NoCode} /\ f.lost \in BOOLEAN
  BY ExchangeAssumption DEF Handling
<1> DEFINE failed == IF why = "exhausted" THEN f.failed ELSE 0
           code   == IF why = "refused" THEN f.code ELSE NoCode
           lost   == why = "refused" /\ f.lost
<1>1. Page(f, page, why) =
        [Idle EXCEPT !.stage = "done", !.page = page, !.why = why,
                     !.failed = failed, !.code = code, !.lost = lost]
  BY DEF Page
<1>2. failed \in 0..(Retries + 1) /\ code \in Codes \cup {NoCode} /\ lost \in BOOLEAN
      /\ 0 \in 0..Retries
  BY <1>0
<1>3. /\ why = "refused" => code = f.code /\ lost = f.lost
      /\ why = "exhausted" => failed = f.failed
  BY <1>0
<1> DEFINE r == Page(f, page, why)
<1> HIDE DEF failed, code, lost, r
<1>4. r = [stage |-> "done", code |-> code, attempt |-> 0, failed |-> failed, reply |-> "none",
           lost |-> lost, page |-> page, why |-> why]
  BY <1>1, Zenon DEF Idle, r
<1>5. r \in Handling /\ r.stage = "done" /\ r.why = why
      /\ r.code = code /\ r.lost = lost /\ r.failed = failed
  BY <1>2, <1>4 DEF Handling
<1>6. ~Busy(r) /\ \A c \in Codes : Remaining(r, c) = {}
  BY <1>5 DEF Busy, Remaining
<1>7. Ends(r, f, why)
  BY <1>3, <1>5, <1>6 DEF Ends
<1> QED BY <1>7 DEF r

(* A failed attempt leaves one less.                                       *)
LEMMA AttemptFailedXInv ==
  ASSUME XInv, NEW q \in Callbacks, OnlyHandling, Set(q, AttemptFailed(handling[q])),
         \/ handling[q].stage = "send"
         \/ handling[q].stage = "wait" /\ handling[q].reply # "token"
  PROVE  XInv'
<1> DEFINE h == handling[q]
           f == [h EXCEPT !.failed = @ + 1, !.reply = "none"]
<1>0. h \in Handling /\ Busy(h) /\ Good(h, visits, used, void) /\ Retries \in Nat
  BY ExchangeAssumption DEF XInv, ExchangeTypeOK, Busy
<1>1. h.attempt \in 0..Retries /\ h.failed = h.attempt
  BY <1>0 DEF Good, Handling
<1>2. f \in Handling /\ f.failed = h.attempt + 1 /\ f.code = h.code /\ f.lost = h.lost
      /\ f.attempt = h.attempt /\ f.why = h.why
  <2>1. f = [h EXCEPT !.failed = h.attempt + 1, !.reply = "none"]
    BY <1>1
  <2>2. h.attempt + 1 \in 0..(Retries + 1)
    BY <1>0, <1>1
  <2> HIDE DEF f
  <2> QED BY <1>0, <2>1, <2>2 DEF Handling
<1>3. CASE LastAttempt(h)
  <2>1. AttemptFailed(h) = Page(f, "rejected", "exhausted")
    BY <1>3 DEF AttemptFailed
  <2>2. "rejected" \in Pages
    BY DEF Pages
  <2> DEFINE r == Page(f, "rejected", "exhausted")
             page == "rejected"
             why == "exhausted"
  <2>a. f.failed = Retries + 1
    BY <1>0, <1>1, <1>2, <1>3 DEF LastAttempt
  <2>b. /\ f \in Handling /\ page \in Pages /\ why = "exhausted"
        /\ why \in {"none", "limit", "state", "host", "exhausted", "refused", "unusable"}
    BY <1>2, <2>2
  <2> HIDE DEF f, page, why
  <2>c. r = Page(f, page, why)
    BY DEF page, why
  <2> HIDE DEF r
  <2>3. /\ r \in Handling /\ ~Busy(r) /\ r.why = "exhausted" /\ r.failed = Retries + 1
        /\ \A c \in Codes : Remaining(r, c) = {}
    <3>1. Ends(r, f, why)
      BY <2>b, <2>c, PageEnds
    <3> QED BY <2>a, <2>b, <3>1 DEF Ends
  <2>4. Good(r, visits, used, void)
    BY <2>3 DEF Good
  <2>5. Set(q, r)
    BY <2>1 DEF r
  <2> QED BY <2>3, <2>4, <2>5, MoveXInv
<1>4. CASE ~LastAttempt(h)
  <2> DEFINE r == [f EXCEPT !.stage = "sleep"]
  <2>1. AttemptFailed(h) = r
    BY <1>4 DEF AttemptFailed
  <2>2. /\ r \in Handling /\ r.code = h.code /\ r.stage = "sleep" /\ r.lost = h.lost
        /\ r.attempt = h.attempt /\ r.failed = h.attempt + 1 /\ r.why = h.why
    BY <1>0, <1>1, <1>2 DEF Handling
  <2>3. h.attempt < Retries
    BY <1>0, <1>1, <1>4 DEF LastAttempt
  <2> HIDE DEF f, r
  <2>4. Busy(r) /\ \A c : Remaining(r, c) \subseteq Remaining(h, c)
    BY <1>0, <1>1, <2>2 DEF Remaining, Busy
  <2>5. Good(r, visits, used, void)
    BY <1>0, <1>1, <2>2, <2>3 DEF Good, Busy
  <2>6. Set(q, r)
    BY <2>1
  <2> QED BY <1>0, <2>2, <2>4, <2>5, <2>6, MoveXInv
<1> QED BY <1>3, <1>4

(* A sleep ends in the next attempt.                                       *)
LEMMA WakeXInv ==
  ASSUME XInv, NEW q \in Callbacks, Wake(q)
  PROVE  XInv'
<1> DEFINE h == handling[q]
           r == [h EXCEPT !.stage = "send", !.attempt = @ + 1]
<1>0. h \in Handling /\ h.stage = "sleep" /\ Good(h, visits, used, void) /\ Retries \in Nat
  BY ExchangeAssumption DEF XInv, ExchangeTypeOK, Wake
<1>1. h.attempt \in 0..Retries /\ h.attempt < Retries
  BY <1>0 DEF Good, Handling, Busy
<1>2. /\ r \in Handling /\ r.stage = "send" /\ r.attempt = h.attempt + 1
      /\ r.code = h.code /\ r.lost = h.lost /\ r.failed = h.failed /\ r.why = h.why
  <2>1. h.attempt + 1 \in 0..Retries
    BY <1>0, <1>1
  <2> DEFINE n == h.attempt + 1
  <2>2. r = [h EXCEPT !.stage = "send", !.attempt = n]
    OBVIOUS
  <2> HIDE DEF n, r
  <2>3. n \in 0..Retries
    BY <2>1 DEF n
  <2>4. /\ r \in Handling /\ r.stage = "send" /\ r.attempt = n
        /\ r.code = h.code /\ r.lost = h.lost /\ r.failed = h.failed /\ r.why = h.why
    BY <1>0, <2>2, <2>3 DEF Handling
  <2> QED BY <2>4 DEF n
<1>3. Set(q, r) /\ OnlyHandling
  BY DEF Wake
<1> HIDE DEF r
<1>4. Busy(r) /\ Busy(h) /\ \A c : Remaining(r, c) \subseteq Remaining(h, c)
  BY <1>0, <1>1, <1>2 DEF Remaining, Busy
<1>5. Good(r, visits, used, void)
  BY <1>0, <1>1, <1>2 DEF Good, Busy
<1> QED BY <1>2, <1>3, <1>4, <1>5, MoveXInv

(* The answers that end a callback; a refusal is the one it was sent.      *)
LEMMA AnswerXInv ==
  ASSUME XInv, NEW q \in Callbacks, TooLong(q) \/ Refused(q) \/ Unreadable(q) \/ Connected(q)
  PROVE  XInv'
<1> DEFINE h == handling[q]
<1>0. h \in Handling /\ h.stage = "wait" /\ Busy(h) /\ Good(h, visits, used, void) /\ OnlyHandling
  BY DEF XInv, ExchangeTypeOK, Busy, TooLong, Refused, Unreadable, Connected
<1>1. PICK page \in Pages, why \in {"none", "refused", "unusable"} :
        Set(q, Page(h, page, why)) /\ (why = "refused" => h.reply = "refused")
  BY DEF TooLong, Refused, Unreadable, Connected, Pages
<1> DEFINE r == Page(h, page, why)
<1>a. why \in {"none", "limit", "state", "host", "exhausted", "refused", "unusable"}
  OBVIOUS
<1>3. Set(q, r)
  BY <1>1
<1> HIDE DEF h
<1>2. /\ r \in Handling /\ ~Busy(r) /\ r.why = why
      /\ why = "refused" => r.code = h.code /\ r.lost = h.lost
      /\ \A c \in Codes : Remaining(r, c) = {}
  <2>1. r = Page(h, page, why)
    OBVIOUS
  <2> HIDE DEF r
  <2>2. Ends(r, h, why)
    BY <1>0, <1>a, <2>1, PageEnds
  <2> QED BY <2>2 DEF Ends
<1> HIDE DEF r
<1>4. Good(r, visits, used, void)
  BY <1>0, <1>1, <1>2 DEF Good
<1> QED BY <1>0, <1>2, <1>3, <1>4, MoveXInv

(* A request is sent: the code may be used now, and its token get lost.    *)
LEMMA SendXInv ==
  ASSUME XInv, NEW q \in Callbacks, Send(q)
  PROVE  XInv'
<1> DEFINE h == handling[q]
           c == h.code
<1>0. /\ h \in Handling /\ h.stage = "send" /\ Good(h, visits, used, void) /\ Retries \in Nat
      /\ handling \in [Callbacks -> Handling] /\ visits \in [Codes -> Nat]
      /\ posts \in [Codes -> Nat] /\ begun \in 0..MaxBegun /\ used \subseteq Codes /\ void \subseteq Codes
  BY ExchangeAssumption DEF XInv, ExchangeTypeOK, Send
<1>1. c \in Codes /\ visits[c] >= 1
  BY <1>0 DEF Good, Busy
<1>2. PICK x \in {"none", "token", "refused", "broken"}, lost \in BOOLEAN :
        /\ Set(q, [h EXCEPT !.stage = "wait", !.reply = x, !.lost = @ \/ lost])
        /\ \/ c \notin used /\ used' = used \cup {c} /\ x # "refused" /\ (x = "token" \/ lost)
           \/ used' = used /\ (c \in used \/ c \in void')
           \/ used' = used /\ x # "refused"
  BY DEF Send
<1>v. void \subseteq void' /\ void' \subseteq Codes
  BY <1>0, <1>1 DEF Send
<1> DEFINE r == [h EXCEPT !.stage = "wait", !.reply = x, !.lost = @ \/ lost]
           l == h.lost \/ lost
<1>3. /\ r \in Handling /\ r.stage = "wait" /\ r.reply = x /\ r.code = c
      /\ r.attempt = h.attempt /\ r.failed = h.failed /\ r.why = h.why
      /\ r.lost = l
  <2>1. l \in BOOLEAN
    BY <1>0 DEF Handling
  <2>2. r = [h EXCEPT !.stage = "wait", !.reply = x, !.lost = l]
    OBVIOUS
  <2> HIDE DEF l, r
  <2> QED BY <1>0, <2>1, <2>2 DEF Handling
<1>4. (l <=> (h.lost \/ lost))
  OBVIOUS
<1> HIDE DEF r, l
<1>5. /\ handling' = [handling EXCEPT ![q] = r]
      /\ \A p \in Callbacks : handling'[p] = IF p = q THEN r ELSE handling[p]
  BY <1>0, <1>2 DEF Set, r
<1>6. visits' = visits /\ begun' = begun /\ posts' = [posts EXCEPT ![c] = @ + 1]
  BY DEF Send
<1>7. ExchangeTypeOK'
  BY <1>0, <1>1, <1>2, <1>v, <1>3, <1>5, <1>6 DEF ExchangeTypeOK
<1>8. LimiterTypes' /\ Counted'
  BY DEF XInv, LimiterTypes, Counted, Send, LimitersIdle, vars, remoteVars
<1>9. \A d \in used' : visits'[d] >= 1
  BY <1>1, <1>2, <1>6 DEF XInv
<1>10. Good(r, visits, used', void')
  <2>1. Busy(h) /\ Busy(r)
    BY <1>0, <1>3 DEF Busy
  <2>2. h.why = "none" /\ h.failed = h.attempt /\ (c \in used => h.lost \/ visits[c] > 1)
    BY <1>0, <2>1 DEF Good
  <2>3. c \in used' => r.lost \/ visits[c] > 1 \/ r.reply = "token"
    BY <1>2, <1>3, <1>4, <2>2
  <2>4. r.reply = "refused" => r.lost \/ visits[c] > 1 \/ c \in void'
    BY <1>2, <1>3, <1>4, <2>2
  <2> QED BY <1>1, <1>3, <2>2, <2>3, <2>4 DEF Good
<1>11. \A p \in Callbacks : Good(handling'[p], visits', used', void')
  <2> SUFFICES ASSUME NEW p \in Callbacks, p # q PROVE Good(handling[p], visits, used', void')
    BY <1>5, <1>6, <1>10
  <2>1. Good(handling[p], visits, used, void)
    BY DEF XInv
  <2>2. Busy(handling[p]) /\ handling[p].code = c => visits[c] >= 2
    BY <1>0, <1>1 DEF XInv, Apart, Busy
  <2>3. used' \subseteq used \cup {c}
    BY <1>2
  <2>4. Busy(handling[p]) /\ handling[p].code = c => visits[handling[p].code] > 1
    BY <1>0, <1>1, <2>2
  <2> HIDE DEF h, c
  <2> QED BY <1>v, <2>1, <2>3, <2>4 DEF Good
<1>12. Apart(handling', visits')
  BY <1>0, <1>3, <1>5, <1>6 DEF XInv, Apart, Busy
<1>13. Paid(handling', posts', visits')
  <2> SUFFICES ASSUME NEW d \in Codes
               PROVE  posts'[d] + Cardinality(Ahead(handling', d)) <= (Retries + 1) * visits[d]
    BY <1>6 DEF Paid
  <2> DEFINE budget == (Retries + 1) * visits[d]
  <2>1. posts[d] + Cardinality(Ahead(handling, d)) <= budget /\ budget \in Int /\ posts[d] \in Nat
    BY <1>0 DEF XInv, Paid
  <2>2. Cardinality(Ahead(handling', d)) \in Nat /\ Cardinality(Ahead(handling, d)) \in Nat
    BY AheadFinite
  <2> HIDE DEF budget
  <2>3. CASE d = c
    <3>1. Cardinality(Ahead(handling', d)) <= Cardinality(Ahead(handling, d)) - 1
      BY <1>0, <1>3, <1>5, <2>3, AheadSent
    <3>2. posts'[d] = posts[d] + 1
      BY <1>0, <1>6, <2>3
    <3>3. posts'[d] + Cardinality(Ahead(handling', d)) <= budget
      BY <2>1, <2>2, <3>1, <3>2
    <3> QED BY <3>3 DEF budget
  <2>4. CASE d # c
    <3>1. Remaining(r, d) \subseteq Remaining(handling[q], d)
      BY <1>3, <2>4 DEF Remaining
    <3>2. Cardinality(Ahead(handling', d)) <= Cardinality(Ahead(handling, d))
      BY <1>0, <1>5, <3>1, AheadShrinks
    <3>3. posts'[d] = posts[d]
      BY <1>0, <1>6, <2>4
    <3>4. posts'[d] + Cardinality(Ahead(handling', d)) <= budget
      BY <2>1, <2>2, <3>2, <3>3
    <3> QED BY <3>4 DEF budget
  <2> QED BY <2>3, <2>4
<1> QED BY <1>7, <1>8, <1>9, <1>11, <1>12, <1>13 DEF XInv

(* What a limiter has let through only grows, by one when it allows.       *)
LEMMA CheckGrows ==
  ASSUME LimiterTypes, NEW k \in Keys, Check(k)
  PROVE  /\ now' = now
         /\ admitted' \in [Keys -> Seq(Nat)] /\ answers' \in [Keys -> [allowed : BOOLEAN, at : Nat]]
         /\ \A j \in Keys : Len(admitted'[j]) >= Len(admitted[j])
         /\ answers'[k].allowed => Len(admitted'[k]) = Len(admitted[k]) + 1
<1>0. /\ now \in Nat /\ admitted \in [Keys -> Seq(Nat)]
      /\ answers \in [Keys -> [allowed : BOOLEAN, at : Nat]]
  BY DEF LimiterTypes
<1>1. PICK allowed \in BOOLEAN :
        /\ answers' = [answers EXCEPT ![k] = [allowed |-> allowed, at |-> now]]
        /\ now' = now
        /\ \/ ~allowed /\ admitted' = admitted
           \/ admitted' = [admitted EXCEPT ![k] = Append(@, now)]
  BY DEF Check
<1>2. answers' \in [Keys -> [allowed : BOOLEAN, at : Nat]] /\ answers'[k].allowed = allowed
  BY <1>0, <1>1
<1>3. CASE ~allowed /\ admitted' = admitted
  BY <1>0, <1>1, <1>2, <1>3
<1>4. CASE admitted' = [admitted EXCEPT ![k] = Append(@, now)]
  <2>1. admitted[k] \in Seq(Nat)
    BY <1>0
  <2>2. Append(admitted[k], now) \in Seq(Nat)
        /\ Len(Append(admitted[k], now)) = Len(admitted[k]) + 1
    BY <1>0, <2>1
  <2> DEFINE longer == Append(admitted[k], now)
  <2>3. admitted' = [admitted EXCEPT ![k] = longer]
    BY <1>4
  <2>4. longer \in Seq(Nat) /\ Len(longer) = Len(admitted[k]) + 1
    BY <2>2
  <2> HIDE DEF longer
  <2>5. \A j \in Keys : Len(admitted[j]) \in Nat
    BY <1>0
  <2> QED BY <1>0, <1>1, <1>2, <2>3, <2>4, <2>5
<1> QED BY <1>1, <1>3, <1>4

(* The same of the limiter per address.                                    *)
LEMMA RemoteCheckGrows ==
  ASSUME LimiterTypes, NEW k \in Remotes, Remote!Check(k)
  PROVE  /\ now' = now
         /\ remoteAdmitted' \in [Remotes -> Seq(Nat)] /\ remoteAnswers' \in [Remotes -> [allowed : BOOLEAN, at : Nat]]
         /\ \A j \in Remotes : Len(remoteAdmitted'[j]) >= Len(remoteAdmitted[j])
         /\ remoteAnswers'[k].allowed => Len(remoteAdmitted'[k]) = Len(remoteAdmitted[k]) + 1
<1>0. /\ now \in Nat /\ remoteAdmitted \in [Remotes -> Seq(Nat)]
      /\ remoteAnswers \in [Remotes -> [allowed : BOOLEAN, at : Nat]]
  BY DEF LimiterTypes
<1>1. PICK allowed \in BOOLEAN :
        /\ remoteAnswers' = [remoteAnswers EXCEPT ![k] = [allowed |-> allowed, at |-> now]]
        /\ now' = now
        /\ \/ ~allowed /\ remoteAdmitted' = remoteAdmitted
           \/ remoteAdmitted' = [remoteAdmitted EXCEPT ![k] = Append(@, now)]
  BY DEF Remote!Check
<1>2. remoteAnswers' \in [Remotes -> [allowed : BOOLEAN, at : Nat]] /\ remoteAnswers'[k].allowed = allowed
  BY <1>0, <1>1
<1>3. CASE ~allowed /\ remoteAdmitted' = remoteAdmitted
  BY <1>0, <1>1, <1>2, <1>3
<1>4. CASE remoteAdmitted' = [remoteAdmitted EXCEPT ![k] = Append(@, now)]
  <2>1. remoteAdmitted[k] \in Seq(Nat)
    BY <1>0
  <2>2. Append(remoteAdmitted[k], now) \in Seq(Nat)
        /\ Len(Append(remoteAdmitted[k], now)) = Len(remoteAdmitted[k]) + 1
    BY <1>0, <2>1
  <2> DEFINE longer == Append(remoteAdmitted[k], now)
  <2>3. remoteAdmitted' = [remoteAdmitted EXCEPT ![k] = longer]
    BY <1>4
  <2>4. longer \in Seq(Nat) /\ Len(longer) = Len(remoteAdmitted[k]) + 1
    BY <2>2
  <2> HIDE DEF longer
  <2>5. \A j \in Remotes : Len(remoteAdmitted[j]) \in Nat
    BY <1>0
  <2> QED BY <1>0, <1>1, <1>2, <2>3, <2>4, <2>5
<1> QED BY <1>1, <1>3, <1>4

(* A callback is turned away, or sets out as one more visit of its code.   *)
LEMMA CallbackXInv ==
  ASSUME XInv, NEW q \in Callbacks, NEW c \in Codes, Callback(q, c)
  PROVE  XInv'
<1> DEFINE h == handling[q]
           f == [Idle EXCEPT !.code = c]
           k == SessionOf(c)
           m == RemoteOf(c)
<1>0. /\ h \in Handling /\ ~Busy(h) /\ Retries \in Nat /\ MaxBegun \in Nat
      /\ handling \in [Callbacks -> Handling] /\ visits \in [Codes -> Nat]
      /\ posts \in [Codes -> Nat] /\ begun \in 0..MaxBegun /\ used \subseteq Codes /\ void \subseteq Codes
      /\ \A d \in Codes : SessionOf(d) \in Keys /\ RemoteOf(d) \in Remotes
  BY ExchangeAssumption DEF XInv, ExchangeTypeOK, Callback, Busy, Remotes
<1>1. begun' \in 0..MaxBegun /\ used' = used /\ void' = void /\ posts' = posts
  BY <1>0 DEF Callback
<1>2. /\ f \in Handling /\ f.code = c /\ f.attempt = 0 /\ f.failed = 0
      /\ f.reply = "none" /\ f.why = "none"
  <2>1. /\ Idle \in Handling /\ Idle.attempt = 0 /\ Idle.failed = 0
        /\ Idle.reply = "none" /\ Idle.why = "none"
    BY <1>0 DEF Idle, Handling, Pages
  <2> QED BY <2>1 DEF Handling
<1>3. /\ LimiterTypes
      /\ \A d \in Codes : /\ visits[d] <= Len(admitted[SessionOf(d)])
                          /\ visits[d] <= Len(remoteAdmitted[RemoteOf(d)])
                          /\ Len(admitted[SessionOf(d)]) \in Nat
                          /\ Len(remoteAdmitted[RemoteOf(d)]) \in Nat
  BY <1>0 DEF XInv, Counted, LimiterTypes
<1>4. Remote!Check(m) /\ (UNCHANGED limiterVars \/ Check(k))
  BY DEF Callback
<1>5. /\ now' = now
      /\ remoteAdmitted' \in [Remotes -> Seq(Nat)]
      /\ remoteAnswers' \in [Remotes -> [allowed : BOOLEAN, at : Nat]]
      /\ \A j \in Remotes : Len(remoteAdmitted'[j]) >= Len(remoteAdmitted[j])
      /\ remoteAnswers'[m].allowed => Len(remoteAdmitted'[m]) = Len(remoteAdmitted[m]) + 1
  BY <1>0, <1>3, <1>4, RemoteCheckGrows
<1>6. ASSUME Check(k)
      PROVE  /\ admitted' \in [Keys -> Seq(Nat)] /\ answers' \in [Keys -> [allowed : BOOLEAN, at : Nat]]
             /\ \A j \in Keys : Len(admitted'[j]) >= Len(admitted[j])
             /\ answers'[k].allowed => Len(admitted'[k]) = Len(admitted[k]) + 1
  BY <1>0, <1>3, <1>6, CheckGrows
<1>7. ASSUME UNCHANGED limiterVars
      PROVE  /\ admitted' \in [Keys -> Seq(Nat)] /\ answers' \in [Keys -> [allowed : BOOLEAN, at : Nat]]
             /\ \A j \in Keys : Len(admitted'[j]) >= Len(admitted[j])
  <2>1. admitted' = admitted /\ answers' = answers
    BY <1>7 DEF limiterVars
  <2>2. \A j \in Keys : Len(admitted[j]) \in Nat
    BY <1>3 DEF LimiterTypes
  <2> QED BY <1>3, <2>1, <2>2 DEF LimiterTypes
<1>8. LimiterTypes'
  BY <1>3, <1>4, <1>5, <1>6, <1>7 DEF LimiterTypes
<1>9. \A d \in Codes : /\ Len(admitted'[SessionOf(d)]) >= Len(admitted[SessionOf(d)])
                       /\ Len(remoteAdmitted'[RemoteOf(d)]) >= Len(remoteAdmitted[RemoteOf(d)])
                       /\ Len(admitted'[SessionOf(d)]) \in Nat
                       /\ Len(remoteAdmitted'[RemoteOf(d)]) \in Nat
  BY <1>0, <1>4, <1>5, <1>6, <1>7
<1>10. CASE /\ UNCHANGED visits
            /\ \E page \in {"too_many", "rejected"}, why \in {"none", "limit", "state", "host"} :
                 Set(q, Page(f, page, why))
  <2>1. PICK page \in {"too_many", "rejected"}, why \in {"none", "limit", "state", "host"} :
          Set(q, Page(f, page, why))
    BY <1>10
  <2> DEFINE r == Page(f, page, why)
  <2>2. /\ page \in Pages
        /\ why \in {"none", "limit", "state", "host", "exhausted", "refused", "unusable"}
    BY DEF Pages
  <2>3. f \in Handling
    BY <1>2
  <2> HIDE DEF f
  <2>4. Set(q, r)
    BY <2>1
  <2>5. r = Page(f, page, why)
    OBVIOUS
  <2> HIDE DEF r
  <2>6. r \in Handling /\ ~Busy(r) /\ r.why = why
        /\ \A d \in Codes : Remaining(r, d) = {}
    <3>1. Ends(r, f, why)
      BY <2>2, <2>3, <2>5, PageEnds
    <3> QED BY <3>1 DEF Ends
  <2>7. Good(r, visits, used, void)
    <3>1. why # "refused" /\ why # "exhausted"
      OBVIOUS
    <3> QED BY <2>6, <3>1 DEF Good
  <2>8. visits' = visits
    BY <1>10
  <2>9. Counted'
    BY <1>0, <1>3, <1>9, <2>8 DEF Counted
  <2> QED BY <1>1, <1>8, <2>4, <2>6, <2>7, <2>8, <2>9, StayXInv
<1>11. CASE /\ visits' = [visits EXCEPT ![c] = @ + 1]
            /\ Set(q, [f EXCEPT !.stage = "send"])
            /\ remoteAnswers'[m].allowed /\ Check(k) /\ answers'[k].allowed
  <2> DEFINE r == [f EXCEPT !.stage = "send"]
  <2>1. /\ r \in Handling /\ r.stage = "send" /\ r.code = c /\ r.attempt = 0 /\ r.failed = 0
        /\ r.reply = "none" /\ r.why = "none" /\ Busy(r)
    BY <1>2 DEF Handling, Busy
  <2>2. /\ handling' = [handling EXCEPT ![q] = r]
        /\ \A p \in Callbacks : handling'[p] = IF p = q THEN r ELSE handling[p]
    BY <1>0, <1>11 DEF Set
  <2> HIDE DEF r, f, h
  <2>3. /\ visits' \in [Codes -> Nat] /\ visits'[c] = visits[c] + 1
        /\ \A d \in Codes : d # c => visits'[d] = visits[d]
        /\ \A d \in Codes : visits'[d] >= visits[d] /\ visits[d] \in Nat /\ visits'[d] \in Nat
    BY <1>0, <1>11
  <2>4. ExchangeTypeOK'
    BY <1>0, <1>1, <2>1, <2>2, <2>3 DEF ExchangeTypeOK
  <2>5. Counted'
    <3>1. Len(admitted'[k]) = Len(admitted[k]) + 1 /\ Len(remoteAdmitted'[m]) = Len(remoteAdmitted[m]) + 1
      BY <1>5, <1>6, <1>11
    <3>2. ASSUME NEW d \in Codes
          PROVE  visits'[d] <= Len(admitted'[SessionOf(d)])
                 /\ visits'[d] <= Len(remoteAdmitted'[RemoteOf(d)])
      <4>1. CASE d = c
        <5>1. /\ visits[c] <= Len(admitted[k]) /\ visits[c] <= Len(remoteAdmitted[m])
              /\ Len(admitted[k]) \in Nat /\ Len(remoteAdmitted[m]) \in Nat
          BY <1>3
        <5>2. visits'[c] = visits[c] + 1 /\ visits[c] \in Nat
          BY <2>3
        <5>3. visits'[c] <= Len(admitted'[k]) /\ visits'[c] <= Len(remoteAdmitted'[m])
          BY <3>1, <5>1, <5>2
        <5> QED BY <4>1, <5>3
      <4>2. CASE d # c
        <5>1. visits'[d] = visits[d] /\ visits[d] \in Nat
          BY <2>3, <4>2
        <5> QED BY <1>3, <1>9, <5>1
      <4> QED BY <4>1, <4>2
    <3> QED BY <3>2 DEF Counted
  <2>6. \A d \in used' : visits'[d] >= 1
    <3>1. \A d \in used : visits[d] >= 1
      BY DEF XInv
    <3> QED BY <1>0, <1>1, <2>3, <3>1
  <2>7. \A p \in Callbacks : Good(handling'[p], visits', used', void')
    <3>1. Good(r, visits', used', void')
      <4>1. c \in used => visits[c] >= 1
        BY DEF XInv
      <4>2. visits'[c] >= 1 /\ (c \in used => visits'[c] > 1)
        BY <2>3, <4>1
      <4> QED BY <1>1, <2>1, <4>2 DEF Good
    <3>2. ASSUME NEW p \in Callbacks, p # q PROVE Good(handling[p], visits', used', void')
      <4>1. Good(handling[p], visits, used, void)
        BY DEF XInv
      <4>2. \A d \in Codes : /\ visits[d] >= 1 => visits'[d] >= 1
                             /\ visits[d] > 1 => visits'[d] > 1
        BY <2>3
      <4> QED BY <1>1, <4>1, <4>2 DEF Good
    <3> QED BY <2>2, <3>1, <3>2
  <2>8. Apart(handling', visits')
    <3>1. \A p \in Callbacks : Busy(handling[p]) /\ handling[p].code = c => visits[c] >= 1
      BY DEF XInv, Good
    <3>2. Apart(handling, visits)
      BY DEF XInv
    <3>3. \A p, x \in Callbacks :
            p # x /\ Busy(handling'[p]) /\ Busy(handling'[x])
                  /\ handling'[p].code = handling'[x].code /\ handling'[p].code \in Codes
              => visits'[handling'[p].code] >= 2
      <4> SUFFICES ASSUME NEW p \in Callbacks, NEW x \in Callbacks,
                          p # x, Busy(handling'[p]), Busy(handling'[x]),
                          handling'[p].code = handling'[x].code, handling'[p].code \in Codes
                   PROVE  visits'[handling'[p].code] >= 2
        OBVIOUS
      <4>1. CASE p = q
        BY <2>1, <2>2, <2>3, <3>1, <4>1
      <4>2. CASE x = q
        BY <2>1, <2>2, <2>3, <3>1, <4>2
      <4>3. CASE p # q /\ x # q
        <5>1. handling'[p] = handling[p] /\ handling'[x] = handling[x]
          BY <2>2, <4>3
        <5>2. visits[handling[p].code] >= 2
          BY <3>2, <5>1 DEF Apart
        <5> QED BY <2>3, <5>1, <5>2
      <4> QED BY <4>1, <4>2, <4>3
    <3> QED BY <3>3 DEF Apart
  <2>9. Paid(handling', posts', visits')
    <3> SUFFICES ASSUME NEW d \in Codes
                 PROVE  posts[d] + Cardinality(Ahead(handling', d)) <= (Retries + 1) * visits'[d]
      BY <1>1 DEF Paid
    <3> DEFINE budget == (Retries + 1) * visits[d]
               later  == (Retries + 1) * visits'[d]
    <3>1. posts[d] + Cardinality(Ahead(handling, d)) <= budget /\ posts[d] \in Nat
          /\ budget \in Int /\ later \in Int
      BY <1>0, <2>3 DEF XInv, Paid
    <3>2. Cardinality(Ahead(handling', d)) \in Nat /\ Cardinality(Ahead(handling, d)) \in Nat
      BY AheadFinite
    <3>3. CASE d = c
      <4>1. Cardinality(Ahead(handling', d)) <= Cardinality(Ahead(handling, d)) + Retries + 1
        BY <1>0, <2>1, <2>2, AheadVisit
      <4>2. later = budget + (Retries + 1)
        BY <1>0, <2>3, <3>3
      <4> HIDE DEF budget, later
      <4>3. posts[d] + Cardinality(Ahead(handling', d)) <= later
        BY <1>0, <3>1, <3>2, <4>1, <4>2
      <4> QED BY <4>3 DEF later
    <3>4. CASE d # c
      <4>1. Remaining(r, d) \subseteq Remaining(handling[q], d)
        BY <2>1, <3>4 DEF Remaining
      <4>2. Cardinality(Ahead(handling', d)) <= Cardinality(Ahead(handling, d))
        BY <1>0, <2>2, <4>1, AheadShrinks
      <4>3. later = budget
        BY <2>3, <3>4
      <4> HIDE DEF budget, later
      <4>4. posts[d] + Cardinality(Ahead(handling', d)) <= later
        BY <3>1, <3>2, <4>2, <4>3
      <4> QED BY <4>4 DEF later
    <3> QED BY <3>3, <3>4
  <2> QED BY <1>8, <2>4, <2>5, <2>6, <2>7, <2>8, <2>9 DEF XInv
<1> QED BY <1>10, <1>11 DEF Callback, Unsent

(* Every step keeps the invariant.                                         *)
LEMMA NextXInv == XInv /\ [ExchangeNext]_allVars => XInv'
<1> SUFFICES ASSUME XInv, [ExchangeNext]_allVars PROVE XInv'
  OBVIOUS
<1>1. ASSUME NEW q \in Callbacks, NEW c \in Codes, Callback(q, c) PROVE XInv'
  BY <1>1, CallbackXInv
<1>2. ASSUME NEW q \in Callbacks, Proceeds(q) PROVE XInv'
  <2>1. CASE Send(q)
    BY <2>1, SendXInv
  <2>2. CASE Fails(q) \/ ServerError(q)
    BY <2>2, AttemptFailedXInv DEF Fails, ServerError
  <2>3. CASE Wake(q)
    BY <2>3, WakeXInv
  <2>4. CASE TooLong(q) \/ Refused(q) \/ Unreadable(q) \/ Connected(q)
    BY <2>4, AnswerXInv
  <2> QED BY <1>2, <2>1, <2>2, <2>3, <2>4 DEF Proceeds
<1>3. CASE Time \/ UNCHANGED allVars
  <2>1. UNCHANGED <<exchangeVars, admitted, answers, remoteVars>> /\ now' \in Nat
    BY <1>3 DEF Time, Tick, allVars, vars, exchangeVars, remoteVars, XInv, LimiterTypes
  <2>2. UNCHANGED <<handling, used, void, posts, visits, begun, admitted, answers,
                    remoteAdmitted, remoteAnswers>>
    BY <2>1 DEF exchangeVars, remoteVars
  <2> QED BY <2>1, <2>2 DEF XInv, ExchangeTypeOK, LimiterTypes, Counted, Apart, Paid
<1> QED BY <1>1, <1>2, <1>3 DEF ExchangeNext

(* The invariant of the retry loop.                                        *)
THEOREM ExchangeInvariant == ExchangeSpec => []XInv
BY InitXInv, NextXInv, PTL DEF ExchangeSpec

(* No callback counts more attempts than it may make.                      *)
THEOREM ExchangeTypeCorrect == ExchangeSpec => []ExchangeTypeOK
<1>1. XInv => ExchangeTypeOK
  BY DEF XInv
<1> QED BY <1>1, ExchangeInvariant, PTL

(* Repeating a POST gets nobody's good code refused but who asked twice or *)
(* lost the token on its way, and nobody whose request was sent is given   *)
(* up on before the last attempt.                                          *)
THEOREM RejectionsJustified == ExchangeSpec => []RejectionJustified
<1>1. XInv => RejectionJustified
  BY DEF XInv, Good, RejectionJustified
<1> QED BY <1>1, ExchangeInvariant, PTL

(* The provider gets Retries + 1 requests at most for every callback that  *)
(* both limiters let through.                                              *)
THEOREM ProviderIsSpared == ExchangeSpec => []ProviderSpared
<1>1. ASSUME XInv PROVE ProviderSpared
  <2>1. ASSUME NEW c \in Codes PROVE posts[c] <= (Retries + 1) * visits[c]
    <3> DEFINE budget == (Retries + 1) * visits[c]
    <3>1. posts[c] + Cardinality(Ahead(handling, c)) <= budget /\ posts[c] \in Nat /\ budget \in Int
      BY <1>1, ExchangeAssumption DEF XInv, Paid, ExchangeTypeOK
    <3>2. Cardinality(Ahead(handling, c)) \in Nat
      BY AheadFinite
    <3> HIDE DEF budget
    <3>3. posts[c] <= budget
      BY <3>1, <3>2
    <3> QED BY <3>3 DEF budget
  <2> QED BY <1>1, <2>1 DEF XInv, Counted, ProviderSpared
<1> QED BY <1>1, ExchangeInvariant, PTL
=============================================================================
