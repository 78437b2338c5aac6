------------------------- MODULE RateLimiter_proofs -------------------------
(* That the sliding window bounds and never over-refuses, for any keys,    *)
(* limit and window.                                                       *)
EXTENDS RateLimiter, SequenceTheorems, TLAPS

(* A bucket h is what is left of the times A that were let through when    *)
(* those too old to matter at t are dropped; times are in order and past.  *)
Tracks(h, A, t) ==
    /\ Len(h) <= Len(A)
    /\ \A i \in 1..Len(h) : h[i] = A[Len(A) - Len(h) + i]
    /\ \A i \in 1..(Len(A) - Len(h)) : A[i] < t - Window
    /\ \A i, j \in 1..Len(A) : i <= j => A[i] <= A[j]
    /\ \A i \in 1..Len(A) : A[i] <= t

IInv ==
    /\ TypeOK
    /\ WindowBound
    /\ RefusalJustified
    /\ \A k \in Keys : Tracks(Hits(k), admitted[k], now)

-----------------------------------------------------------------------------
(* A key has a bucket of times, empty at first.                            *)
LEMMA HitsType ==
  ASSUME TypeOK, NEW k \in Keys
  PROVE  Hits(k) \in Seq(Nat) /\ Len(Hits(k)) <= Limit
BY LimiterAssumption DEF TypeOK, Hits

(* Popping the hits that are too old leaves a bucket that still tracks,    *)
(* and what is left is within the window.                                  *)
LEMMA PoppedTracks ==
  ASSUME now \in Nat, NEW h \in Seq(Nat), NEW A \in Seq(Nat), Tracks(h, A, now),
         NEW n \in 0..Len(h), Popped(h, n)
  PROVE  LET kept == SubSeq(h, n + 1, Len(h)) IN
         /\ kept \in Seq(Nat)
         /\ Len(kept) = Len(h) - n
         /\ Tracks(kept, A, now)
         /\ kept # <<>> => kept[1] >= now - Window
<1> DEFINE kept == SubSeq(h, n + 1, Len(h))
<1>1. /\ kept \in Seq(Nat)
      /\ Len(kept) = Len(h) - n
      /\ \A i \in 1..Len(kept) : kept[i] = h[n + i]
  BY SubSeqProperties, n + 1 \in Int, Len(h) \in Int, \A i \in (n + 1)..Len(h) : h[i] \in Nat
<1> HIDE DEF kept
<1>0. Window \in Nat /\ Len(h) \in Nat /\ Len(A) \in Nat
  BY LimiterAssumption
<1>2. \A i \in 1..Len(kept) : kept[i] = A[Len(A) - Len(kept) + i]
  BY <1>1 DEF Tracks
<1>3. \A i \in 1..(Len(A) - Len(kept)) : A[i] < now - Window
  <2> SUFFICES ASSUME NEW i \in 1..(Len(A) - Len(kept))
               PROVE  A[i] < now - Window
    OBVIOUS
  <2>1. CASE i <= Len(A) - Len(h)
    BY <2>1 DEF Tracks
  <2>2. CASE i > Len(A) - Len(h)
    <3>1. i - (Len(A) - Len(h)) \in 1..n
      BY <1>1, <2>2 DEF Tracks
    <3>2. h[i - (Len(A) - Len(h))] = A[i]
      BY <3>1 DEF Tracks
    <3> QED BY <3>1, <3>2 DEF Popped
  <2> QED BY <2>1, <2>2
<1>4. Tracks(kept, A, now)
  <2>1. Len(kept) <= Len(A)
    BY <1>0, <1>1 DEF Tracks
  <2> QED BY <2>1, <1>2, <1>3 DEF Tracks
<1>5. kept # <<>> => kept[1] >= now - Window
  <2> SUFFICES ASSUME kept # <<>> PROVE kept[1] >= now - Window
    OBVIOUS
  <2>1. Len(kept) > 0
    BY <1>1, EmptySeq
  <2>2. n < Len(h) /\ 1 \in 1..Len(kept)
    BY <1>0, <1>1, <2>1
  <2>3. kept[1] = h[n + 1]
    BY <1>1, <2>2
  <2> QED BY <2>2, <2>3 DEF Popped
<1> QED BY <1>1, <1>4, <1>5 DEF kept

(* A hit recorded in the bucket and in the history keeps them in step.     *)
LEMMA AppendTracks ==
  ASSUME now \in Nat, NEW h \in Seq(Nat), NEW A \in Seq(Nat), Tracks(h, A, now)
  PROVE  Tracks(Append(h, now), Append(A, now), now)
<1> DEFINE h2 == Append(h, now)
           A2 == Append(A, now)
<1>1. /\ Len(h2) = Len(h) + 1 /\ Len(A2) = Len(A) + 1
      /\ \A i \in 1..Len(h) : h2[i] = h[i]
      /\ \A i \in 1..Len(A) : A2[i] = A[i]
      /\ h2[Len(h) + 1] = now /\ A2[Len(A) + 1] = now
      /\ Len(h) \in Nat /\ Len(A) \in Nat
      /\ \A i \in 1..Len(A) : A[i] \in Nat
  OBVIOUS
<1> HIDE DEF h2, A2
<1>2. \A i \in 1..Len(h2) : h2[i] = A2[Len(A2) - Len(h2) + i]
  <2> SUFFICES ASSUME NEW i \in 1..Len(h2) PROVE h2[i] = A2[Len(A2) - Len(h2) + i]
    OBVIOUS
  <2>1. CASE i \in 1..Len(h)
    <3>1. /\ Len(A2) - Len(h2) + i = Len(A) - Len(h) + i
          /\ Len(A) - Len(h) + i \in 1..Len(A)
      BY <1>1, <2>1 DEF Tracks
    <3> QED BY <1>1, <2>1, <3>1 DEF Tracks
  <2>2. CASE i = Len(h) + 1
    <3>1. Len(A2) - Len(h2) + i = Len(A) + 1
      BY <1>1, <2>2
    <3> QED BY <1>1, <2>2, <3>1
  <2> QED BY <1>1, <2>1, <2>2
<1>3. \A i \in 1..(Len(A2) - Len(h2)) : A2[i] < now - Window
  <2> SUFFICES ASSUME NEW i \in 1..(Len(A2) - Len(h2)) PROVE A2[i] < now - Window
    OBVIOUS
  <2>1. i \in 1..(Len(A) - Len(h)) /\ i \in 1..Len(A)
    BY <1>1
  <2> QED BY <1>1, <2>1 DEF Tracks
<1>4. \A i, j \in 1..Len(A2) : i <= j => A2[i] <= A2[j]
  <2> SUFFICES ASSUME NEW i \in 1..Len(A2), NEW j \in 1..Len(A2), i <= j
               PROVE  A2[i] <= A2[j]
    OBVIOUS
  <2>1. CASE j \in 1..Len(A)
    <3>1. i \in 1..Len(A)
      BY <1>1, <2>1
    <3> QED BY <1>1, <2>1, <3>1 DEF Tracks
  <2>2. CASE j = Len(A) + 1 /\ i \in 1..Len(A)
    BY <1>1, <2>2 DEF Tracks
  <2>3. CASE j = Len(A) + 1 /\ i = Len(A) + 1
    BY <1>1, <2>3
  <2> QED BY <1>1, <2>1, <2>2, <2>3
<1>5. Tracks(h2, A2, now)
  BY <1>1, <1>2, <1>3, <1>4 DEF Tracks
<1> QED BY <1>5 DEF h2, A2

-----------------------------------------------------------------------------
(* The limiter starts with nothing let through and nothing refused.        *)
LEMMA InitIInv == Init => IInv
BY LimiterAssumption DEF Init, IInv, TypeOK, WindowBound, RefusalJustified, Hits, Tracks

(* As time passes hits only get older.                                     *)
LEMMA TickIInv ==
  ASSUME IInv, Tick
  PROVE  IInv'
<1>1. /\ now \in Nat /\ now' = now + 1
      /\ UNCHANGED <<buckets, admitted, answers>>
  BY DEF Tick, IInv, TypeOK
<1>2. TypeOK'
  BY <1>1 DEF IInv, TypeOK
<1>3. WindowBound' /\ RefusalJustified'
  BY <1>1 DEF IInv, WindowBound, RefusalJustified
<1>4. ASSUME NEW k \in Keys PROVE Tracks(Hits(k)', admitted'[k], now')
  <2>1. Tracks(Hits(k), admitted[k], now)
    BY DEF IInv
  <2>2. Hits(k)' = Hits(k) /\ admitted[k]' = admitted[k]
    BY <1>1 DEF Hits
  <2>3. Hits(k) \in Seq(Nat) /\ admitted[k] \in Seq(Nat)
    BY HitsType DEF IInv, TypeOK
  <2>4. Window \in Nat /\ Len(Hits(k)) \in Nat /\ Len(admitted[k]) \in Nat
        /\ \A i \in 1..Len(admitted[k]) : admitted[k][i] \in Nat
    BY <2>3, LimiterAssumption
  <2>5. \A i \in 1..(Len(admitted[k]) - Len(Hits(k))) : i \in 1..Len(admitted[k])
    BY <2>4
  <2>6. Tracks(Hits(k), admitted[k], now + 1)
    BY <1>1, <2>1, <2>4, <2>5 DEF Tracks
  <2> QED BY <1>1, <2>2, <2>6
<1> QED BY <1>2, <1>3, <1>4 DEF IInv

(* A refused request leaves Limit younger hits behind as its reason.       *)
LEMMA RefuseIInv ==
  ASSUME IInv, NEW k \in Keys, NEW kept \in Seq(Nat),
         Tracks(kept, admitted[k], now), Len(kept) <= Limit,
         kept # <<>> => kept[1] >= now - Window,
         Full(kept),
         answers' = [answers EXCEPT ![k] = [allowed |-> FALSE, at |-> now]],
         buckets' = [j \in DOMAIN buckets \cup {k} |-> IF j = k THEN kept ELSE buckets[j]],
         UNCHANGED <<admitted, now>>
  PROVE  IInv'
<1>1. now \in Nat /\ admitted[k] \in Seq(Nat) /\ Limit \in Nat \ {0} /\ Window \in Nat
  BY LimiterAssumption DEF IInv, TypeOK
<1>2. TypeOK'
  BY <1>1 DEF IInv, TypeOK
<1>3. WindowBound'
  BY DEF IInv, WindowBound
<1>4. /\ Len(admitted[k]) >= Limit
      /\ admitted[k][Len(admitted[k]) - Limit + 1] >= now - Window
  <2>1. Len(kept) = Limit /\ kept # <<>>
    BY <1>1 DEF Full
  <2>2. kept[1] = admitted[k][Len(admitted[k]) - Limit + 1] /\ Len(admitted[k]) >= Limit
    BY <1>1, <2>1 DEF Tracks
  <2> QED BY <2>1, <2>2
<1>5. RefusalJustified'
  BY <1>4 DEF IInv, RefusalJustified, TypeOK
<1>6. \A j \in Keys : Hits(j)' = IF j = k THEN kept ELSE Hits(j)
  BY DEF Hits
<1>7. \A j \in Keys : Tracks(Hits(j)', admitted'[j], now')
  BY <1>6 DEF IInv
<1> QED BY <1>2, <1>3, <1>5, <1>7 DEF IInv

(* A request let through is the Limit-th at most in its window.            *)
LEMMA AdmitIInv ==
  ASSUME IInv, NEW k \in Keys, NEW kept \in Seq(Nat),
         Tracks(kept, admitted[k], now), ~Full(kept),
         answers' = [answers EXCEPT ![k] = [allowed |-> TRUE, at |-> now]],
         buckets' = [j \in DOMAIN buckets \cup {k} |->
                       IF j = k THEN Append(kept, now) ELSE buckets[j]],
         admitted' = [admitted EXCEPT ![k] = Append(@, now)],
         UNCHANGED now
  PROVE  IInv'
<1> DEFINE A  == admitted[k]
           A2 == Append(A, now)
<1>1. now \in Nat /\ A \in Seq(Nat) /\ Limit \in Nat \ {0} /\ Window \in Nat
  BY LimiterAssumption DEF IInv, TypeOK
<1>2. Len(Append(kept, now)) <= Limit /\ Append(kept, now) \in Seq(Nat) /\ A2 \in Seq(Nat)
  BY <1>1 DEF Full
<1>3. /\ admitted'[k] = A2
      /\ \A j \in Keys \ {k} : admitted'[j] = admitted[j]
      /\ \A j \in Keys : answers'[j] = IF j = k THEN [allowed |-> TRUE, at |-> now]
                                                ELSE answers[j]
  BY DEF IInv, TypeOK
<1>4. TypeOK'
  BY <1>1, <1>2 DEF IInv, TypeOK
<1>5. /\ Len(A2) = Len(A) + 1
      /\ \A i \in 1..Len(A) : A2[i] = A[i]
      /\ A2[Len(A) + 1] = now
      /\ DOMAIN A2 = 1..(Len(A) + 1) /\ DOMAIN A = 1..Len(A)
  BY <1>1
<1>6. \A i, j \in DOMAIN A2 : j >= i + Limit => A2[j] - A2[i] > Window
  <2> SUFFICES ASSUME NEW i \in DOMAIN A2, NEW j \in DOMAIN A2, j >= i + Limit
               PROVE  A2[j] - A2[i] > Window
    OBVIOUS
  <2>1. CASE j <= Len(A)
    <3>1. i \in DOMAIN A /\ j \in DOMAIN A /\ A2[i] = A[i] /\ A2[j] = A[j]
      BY <1>1, <1>5, <2>1
    <3> QED BY <3>1 DEF IInv, WindowBound
  <2>2. CASE j = Len(A) + 1
    <3>1. i \in 1..(Len(A) - Len(kept)) /\ i \in 1..Len(A)
      BY <1>1, <1>5, <2>2 DEF Full, Tracks
    <3>2. A[i] < now - Window
      BY <3>1 DEF Tracks
    <3>3. A[i] \in Nat /\ A2[i] = A[i] /\ A2[j] = now
      BY <1>1, <1>5, <2>2, <3>1
    <3> HIDE DEF A, A2
    <3>4. now - A[i] > Window
      BY <1>1, <3>2, <3>3
    <3> QED BY <3>3, <3>4
  <2>3. j \in 1..(Len(A) + 1) /\ Len(A) \in Nat
    BY <1>1, <1>5
  <2> QED BY <2>1, <2>2, <2>3
<1>7. WindowBound'
  BY <1>3, <1>6 DEF IInv, WindowBound
<1>8. RefusalJustified'
  BY <1>3 DEF IInv, RefusalJustified
<1>9. \A j \in Keys : Hits(j)' = IF j = k THEN Append(kept, now) ELSE Hits(j)
  BY DEF Hits
<1>10. Tracks(Append(kept, now), A2, now)
  BY <1>1, AppendTracks
<1>11. \A j \in Keys : Tracks(Hits(j)', admitted'[j], now')
  BY <1>3, <1>9, <1>10 DEF IInv
<1> QED BY <1>4, <1>7, <1>8, <1>11 DEF IInv

(* A check pops, then refuses or admits.                                   *)
LEMMA CheckIInv ==
  ASSUME IInv, NEW k \in Keys, Check(k)
  PROVE  IInv'
<1> PICK n \in 0..Len(Hits(k)) :
      LET kept == SubSeq(Hits(k), n + 1, Len(Hits(k))) IN
      /\ Popped(Hits(k), n)
      /\ answers' = [answers EXCEPT ![k] = [allowed |-> ~Full(kept), at |-> now]]
      /\ \/ /\ Full(kept)
            /\ buckets' = [j \in DOMAIN buckets \cup {k} |->
                             IF j = k THEN kept ELSE buckets[j]]
            /\ UNCHANGED admitted
         \/ /\ ~Full(kept)
            /\ buckets' = [j \in DOMAIN buckets \cup {k} |->
                             IF j = k THEN Append(kept, now) ELSE buckets[j]]
            /\ admitted' = [admitted EXCEPT ![k] = Append(@, now)]
      /\ UNCHANGED now
  BY DEF Check
<1> DEFINE kept == SubSeq(Hits(k), n + 1, Len(Hits(k)))
<1>1. /\ Hits(k) \in Seq(Nat) /\ Len(Hits(k)) <= Limit /\ admitted[k] \in Seq(Nat)
      /\ now \in Nat /\ Tracks(Hits(k), admitted[k], now)
  BY HitsType DEF IInv, TypeOK
<1>2. /\ kept \in Seq(Nat)
      /\ Len(kept) = Len(Hits(k)) - n
      /\ Tracks(kept, admitted[k], now)
      /\ kept # <<>> => kept[1] >= now - Window
  BY <1>1, PoppedTracks
<1> HIDE DEF kept
<1>3. CASE Full(kept)
  <2>1. answers' = [answers EXCEPT ![k] = [allowed |-> FALSE, at |-> now]]
    BY <1>3 DEF kept
  <2>2. /\ buckets' = [j \in DOMAIN buckets \cup {k} |-> IF j = k THEN kept ELSE buckets[j]]
        /\ UNCHANGED <<admitted, now>>
    BY <1>3 DEF kept
  <2>3. Len(kept) <= Limit
    BY <1>1, <1>2, LimiterAssumption
  <2> QED BY <1>2, <1>3, <2>1, <2>2, <2>3, RefuseIInv
<1>4. CASE ~Full(kept)
  <2>1. answers' = [answers EXCEPT ![k] = [allowed |-> TRUE, at |-> now]]
    BY <1>4 DEF kept
  <2>2. /\ buckets' = [j \in DOMAIN buckets \cup {k} |->
                         IF j = k THEN Append(kept, now) ELSE buckets[j]]
        /\ admitted' = [admitted EXCEPT ![k] = Append(@, now)]
        /\ UNCHANGED now
    BY <1>4 DEF kept
  <2> QED BY <1>2, <1>4, <2>1, <2>2, AdmitIInv
<1> QED BY <1>3, <1>4

(* The invariant is inductive.                                             *)
LEMMA NextIInv == IInv /\ [Next]_vars => IInv'
<1>1. ASSUME IInv, UNCHANGED vars PROVE IInv'
  BY <1>1 DEF vars, IInv, TypeOK, WindowBound, RefusalJustified, Hits, Tracks
<1> QED BY <1>1, TickIInv, CheckIInv DEF Next

(* The invariant of InMemoryRateLimiter: each bucket is the recent end of  *)
(* the history of its key.                                                 *)
THEOREM InductiveInvariant == Spec => []IInv
BY InitIInv, NextIInv, PTL DEF Spec

(* check() keeps its buckets well formed and within the limit.             *)
THEOREM TypeCorrect == Spec => []TypeOK
<1>1. IInv => TypeOK
  BY DEF IInv
<1> QED BY <1>1, InductiveInvariant, PTL

(* check() lets at most limit requests of a key through in any window_s.   *)
THEOREM WindowBounded == Spec => []WindowBound
<1>1. IInv => WindowBound
  BY DEF IInv
<1> QED BY <1>1, InductiveInvariant, PTL

(* check() refuses only a key whose budget for the window is used up.      *)
THEOREM RefusalsJustified == Spec => []RefusalJustified
<1>1. IInv => RefusalJustified
  BY DEF IInv
<1> QED BY <1>1, InductiveInvariant, PTL
=============================================================================
