-------------------------- MODULE Retention_proofs --------------------------
(* That no row outlives its retention period and that the purge is one of  *)
(* the statements MeetupDB allows, for any events, members and periods.    *)
EXTENDS Retention, MeetupDB_proofs

(* A row that is there was young enough at the last purge, which was at    *)
(* most PurgeEvery days ago, and check-ins since have not moved its time.  *)
RowYoung(a) ==
    /\ storedAt[a] = checkedInAt[a]
    /\ lastPurge <= checkedInAt[a] + RetentionDays

Columns ==
    /\ now \in Nat /\ lastPurge \in 0..now
    /\ createdAt \in [events -> 0..now]
    /\ expiresAt \in [events -> Nat \cup {NoDate}]
    /\ checkedInAt \in [DOMAIN attendees -> 0..now]
    /\ DOMAIN attendees \subseteq DOMAIN storedAt
    /\ heldOn \in [Events -> Nat]

IInv ==
    /\ DBInv
    /\ Columns
    /\ now <= lastPurge + PurgeEvery
    /\ \A a \in DOMAIN attendees : RowYoung(a)

-----------------------------------------------------------------------------
(* Every step is a statement of MeetupDB or leaves the tables alone.       *)
LEMMA StepIsDBStep == [Next]_vars => [DBNext]_dbVars
<1>1. ASSUME NEW e \in Events, NEW x \in Expiries, CreateEvent(e, x) PROVE DBNext
  BY <1>1 DEF CreateEvent, DBNext
<1>2. ASSUME NEW e \in Events, NEW m \in Members, NEW a \in AttendeeIds, StoreAttendee(e, m, a)
      PROVE  DBNext
  BY <1>2 DEF StoreAttendee, DBNext
<1>3. ASSUME NEW a \in DOMAIN attendees, StoreVector(a, attendees[a].event) PROVE DBNext
  BY <1>3 DEF StoreVector, DBNext
<1>4. ASSUME PurgeExpired PROVE DBNext
  <2> DEFINE due == {e \in events : EventDue(e)}
  <2>1. Purge(ExpiredRows, due)
    BY <1>4 DEF PurgeExpired
  <2>2. ExpiredRows \in SUBSET DOMAIN attendees /\ due \in SUBSET events
    BY DEF ExpiredRows
  <2> QED BY <2>1, <2>2 DEF DBNext
<1>5. ASSUME Tick PROVE UNCHANGED dbVars
  BY <1>5 DEF Tick
<1>6. ASSUME UNCHANGED vars PROVE UNCHANGED dbVars
  BY <1>6 DEF vars
<1> QED BY <1>1, <1>2, <1>3, <1>4, <1>5, <1>6 DEF Next

(* The timed purge implements the abstract database.                       *)
THEOREM ImplementsDB == Spec => DBSpec
<1>1. Init => DBInit
  BY DEF Init
<1> QED BY <1>1, StepIsDBStep, PTL DEF Spec, DBSpec

(* So the tables stay consistent under it: deleting an event deletes its   *)
(* younger attendees, their vectors and connections.                       *)
THEOREM RowsStayConsistent == Spec => []RowsConsistent
BY ImplementsDB, RowsCorrect, PTL

-----------------------------------------------------------------------------
(* The invariant holds of empty tables.                                    *)
LEMMA InitIInv == Init => IInv
<1> SUFFICES ASSUME Init PROVE IInv
  OBVIOUS
<1>1. DBInv
  BY DBInitInv DEF Init
<1>2. Columns
  BY DEF Init, DBInit, Columns
<1> QED BY <1>1, <1>2, RetentionAssumption DEF Init, DBInit, IInv

(* A new event has no row yet; an update keeps created_at.                 *)
LEMMA CreateEventIInv ==
  ASSUME IInv, NEW e \in Events, NEW x \in Expiries, CreateEvent(e, x), DBInv'
  PROVE  IInv'
<1>1. /\ events' = events \cup {e}
      /\ UNCHANGED <<attendees, now, checkedInAt, lastPurge, storedAt, heldOn>>
  BY DEF CreateEvent, UpsertEvent
<1>2. x \in Nat \cup {NoDate}
  BY RetentionAssumption DEF Expiries, IInv, Columns
<1>3. createdAt' \in [events' -> 0..now]
  <2>1. CASE e \in events
    BY <1>1, <2>1 DEF CreateEvent, IInv, Columns
  <2>2. CASE e \notin events
    BY <1>1, <2>2 DEF CreateEvent, With, IInv, Columns
  <2> QED BY <2>1, <2>2
<1>4. expiresAt' \in [events' -> Nat \cup {NoDate}]
  BY <1>1, <1>2 DEF CreateEvent, With, IInv, Columns
<1>5. Columns'
  BY <1>1, <1>3, <1>4 DEF IInv, Columns
<1> QED BY <1>1, <1>5 DEF IInv, RowYoung

(* A repeated check-in leaves the time columns alone; a first one sets     *)
(* them to today.                                                          *)
LEMMA StoreAttendeeIInv ==
  ASSUME IInv, NEW e \in Events, NEW m \in Members, NEW a \in AttendeeIds,
         StoreAttendee(e, m, a), DBInv'
  PROVE  IInv'
<1>1. UNCHANGED <<events, now, createdAt, expiresAt, lastPurge, heldOn>>
  BY DEF StoreAttendee, UpsertAttendee
<1>2. CASE a \in DOMAIN attendees
  <2>1. UNCHANGED <<attendees, checkedInAt, storedAt>>
    BY <1>2 DEF StoreAttendee, UpsertAttendee, CheckedInAt, IInv, DBInv, IdsGenerated
  <2> QED BY <1>1, <2>1 DEF IInv, Columns, RowYoung
<1>3. CASE a \notin DOMAIN attendees
  <2>1. DOMAIN attendees' = DOMAIN attendees \cup {a}
    BY <1>3 DEF StoreAttendee, UpsertAttendee, RowsOf
  <2>2. checkedInAt' = With(checkedInAt, a, now) /\ storedAt' = With(storedAt, a, now)
    BY <1>3 DEF StoreAttendee, CheckedInAt
  <2>3. /\ checkedInAt'[a] = now /\ storedAt'[a] = now
        /\ \A b \in DOMAIN attendees :
             checkedInAt'[b] = checkedInAt[b] /\ storedAt'[b] = storedAt[b]
    BY <1>3, <2>2 DEF With, IInv, Columns
  <2>4. Columns'
    BY <1>1, <2>1, <2>2 DEF With, IInv, Columns
  <2>5. RowYoung(a)'
    BY <1>1, <2>3, RetentionAssumption DEF RowYoung, IInv, Columns
  <2>6. \A b \in DOMAIN attendees : RowYoung(b)'
    BY <1>1, <2>3 DEF RowYoung, IInv
  <2> QED BY <1>1, <2>1, <2>4, <2>5, <2>6 DEF IInv
<1> QED BY <1>2, <1>3

(* After the purge every row that is left is young enough today.           *)
LEMMA PurgeExpiredIInv ==
  ASSUME IInv, PurgeExpired, DBInv'
  PROVE  IInv'
<1> DEFINE due  == {e \in events : EventDue(e)}
           dead == Cascade(ExpiredRows, due)
<1>1. /\ events' = events \ due
      /\ attendees' = [a \in DOMAIN attendees \ dead |-> attendees[a]]
      /\ lastPurge' = now
      /\ createdAt' = Only(createdAt, events')
      /\ expiresAt' = Only(expiresAt, events')
      /\ checkedInAt' = Only(checkedInAt, DOMAIN attendees')
      /\ UNCHANGED <<now, storedAt, heldOn>>
  BY DEF PurgeExpired, Purge
<1>2. ExpiredRows \subseteq dead
  BY DEF Cascade
<1> HIDE DEF due, dead
<1>3. /\ DOMAIN attendees' = DOMAIN attendees \ dead
      /\ events' \subseteq events
      /\ DOMAIN attendees' \subseteq DOMAIN attendees
  BY <1>1
<1>4. Columns'
  BY <1>1, <1>3 DEF IInv, Columns, Only
<1>5. ASSUME NEW a \in DOMAIN attendees' PROVE RowYoung(a)'
  <2>1. a \in DOMAIN attendees /\ a \notin ExpiredRows /\ checkedInAt'[a] = checkedInAt[a]
    BY <1>1, <1>2, <1>3, <1>5 DEF Only, IInv, Columns
  <2>2. now <= checkedInAt[a] + RetentionDays
    BY <2>1, RetentionAssumption DEF ExpiredRows, IInv, Columns
  <2> QED BY <1>1, <2>1, <2>2 DEF IInv, RowYoung
<1>6. now' <= lastPurge' + PurgeEvery
  BY <1>1, RetentionAssumption DEF IInv, Columns
<1> QED BY <1>4, <1>5, <1>6 DEF IInv

(* A day passes only if the job is not late.                               *)
LEMMA TickIInv ==
  ASSUME IInv, Tick, DBInv'
  PROVE  IInv'
<1>1. /\ now' = now + 1 /\ now < lastPurge + PurgeEvery
      /\ UNCHANGED <<dbVars, createdAt, expiresAt, checkedInAt, lastPurge, storedAt, heldOn>>
  BY DEF Tick
<1>2. Columns'
  BY <1>1 DEF IInv, Columns, dbVars
<1>3. now' <= lastPurge' + PurgeEvery
  BY <1>1, RetentionAssumption DEF IInv, Columns
<1>4. \A a \in DOMAIN attendees' : RowYoung(a)'
  BY <1>1 DEF IInv, RowYoung, dbVars
<1> QED BY <1>2, <1>3, <1>4 DEF IInv

(* The invariant is inductive.                                             *)
LEMMA NextIInv ==
  ASSUME IInv, [Next]_vars
  PROVE  IInv'
<1>1. DBInv'
  BY StepIsDBStep, DBNextInv DEF IInv
<1>2. ASSUME NEW a \in DOMAIN attendees, StoreVector(a, attendees[a].event) PROVE IInv'
  BY <1>1, <1>2 DEF StoreVector, UpsertEmbedding, timeVars, IInv, Columns, RowYoung
<1>3. ASSUME UNCHANGED vars PROVE IInv'
  BY <1>1, <1>3 DEF vars, dbVars, timeVars, IInv, Columns, RowYoung
<1> QED
  BY <1>1, <1>2, <1>3, CreateEventIInv, StoreAttendeeIInv, PurgeExpiredIInv, TickIInv DEF Next

(* The invariant of the tables' time columns under the daily purge.        *)
THEOREM RetentionInvariant == Spec => []IInv
BY InitIInv, NextIInv, PTL DEF Spec

(* The purge keeps rows and time columns together.                         *)
THEOREM RetentionTypeCorrect == Spec => []TypeOK
<1>1. IInv => TypeOK
  BY DEF IInv, DBInv, Columns, TypeOK
<1> QED BY <1>1, RetentionInvariant, PTL

(* Nobody's data stays longer than the retention period and one round of   *)
(* the job after they first checked in, whatever they do meanwhile.        *)
THEOREM RetentionCorrect == Spec => []RetentionBound
<1>1. IInv => RetentionBound
  BY RetentionAssumption DEF IInv, Columns, RowYoung, RetentionBound
<1> QED BY <1>1, RetentionInvariant, PTL

-----------------------------------------------------------------------------
(* What of the promise does hold, with or without a date: a row goes when  *)
(* RetentionDays have passed since its person first checked in, however    *)
(* often they have again, or when the event's own date or, without one,    *)
(* RetentionDays since the event was first created, however often it was   *)
(* updated; nothing is deleted before the earlier of the two.              *)
NothingGoesEarlier ==
  [][\A a \in DOMAIN attendees \ DOMAIN attendees' :
       LET e == attendees[a].event IN
       \/ now > storedAt[a] + RetentionDays
       \/ expiresAt[e] # NoDate /\ now > expiresAt[e]
       \/ expiresAt[e] = NoDate /\ now > createdAt[e] + RetentionDays]_vars

(* Only the purge deletes rows, so whatever upserts come before it, nobody *)
(* loses data before one of the two dates has passed, for any periods and  *)
(* whatever date an organiser sets.                                        *)
THEOREM PurgeKeepsWhatIsYoung == Spec => NothingGoesEarlier
<1> DEFINE Kept ==
      \A a \in DOMAIN attendees \ DOMAIN attendees' :
        LET e == attendees[a].event IN
        \/ now > storedAt[a] + RetentionDays
        \/ expiresAt[e] # NoDate /\ now > expiresAt[e]
        \/ expiresAt[e] = NoDate /\ now > createdAt[e] + RetentionDays
<1>1. ASSUME IInv, [Next]_vars PROVE Kept
  <2> SUFFICES ASSUME NEW a \in DOMAIN attendees, a \notin DOMAIN attendees'
               PROVE  LET e == attendees[a].event IN
                      \/ now > storedAt[a] + RetentionDays
                      \/ expiresAt[e] # NoDate /\ now > expiresAt[e]
                      \/ expiresAt[e] = NoDate /\ now > createdAt[e] + RetentionDays
    OBVIOUS
  <2> DEFINE e == attendees[a].event
  <2>1. e \in events
    BY <1>1 DEF IInv, DBInv, RowsConsistent
  <2>2. PurgeExpired
    BY <1>1 DEF Next, CreateEvent, UpsertEvent, StoreAttendee, UpsertAttendee, RowsOf, StoreVector,
                UpsertEmbedding, Tick, vars, dbVars
  <2>3. a \in ExpiredRows \/ EventDue(e)
    BY <2>1, <2>2 DEF PurgeExpired, Purge, Cascade
  <2>4. /\ createdAt[e] \in Nat /\ expiresAt[e] \in Nat \cup {NoDate}
        /\ now \in Nat /\ RetentionDays \in Nat
    BY <1>1, <2>1, RetentionAssumption DEF IInv, Columns
  <2>5. CASE a \in ExpiredRows
    <3>1. storedAt[a] = checkedInAt[a] /\ checkedInAt[a] \in Nat
      BY <1>1 DEF IInv, RowYoung, Columns
    <3> QED BY <2>4, <2>5, <3>1 DEF ExpiredRows
  <2>6. CASE EventDue(e)
    BY <2>4, <2>6 DEF EventDue
  <2> QED BY <2>3, <2>5, <2>6
<1>2. IInv /\ [Next]_vars => [Kept]_vars
  BY <1>1
<1> QED BY <1>2, RetentionInvariant, PTL DEF Spec, NothingGoesEarlier
=============================================================================
