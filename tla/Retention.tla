------------------------------ MODULE Retention -----------------------------
(* The life of personal data: the time columns of the tables, the writes   *)
(* that set them and meetup_purge_expired() of agents-db/migrations, which *)
(* a daily job outside the repository calls.  The rows themselves are      *)
(* those of MeetupDB; time is in days.                                     *)
EXTENDS MeetupDB, Integers

CONSTANTS
    RetentionDays,  \* retention_days of the purge
    PurgeEvery,     \* days between two runs of the job
    MaxDays,        \* bound on the clock
    NoDate          \* SQL's NULL

ASSUME RetentionAssumption ==
    /\ {RetentionDays, PurgeEvery, MaxDays} \subseteq Nat
    /\ NoDate \notin Nat

VARIABLES
    now,         \* NOW()
    createdAt,   \* meetup_events.created_at
    expiresAt,   \* meetup_events.expires_at
    checkedInAt, \* meetup_attendees.checked_in_at
    lastPurge,   \* when the job last ran
    storedAt,    \* history: when each row id was first written
    heldOn       \* the day each event takes place, which no column decides by

timeVars == <<now, createdAt, expiresAt, checkedInAt, lastPurge, storedAt, heldOn>>
vars == <<dbVars, timeVars>>

With(f, k, v) == [j \in DOMAIN f \cup {k} |-> IF j = k THEN v ELSE f[j]]
Only(f, S) == [j \in DOMAIN f \cap S |-> f[j]]

Init ==
    /\ DBInit
    /\ events = {}
    /\ now = 0 /\ lastPurge = 0
    /\ createdAt = [e \in {} |-> 0]
    /\ expiresAt = [e \in {} |-> 0]
    /\ checkedInAt = [a \in {} |-> 0]
    /\ storedAt = [a \in {} |-> 0]
    /\ heldOn \in [Events -> 0..MaxDays]

(* upsert_event, or scripts/create_event.py, which leaves expires_at NULL. *)
CreateEvent(e, expiry) ==
    /\ UpsertEvent(e)
    /\ createdAt' = IF e \in events THEN createdAt ELSE With(createdAt, e, now)
    /\ expiresAt' = With(expiresAt, e, expiry)
    /\ UNCHANGED <<now, checkedInAt, lastPurge, storedAt, heldOn>>

(* checked_in_at has a default and is not among the columns an update      *)
(* sets.  The mutant sets it on every check-in.                            *)
CheckedInAt_Refreshed(a) == With(checkedInAt, a, now)
CheckedInAt(a) == IF a \in DOMAIN attendees THEN checkedInAt ELSE With(checkedInAt, a, now)

StoreAttendee(e, m, a) ==
    /\ UpsertAttendee(e, m, a)
    /\ checkedInAt' = CheckedInAt(a)
    /\ storedAt' = IF a \in DOMAIN attendees THEN storedAt ELSE With(storedAt, a, now)
    /\ UNCHANGED <<now, createdAt, expiresAt, lastPurge, heldOn>>

StoreVector(a, e) ==
    /\ UpsertEmbedding(a, e)
    /\ UNCHANGED timeVars

(* The WHERE clauses of the two DELETEs.                                   *)
ExpiredRows == {a \in DOMAIN attendees : checkedInAt[a] < now - RetentionDays}

EventDue(e) ==
    IF expiresAt[e] = NoDate THEN createdAt[e] + RetentionDays < now ELSE expiresAt[e] < now

(* The mutant leaves the time columns of purged rows behind.               *)
PurgeExpired_KeepsColumns ==
    /\ Purge(ExpiredRows, {e \in events : EventDue(e)})
    /\ lastPurge' = now
    /\ UNCHANGED <<now, createdAt, expiresAt, checkedInAt, storedAt, heldOn>>
PurgeExpired ==
    LET due == {e \in events : EventDue(e)} IN
    /\ Purge(ExpiredRows, due)
    /\ createdAt' = Only(createdAt, events')
    /\ expiresAt' = Only(expiresAt, events')
    /\ checkedInAt' = Only(checkedInAt, DOMAIN attendees')
    /\ lastPurge' = now
    /\ UNCHANGED <<now, storedAt, heldOn>>

(* The job runs in time.                                                   *)
Tick ==
    /\ now < MaxDays
    /\ now < lastPurge + PurgeEvery
    /\ now' = now + 1
    /\ UNCHANGED <<dbVars, createdAt, expiresAt, checkedInAt, lastPurge, storedAt, heldOn>>

(* What may be passed: nothing, or any date, as no code relates it to the  *)
(* day of the event.                                                       *)
Expiries == {NoDate} \cup 0..(MaxDays + RetentionDays)

Next ==
    \/ \E e \in Events : \E x \in Expiries : CreateEvent(e, x)
    \/ \E e \in Events, m \in Members, a \in AttendeeIds : StoreAttendee(e, m, a)
    \/ \E a \in DOMAIN attendees : StoreVector(a, attendees[a].event)
    \/ PurgeExpired
    \/ Tick

Spec == Init /\ [][Next]_vars

-----------------------------------------------------------------------------
(* Properties *)

(* The time columns belong to the rows that exist.                         *)
TypeOK ==
    /\ DBTypeOK
    /\ now \in Nat /\ lastPurge \in 0..now
    /\ createdAt \in [events -> 0..now]
    /\ expiresAt \in [events -> Nat \cup {NoDate}]
    /\ checkedInAt \in [DOMAIN attendees -> 0..now]
    /\ DOMAIN attendees \subseteq DOMAIN storedAt
    /\ heldOn \in [Events -> Nat]

(* However often a person checks in again or an event is updated, no row   *)
(* outlives the retention period, counted from when it was first written,  *)
(* by more than one round of the job.                                      *)
RetentionBound ==
    \A a \in DOMAIN attendees : now <= storedAt[a] + RetentionDays + PurgeEvery

(* README.md:118 and the greeting of agent.py:349-350: data is deleted     *)
(* RetentionDays after the event, so not before, unless the organiser has  *)
(* set an earlier date.                                                    *)
KeptUntilAfterEvent ==
    [][\A a \in DOMAIN attendees \ DOMAIN attendees' :
         LET e == attendees[a].event IN
         \/ now > heldOn[e] + RetentionDays
         \/ expiresAt[e] # NoDate /\ expiresAt[e] < heldOn[e] + RetentionDays]_vars
=============================================================================
