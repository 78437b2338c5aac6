--------------------------- MODULE MeetupDB_proofs --------------------------
(* That the statements keep the tables consistent, for any events, members *)
(* and row ids.                                                            *)
EXTENDS MeetupDB, TLAPS

(* A row id was generated: so an insert under a fresh id cannot land on a  *)
(* row that embeddings or connections already point to.                    *)
IdsGenerated == DOMAIN attendees \subseteq uuids

DBInv == DBTypeOK /\ RowsConsistent /\ IdsGenerated

(* Creating an event, or updating one, disturbs no row.                    *)
LEMMA UpsertEventInv ==
  ASSUME DBInv, NEW e \in Events, UpsertEvent(e)
  PROVE  DBInv'
BY DEF DBInv, DBTypeOK, RowsConsistent, IdsGenerated, UpsertEvent

(* An upsert of a row either changes nothing or adds a row that is the     *)
(* only one of its person and event.                                       *)
LEMMA UpsertAttendeeInv ==
  ASSUME DBInv, NEW e \in Events, NEW m \in Members, NEW a \in AttendeeIds,
         UpsertAttendee(e, m, a)
  PROVE  DBInv'
<1>1. CASE UNCHANGED <<attendees, uuids>>
  BY <1>1 DEF DBInv, DBTypeOK, RowsConsistent, IdsGenerated, UpsertAttendee
<1>2. CASE ~UNCHANGED <<attendees, uuids>>
  <2> DEFINE row == [event |-> e, member |-> m]
  <2>1. /\ RowsOf(e, m) = {}
        /\ a \notin uuids
        /\ attendees' = [b \in DOMAIN attendees \cup {a} |->
                           IF b = a THEN row ELSE attendees[b]]
        /\ uuids' = uuids \cup {a}
        /\ e \in events
        /\ UNCHANGED <<events, embeddings, connections>>
    BY <1>2 DEF UpsertAttendee
  <2>2. a \notin DOMAIN attendees
    BY <2>1 DEF DBInv, IdsGenerated
  <2>3. /\ DOMAIN attendees' = DOMAIN attendees \cup {a}
        /\ attendees'[a] = row
        /\ \A b \in DOMAIN attendees : attendees'[b] = attendees[b]
    BY <2>1, <2>2
  <2>4. row \in Attendee
    BY DEF Attendee
  <2>5. DBTypeOK'
    BY <2>1, <2>3, <2>4 DEF DBInv, DBTypeOK
  <2>6. \A b \in DOMAIN attendees : attendees[b] # row
    BY <2>1 DEF RowsOf
  <2>7. \A b, c \in DOMAIN attendees' : attendees'[b] = attendees'[c] => b = c
    BY <2>3, <2>6 DEF DBInv, RowsConsistent
  <2>8. \A b \in DOMAIN attendees' : attendees'[b].event \in events'
    BY <2>1, <2>3 DEF DBInv, RowsConsistent
  <2>9. \A b \in DOMAIN embeddings' :
          b \in DOMAIN attendees' /\ embeddings'[b] = attendees'[b].event
    BY <2>1, <2>3 DEF DBInv, RowsConsistent
  <2>10. \A c \in connections' :
           /\ c.from # c.to
           /\ {c.from, c.to} \subseteq DOMAIN attendees'
           /\ attendees'[c.from].event = c.event
           /\ attendees'[c.to].event = c.event
    BY <2>1, <2>3 DEF DBInv, RowsConsistent
  <2>11. RowsConsistent'
    BY <2>7, <2>8, <2>9, <2>10 DEF RowsConsistent
  <2> QED BY <2>1, <2>3, <2>5, <2>11 DEF DBInv, IdsGenerated
<1> QED BY <1>1, <1>2

(* The embedding written carries its row's event, and an update leaves the *)
(* one that is there.                                                      *)
LEMMA UpsertEmbeddingInv ==
  ASSUME DBInv, NEW a \in DOMAIN attendees, UpsertEmbedding(a, attendees[a].event)
  PROVE  DBInv'
<1>1. attendees[a].event \in Events
  BY DEF DBInv, DBTypeOK, Attendee
<1>2. /\ DOMAIN embeddings' = DOMAIN embeddings \cup {a}
      /\ \A b \in DOMAIN embeddings : embeddings'[b] = embeddings[b]
      /\ a \notin DOMAIN embeddings => embeddings'[a] = attendees[a].event
      /\ embeddings' \in [DOMAIN embeddings' -> Events]
  BY <1>1 DEF UpsertEmbedding, DBInv, DBTypeOK
<1> QED
  BY <1>2 DEF UpsertEmbedding, DBInv, DBTypeOK, RowsConsistent, IdsGenerated

(* A connection between two rows of one event.                             *)
LEMMA InsertConnectionInv ==
  ASSUME DBInv, NEW a \in DOMAIN attendees, NEW b \in DOMAIN attendees,
         a # b, attendees[a].event = attendees[b].event,
         InsertConnection(attendees[a].event, a, b)
  PROVE  DBInv'
<1> DEFINE c == [event |-> attendees[a].event, from |-> a, to |-> b]
<1>1. c \in Connection
  BY DEF DBInv, DBTypeOK, Attendee, Connection
<1>2. connections' = connections \cup {c} /\ UNCHANGED <<events, attendees, embeddings, uuids>>
  BY DEF InsertConnection
<1>3. DBTypeOK'
  BY <1>1, <1>2 DEF DBInv, DBTypeOK
<1>4. RowsConsistent'
  BY <1>2 DEF DBInv, RowsConsistent
<1> QED BY <1>2, <1>3, <1>4 DEF DBInv, IdsGenerated

(* A purge takes with a row whatever points to it, and with an event its   *)
(* rows.                                                                   *)
LEMMA PurgeInv ==
  ASSUME DBInv, NEW gone \in SUBSET DOMAIN attendees, NEW es \in SUBSET events,
         Purge(gone, es)
  PROVE  DBInv'
<1> DEFINE dead == Cascade(gone, es)
<1>1. /\ events' = events \ es
      /\ attendees' = [a \in DOMAIN attendees \ dead |-> attendees[a]]
      /\ embeddings' = [a \in DOMAIN embeddings \ dead |-> embeddings[a]]
      /\ connections' = {c \in connections : c.from \notin dead /\ c.to \notin dead}
      /\ uuids' = uuids
  BY DEF Purge
<1>2. \A a \in DOMAIN attendees \ dead : attendees[a].event \notin es
  BY DEF Cascade
<1> HIDE DEF dead
<1>3. /\ DOMAIN attendees' = DOMAIN attendees \ dead
      /\ \A a \in DOMAIN attendees' : attendees'[a] = attendees[a]
      /\ DOMAIN embeddings' = DOMAIN embeddings \ dead
      /\ \A a \in DOMAIN embeddings' : embeddings'[a] = embeddings[a]
  BY <1>1
<1>4. DBTypeOK'
  BY <1>1, <1>3 DEF DBInv, DBTypeOK
<1>5. \A a \in DOMAIN attendees' : attendees'[a].event \in events'
  BY <1>1, <1>2, <1>3 DEF DBInv, RowsConsistent
<1>6. RowsConsistent'
  BY <1>1, <1>3, <1>5 DEF DBInv, RowsConsistent
<1> QED BY <1>1, <1>3, <1>4, <1>6 DEF DBInv, IdsGenerated

(* No statement breaks the invariant, and it holds of a fresh database.    *)
LEMMA DBNextInv ==
  ASSUME DBInv, [DBNext]_dbVars
  PROVE  DBInv'
<1>1. CASE UNCHANGED dbVars
  BY <1>1 DEF dbVars, DBInv, DBTypeOK, RowsConsistent, IdsGenerated
<1>2. CASE DBNext
  BY <1>2, UpsertEventInv, UpsertAttendeeInv, UpsertEmbeddingInv, InsertConnectionInv,
     PurgeInv DEF DBNext
<1> QED BY <1>1, <1>2

(* A database with any set of events and no row satisfies the invariant.   *)
LEMMA DBInitInv == DBInit => DBInv
BY DEF DBInit, DBInv, DBTypeOK, RowsConsistent, IdsGenerated

(* The invariant of any client that issues these statements: the tables    *)
(* are consistent and row ids are never reused.                            *)
THEOREM DBInvariant == DBSpec => []DBInv
BY DBInitInv, DBNextInv, PTL DEF DBSpec

(* The columns of db/queries.py and agents_shared/vector.py keep their     *)
(* shape through every interleaving of statements and purges.              *)
THEOREM DBTypeCorrect == DBSpec => []DBTypeOK
<1>1. DBInv => DBTypeOK
  BY DEF DBInv
<1> QED BY <1>1, DBInvariant, PTL

(* The upserts of db/queries.py and agents_shared/vector.py and the purge  *)
(* keep the tables consistent whatever the order they are issued in.       *)
THEOREM RowsCorrect == DBSpec => []RowsConsistent
<1>1. DBInv => RowsConsistent
  BY DEF DBInv
<1> QED BY <1>1, DBInvariant, PTL
=============================================================================
