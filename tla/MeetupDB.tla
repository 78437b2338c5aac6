------------------------------ MODULE MeetupDB ------------------------------
(***************************************************************************)
(* The Postgres tables of agents-db/migrations and the statements of       *)
(* db/queries.py and agents_shared/vector.py that write them.  Each        *)
(* statement runs in autocommit and is one step; the purge function is one *)
(* transaction.  Modules that talk to the database EXTEND this one.        *)
(*                                                                         *)
(* A table is a function from the key its statements conflict on.          *)
(***************************************************************************)
EXTENDS FiniteSets

CONSTANTS
    Events,       \* meetup_events.id
    Members,      \* LinkedIn ids
    AttendeeIds   \* meetup_attendees.id

VARIABLES
    events,       \* meetup_events: the ids present
    attendees,    \* meetup_attendees: id -> event and LinkedIn id
    embeddings,   \* meetup_embeddings: attendee id -> its own event_id column
    connections,  \* meetup_connections: (event, from, to)
    uuids         \* every id gen_random_uuid() has returned

dbVars == <<events, attendees, embeddings, connections, uuids>>

Attendee   == [event : Events, member : Members]
Connection == [event : Events, from : AttendeeIds, to : AttendeeIds]

DBInit ==
    /\ events \in SUBSET Events
    /\ attendees = [a \in {} |-> {}]
    /\ embeddings = [a \in {} |-> {}]
    /\ connections = {}
    /\ uuids = events

RowsOf(e, m) ==
    {a \in DOMAIN attendees : attendees[a].event = e /\ attendees[a].member = m}

(* The id a re-run of upsert_event on a new qr_seed returns is new; on an  *)
(* existing one it rewrites columns that are not modelled.                 *)
UpsertEvent(e) ==
    /\ e \in events \/ e \notin uuids
    /\ events' = events \cup {e}
    /\ uuids' = uuids \cup {e}
    /\ UNCHANGED <<attendees, embeddings, connections>>

(* INSERT ... ON CONFLICT (event_id, linkedin_id) DO UPDATE.  The mutant   *)
(* inserts without the conflict clause.                                    *)
UpsertAttendee_PlainInsert(e, m, a) ==
    /\ e \in events
    /\ a \notin uuids
    /\ attendees' = [b \in DOMAIN attendees \cup {a} |->
                       IF b = a THEN [event |-> e, member |-> m] ELSE attendees[b]]
    /\ uuids' = uuids \cup {a}
    /\ UNCHANGED <<events, embeddings, connections>>
UpsertAttendee(e, m, a) ==
    /\ e \in events
    /\ \/ /\ a \in RowsOf(e, m)
          /\ UNCHANGED <<attendees, uuids>>
       \/ /\ RowsOf(e, m) = {}
          /\ a \notin uuids
          /\ attendees' = [b \in DOMAIN attendees \cup {a} |->
                             IF b = a THEN [event |-> e, member |-> m] ELSE attendees[b]]
          /\ uuids' = uuids \cup {a}
    /\ UNCHANGED <<events, embeddings, connections>>

(* INSERT ... ON CONFLICT (attendee_id) DO UPDATE: the update leaves the   *)
(* event_id column alone.  The mutant lacks the foreign key.               *)
UpsertEmbedding_NoForeignKey(a, e) ==
    /\ embeddings' = [b \in DOMAIN embeddings \cup {a} |->
                        IF b \in DOMAIN embeddings THEN embeddings[b] ELSE e]
    /\ UNCHANGED <<events, attendees, connections, uuids>>
UpsertEmbedding(a, e) ==
    /\ a \in DOMAIN attendees
    /\ embeddings' = [b \in DOMAIN embeddings \cup {a} |->
                        IF b \in DOMAIN embeddings THEN embeddings[b] ELSE e]
    /\ UNCHANGED <<events, attendees, connections, uuids>>

(* INSERT ... ON CONFLICT (event_id, from, to) DO UPDATE.  The mutant      *)
(* swaps the first two parameters of the statement.                        *)
InsertConnection_Swapped(e, from, to) ==
    /\ {from, to} \subseteq DOMAIN attendees
    /\ connections' = connections \cup {[event |-> from, from |-> e, to |-> to]}
    /\ UNCHANGED <<events, attendees, embeddings, uuids>>
InsertConnection(e, from, to) ==
    /\ {from, to} \subseteq DOMAIN attendees
    /\ connections' = connections \cup {[event |-> e, from |-> from, to |-> to]}
    /\ UNCHANGED <<events, attendees, embeddings, uuids>>

(* Rows that ON DELETE CASCADE removes with the events and attendees that  *)
(* a statement deletes.  The mutant lacks the cascade from the event.      *)
Cascade_Shallow(gone, es) == gone
Cascade(gone, es) ==
    gone \cup {a \in DOMAIN attendees : attendees[a].event \in es}

(* meetup_purge_expired deletes old attendees, then expired events.        *)
Purge(gone, es) ==
    LET dead == Cascade(gone, es) IN
    /\ events' = events \ es
    /\ attendees' = [a \in DOMAIN attendees \ dead |-> attendees[a]]
    /\ embeddings' = [a \in DOMAIN embeddings \ dead |-> embeddings[a]]
    /\ connections' = {c \in connections : c.from \notin dead /\ c.to \notin dead}
    /\ UNCHANGED uuids

(* A client of the database may issue its statements in any order; the     *)
(* event it passes with an embedding or a connection is that of the row it *)
(* read or wrote before.                                                   *)
DBNext ==
    \/ \E e \in Events : UpsertEvent(e)
    \/ \E e \in Events, m \in Members, a \in AttendeeIds : UpsertAttendee(e, m, a)
    \/ \E a \in DOMAIN attendees : UpsertEmbedding(a, attendees[a].event)
    \/ \E a, b \in DOMAIN attendees :
          /\ a # b /\ attendees[a].event = attendees[b].event
          /\ InsertConnection(attendees[a].event, a, b)
    \/ \E gone \in SUBSET DOMAIN attendees, es \in SUBSET events : Purge(gone, es)

DBSpec == DBInit /\ [][DBNext]_dbVars

-----------------------------------------------------------------------------
(* Properties *)

(* Every table keeps to the shape of its columns.                          *)
DBTypeOK ==
    /\ events \subseteq Events
    /\ uuids \subseteq Events \cup AttendeeIds
    /\ DOMAIN attendees \subseteq AttendeeIds
    /\ attendees \in [DOMAIN attendees -> Attendee]
    /\ DOMAIN embeddings \subseteq AttendeeIds
    /\ embeddings \in [DOMAIN embeddings -> Events]
    /\ connections \subseteq Connection

(* Whatever upserts, cascades and purges do between two statements of one  *)
(* request: an attendee's event exists, a person is in an event once, an   *)
(* embedding belongs to a row and carries that row's event although no     *)
(* foreign key ties the two event_id columns, and a connection joins two   *)
(* rows of its own event.                                                  *)
RowsConsistent ==
    /\ \A a \in DOMAIN attendees : attendees[a].event \in events
    /\ \A a, b \in DOMAIN attendees : attendees[a] = attendees[b] => a = b
    /\ \A a \in DOMAIN embeddings :
         a \in DOMAIN attendees /\ embeddings[a] = attendees[a].event
    /\ \A c \in connections :
         /\ c.from # c.to
         /\ {c.from, c.to} \subseteq DOMAIN attendees
         /\ attendees[c.from].event = c.event
         /\ attendees[c.to].event = c.event
=============================================================================
